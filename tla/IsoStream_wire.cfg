SPECIFICATION Spec
CONSTANTS
    None = None
    Requests <- MCRequests
    Answers <- MCAnswers
    Sizes = {128, 8192}
    Pieces = {1, 50, 1000}
INVARIANTS InOrderAndWhole Understood
PROPERTIES EverythingArrives
