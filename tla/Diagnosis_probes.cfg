SPECIFICATION Spec
CONSTANTS
    None = None
    MaxHosts = 2
INVARIANTS DeepestRejectionWins EndsWhatItBegan BlamesOnEvidence
PROPERTIES CommandEnds
