--------------------------- MODULE IsoStreamProofs ---------------------------
(***************************************************************************)
(* Proofs about IsoStream and the encodings it is made of, for any         *)
(* requests, answers, TPDU sizes and sizes of what a receive returns.      *)
(* Induction over data is done here on sets and functions (SizeInduction,  *)
(* Recursion): what the recursive definitions compute follows from it.     *)
(***************************************************************************)
EXTENDS IsoStream, SequenceTheorems, NaturalsInduction, WellFoundedInduction, TLAPS

-----------------------------------------------------------------------------
(* Recursion, and sequences put together *)

(* Induction on a size: what holds of every element once it holds of the   *)
(* smaller ones holds of all of them. Sets and functions instead of        *)
(* operators, which the provers could not instantiate.                     *)
LEMMA SizeInduction ==
    ASSUME NEW S, NEW size \in [S -> Nat], NEW T,
           \A x \in S : (\A y \in S : size[y] < size[x] => y \in T) => x \in T
    PROVE  \A x \in S : x \in T
<1>1. SUFFICES ASSUME NEW x0 \in S, x0 \notin T PROVE FALSE
    OBVIOUS
<1> DEFINE Less == {pair \in Nat \X Nat : pair[1] < pair[2]}
           Sizes0 == {n \in Nat : \E x \in S : x \notin T /\ size[x] = n}
<1>2. IsWellFoundedOn(Less, Nat)
    BY NatLessThanWellFounded DEF OpToRel
<1>3. Sizes0 \subseteq Nat /\ Sizes0 # {}
    BY <1>1
<1>4. PICK n \in Sizes0 : \A m \in Sizes0 : ~(<<m, n>> \in Less)
    <2> HIDE DEF Less, Sizes0
    <2> QED BY <1>2, <1>3, WFMin
<1>5. PICK x \in S : x \notin T /\ size[x] = n
    BY <1>4
<1>6. \A y \in S : size[y] < size[x] => y \in T
    BY <1>4, <1>5
<1> QED BY <1>5, <1>6

(* The body F of a recursive definition on S, as a function of what is     *)
(* defined so far and an argument, reads only what is smaller.             *)
Contracts(F, S, V, size) ==
    /\ \A f \in [S -> V] : \A x \in S : F[<<f, x>>] \in V
    /\ \A f, g \in [S -> V] : \A x \in S :
          (\A y \in S : size[y] < size[x] => f[y] = g[y]) => F[<<f, x>>] = F[<<g, x>>]
Solves(f, F, S) == f = [x \in S |-> F[<<f, x>>]]

(* A recursive definition whose body reads only what is smaller has a      *)
(* solution.                                                               *)
LEMMA Recursion ==
    ASSUME NEW S, NEW V, NEW v0 \in V, NEW size \in [S -> Nat], NEW F,
           Contracts(F, S, V, size)
    PROVE  \E f \in [S -> V] : Solves(f, F, S)
<1>t. \A f \in [S -> V] : \A x \in S : F[<<f, x>>] \in V
    BY DEF Contracts
<1>c. \A f, g \in [S -> V] : \A x \in S :
          (\A y \in S : size[y] < size[x] => f[y] = g[y]) => F[<<f, x>>] = F[<<g, x>>]
    BY DEF Contracts
<1> DEFINE Good(n, f) == f \in [S -> V] /\ \A x \in S : size[x] < n => f[x] = F[<<f, x>>]
           Reached == {n \in Nat : \E f : Good(n, f)}
<1>1. 0 \in Reached
    <2>1. Good(0, [x \in S |-> v0])
        OBVIOUS
    <2> QED BY <2>1
<1>2. ASSUME NEW n \in Reached PROVE n + 1 \in Reached
    <2>1. PICK f : Good(n, f)
        BY <1>2
    <2> DEFINE g == [x \in S |-> F[<<f, x>>]]
    <2>2. g \in [S -> V] /\ \A x \in S : g[x] = F[<<f, x>>]
        BY <2>1, <1>t
    <2> HIDE DEF g
    <2>3. ASSUME NEW x \in S, size[x] < n + 1 PROVE g[x] = F[<<g, x>>]
        <3>1. \A y \in S : size[y] < size[x] => f[y] = g[y]
            <4>1. n \in Nat /\ size[x] \in Nat /\ \A y \in S : size[y] \in Nat
                BY <1>2
            <4>2. \A y \in S : size[y] < size[x] => size[y] < n
                BY <4>1, <2>3
            <4>3. \A y \in S : size[y] < n => f[y] = F[<<f, y>>]
                BY <2>1
            <4> QED BY <4>2, <4>3, <2>2
        <3>2. F[<<f, x>>] = F[<<g, x>>]
            BY <3>1, <2>1, <2>2, <1>c
        <3> QED BY <3>2, <2>2
    <2>4. Good(n + 1, g)
        BY <2>2, <2>3
    <2> QED BY <2>4, <1>2
<1>3. \A n \in Nat : n \in Reached
    <2> DEFINE id == [n \in Nat |-> n]
    <2>1. \A n \in Nat : n # 0 => n - 1 \in Nat
        OBVIOUS
    <2>2. ASSUME NEW n \in Nat, \A m \in Nat : id[m] < id[n] => m \in Reached PROVE n \in Reached
        <3>1. CASE n = 0
            BY <3>1, <1>1
        <3>2. CASE n # 0
            <4> HIDE DEF Reached
            <4>1. n - 1 \in Nat /\ n - 1 < n /\ (n - 1) + 1 = n
                BY <3>2
            <4>2. id[n - 1] < id[n]
                BY <4>1
            <4>3. n - 1 \in Reached
                BY <2>2, <4>1, <4>2
            <4> QED BY <4>1, <4>3, <1>2
        <3> QED BY <3>1, <3>2
    <2>3. id \in [Nat -> Nat]
        OBVIOUS
    <2> HIDE DEF id, Reached
    <2> QED BY <2>2, <2>3, SizeInduction
<1>4. ASSUME NEW n \in Nat, NEW m \in Nat, NEW f, NEW g, Good(n, f), Good(m, g)
      PROVE  \A x \in S : size[x] < n /\ size[x] < m => f[x] = g[x]
    <2> DEFINE T == {x \in S : size[x] < n /\ size[x] < m => f[x] = g[x]}
    <2>1. ASSUME NEW x \in S, \A y \in S : size[y] < size[x] => y \in T PROVE x \in T
        <3>1. SUFFICES ASSUME size[x] < n, size[x] < m PROVE f[x] = g[x]
            OBVIOUS
        <3>2. \A y \in S : size[y] < size[x] => f[y] = g[y]
            <4>1. \A y \in S : size[y] < size[x] => size[y] < n /\ size[y] < m
                BY <3>1
            <4>2. \A y \in T : size[y] < n /\ size[y] < m => f[y] = g[y]
                OBVIOUS
            <4> HIDE DEF T
            <4> QED BY <2>1, <4>1, <4>2
        <3>3. F[<<f, x>>] = F[<<g, x>>]
            BY <3>2, <1>4, <1>c
        <3> QED BY <3>1, <3>3, <1>4
    <2>2. \A x \in S : x \in T
        <3> HIDE DEF T
        <3> QED BY <2>1, SizeInduction
    <2> QED BY <2>2
<1> DEFINE Pick(x) == CHOOSE f : Good(size[x] + 1, f)
           h == [x \in S |-> Pick(x)[x]]
<1>5. ASSUME NEW x \in S PROVE Good(size[x] + 1, Pick(x))
    <2>1. size[x] + 1 \in Reached
        <3>1. size[x] + 1 \in Nat
            OBVIOUS
        <3> HIDE DEF Reached
        <3> QED BY <3>1, <1>3
    <2>2. \E f : Good(size[x] + 1, f)
        BY <2>1
    <2> HIDE DEF Good
    <2> QED BY <2>2
<1> HIDE DEF Pick
<1>6. \A x \in S : h[x] = Pick(x)[x] /\ h[x] \in V
    BY <1>5
<1>7. h \in [S -> V]
    BY <1>6
<1> HIDE DEF h
<1>8. ASSUME NEW x \in S PROVE h[x] = F[<<h, x>>]
    <2>1. Good(size[x] + 1, Pick(x))
        BY <1>5
    <2>2. ASSUME NEW y \in S, size[y] < size[x] PROVE Pick(x)[y] = h[y]
        <3>1. Good(size[y] + 1, Pick(y))
            BY <1>5
        <3>2. size[y] < size[y] + 1 /\ size[y] < size[x] + 1 /\ size[x] + 1 \in Nat /\ size[y] + 1 \in Nat
            BY <2>2
        <3>3. Pick(x)[y] = Pick(y)[y]
            <4> HIDE DEF Good
            <4> QED BY <2>1, <3>1, <3>2, <1>4
        <3> QED BY <3>3, <1>6
    <2>3. Pick(x) \in [S -> V] /\ Pick(x)[x] = F[<<Pick(x), x>>]
        BY <2>1
    <2>4. F[<<Pick(x), x>>] = F[<<h, x>>]
        BY <2>2, <2>3, <1>7, <1>c
    <2> QED BY <2>3, <2>4, <1>6
<1>9. h = [x \in S |-> F[<<h, x>>]]
    BY <1>7, <1>8
<1> QED BY <1>7, <1>9 DEF Solves

(* FlattenSeq unfolded: the concatenation of the first i sequences is that *)
(* of the first i - 1 and sequence i.                                      *)
LEMMA FlattenEquation ==
    ASSUME NEW A, NEW seqs \in Seq(Seq(A)), seqs # <<>>
    PROVE  \E f \in [1..Len(seqs) -> Seq(A)] :
              /\ f = [i \in 1..Len(seqs) |-> IF i = 1 THEN seqs[i] ELSE f[i - 1] \o seqs[i]]
              /\ FlattenSeq(seqs) = f[Len(seqs)]
<1> DEFINE S == 1..Len(seqs)
           V == Seq(A)
           F == [p \in [S -> V] \X S |-> IF p[2] = 1 THEN seqs[p[2]] ELSE p[1][p[2] - 1] \o seqs[p[2]]]
           size == [i \in S |-> i]
           body(f) == [i \in S |-> IF i = 1 THEN seqs[i] ELSE f[i - 1] \o seqs[i]]
<1>1. Len(seqs) \in Nat \ {0} /\ \A i \in S : seqs[i] \in V
    BY EmptySeq, ElementOfSeq
<1>2. \A i \in S : i # 1 => i - 1 \in S
    BY <1>1
<1>3. ASSUME NEW f \in [S -> V], NEW i \in S
      PROVE  /\ (IF i = 1 THEN seqs[i] ELSE f[i - 1] \o seqs[i]) \in V
             /\ F[<<f, i>>] = IF i = 1 THEN seqs[i] ELSE f[i - 1] \o seqs[i]
    <2>1. i # 1 => f[i - 1] \in V /\ seqs[i] \in V
        BY <1>1, <1>2
    <2>2. i # 1 => f[i - 1] \o seqs[i] \in V
        BY <2>1, ConcatProperties
    <2>3. F[<<f, i>>] = IF i = 1 THEN seqs[i] ELSE f[i - 1] \o seqs[i]
        OBVIOUS
    <2> QED BY <2>2, <2>3, <1>1
<1>5. size \in [S -> Nat] /\ \A i \in S : size[i] = i
    BY <1>1
<1>6. ASSUME NEW f \in [S -> V], NEW g \in [S -> V], NEW i \in S,
             \A j \in S : size[j] < size[i] => f[j] = g[j]
      PROVE  F[<<f, i>>] = F[<<g, i>>]
    <2>1. i # 1 => f[i - 1] = g[i - 1]
        <3>1. i # 1 => i - 1 \in S /\ i - 1 < i
            BY <1>1, <1>2
        <3> HIDE DEF size
        <3> QED BY <1>5, <1>6, <3>1
    <2>2. F[<<f, i>>] = (IF i = 1 THEN seqs[i] ELSE f[i - 1] \o seqs[i])
        BY <1>3
    <2>3. F[<<g, i>>] = (IF i = 1 THEN seqs[i] ELSE g[i - 1] \o seqs[i])
        BY <1>3
    <2> HIDE DEF F
    <2> QED BY <2>1, <2>2, <2>3
<1>7. <<>> \in V
    OBVIOUS
<1>8. PICK f \in [S -> V] : f = [i \in S |-> F[<<f, i>>]]
    <2>1. Contracts(F, S, V, size)
        BY <1>3, <1>6 DEF Contracts
    <2>2. size \in [S -> Nat]
        BY <1>5
    <2>3. \E f \in [S -> V] : Solves(f, F, S)
        <3> HIDE DEF F, size, S, V
        <3> QED BY <2>1, <2>2, <1>7, Recursion
    <2> QED BY <2>3 DEF Solves
<1>9. f = body(f)
    <2> HIDE DEF F
    <2> QED BY <1>8, <1>3
<1> DEFINE flat == CHOOSE g : g = body(g)
<1>10. flat = body(flat)
    <2> HIDE DEF body
    <2> QED BY <1>9
<1>11. FlattenSeq(seqs) = flat[Len(seqs)]
    BY <1>1 DEF FlattenSeq
<1>12. flat \in [S -> V]
    <2>1. DOMAIN flat = S
        BY <1>10
    <2>2. \A i \in S : flat[i] = IF i = 1 THEN seqs[i] ELSE flat[i - 1] \o seqs[i]
        BY <1>10
    <2> HIDE DEF flat
    <2> DEFINE T == {i \in S : flat[i] \in V}
    <2>3. ASSUME NEW i \in S, \A j \in S : size[j] < size[i] => j \in T PROVE i \in T
        <3>1. CASE i = 1
            BY <3>1, <2>2, <1>1
        <3>2. CASE i # 1
            <4>1. i - 1 \in S /\ i - 1 < i
                BY <3>2, <1>1, <1>2
            <4>2. i - 1 \in T
                <5> HIDE DEF size, T
                <5> QED BY <4>1, <2>3, <1>5
            <4>3. flat[i - 1] \o seqs[i] \in V
                BY <4>2, <1>1, ConcatProperties
            <4> QED BY <4>3, <3>2, <2>2
        <3> QED BY <3>1, <3>2
    <2>4. \A i \in S : i \in T
        <3> HIDE DEF T, S, size
        <3> QED BY <2>3, <1>5, SizeInduction
    <2>5. \A i \in S : flat[i] \in V
        BY <2>4
    <2> QED BY <2>1, <2>5, <1>10
<1> QED BY <1>10, <1>11, <1>12

(* Nothing flattened is nothing. *)
LEMMA FlattenOfNone == FlattenSeq(<<>>) = <<>>
BY DEF FlattenSeq

(* One more sequence at the end is concatenated at the end. *)
LEMMA FlattenAppend ==
    ASSUME NEW A, NEW seqs \in Seq(Seq(A)), NEW x \in Seq(A)
    PROVE  /\ FlattenSeq(Append(seqs, x)) = FlattenSeq(seqs) \o x
           /\ FlattenSeq(seqs) \in Seq(A)
<1> DEFINE n == Len(seqs)
           t == Append(seqs, x)
<1>1. /\ n \in Nat /\ t \in Seq(Seq(A)) /\ t # <<>> /\ Len(t) = n + 1
      /\ t[n + 1] = x /\ \A i \in 1..n : t[i] = seqs[i]
    BY AppendProperties, LenProperties
<1> HIDE DEF t
<1>2. PICK f \in [1..Len(t) -> Seq(A)] :
         /\ f = [i \in 1..Len(t) |-> IF i = 1 THEN t[i] ELSE f[i - 1] \o t[i]]
         /\ FlattenSeq(t) = f[Len(t)]
    BY <1>1, FlattenEquation
<1>3. \A i \in 1..(n + 1) : f[i] = IF i = 1 THEN t[i] ELSE f[i - 1] \o t[i]
    BY <1>1, <1>2
<1>4. CASE seqs = <<>>
    <2>1. FlattenSeq(seqs) = <<>> /\ n = 0
        BY <1>4, FlattenOfNone
    <2>2. FlattenSeq(t) = x
        BY <1>1, <1>2, <1>3, <2>1
    <2>3. x = <<>> \o x
        BY ConcatEmptySeq
    <2> QED BY <2>1, <2>2, <2>3 DEF t
<1>5. CASE seqs # <<>>
    <2>1. n >= 1 /\ n \in Nat
        BY <1>5, EmptySeq
    <2>2. PICK g \in [1..n -> Seq(A)] :
             /\ g = [i \in 1..n |-> IF i = 1 THEN seqs[i] ELSE g[i - 1] \o seqs[i]]
             /\ FlattenSeq(seqs) = g[n]
        BY <1>5, FlattenEquation
    <2>3. \A i \in 1..n : g[i] = IF i = 1 THEN seqs[i] ELSE g[i - 1] \o seqs[i]
        BY <2>2
    <2> DEFINE D == 1..n
               T == {i \in D : f[i] = g[i]}
               size == [i \in D |-> i]
    <2>4. ASSUME NEW i \in D, \A j \in D : size[j] < size[i] => j \in T PROVE i \in T
        <3>1. i # 1 => i - 1 \in 1..n /\ i - 1 < i
            BY <2>1
        <3>2. i # 1 => f[i - 1] = g[i - 1]
            BY <3>1, <2>4
        <3>3. i \in 1..(n + 1)
            BY <2>1
        <3>4. t[i] = seqs[i]
            BY <1>1
        <3> HIDE DEF n
        <3>5. CASE i = 1
            BY <3>3, <3>4, <3>5, <1>3, <2>3
        <3>6. CASE i # 1
            <4>1. f[i] = f[i - 1] \o t[i]
                BY <3>3, <3>6, <1>3
            <4>2. g[i] = g[i - 1] \o seqs[i]
                BY <3>6, <2>3
            <4> QED BY <3>2, <3>4, <3>6, <4>1, <4>2
        <3>7. f[i] = g[i]
            BY <3>5, <3>6
        <3> QED BY <3>7
    <2>5. \A i \in D : i \in T
        <3>1. size \in [D -> Nat]
            BY <2>1
        <3> HIDE DEF T, size, D
        <3> QED BY <2>4, <3>1, SizeInduction
    <2>6. f[n] = g[n]
        BY <2>1, <2>5
    <2>7. f[n + 1] = f[n] \o t[n + 1]
        <3>1. n + 1 \in 1..(n + 1) /\ n + 1 # 1 /\ (n + 1) - 1 = n
            BY <2>1
        <3>2. f[n + 1] = IF n + 1 = 1 THEN t[n + 1] ELSE f[(n + 1) - 1] \o t[n + 1]
            <4> HIDE DEF n
            <4> QED BY <3>1, <1>3
        <3> HIDE DEF n
        <3> QED BY <3>1, <3>2
    <2>8. FlattenSeq(t) = FlattenSeq(seqs) \o x
        <3> HIDE DEF n
        <3> QED BY <1>1, <1>2, <2>2, <2>6, <2>7
    <2>9. FlattenSeq(seqs) \in Seq(A)
        <3>1. n \in 1..n
            BY <2>1
        <3> HIDE DEF n
        <3> QED BY <2>2, <3>1
    <2> QED BY <2>8, <2>9 DEF t
<1> QED BY <1>4, <1>5

(* One sequence flattened is itself. *)
LEMMA FlattenOfOne ==
    ASSUME NEW A, NEW x \in Seq(A)
    PROVE  FlattenSeq(<<x>>) = x
<1>1. <<x>> = Append(<<>>, x) /\ <<>> \in Seq(Seq(A))
    OBVIOUS
<1>2. FlattenSeq(<<x>>) = <<>> \o x
    BY <1>1, FlattenAppend, FlattenOfNone
<1> QED BY <1>2, ConcatEmptySeq

(* One more sequence in front is concatenated in front. *)
LEMMA FlattenFirst ==
    ASSUME NEW A, NEW x \in Seq(A), NEW seqs \in Seq(Seq(A))
    PROVE  FlattenSeq(<<x>> \o seqs) = x \o FlattenSeq(seqs)
<1> DEFINE S == Seq(Seq(A))
           T == {s \in S : FlattenSeq(<<x>> \o s) = x \o FlattenSeq(s)}
           size == [s \in S |-> Len(s)]
<1>1. ASSUME NEW s \in S, \A r \in S : size[r] < size[s] => r \in T PROVE s \in T
    <2>1. CASE s = <<>>
        <3>1. <<x>> \o s = <<x>> /\ <<x>> \in Seq(Seq(A))
            BY <2>1
        <3>2. x \o FlattenSeq(s) = x
            BY <2>1, FlattenOfNone, ConcatEmptySeq
        <3> QED BY <3>1, <3>2, FlattenOfOne
    <2>2. CASE s # <<>>
        <3>1. PICK r \in Seq(Seq(A)), e \in Seq(A) : s = Append(r, e)
            BY <2>2, SequenceEmptyOrAppend
        <3>2. Len(r) < Len(s) /\ r \in S
            BY <3>1, AppendProperties, LenProperties
        <3>3. FlattenSeq(<<x>> \o r) = x \o FlattenSeq(r)
            BY <3>2, <1>1
        <3>4. <<x>> \o r \in Seq(Seq(A)) /\ <<x>> \in Seq(Seq(A)) /\ <<e>> \in Seq(Seq(A))
            BY ConcatProperties
        <3>5. <<x>> \o s = Append(<<x>> \o r, e)
            <4>1. s = r \o <<e>>
                BY <3>1, AppendIsConcat
            <4>2. <<x>> \o s = (<<x>> \o r) \o <<e>>
                BY <4>1, <3>4, ConcatAssociative
            <4> QED BY <4>2, <3>4, AppendIsConcat
        <3>6. FlattenSeq(<<x>> \o s) = FlattenSeq(<<x>> \o r) \o e
            BY <3>4, <3>5, FlattenAppend
        <3>7. FlattenSeq(s) = FlattenSeq(r) \o e /\ FlattenSeq(r) \in Seq(A)
            BY <3>1, FlattenAppend
        <3>8. (x \o FlattenSeq(r)) \o e = x \o (FlattenSeq(r) \o e)
            BY <3>7, ConcatAssociative
        <3> QED BY <3>3, <3>6, <3>7, <3>8
    <2> QED BY <2>1, <2>2
<1>2. size \in [S -> Nat]
    <2>1. \A s \in S : Len(s) \in Nat
        BY LenProperties
    <2> QED BY <2>1
<1>3. \A s \in S : s \in T
    <2> HIDE DEF S, T, size
    <2> QED BY <1>1, <1>2, SizeInduction
<1> QED BY <1>3

(***************************************************************************)
(* Octets                                                                  *)
(***************************************************************************)
LEMMA FunctionIsSeq ==
    ASSUME NEW A, NEW n \in Nat, NEW f \in [1..n -> A]
    PROVE  f \in Seq(A) /\ Len(f) = n
OBVIOUS

(* A number the two octets of a length can hold *)
Word(n) == n \in Nat /\ n <= 65535

(* The two octets of such a number are octets, and give it back. *)
LEMMA TwoOctets ==
    ASSUME NEW n, Word(n)
    PROVE  \E a, b \in Octet : BigEndian(n, 2) = <<a, b>> /\ 256 * a + b = n
<1>1. n \div 256 \in 0..255 /\ n % 256 \in 0..255 /\ 256 * (n \div 256) + (n % 256) = n /\ (n \div 256) % 256 = n \div 256 /\ n \div 1 = n
    <2>1. n \in Nat /\ n <= 65535
        BY DEF Word
    <2>2. n \div 256 \in Nat /\ n % 256 \in 0..255 /\ 256 * (n \div 256) + (n % 256) = n /\ n \div 1 = n
        BY <2>1, SMT
    <2>3. n \div 256 <= 255
        BY <2>1, <2>2, SMT
    <2>4. \A x \in Nat : x <= 255 => x % 256 = x
        BY SMT
    <2> QED BY <2>2, <2>3, <2>4, SMT
<1> DEFINE e(k) == (n \div 256^(2 - k)) % 256
<1>2. BigEndian(n, 2) = [k \in 1..2 |-> e(k)]
    BY DEF BigEndian
<1>3. 256^(2 - 1) = 256 /\ 256^(2 - 2) = 1
    BY SMT
<1>4. \A k \in 1..2 : BigEndian(n, 2)[k] = <<n \div 256, n % 256>>[k]
    <2>1. (n \div 256^(2 - 1)) % 256 = n \div 256 /\ (n \div 256^(2 - 2)) % 256 = n % 256
        BY <1>1, <1>3, SMT
    <2>2. BigEndian(n, 2)[1] = n \div 256 /\ BigEndian(n, 2)[2] = n % 256
        BY <1>2, <2>1, SMT
    <2> QED BY <2>2, SMT
<1>5. BigEndian(n, 2) \in Seq(Int) /\ Len(BigEndian(n, 2)) = 2
    <2>1. \A k \in 1..2 : e(k) \in Int
        <3>1. e(1) = n \div 256 /\ e(2) = n % 256
            BY <1>1, <1>3, SMT
        <3>2. \A k \in 1..2 : k = 1 \/ k = 2
            OBVIOUS
        <3> HIDE DEF e
        <3> QED BY <1>1, <3>1, <3>2, SMT
    <2> HIDE DEF e
    <2>2. BigEndian(n, 2) \in [1..2 -> Int]
        BY <1>2, <2>1, SMT
    <2>3. 2 \in Nat
        OBVIOUS
    <2> DEFINE two == 2
    <2>4. two \in Nat /\ BigEndian(n, 2) \in [1..two -> Int]
        BY <2>2, <2>3
    <2>5. BigEndian(n, 2) \in Seq(Int) /\ Len(BigEndian(n, 2)) = two
        <3> HIDE DEF two
        <3> QED BY <2>4, FunctionIsSeq
    <2> QED BY <2>5
<1>6. BigEndian(n, 2) = <<n \div 256, n % 256>>
    BY <1>1, <1>4, <1>5, SMT
<1>7. n \div 256 \in Octet /\ n % 256 \in Octet
    BY <1>1 DEF Octet
<1> QED BY <1>1, <1>6, <1>7

(* A concatenation taken apart where it was put together *)
LEMMA DropOfConcat ==
    ASSUME NEW A, NEW s \in Seq(A), NEW t \in Seq(A)
    PROVE  /\ Drop(s \o t, Len(s)) = t
           /\ SubSeq(s \o t, 1, Len(s)) = s
           /\ SubSeq(s \o t, Len(s) + 1, Len(s) + Len(t)) = t
<1>1. s \o t \in Seq(A) /\ Len(s \o t) = Len(s) + Len(t) /\ Len(s) \in Nat /\ Len(t) \in Nat
      /\ \A i \in 1..(Len(s) + Len(t)) : (s \o t)[i] = (IF i <= Len(s) THEN s[i] ELSE t[i - Len(s)]) /\ (s \o t)[i] \in A
    BY ConcatProperties, LenProperties, ElementOfSeq
<1> DEFINE c == s \o t
           n == Len(s)
           m == Len(t)
<1> HIDE DEF c
<1>2. \A i \in (n + 1)..(n + m) : c[i] \in A
    BY <1>1 DEF c
<1>3. /\ SubSeq(c, n + 1, n + m) \in Seq(A)
      /\ Len(SubSeq(c, n + 1, n + m)) = IF n + 1 <= n + m THEN (n + m) - (n + 1) + 1 ELSE 0
      /\ \A i \in 1..((n + m) - (n + 1) + 1) : SubSeq(c, n + 1, n + m)[i] = c[n + 1 + i - 1]
    BY <1>1, <1>2, SubSeqProperties
<1>4. SubSeq(c, n + 1, n + m) = t
    <2>1. Len(SubSeq(c, n + 1, n + m)) = m
        BY <1>1, <1>3
    <2>2. \A i \in 1..m : SubSeq(c, n + 1, n + m)[i] = t[i]
        <3>1. \A i \in 1..m : n + i \in 1..(n + m) /\ n + 1 + i - 1 = n + i /\ ~(n + i <= n) /\ (n + i) - n = i
            BY <1>1
        <3>2. (n + m) - (n + 1) + 1 = m
            BY <1>1
        <3> QED BY <1>1, <1>3, <3>1, <3>2 DEF c
    <2> QED BY <1>3, <2>1, <2>2, SeqEqual
<1>5. Drop(c, n) = t
    BY <1>1, <1>4 DEF Drop, c
<1>6. SubSeq(c, 1, n) = s
    <2>1. \A i \in 1..n : c[i] = s[i] /\ c[i] \in A
        BY <1>1 DEF c
    <2>2. /\ SubSeq(c, 1, n) \in Seq(A)
          /\ Len(SubSeq(c, 1, n)) = IF 1 <= n THEN n - 1 + 1 ELSE 0
          /\ \A i \in 1..(n - 1 + 1) : SubSeq(c, 1, n)[i] = c[1 + i - 1]
        BY <1>1, <2>1, SubSeqProperties
    <2>3. Len(SubSeq(c, 1, n)) = n /\ \A i \in 1..n : SubSeq(c, 1, n)[i] = s[i]
        BY <1>1, <2>1, <2>2
    <2> QED BY <2>2, <2>3, SeqEqual
<1> QED BY <1>4, <1>5, <1>6 DEF c

(* What has arrived is p and the beginning of r, the rest of it on its way. *)
Follows(b, w, p, r, A) == \E c \in Seq(A) : b = p \o c /\ c \o w = r

(* Concatenation is associative. *)
Regroups(p, q, r) == (p \o q) \o r = p \o (q \o r)

LEMMA Regroup ==
    ASSUME NEW A, NEW p \in Seq(A), NEW q \in Seq(A), NEW r \in Seq(A)
    PROVE  Regroups(p, q, r)
BY ConcatAssociative DEF Regroups

(* What has arrived and what is still on its way, when a packet p and the  *)
(* rest r are expected.                                                    *)
LEMMA PrefixOfBoth ==
    ASSUME NEW A, NEW b \in Seq(A), NEW w \in Seq(A), NEW p \in Seq(A), NEW r \in Seq(A),
           b \o w = p \o r
    PROVE  /\ \A i \in 1..Len(b) : i <= Len(p) => b[i] = p[i]
           /\ Len(b) >= Len(p) => Follows(b, w, p, r, A)
<1>1. /\ \A i \in 1..(Len(b) + Len(w)) : (b \o w)[i] = IF i <= Len(b) THEN b[i] ELSE w[i - Len(b)]
      /\ \A i \in 1..(Len(p) + Len(r)) : (p \o r)[i] = IF i <= Len(p) THEN p[i] ELSE r[i - Len(p)]
      /\ Len(b \o w) = Len(b) + Len(w) /\ Len(p \o r) = Len(p) + Len(r)
      /\ Len(b) \in Nat /\ Len(w) \in Nat /\ Len(p) \in Nat /\ Len(r) \in Nat
    BY ConcatProperties, LenProperties
<1>2. Len(b) + Len(w) = Len(p) + Len(r)
    BY <1>1
<1>3. \A i \in 1..Len(b) : i <= Len(p) => b[i] = p[i]
    <2> TAKE i \in 1..Len(b)
    <2> HAVE i <= Len(p)
    <2>1. i \in 1..(Len(b) + Len(w)) /\ i \in 1..(Len(p) + Len(r)) /\ i <= Len(b)
        BY <1>1
    <2> QED BY <1>1, <2>1
<1>4. ASSUME Len(b) >= Len(p)
      PROVE  Follows(b, w, p, r, A)
    <2> DEFINE c == SubSeq(b, Len(p) + 1, Len(b))
    <2>1. /\ c \in Seq(A) /\ Len(c) = Len(b) - Len(p)
          /\ \A i \in 1..(Len(b) - Len(p)) : c[i] = b[Len(p) + i]
        <3>1. \A i \in (Len(p) + 1)..Len(b) : b[i] \in A
            BY <1>1, ElementOfSeq
        <3>2. /\ c \in Seq(A)
              /\ Len(c) = IF Len(p) + 1 <= Len(b) THEN Len(b) - (Len(p) + 1) + 1 ELSE 0
              /\ \A i \in 1..(Len(b) - (Len(p) + 1) + 1) : c[i] = b[Len(p) + 1 + i - 1]
            BY <1>1, <3>1, SubSeqProperties
        <3> HIDE DEF c
        <3>3. Len(c) = Len(b) - Len(p) /\ Len(b) - (Len(p) + 1) + 1 = Len(b) - Len(p)
            BY <1>1, <1>4, <3>2
        <3>4. \A i \in 1..(Len(b) - Len(p)) : Len(p) + 1 + i - 1 = Len(p) + i
            BY <1>1
        <3> QED BY <3>2, <3>3, <3>4
    <2> HIDE DEF c
    <2>2. /\ Len(p \o c) = Len(p) + Len(c) /\ p \o c \in Seq(A)
          /\ \A i \in 1..(Len(p) + Len(c)) : (p \o c)[i] = IF i <= Len(p) THEN p[i] ELSE c[i - Len(p)]
        BY <2>1, ConcatProperties
    <2>3. b = p \o c
        <3>1. Len(p \o c) = Len(b)
            BY <1>1, <2>1, <2>2
        <3>2. ASSUME NEW i \in 1..Len(b) PROVE (p \o c)[i] = b[i]
            <4>1. i \in 1..(Len(p) + Len(c)) /\ i \in Nat
                BY <1>1, <2>1
            <4>2. CASE i <= Len(p)
                BY <1>3, <2>2, <4>1, <4>2
            <4>3. CASE ~(i <= Len(p))
                <5>1. i - Len(p) \in 1..(Len(b) - Len(p)) /\ Len(p) + (i - Len(p)) = i
                    BY <1>1, <4>1, <4>3
                <5> QED BY <2>1, <2>2, <4>1, <4>3, <5>1
            <4> QED BY <4>2, <4>3
        <3> QED BY <2>2, <3>1, <3>2, SeqEqual
    <2>4. c \o w = r
        <3>1. p \o (c \o w) = p \o r
            <4>1. (p \o c) \o w = p \o (c \o w)
                <5>1. c \in Seq(A)
                    BY <2>1
                <5>2. Regroups(p, c, w)
                    BY <5>1, Regroup
                <5> QED BY <5>2 DEF Regroups
            <4> QED BY <4>1, <2>3
        <3>2. c \o w \in Seq(A)
            BY <2>1, ConcatProperties
        <3>3. Drop(p \o (c \o w), Len(p)) = c \o w
            <4> DEFINE e == c \o w
            <4>1. e \in Seq(A)
                BY <3>2
            <4> HIDE DEF e
            <4>2. Drop(p \o e, Len(p)) = e
                BY <4>1, DropOfConcat
            <4> QED BY <4>2 DEF e
        <3>4. Drop(p \o r, Len(p)) = r
            BY DropOfConcat
        <3> QED BY <3>1, <3>3, <3>4
    <2> QED BY <2>1, <2>3, <2>4 DEF Follows
<1> QED BY <1>3, <1>4

(* Octets that are written down *)
Pair(a, b) == <<a, b>>
Triple(a, b, c) == <<a, b, c>>
Quad(a, b, c, d) == <<a, b, c, d>>
IsTriple(s, a, b, c, t) ==
    /\ s \in OctetString /\ Len(s) = Len(t) + 3
    /\ s[1] = a /\ s[2] = b /\ s[3] = c
    /\ Drop(s, 3) = t
IsQuad(s, a, b, c, d, t) ==
    /\ s \in OctetString /\ Len(s) = Len(t) + 4
    /\ s[1] = a /\ s[2] = b /\ s[3] = c /\ s[4] = d
    /\ SubSeq(s, 5, Len(s)) = t

(* Four octets in front of t, taken apart again *)
LEMMA HeadedBy4 ==
    ASSUME NEW a \in Octet, NEW b \in Octet, NEW c \in Octet, NEW d \in Octet, NEW t \in OctetString
    PROVE  IsQuad(Quad(a, b, c, d) \o t, a, b, c, d, t)
<1>1. <<a, b, c, d>> \in Seq(Octet) /\ Len(<<a, b, c, d>>) = 4
    OBVIOUS
<1>2. t \in Seq(Octet) /\ Len(t) \in Nat
    BY LenProperties DEF OctetString
<1> DEFINE h == <<a, b, c, d>>
           s == Quad(a, b, c, d) \o t
<1>0. s = h \o t
    BY DEF Triple, Quad
<1>3. h[1] = a /\ h[2] = b /\ h[3] = c /\ h[4] = d
    OBVIOUS
<1> HIDE DEF h, s
<1>4. /\ s \in Seq(Octet) /\ Len(s) = 4 + Len(t)
      /\ \A i \in 1..(4 + Len(t)) : s[i] = IF i <= 4 THEN h[i] ELSE t[i - 4]
    BY <1>0, <1>1, <1>2, ConcatProperties DEF h
<1>5. SubSeq(s, 4 + 1, 4 + Len(t)) = t
    BY <1>0, <1>1, <1>2, DropOfConcat DEF h
<1>6. s[1] = a /\ s[2] = b /\ s[3] = c /\ s[4] = d
    <2>1. \A i \in {1, 2, 3, 4} : i \in 1..(4 + Len(t)) /\ i <= 4
        BY <1>2
    <2> QED BY <2>1, <1>3, <1>4
<1>7. SubSeq(s, 5, Len(s)) = t
    BY <1>2, <1>4, <1>5
<1> QED BY <1>2, <1>4, <1>6, <1>7 DEF OctetString, IsQuad, s

(* Two and two octets are four. *)
LEMMA TwoPairs == ASSUME NEW S, NEW a \in S, NEW b \in S, NEW c \in S, NEW d \in S PROVE Pair(a, b) \o Pair(c, d) = Quad(a, b, c, d)
<1>1. <<a,b>> \in Seq(S) /\ <<c,d>> \in Seq(S) /\ <<a,b,c,d>> \in Seq(S)
  BY SMT
<1>2. Len(<<a,b>>) = 2 /\ Len(<<c,d>>) = 2 /\ Len(<<a,b,c,d>>) = 4
  BY SMT
<1> DEFINE s == <<a,b>> t == <<c,d>> u == <<a,b,c,d>>
<1>3. s[1] = a /\ s[2] = b /\ t[1] = c /\ t[2] = d /\ u[1] = a /\ u[2] = b /\ u[3] = c /\ u[4] = d
  BY SMT
<1> HIDE DEF s, t, u
<1>4. s \in Seq(S) /\ t \in Seq(S) /\ u \in Seq(S) /\ Len(s) = 2 /\ Len(t) = 2 /\ Len(u) = 4
  BY <1>1, <1>2 DEF s, t, u
<1>5. s \o t \in Seq(S) /\ Len(s \o t) = 4 /\ \A i \in 1..4 : (s \o t)[i] = IF i <= 2 THEN s[i] ELSE t[i-2]
  <2>1. /\ s \o t \in Seq(S) /\ Len(s \o t) = Len(s) + Len(t)
        /\ \A i \in 1..(Len(s) + Len(t)) : (s \o t)[i] = IF i <= Len(s) THEN s[i] ELSE t[i - Len(s)]
    BY <1>4, ConcatProperties
  <2>2. Len(s) + Len(t) = 4
    BY <1>4
  <2> QED BY <1>4, <2>1, <2>2
<1>6. \A i \in 1..4 : (s \o t)[i] = u[i]
  BY <1>3, <1>5, SMT
<1>7. s \o t = u
  BY <1>4, <1>5, <1>6, SeqEqual
<1> QED BY <1>7 DEF s, t, u, Pair, Quad

(* tpkt and the header that recv_tpkt reads are inverse: a packet announces*)
(* its own length and holds what was put in it.                            *)
LEMMA TpktFacts ==
    ASSUME NEW t \in OctetString, Word(Len(t) + 4)
    PROVE  /\ Tpkt(t) \in OctetString /\ Len(Tpkt(t)) = Len(t) + 4
           /\ Tpkt(t)[1] = 3 /\ TpktLength(Tpkt(t)) = Len(t) + 4
           /\ SubSeq(Tpkt(t), 5, Len(Tpkt(t))) = t
<1>1. PICK a, b \in Octet : BigEndian(Len(t) + 4, 2) = <<a, b>> /\ 256 * a + b = Len(t) + 4
    BY TwoOctets
<1> DEFINE v == 3
           z == 0
           s == Tpkt(t)
<1>2. v \in Octet /\ z \in Octet
    BY DEF Octet
<1>3. Tpkt(t) = (Pair(v, z) \o Pair(a, b)) \o t
    BY <1>1 DEF Tpkt, Pair
<1> HIDE DEF v, z
<1>4. s = Quad(v, z, a, b) \o t
    <2>1. Pair(v, z) \o Pair(a, b) = Quad(v, z, a, b)
        BY <1>1, <1>2, TwoPairs
    <2> QED BY <1>3, <2>1
<1> HIDE DEF s
<1>5. /\ s \in OctetString /\ Len(s) = Len(t) + 4
      /\ s[1] = v /\ s[2] = z /\ s[3] = a /\ s[4] = b
      /\ SubSeq(s, 5, Len(s)) = t
    <2>1. IsQuad(s, v, z, a, b, t)
        BY <1>2, <1>4, HeadedBy4
    <2> QED BY <2>1 DEF IsQuad
<1> QED BY <1>1, <1>5 DEF s, v, TpktLength

(* Three octets in front of t, taken apart again *)
LEMMA HeadedBy3 ==
    ASSUME NEW a \in Octet, NEW b \in Octet, NEW c \in Octet, NEW t \in OctetString
    PROVE  IsTriple(Triple(a, b, c) \o t, a, b, c, t)
<1>1. <<a, b, c>> \in Seq(Octet) /\ Len(<<a, b, c>>) = 3
    OBVIOUS
<1>2. t \in Seq(Octet) /\ Len(t) \in Nat
    BY LenProperties DEF OctetString
<1> DEFINE h == <<a, b, c>>
           s == Triple(a, b, c) \o t
<1>0. s = h \o t
    BY DEF Triple, Quad
<1>3. h[1] = a /\ h[2] = b /\ h[3] = c
    OBVIOUS
<1> HIDE DEF h, s
<1>4. /\ s \in Seq(Octet) /\ Len(s) = 3 + Len(t)
      /\ \A i \in 1..(3 + Len(t)) : s[i] = IF i <= 3 THEN h[i] ELSE t[i - 3]
    BY <1>0, <1>1, <1>2, ConcatProperties DEF h
<1>5. Drop(s, 3) = t
    BY <1>0, <1>1, <1>2, DropOfConcat DEF h
<1>6. s[1] = a /\ s[2] = b /\ s[3] = c
    <2>1. \A i \in {1, 2, 3} : i \in 1..(3 + Len(t)) /\ i <= 3
        BY <1>2
    <2> QED BY <2>1, <1>3, <1>4
<1> QED BY <1>2, <1>4, <1>5, <1>6 DEF OctetString, IsTriple, s

(***************************************************************************)
(* COTP                                                                    *)
(***************************************************************************)
LEMMA CotpDtFacts ==
    ASSUME NEW data \in OctetString, NEW eot \in BOOLEAN
    PROVE  LET t == CotpDt(data, eot)
           IN  /\ t \in OctetString /\ Len(t) = Len(data) + 3
               /\ ParseCotp[t].ok /\ ParseCotp[t].code = DT
               /\ ParseCotp[t].eot = eot /\ ParseCotp[t].data = data
<1> DEFINE e == IF eot THEN 128 ELSE 0
           l == 2
           t == CotpDt(data, eot)
<1>1. l \in Octet /\ DT \in Octet /\ e \in Octet
    BY DEF DT, Octet
<1>2. t = Triple(l, DT, e) \o data
    BY DEF CotpDt, Triple
<1> HIDE DEF t, e, l
<1>3. /\ t \in OctetString /\ Len(t) = Len(data) + 3 /\ Len(data) \in Nat
      /\ t[1] = 2 /\ t[2] = DT /\ t[3] = e /\ Drop(t, 3) = data
    <2>1. t \in OctetString /\ Len(t) = Len(data) + 3 /\ t[1] = l /\ t[2] = DT /\ t[3] = e /\ Drop(t, 3) = data
        <3>1. IsTriple(t, l, DT, e, data)
            BY <1>1, <1>2, HeadedBy3
        <3> QED BY <3>1 DEF IsTriple
    <2>2. Len(data) \in Nat
        BY LenProperties DEF OctetString
    <2> QED BY <2>1, <2>2 DEF l
<1> DEFINE header == SubSeq(t, 2, t[1] + 1)
           code == 16 * (header[1] \div 16)
<1>4. Len(header) = 2 /\ header[1] = DT /\ header[2] = e
    <2>1. t[1] + 1 = 3
        BY <1>3
    <2>2. \A i \in 2..3 : t[i] \in Octet
        <3>1. t[2] \in Octet /\ t[3] \in Octet
            BY <1>1, <1>3, Zenon
        <3> QED BY <3>1, SMT
    <2>3. /\ Len(SubSeq(t, 2, 3)) = IF 2 <= 3 THEN 3 - 2 + 1 ELSE 0
          /\ \A i \in 1..(3 - 2 + 1) : SubSeq(t, 2, 3)[i] = t[2 + i - 1]
        BY <2>2, SubSeqProperties
    <2>4. Len(SubSeq(t, 2, 3)) = 2 /\ SubSeq(t, 2, 3)[1] = t[2] /\ SubSeq(t, 2, 3)[2] = t[3]
        BY <2>3
    <2> QED BY <1>3, <2>1, <2>4
<1> HIDE DEF header
<1>5. code = DT /\ code \notin {CR, CC, DR, ER} /\ CotpFixed(code) = 2
    BY <1>4 DEF DT, CR, CC, DR, ER, CotpFixed
<1> HIDE DEF code
<1> DEFINE params == IF code \in {CR, CC, DR, ER} THEN CotpParams[Drop(header, CotpFixed(code))] ELSE <<>>
<1>6. params = <<>> /\ Whole(params)
    BY <1>5 DEF Whole
<1> HIDE DEF params
<1>7. ~(Len(t) < 2 \/ t[1] \in {0, 255} \/ t[1] + 1 > Len(t)) /\ ~(Len(header) < CotpFixed(code) \/ ~Whole(params))
    BY <1>3, <1>4, <1>5, <1>6
<1>8. ParseCotp[t] = [ok |-> TRUE, code |-> code, params |-> params, eot |-> code # DT \/ header[2] >= 128,
              reason |-> CASE code = DR -> header[6] [] code = ER -> header[4] [] OTHER -> None,
              data |-> IF code = ER THEN <<>> ELSE Drop(t, t[1] + 1)]
    BY <1>3, <1>7, Zenon DEF ParseCotp, params, header, code
<1>9. (header[2] >= 128) = eot
    BY <1>4 DEF e
<1>10. code # ER /\ t[1] + 1 = 3
    BY <1>3, <1>5
<1> QED BY <1>3, <1>5, <1>8, <1>9, <1>10 DEF t

-----------------------------------------------------------------------------
(* The parameters of a COTP TPDU *)

(* The rest of a sequence from element i on *)
LEMMA Suffix ==
    ASSUME NEW A, NEW t \in Seq(A), NEW i \in Nat, 1 <= i, i <= Len(t) + 1
    PROVE  /\ SubSeq(t, i, Len(t)) \in Seq(A)
           /\ Len(SubSeq(t, i, Len(t))) = Len(t) - i + 1
           /\ \A k \in 1..(Len(t) - i + 1) : SubSeq(t, i, Len(t))[k] = t[i + k - 1]
<1>1. Len(t) \in Nat /\ \A j \in i..Len(t) : t[j] \in A
    BY LenProperties, ElementOfSeq
<1>2. /\ SubSeq(t, i, Len(t)) \in Seq(A)
      /\ Len(SubSeq(t, i, Len(t))) = IF i <= Len(t) THEN Len(t) - i + 1 ELSE 0
      /\ \A k \in 1..(Len(t) - i + 1) : SubSeq(t, i, Len(t))[k] = t[i + k - 1]
    BY <1>1, SubSeqProperties
<1> QED BY <1>1, <1>2

(* The rest of a rest is a rest. *)
LEMMA SuffixOfSuffix ==
    ASSUME NEW A, NEW t \in Seq(A), NEW i \in Nat, 1 <= i, NEW k \in Nat, i + k <= Len(t) + 1
    PROVE  Drop(SubSeq(t, i, Len(t)), k) = SubSeq(t, i + k, Len(t))
<1> DEFINE s == SubSeq(t, i, Len(t))
           r == SubSeq(t, i + k, Len(t))
<1>1. Len(t) \in Nat
    BY LenProperties
<1>2. i <= Len(t) + 1 /\ i + k \in Nat /\ 1 <= i + k
    BY <1>1
<1>3. s \in Seq(A) /\ Len(s) = Len(t) - i + 1 /\ \A j \in 1..(Len(t) - i + 1) : s[j] = t[i + j - 1]
    BY <1>2, Suffix
<1>4. r \in Seq(A) /\ Len(r) = Len(t) - (i + k) + 1 /\ \A j \in 1..(Len(t) - (i + k) + 1) : r[j] = t[i + k + j - 1]
    BY <1>2, Suffix
<1> HIDE DEF s, r
<1> DEFINE q == SubSeq(s, k + 1, Len(s))
<1>5. q \in Seq(A) /\ Len(q) = Len(s) - (k + 1) + 1 /\ \A j \in 1..(Len(s) - (k + 1) + 1) : q[j] = s[k + 1 + j - 1]
    <2>1. k + 1 \in Nat /\ 1 <= k + 1 /\ k + 1 <= Len(s) + 1
        BY <1>1, <1>3
    <2> QED BY <1>3, <2>1, Suffix
<1> HIDE DEF q
<1>6. Len(q) = Len(r)
    BY <1>1, <1>3, <1>4, <1>5
<1>7. ASSUME NEW j \in 1..Len(q) PROVE q[j] = r[j]
    <2>1. /\ j \in 1..(Len(s) - (k + 1) + 1) /\ j \in 1..(Len(t) - (i + k) + 1) /\ k + 1 + j - 1 \in 1..(Len(t) - i + 1)
          /\ i + (k + 1 + j - 1) - 1 = i + k + j - 1
        BY <1>1, <1>3, <1>5
    <2>2. q[j] = s[k + 1 + j - 1]
        BY <1>5, <2>1
    <2>3. s[k + 1 + j - 1] = t[i + (k + 1 + j - 1) - 1]
        BY <1>3, <2>1
    <2>4. r[j] = t[i + k + j - 1]
        BY <1>4, <2>1
    <2> QED BY <2>1, <2>2, <2>3, <2>4
<1>8. q = r
    BY <1>4, <1>5, <1>6, <1>7, SeqEqual
<1> QED BY <1>8 DEF Drop, q, s, r

(* What Drop leaves *)
LEMMA DropFacts ==
    ASSUME NEW d \in OctetString, NEW k \in Nat, k <= Len(d)
    PROVE  Drop(d, k) \in OctetString /\ Len(Drop(d, k)) = Len(d) - k
<1>1. k + 1 \in Nat /\ 1 <= k + 1 /\ k + 1 <= Len(d) + 1 /\ Len(d) \in Nat
    BY LenProperties DEF OctetString
<1>2. SubSeq(d, k + 1, Len(d)) \in Seq(Octet) /\ Len(SubSeq(d, k + 1, Len(d))) = Len(d) - (k + 1) + 1
    BY <1>1, Suffix DEF OctetString
<1> QED BY <1>1, <1>2 DEF Drop, OctetString

(* The elements of an octet string are numbers up to 255. *)
LEMMA OctetFacts ==
    ASSUME NEW d \in OctetString
    PROVE  Len(d) \in Nat /\ \A i \in 1..Len(d) : d[i] \in Octet /\ d[i] \in Nat /\ d[i] <= 255
<1>1. Len(d) \in Nat /\ \A i \in 1..Len(d) : d[i] \in Octet
    BY LenProperties, ElementOfSeq DEF OctetString
<1>2. \A x \in Octet : x \in Nat /\ x <= 255
    BY DEF Octet
<1> QED BY <1>1, <1>2

(* A parameter, and the body of the recursion of _cotp_params: each is     *)
(* followed by fewer octets                                                *)
Parameters == [code : Int, value : OctetString]

ParamsBody(f, d) ==
    IF d = <<>> THEN <<>>
    ELSE IF Len(d) < 2 \/ Len(d) < 2 + d[2] THEN <<Overrun>>
    ELSE <<[code |-> d[1], value |-> SubSeq(d, 3, 2 + d[2])]>> \o f[Drop(d, 2 + d[2])]

(* The recursion as an equation, and what it returns *)
LEMMA CotpParamsEquation ==
    /\ CotpParams \in [OctetString -> Seq(Parameters)]
    /\ \A d \in OctetString : CotpParams[d] = ParamsBody(CotpParams, d)
<1> DEFINE S == OctetString
           V == Seq(Parameters)
           F == [p \in [S -> V] \X S |-> ParamsBody(p[1], p[2])]
           size == [d \in S |-> Len(d)]
           Cut(d) == Len(d) < 2 \/ Len(d) < 2 + d[2]
<1>1. ASSUME NEW d \in OctetString, d # <<>>, ~Cut(d)
      PROVE  /\ Drop(d, 2 + d[2]) \in OctetString /\ Len(Drop(d, 2 + d[2])) < Len(d)
             /\ <<[code |-> d[1], value |-> SubSeq(d, 3, 2 + d[2])]>> \in V
    <2>1. Len(d) \in Nat /\ Len(d) >= 2 /\ 1 \in 1..Len(d) /\ 2 \in 1..Len(d)
        BY <1>1, OctetFacts
    <2>2. d[1] \in Nat /\ d[2] \in Nat
        BY <2>1, OctetFacts
    <2>3. 2 + d[2] \in Nat /\ 2 + d[2] <= Len(d)
        BY <1>1, <2>1, <2>2
    <2>4. \A i \in 3..(2 + d[2]) : d[i] \in Octet
        BY <2>1, <2>2, <2>3, OctetFacts
    <2>5. SubSeq(d, 3, 2 + d[2]) \in OctetString
        BY <2>2, <2>4, SubSeqProperties DEF OctetString
    <2>6. [code |-> d[1], value |-> SubSeq(d, 3, 2 + d[2])] \in Parameters
        BY <2>2, <2>5 DEF Parameters
    <2>7. <<[code |-> d[1], value |-> SubSeq(d, 3, 2 + d[2])]>> \in V
        BY <2>6
    <2> DEFINE k == 2 + d[2]
    <2>8. k \in Nat /\ k <= Len(d) /\ k > 0
        BY <2>2, <2>3
    <2>9. Drop(d, k) \in OctetString /\ Len(Drop(d, k)) = Len(d) - k
        <3> HIDE DEF k
        <3> QED BY <2>8, DropFacts
    <2>10. Len(Drop(d, k)) < Len(d)
        <3> HIDE DEF k
        <3> QED BY <2>1, <2>8, <2>9
    <2> QED BY <2>7, <2>9, <2>10
<1>12. <<Overrun>> \in V
    <2>1. -1 \in Int /\ <<>> \in OctetString
        BY DEF OctetString
    <2>2. Overrun \in Parameters
        BY <2>1 DEF Overrun, Parameters
    <2> QED BY <2>2
<1>2. ASSUME NEW f \in [S -> V], NEW d \in S
      PROVE  ParamsBody(f, d) \in V /\ F[<<f, d>>] = ParamsBody(f, d)
    <2>1. F[<<f, d>>] = ParamsBody(f, d)
        OBVIOUS
    <2>2. <<>> \in V /\ <<Overrun>> \in V
        BY <1>12
    <2>3. d # <<>> /\ ~Cut(d) => <<[code |-> d[1], value |-> SubSeq(d, 3, 2 + d[2])]>> \o f[Drop(d, 2 + d[2])] \in V
        <3>1. SUFFICES ASSUME d # <<>>, ~Cut(d) PROVE <<[code |-> d[1], value |-> SubSeq(d, 3, 2 + d[2])]>> \o f[Drop(d, 2 + d[2])] \in V
            OBVIOUS
        <3>2. f[Drop(d, 2 + d[2])] \in V
            BY <1>1, <3>1
        <3> QED BY <1>1, <3>1, <3>2, ConcatProperties
    <2> HIDE DEF F, V
    <2> QED BY <2>1, <2>2, <2>3 DEF ParamsBody
<1>3. size \in [S -> Nat] /\ \A d \in S : size[d] = Len(d)
    BY OctetFacts
<1>4. ASSUME NEW f \in [S -> V], NEW g \in [S -> V], NEW d \in S,
             \A q \in S : size[q] < size[d] => f[q] = g[q]
      PROVE  F[<<f, d>>] = F[<<g, d>>]
    <2>1. d # <<>> /\ ~Cut(d) => f[Drop(d, 2 + d[2])] = g[Drop(d, 2 + d[2])]
        <3> HIDE DEF size, V
        <3> QED BY <1>1, <1>3, <1>4
    <2>2. ParamsBody(f, d) = ParamsBody(g, d)
        BY <2>1 DEF ParamsBody
    <2> HIDE DEF F, V
    <2> QED BY <2>2, <1>2
<1>5. Contracts(F, S, V, size)
    <2> HIDE DEF F, size, V, S
    <2> QED BY <1>2, <1>4 DEF Contracts
<1>6. <<>> \in V
    OBVIOUS
<1>7. PICK f \in [S -> V] : Solves(f, F, S)
    <2> HIDE DEF F, S, size, V
    <2> QED BY <1>3, <1>5, <1>6, Recursion
<1>8. f = [d \in OctetString |-> ParamsBody(f, d)]
    <2>1. f = [x \in S |-> F[<<f, x>>]]
        BY <1>7 DEF Solves
    <2> HIDE DEF F, V
    <2> QED BY <2>1, <1>2
<1>9. CotpParams = [d \in OctetString |-> ParamsBody(CotpParams, d)]
    <2> HIDE DEF F, V
    <2> QED BY <1>8 DEF CotpParams, ParamsBody
<1>10. \A d \in OctetString : CotpParams[d] = ParamsBody(CotpParams, d)
    BY <1>9
<1>11. \A d \in S : CotpParams[d] \in V
    <2> DEFINE T == {d \in S : CotpParams[d] \in V}
    <2>1. ASSUME NEW d \in S, \A q \in S : size[q] < size[d] => q \in T PROVE d \in T
        <3>1. d # <<>> /\ ~Cut(d) => CotpParams[Drop(d, 2 + d[2])] \in V
            <4> HIDE DEF V, size
            <4> QED BY <1>1, <1>3, <2>1
        <3>2. d # <<>> /\ ~Cut(d) => <<[code |-> d[1], value |-> SubSeq(d, 3, 2 + d[2])]>> \o CotpParams[Drop(d, 2 + d[2])] \in V
            BY <1>1, <3>1, ConcatProperties
        <3>3. <<Overrun>> \in V
            BY <1>12
        <3>4. ParamsBody(CotpParams, d) \in V
            <4> HIDE DEF V
            <4> QED BY <3>2, <3>3, <1>6 DEF ParamsBody
        <3> QED BY <3>4, <1>10
    <2>2. \A d \in S : d \in T
        <3> HIDE DEF T, S, size
        <3> QED BY <2>1, <1>3, SizeInduction
    <2> QED BY <2>2
<1> QED BY <1>9, <1>10, <1>11

(* The parameters from octet i of t on are whole, if the first of them is  *)
(* and those after it are.                                                 *)
LEMMA WholeFrom ==
    ASSUME NEW t \in OctetString, NEW i \in Nat, 1 <= i, NEW n \in Nat,
           t[i + 1] = n, i + n + 1 <= Len(t), Whole(CotpParams[SubSeq(t, i + 2 + n, Len(t))])
    PROVE  Whole(CotpParams[SubSeq(t, i, Len(t))])
<1> DEFINE d == SubSeq(t, i, Len(t))
           r == SubSeq(t, i + 2 + n, Len(t))
<1>1. Len(t) \in Nat /\ i <= Len(t) + 1 /\ i + 1 \in 1..Len(t) /\ i \in 1..Len(t)
    BY OctetFacts
<1>2. d \in OctetString /\ Len(d) = Len(t) - i + 1 /\ \A k \in 1..(Len(t) - i + 1) : d[k] = t[i + k - 1]
    BY <1>1, Suffix DEF OctetString
<1>3. Drop(d, 2 + n) = r
    <2>1. 2 + n \in Nat /\ i + (2 + n) <= Len(t) + 1 /\ i + (2 + n) = i + 2 + n
        BY <1>1
    <2>2. Drop(d, 2 + n) = SubSeq(t, i + (2 + n), Len(t))
        BY <2>1, SuffixOfSuffix DEF OctetString
    <2> QED BY <2>1, <2>2
<1> HIDE DEF d, r
<1>4. d[1] \in Nat /\ d[2] = n /\ d # <<>> /\ ~(Len(d) < 2 \/ Len(d) < 2 + d[2])
    <2>1. 1 \in 1..(Len(t) - i + 1) /\ 2 \in 1..(Len(t) - i + 1) /\ i + 1 - 1 = i /\ i + 2 - 1 = i + 1
        BY <1>1
    <2>2. d[1] = t[i] /\ d[2] = t[i + 1]
        BY <1>2, <2>1
    <2>3. t[i] \in Nat
        BY <1>1, OctetFacts
    <2>4. Len(d) >= 2 + n /\ Len(d) >= 2 /\ d # <<>>
        BY <1>1, <1>2
    <2> QED BY <1>1, <1>2, <2>2, <2>3, <2>4
<1> DEFINE x == [code |-> d[1], value |-> SubSeq(d, 3, 2 + d[2])]
<1>5. CotpParams[d] = <<x>> \o CotpParams[r]
    <2>1. CotpParams[d] = ParamsBody(CotpParams, d)
        BY <1>2, CotpParamsEquation
    <2> QED BY <1>3, <1>4, <2>1 DEF ParamsBody
<1>6. r \in OctetString
    <2>1. i + 2 + n \in Nat /\ 1 <= i + 2 + n /\ i + 2 + n <= Len(t) + 1
        BY <1>1
    <2> QED BY <2>1, Suffix DEF r, OctetString
<1>7. CotpParams[r] \in Seq(Parameters)
    BY <1>6, CotpParamsEquation
<1>8. CotpParams[d] \in Seq(Parameters)
    BY <1>2, CotpParamsEquation
<1>9. x.code # -1
    BY <1>4
<1> DEFINE p == CotpParams[d]
           q == CotpParams[r]
<1> HIDE DEF x, p, q
<1>10. p = <<x>> \o q /\ q \in Seq(Parameters) /\ p \in Seq(Parameters) /\ \A j \in DOMAIN q : q[j].code # -1
    BY <1>5, <1>7, <1>8 DEF p, q, Whole, r
<1>11. DOMAIN q = 1..Len(q) /\ DOMAIN p = 1..Len(p) /\ Len(q) \in Nat /\ Len(p) \in Nat
    BY <1>10, LenProperties
<1>12. Len(p) = Len(q) + 1 /\ \A j \in 1..Len(p) : p[j] = IF j = 1 THEN x ELSE q[j - 1]
    BY <1>10, <1>11
<1>13. \A j \in DOMAIN p : p[j].code # -1
    <2> TAKE j \in DOMAIN p
    <2>1. j # 1 => j - 1 \in DOMAIN q
        BY <1>11, <1>12
    <2> QED BY <2>1, <1>9, <1>10, <1>11, <1>12
<1> QED BY <1>13 DEF Whole, p, d

(* No parameters are whole. *)
LEMMA WholeNone ==
    ASSUME NEW t \in OctetString
    PROVE  Whole(CotpParams[SubSeq(t, Len(t) + 1, Len(t))])
<1>1. Len(t) \in Nat /\ Len(t) + 1 \in Int /\ Len(t) < Len(t) + 1
    BY OctetFacts
<1>2. SubSeq(t, Len(t) + 1, Len(t)) = <<>>
    BY <1>1, SubSeqEmpty
<1>3. <<>> \in OctetString
    BY DEF OctetString
<1>4. CotpParams[<<>>] = <<>>
    BY <1>3, CotpParamsEquation DEF ParamsBody
<1>5. Whole(<<>>)
    BY DEF Whole
<1> QED BY <1>2, <1>4, <1>5

(* A TPDU with a fixed part of six octets and whole parameters is read as  *)
(* what its code says.                                                     *)
LEMMA CotpFixedFacts ==
    ASSUME NEW t \in OctetString, Len(t) >= 7, Len(t) <= 254, t[1] = Len(t) - 1, NEW c \in {CC, DR}, t[2] = c,
           Whole(CotpParams[SubSeq(t, 8, Len(t))])
    PROVE  ParseCotp[t].ok /\ ParseCotp[t].code = c
<1> DEFINE header == SubSeq(t, 2, t[1] + 1)
           code == 16 * (header[1] \div 16)
<1>1. Len(t) \in Nat /\ t[1] + 1 = Len(t)
    BY OctetFacts
<1>2. header = SubSeq(t, 2, Len(t))
    BY <1>1
<1> HIDE DEF header
<1>3. Len(header) = Len(t) - 1 /\ header[1] = c
    <2>1. 2 \in Nat /\ 1 <= 2 /\ 2 <= Len(t) + 1 /\ 1 \in 1..(Len(t) - 2 + 1) /\ 2 + 1 - 1 = 2
        BY <1>1
    <2>2. Len(header) = Len(t) - 2 + 1 /\ header[1] = t[2 + 1 - 1]
        BY <1>2, <2>1, Suffix DEF OctetString
    <2> QED BY <1>1, <2>1, <2>2
<1>4. code = c
    <2>1. c = 208 \/ c = 128
        BY DEF CC, DR
    <2>2. 16 * (208 \div 16) = 208 /\ 16 * (128 \div 16) = 128
        BY SMT
    <2> QED BY <1>3, <2>1, <2>2
<1> HIDE DEF code
<1>5. CotpFixed(code) = 6 /\ code \in {CR, CC, DR, ER}
    <2>1. code = CC \/ code = DR
        BY <1>4
    <2>2. CotpFixed(CC) = 6 /\ CotpFixed(DR) = 6
        BY DEF CotpFixed, CR, CC, DR, ER, DT
    <2> QED BY <2>1, <2>2
<1>6. Drop(header, 6) = SubSeq(t, 8, Len(t))
    <2>1. 2 \in Nat /\ 1 <= 2 /\ 6 \in Nat /\ 2 + 6 <= Len(t) + 1 /\ 2 + 6 = 8
        BY <1>1
    <2>2. Drop(SubSeq(t, 2, Len(t)), 6) = SubSeq(t, 2 + 6, Len(t))
        BY <2>1, SuffixOfSuffix DEF OctetString
    <2> QED BY <1>2, <2>1, <2>2
<1> DEFINE params == IF code \in {CR, CC, DR, ER} THEN CotpParams[Drop(header, CotpFixed(code))] ELSE <<>>
<1>7. Whole(params)
    BY <1>5, <1>6
<1> HIDE DEF params
<1>8. ~(Len(t) < 2 \/ t[1] \in {0, 255} \/ t[1] + 1 > Len(t)) /\ ~(Len(header) < CotpFixed(code) \/ ~Whole(params))
    <2> DEFINE n == Len(t)
    <2>3. n \in Nat /\ n >= 7 /\ n <= 254 /\ t[1] = n - 1
        BY <1>1
    <2>4. n - 1 # 0 /\ n - 1 # 255 /\ ~(n - 1 + 1 > n) /\ ~(n < 2)
        <3> HIDE DEF n
        <3> QED BY <2>3
    <2>1. t[1] # 0 /\ t[1] # 255 /\ ~(t[1] + 1 > Len(t)) /\ ~(Len(t) < 2)
        <3>1. t[1] = n - 1
            BY <2>3
        <3>2. ~(t[1] + 1 > n)
            <4> HIDE DEF n
            <4> QED BY <3>1, <2>4
        <3> QED BY <3>1, <3>2, <2>4
    <2>2. ~(Len(header) < 6)
        BY <1>1, <1>3
    <2> QED BY <2>1, <2>2, <1>5, <1>7
<1>9. ParseCotp[t] = [ok |-> TRUE, code |-> code, params |-> params, eot |-> code # DT \/ header[2] >= 128,
              reason |-> CASE code = DR -> header[6] [] code = ER -> header[4] [] OTHER -> None,
              data |-> IF code = ER THEN <<>> ELSE Drop(t, t[1] + 1)]
    BY <1>8 DEF ParseCotp, params, header, code
<1> QED BY <1>4, <1>9

(* The TPDU the peer confirms the connection with *)
ConfirmTpdu == <<17, CC, 0, 1, 0, 1, 0, 192, 1, 13, 194, 2, 0, 1, 193, 2, 0, 1>>

(* The confirm is read as one, with its three parameters. *)
LEMMA ConfirmFacts ==
    /\ ConfirmTpdu \in OctetString /\ Len(ConfirmTpdu) = 18
    /\ ParseCotp[ConfirmTpdu].ok /\ ParseCotp[ConfirmTpdu].code = CC
<1> DEFINE t == ConfirmTpdu
<1>1. t \in OctetString /\ Len(t) = 18
    BY DEF ConfirmTpdu, OctetString, Octet, CC
<1>2. t[1] = 17 /\ t[2] = CC /\ t[9] = 1 /\ t[12] = 2 /\ t[16] = 2
    BY DEF ConfirmTpdu
<1> HIDE DEF t
<1>3. Whole(CotpParams[SubSeq(t, 19, Len(t))])
    <2>1. 19 = Len(t) + 1
        BY <1>1
    <2> QED BY <1>1, <2>1, WholeNone
<1>4. Whole(CotpParams[SubSeq(t, 15, Len(t))])
    <2> DEFINE i == 15
               n == 2
    <2>1. i \in Nat /\ 1 <= i /\ n \in Nat /\ t[i + 1] = n /\ i + n + 1 <= Len(t) /\ i + 2 + n = 19
        BY <1>1, <1>2
    <2>2. Whole(CotpParams[SubSeq(t, i, Len(t))])
        <3> HIDE DEF i, n
        <3> QED BY <1>1, <1>3, <2>1, WholeFrom
    <2> QED BY <2>2
<1>5. Whole(CotpParams[SubSeq(t, 11, Len(t))])
    <2> DEFINE i == 11
               n == 2
    <2>1. i \in Nat /\ 1 <= i /\ n \in Nat /\ t[i + 1] = n /\ i + n + 1 <= Len(t) /\ i + 2 + n = 15
        BY <1>1, <1>2
    <2>2. Whole(CotpParams[SubSeq(t, i, Len(t))])
        <3> HIDE DEF i, n
        <3> QED BY <1>1, <1>4, <2>1, WholeFrom
    <2> QED BY <2>2
<1>6. Whole(CotpParams[SubSeq(t, 8, Len(t))])
    <2> DEFINE i == 8
               n == 1
    <2>1. i \in Nat /\ 1 <= i /\ n \in Nat /\ t[i + 1] = n /\ i + n + 1 <= Len(t) /\ i + 2 + n = 11
        BY <1>1, <1>2
    <2>2. Whole(CotpParams[SubSeq(t, i, Len(t))])
        <3> HIDE DEF i, n
        <3> QED BY <1>1, <1>5, <2>1, WholeFrom
    <2> QED BY <2>2
<1>7. CC \in {CC, DR} /\ Len(t) >= 7 /\ Len(t) <= 254 /\ t[1] = Len(t) - 1
    BY <1>1, <1>2
<1>8. ParseCotp[t].ok /\ ParseCotp[t].code = CC
    BY <1>1, <1>2, <1>6, <1>7, CotpFixedFacts
<1> QED BY <1>1, <1>8 DEF t

(* q is s and r, and begins as s does. *)
IsLead(q, s, r, A) == q \in Seq(A) /\ Len(q) = Len(s) + Len(r) /\ q[1] = s[1] /\ q[2] = s[2]

(* A concatenation begins as its first part does. *)
LEMMA ConcatLead ==
    ASSUME NEW A, NEW s \in Seq(A), NEW r \in Seq(A), Len(s) >= 2
    PROVE  IsLead(s \o r, s, r, A)
<1>1. /\ s \o r \in Seq(A) /\ Len(s \o r) = Len(s) + Len(r) /\ Len(s) \in Nat /\ Len(r) \in Nat
      /\ \A i \in 1..(Len(s) + Len(r)) : (s \o r)[i] = IF i <= Len(s) THEN s[i] ELSE r[i - Len(s)]
    BY ConcatProperties, LenProperties
<1>2. 1 \in 1..(Len(s) + Len(r)) /\ 2 \in 1..(Len(s) + Len(r)) /\ 1 <= Len(s) /\ 2 <= Len(s)
    BY <1>1
<1> QED BY <1>1, <1>2 DEF IsLead

(* The TPDU the peer disconnects with *)
DisconnectTpdu == CotpDr(1, 1, 128)

(* The disconnect is read as one. *)
LEMMA DisconnectFacts ==
    /\ DisconnectTpdu \in OctetString /\ Len(DisconnectTpdu) = 7
    /\ ParseCotp[DisconnectTpdu].ok /\ ParseCotp[DisconnectTpdu].code = DR
<1> DEFINE t == DisconnectTpdu
<1>1. BigEndian(1, 2) = <<0, 1>>
    <2>1. Word(1)
        BY DEF Word
    <2>2. PICK a, b \in Octet : BigEndian(1, 2) = <<a, b>> /\ 256 * a + b = 1
        BY <2>1, TwoOctets
    <2>3. a = 0 /\ b = 1
        BY <2>2, SMT DEF Octet
    <2> QED BY <2>2, <2>3
<1> DEFINE g == <<0, 1>>
           h == <<6, DR>>
           l == <<128>>
<1>2. t = ((h \o g) \o g) \o l
    BY <1>1 DEF DisconnectTpdu, CotpDr
<1>7. g \in Seq(Octet) /\ h \in Seq(Octet) /\ l \in Seq(Octet) /\ Len(g) = 2 /\ Len(h) = 2 /\ Len(l) = 1 /\ h[1] = 6 /\ h[2] = DR
    BY DEF Octet, DR
<1>3. t \in OctetString /\ Len(t) = 7 /\ t[1] = 6 /\ t[2] = DR
    <2> HIDE DEF g, h, l, t
    <2> DEFINE u == h \o g
               v == u \o g
    <2>1. u \in Seq(Octet) /\ Len(u) = 4 /\ u[1] = 6 /\ u[2] = DR
        <3>1. Len(h) >= 2
            BY <1>7
        <3>2. IsLead(u, h, g, Octet)
            BY <1>7, <3>1, ConcatLead
        <3> HIDE DEF u
        <3> QED BY <1>7, <3>2 DEF IsLead
    <2> HIDE DEF u
    <2>2. v \in Seq(Octet) /\ Len(v) = 6 /\ v[1] = 6 /\ v[2] = DR
        <3>1. Len(u) >= 2
            BY <2>1
        <3>2. IsLead(v, u, g, Octet)
            BY <1>7, <2>1, <3>1, ConcatLead
        <3> HIDE DEF v
        <3> QED BY <1>7, <2>1, <3>2 DEF IsLead
    <2>3. t = v \o l
        BY <1>2 DEF u
    <2> HIDE DEF v
    <2>4. t \in Seq(Octet) /\ Len(t) = 7 /\ t[1] = 6 /\ t[2] = DR
        <3>1. Len(v) >= 2
            BY <2>2
        <3>2. IsLead(v \o l, v, l, Octet)
            BY <1>7, <2>2, <3>1, ConcatLead
        <3> QED BY <1>7, <2>2, <2>3, <3>2 DEF IsLead
    <2> QED BY <2>4 DEF OctetString
<1> HIDE DEF t
<1>4. Whole(CotpParams[SubSeq(t, 8, Len(t))])
    <2>1. 8 = Len(t) + 1
        BY <1>3
    <2> QED BY <1>3, <2>1, WholeNone
<1>5. DR \in {CC, DR} /\ Len(t) >= 7 /\ Len(t) <= 254 /\ t[1] = Len(t) - 1
    BY <1>3
<1>6. ParseCotp[t].ok /\ ParseCotp[t].code = DR
    BY <1>3, <1>4, <1>5, CotpFixedFacts
<1> QED BY <1>3, <1>6 DEF t

-----------------------------------------------------------------------------
(* The packets of a message *)

(* The octets of a data TPDU, their number, and the packets of a message *)
Room(size) == IF size > 4 THEN size - 3 ELSE 1
Count(tsdu, size) == IF tsdu = <<>> THEN 1 ELSE (Len(tsdu) + Room(size) - 1) \div Room(size)
Chunk(tsdu, size, i) == SubSeq(tsdu, (i - 1) * Room(size) + 1, IF i * Room(size) < Len(tsdu) THEN i * Room(size) ELSE Len(tsdu))

(* So many pieces of r octets: all but the last are full. *)
LEMMA Quotient ==
    ASSUME NEW a \in Nat \ {0}, NEW r \in Nat \ {0}
    PROVE  /\ (a + r - 1) \div r \in Nat \ {0}
           /\ \A i \in Nat : (i < (a + r - 1) \div r => i * r < a) /\ (i >= (a + r - 1) \div r => i * r >= a)
<1> DEFINE n == (a + r - 1) \div r
           m == (a + r - 1) % r
<1>1. a + r - 1 = n * r + m /\ m \in 0..(r - 1) /\ n \in Nat
    BY SMT
<1> HIDE DEF n, m
<1>2. \A i \in Nat : (i < n => i * r < a) /\ (i >= n => i * r >= a)
    BY <1>1, SMT
<1>3. n # 0
    BY <1>2, SMT
<1> QED BY <1>1, <1>2, <1>3 DEF n

(* A product of natural numbers is one. *)
LEMMA Product == ASSUME NEW i \in Nat, NEW r \in Nat PROVE i * r \in Nat
  BY SMT

(* There is room for an octet in a data TPDU. *)
LEMMA RoomFacts ==
    ASSUME NEW size \in Nat
    PROVE  Room(size) \in Nat \ {0} /\ (Room(size) = 1 \/ Room(size) + 3 = size)
BY DEF Room

(* As many data TPDUs as a message takes: all but the last are full, and   *)
(* they hold all of it.                                                    *)
LEMMA CountFacts ==
    ASSUME NEW tsdu \in OctetString, NEW size \in Nat
    PROVE  /\ Count(tsdu, size) \in Nat \ {0}
           /\ \A i \in 1..(Count(tsdu, size) - 1) : i * Room(size) < Len(tsdu)
           /\ Count(tsdu, size) * Room(size) >= Len(tsdu)
           /\ \A i \in 1..Count(tsdu, size) : (i - 1) * Room(size) \in Nat /\ (i - 1) * Room(size) <= Len(tsdu)
<1> DEFINE r == Room(size)
           a == Len(tsdu)
           n == Count(tsdu, size)
<1>1. r \in Nat \ {0}
    BY RoomFacts
<1>2. a \in Nat /\ (tsdu = <<>> <=> a = 0)
    BY LenProperties DEF OctetString
<1>3. CASE tsdu = <<>>
    <2>1. n = 1 /\ a = 0
        BY <1>2, <1>3 DEF Count
    <2> HIDE DEF n, a, r
    <2>2. n * r >= a /\ (1 - 1) * r = 0
        BY <2>1, <1>1, SMT
    <2> QED BY <2>1, <2>2 DEF n, a, r
<1>4. CASE tsdu # <<>>
    <2>1. a # 0
        BY <1>2, <1>4
    <2>2. n = (a + r - 1) \div r
        BY <1>4 DEF Count
    <2> HIDE DEF n, a, r
    <2>3. n \in Nat \ {0} /\ \A i \in Nat : (i < n => i * r < a) /\ (i >= n => i * r >= a)
        BY <1>1, <1>2, <2>1, <2>2, Quotient
    <2>4. \A i \in 1..n : (i - 1) \in Nat /\ (i - 1) < n
        BY <2>3
    <2>5. r \in Nat /\ \A i \in 1..n : (i - 1) * r \in Nat
        BY <1>1, <2>4, Product
    <2> QED BY <1>2, <2>3, <2>4, <2>5 DEF n, a, r
<1> QED BY <1>3, <1>4

(* Piece i continues those before it, and the last completes the message. *)
Continues(tsdu, size, i) ==
    SubSeq(tsdu, 1, (i - 1) * Room(size)) \o Chunk(tsdu, size, i)
        = IF i = Count(tsdu, size) THEN tsdu ELSE SubSeq(tsdu, 1, i * Room(size))

(* A piece is at most the room there is, and continues what is before it. *)
LEMMA ChunkFacts ==
    ASSUME NEW tsdu \in OctetString, NEW size \in Nat, NEW i \in 1..Count(tsdu, size)
    PROVE  /\ Chunk(tsdu, size, i) \in OctetString /\ Len(Chunk(tsdu, size, i)) <= Room(size)
           /\ Continues(tsdu, size, i)
<1> DEFINE r == Room(size)
           a == Len(tsdu)
           n == Count(tsdu, size)
           k == (i - 1) * r
           e == IF i * r < a THEN i * r ELSE a
<1>1. r \in Nat \ {0} /\ a \in Nat /\ n \in Nat \ {0} /\ i \in Nat
    BY RoomFacts, CountFacts, LenProperties DEF OctetString
<1>2. k \in Nat /\ k <= a /\ (i < n => i * r < a) /\ (i = n => i * r >= a)
    <2>1. i < n => i \in 1..(n - 1)
        BY <1>1
    <2> QED BY <2>1, CountFacts
<1>3. i * r = k + r /\ i * r \in Nat
    <2> HIDE DEF r
    <2> QED BY <1>1, SMT
<1>4. Chunk(tsdu, size, i) = SubSeq(tsdu, k + 1, e)
    BY DEF Chunk
<1> HIDE DEF r, n, k
<1>5. e \in Nat /\ k <= e /\ e <= a /\ e <= k + r /\ (i = n => e = a) /\ (i # n => e = i * r)
    <2>1. i <= n
        BY DEF n
    <2> QED BY <1>1, <1>2, <1>3, <2>1
<1> HIDE DEF e
<1>6. tsdu \in Seq(Octet) /\ \A j \in 1..a : tsdu[j] \in Octet
    BY ElementOfSeq DEF OctetString
<1>7. /\ SubSeq(tsdu, k + 1, e) \in Seq(Octet)
      /\ Len(SubSeq(tsdu, k + 1, e)) = IF k + 1 <= e THEN e - (k + 1) + 1 ELSE 0
    <2>1. k + 1 \in Int /\ e \in Int /\ \A j \in (k + 1)..e : tsdu[j] \in Octet
        BY <1>1, <1>2, <1>5, <1>6
    <2> QED BY <1>6, <2>1, SubSeqProperties
<1>8. Len(SubSeq(tsdu, k + 1, e)) <= r
    BY <1>1, <1>2, <1>5, <1>7
<1>9. SubSeq(tsdu, 1, k) \o SubSeq(tsdu, k + 1, e) = SubSeq(tsdu, 1, e)
    <2>1. 1 \in 1..(k + 1) /\ k \in 0..e /\ e \in Nat /\ e <= a /\ 1 \in 1..(a + 1) /\ k \in 0..a /\ e \in k..a
        BY <1>1, <1>2, <1>5
    <2> QED BY <1>6, <2>1, ConcatAdjacentSubSeq
<1>10. SubSeq(tsdu, 1, a) = tsdu
    BY <1>6, SubSeqFull
<1>11. Continues(tsdu, size, i)
    <2>1. SubSeq(tsdu, 1, k) \o Chunk(tsdu, size, i) = IF i = n THEN tsdu ELSE SubSeq(tsdu, 1, i * r)
        <3>1. CASE i = n
            BY <1>4, <1>5, <1>9, <1>10, <3>1
        <3>2. CASE i # n
            BY <1>4, <1>5, <1>9, <3>2, Zenon
        <3> QED BY <3>1, <3>2
    <2> QED BY <2>1, Zenon DEF Continues, k, n, r
<1> QED BY <1>4, <1>7, <1>8, <1>11 DEF r, OctetString

(* What may be sent: only data TPDUs carry octets of a layer above. *)
Messages == {m \in [code : {DT, CC, DR}, tsdu : OctetString, means : {None} \cup Answers \cup {RequestMeaning(p) : p \in Requests}] :
               m.code # DT => m.tsdu = <<>>}

(* The packets of a data message, and of any message *)
DataPackets(tsdu, size) == [i \in 1..Count(tsdu, size) |-> Tpkt(CotpDt(Chunk(tsdu, size, i), i = Count(tsdu, size)))]
Packets(m, size) ==
    CASE m.code = DT -> DataPackets(m.tsdu, size)
      [] m.code = CC -> <<PeerConfirm>>
      [] m.code = DR -> <<Tpkt(CotpDr(1, 1, 128))>>

(* t is what packet i of message m holds, as the receiver reads it. *)
Holds(t, m, size, i) ==
    /\ t \in OctetString /\ Word(Len(t) + 4) /\ Len(t) >= 2
    /\ Packets(m, size)[i] = Tpkt(t)
    /\ ParseCotp[t].ok /\ ParseCotp[t].code = m.code
    /\ m.code = DT => /\ ParseCotp[t].eot <=> (i = Len(Packets(m, size)))
                      /\ ParseCotp[t].data = Chunk(m.tsdu, size, i)

(* Octet strings flattened are an octet string. *)
LEMMA FlattenIsSeq ==
    ASSUME NEW A, NEW seqs \in Seq(Seq(A))
    PROVE  FlattenSeq(seqs) \in Seq(A)
<1>1. <<>> \in Seq(A)
    OBVIOUS
<1> QED BY <1>1, FlattenAppend

(* The codes are different. *)
LEMMA Codes == CC # DT /\ DR # DT /\ CC # DR
  BY DEF CC, DT, DR

(* A message of one packet *)
LEMMA OnePacket ==
    ASSUME NEW m, NEW size, m.code # DT, NEW t \in OctetString, Len(t) \in Nat, Len(t) >= 2, Len(t) <= 18, Packets(m, size) = <<Tpkt(t)>>,
           ParseCotp[t].ok, ParseCotp[t].code = m.code
    PROVE  /\ Packets(m, size) \in Seq(OctetString) /\ Len(Packets(m, size)) = 1
           /\ \A i \in 1..1 : \E u : Holds(u, m, size, i)
<1>1. Word(Len(t) + 4)
    BY SMT DEF Word
<1>2. Tpkt(t) \in OctetString
    BY <1>1, TpktFacts
<1> DEFINE s == Tpkt(t)
<1> HIDE DEF s
<1>3. Packets(m, size) = <<s>> /\ s \in OctetString
    BY <1>2 DEF s
<1>4. Packets(m, size)[1] = s
    BY <1>3
<1>6. Holds(t, m, size, 1)
    BY <1>1, <1>4 DEF Holds, s
<1> QED BY <1>3, <1>6

(* Each packet of a message holds a TPDU that is read as it was meant. *)
LEMMA PacketFacts ==
    ASSUME NEW m \in Messages, NEW size \in Sizes
    PROVE  /\ Packets(m, size) \in Seq(OctetString)
           /\ Len(Packets(m, size)) = IF m.code = DT THEN Count(m.tsdu, size) ELSE 1
           /\ \A i \in 1..Len(Packets(m, size)) : \E t : Holds(t, m, size, i)
<1>1. m.code \in {DT, CC, DR} /\ m.tsdu \in OctetString
    BY DEF Messages
<1>2. size \in Nat /\ size + 4 <= 65535
    BY StreamAssumption, SMT
<1>3. CASE m.code = DT
    <2> DEFINE n == Count(m.tsdu, size)
               t(i) == CotpDt(Chunk(m.tsdu, size, i), i = n)
               P == Packets(m, size)
    <2>1. n \in Nat \ {0}
        BY <1>1, <1>2, CountFacts
    <2>2. P = [i \in 1..n |-> Tpkt(t(i))]
        <3>1. P = DataPackets(m.tsdu, size)
            BY <1>3, Codes DEF Packets
        <3> QED BY <3>1 DEF DataPackets
    <2>3. ASSUME NEW i \in 1..n
          PROVE  /\ t(i) \in OctetString /\ Word(Len(t(i)) + 4) /\ Len(t(i)) >= 2
                 /\ ParseCotp[t(i)].ok /\ ParseCotp[t(i)].code = DT
                 /\ ParseCotp[t(i)].eot = (i = n) /\ ParseCotp[t(i)].data = Chunk(m.tsdu, size, i)
        <3> DEFINE c == Chunk(m.tsdu, size, i)
        <3>1. c \in OctetString /\ Len(c) <= Room(size)
            BY <1>1, <1>2, ChunkFacts
        <3>2. Len(c) \in Nat
            BY <3>1, LenProperties DEF OctetString
        <3> HIDE DEF c, n
        <3>3. (i = n) \in BOOLEAN
            OBVIOUS
        <3>4. /\ t(i) \in OctetString /\ Len(t(i)) = Len(c) + 3
              /\ ParseCotp[t(i)].ok /\ ParseCotp[t(i)].code = DT
              /\ ParseCotp[t(i)].eot = (i = n) /\ ParseCotp[t(i)].data = c
            BY <3>1, <3>3, CotpDtFacts DEF c
        <3> HIDE DEF t
        <3>5. Room(size) \in Nat /\ (Room(size) = 1 \/ Room(size) + 3 = size)
            BY <1>2, RoomFacts
        <3>6. Word(Len(t(i)) + 4) /\ Len(t(i)) >= 2
            <4> DEFINE a == Len(c)
                       b == Len(t(i))
                       r == Room(size)
            <4>1. a \in Nat /\ a <= r /\ b = a + 3 /\ r \in Nat /\ (r = 1 \/ r + 3 = size) /\ size \in Nat /\ size + 4 <= 65535
                BY <1>2, <3>1, <3>2, <3>4, <3>5
            <4> HIDE DEF a, b, r
            <4>2. b + 4 \in Nat /\ b + 4 <= 65535 /\ b >= 2
                BY <4>1, SMT
            <4> QED BY <4>2 DEF Word, b
        <3> QED BY <3>4, <3>6 DEF c
    <2> HIDE DEF t, n, P
    <2>4. \A i \in 1..n : Tpkt(t(i)) \in OctetString
        BY <2>3, TpktFacts
    <2>5. P \in [1..n -> OctetString]
        BY <2>2, <2>4
    <2>6. P \in Seq(OctetString) /\ Len(P) = n
        BY <2>1, <2>5, FunctionIsSeq
    <2>7. ASSUME NEW i \in 1..n PROVE Holds(t(i), m, size, i)
        <3>1. P[i] = Tpkt(t(i))
            BY <2>2
        <3> QED BY <1>3, <2>3, <2>6, <3>1 DEF Holds, P
    <2>8. \A i \in 1..n : \E u : Holds(u, m, size, i)
        BY <2>7
    <2> QED BY <1>3, <2>6, <2>8 DEF P, n
<1>4. CASE m.code = CC
    <2>1. PeerConfirm = Tpkt(ConfirmTpdu)
        BY DEF PeerConfirm, ConfirmTpdu
    <2>2. Packets(m, size) = <<Tpkt(ConfirmTpdu)>>
        BY <1>4, <2>1, Codes DEF Packets
    <2>3. ConfirmTpdu \in OctetString /\ Len(ConfirmTpdu) \in Nat /\ Len(ConfirmTpdu) >= 2 /\ Len(ConfirmTpdu) <= 18 /\ ParseCotp[ConfirmTpdu].ok /\ ParseCotp[ConfirmTpdu].code = m.code
        BY <1>4, ConfirmFacts
    <2> QED BY <1>4, <2>2, <2>3, OnePacket, Codes
<1>5. CASE m.code = DR
    <2>2. Packets(m, size) = <<Tpkt(DisconnectTpdu)>>
        BY <1>5, Codes DEF Packets, DisconnectTpdu
    <2>3. DisconnectTpdu \in OctetString /\ Len(DisconnectTpdu) \in Nat /\ Len(DisconnectTpdu) >= 2 /\ Len(DisconnectTpdu) <= 18 /\ ParseCotp[DisconnectTpdu].ok /\ ParseCotp[DisconnectTpdu].code = m.code
        BY <1>5, DisconnectFacts
    <2> QED BY <1>5, <2>2, <2>3, OnePacket, Codes
<1> QED BY <1>1, <1>3, <1>4, <1>5

(* What a message sends are its packets. *)
LEMMA OctetsArePackets ==
    ASSUME NEW m \in Messages, NEW size \in Sizes
    PROVE  Octets(m, size) = FlattenSeq(Packets(m, size)) /\ Octets(m, size) \in OctetString
<1>1. m.code \in {DT, CC, DR}
    BY DEF Messages
<1>2. Packets(m, size) \in Seq(Seq(Octet))
    BY PacketFacts DEF OctetString
<1>3. FlattenSeq(Packets(m, size)) \in OctetString
    BY <1>2, FlattenIsSeq DEF OctetString
<1>4. CASE m.code = DT
    <2>1. Packets(m, size) = DataPackets(m.tsdu, size)
        BY <1>4, Codes DEF Packets
    <2>2. Octets(m, size) = SendDt(m.tsdu, size)
        BY <1>4, Codes DEF Octets
    <2>3. SendDt(m.tsdu, size) = FlattenSeq(DataPackets(m.tsdu, size))
        BY Zenon DEF SendDt, DataPackets, Count, Chunk, Room
    <2> QED BY <1>3, <2>1, <2>2, <2>3
<1>5. CASE m.code # DT
    <2>1. PICK x : Packets(m, size) = <<x>> /\ Octets(m, size) = x
        BY <1>1, <1>5, Codes DEF Packets, Octets
    <2>2. Len(<<x>>) = 1 /\ <<x>> \in Seq(Seq(Octet))
        BY <1>2, <2>1
    <2>3. x \in Seq(Octet)
        BY <2>2
    <2> QED BY <2>1, <2>3, <1>3, FlattenOfOne
<1> QED BY <1>4, <1>5

(* The octets from an element of a sequence on *)
LEMMA FlattenSuffix ==
    ASSUME NEW A, NEW seqs \in Seq(Seq(A)), NEW i \in 1..Len(seqs)
    PROVE  /\ FlattenSeq(SubSeq(seqs, i, Len(seqs))) = seqs[i] \o FlattenSeq(SubSeq(seqs, i + 1, Len(seqs)))
           /\ FlattenSeq(SubSeq(seqs, i + 1, Len(seqs))) \in Seq(A)
<1> DEFINE n == Len(seqs)
           t == SubSeq(seqs, i + 1, n)
<1>1. n \in Nat /\ seqs[i] \in Seq(A) /\ i \in Nat /\ i + 1 <= n + 1 /\ 1 <= i + 1 /\ i + 1 \in Nat
    BY LenProperties, ElementOfSeq
<1>2. t \in Seq(Seq(A))
    BY <1>1, Suffix
<1>3. SubSeq(seqs, i, n) = <<seqs[i]>> \o t
    <2>1. i \in 1..n /\ n \in i..n
        BY <1>1
    <2> QED BY <2>1, SubSeqRecursiveFirst
<1> HIDE DEF t, n
<1>4. FlattenSeq(<<seqs[i]>> \o t) = seqs[i] \o FlattenSeq(t)
    BY <1>1, <1>2, FlattenFirst
<1>5. FlattenSeq(t) \in Seq(A)
    BY <1>2, FlattenIsSeq
<1> QED BY <1>3, <1>4, <1>5 DEF t, n

-----------------------------------------------------------------------------
(* The octets on their way *)

(* What the receiver makes of octets that begin with a packet: it is taken *)
(* for one, its end is found, and what is left of the buffer goes on where *)
(* the stream does.                                                        *)
LEMMA FrontOfBuffer ==
    ASSUME NEW b \in OctetString, NEW w \in OctetString, NEW t \in OctetString, NEW r \in OctetString,
           Word(Len(t) + 4), Len(t) >= 2, b \o w = Tpkt(t) \o r, Len(b) >= 4
    PROVE  /\ TpktValid(b) /\ ~LooksLikeTls(b)
           /\ Len(b) >= TpktLength(b) => /\ SubSeq(b, 5, TpktLength(b)) = t
                                         /\ Drop(b, TpktLength(b)) \in OctetString
                                         /\ Drop(b, TpktLength(b)) \o w = r
<1> DEFINE p == Tpkt(t)
           n == Len(t) + 4
<1>1. p \in OctetString /\ Len(p) = n /\ p[1] = 3 /\ TpktLength(p) = n /\ SubSeq(p, 5, n) = t
    BY TpktFacts
<1>2. Len(t) \in Nat /\ n \in Nat /\ n >= 6 /\ Len(b) \in Nat
    BY OctetFacts
<1> HIDE DEF n, p
<1>3. b \o w = p \o r
    BY DEF p
<1>4. b[1] = p[1] /\ b[3] = p[3] /\ b[4] = p[4]
    <2>1. \A i \in 1..Len(b) : i <= Len(p) => b[i] = p[i]
        BY <1>1, <1>3, PrefixOfBoth DEF OctetString
    <2>2. 1 \in 1..Len(b) /\ 3 \in 1..Len(b) /\ 4 \in 1..Len(b) /\ 1 <= n /\ 3 <= n /\ 4 <= n
        BY <1>2
    <2> QED BY <1>1, <2>1, <2>2
<1>5. TpktLength(b) = n
    BY <1>1, <1>4 DEF TpktLength
<1>6. TpktValid(b) /\ ~LooksLikeTls(b)
    BY <1>1, <1>2, <1>4, <1>5 DEF TpktValid, LooksLikeTls
<1>7. ASSUME Len(b) >= n
      PROVE  SubSeq(b, 5, n) = t /\ Drop(b, n) \in OctetString /\ Drop(b, n) \o w = r
    <2>1. PICK c \in Seq(Octet) : b = p \o c /\ c \o w = r
        <3>1. b \in Seq(Octet) /\ w \in Seq(Octet) /\ p \in Seq(Octet) /\ r \in Seq(Octet)
            BY <1>1 DEF OctetString
        <3>2. Len(b) >= Len(p) => Follows(b, w, p, r, Octet)
            BY <1>3, <3>1, PrefixOfBoth
        <3> QED BY <1>1, <1>7, <3>2 DEF Follows
    <2>2. Drop(b, n) = c /\ SubSeq(b, 1, n) = p
        BY <1>1, <2>1, DropOfConcat DEF OctetString
    <2>3. SubSeq(b, 5, n) = SubSeq(p, 5, n)
        <3> DEFINE u == 1
                   v == 5
        <3>1. u \in 1..Len(b) /\ n \in 1..Len(b) /\ v \in 1..(n - u + 1) /\ n \in 1..(n - u + 1) /\ u + v - 1 = v /\ u + n - 1 = n
            BY <1>2, <1>7
        <3> HIDE DEF u, v
        <3>2. SubSeq(SubSeq(b, u, n), v, n) = SubSeq(b, u + v - 1, u + n - 1)
            BY <3>1, SubSeqOfSubSeq DEF OctetString
        <3>3. SubSeq(SubSeq(b, u, n), v, n) = SubSeq(b, v, n)
            BY <3>1, <3>2
        <3> QED BY <2>2, <3>3 DEF u, v
    <2> QED BY <1>1, <2>1, <2>2, <2>3 DEF OctetString
<1> QED BY <1>5, <1>6, <1>7

(* What each message puts on the wire *)
Sent(ms, size) == [i \in DOMAIN ms |-> Octets(ms[i], size)]
(* The octets from message i on, and those of a message from packet j on *)
After(ms, size, i) == FlattenSeq(SubSeq(Sent(ms, size), i, Len(ms)))
From(m, size, j) == FlattenSeq(SubSeq(Packets(m, size), j, Len(Packets(m, size))))

(* j packets of message i are taken, their data are joined, and the stream *)
(* is the rest of the message's packets and the messages after it.         *)
Pending(ms, stream, data, i, size, j) ==
    /\ j \in Nat /\ j < Len(Packets(ms[i], size))
    /\ data = SubSeq(ms[i].tsdu, 1, j * Room(size))
    /\ stream = From(ms[i], size, j + 1) \o After(ms, size, i + 1)

(* What is sent of each message are its octets. *)
LEMMA SentFacts ==
    ASSUME NEW ms \in Seq(Messages), NEW size \in Sizes
    PROVE  /\ Sent(ms, size) \in Seq(Seq(Octet)) /\ Len(Sent(ms, size)) = Len(ms) /\ Len(ms) \in Nat
           /\ \A i \in 1..Len(ms) : ms[i] \in Messages /\ Sent(ms, size)[i] = Octets(ms[i], size)
<1>1. DOMAIN ms = 1..Len(ms) /\ Len(ms) \in Nat /\ \A i \in 1..Len(ms) : ms[i] \in Messages
    BY LenProperties, ElementOfSeq
<1>2. \A i \in 1..Len(ms) : Octets(ms[i], size) \in Seq(Octet)
    BY <1>1, OctetsArePackets DEF OctetString
<1> DEFINE f == Sent(ms, size)
           n == Len(ms)
<1>3. f = [i \in 1..n |-> Octets(ms[i], size)]
    BY <1>1 DEF Sent
<1> HIDE DEF f, n
<1>4. f \in [1..n -> Seq(Octet)]
    BY <1>2, <1>3 DEF n
<1>5. f \in Seq(Seq(Octet)) /\ Len(f) = n
    BY <1>1, <1>4, FunctionIsSeq DEF n
<1> QED BY <1>1, <1>3, <1>5 DEF f, n

(* The octets from message i on are its own and those after it. *)
LEMMA AfterFacts ==
    ASSUME NEW ms \in Seq(Messages), NEW size \in Sizes, NEW i \in 1..Len(ms)
    PROVE  /\ After(ms, size, i) = From(ms[i], size, 1) \o After(ms, size, i + 1)
           /\ After(ms, size, i + 1) \in OctetString
<1> DEFINE s == Sent(ms, size)
           P == Packets(ms[i], size)
<1>1. s \in Seq(Seq(Octet)) /\ Len(s) = Len(ms) /\ ms[i] \in Messages /\ s[i] = Octets(ms[i], size)
    BY SentFacts
<1>2. Octets(ms[i], size) = FlattenSeq(P) /\ P \in Seq(OctetString)
    BY <1>1, OctetsArePackets, PacketFacts
<1> HIDE DEF s, P
<1>3. /\ FlattenSeq(SubSeq(s, i, Len(s))) = s[i] \o FlattenSeq(SubSeq(s, i + 1, Len(s)))
      /\ FlattenSeq(SubSeq(s, i + 1, Len(s))) \in Seq(Octet)
    <2>1. i \in 1..Len(s)
        BY <1>1
    <2> QED BY <1>1, <2>1, FlattenSuffix
<1>4. SubSeq(P, 1, Len(P)) = P
    BY <1>2, SubSeqFull
<1> QED BY <1>1, <1>2, <1>3, <1>4 DEF After, From, s, P, OctetString

(* A message has packets: one, unless it is data. *)
LEMMA PacketCount ==
    ASSUME NEW m \in Messages, NEW size \in Sizes
    PROVE  /\ Len(Packets(m, size)) \in Nat \ {0}
           /\ m.code # DT => Len(Packets(m, size)) = 1
           /\ m.code = DT => Len(Packets(m, size)) = Count(m.tsdu, size)
<1>1. m.tsdu \in OctetString /\ size \in Nat
    BY StreamAssumption DEF Messages
<1>2. Count(m.tsdu, size) \in Nat \ {0}
    BY <1>1, CountFacts
<1> QED BY <1>2, PacketFacts

(* Of a message of which no packet is taken nothing is joined. *)
LEMMA NothingTaken ==
    ASSUME NEW m \in Messages, NEW size \in Sizes
    PROVE  SubSeq(m.tsdu, 1, 0 * Room(size)) = <<>>
<1>1. size \in Nat
    BY StreamAssumption
<1>2. 0 * Room(size) = 0
    BY <1>1, RoomFacts, SMT
<1>3. SubSeq(m.tsdu, 1, 0) = <<>>
    BY SubSeqEmpty
<1> QED BY <1>2, <1>3

(* Between two messages the next one is pending, with nothing of it taken. *)
LEMMA NextIsPending ==
    ASSUME NEW ms \in Seq(Messages), NEW size \in Sizes, NEW i \in 1..Len(ms)
    PROVE  Pending(ms, After(ms, size, i), <<>>, i, size, 0)
<1>1. ms[i] \in Messages
    BY ElementOfSeq
<1>2. 0 < Len(Packets(ms[i], size)) /\ 0 + 1 = 1
    BY <1>1, PacketCount
<1>3. After(ms, size, i) = From(ms[i], size, 0 + 1) \o After(ms, size, i + 1)
    BY <1>2, AfterFacts
<1> QED BY <1>1, <1>2, <1>3, NothingTaken DEF Pending

(* The stream is a packet of message i, with TPDU t, and r after it: one   *)
(* more is taken and the next is pending, or t completes the message.      *)
AtFront(ms, stream, data, i, size, j, t, r) ==
    /\ t \in OctetString /\ r \in OctetString
    /\ Word(Len(t) + 4) /\ Len(t) >= 2 /\ stream = Tpkt(t) \o r
    /\ ParseCotp[t].ok /\ ParseCotp[t].code = ms[i].code
    /\ ms[i].code = DT /\ ~ParseCotp[t].eot => Pending(ms, r, data \o ParseCotp[t].data, i, size, j + 1)
    /\ ms[i].code = DT /\ ParseCotp[t].eot => data \o ParseCotp[t].data = ms[i].tsdu
    /\ ms[i].code # DT \/ ParseCotp[t].eot => r = After(ms, size, i + 1)

(* What is pending begins with the message's next packet. *)
LEMMA TakePacket ==
    ASSUME NEW ms \in Seq(Messages), NEW size \in Sizes, NEW i \in 1..Len(ms), NEW stream, NEW data, NEW j,
           Pending(ms, stream, data, i, size, j)
    PROVE  \E t, r : AtFront(ms, stream, data, i, size, j, t, r)
<1> DEFINE m == ms[i]
           P == Packets(m, size)
           n == Len(P)
           rest == After(ms, size, i + 1)
<1>1. m \in Messages /\ size \in Nat /\ m.tsdu \in OctetString
    BY ElementOfSeq, StreamAssumption DEF Messages
<1>2. P \in Seq(Seq(Octet)) /\ \A k \in 1..n : \E t : Holds(t, m, size, k)
    BY <1>1, PacketFacts DEF OctetString
<1>3. n \in Nat \ {0} /\ (m.code # DT => n = 1) /\ (m.code = DT => n = Count(m.tsdu, size))
    BY <1>1, PacketCount
<1>4. rest \in Seq(Octet)
    BY AfterFacts DEF OctetString
<1>5. /\ j \in Nat /\ j < n /\ data = SubSeq(m.tsdu, 1, j * Room(size))
      /\ stream = From(m, size, j + 1) \o rest
    BY DEF Pending
<1>6. j + 1 \in 1..n /\ j + 1 \in Nat
    BY <1>3, <1>5
<1>7. PICK t : Holds(t, m, size, j + 1)
    BY <1>2, <1>6
<1> DEFINE tail == From(m, size, j + 1 + 1)
<1> HIDE DEF rest, n, P
<1>8. From(m, size, j + 1) = P[j + 1] \o tail /\ tail \in Seq(Octet)
    BY <1>2, <1>6, FlattenSuffix DEF From, n, P
<1> HIDE DEF tail, m
<1>9. t \in OctetString /\ Word(Len(t) + 4) /\ Len(t) >= 2 /\ P[j + 1] = Tpkt(t) /\ Tpkt(t) \in Seq(Octet)
    BY <1>7, TpktFacts DEF Holds, P, OctetString
<1>10. ParseCotp[t].ok /\ ParseCotp[t].code = m.code
    BY <1>7 DEF Holds
<1> DEFINE r == tail \o rest
<1>11. stream = Tpkt(t) \o r /\ r \in OctetString
    <2> DEFINE p == Tpkt(t)
    <2>1. p \in Seq(Octet) /\ stream = (p \o tail) \o rest
        BY <1>5, <1>8, <1>9
    <2> HIDE DEF p
    <2>2. (p \o tail) \o rest = p \o (tail \o rest)
        <3>1. p \in Seq(Octet) /\ tail \in Seq(Octet) /\ rest \in Seq(Octet)
            BY <1>4, <1>8, <2>1
        <3>2. Regroups(p, tail, rest)
            BY <3>1, Regroup
        <3> QED BY <3>2 DEF Regroups
    <2>3. tail \o rest \in Seq(Octet)
        BY <1>4, <1>8, ConcatProperties
    <2> QED BY <2>1, <2>2, <2>3 DEF p, OctetString
<1>12. ASSUME j + 1 = n PROVE r = rest
    <2>1. j + 1 + 1 \in Int /\ n \in Int /\ n < j + 1 + 1
        BY <1>3, <1>5, <1>12
    <2>2. SubSeq(P, j + 1 + 1, n) = <<>>
        BY <2>1, SubSeqEmpty
    <2>3. tail = <<>>
        BY <2>2, FlattenOfNone DEF tail, From, n, P
    <2> QED BY <1>4, <2>3, ConcatEmptySeq
<1>13. CASE m.code # DT
    <2>1. j + 1 = n
        BY <1>3, <1>5, <1>13
    <2> QED BY <1>9, <1>10, <1>11, <1>12, <1>13, <2>1 DEF m, rest, AtFront
<1>14. CASE m.code = DT
    <2> DEFINE c == ParseCotp[t].data
    <2>1. (ParseCotp[t].eot <=> j + 1 = n) /\ c = Chunk(m.tsdu, size, j + 1)
        BY <1>7, <1>14 DEF Holds, n, P
    <2> HIDE DEF c
    <2>2. j + 1 \in 1..Count(m.tsdu, size) /\ j + 1 - 1 = j
        BY <1>3, <1>5, <1>6, <1>14
    <2>3. Continues(m.tsdu, size, j + 1)
        BY <1>1, <2>2, ChunkFacts
    <2> DEFINE k == j + 1
    <2>4. data \o c = IF k = n THEN m.tsdu ELSE SubSeq(m.tsdu, 1, k * Room(size))
        <3>1. k - 1 = j
            BY <1>5
        <3>2. n = Count(m.tsdu, size)
            BY <1>3, <1>14
        <3>3. c = Chunk(m.tsdu, size, k)
            BY <2>1
        <3>4. Continues(m.tsdu, size, k)
            BY <2>3
        <3> HIDE DEF k
        <3> QED BY <1>5, <3>1, <3>2, <3>3, <3>4 DEF Continues
    <2>5. ASSUME j + 1 # n PROVE Pending(ms, r, data \o c, i, size, j + 1)
        <3>1. j + 1 < n
            BY <1>3, <1>5, <2>5
        <3> QED BY <1>6, <2>4, <2>5, <3>1 DEF Pending, m, n, P, tail, rest
    <2>6. AtFront(ms, stream, data, i, size, j, t, r)
        BY <1>9, <1>10, <1>11, <1>12, <1>14, <2>1, <2>4, <2>5 DEF m, rest, c, AtFront
    <2> QED BY <2>6
<1> QED BY <1>13, <1>14

-----------------------------------------------------------------------------
(* The inductive invariant *)

(* What recv_cotp returns *)
Received == [code : {DT, CC, DR}, tsdu : OctetString]

(* What was received is what was sent, as far as it goes. *)
InOrder(ms, g) ==
    /\ g \in Seq(Received) /\ Len(g) <= Len(ms)
    /\ \A i \in 1..Len(g) : g[i].code = ms[i].code /\ g[i].tsdu = ms[i].tsdu

(* The message after those received is pending. *)
Awaits(ms, g, stream, data) ==
    Len(g) < Len(ms) => \E size \in Sizes, j \in Nat : Pending(ms, stream, data, Len(g) + 1, size, j)

(* The inductive invariant. That the octets buffered and on their way are  *)
(* exactly those still to be taken is what makes each step of the receiver *)
(* the one that was meant; InOrderAndWhole says nothing of them.           *)
StreamInv ==
    /\ msgs \in Seq(Messages) /\ wire \in OctetString /\ buf \in OctetString
    /\ pc \in {"fill", "parse", "linger", "done", "timeout", "closed"}
    /\ pc \in {"fill", "parse", "linger"} => Len(got) < Len(msgs)
    /\ InOrder(msgs, got)
    /\ Awaits(msgs, got, buf \o wire, payload)

(* The invariant implies the property. *)
LEMMA InvIsEnough == StreamInv => InOrderAndWhole
<1> SUFFICES ASSUME StreamInv PROVE InOrderAndWhole
    OBVIOUS
<1>1. DOMAIN got = 1..Len(got)
    BY LenProperties DEF StreamInv, InOrder
<1> QED BY <1>1 DEF StreamInv, InOrder, InOrderAndWhole

(* What an exchange sends are messages. *)
LEMMA DataIsMessage ==
    ASSUME NEW tsdu \in OctetString, NEW means \in {None} \cup Answers \cup {RequestMeaning(p) : p \in Requests}
    PROVE  Data(tsdu, means) \in Messages
BY DEF Data, Message, Messages

(* So do the confirm and the disconnect. *)
LEMMA ControlIsMessage == Confirm \in Messages /\ Disconnect \in Messages
<1>1. <<>> \in OctetString
    BY DEF OctetString
<1> QED BY <1>1, Codes DEF Confirm, Disconnect, Message, Messages

(* What is exchanged are messages, at least one. *)
LEMMA ExchangeFacts ==
    ASSUME NEW ms \in Exchanges
    PROVE  ms \in Seq(Messages) /\ Len(ms) \in Nat \ {0}
<1>1. CASE \E p \in Requests : ms = <<Data(AssociationRequest(p), RequestMeaning(p))>>
    <2>1. PICK p \in Requests : ms = <<Data(AssociationRequest(p), RequestMeaning(p))>>
        BY <1>1
    <2> DEFINE x == Data(AssociationRequest(p), RequestMeaning(p))
    <2>2. x \in Messages
        BY StreamAssumption, DataIsMessage
    <2> HIDE DEF x
    <2> QED BY <2>1, <2>2 DEF x
<1>2. CASE \E m \in Answers : ms = <<Confirm, Data(AnswerTsdu(m), m)>>
    <2>1. PICK m \in Answers : ms = <<Confirm, Data(AnswerTsdu(m), m)>>
        BY <1>2
    <2> DEFINE x == Data(AnswerTsdu(m), m)
    <2>2. x \in Messages
        BY StreamAssumption, DataIsMessage
    <2> HIDE DEF x
    <2> QED BY <2>1, <2>2, ControlIsMessage DEF x
<1>3. CASE \E m \in Answers : ms = <<Data(AnswerTsdu(m), m), Disconnect>>
    <2>1. PICK m \in Answers : ms = <<Data(AnswerTsdu(m), m), Disconnect>>
        BY <1>3
    <2> DEFINE x == Data(AnswerTsdu(m), m)
    <2>2. x \in Messages
        BY StreamAssumption, DataIsMessage
    <2> HIDE DEF x
    <2> QED BY <2>1, <2>2, ControlIsMessage DEF x
<1> QED BY <1>1, <1>2, <1>3 DEF Exchanges

(* At first every octet sent is on its way. *)
LEMMA InvInitially == Init => StreamInv
<1> SUFFICES ASSUME Init PROVE StreamInv
    OBVIOUS
<1>1. msgs \in Seq(Messages) /\ Len(msgs) \in Nat \ {0} /\ 1 \in 1..Len(msgs)
    BY ExchangeFacts DEF Init
<1>2. PICK size \in Sizes : wire = FlattenSeq(Sent(msgs, size))
    BY DEF Init, Sent
<1>3. buf = <<>> /\ payload = <<>> /\ got = <<>> /\ pc = "fill"
    BY DEF Init
<1> DEFINE s == Sent(msgs, size)
<1>4. s \in Seq(Seq(Octet)) /\ Len(s) = Len(msgs)
    BY <1>1, SentFacts
<1> HIDE DEF s
<1>5. SubSeq(s, 1, Len(msgs)) = s
    BY <1>4, SubSeqFull
<1>6. wire = After(msgs, size, 1)
    BY <1>2, <1>5 DEF After, s
<1>7. wire \in Seq(Octet)
    BY <1>2, <1>4, FlattenIsSeq DEF s
<1>8. <<>> \o wire = wire
    BY <1>7, ConcatEmptySeq
<1>9. Pending(msgs, <<>> \o wire, <<>>, 1, size, 0)
    BY <1>1, <1>6, <1>8, NextIsPending
<1>10. Len(<<>>) = 0 /\ Len(<<>>) + 1 = 1 /\ 0 \in Nat
    OBVIOUS
<1>11. Awaits(msgs, <<>>, <<>> \o wire, <<>>)
    BY <1>9, <1>10 DEF Awaits
<1>12. InOrder(msgs, <<>>)
    BY <1>1, <1>10 DEF InOrder
<1> QED BY <1>1, <1>3, <1>7, <1>10, <1>11, <1>12 DEF StreamInv, OctetString

(* A receive moves octets from the wire to the buffer. *)
LEMMA FillKeeps ==
    ASSUME StreamInv, NEW n \in Pieces, Fill(n)
    PROVE  StreamInv'
<1>1. PICK k : k = Shorter(n)
    OBVIOUS
<1>2. buf \in Seq(Octet) /\ wire \in Seq(Octet) /\ wire # <<>> /\ Len(wire) \in Nat
    BY LenProperties DEF StreamInv, OctetString, Fill
<1>3. k \in Nat /\ k <= Len(wire)
    BY <1>1, <1>2, StreamAssumption DEF Shorter
<1>4. /\ buf' = buf \o SubSeq(wire, 1, k) /\ wire' = Drop(wire, k)
      /\ msgs' = msgs /\ payload' = payload /\ got' = got
      /\ pc \in {"fill", "linger"} /\ pc' \in {"linger", "parse"}
    BY <1>1 DEF Fill
<1> DEFINE a == SubSeq(wire, 1, k)
           b == SubSeq(wire, k + 1, Len(wire))
<1>5. a \in Seq(Octet)
    <2>1. 1 \in Int /\ k \in Int /\ \A i \in 1..k : wire[i] \in Octet
        BY <1>2, <1>3, ElementOfSeq
    <2> QED BY <2>1, SubSeqProperties
<1>6. b \in Seq(Octet)
    BY <1>2, <1>3, Suffix
<1>7. a \o b = wire
    <2>1. 1 \in 1..(Len(wire) + 1) /\ k \in (1 - 1)..Len(wire) /\ Len(wire) \in k..Len(wire)
        BY <1>2, <1>3
    <2>2. a \o b = SubSeq(wire, 1, Len(wire))
        BY <1>2, <2>1, ConcatAdjacentSubSeq
    <2> QED BY <1>2, <2>2, SubSeqFull
<1>8. buf' = buf \o a /\ wire' = b
    BY <1>4 DEF Drop
<1> HIDE DEF a, b
<1>9. buf' \o wire' = buf \o wire
    <2>1. (buf \o a) \o b = buf \o (a \o b)
        BY <1>2, <1>5, <1>6, ConcatAssociative
    <2> QED BY <1>7, <1>8, <2>1
<1>10. buf' \in OctetString /\ wire' \in OctetString
    BY <1>2, <1>5, <1>6, <1>8, ConcatProperties DEF OctetString
<1>11. Awaits(msgs', got', buf' \o wire', payload') /\ InOrder(msgs', got')
    BY <1>4, <1>9 DEF StreamInv
<1> QED BY <1>4, <1>10, <1>11 DEF StreamInv

(* A message that is the one awaited is handed over. *)
LEMMA ReceivedInOrder ==
    ASSUME NEW ms \in Seq(Messages), NEW g, InOrder(ms, g), Len(g) < Len(ms), NEW m \in Received,
           m.code = ms[Len(g) + 1].code, m.tsdu = ms[Len(g) + 1].tsdu
    PROVE  InOrder(ms, Append(g, m)) /\ Len(Append(g, m)) = Len(g) + 1
<1>1. g \in Seq(Received) /\ Len(g) \in Nat /\ Len(ms) \in Nat
    BY LenProperties DEF InOrder
<1>2. /\ Append(g, m) \in Seq(Received) /\ Len(Append(g, m)) = Len(g) + 1
      /\ \A i \in 1..Len(g) : Append(g, m)[i] = g[i]
      /\ Append(g, m)[Len(g) + 1] = m
    BY <1>1, AppendProperties
<1> DEFINE h == Append(g, m)
           l == Len(g)
<1> HIDE DEF h, l
<1>3. \A i \in 1..(l + 1) : h[i].code = ms[i].code /\ h[i].tsdu = ms[i].tsdu
    <2> TAKE i \in 1..(l + 1)
    <2>1. CASE i = l + 1
        BY <1>2, <2>1 DEF h, l
    <2>2. CASE i # l + 1
        <3>1. i \in 1..l
            BY <1>1, <2>2 DEF l
        <3> QED BY <1>2, <3>1 DEF h, l, InOrder
    <2> QED BY <2>1, <2>2
<1> QED BY <1>1, <1>2, <1>3 DEF InOrder, h, l

(* What recv_cotp returns is the message it was to return. *)
LEMMA ReturnKeeps ==
    ASSUME StreamInv, Len(got) < Len(msgs), NEW m \in Received, Return(m),
           m.code = msgs[Len(got) + 1].code, m.tsdu = msgs[Len(got) + 1].tsdu,
           msgs' = msgs, wire' = wire, buf' \in OctetString, NEW size \in Sizes,
           buf' \o wire = After(msgs, size, Len(got) + 1 + 1)
    PROVE  StreamInv'
<1>1. PICK g, ms, stream : g = got /\ ms = msgs /\ stream = buf' \o wire
    OBVIOUS
<1>2. ms \in Seq(Messages) /\ InOrder(ms, g) /\ Len(g) < Len(ms) /\ Len(g) \in Nat /\ Len(ms) \in Nat
    BY <1>1, LenProperties DEF StreamInv, InOrder
<1>3. got' = Append(g, m) /\ payload' = <<>> /\ msgs' = ms /\ buf' \o wire' = stream
    BY <1>1 DEF Return
<1>4. InOrder(ms, Append(g, m)) /\ Len(Append(g, m)) = Len(g) + 1
    BY <1>1, <1>2, ReceivedInOrder
<1>5. Awaits(ms, Append(g, m), stream, <<>>)
    <2> SUFFICES ASSUME Len(g) + 1 < Len(ms)
                 PROVE  \E z \in Sizes, j \in Nat : Pending(ms, stream, <<>>, Len(g) + 1 + 1, z, j)
        BY <1>4 DEF Awaits
    <2>1. Len(g) + 1 + 1 \in 1..Len(ms)
        BY <1>2
    <2>2. Pending(ms, stream, <<>>, Len(g) + 1 + 1, size, 0)
        BY <1>1, <1>2, <2>1, NextIsPending
    <2> QED BY <2>2
<1>6. pc' \in {"done", "linger", "parse"} /\ (pc' # "done" => Len(g) + 1 # Len(ms))
    BY <1>1 DEF Return
<1>7. pc' \in {"fill", "parse", "linger"} => Len(got') < Len(msgs')
    BY <1>2, <1>3, <1>4, <1>6
<1>8. msgs' \in Seq(Messages) /\ wire' \in OctetString /\ buf' \in OctetString
    BY <1>1, <1>2, <1>3 DEF StreamInv
<1>9. pc' \in {"fill", "parse", "linger", "done", "timeout", "closed"}
    BY <1>6
<1>10. InOrder(msgs', got') /\ Awaits(msgs', got', buf' \o wire', payload')
    BY <1>3, <1>4, <1>5
<1> QED BY <1>7, <1>8, <1>9, <1>10 DEF StreamInv

(* A parse takes the packet that was sent, or waits for the rest of it. *)
LEMMA ParseKeeps ==
    ASSUME StreamInv, Parse
    PROVE  StreamInv'
<1>1. /\ pc = "parse" /\ Len(got) < Len(msgs) /\ msgs \in Seq(Messages) /\ wire \in OctetString /\ buf \in OctetString
      /\ msgs' = msgs /\ wire' = wire /\ Len(got) \in Nat /\ Len(msgs) \in Nat /\ InOrder(msgs, got)
    BY LenProperties DEF StreamInv, Parse, InOrder
<1>2. PICK size \in Sizes, j \in Nat : Pending(msgs, buf \o wire, payload, Len(got) + 1, size, j)
    BY <1>1 DEF StreamInv, Awaits
<1>3. PICK i : i = Len(got) + 1
    OBVIOUS
<1>4. i \in 1..Len(msgs) /\ msgs[i] \in Messages
    BY <1>1, <1>3, ElementOfSeq
<1>5. PICK t, r : AtFront(msgs, buf \o wire, payload, i, size, j, t, r)
    BY <1>1, <1>2, <1>3, <1>4, TakePacket
<1>6. Len(buf) >= 4 => /\ TpktValid(buf) /\ ~LooksLikeTls(buf)
                       /\ Len(buf) >= TpktLength(buf) => /\ SubSeq(buf, 5, TpktLength(buf)) = t
                                                         /\ Drop(buf, TpktLength(buf)) \in OctetString
                                                         /\ Drop(buf, TpktLength(buf)) \o wire = r
    BY <1>1, <1>5, FrontOfBuffer DEF AtFront
<1>7. ~Malformed
    BY <1>6 DEF Malformed
<1>8. CASE ~WholePacket
    <2>1. pc' = "fill" /\ buf' = buf /\ payload' = payload /\ got' = got
        BY <1>7, <1>8 DEF Parse
    <2> QED BY <1>1, <2>1 DEF StreamInv
<1>9. CASE WholePacket
    <2>1. SubSeq(buf, 5, TpktLength(buf)) = t /\ Remaining \in OctetString /\ Remaining \o wire = r
        BY <1>6, <1>9 DEF WholePacket, Remaining
    <2>2. PICK cotp : cotp = ParseCotp[t]
        OBVIOUS
    <2>3. /\ buf' = Remaining
          /\ CASE ~cotp.ok -> pc' = "raised" /\ UNCHANGED <<payload, got>>
               [] cotp.ok /\ cotp.code # DT -> Return([code |-> cotp.code, tsdu |-> <<>>])
               [] cotp.ok /\ cotp.code = DT /\ cotp.eot -> Return([code |-> DT, tsdu |-> payload \o cotp.data])
               [] OTHER -> payload' = payload \o cotp.data /\ UNCHANGED <<got, pc>>
        BY <1>7, <1>9, <2>1, <2>2 DEF Parse
    <2>4. cotp.ok /\ cotp.code = msgs[i].code /\ buf' \in OctetString /\ buf' \o wire = r
        BY <1>5, <2>1, <2>2, <2>3 DEF AtFront
    <2>5. CASE msgs[i].code # DT
        <3>1. Return([code |-> cotp.code, tsdu |-> <<>>])
            BY <2>3, <2>4, <2>5
        <3>2. msgs[i].tsdu = <<>> /\ msgs[i].code \in {DT, CC, DR} /\ msgs[i].tsdu \in OctetString
            BY <1>4, <2>5 DEF Messages
        <3> DEFINE m == [code |-> cotp.code, tsdu |-> <<>>]
        <3>3. m \in Received /\ m.code = msgs[i].code /\ m.tsdu = msgs[i].tsdu
            BY <2>4, <3>2 DEF Received
        <3> HIDE DEF m
        <3>4. buf' \o wire = After(msgs, size, i + 1) /\ Return(m)
            BY <1>5, <2>4, <2>5, <3>1 DEF m, AtFront
        <3> QED BY <1>1, <1>3, <2>4, <3>3, <3>4, ReturnKeeps
    <2>6. CASE msgs[i].code = DT /\ cotp.eot
        <3>1. Return([code |-> DT, tsdu |-> payload \o cotp.data])
            BY <2>3, <2>4, <2>6
        <3>2. msgs[i].tsdu \in OctetString
            BY <1>4 DEF Messages
        <3> DEFINE m == [code |-> DT, tsdu |-> payload \o cotp.data]
        <3>3. payload \o cotp.data = msgs[i].tsdu
            BY <1>5, <2>2, <2>6 DEF AtFront
        <3>4. m \in Received /\ m.code = msgs[i].code /\ m.tsdu = msgs[i].tsdu
            BY <2>6, <3>2, <3>3 DEF Received
        <3> HIDE DEF m
        <3>5. buf' \o wire = After(msgs, size, i + 1) /\ Return(m)
            BY <1>5, <2>2, <2>4, <2>6, <3>1 DEF m, AtFront
        <3> QED BY <1>1, <1>3, <2>4, <3>4, <3>5, ReturnKeeps
    <2>7. CASE msgs[i].code = DT /\ ~cotp.eot
        <3>1. payload' = payload \o cotp.data /\ got' = got /\ pc' = pc
            BY <2>3, <2>4, <2>7
        <3>2. Pending(msgs, buf' \o wire, payload', i, size, j + 1) /\ j + 1 \in Nat
            BY <1>5, <2>2, <2>4, <2>7, <3>1 DEF AtFront
        <3>3. Awaits(msgs', got', buf' \o wire', payload')
            BY <1>1, <1>3, <3>1, <3>2 DEF Awaits
        <3> QED BY <1>1, <2>4, <3>1, <3>3 DEF StreamInv
    <2> QED BY <2>5, <2>6, <2>7
<1> QED BY <1>8, <1>9

(* Every step keeps the invariant. *)
LEMMA InvKept == StreamInv /\ [Next]_vars => StreamInv'
<1> SUFFICES ASSUME StreamInv, [Next]_vars PROVE StreamInv'
    OBVIOUS
<1>1. CASE \E n \in Pieces : Fill(n)
    BY <1>1, FillKeeps
<1>2. CASE Timeout
    BY <1>2 DEF Timeout, StreamInv
<1>3. CASE WatchEnds
    BY <1>3 DEF WatchEnds, StreamInv
<1>4. CASE Closed
    BY <1>4 DEF Closed, StreamInv
<1>5. CASE Parse
    BY <1>5, ParseKeeps
<1>6. CASE Over \/ UNCHANGED vars
    BY <1>6 DEF Over, vars, StreamInv
<1> QED BY <1>1, <1>2, <1>3, <1>4, <1>5, <1>6 DEF Next

(* The receiver of an association attempt is given the messages that were  *)
(* sent, whole and in order, however they were cut into TPDUs (_send_dt) and*)
(* into pieces (TCP), and never takes octets of the peer for a malformed   *)
(* packet: recv_tpkt keeps what follows a packet and recv_cotp joins the   *)
(* data TPDUs of one message and no more. For every agreed size, message and*)
(* size of a piece.                                                        *)
THEOREM MessagesInOrderAndWhole == Spec => []InOrderAndWhole
<1>1. Init => StreamInv
    BY InvInitially
<1>2. StreamInv /\ [Next]_vars => StreamInv'
    BY InvKept
<1>3. StreamInv => InOrderAndWhole
    BY InvIsEnough
<1> QED BY <1>1, <1>2, <1>3, PTL DEF Spec

(***************************************************************************)
(* What the encoders write is read back by the decoders: the octets of a   *)
(* message are put together of elements and parameters.                    *)
(***************************************************************************)
-----------------------------------------------------------------------------
(* Numbers in octets *)

(* The body of the recursion of int.from_bytes *)
BytesBody(f, s) == IF s = <<>> THEN 0 ELSE 256 * f[Front(s)] + Last(s)

(* The octets but the last are fewer. *)
LEMMA FrontFacts ==
    ASSUME NEW s \in OctetString, s # <<>>
    PROVE  Front(s) \in OctetString /\ Len(Front(s)) < Len(s) /\ Last(s) \in Nat
<1>1. Len(s) \in Nat /\ Len(s) # 0
    BY LenProperties DEF OctetString
<1>2. 1 \in Int /\ Len(s) - 1 \in Int /\ \A i \in 1..(Len(s) - 1) : s[i] \in Octet
    BY <1>1, OctetFacts
<1>3. SubSeq(s, 1, Len(s) - 1) \in Seq(Octet) /\ Len(SubSeq(s, 1, Len(s) - 1)) = IF 1 <= Len(s) - 1 THEN Len(s) - 1 - 1 + 1 ELSE 0
    BY <1>2, SubSeqProperties
<1>4. Len(s) \in 1..Len(s)
    BY <1>1
<1>5. s[Len(s)] \in Nat
    BY <1>4, OctetFacts
<1> QED BY <1>1, <1>3, <1>5 DEF Front, Last, OctetString

(* The recursion as an equation, and what it returns *)
LEMMA FromBytesEquation ==
    /\ FromBytes \in [OctetString -> Nat]
    /\ \A s \in OctetString : FromBytes[s] = BytesBody(FromBytes, s)
<1> DEFINE S == OctetString
           V == Nat
           F == [p \in [S -> V] \X S |-> BytesBody(p[1], p[2])]
           size == [s \in S |-> Len(s)]
<1>1. \A s \in S : s # <<>> => Front(s) \in S /\ Len(Front(s)) < Len(s) /\ Last(s) \in Nat
    BY FrontFacts
<1>2. ASSUME NEW f \in [S -> V], NEW s \in S
      PROVE  BytesBody(f, s) \in V /\ F[<<f, s>>] = BytesBody(f, s)
    <2>1. F[<<f, s>>] = BytesBody(f, s)
        OBVIOUS
    <2>2. s # <<>> => f[Front(s)] \in Nat /\ Last(s) \in Nat
        BY <1>1
    <2>3. BytesBody(f, s) \in Nat
        BY <2>2 DEF BytesBody
    <2> HIDE DEF F
    <2> QED BY <2>1, <2>3
<1>3. size \in [S -> Nat] /\ \A s \in S : size[s] = Len(s)
    BY OctetFacts
<1>4. ASSUME NEW f \in [S -> V], NEW g \in [S -> V], NEW s \in S,
             \A q \in S : size[q] < size[s] => f[q] = g[q]
      PROVE  F[<<f, s>>] = F[<<g, s>>]
    <2>1. s # <<>> => f[Front(s)] = g[Front(s)]
        <3> HIDE DEF size, V
        <3> QED BY <1>1, <1>3, <1>4
    <2>2. BytesBody(f, s) = BytesBody(g, s)
        BY <2>1 DEF BytesBody
    <2> HIDE DEF F, V
    <2> QED BY <2>2, <1>2
<1>5. Contracts(F, S, V, size)
    <2> HIDE DEF F, size, V, S
    <2> QED BY <1>2, <1>4 DEF Contracts
<1>6. 0 \in V
    OBVIOUS
<1>7. PICK f \in [S -> V] : Solves(f, F, S)
    <2> HIDE DEF F, S, size, V
    <2> QED BY <1>3, <1>5, <1>6, Recursion
<1>8. f = [s \in OctetString |-> BytesBody(f, s)]
    <2>1. f = [x \in S |-> F[<<f, x>>]]
        BY <1>7 DEF Solves
    <2> HIDE DEF F, V
    <2> QED BY <2>1, <1>2
<1>9. FromBytes = [s \in OctetString |-> BytesBody(FromBytes, s)]
    <2> HIDE DEF F, V
    <2>1. f = [s \in OctetString |-> IF s = <<>> THEN 0 ELSE 256 * f[Front(s)] + Last(s)]
        BY <1>8 DEF BytesBody
    <2>2. FromBytes = [s \in OctetString |-> IF s = <<>> THEN 0 ELSE 256 * FromBytes[Front(s)] + Last(s)]
        BY <2>1, Zenon DEF FromBytes
    <2> QED BY <2>2 DEF BytesBody
<1>10. \A s \in OctetString : FromBytes[s] = BytesBody(FromBytes, s)
    BY <1>9
<1>11. \A s \in S : FromBytes[s] \in V
    <2> DEFINE T == {s \in S : FromBytes[s] \in V}
    <2>1. ASSUME NEW s \in S, \A q \in S : size[q] < size[s] => q \in T PROVE s \in T
        <3>1. s # <<>> => FromBytes[Front(s)] \in Nat /\ Last(s) \in Nat
            <4> HIDE DEF size
            <4> QED BY <1>1, <1>3, <2>1
        <3>2. BytesBody(FromBytes, s) \in Nat
            BY <3>1 DEF BytesBody
        <3> QED BY <3>2, <1>10
    <2>2. \A s \in S : s \in T
        <3> HIDE DEF T, S, size
        <3> QED BY <2>1, <1>3, SizeInduction
    <2> QED BY <2>2
<1> QED BY <1>9, <1>10, <1>11

(* One more octet is the last digit to the base 256. *)
LEMMA FromBytesAppend ==
    ASSUME NEW s \in OctetString, NEW x \in Octet
    PROVE  /\ Append(s, x) \in OctetString /\ Len(Append(s, x)) = Len(s) + 1
           /\ FromBytes[Append(s, x)] = 256 * FromBytes[s] + x /\ FromBytes[s] \in Nat
<1> DEFINE t == Append(s, x)
<1>1. /\ t \in Seq(Octet) /\ t # <<>> /\ Len(t) = Len(s) + 1 /\ Len(s) \in Nat
      /\ \A i \in 1..Len(s) : t[i] = s[i]
      /\ t[Len(s) + 1] = x
    BY AppendProperties, LenProperties DEF OctetString
<1> HIDE DEF t
<1>2. Last(t) = x
    BY <1>1 DEF Last
<1>3. Front(t) = s
    <2>1. Front(t) \in Seq(Octet) /\ Len(Front(t)) = Len(s) /\ \A i \in 1..Len(s) : Front(t)[i] = t[i]
        <3>1. 1 \in Int /\ Len(s) \in Int /\ \A i \in 1..Len(s) : t[i] \in Octet
            BY <1>1, OctetFacts
        <3>2. /\ SubSeq(t, 1, Len(s)) \in Seq(Octet) /\ Len(SubSeq(t, 1, Len(s))) = IF 1 <= Len(s) THEN Len(s) - 1 + 1 ELSE 0
              /\ \A i \in 1..(Len(s) - 1 + 1) : SubSeq(t, 1, Len(s))[i] = t[1 + i - 1]
            BY <3>1, SubSeqProperties
        <3>3. Front(t) = SubSeq(t, 1, Len(s))
            BY <1>1 DEF Front
        <3>4. \A i \in 1..Len(s) : i \in 1..(Len(s) - 1 + 1) /\ 1 + i - 1 = i
            BY <1>1
        <3>5. Len(Front(t)) = Len(s)
            BY <1>1, <3>2, <3>3
        <3> QED BY <3>2, <3>3, <3>4, <3>5
    <2> QED BY <1>1, <2>1, SeqEqual DEF OctetString
<1>4. FromBytes[t] = BytesBody(FromBytes, t) /\ FromBytes[s] \in Nat
    BY <1>1, FromBytesEquation DEF OctetString
<1> QED BY <1>1, <1>2, <1>3, <1>4 DEF BytesBody, t, OctetString

(* n fits k octets, of which there are at most three. *)
Fits(n, k) == n \in Nat /\ \/ k = 0 /\ n = 0
                           \/ k = 1 /\ n < 256
                           \/ k = 2 /\ n < 65536
                           \/ k = 3 /\ n < 16777216

(* The quotient by 256 fits one octet less. *)
HasQuotient(n, k) == Fits(n \div 256, k - 1) /\ n % 256 \in Octet /\ n = 256 * (n \div 256) + (n % 256)

(* Division by 256 *)
LEMMA DivideBounds ==
    ASSUME NEW n \in Nat
    PROVE  /\ n \div 256 \in Nat /\ n % 256 \in 0..255 /\ n = 256 * (n \div 256) + (n % 256)
           /\ n < 256 => n \div 256 = 0
           /\ n < 65536 => n \div 256 < 256
           /\ n < 16777216 => n \div 256 < 65536
BY SMT

LEMMA FitsStep ==
    ASSUME NEW n, NEW k \in {1, 2, 3}, Fits(n, k)
    PROVE  HasQuotient(n, k)
<1> DEFINE q == n \div 256
<1>1. n \in Nat /\ (k = 1 => n < 256) /\ (k = 2 => n < 65536) /\ (k = 3 => n < 16777216)
    BY SMT DEF Fits
<1>2. /\ q \in Nat /\ n % 256 \in 0..255 /\ n = 256 * q + (n % 256)
      /\ k = 1 => q = 0
      /\ k = 2 => q < 256
      /\ k = 3 => q < 65536
    BY <1>1, DivideBounds
<1> HIDE DEF q
<1>6. Fits(q, k - 1)
    <2>1. CASE k = 1
        BY <1>2, <2>1 DEF Fits
    <2>2. CASE k = 2
        BY <1>2, <2>2 DEF Fits
    <2>3. CASE k = 3
        BY <1>2, <2>3 DEF Fits
    <2> QED BY <2>1, <2>2, <2>3
<1>7. n % 256 \in Octet
    BY <1>2 DEF Octet
<1> QED BY <1>2, <1>6, <1>7 DEF HasQuotient, q

(* to_bytes writes the last octet after those of the quotient. *)
OctetAt(n, k, i) ==
    (n \div 256^(k - i)) % 256 = IF i = k THEN n % 256 ELSE ((n \div 256) \div 256^(k - 1 - i)) % 256

LEMMA BigEndianElements ==
    ASSUME NEW n \in Nat, NEW k \in {1, 2, 3}, NEW i \in 1..k
    PROVE  OctetAt(n, k, i)
<1>1. 256^0 = 1 /\ 256^1 = 256 /\ 256^2 = 65536
    BY SMT
<1>2. n \div 1 = n /\ (n \div 256) \div 1 = n \div 256 /\ n \div 65536 = (n \div 256) \div 256
    BY SMT
<1>3. CASE i = k
    <2>1. k - i = 0
        BY <1>3
    <2> QED BY <1>1, <1>2, <1>3, <2>1 DEF OctetAt
<1>4. CASE k - i = 1
    <2>1. k - 1 - i = 0 /\ i # k
        BY <1>4
    <2> QED BY <1>1, <1>2, <1>4, <2>1 DEF OctetAt
<1>5. CASE k - i = 2
    <2>1. k - 1 - i = 1 /\ i # k
        BY <1>5
    <2> QED BY <1>1, <1>2, <1>5, <2>1 DEF OctetAt
<1>6. k - i = 0 \/ k - i = 1 \/ k - i = 2
    OBVIOUS
<1> QED BY <1>3, <1>4, <1>5, <1>6

(* No octets hold nothing. *)
LEMMA NoOctets == ASSUME NEW n PROVE BigEndian(n, 0) = <<>>
<1>1. BigEndian(n, 0) = [i \in 1..0 |-> (n \div 256^(0 - i)) % 256]
    BY DEF BigEndian
<1>2. 1..0 = {}
    OBVIOUS
<1> QED BY <1>1, <1>2

(* So what is written is what is written of the quotient, and one more. *)
LEMMA BigEndianStep ==
    ASSUME NEW n \in Nat, NEW k \in {1, 2, 3}, BigEndian(n \div 256, k - 1) \in OctetString, Len(BigEndian(n \div 256, k - 1)) = k - 1
    PROVE  BigEndian(n, k) = Append(BigEndian(n \div 256, k - 1), n % 256)
<1> DEFINE q == n \div 256
           s == BigEndian(q, k - 1)
           x == n % 256
           t == Append(s, x)
           b == BigEndian(n, k)
<1>1. q \in Nat /\ x \in 0..255 /\ k \in Nat
    BY SMT
<1>2. x \in Octet
    BY <1>1 DEF Octet
<1>3. t \in Seq(Octet) /\ Len(t) = k /\ (\A i \in 1..(k - 1) : t[i] = s[i]) /\ t[k] = x
    <2>1. s \in Seq(Octet) /\ Len(s) = k - 1 /\ (k - 1) + 1 = k
        BY <1>1 DEF OctetString
    <2> HIDE DEF s, x
    <2> QED BY <1>2, <2>1, AppendProperties
<1>4. b = [i \in 1..k |-> (n \div 256^(k - i)) % 256] /\ s = [i \in 1..(k - 1) |-> (q \div 256^(k - 1 - i)) % 256]
    BY DEF BigEndian
<1> HIDE DEF b, s, t
<1>5. ASSUME NEW i \in 1..k PROVE b[i] = t[i]
    <2>1. b[i] = (n \div 256^(k - i)) % 256
        BY <1>4
    <2>2. b[i] = IF i = k THEN x ELSE (q \div 256^(k - 1 - i)) % 256
        <3>1. OctetAt(n, k, i)
            BY BigEndianElements
        <3> QED BY <2>1, <3>1 DEF OctetAt
    <2>3. CASE i = k
        BY <1>3, <2>2, <2>3
    <2>4. CASE i # k
        <3>1. i \in 1..(k - 1)
            BY <1>1, <2>4
        <3>2. s[i] = (q \div 256^(k - 1 - i)) % 256
            BY <1>4, <3>1
        <3> QED BY <1>3, <2>2, <2>4, <3>1, <3>2
    <2> QED BY <2>3, <2>4
<1>6. \A i \in 1..k : t[i] \in Octet
    BY <1>3, ElementOfSeq
<1>7. b \in [1..k -> Octet]
    <2>1. \A i \in 1..k : b[i] \in Octet
        BY <1>5, <1>6
    <2>2. DOMAIN b = 1..k /\ b = [i \in 1..k |-> b[i]]
        BY <1>4
    <2> QED BY <2>1, <2>2
<1>8. b \in Seq(Octet) /\ Len(b) = k
    BY <1>1, <1>7, FunctionIsSeq
<1> QED BY <1>3, <1>5, <1>8, SeqEqual DEF b, t, s

(* from_bytes gives back what to_bytes wrote. *)
Written(n, k) == BigEndian(n, k) \in OctetString /\ Len(BigEndian(n, k)) = k /\ FromBytes[BigEndian(n, k)] = n

LEMMA WriteStep ==
    ASSUME NEW n, NEW k \in {1, 2, 3}, Fits(n, k), Written(n \div 256, k - 1)
    PROVE  Written(n, k)
<1> DEFINE s == BigEndian(n \div 256, k - 1)
           x == n % 256
<1>1. n \in Nat /\ x \in Octet /\ n = 256 * (n \div 256) + x
    <2>1. HasQuotient(n, k)
        BY FitsStep
    <2>2. n \in Nat
        BY DEF Fits
    <2> QED BY <2>1, <2>2 DEF HasQuotient
<1>2. s \in OctetString /\ Len(s) = k - 1 /\ FromBytes[s] = n \div 256
    BY DEF Written
<1>3. BigEndian(n, k) = Append(s, x)
    BY <1>1, <1>2, BigEndianStep
<1> HIDE DEF s, x
<1>4. Append(s, x) \in OctetString /\ Len(Append(s, x)) = Len(s) + 1 /\ FromBytes[Append(s, x)] = 256 * FromBytes[s] + x
    BY <1>1, <1>2, FromBytesAppend
<1>5. Len(s) + 1 = k
    BY <1>2
<1> QED BY <1>1, <1>2, <1>3, <1>4, <1>5 DEF Written

(* By induction on the number of octets *)
LEMMA BytesAreWritten ==
    ASSUME NEW n, NEW k \in {1, 2, 3}, Fits(n, k)
    PROVE  Written(n, k)
<1>1. Written(0, 0)
    <2>1. <<>> \in OctetString /\ Len(<<>>) = 0
        BY DEF OctetString
    <2>2. FromBytes[<<>>] = 0
        BY <2>1, FromBytesEquation DEF BytesBody
    <2> QED BY <2>1, <2>2, NoOctets DEF Written
<1>2. \A m : Fits(m, 0) => m = 0
    BY SMT DEF Fits
<1>3. \A m : Fits(m, 1) => Written(m, 1)
    <2> TAKE m
    <2> HAVE Fits(m, 1)
    <2>1. Fits(m \div 256, 0) /\ 1 - 1 = 0
        BY FitsStep DEF HasQuotient
    <2>2. Written(m \div 256, 0)
        BY <1>1, <1>2, <2>1
    <2> QED BY <2>1, <2>2, WriteStep
<1>4. \A m : Fits(m, 2) => Written(m, 2)
    <2> TAKE m
    <2> HAVE Fits(m, 2)
    <2>1. Fits(m \div 256, 1) /\ 2 - 1 = 1
        BY FitsStep DEF HasQuotient
    <2>2. Written(m \div 256, 1)
        BY <1>3, <2>1
    <2> QED BY <2>1, <2>2, WriteStep
<1>5. \A m : Fits(m, 3) => Written(m, 3)
    <2> TAKE m
    <2> HAVE Fits(m, 3)
    <2>1. Fits(m \div 256, 2) /\ 3 - 1 = 2
        BY FitsStep DEF HasQuotient
    <2>2. Written(m \div 256, 2)
        BY <1>4, <2>1
    <2> QED BY <2>1, <2>2, WriteStep
<1> QED BY <1>3, <1>4, <1>5

(* A length the encoder writes *)
WritableLength(n) == Fits(n, 3)

(* Its two forms: itself, or the number of its octets and these *)
LengthForm(n, l, b) ==
    /\ l \in Octet /\ b \in OctetString /\ EncodeLength(n) = <<l>> \o b
    /\ \/ l = n /\ l < 128 /\ Len(b) = 0
       \/ Len(b) \in {1, 2, 3} /\ l = 128 + Len(b) /\ FromBytes[b] = n

(* Every such length has one of them. *)
LEMMA LengthFacts ==
    ASSUME NEW n, WritableLength(n)
    PROVE  \E l, b : LengthForm(n, l, b)
<1>1. n \in Nat /\ n < 16777216
    BY SMT DEF WritableLength, Fits
<1>2. CASE n < 128
    <2>1. EncodeLength(n) = <<n>> \o <<>>
        BY <1>2 DEF EncodeLength
    <2>2. n \in Octet /\ <<>> \in OctetString /\ Len(<<>>) = 0
        BY <1>1, <1>2 DEF Octet, OctetString
    <2> QED BY <1>2, <2>1, <2>2 DEF LengthForm
<1>3. CASE ~(n < 128)
    <2> DEFINE HeldBy(k) == 256^(k - 1) <= n /\ n < 256^k
               k0 == CHOOSE k \in 1..3 : HeldBy(k)
    <2>1. 256^(1 - 1) = 1 /\ 256^1 = 256 /\ 256^(2 - 1) = 256 /\ 256^2 = 65536 /\ 256^(3 - 1) = 65536 /\ 256^3 = 16777216
        BY SMT
    <2>2. \E k \in 1..3 : HeldBy(k)
        <3>1. n < 256 => HeldBy(1)
            BY <1>1, <1>3, <2>1, SMT
        <3>2. ~(n < 256) /\ n < 65536 => HeldBy(2)
            BY <1>1, <1>3, <2>1, SMT
        <3>3. ~(n < 65536) => HeldBy(3)
            BY <1>1, <1>3, <2>1, SMT
        <3> HIDE DEF HeldBy
        <3> QED BY <3>1, <3>2, <3>3
    <2>3. k0 \in 1..3 /\ HeldBy(k0)
        BY <2>2
    <2>4. PICK k \in {1, 2, 3} : k = k0
        BY <2>3
    <2>5. Fits(n, k)
        <3>1. n < 256^k
            BY <2>3, <2>4
        <3> HIDE DEF k0
        <3>2. CASE k = 1
            BY <1>1, <2>1, <3>1, <3>2 DEF Fits
        <3>3. CASE k = 2
            BY <1>1, <2>1, <3>1, <3>3 DEF Fits
        <3>4. CASE k = 3
            BY <1>1, <2>1, <3>1, <3>4 DEF Fits
        <3> QED BY <3>2, <3>3, <3>4
    <2>6. EncodeLength(n) = <<128 + k>> \o BigEndian(n, k)
        BY <1>3, <2>4 DEF EncodeLength
    <2>7. Written(n, k)
        BY <2>5, BytesAreWritten
    <2>8. 128 + k \in Octet
        BY SMT DEF Octet
    <2>9. LengthForm(n, 128 + k, BigEndian(n, k))
        BY <2>6, <2>7, <2>8 DEF LengthForm, Written
    <2> QED BY <2>9
<1> QED BY <1>2, <1>3

-----------------------------------------------------------------------------
(* Elements *)

(* What is in the middle of a concatenation *)
LEMMA MiddleOfConcat ==
    ASSUME NEW A, NEW x \in Seq(A), NEW y \in Seq(A), NEW z \in Seq(A)
    PROVE  SubSeq((x \o y) \o z, Len(x) + 1, Len(x) + Len(y)) = y
<1> DEFINE u == x \o y
           s == u \o z
           m == SubSeq(s, Len(x) + 1, Len(x) + Len(y))
<1>1. Len(x) \in Nat /\ Len(y) \in Nat /\ Len(z) \in Nat
    BY LenProperties
<1>2. u \in Seq(A) /\ Len(u) = Len(x) + Len(y) /\ \A i \in 1..(Len(x) + Len(y)) : u[i] = IF i <= Len(x) THEN x[i] ELSE y[i - Len(x)]
    BY ConcatProperties
<1> HIDE DEF u
<1>3. s \in Seq(A) /\ \A i \in 1..(Len(u) + Len(z)) : s[i] = IF i <= Len(u) THEN u[i] ELSE z[i - Len(u)]
    BY <1>2, ConcatProperties
<1>4. \A i \in 1..(Len(x) + Len(y)) : s[i] = u[i] /\ s[i] \in A
    <2>1. \A i \in 1..(Len(x) + Len(y)) : i \in 1..(Len(u) + Len(z)) /\ i <= Len(u) /\ i \in 1..Len(u)
        BY <1>1, <1>2
    <2>2. \A i \in 1..Len(u) : u[i] \in A
        BY <1>2, ElementOfSeq
    <2> QED BY <1>3, <2>1, <2>2
<1> HIDE DEF s
<1>5. \A i \in (Len(x) + 1)..(Len(x) + Len(y)) : s[i] \in A
    <2>1. \A i \in (Len(x) + 1)..(Len(x) + Len(y)) : i \in 1..(Len(x) + Len(y))
        BY <1>1
    <2> QED BY <1>4, <2>1
<1>6. /\ m \in Seq(A)
      /\ Len(m) = IF Len(x) + 1 <= Len(x) + Len(y) THEN Len(x) + Len(y) - (Len(x) + 1) + 1 ELSE 0
      /\ \A k \in 1..(Len(x) + Len(y) - (Len(x) + 1) + 1) : m[k] = s[Len(x) + 1 + k - 1]
    <2> DEFINE p == Len(x) + 1
               q == Len(x) + Len(y)
    <2>1. p \in Int /\ q \in Int /\ \A i \in p..q : s[i] \in A
        BY <1>1, <1>5
    <2> HIDE DEF p, q
    <2>2. /\ SubSeq(s, p, q) \in Seq(A)
          /\ Len(SubSeq(s, p, q)) = IF p <= q THEN q - p + 1 ELSE 0
          /\ \A k \in 1..(q - p + 1) : SubSeq(s, p, q)[k] = s[p + k - 1]
        BY <2>1, SubSeqProperties
    <2> QED BY <2>2 DEF p, q
<1>7. Len(m) = Len(y)
    BY <1>1, <1>6
<1>8. ASSUME NEW k \in 1..Len(y) PROVE m[k] = y[k]
    <2>1. /\ k \in 1..(Len(x) + Len(y) - (Len(x) + 1) + 1)
          /\ Len(x) + 1 + k - 1 = Len(x) + k /\ Len(x) + k \in 1..(Len(x) + Len(y))
          /\ ~(Len(x) + k <= Len(x)) /\ (Len(x) + k) - Len(x) = k
        BY <1>1
    <2>2. m[k] = s[Len(x) + k]
        BY <1>6, <2>1
    <2>3. s[Len(x) + k] = u[Len(x) + k]
        BY <1>4, <2>1
    <2>4. u[Len(x) + k] = y[k]
        BY <1>2, <2>1
    <2> QED BY <2>2, <2>3, <2>4
<1> HIDE DEF m
<1>9. m = y
    BY <1>6, <1>7, <1>8, SeqEqual
<1> QED BY <1>9 DEF m, s, u

(* An element as it is written: identifier, l and b for the length, value, *)
(* and what follows                                                        *)
ElementWritten(d, tag, l, b, value, rest) ==
    /\ d \in OctetString /\ Len(d) = 2 + Len(b) + Len(value) + Len(rest)
    /\ d[1] = tag /\ d[2] = l
    /\ SubSeq(d, 3, 2 + Len(b)) = b
    /\ SubSeq(d, 2 + Len(b) + 1, 2 + Len(b) + Len(value)) = value
    /\ Drop(d, 2 + Len(b) + Len(value)) = rest

(* s and t joined: the elements of s, then t *)
Joins(s, t) ==
    /\ s \o t \in Seq(Octet) /\ Len(s \o t) = Len(s) + Len(t)
    /\ \A i \in 1..Len(s) : (s \o t)[i] = s[i]
    /\ Drop(s \o t, Len(s)) = t

LEMMA JoinFacts ==
    ASSUME NEW s \in Seq(Octet), NEW t \in Seq(Octet)
    PROVE  Joins(s, t)
<1>1. /\ s \o t \in Seq(Octet) /\ Len(s \o t) = Len(s) + Len(t)
      /\ \A i \in 1..(Len(s) + Len(t)) : (s \o t)[i] = IF i <= Len(s) THEN s[i] ELSE t[i - Len(s)]
    BY ConcatProperties
<1>2. \A i \in 1..Len(s) : i \in 1..(Len(s) + Len(t)) /\ i <= Len(s)
    BY LenProperties
<1>3. Drop(s \o t, Len(s)) = t
    BY DropOfConcat
<1> QED BY <1>1, <1>2, <1>3 DEF Joins

(* An element can be taken apart where it was put together. *)
LEMMA ElementFacts ==
    ASSUME NEW tag \in Octet, NEW l \in Octet, NEW b \in OctetString, NEW value \in OctetString, NEW rest \in OctetString
    PROVE  ElementWritten(((<<tag>> \o (<<l>> \o b)) \o value) \o rest, tag, l, b, value, rest)
<1> DEFINE t1 == <<tag>>
           t2 == <<l>>
           h == t1 \o t2
           p == h \o b
           q == p \o value
           d == q \o rest
<1>1. t1 \in Seq(Octet) /\ t2 \in Seq(Octet) /\ Len(t1) = 1 /\ Len(t2) = 1 /\ t1[1] = tag /\ t2[1] = l
    OBVIOUS
<1>2. /\ b \in Seq(Octet) /\ value \in Seq(Octet) /\ rest \in Seq(Octet)
      /\ Len(b) \in Nat /\ Len(value) \in Nat /\ Len(rest) \in Nat
    BY LenProperties DEF OctetString
<1> HIDE DEF t1, t2
<1>3. h \in Seq(Octet) /\ Len(h) = 2 /\ h[1] = tag /\ h[2] = l
    <2>1. /\ h \in Seq(Octet) /\ Len(h) = Len(t1) + Len(t2)
          /\ \A i \in 1..(Len(t1) + Len(t2)) : h[i] = IF i <= Len(t1) THEN t1[i] ELSE t2[i - Len(t1)]
        BY <1>1, ConcatProperties
    <2>2. 1 \in 1..(Len(t1) + Len(t2)) /\ 2 \in 1..(Len(t1) + Len(t2)) /\ 1 <= Len(t1) /\ ~(2 <= Len(t1)) /\ 2 - Len(t1) = 1
        BY <1>1
    <2> HIDE DEF h
    <2> QED BY <1>1, <2>1, <2>2
<1>4. t1 \o (t2 \o b) = p
    <2>1. Regroups(t1, t2, b)
        BY <1>1, <1>2, Regroup
    <2> QED BY <2>1 DEF Regroups
<1> HIDE DEF h
<1>5. Joins(h, b)
    BY <1>2, <1>3, JoinFacts
<1>6. p \in Seq(Octet) /\ Len(p) = 2 + Len(b) /\ \A i \in 1..2 : p[i] = h[i]
    BY <1>3, <1>5 DEF Joins
<1>7. value \o rest \in Seq(Octet) /\ Regroups(p, value, rest)
    BY <1>2, <1>6, ConcatProperties, Regroup
<1>8. SubSeq(d, 3, 2 + Len(b)) = b
    <2> DEFINE w == value \o rest
    <2>1. w \in Seq(Octet)
        BY <1>7
    <2>2. d = p \o w
        BY <1>7 DEF Regroups
    <2> HIDE DEF w
    <2>3. SubSeq((h \o b) \o w, Len(h) + 1, Len(h) + Len(b)) = b
        BY <1>2, <1>3, <2>1, MiddleOfConcat
    <2>4. Len(h) + 1 = 3 /\ Len(h) + Len(b) = 2 + Len(b)
        BY <1>3
    <2> QED BY <2>2, <2>3, <2>4
<1> HIDE DEF p
<1>9. Joins(p, value)
    BY <1>2, <1>6, JoinFacts
<1>10. q \in Seq(Octet) /\ Len(q) = 2 + Len(b) + Len(value) /\ \A i \in 1..Len(p) : q[i] = p[i]
    BY <1>6, <1>9 DEF Joins
<1>11. SubSeq(d, 2 + Len(b) + 1, 2 + Len(b) + Len(value)) = value
    <2>1. SubSeq((p \o value) \o rest, Len(p) + 1, Len(p) + Len(value)) = value
        BY <1>2, <1>6, MiddleOfConcat
    <2> QED BY <1>6, <2>1
<1> HIDE DEF q
<1>12. Joins(q, rest)
    BY <1>2, <1>10, JoinFacts
<1>13. /\ d \in Seq(Octet) /\ Len(d) = 2 + Len(b) + Len(value) + Len(rest)
       /\ Drop(d, 2 + Len(b) + Len(value)) = rest
       /\ \A i \in 1..Len(q) : d[i] = q[i]
    BY <1>10, <1>12 DEF Joins
<1> HIDE DEF d
<1>14. d[1] = tag /\ d[2] = l
    <2>1. \A i \in {1, 2} : i \in 1..2 /\ i \in 1..Len(p) /\ i \in 1..Len(q)
        BY <1>2, <1>6, <1>10
    <2> QED BY <1>3, <1>6, <1>10, <1>13, <2>1
<1>15. ElementWritten(d, tag, l, b, value, rest)
    BY <1>8, <1>11, <1>13, <1>14 DEF ElementWritten, OctetString
<1> QED BY <1>4, <1>15 DEF d, q, t1, t2

(* The element that was written *)
AsWritten(tag, value, rest) ==
    [ok |-> TRUE, cls |-> 64 * (tag \div 64), con |-> (tag \div 32) % 2 = 1, num |-> tag % 32, value |-> value, rest |-> rest]

(* How l and b tell that n is the length *)
LengthTold(n, l, b) ==
    \/ l = n /\ l < 128 /\ Len(b) = 0
    \/ Len(b) \in {1, 2, 3} /\ l = 128 + Len(b) /\ FromBytes[b] = n

(* Where the length is understood, the element is the one written. *)
LEMMA ElementAfterLength ==
    ASSUME NEW d, NEW tag \in Octet, NEW l \in Octet, NEW b \in OctetString, NEW value \in OctetString, NEW rest \in OctetString,
           ElementWritten(d, tag, l, b, value, rest), LengthTold(Len(value), l, b)
    PROVE  Element(d, 1, Len(b)) = AsWritten(tag, value, rest)
<1> DEFINE k == Len(b)
           n == Len(value)
           from == 1 + 1 + k
           m == IF k = 0 THEN d[1 + 1] ELSE FromBytes[SubSeq(d, 1 + 2, from)]
<1>1. k \in Nat /\ k <= 3 /\ n \in Nat /\ Len(rest) \in Nat
    <2>1. k \in Nat /\ n \in Nat /\ Len(rest) \in Nat
        BY OctetFacts
    <2>2. k = 0 \/ k \in {1, 2, 3}
        BY DEF LengthTold
    <2> HIDE DEF k, n
    <2>3. k <= 3
        BY <2>2
    <2> QED BY <2>1, <2>3
<1>2. /\ Len(d) = 2 + k + n + Len(rest) /\ d[1] = tag /\ d[2] = l
      /\ SubSeq(d, 3, 2 + k) = b
      /\ SubSeq(d, 2 + k + 1, 2 + k + n) = value
      /\ Drop(d, 2 + k + n) = rest
    BY DEF ElementWritten
<1>3. from = 2 + k /\ 1 + 1 = 2 /\ 1 + 2 = 3
    BY <1>1
<1>4. m = n
    <2>1. CASE k = 0
        BY <1>1, <1>2, <1>3, <2>1 DEF LengthTold
    <2>2. CASE k # 0
        <3>1. FromBytes[b] = n
            BY <2>2 DEF LengthTold
        <3>2. m = FromBytes[SubSeq(d, 3, 2 + k)]
            BY <1>3, <2>2
        <3> QED BY <1>2, <3>1, <3>2
    <2> QED BY <2>1, <2>2
<1>5. Element(d, 1, k) =
         IF k > 4 \/ from > Len(d) \/ Ends(d, from, m) = -1 THEN NoTlv
         ELSE [ok |-> TRUE, cls |-> 64 * (d[1] \div 64), con |-> (d[1] \div 32) % 2 = 1,
               num |-> IF 1 = 1 THEN d[1] % 32 ELSE FromSeptets[SubSeq(d, 2, 1)],
               value |-> SubSeq(d, from + 1, Ends(d, from, m)), rest |-> Drop(d, Ends(d, from, m))]
    BY DEF Element
<1> HIDE DEF m, from
<1>6. Ends(d, from, m) = 2 + k + n
    BY <1>1, <1>2, <1>3, <1>4 DEF Ends
<1>7. ~(k > 4) /\ ~(from > Len(d)) /\ ~(2 + k + n = -1)
    BY <1>1, <1>2, <1>3
<1>8. Element(d, 1, k) =
         [ok |-> TRUE, cls |-> 64 * (d[1] \div 64), con |-> (d[1] \div 32) % 2 = 1, num |-> d[1] % 32,
          value |-> SubSeq(d, from + 1, 2 + k + n), rest |-> Drop(d, 2 + k + n)]
    <2> HIDE DEF k, n
    <2> QED BY <1>5, <1>6, <1>7
<1> QED BY <1>2, <1>3, <1>8 DEF AsWritten

(* decode_one of anything *)
LEMMA DecodeOneIs ==
    ASSUME NEW d \in OctetString
    PROVE  DecodeOne[d] = IF d = <<>> THEN NoTlv ELSE DecodeAfter(d, TagEnd(d))
BY DEF DecodeOne

(* A short identifier and a length of l and b are taken for what they are. *)
LEMMA HeaderDecides ==
    ASSUME NEW d \in OctetString, Len(d) >= 2, d[1] % 32 # 31, NEW b, Len(b) \in {0, 1, 2, 3},
           NEW l \in Octet, d[2] = l, (l < 128 /\ Len(b) = 0) \/ (Len(b) # 0 /\ l = 128 + Len(b))
    PROVE  DecodeOne[d] = Element(d, 1, Len(b))
<1>1. d # <<>>
    BY LenProperties DEF OctetString
<1>2. TagEnd(d) = 1
    BY DEF TagEnd
<1>3. DecodeOne[d] = DecodeAfter(d, 1)
    BY <1>1, <1>2, DecodeOneIs
<1>4. DecodeAfter(d, 1) = IF Len(d) <= 1 \/ d[1 + 1] = 128 THEN NoTlv ELSE Element(d, 1, IF d[1 + 1] > 128 THEN d[1 + 1] - 128 ELSE 0)
    BY DEF DecodeAfter
<1>5. l \in Nat /\ Len(d) \in Nat /\ 1 + 1 = 2
    BY OctetFacts DEF Octet
<1>6. ~(Len(d) <= 1) /\ l # 128 /\ (IF l > 128 THEN l - 128 ELSE 0) = Len(b)
    BY <1>5
<1>7. DecodeAfter(d, 1) = Element(d, 1, IF l > 128 THEN l - 128 ELSE 0)
    BY <1>4, <1>5, <1>6
<1> QED BY <1>3, <1>6, <1>7

(* What Tlv writes, in its parts *)
InParts(tag, value, rest, l, b) ==
    /\ l \in Octet /\ b \in OctetString /\ Len(b) \in {0, 1, 2, 3}
    /\ ((l < 128 /\ Len(b) = 0) \/ (Len(b) # 0 /\ l = 128 + Len(b)))
    /\ LengthTold(Len(value), l, b)
    /\ ElementWritten(Tlv(tag, value) \o rest, tag, l, b, value, rest)

LEMMA TlvInParts ==
    ASSUME NEW tag \in Octet, NEW value \in OctetString, WritableLength(Len(value)), NEW rest \in OctetString
    PROVE  \E l, b : InParts(tag, value, rest, l, b)
<1>1. PICK l, b : LengthForm(Len(value), l, b)
    BY LengthFacts
<1>2. l \in Octet /\ b \in OctetString /\ EncodeLength(Len(value)) = <<l>> \o b
    BY <1>1 DEF LengthForm
<1>3. LengthTold(Len(value), l, b)
    BY <1>1 DEF LengthForm, LengthTold
<1>4. Tlv(tag, value) \o rest = ((<<tag>> \o (<<l>> \o b)) \o value) \o rest
    BY <1>2 DEF Tlv
<1>5. ElementWritten(Tlv(tag, value) \o rest, tag, l, b, value, rest)
    BY <1>2, <1>4, ElementFacts
<1>6. Len(b) \in {0, 1, 2, 3} /\ ((l < 128 /\ Len(b) = 0) \/ (Len(b) # 0 /\ l = 128 + Len(b)))
    <2> DEFINE k == Len(b)
    <2>1. (l < 128 /\ k = 0) \/ (k \in {1, 2, 3} /\ l = 128 + k)
        BY <1>3 DEF LengthTold
    <2> HIDE DEF k
    <2>2. k \in {0, 1, 2, 3} /\ ((l < 128 /\ k = 0) \/ (k # 0 /\ l = 128 + k))
        BY <2>1
    <2> QED BY <2>2 DEF k
<1> QED BY <1>2, <1>3, <1>5, <1>6 DEF InParts

(* decode_one gives back what tlv wrote and leaves what follows it, for any*)
(* value, in the short and in the long forms of a length (encode_length).  *)
THEOREM ElementsAreDecoded ==
    ASSUME NEW tag \in Octet, tag % 32 # 31, NEW value \in OctetString, WritableLength(Len(value)), NEW rest \in OctetString
    PROVE  DecodeOne[Tlv(tag, value) \o rest] = AsWritten(tag, value, rest)
<1> DEFINE d == Tlv(tag, value) \o rest
<1>1. PICK l, b : InParts(tag, value, rest, l, b)
    BY TlvInParts
<1>2. /\ l \in Octet /\ b \in OctetString /\ Len(b) \in {0, 1, 2, 3}
      /\ ((l < 128 /\ Len(b) = 0) \/ (Len(b) # 0 /\ l = 128 + Len(b)))
      /\ LengthTold(Len(value), l, b) /\ ElementWritten(d, tag, l, b, value, rest)
    BY <1>1 DEF InParts
<1> HIDE DEF d
<1>3. d \in OctetString /\ d[1] = tag /\ d[2] = l /\ Len(d) >= 2
    <2>1. Len(b) \in Nat /\ Len(value) \in Nat /\ Len(rest) \in Nat
        BY <1>2, OctetFacts
    <2> QED BY <1>2, <2>1 DEF ElementWritten
<1>4. DecodeOne[d] = Element(d, 1, Len(b))
    BY <1>2, <1>3, HeaderDecides
<1>5. Element(d, 1, Len(b)) = AsWritten(tag, value, rest)
    BY <1>2, ElementAfterLength
<1> QED BY <1>4, <1>5 DEF d

(* p is the first n octets of d. *)
IsCut(p, d, n) ==
    /\ p \in OctetString /\ Len(p) = n
    /\ \A i \in 1..n : p[i] = d[i]
    /\ \A k \in Nat : 2 + k <= n => SubSeq(p, 3, 2 + k) = SubSeq(d, 3, 2 + k)

LEMMA CutFacts ==
    ASSUME NEW d \in OctetString, NEW n \in Nat, n <= Len(d)
    PROVE  IsCut(SubSeq(d, 1, n), d, n)
<1> DEFINE p == SubSeq(d, 1, n)
<1>1. Len(d) \in Nat /\ \A i \in 1..Len(d) : d[i] \in Octet
    BY OctetFacts
<1>2. 1 \in Int /\ n \in Int /\ \A i \in 1..n : d[i] \in Octet
    BY <1>1
<1>3. /\ p \in Seq(Octet) /\ Len(p) = IF 1 <= n THEN n - 1 + 1 ELSE 0
      /\ \A i \in 1..(n - 1 + 1) : p[i] = d[1 + i - 1]
    BY <1>2, SubSeqProperties
<1> HIDE DEF p
<1>4. Len(p) = n /\ \A i \in 1..n : p[i] = d[i]
    <2>1. \A i \in 1..n : i \in 1..(n - 1 + 1) /\ 1 + i - 1 = i
        OBVIOUS
    <2>2. (IF 1 <= n THEN n - 1 + 1 ELSE 0) = n
        OBVIOUS
    <2> QED BY <1>3, <2>1, <2>2
<1>5. ASSUME NEW k \in Nat, 2 + k <= n PROVE SubSeq(p, 3, 2 + k) = SubSeq(d, 3, 2 + k)
    <2> DEFINE j == 2 + k
               s == SubSeq(p, 3, j)
               t == SubSeq(d, 3, j)
    <2>1. 3 \in Int /\ j \in Int /\ \A i \in 3..j : i \in 1..n
        BY <1>5
    <2> HIDE DEF j
    <2>2. \A i \in 3..j : p[i] = d[i] /\ d[i] \in Octet /\ p[i] \in Octet
        BY <1>2, <1>4, <2>1
    <2>3. s \in Seq(Octet) /\ Len(s) = (IF 3 <= j THEN j - 3 + 1 ELSE 0) /\ \A i \in 1..(j - 3 + 1) : s[i] = p[3 + i - 1]
        BY <2>1, <2>2, SubSeqProperties
    <2>4. t \in Seq(Octet) /\ Len(t) = (IF 3 <= j THEN j - 3 + 1 ELSE 0) /\ \A i \in 1..(j - 3 + 1) : t[i] = d[3 + i - 1]
        BY <2>1, <2>2, SubSeqProperties
    <2> HIDE DEF s, t
    <2>5. ASSUME NEW i \in 1..Len(s) PROVE s[i] = t[i]
        <3>1. i \in 1..(j - 3 + 1) /\ 3 + i - 1 \in 3..j
            BY <2>1, <2>3
        <3> QED BY <2>2, <2>3, <2>4, <3>1
    <2>6. s = t
        BY <2>3, <2>4, <2>5, SeqEqual
    <2> QED BY <2>6 DEF s, t, j
<1>6. IsCut(p, d, n)
    BY <1>3, <1>4, <1>5 DEF IsCut, OctetString
<1> QED BY <1>6 DEF p

(* Where nothing is left, or nothing but an identifier, there is no        *)
(* element.                                                                *)
LEMMA NothingIsRefused == DecodeOne[<<>>] = NoTlv
<1> DEFINE d == <<>>
<1>1. d \in OctetString /\ d = <<>>
    BY DEF OctetString
<1> HIDE DEF d
<1>2. DecodeOne[d] = NoTlv
    BY <1>1, DecodeOneIs
<1> QED BY <1>2 DEF d

LEMMA TagAloneIsRefused ==
    ASSUME NEW p \in OctetString, Len(p) = 1, p[1] % 32 # 31
    PROVE  DecodeOne[p] = NoTlv
<1>1. p # <<>>
    <2>1. Len(<<>>) = 0 /\ 0 # 1
        OBVIOUS
    <2> QED BY <2>1
<1>2. TagEnd(p) = 1
    BY DEF TagEnd
<1>3. DecodeAfter(p, 1) = NoTlv
    BY DEF DecodeAfter
<1> QED BY <1>1, <1>2, <1>3, DecodeOneIs

(* A value that is not all there is noticed. *)
LEMMA CutElement ==
    ASSUME NEW d, NEW tag \in Octet, NEW l \in Octet, NEW b \in OctetString, NEW value \in OctetString,
           ElementWritten(d, tag, l, b, value, <<>>), LengthTold(Len(value), l, b),
           NEW n \in Nat, n < Len(d), n >= 2, NEW p, IsCut(p, d, n)
    PROVE  Element(p, 1, Len(b)) = NoTlv
<1> DEFINE k == Len(b)
           v == Len(value)
           from == 1 + 1 + k
           m == IF k = 0 THEN p[1 + 1] ELSE FromBytes[SubSeq(p, 1 + 2, from)]
<1>1. k \in Nat /\ v \in Nat /\ Len(<<>>) = 0
    BY OctetFacts
<1>2. Len(d) = 2 + k + v /\ d[2] = l /\ SubSeq(d, 3, 2 + k) = b
    BY <1>1 DEF ElementWritten
<1>3. from = 2 + k /\ 1 + 1 = 2 /\ 1 + 2 = 3
    BY <1>1
<1>4. Len(p) = n /\ p[2] = l /\ (2 + k <= n => SubSeq(p, 3, 2 + k) = b)
    <2>1. 2 \in 1..n
        OBVIOUS
    <2> QED BY <1>1, <1>2, <2>1 DEF IsCut
<1>5. ASSUME from <= Len(p) PROVE Ends(p, from, m) = -1
    <2>1. m = v
        <3>1. CASE k = 0
            BY <1>3, <1>4, <3>1 DEF LengthTold
        <3>2. CASE k # 0
            <4>1. FromBytes[b] = v
                BY <3>2 DEF LengthTold
            <4>2. m = FromBytes[SubSeq(p, 3, 2 + k)]
                BY <1>3, <3>2
            <4> QED BY <1>3, <1>4, <1>5, <4>1, <4>2
        <3> QED BY <3>1, <3>2
    <2>2. from + v > Len(p)
        BY <1>1, <1>2, <1>3, <1>4
    <2> HIDE DEF m, from
    <2> QED BY <2>1, <2>2 DEF Ends
<1>6. Element(p, 1, k) =
         IF k > 4 \/ from > Len(p) \/ Ends(p, from, m) = -1 THEN NoTlv
         ELSE [ok |-> TRUE, cls |-> 64 * (p[1] \div 64), con |-> (p[1] \div 32) % 2 = 1,
               num |-> IF 1 = 1 THEN p[1] % 32 ELSE FromSeptets[SubSeq(p, 2, 1)],
               value |-> SubSeq(p, from + 1, Ends(p, from, m)), rest |-> Drop(p, Ends(p, from, m))]
    BY DEF Element
<1>7. k > 4 \/ from > Len(p) \/ Ends(p, from, m) = -1
    <2>1. from \in Nat /\ Len(p) \in Nat
        BY <1>1, <1>3, <1>4
    <2> HIDE DEF from, m, k
    <2> QED BY <1>5, <2>1
<1> HIDE DEF k, from, m
<1>8. Element(p, 1, k) = NoTlv
    BY <1>6, <1>7
<1> QED BY <1>8 DEF k

(* An element cut short anywhere, in its identifier, in its length or in   *)
(* its value, is refused (decode_one raises BerError): no proper beginning *)
(* of what tlv writes is an element.                                       *)
THEOREM CutElementsAreRefused ==
    ASSUME NEW tag \in Octet, tag % 32 # 31, NEW value \in OctetString, WritableLength(Len(value)),
           NEW n \in Nat, n < Len(Tlv(tag, value))
    PROVE  DecodeOne[SubSeq(Tlv(tag, value), 1, n)] = NoTlv
<1> DEFINE d == Tlv(tag, value)
           p == SubSeq(d, 1, n)
<1>1. <<>> \in OctetString
    BY DEF OctetString
<1>2. PICK l, b : InParts(tag, value, <<>>, l, b)
    BY <1>1, TlvInParts
<1>3. /\ l \in Octet /\ b \in OctetString /\ Len(b) \in {0, 1, 2, 3}
      /\ ((l < 128 /\ Len(b) = 0) \/ (Len(b) # 0 /\ l = 128 + Len(b)))
      /\ LengthTold(Len(value), l, b) /\ ElementWritten(d \o <<>>, tag, l, b, value, <<>>)
    BY <1>2 DEF InParts
<1>4. d \o <<>> = d
    <2>1. PICK l1, b1 : LengthForm(Len(value), l1, b1)
        BY LengthFacts
    <2>2. <<tag>> \in Seq(Octet) /\ EncodeLength(Len(value)) \in Seq(Octet) /\ value \in Seq(Octet)
        <3>1. l1 \in Octet /\ b1 \in Seq(Octet) /\ EncodeLength(Len(value)) = <<l1>> \o b1
            BY <2>1 DEF LengthForm, OctetString
        <3>2. <<l1>> \in Seq(Octet)
            BY <3>1
        <3>3. <<l1>> \o b1 \in Seq(Octet)
            BY <3>1, <3>2, ConcatProperties
        <3> QED BY <3>1, <3>3 DEF OctetString
    <2>3. d \in Seq(Octet)
        <3> DEFINE x == <<tag>>
                   y == EncodeLength(Len(value))
        <3>1. x \in Seq(Octet) /\ y \in Seq(Octet) /\ d = (x \o y) \o value
            BY <2>2 DEF Tlv
        <3> HIDE DEF x, y, d
        <3>2. x \o y \in Seq(Octet)
            BY <3>1, ConcatProperties
        <3> DEFINE z == x \o y
        <3>3. z \in Seq(Octet) /\ d = z \o value
            BY <3>1, <3>2
        <3> HIDE DEF z
        <3> QED BY <2>2, <3>3, ConcatProperties
    <2> HIDE DEF d
    <2> QED BY <2>3, ConcatSimplifications
<1> HIDE DEF d
<1>5. d \in OctetString /\ ElementWritten(d, tag, l, b, value, <<>>) /\ d[1] = tag /\ d[2] = l
    BY <1>3, <1>4 DEF ElementWritten
<1>6. Len(d) \in Nat /\ n < Len(d) /\ n <= Len(d)
    BY <1>5, OctetFacts DEF d
<1>7. IsCut(p, d, n)
    BY <1>5, <1>6, CutFacts
<1> HIDE DEF p
<1>8. p \in OctetString /\ Len(p) = n /\ \A i \in 1..n : p[i] = d[i]
    BY <1>7 DEF IsCut
<1>9. CASE n = 0
    <2>1. p = <<>>
        BY <1>8, <1>9 DEF OctetString
    <2> QED BY <2>1, NothingIsRefused DEF p, d
<1>10. CASE n = 1
    <2>1. p[1] = tag
        BY <1>5, <1>8, <1>10
    <2>2. DecodeOne[p] = NoTlv
        BY <1>8, <1>10, <2>1, TagAloneIsRefused
    <2> QED BY <2>2 DEF p, d
<1>11. CASE n >= 2
    <2>1. 1 \in 1..n /\ 2 \in 1..n /\ Len(p) >= 2
        BY <1>8, <1>11
    <2>2. p[1] = tag /\ p[2] = l
        BY <1>5, <1>8, <2>1
    <2>3. DecodeOne[p] = Element(p, 1, Len(b))
        BY <1>3, <1>8, <2>1, <2>2, HeaderDecides
    <2>4. Element(p, 1, Len(b)) = NoTlv
        BY <1>3, <1>5, <1>6, <1>7, <1>11, CutElement
    <2> QED BY <2>3, <2>4 DEF p, d
<1> QED BY <1>9, <1>10, <1>11

-----------------------------------------------------------------------------
(* Elements one after the other *)

(* A part of an octet string is one. *)
LEMMA PartFacts ==
    ASSUME NEW d \in OctetString, NEW i \in Nat, i >= 1, NEW j \in Nat, j <= Len(d)
    PROVE  SubSeq(d, i, j) \in OctetString
<1>1. Len(d) \in Nat /\ \A k \in 1..Len(d) : d[k] \in Octet
    BY OctetFacts
<1>2. i \in Int /\ j \in Int /\ \A k \in i..j : d[k] \in Octet
    BY <1>1
<1> QED BY <1>2, SubSeqProperties DEF OctetString

(* A set of naturals has a least element. *)
LEMMA SmallestOf ==
    ASSUME NEW S, S \subseteq Nat, S # {}
    PROVE  \E i \in S : \A j \in S : i <= j
<1> DEFINE T == {n \in Nat : n \notin S}
           size == [n \in Nat |-> n]
<1>1. SUFFICES ASSUME ~(\E i \in S : \A j \in S : i <= j) PROVE FALSE
    OBVIOUS
<1>2. ASSUME NEW n \in Nat, \A m \in Nat : size[m] < size[n] => m \in T PROVE n \in T
    <2>1. \A m \in S : ~(m < n)
        BY <1>2
    <2> QED BY <1>1, <2>1
<1>3. size \in [Nat -> Nat]
    OBVIOUS
<1>4. \A n \in Nat : n \in T
    <2> HIDE DEF T, size
    <2> QED BY <1>2, <1>3, SizeInduction
<1> QED BY <1>4

(* An identifier takes at least one octet. *)
LEMMA TagEndFacts ==
    ASSUME NEW d \in OctetString, d # <<>>
    PROVE  TagEnd(d) \in Nat /\ TagEnd(d) >= 1
<1>1. Len(d) \in Nat /\ Len(d) >= 1
    <2>1. Len(d) \in Nat /\ Len(d) # 0
        BY LenProperties DEF OctetString
    <2> QED BY <2>1
<1> DEFINE S == {i \in 2..Len(d) : d[i] < 128}
           c == CHOOSE i \in S : \A j \in S : i <= j
<1>2. SeptetsEnd(d, 2) = IF S = {} THEN Len(d) ELSE c
    BY DEF SeptetsEnd
<1>3. ASSUME S # {} PROVE c \in S
    <2> DEFINE P(i) == \A j \in S : i <= j
    <2>1. S \subseteq Nat
        BY <1>1
    <2> HIDE DEF S
    <2>2. \E i \in S : P(i)
        BY <1>3, <2>1, SmallestOf
    <2> QED BY <2>2
<1>4. \A i \in S : i \in Nat /\ i >= 1
    BY <1>1
<1> HIDE DEF S, c
<1>5. SeptetsEnd(d, 2) \in Nat /\ SeptetsEnd(d, 2) >= 1
    BY <1>1, <1>2, <1>3, <1>4
<1> QED BY <1>5 DEF TagEnd

(* What follows an element is shorter than what it was decoded from, so    *)
(* that decode_all ends, whatever it is given.                             *)
Shrinks(d, e) == e.ok => e.rest \in OctetString /\ Len(e.rest) < Len(d)

LEMMA ElementShrinks ==
    ASSUME NEW d \in OctetString, NEW t \in Nat, t >= 1, t < Len(d), NEW k \in Nat, k = 0 \/ d[t + 1] > 128
    PROVE  Shrinks(d, Element(d, t, k))
<1> DEFINE from == t + 1 + k
           n == IF k = 0 THEN d[t + 1] ELSE FromBytes[SubSeq(d, t + 2, from)]
           e == Ends(d, from, n)
           yes == [ok |-> TRUE, cls |-> 64 * (d[1] \div 64), con |-> (d[1] \div 32) % 2 = 1,
                   num |-> IF t = 1 THEN d[1] % 32 ELSE FromSeptets[SubSeq(d, 2, t)],
                   value |-> SubSeq(d, from + 1, e), rest |-> Drop(d, e)]
<1>1. Element(d, t, k) = IF k > 4 \/ from > Len(d) \/ e = -1 THEN NoTlv ELSE yes
    BY DEF Element
<1>2. Len(d) \in Nat /\ from \in Nat /\ from >= 2
    BY OctetFacts
<1>3. NoTlv.ok = FALSE
    BY DEF NoTlv
<1>4. CASE k > 4 \/ from > Len(d) \/ e = -1
    <2> HIDE DEF yes, e, from
    <2> QED BY <1>1, <1>3, <1>4 DEF Shrinks
<1>5. CASE ~(k > 4 \/ from > Len(d) \/ e = -1)
    <2>1. n \in Nat
        <3>1. CASE k = 0
            <4>1. t + 1 \in 1..Len(d)
                BY <1>2
            <4>2. d[t + 1] \in Nat
                BY <4>1, OctetFacts
            <4> QED BY <3>1, <4>2
        <3>2. CASE k # 0
            <4>1. t + 2 \in Nat /\ t + 2 >= 1 /\ from <= Len(d)
                BY <1>2, <1>5
            <4>2. SubSeq(d, t + 2, from) \in OctetString
                BY <1>2, <4>1, PartFacts
            <4>3. FromBytes[SubSeq(d, t + 2, from)] \in Nat
                BY <4>2, FromBytesEquation
            <4> QED BY <3>2, <4>3
        <3> QED BY <3>1, <3>2
    <2> HIDE DEF n
    <2>2. e = from + n /\ from + n <= Len(d)
        BY <1>2, <1>5, <2>1 DEF Ends
    <2>3. e \in Nat /\ e <= Len(d) /\ e >= 2
        BY <1>2, <2>1, <2>2
    <2> HIDE DEF e, from
    <2>4. Drop(d, e) \in OctetString /\ Len(Drop(d, e)) = Len(d) - e
        BY <2>3, DropFacts
    <2>5. Element(d, t, k) = yes /\ yes.rest = Drop(d, e)
        BY <1>1, <1>5
    <2>6. Len(Drop(d, e)) < Len(d)
        BY <1>2, <2>3, <2>4
    <2> HIDE DEF yes
    <2> QED BY <2>4, <2>5, <2>6 DEF Shrinks
<1> QED BY <1>4, <1>5

LEMMA RestShrinks ==
    ASSUME NEW d \in OctetString
    PROVE  Shrinks(d, DecodeOne[d])
<1>1. Shrinks(d, NoTlv)
    BY DEF Shrinks, NoTlv
<1>2. CASE d = <<>>
    BY <1>1, <1>2, DecodeOneIs
<1>3. CASE d # <<>>
    <2> DEFINE t == TagEnd(d)
    <2>1. t \in Nat /\ t >= 1 /\ Len(d) \in Nat
        BY <1>3, TagEndFacts, OctetFacts
    <2>2. DecodeOne[d] = DecodeAfter(d, t)
        BY <1>3, DecodeOneIs
    <2> HIDE DEF t
    <2>3. CASE Len(d) <= t \/ d[t + 1] = 128
        BY <1>1, <2>2, <2>3 DEF DecodeAfter
    <2>4. CASE ~(Len(d) <= t \/ d[t + 1] = 128)
        <3> DEFINE k == IF d[t + 1] > 128 THEN d[t + 1] - 128 ELSE 0
        <3>1. t < Len(d) /\ t + 1 \in 1..Len(d)
            BY <2>1, <2>4
        <3>2. d[t + 1] \in Nat
            BY <3>1, OctetFacts
        <3>3. k \in Nat /\ (k = 0 \/ d[t + 1] > 128)
            BY <3>2
        <3>4. DecodeAfter(d, t) = Element(d, t, k)
            BY <2>4 DEF DecodeAfter
        <3> HIDE DEF k
        <3>5. Shrinks(d, Element(d, t, k))
            BY <2>1, <3>1, <3>3, ElementShrinks
        <3> QED BY <2>2, <3>4, <3>5
    <2> QED BY <2>3, <2>4
<1> QED BY <1>2, <1>3

(* The body of the recursion of decode_all, and what it returns *)
AllBody(f, d) ==
    IF d = <<>> THEN <<>> ELSE IF DecodeOne[d].ok THEN <<DecodeOne[d]>> \o f[DecodeOne[d].rest] ELSE <<NoTlv>>
Decoded == {DecodeOne[d] : d \in OctetString} \cup {NoTlv}

LEMMA AllBodyIsSeq ==
    ASSUME NEW f \in [OctetString -> Seq(Decoded)], NEW d \in OctetString
    PROVE  AllBody(f, d) \in Seq(Decoded)
<1> DEFINE e == DecodeOne[d]
<1>1. e \in Decoded /\ NoTlv \in Decoded
    BY DEF Decoded
<1>2. e.ok => e.rest \in OctetString
    BY RestShrinks DEF Shrinks
<1>3. AllBody(f, d) = IF d = <<>> THEN <<>> ELSE IF e.ok THEN <<e>> \o f[e.rest] ELSE <<NoTlv>>
    BY DEF AllBody
<1> HIDE DEF e
<1>4. <<e>> \in Seq(Decoded) /\ <<NoTlv>> \in Seq(Decoded) /\ <<>> \in Seq(Decoded)
    BY <1>1
<1>5. e.ok => <<e>> \o f[e.rest] \in Seq(Decoded)
    BY <1>2, <1>4, ConcatProperties
<1> QED BY <1>3, <1>4, <1>5

(* The recursion as an equation *)
LEMMA DecodeAllEquation ==
    \A d \in OctetString : DecodeAll[d] = AllBody(DecodeAll, d)
<1> DEFINE S == OctetString
           V == Seq(Decoded)
           F == [p \in [S -> V] \X S |-> AllBody(p[1], p[2])]
           size == [s \in S |-> Len(s)]
<1>1. ASSUME NEW f \in [S -> V], NEW s \in S
      PROVE  AllBody(f, s) \in V /\ F[<<f, s>>] = AllBody(f, s)
    <2>1. F[<<f, s>>] = AllBody(f, s)
        OBVIOUS
    <2>2. AllBody(f, s) \in V
        BY AllBodyIsSeq
    <2> HIDE DEF F
    <2> QED BY <2>1, <2>2
<1>2. size \in [S -> Nat] /\ \A s \in S : size[s] = Len(s)
    BY OctetFacts
<1>3. ASSUME NEW f \in [S -> V], NEW g \in [S -> V], NEW s \in S,
             \A q \in S : size[q] < size[s] => f[q] = g[q]
      PROVE  F[<<f, s>>] = F[<<g, s>>]
    <2>1. DecodeOne[s].ok => f[DecodeOne[s].rest] = g[DecodeOne[s].rest]
        <3> DEFINE e == DecodeOne[s]
        <3>1. e.ok => e.rest \in OctetString /\ Len(e.rest) < Len(s)
            BY RestShrinks DEF Shrinks
        <3> HIDE DEF size, V, e
        <3>2. e.ok => f[e.rest] = g[e.rest]
            BY <1>2, <1>3, <3>1
        <3> QED BY <3>2 DEF e
    <2>2. AllBody(f, s) = AllBody(g, s)
        BY <2>1 DEF AllBody
    <2> HIDE DEF F, V
    <2> QED BY <2>2, <1>1
<1>4. Contracts(F, S, V, size)
    <2> HIDE DEF F, size, V, S
    <2> QED BY <1>1, <1>3 DEF Contracts
<1>5. <<>> \in V
    OBVIOUS
<1>6. PICK f \in [S -> V] : Solves(f, F, S)
    <2> HIDE DEF F, S, size, V
    <2> QED BY <1>2, <1>4, <1>5, Recursion
<1>7. f = [s \in OctetString |-> AllBody(f, s)]
    <2>1. f = [x \in S |-> F[<<f, x>>]]
        <3> HIDE DEF F, V, S
        <3> QED BY <1>6 DEF Solves
    <2> HIDE DEF F, V
    <2> QED BY <2>1, <1>1
<1>8. DecodeAll = [s \in OctetString |-> AllBody(DecodeAll, s)]
    <2> HIDE DEF F, V
    <2>1. f = [s \in OctetString |->
                 LET e == DecodeOne[s]
                 IN  IF s = <<>> THEN <<>> ELSE IF e.ok THEN <<e>> \o f[e.rest] ELSE <<NoTlv>>]
        BY <1>7 DEF AllBody
    <2>2. DecodeAll = [s \in OctetString |->
                 LET e == DecodeOne[s]
                 IN  IF s = <<>> THEN <<>> ELSE IF e.ok THEN <<e>> \o DecodeAll[e.rest] ELSE <<NoTlv>>]
        BY <2>1, Zenon DEF DecodeAll
    <2> QED BY <2>2 DEF AllBody
<1> QED BY <1>8

(* decode_all of an element and what follows it is this element and all    *)
(* that follow: concatenating what tlv writes is how constructed values are*)
(* made.                                                                   *)
THEOREM ElementsFollowEachOther ==
    ASSUME NEW tag \in Octet, tag % 32 # 31, NEW value \in OctetString, WritableLength(Len(value)), NEW rest \in OctetString
    PROVE  DecodeAll[Tlv(tag, value) \o rest] = <<AsWritten(tag, value, rest)>> \o DecodeAll[rest]
<1> DEFINE d == Tlv(tag, value) \o rest
           e == AsWritten(tag, value, rest)
<1>1. PICK l, b : InParts(tag, value, rest, l, b)
    BY TlvInParts
<1>2. d \in OctetString /\ Len(d) = 2 + Len(b) + Len(value) + Len(rest) /\ b \in OctetString
    BY <1>1 DEF InParts, ElementWritten
<1>3. d # <<>>
    <2>1. Len(b) \in Nat /\ Len(value) \in Nat /\ Len(rest) \in Nat
        BY <1>2, OctetFacts
    <2> HIDE DEF d
    <2>2. Len(d) # 0 /\ Len(<<>>) = 0
        BY <1>2, <2>1
    <2> QED BY <2>2
<1>4. DecodeOne[d] = e
    BY ElementsAreDecoded
<1>5. e.ok /\ e.rest = rest
    BY DEF AsWritten
<1> HIDE DEF d, e
<1>6. DecodeAll[d] = AllBody(DecodeAll, d)
    BY <1>2, DecodeAllEquation
<1>7. AllBody(DecodeAll, d) = <<e>> \o DecodeAll[rest]
    BY <1>3, <1>4, <1>5 DEF AllBody
<1> QED BY <1>6, <1>7 DEF d, e

(* In the end there are no elements. *)
LEMMA NothingHasNoElements == DecodeAll[<<>>] = <<>>
<1> DEFINE d == <<>>
<1>1. d \in OctetString /\ d = <<>>
    BY DEF OctetString
<1> HIDE DEF d
<1>2. DecodeAll[d] = <<>>
    BY <1>1, DecodeAllEquation DEF AllBody
<1> QED BY <1>2 DEF d

-----------------------------------------------------------------------------
(* Integers *)

(* n is an integer that k octets hold in two's complement. *)
TwosComplement(n, k) ==
    \/ k = 1 /\ -128 <= n /\ n < 128
    \/ k = 2 /\ -32768 <= n /\ n < 32768
    \/ k = 3 /\ -8388608 <= n /\ n < 8388608

(* The number of octets is one that holds n. *)
LEMMA ContentForm ==
    ASSUME NEW n \in Int, TwosComplement(n, 3)
    PROVE  \E k \in {1, 2, 3} : TwosComplement(n, k) /\ IntegerContent(n) = BigEndian(n % 256^k, k)
<1> DEFINE In(k) == -(2^(8*k - 1)) <= n /\ n < 2^(8*k - 1)
           P(k) == In(k) /\ \A j \in 1..(k - 1) : ~In(j)
           c == CHOOSE k \in 1..3 : P(k)
<1>1. 2^(8*1 - 1) = 128 /\ 2^(8*2 - 1) = 32768 /\ 2^(8*3 - 1) = 8388608
    BY SMT
<1>2. /\ In(1) <=> -128 <= n /\ n < 128
      /\ In(2) <=> -32768 <= n /\ n < 32768
      /\ In(3) <=> -8388608 <= n /\ n < 8388608
    BY <1>1, SMT
<1>3. In(3)
    BY <1>2 DEF TwosComplement
<1> HIDE DEF In
<1>4. \E k \in 1..3 : P(k)
    <2>1. CASE In(1)
        <3>1. P(1) /\ 1 \in 1..3
            BY <2>1
        <3> QED BY <3>1
    <2>2. CASE ~In(1) /\ In(2)
        <3>1. \A j \in 1..(2 - 1) : j = 1
            OBVIOUS
        <3>2. P(2) /\ 2 \in 1..3
            BY <2>2, <3>1
        <3> QED BY <3>2
    <2>3. CASE ~In(1) /\ ~In(2)
        <3>1. \A j \in 1..(3 - 1) : j = 1 \/ j = 2
            OBVIOUS
        <3>2. P(3) /\ 3 \in 1..3
            BY <1>3, <2>3, <3>1
        <3> QED BY <3>2
    <2> QED BY <2>1, <2>2, <2>3
<1>5. c \in 1..3 /\ In(c)
    BY <1>4
<1>6. IntegerContent(n) = BigEndian(n % 256^c, c)
    BY DEF IntegerContent, In
<1> HIDE DEF c
<1>7. PICK k \in {1, 2, 3} : k = c
    BY <1>5
<1>8. TwosComplement(n, k)
    <2>1. CASE k = 1
        BY <1>2, <1>5, <1>7, <2>1 DEF TwosComplement
    <2>2. CASE k = 2
        BY <1>2, <1>5, <1>7, <2>2 DEF TwosComplement
    <2>3. CASE k = 3
        BY <1>2, <1>5, <1>7, <2>3 DEF TwosComplement
    <2> QED BY <2>1, <2>2, <2>3
<1> QED BY <1>6, <1>7, <1>8

(* The remainder of an integer by the power of 256, in each length *)
LEMMA OneOctet ==
    ASSUME NEW n \in Int, -128 <= n, n < 128
    PROVE  /\ n % 256 \in Nat /\ n % 256 < 256 /\ (n % 256) % 256 = n % 256
           /\ n % 256 >= 128 => n = (n % 256) - 256
           /\ n % 256 < 128 => n = n % 256
BY SMT

LEMMA TwoOctetsHeld ==
    ASSUME NEW n \in Int, -32768 <= n, n < 32768
    PROVE  /\ n % 65536 \in Nat /\ n % 65536 < 65536
           /\ n % 65536 >= 32768 => n = (n % 65536) - 65536
           /\ n % 65536 < 32768 => n = n % 65536
BY SMT

LEMMA ThreeOctetsHeld ==
    ASSUME NEW n \in Int, -8388608 <= n, n < 8388608
    PROVE  /\ n % 16777216 \in Nat /\ n % 16777216 < 16777216
           /\ n % 16777216 >= 8388608 => n = (n % 16777216) - 16777216
           /\ n % 16777216 < 8388608 => n = n % 16777216
BY SMT

(* The first octet tells the sign. *)
LEMMA LeadOfTwo ==
    ASSUME NEW m \in Nat, m < 65536
    PROVE  (m \div 256) % 256 >= 128 <=> m >= 32768
BY SMT

LEMMA LeadOfThree ==
    ASSUME NEW m \in Nat, m < 16777216
    PROVE  (m \div 65536) % 256 >= 128 <=> m >= 8388608
BY SMT

(* The first octet written *)
FirstIs(m, k) == BigEndian(m, k)[1] = (m \div 256^(k - 1)) % 256

LEMMA FirstOctet ==
    ASSUME NEW m, NEW k \in {1, 2, 3}
    PROVE  FirstIs(m, k)
<1>1. 1 \in 1..k
    OBVIOUS
<1> QED BY <1>1 DEF BigEndian, FirstIs

(* What is signed of m written in k octets *)
SignedIs(m, k) == Signed(BigEndian(m, k)) = IF (m \div 256^(k - 1)) % 256 >= 128 THEN m - 256^k ELSE m

LEMMA SignedOf ==
    ASSUME NEW m, NEW k \in {1, 2, 3}, Fits(m, k)
    PROVE  SignedIs(m, k)
<1> DEFINE s == BigEndian(m, k)
<1>1. Len(s) = k /\ FromBytes[s] = m
    BY BytesAreWritten DEF Written
<1>2. s[1] = (m \div 256^(k - 1)) % 256
    <2>1. FirstIs(m, k)
        BY FirstOctet
    <2> QED BY <2>1 DEF FirstIs
<1> HIDE DEF s
<1>3. Signed(s) = IF s[1] >= 128 THEN FromBytes[s] - 256^Len(s) ELSE FromBytes[s]
    BY DEF Signed
<1>4. Signed(s) = IF (m \div 256^(k - 1)) % 256 >= 128 THEN m - 256^k ELSE m
    BY <1>1, <1>2, <1>3
<1> QED BY <1>4 DEF s, SignedIs

(* decode_integer gives back the integer that encode_integer_content wrote,*)
(* negative ones too, in the shortest form: one, two or three octets.      *)
THEOREM IntegersAreDecoded ==
    ASSUME NEW n \in Int, TwosComplement(n, 3)
    PROVE  Signed(IntegerContent(n)) = n
<1>1. PICK k \in {1, 2, 3} : TwosComplement(n, k) /\ IntegerContent(n) = BigEndian(n % 256^k, k)
    BY ContentForm
<1>2. 256^1 = 256 /\ 256^2 = 65536 /\ 256^3 = 16777216 /\ 256^0 = 1 /\ 1 - 1 = 0 /\ 2 - 1 = 1 /\ 3 - 1 = 2
    BY SMT
<1>3. CASE k = 1
    <2> DEFINE m == n % 256
    <2>1. /\ m \in Nat /\ m < 256 /\ m % 256 = m /\ m \div 1 = m
          /\ m >= 128 => n = m - 256
          /\ m < 128 => n = m
        <3>1. -128 <= n /\ n < 128
            BY <1>1, <1>3 DEF TwosComplement
        <3>2. \A x \in Nat : x \div 1 = x
            BY SMT
        <3> QED BY <3>1, <3>2, OneOctet
    <2> HIDE DEF m
    <2>2. Fits(m, k)
        BY <1>3, <2>1 DEF Fits
    <2>3. Signed(BigEndian(m, k)) = IF (m \div 256^(k - 1)) % 256 >= 128 THEN m - 256^k ELSE m
        <3>1. SignedIs(m, k)
            BY <2>2, SignedOf
        <3> QED BY <3>1 DEF SignedIs
    <2>4. IntegerContent(n) = BigEndian(m, k)
        BY <1>1, <1>2, <1>3 DEF m
    <2>5. Signed(BigEndian(m, k)) = IF m >= 128 THEN m - 256 ELSE m
        BY <1>2, <1>3, <2>1, <2>3
    <2> QED BY <2>1, <2>4, <2>5
<1>4. CASE k = 2
    <2> DEFINE m == n % 65536
    <2>1. /\ m \in Nat /\ m < 65536
          /\ m >= 32768 => n = m - 65536
          /\ m < 32768 => n = m
        <3>1. -32768 <= n /\ n < 32768
            BY <1>1, <1>4 DEF TwosComplement
        <3> QED BY <3>1, TwoOctetsHeld
    <2> HIDE DEF m
    <2>2. Fits(m, k)
        BY <1>4, <2>1 DEF Fits
    <2>3. Signed(BigEndian(m, k)) = IF (m \div 256^(k - 1)) % 256 >= 128 THEN m - 256^k ELSE m
        <3>1. SignedIs(m, k)
            BY <2>2, SignedOf
        <3> QED BY <3>1 DEF SignedIs
    <2>4. IntegerContent(n) = BigEndian(m, k)
        BY <1>1, <1>2, <1>4 DEF m
    <2>5. Signed(BigEndian(m, k)) = IF (m \div 256) % 256 >= 128 THEN m - 65536 ELSE m
        BY <1>2, <1>4, <2>3
    <2>6. (m \div 256) % 256 >= 128 <=> m >= 32768
        BY <2>1, LeadOfTwo
    <2> QED BY <2>1, <2>4, <2>5, <2>6
<1>5. CASE k = 3
    <2> DEFINE m == n % 16777216
    <2>1. /\ m \in Nat /\ m < 16777216
          /\ m >= 8388608 => n = m - 16777216
          /\ m < 8388608 => n = m
        <3>1. -8388608 <= n /\ n < 8388608
            BY <1>1, <1>5 DEF TwosComplement
        <3> QED BY <3>1, ThreeOctetsHeld
    <2> HIDE DEF m
    <2>2. Fits(m, k)
        BY <1>5, <2>1 DEF Fits
    <2>3. Signed(BigEndian(m, k)) = IF (m \div 256^(k - 1)) % 256 >= 128 THEN m - 256^k ELSE m
        <3>1. SignedIs(m, k)
            BY <2>2, SignedOf
        <3> QED BY <3>1 DEF SignedIs
    <2>4. IntegerContent(n) = BigEndian(m, k)
        BY <1>1, <1>2, <1>5 DEF m
    <2>5. Signed(BigEndian(m, k)) = IF (m \div 65536) % 256 >= 128 THEN m - 16777216 ELSE m
        BY <1>2, <1>5, <2>3
    <2>6. (m \div 65536) % 256 >= 128 <=> m >= 8388608
        BY <2>1, LeadOfThree
    <2> QED BY <2>1, <2>4, <2>5, <2>6
<1> QED BY <1>3, <1>4, <1>5

-----------------------------------------------------------------------------
(* Session parameters *)

(* A session parameter, where it ends, and the body of the recursion of    *)
(* _session_params                                                         *)
SizedParam(d) == [code |-> d[1], value |-> SubSeq(d, SpduHeader(d).h + 1, SpduHeader(d).h + SpduHeader(d).n)]
SizedEnd(d) == SpduHeader(d).h + SpduHeader(d).n

SizedBody(f, d) ==
    IF d = <<>> THEN <<>>
    ELSE IF SpduHeader(d).n = -1 THEN <<Overrun>>
    ELSE <<SizedParam(d)>> \o f[Drop(d, SizedEnd(d))]

(* A header whose value is all there ends inside the octets. *)
HeaderEnds(d) ==
    SpduHeader(d).n # -1 => /\ SpduHeader(d).h \in {2, 4} /\ SpduHeader(d).n \in Nat
                            /\ SizedEnd(d) \in Nat /\ SizedEnd(d) >= 2 /\ SizedEnd(d) <= Len(d)

LEMMA SpduHeaderFacts ==
    ASSUME NEW d \in OctetString
    PROVE  HeaderEnds(d)
<1> DEFINE h == IF Len(d) >= 2 /\ d[2] = 255 THEN 4 ELSE 2
           n == IF h = 4 THEN 256 * d[3] + d[4] ELSE d[2]
<1>1. SpduHeader(d) = IF Len(d) < h \/ Len(d) < h + n THEN [h |-> h, n |-> -1] ELSE [h |-> h, n |-> n]
    BY DEF SpduHeader
<1>2. h \in {2, 4} /\ Len(d) \in Nat
    BY OctetFacts
<1>3. CASE Len(d) < h \/ Len(d) < h + n
    <2> HIDE DEF h, n
    <2>1. SpduHeader(d).n = -1
        BY <1>1, <1>3
    <2> QED BY <2>1 DEF HeaderEnds
<1>4. CASE ~(Len(d) < h \/ Len(d) < h + n)
    <2>1. n \in Nat
        <3>1. CASE h = 4
            <4>1. 3 \in 1..Len(d) /\ 4 \in 1..Len(d)
                BY <1>2, <1>4, <3>1
            <4>2. d[3] \in Nat /\ d[4] \in Nat
                BY <4>1, OctetFacts
            <4>3. 256 * d[3] + d[4] \in Nat
                BY <4>2
            <4> HIDE DEF h
            <4> QED BY <3>1, <4>3
        <3>2. CASE h = 2
            <4>1. 2 \in 1..Len(d)
                BY <1>2, <1>4, <3>2
            <4>2. d[2] \in Nat
                BY <4>1, OctetFacts
            <4> HIDE DEF h
            <4> QED BY <3>2, <4>2
        <3> HIDE DEF h, n
        <3> QED BY <1>2, <3>1, <3>2
    <2> HIDE DEF h, n
    <2>2. SpduHeader(d).h = h /\ SpduHeader(d).n = n
        BY <1>1, <1>4
    <2>3. h + n \in Nat /\ h + n >= 2 /\ h + n <= Len(d)
        BY <1>2, <1>4, <2>1
    <2> QED BY <1>2, <2>1, <2>2, <2>3 DEF HeaderEnds, SizedEnd
<1> QED BY <1>3, <1>4

(* A parameter, and what follows it *)
OneSized(d) ==
    d # <<>> /\ SpduHeader(d).n # -1 =>
        /\ SizedParam(d) \in Parameters
        /\ Drop(d, SizedEnd(d)) \in OctetString /\ Len(Drop(d, SizedEnd(d))) < Len(d)

LEMMA SizedFacts ==
    ASSUME NEW d \in OctetString
    PROVE  OneSized(d)
<1> SUFFICES ASSUME d # <<>>, SpduHeader(d).n # -1
             PROVE  /\ SizedParam(d) \in Parameters
                    /\ Drop(d, SizedEnd(d)) \in OctetString /\ Len(Drop(d, SizedEnd(d))) < Len(d)
    BY DEF OneSized
<1> DEFINE h == SpduHeader(d).h
           n == SpduHeader(d).n
           e == SizedEnd(d)
<1>1. HeaderEnds(d)
    BY SpduHeaderFacts
<1>2. h \in {2, 4} /\ n \in Nat /\ e \in Nat /\ e >= 2 /\ e <= Len(d) /\ e = h + n
    BY <1>1 DEF HeaderEnds, SizedEnd
<1>3. Len(d) \in Nat /\ 1 \in 1..Len(d) /\ d[1] \in Int
    <2>1. Len(d) \in Nat
        BY OctetFacts
    <2> HIDE DEF h, n, e
    <2>2. 1 \in 1..Len(d)
        BY <1>2, <2>1
    <2>3. d[1] \in Nat
        BY <2>2, OctetFacts
    <2> QED BY <2>1, <2>2, <2>3
<1>4. SizedParam(d) = [code |-> d[1], value |-> SubSeq(d, h + 1, e)]
    BY <1>2 DEF SizedParam
<1> HIDE DEF h, n, e
<1>5. SubSeq(d, h + 1, e) \in OctetString
    <2>1. h + 1 \in Nat /\ h + 1 >= 1
        BY <1>2
    <2> QED BY <1>2, <2>1, PartFacts
<1>6. SizedParam(d) \in Parameters
    BY <1>3, <1>4, <1>5 DEF Parameters
<1>7. Drop(d, e) \in OctetString /\ Len(Drop(d, e)) = Len(d) - e
    BY <1>2, DropFacts
<1>8. Len(Drop(d, e)) < Len(d)
    BY <1>2, <1>3, <1>7
<1> QED BY <1>6, <1>7, <1>8 DEF e

(* The body returns parameters. *)
LEMMA SizedBodyIsSeq ==
    ASSUME NEW f \in [OctetString -> Seq(Parameters)], NEW d \in OctetString
    PROVE  SizedBody(f, d) \in Seq(Parameters)
<1> DEFINE p == SizedParam(d)
           r == Drop(d, SizedEnd(d))
           more == d # <<>> /\ SpduHeader(d).n # -1
<1>1. more => p \in Parameters /\ r \in OctetString
    BY SizedFacts DEF OneSized
<1>2. Overrun \in Parameters
    <2>1. -1 \in Int /\ <<>> \in OctetString
        BY DEF OctetString
    <2> QED BY <2>1 DEF Overrun, Parameters
<1>3. SizedBody(f, d) = IF d = <<>> THEN <<>> ELSE IF SpduHeader(d).n = -1 THEN <<Overrun>> ELSE <<p>> \o f[r]
    BY DEF SizedBody
<1> HIDE DEF p, r
<1>4. <<>> \in Seq(Parameters) /\ <<Overrun>> \in Seq(Parameters)
    BY <1>2
<1>5. more => <<p>> \o f[r] \in Seq(Parameters)
    <2>1. more => <<p>> \in Seq(Parameters) /\ f[r] \in Seq(Parameters)
        BY <1>1
    <2> QED BY <2>1, ConcatProperties
<1> QED BY <1>3, <1>4, <1>5

(* The recursion as an equation *)
LEMMA SessionParamsEquation ==
    \A d \in OctetString : SessionParams[d] = SizedBody(SessionParams, d)
<1> DEFINE S == OctetString
           V == Seq(Parameters)
           F == [p \in [S -> V] \X S |-> SizedBody(p[1], p[2])]
           size == [s \in S |-> Len(s)]
<1>1. ASSUME NEW f \in [S -> V], NEW s \in S
      PROVE  SizedBody(f, s) \in V /\ F[<<f, s>>] = SizedBody(f, s)
    <2>1. F[<<f, s>>] = SizedBody(f, s)
        OBVIOUS
    <2>2. SizedBody(f, s) \in V
        BY SizedBodyIsSeq
    <2> HIDE DEF F
    <2> QED BY <2>1, <2>2
<1>2. size \in [S -> Nat] /\ \A s \in S : size[s] = Len(s)
    BY OctetFacts
<1>3. ASSUME NEW f \in [S -> V], NEW g \in [S -> V], NEW s \in S,
             \A q \in S : size[q] < size[s] => f[q] = g[q]
      PROVE  F[<<f, s>>] = F[<<g, s>>]
    <2> DEFINE r == Drop(s, SizedEnd(s))
               more == s # <<>> /\ SpduHeader(s).n # -1
    <2>1. more => f[r] = g[r]
        <3>1. more => r \in OctetString /\ Len(r) < Len(s)
            BY SizedFacts DEF OneSized
        <3> HIDE DEF size, V, r, more
        <3> QED BY <1>2, <1>3, <3>1
    <2>2. SizedBody(f, s) = SizedBody(g, s)
        BY <2>1 DEF SizedBody
    <2> HIDE DEF F, V
    <2> QED BY <2>2, <1>1
<1>4. Contracts(F, S, V, size)
    <2> HIDE DEF F, size, V, S
    <2> QED BY <1>1, <1>3 DEF Contracts
<1>5. <<>> \in V
    OBVIOUS
<1>6. PICK f \in [S -> V] : Solves(f, F, S)
    <2> HIDE DEF F, S, size, V
    <2> QED BY <1>2, <1>4, <1>5, Recursion
<1>7. f = [s \in OctetString |-> SizedBody(f, s)]
    <2>1. f = [x \in S |-> F[<<f, x>>]]
        <3> HIDE DEF F, V, S
        <3> QED BY <1>6 DEF Solves
    <2> HIDE DEF F, V
    <2> QED BY <2>1, <1>1
<1>8. SessionParams = [s \in OctetString |-> SizedBody(SessionParams, s)]
    <2> HIDE DEF F, V
    <2>1. f = [d \in OctetString |->
                 LET a == SpduHeader(d)
                 IN  IF d = <<>> THEN <<>>
                     ELSE IF a.n = -1 THEN <<Overrun>>
                     ELSE <<[code |-> d[1], value |-> SubSeq(d, a.h + 1, a.h + a.n)]>> \o f[Drop(d, a.h + a.n)]]
        BY <1>7, Zenon DEF SizedBody, SizedParam, SizedEnd
    <2>2. SessionParams = [d \in OctetString |->
                 LET a == SpduHeader(d)
                 IN  IF d = <<>> THEN <<>>
                     ELSE IF a.n = -1 THEN <<Overrun>>
                     ELSE <<[code |-> d[1], value |-> SubSeq(d, a.h + 1, a.h + a.n)]>> \o SessionParams[Drop(d, a.h + a.n)]]
        BY <2>1, Zenon DEF SessionParams
    <2> QED BY <2>2, Zenon DEF SizedBody, SizedParam, SizedEnd
<1> QED BY <1>8

(* The two forms of a session length n: one octet, or 255 and two octets *)
SizedLength(n, l, b) ==
    \/ Len(b) = 0 /\ l = n /\ l < 255
    \/ l = 255 /\ Len(b) = 2 /\ b[1] \in Octet /\ b[2] \in Octet /\ 256 * b[1] + b[2] = n

(* A parameter of that length as it is written *)
SizedForm(code, value, rest, l, b) ==
    /\ b \in OctetString /\ ElementWritten(Sized(code, value) \o rest, code, l, b, value, rest)
    /\ SizedLength(Len(value), l, b)

LEMMA SizedInParts ==
    ASSUME NEW code \in Octet, NEW value \in OctetString, Word(Len(value)), NEW rest \in OctetString
    PROVE  \E l, b : SizedForm(code, value, rest, l, b)
<1> DEFINE n == Len(value)
<1>1. n \in Nat
    BY OctetFacts
<1>2. CASE n < 255
    <2> DEFINE b == <<>>
    <2>1. b \in OctetString /\ Len(b) = 0 /\ <<n>> = <<n>> \o b
        BY DEF OctetString
    <2>2. n \in Octet
        <3> HIDE DEF n
        <3> QED BY <1>1, <1>2 DEF Octet
    <2>3. Sized(code, value) = (<<code>> \o (<<n>> \o b)) \o value
        BY <1>2, <2>1 DEF Sized
    <2> HIDE DEF b, n
    <2>4. ElementWritten(((<<code>> \o (<<n>> \o b)) \o value) \o rest, code, n, b, value, rest)
        BY <2>1, <2>2, ElementFacts
    <2> QED BY <1>2, <2>1, <2>3, <2>4 DEF n, SizedForm, SizedLength
<1>3. CASE ~(n < 255)
    <2> DEFINE b == BigEndian(n, 2)
    <2>1. PICK x, y \in Octet : b = <<x, y>> /\ 256 * x + y = n
        BY TwoOctets
    <2>2. b \in OctetString /\ Len(b) = 2 /\ b[1] = x /\ b[2] = y
        <3> DEFINE w == <<x, y>>
        <3>1. w \in Seq(Octet) /\ Len(w) = 2 /\ w[1] = x /\ w[2] = y
            OBVIOUS
        <3>2. b = w
            BY <2>1
        <3> HIDE DEF w, b
        <3> QED BY <3>1, <3>2 DEF OctetString
    <2>3. Sized(code, value) = (<<code>> \o (<<255>> \o b)) \o value
        BY <1>3 DEF Sized
    <2>4. 255 \in Octet
        BY DEF Octet
    <2> HIDE DEF b, n
    <2>5. ElementWritten(((<<code>> \o (<<255>> \o b)) \o value) \o rest, code, 255, b, value, rest)
        BY <2>2, <2>4, ElementFacts
    <2> QED BY <2>1, <2>2, <2>3, <2>5 DEF n, SizedForm, SizedLength
<1> QED BY <1>2, <1>3

(* The header that is read where a parameter was written *)
LEMMA SizedHeader ==
    ASSUME NEW d, NEW code \in Octet, NEW l, NEW b \in OctetString, NEW value \in OctetString, NEW rest \in OctetString,
           ElementWritten(d, code, l, b, value, rest),
           SizedLength(Len(value), l, b)
    PROVE  SpduHeader(d) = [h |-> 2 + Len(b), n |-> Len(value)]
<1> DEFINE h == IF Len(d) >= 2 /\ d[2] = 255 THEN 4 ELSE 2
           n == IF h = 4 THEN 256 * d[3] + d[4] ELSE d[2]
           k == Len(b)
           v == Len(value)
<1>1. SpduHeader(d) = IF Len(d) < h \/ Len(d) < h + n THEN [h |-> h, n |-> -1] ELSE [h |-> h, n |-> n]
    BY DEF SpduHeader
<1>2. k \in Nat /\ v \in Nat /\ Len(rest) \in Nat
    BY OctetFacts
<1>3. Len(d) = 2 + k + v + Len(rest) /\ d[2] = l /\ d \in OctetString /\ SubSeq(d, 3, 2 + k) = b
    BY DEF ElementWritten
<1>4. Len(d) >= 2 /\ Len(d) \in Nat
    <2> HIDE DEF k, v
    <2> QED BY <1>2, <1>3
<1>5. CASE k = 0 /\ l = v /\ l < 255
    <2>1. h = 2
        <3>1. d[2] # 255
            <4> HIDE DEF k, v
            <4> QED BY <1>2, <1>3, <1>5
        <3> QED BY <3>1
    <2>2. n = v
        <3> HIDE DEF h
        <3> QED BY <1>3, <1>5, <2>1
    <2> HIDE DEF h, n, k, v
    <2>3. ~(Len(d) < h \/ Len(d) < h + n) /\ h = 2 + k
        BY <1>2, <1>3, <1>4, <1>5, <2>1, <2>2
    <2> QED BY <1>1, <2>2, <2>3 DEF k, v
<1>6. CASE l = 255 /\ k = 2 /\ b[1] \in Octet /\ b[2] \in Octet /\ 256 * b[1] + b[2] = v
    <2>1. h = 4
        BY <1>3, <1>4, <1>6
    <2>2. d[3] = b[1] /\ d[4] = b[2]
        <3> HIDE DEF h, n, k, v
        <3>1. Len(d) >= 4 /\ 2 + k = 4
            BY <1>2, <1>3, <1>6
        <3>2. \A i \in 1..Len(d) : d[i] \in Octet
            BY <1>3, OctetFacts
        <3>3. 3 \in Int /\ 4 \in Int /\ \A i \in 3..4 : d[i] \in Octet
            BY <1>4, <3>1, <3>2
        <3>4. \A i \in 1..(4 - 3 + 1) : SubSeq(d, 3, 4)[i] = d[3 + i - 1]
            BY <3>3, SubSeqProperties
        <3>5. 1 \in 1..(4 - 3 + 1) /\ 2 \in 1..(4 - 3 + 1) /\ 3 + 1 - 1 = 3 /\ 3 + 2 - 1 = 4
            OBVIOUS
        <3>6. SubSeq(d, 3, 4) = b
            BY <1>3, <3>1
        <3> QED BY <3>4, <3>5, <3>6
    <2>3. n = v
        <3> HIDE DEF h
        <3> QED BY <1>6, <2>1, <2>2
    <2> HIDE DEF h, n, k, v
    <2>4. ~(Len(d) < h \/ Len(d) < h + n) /\ h = 2 + k
        BY <1>2, <1>3, <1>4, <1>6, <2>1, <2>3
    <2> QED BY <1>1, <2>3, <2>4 DEF k, v
<1> QED BY <1>5, <1>6 DEF SizedLength

(* _session_params gives back the parameter that _session_param wrote and  *)
(* goes on with what follows it, for any value up to 65535 octets: a length*)
(* of 255 or more is announced by the octet 255.                           *)
THEOREM SessionParametersAreRead ==
    ASSUME NEW code \in Octet, NEW value \in OctetString, Word(Len(value)), NEW rest \in OctetString
    PROVE  SessionParams[Sized(code, value) \o rest] = <<[code |-> code, value |-> value]>> \o SessionParams[rest]
<1> DEFINE d == Sized(code, value) \o rest
<1>1. PICK l, b : SizedForm(code, value, rest, l, b)
    BY SizedInParts
<1>2. b \in OctetString /\ ElementWritten(d, code, l, b, value, rest) /\ SizedLength(Len(value), l, b)
    BY <1>1 DEF SizedForm
<1> HIDE DEF d
<1>3. SpduHeader(d) = [h |-> 2 + Len(b), n |-> Len(value)]
    BY <1>2, SizedHeader
<1>4. /\ d \in OctetString /\ Len(d) = 2 + Len(b) + Len(value) + Len(rest) /\ d[1] = code
      /\ SubSeq(d, 2 + Len(b) + 1, 2 + Len(b) + Len(value)) = value
      /\ Drop(d, 2 + Len(b) + Len(value)) = rest
    BY <1>2 DEF ElementWritten
<1>5. Len(b) \in Nat /\ Len(value) \in Nat /\ Len(rest) \in Nat
    BY <1>2, OctetFacts
<1>6. d # <<>>
    <2>1. Len(d) # 0 /\ Len(<<>>) = 0
        BY <1>4, <1>5
    <2> QED BY <2>1
<1>7. SpduHeader(d).h = 2 + Len(b) /\ SpduHeader(d).n = Len(value) /\ SpduHeader(d).n # -1
    BY <1>3, <1>5
<1>8. SizedParam(d) = [code |-> code, value |-> value] /\ Drop(d, SizedEnd(d)) = rest
    BY <1>4, <1>7 DEF SizedParam, SizedEnd
<1>9. SessionParams[d] = SizedBody(SessionParams, d)
    BY <1>4, SessionParamsEquation
<1>10. SizedBody(SessionParams, d) = <<[code |-> code, value |-> value]>> \o SessionParams[rest]
    BY <1>6, <1>7, <1>8 DEF SizedBody
<1> QED BY <1>9, <1>10 DEF d

================================================================================
