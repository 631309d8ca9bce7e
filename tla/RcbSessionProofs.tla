--------------------------- MODULE RcbSessionProofs ---------------------------
(***************************************************************************)
(* Proofs about RcbSession, for any set of RCBs, clients and faults.       *)
(***************************************************************************)
EXTENDS RcbSession, SequenceTheorems, TLAPS

-----------------------------------------------------------------------------
(* The registry as a sequence of keys *)

(* Removing one position shifts what follows it. *)
LEMMA RemoveAtItems ==
    ASSUME NEW S, NEW s \in Seq(S), NEW k \in 1..Len(s)
    PROVE  /\ RemoveAt(s, k) \in Seq(S)
           /\ Len(RemoveAt(s, k)) = Len(s) - 1
           /\ \A j \in 1..(Len(s) - 1) : RemoveAt(s, k)[j] = IF j < k THEN s[j] ELSE s[j + 1]
<1> DEFINE a == SubSeq(s, 1, k - 1)
           b == SubSeq(s, k + 1, Len(s))
           w == a \o b
<1>1. RemoveAt(s, k) = w
  BY DEF RemoveAt
<1>a. a \in Seq(S) /\ Len(a) = k - 1 /\ \A i \in 1..(k - 1) : a[i] = s[i]
  <2>1. \A i \in 1..(k - 1) : s[i] \in S
    OBVIOUS
  <2>2. /\ a \in Seq(S)
        /\ Len(a) = IF 1 <= k - 1 THEN (k - 1) - 1 + 1 ELSE 0
        /\ \A i \in 1..((k - 1) - 1 + 1) : a[i] = s[1 + i - 1]
    BY <2>1, SubSeqProperties
  <2> HIDE DEF a
  <2>3. QED
    BY <2>2
<1>b. b \in Seq(S) /\ Len(b) = Len(s) - k /\ \A i \in 1..(Len(s) - k) : b[i] = s[k + i]
  <2>1. \A i \in (k + 1)..Len(s) : s[i] \in S
    OBVIOUS
  <2>2. /\ b \in Seq(S)
        /\ Len(b) = IF k + 1 <= Len(s) THEN Len(s) - (k + 1) + 1 ELSE 0
        /\ \A i \in 1..(Len(s) - (k + 1) + 1) : b[i] = s[(k + 1) + i - 1]
    BY <2>1, SubSeqProperties
  <2> HIDE DEF b
  <2>3. QED
    BY <2>2
<1> HIDE DEF a, b
<1>c. /\ w \in Seq(S) /\ Len(w) = Len(a) + Len(b)
      /\ \A i \in 1..(Len(a) + Len(b)) : w[i] = IF i <= Len(a) THEN a[i] ELSE b[i - Len(a)]
  BY <1>a, <1>b, ConcatProperties
<1> HIDE DEF w
<1>2. w \in Seq(S) /\ Len(w) = Len(s) - 1
  BY <1>a, <1>b, <1>c
<1>3. \A j \in 1..Len(w) : w[j] = IF j < k THEN s[j] ELSE s[j + 1]
  <2> SUFFICES ASSUME NEW j \in 1..Len(w) PROVE w[j] = IF j < k THEN s[j] ELSE s[j + 1]
    OBVIOUS
  <2>0. j \in 1..(Len(a) + Len(b))
    BY <1>c
  <2>1. CASE j < k
    <3>1. j \in 1..(k - 1) /\ j <= Len(a)
      BY <1>a, <2>1
    <3>2. w[j] = a[j]
      BY <1>c, <2>0, <3>1
    <3>3. QED
      BY <1>a, <2>1, <3>1, <3>2
  <2>2. CASE ~(j < k)
    <3>1. j - (k - 1) \in 1..(Len(s) - k) /\ k + (j - (k - 1)) = j + 1
      BY <1>2, <2>2
    <3>2. w[j] = b[j - (k - 1)]
      <4>1. ~(j <= Len(a)) /\ Len(a) = k - 1
        BY <1>a, <2>2
      <4>2. QED
        BY <1>c, <2>0, <4>1
    <3>3. b[j - (k - 1)] = s[j + 1]
      BY <3>1, <1>b
    <3>4. QED
      BY <2>2, <3>2, <3>3
  <2>3. QED
    BY <2>1, <2>2
<1>4. QED
  BY <1>1, <1>2, <1>3

(* It loses nothing else. *)
LEMMA RemoveAtKeys ==
    ASSUME NEW S, NEW s \in Seq(S), NEW k \in 1..Len(s)
    PROVE  /\ RemoveAt(s, k) \in Seq(S)
           /\ ToSet(RemoveAt(s, k)) \subseteq ToSet(s)
           /\ ToSet(s) \ {s[k]} \subseteq ToSet(RemoveAt(s, k))
<1> DEFINE w == RemoveAt(s, k)
<1>2. w \in Seq(S) /\ Len(w) = Len(s) - 1
  BY RemoveAtItems
<1>3. \A j \in 1..Len(w) : w[j] = IF j < k THEN s[j] ELSE s[j + 1]
  BY RemoveAtItems
<1> HIDE DEF w
<1>4. ASSUME NEW x \in ToSet(w) PROVE x \in ToSet(s)
  <2>1. PICK j \in 1..Len(w) : x = w[j]
    BY <1>2, <1>4 DEF ToSet
  <2>2. j \in 1..Len(s) /\ j + 1 \in 1..Len(s)
    BY <1>2
  <2>3. x = s[j] \/ x = s[j + 1]
    BY <1>3, <2>1
  <2>4. QED
    BY <2>2, <2>3 DEF ToSet
<1>5. ASSUME NEW x \in ToSet(s), x # s[k] PROVE x \in ToSet(w)
  <2>1. PICK i \in 1..Len(s) : x = s[i]
    BY <1>5 DEF ToSet
  <2>2. CASE i < k
    <3>1. i \in 1..Len(w) /\ w[i] = x
      BY <1>2, <1>3, <2>1, <2>2
    <3>2. QED
      BY <3>1, <1>2 DEF ToSet
  <2>3. CASE i > k
    <3>1. i - 1 \in 1..Len(w) /\ w[i - 1] = s[(i - 1) + 1]
      BY <1>2, <1>3, <2>3
    <3>2. (i - 1) + 1 = i
      OBVIOUS
    <3>3. QED
      BY <1>2, <2>1, <3>1, <3>2 DEF ToSet
  <2>4. QED
    BY <1>5, <2>1, <2>2, <2>3
<1>6. QED
  BY <1>2, <1>4, <1>5 DEF w

(* drop_cleanup: what is left are the same keys, without one of them at most. *)
LEMMA WithoutKeys ==
    ASSUME NEW S, NEW s \in Seq(S), NEW e
    PROVE  /\ Without(s, e) \in Seq(S)
           /\ ToSet(Without(s, e)) \subseteq ToSet(s)
           /\ ToSet(s) \ {e} \subseteq ToSet(Without(s, e))
<1>1. CASE e \in ToSet(s)
  <2> DEFINE k == CHOOSE i \in DOMAIN s : s[i] = e
  <2>1. k \in 1..Len(s) /\ s[k] = e
    BY <1>1 DEF ToSet
  <2>2. Without(s, e) = RemoveAt(s, k)
    BY <1>1 DEF Without
  <2> HIDE DEF k
  <2>3. QED
    BY <2>1, <2>2, RemoveAtKeys
<1>2. CASE e \notin ToSet(s)
  BY <1>2 DEF Without
<1>3. QED
  BY <1>1, <1>2

(* register_cleanup: the new key is added and no other is lost. *)
LEMMA AppendKeys ==
    ASSUME NEW S, NEW s \in Seq(S), NEW e \in S
    PROVE  /\ Append(s, e) \in Seq(S)
           /\ ToSet(Append(s, e)) = ToSet(s) \cup {e}
<1> DEFINE w == Append(s, e)
<1>1. w \in Seq(S) /\ Len(w) = Len(s) + 1 /\ w[Len(s) + 1] = e
  OBVIOUS
<1>2. \A i \in 1..Len(s) : w[i] = s[i]
  OBVIOUS
<1> HIDE DEF w
<1>3. ASSUME NEW x \in ToSet(w) PROVE x \in ToSet(s) \cup {e}
  <2>1. PICK i \in 1..Len(w) : x = w[i]
    BY <1>1, <1>3 DEF ToSet
  <2>2. i \in 1..Len(s) \/ i = Len(s) + 1
    BY <1>1
  <2>3. QED
    BY <1>1, <1>2, <2>1, <2>2 DEF ToSet
<1>4. ASSUME NEW x \in ToSet(s) \cup {e} PROVE x \in ToSet(w)
  <2>1. CASE x = e
    <3>1. Len(s) + 1 \in 1..Len(w)
      BY <1>1
    <3>2. QED
      BY <1>1, <2>1, <3>1 DEF ToSet
  <2>2. CASE x \in ToSet(s)
    <3>1. PICK i \in 1..Len(s) : x = s[i]
      BY <2>2 DEF ToSet
    <3>2. i \in 1..Len(w)
      BY <1>1
    <3>3. QED
      BY <1>1, <1>2, <3>1, <3>2 DEF ToSet
  <2>3. QED
    BY <1>4, <2>1, <2>2
<1>5. ToSet(w) = ToSet(s) \cup {e}
  BY <1>3, <1>4
<1>6. QED
  BY <1>1, <1>5 DEF w

(* Front keeps everything but the last position. *)
LEMMA FrontItems ==
    ASSUME NEW S, NEW s \in Seq(S), s # <<>>
    PROVE  /\ Front(s) \in Seq(S)
           /\ Len(s) \in Nat /\ Len(s) >= 1
           /\ Last(s) = s[Len(s)] /\ Last(s) \in S
           /\ Len(Front(s)) = Len(s) - 1 /\ \A i \in 1..Len(Front(s)) : Front(s)[i] = s[i]
<1> DEFINE w == Front(s)
<1>1. Len(s) \in Nat /\ Len(s) >= 1
  OBVIOUS
<1>0. \A i \in 1..(Len(s) - 1) : s[i] \in S
  OBVIOUS
<1>2. /\ w \in Seq(S)
      /\ Len(w) = IF 1 <= Len(s) - 1 THEN (Len(s) - 1) - 1 + 1 ELSE 0
      /\ \A i \in 1..((Len(s) - 1) - 1 + 1) : w[i] = s[1 + i - 1]
  BY <1>0, <1>1, SubSeqProperties DEF Front
<1>4. Last(s) = s[Len(s)] /\ Last(s) \in S
  BY <1>1 DEF Last
<1> HIDE DEF w
<1>3. Len(w) = Len(s) - 1 /\ \A i \in 1..Len(w) : w[i] = s[i]
  <2>1. Len(w) = Len(s) - 1
    <3>1. CASE Len(s) = 1
      BY <1>2, <3>1
    <3>2. CASE Len(s) >= 2
      <4>1. 1 <= Len(s) - 1 /\ (Len(s) - 1) - 1 + 1 = Len(s) - 1
        BY <1>1, <3>2
      <4>2. QED
        BY <1>2, <4>1
    <3>3. Len(s) = 1 \/ Len(s) >= 2
      <4>1. \A n \in Nat : n >= 1 => n = 1 \/ n >= 2
        OBVIOUS
      <4>2. QED
        BY <1>1, <4>1
    <3>4. QED
      BY <3>1, <3>2, <3>3
  <2>2. ASSUME NEW i \in 1..Len(w) PROVE w[i] = s[i]
    <3>1. i \in 1..((Len(s) - 1) - 1 + 1) /\ 1 + i - 1 = i
      BY <1>1, <2>1
    <3>2. QED
      BY <1>2, <3>1
  <2>3. QED
    BY <2>1, <2>2
<1>5. QED
  BY <1>1, <1>2, <1>3, <1>4 DEF w

(* run_cleanups takes the last key. *)
LEMMA FrontKeys ==
    ASSUME NEW S, NEW s \in Seq(S), s # <<>>
    PROVE  /\ Front(s) \in Seq(S)
           /\ Last(s) \in S
           /\ ToSet(Front(s)) \subseteq ToSet(s)
           /\ ToSet(s) \subseteq ToSet(Front(s)) \cup {Last(s)}
<1> DEFINE w == Front(s)
<1>1. Len(s) \in Nat /\ Len(s) >= 1
  BY FrontItems
<1>2. w \in Seq(S)
  BY FrontItems
<1>3. Len(w) = Len(s) - 1 /\ \A i \in 1..Len(w) : w[i] = s[i]
  BY FrontItems
<1>4. Last(s) = s[Len(s)] /\ Last(s) \in S
  BY FrontItems
<1> HIDE DEF w
<1>5. ASSUME NEW x \in ToSet(w) PROVE x \in ToSet(s)
  <2>1. PICK i \in 1..Len(w) : x = w[i]
    BY <1>2, <1>5 DEF ToSet
  <2>2. i \in 1..Len(s)
    BY <1>1, <1>3
  <2>3. QED
    BY <1>3, <2>1, <2>2 DEF ToSet
<1>6. ASSUME NEW x \in ToSet(s) PROVE x \in ToSet(w) \cup {Last(s)}
  <2>1. PICK i \in 1..Len(s) : x = s[i]
    BY <1>6 DEF ToSet
  <2>2. i = Len(s) \/ i \in 1..Len(w)
    BY <1>1, <1>3
  <2>3. QED
    BY <1>2, <1>3, <1>4, <2>1, <2>2 DEF ToSet
<1>7. QED
  BY <1>2, <1>4, <1>5, <1>6 DEF w

-----------------------------------------------------------------------------
(* The registry as a set of keys *)

LEMMA RegisteredType ==
    ASSUME TypeOK
    PROVE  /\ Registered \subseteq Effects
           /\ cleanups = <<>> => Registered = {}
           /\ cleanups # <<>> => Last(cleanups) \in Effects
<1>1. cleanups \in Seq(Effects)
  BY DEF TypeOK
<1>2. Registered \subseteq Effects
  BY <1>1 DEF Registered, ToSet
<1>3. cleanups = <<>> => Registered = {}
  BY DEF Registered, ToSet
<1>4. QED
  BY <1>1, <1>2, <1>3, FrontKeys

(* register_cleanup adds its key; a record about an effect that is not in force goes. *)
LEMMA RegisterKeys ==
    ASSUME TypeOK, NEW e \in Effects, RegisterCleanup(e)
    PROVE  /\ cleanups' \in Seq(Effects)
           /\ Registered' = Registered \cup {e}
           /\ logged' \subseteq logged /\ logged \ {e} \subseteq logged'
           /\ e \in Present => logged' = logged
           /\ told' \subseteq told
<1> DEFINE w == Without(cleanups, e)
<1>1. /\ w \in Seq(Effects)
      /\ ToSet(w) \subseteq Registered
      /\ Registered \ {e} \subseteq ToSet(w)
  BY WithoutKeys DEF TypeOK, Registered
<1>2. cleanups' = Append(w, e)
  BY DEF RegisterCleanup
<1> HIDE DEF w
<1>3. /\ cleanups' \in Seq(Effects)
      /\ Registered' = ToSet(w) \cup {e}
  BY <1>1, <1>2, AppendKeys DEF Registered
<1>4. Registered' = Registered \cup {e}
  BY <1>1, <1>3
<1>5. QED
  BY <1>3, <1>4 DEF RegisterCleanup, StillRecorded

(* drop_cleanup takes no other key away. *)
LEMMA DropKeys ==
    ASSUME TypeOK, NEW e, DropCleanup(e)
    PROVE  /\ cleanups' \in Seq(Effects)
           /\ Registered' \subseteq Registered
           /\ Registered \ {e} \subseteq Registered'
BY WithoutKeys DEF TypeOK, Registered, DropCleanup

(* run_cleanups takes the newest key and no other. *)
LEMMA FrontOfRegistry ==
    ASSUME TypeOK, cleanups # <<>>, cleanups' = Front(cleanups)
    PROVE  /\ cleanups' \in Seq(Effects)
           /\ Registered' \subseteq Registered
           /\ Registered \subseteq Registered' \cup {Last(cleanups)}
BY FrontKeys DEF TypeOK, Registered

(* What the end of a procedure leaves of it. *)
LEMMA ForgetType ==
    ASSUME Forget
    PROVE  /\ cur' = NoOne
           /\ found' \in [resv : BOOLEAN, parm : ParmValues]
           /\ wants' \in BOOLEAN
           /\ mode' = "idle" /\ next' = 1 /\ hand' = NoOne /\ notes' = {}
<1>1. NothingFound \in [resv : BOOLEAN, parm : ParmValues]
  BY DEF NothingFound, ParmValues
<1>2. FALSE \in BOOLEAN
  OBVIOUS
<1>3. wants' \in BOOLEAN
  BY <1>2, Zenon DEF Forget
<1>4. QED
  BY <1>1, <1>3 DEF Forget

(* Types and the shape of the running procedure depend on no fault. *)
TypeInv == TypeOK /\ Running

(* Every step preserves the types and the shape of the running procedure. *)
LEMMA TypeStep == TypeInv /\ [Next]_vars => TypeInv'
<1> SUFFICES ASSUME TypeInv, [Next]_vars PROVE TypeInv'
  OBVIOUS
<1> USE DEF TypeInv, TypeOK, Running, SubscribePcs, UndoPcs, StopModes, RunModes
<1>a. NoOne \notin Effects /\ \A r \in RCBs, k \in Kinds : <<r, k>> \in Effects
  BY ConstantsAssumption DEF Effects, Kinds
<1>b. "resv" \in Kinds /\ "params" \in Kinds /\ "enable" \in Kinds
  BY DEF Kinds
<1>c. \A e \in Effects : e[1] \in RCBs
  BY DEF Effects
<1>d. <<>> \in Seq(Effects) /\ Registered \subseteq Effects
  BY RegisteredType
<1>e. NothingFound \in [resv : BOOLEAN, parm : ParmValues]
  BY DEF NothingFound, ParmValues
<1>1. CASE Connect
  BY <1>1, <1>a, <1>b, <1>c, <1>d, <1>e, ForgetType DEF Connect, devVars, regVars, jobVars, undoVars, recVars, DeviceType
<1>2. CASE Reconnect
  BY <1>2, <1>a, <1>b, <1>c, <1>d, <1>e, ForgetType DEF Reconnect, devVars, regVars, jobVars, undoVars, recVars, DeviceType
<1>3. CASE CommandWithoutLink
  BY <1>3, <1>a, <1>b, <1>c, <1>d, <1>e, ForgetType DEF CommandWithoutLink, devVars, regVars, jobVars, undoVars, recVars, DeviceType
<1>4. CASE CheckConnection
  BY <1>4, <1>a, <1>b, <1>c, <1>d, <1>e, ForgetType DEF CheckConnection, devVars, regVars, jobVars, undoVars, recVars, DeviceType
<1>5. ASSUME NEW r \in RCBs, Subscribe(r) PROVE TypeInv'
  BY <1>5, <1>a, <1>b, <1>c, <1>d, <1>e, ForgetType DEF Subscribe, devVars, regVars, jobVars, undoVars, recVars, DeviceType, ParmValues
<1>6. ASSUME NEW r \in RCBs, Resume(r) PROVE TypeInv'
  BY <1>6, <1>a, <1>b, <1>c, <1>d, <1>e, ForgetType DEF Resume, devVars, regVars, jobVars, undoVars, recVars, DeviceType
<1>7. ASSUME NEW r \in RCBs, StopCommand(r) PROVE TypeInv'
  BY <1>7, <1>a, <1>b, <1>c, <1>d, <1>e, ForgetType DEF StopCommand, devVars, regVars, jobVars, undoVars, recVars, DeviceType
<1>8. CASE Disconnect
  BY <1>8, <1>a, <1>b, <1>c, <1>d, <1>e, ForgetType DEF Disconnect, devVars, regVars, jobVars, undoVars, recVars, DeviceType
<1>9. CASE Exit
  BY <1>9, <1>a, <1>b, <1>c, <1>d, <1>e, ForgetType DEF Exit, devVars, regVars, jobVars, undoVars, recVars, DeviceType
<1>10. CASE NewProcess
  BY <1>10, <1>a, <1>b, <1>c, <1>d, <1>e, ForgetType DEF NewProcess, devVars, regVars, jobVars, undoVars, recVars, DeviceType
<1>11. CASE RegisterReservation
  BY <1>11, <1>a, <1>b, <1>c, <1>d, <1>e, ForgetType, RegisterKeys DEF RegisterReservation, devVars, regVars, jobVars, undoVars, recVars, DeviceType
<1>12. CASE SetReservation
  <2>1. DeviceType'
    BY <1>12, <1>c DEF SetReservation, Carries, AssociationEnds, SetResv, devVars, DeviceType, Clients
  <2>2. QED
    BY <1>12, <2>1, <1>a, <1>b, ForgetType DEF SetReservation, regVars, jobVars, undoVars, recVars, CommandEnds, Clients
<1>13. CASE RegisterParams
  BY <1>13, <1>a, <1>b, <1>c, <1>d, <1>e, ForgetType, RegisterKeys DEF RegisterParams, devVars, regVars, jobVars, undoVars, recVars, DeviceType, ParmValues
<1>14. CASE SetParams
  <2>1. DeviceType'
    BY <1>14, <1>c DEF SetParams, Carries, AssociationEnds, SetParm, devVars, DeviceType, ParmValues
  <2>2. QED
    BY <1>14, <2>1, <1>a, <1>b, ForgetType DEF SetParams, regVars, jobVars, undoVars, recVars, CommandEnds, ParmValues
<1>15. CASE Purge
  <2>1. DeviceType'
    BY <1>15, <1>c DEF Purge, Carries, AssociationEnds, devVars, DeviceType
  <2>2. UNCHANGED <<cleanups, orig, subs, logged, told>>
    BY <1>15 DEF Purge, regVars, recVars
  <2>3. CASE pc' = "enable" /\ UNCHANGED <<jobVars, undoVars>>
    BY <1>15, <2>1, <2>2, <2>3 DEF Purge, jobVars, undoVars
  <2>4. CASE CommandEnds
    BY <1>a, <2>1, <2>2, <2>4, ForgetType DEF CommandEnds
  <2>5. QED
    BY <1>15, <2>3, <2>4 DEF Purge
<1>16. CASE RegisterEnable
  BY <1>16, <1>a, <1>b, <1>c, <1>d, <1>e, ForgetType, RegisterKeys DEF RegisterEnable, devVars, regVars, jobVars, undoVars, recVars, DeviceType
<1>17. CASE SetEnable
  <2>1. DeviceType'
    BY <1>17, <1>c DEF SetEnable, Carries, AssociationEnds, EnableFor, devVars, DeviceType, Clients
  <2>2. QED
    BY <1>17, <2>1, <1>a, <1>b, ForgetType, DropKeys DEF SetEnable, regVars, jobVars, undoVars, recVars, Clients
<1>18. CASE NotConnected
  BY <1>18, <1>a, <1>b, <1>c, <1>d, <1>e, ForgetType DEF NotConnected, devVars, regVars, jobVars, undoVars, recVars, CommandEnds, DeviceType
<1>19. CASE AfterEnable
  <2>1. DeviceType'
    BY <1>19, <1>c DEF AfterEnable, Carries, AssociationEnds, devVars, DeviceType
  <2>2. QED
    BY <1>19, <2>1, <1>a, <1>b, ForgetType DEF AfterEnable, regVars, jobVars, undoVars, recVars, CommandEnds
<1>20. CASE StopShowing
  BY <1>20, <1>a, <1>b, <1>c, <1>d, <1>e, ForgetType DEF StopShowing, devVars, regVars, jobVars, undoVars, recVars, DeviceType
<1>21. CASE KeepSubscription
  BY <1>21, <1>a, <1>b, <1>c, <1>d, <1>e, ForgetType DEF KeepSubscription, devVars, regVars, jobVars, undoVars, recVars, CommandEnds, DeviceType
<1>22. CASE StopTake
  <2>1. next \in 1..3 /\ next' = next + 1
    BY <1>22 DEF StopTake, StopOrder
  <2>2. next' \in 1..4
    BY <2>1
  <2> DEFINE e == <<cur, StopOrder[next]>>
  <2>3. CASE e \notin Registered
    BY <1>22, <2>2, <2>3 DEF StopTake, DeviceType, devVars, jobVars, recVars
  <2>4. CASE e \in Registered
    <3>1. e \in Effects /\ e # NoOne
      BY <1>a, <1>d, <2>4
    <3>2. DropCleanup(e)
      BY <1>22, <2>4 DEF StopTake
    <3>3. cleanups' \in Seq(Effects)
      BY <3>2, DropKeys
    <3> HIDE DEF e
    <3>4. \/ notes' = notes \cup {e} /\ UNCHANGED <<pc, hand>>
          \/ hand' = e /\ pc' = "undo" /\ UNCHANGED notes
      BY <1>22, <2>4 DEF StopTake, e
    <3>5. pc = "take" /\ mode \in StopModes /\ UNCHANGED <<devVars, link, orig, subs, jobVars, mode, recVars>>
      BY <1>22 DEF StopTake
    <3>6. QED
      BY <1>a, <2>2, <3>1, <3>3, <3>4, <3>5 DEF DeviceType, devVars, jobVars, recVars
  <2>5. QED
    BY <2>3, <2>4
<1>23. CASE StopFinish
  BY <1>23, <1>a, <1>b, <1>c, <1>d, <1>e, ForgetType DEF StopFinish, devVars, regVars, jobVars, undoVars, recVars, CommandEnds, DeviceType
<1>24. CASE RunTake
  <2> DEFINE e == Last(cleanups)
  <2>1. e \in Effects /\ e # NoOne
    BY <1>24, <1>a, RegisteredType DEF RunTake
  <2>2. cleanups' \in Seq(Effects)
    BY <1>24, FrontOfRegistry DEF RunTake
  <2>3. \/ hand' = e /\ pc' = "undo" /\ UNCHANGED <<notes, logged>>
        \/ notes' = notes \cup {e} /\ logged' = logged \cup {e} /\ UNCHANGED <<pc, hand>>
    BY <1>24 DEF RunTake
  <2>4. pc = "take" /\ mode \in RunModes /\ UNCHANGED <<devVars, link, orig, subs, jobVars, mode, next, told>>
    BY <1>24 DEF RunTake
  <2> HIDE DEF e
  <2>5. QED
    BY <1>a, <2>1, <2>2, <2>3, <2>4 DEF DeviceType, devVars, jobVars
<1>25. CASE RunFinish
  BY <1>25, <1>a, <1>b, <1>c, <1>d, <1>e, ForgetType DEF RunFinish, devVars, regVars, jobVars, undoVars, recVars, AssociationEnds, DeviceType
<1>26. CASE UndoEnable
  <2>a. (UNCHANGED devVars \/ AssociationEnds \/ SetEna(hand[1], NoOne)) /\ link' \in {link, "lost"}
    BY <1>26 DEF UndoEnable, UndoWrite, Carries
  <2>b. hand[1] \in RCBs
    BY <1>26, <1>c DEF UndoEnable
  <2>1. DeviceType'
    BY <2>a, <2>b DEF AssociationEnds, SetEna, devVars, DeviceType
  <2>2. QED
    BY <1>26, <2>1, <1>a, <1>b, ForgetType DEF UndoEnable, regVars, jobVars, undoVars, recVars, UndoWrite, Settle
<1>27. CASE UndoParams
  <2>a. (UNCHANGED devVars \/ AssociationEnds \/ SetParm(hand[1], orig[hand[1]])) /\ link' \in {link, "lost"}
    BY <1>27 DEF UndoParams, UndoWrite, Carries
  <2>b. hand[1] \in RCBs /\ orig[hand[1]] \in ParmValues
    BY <1>27, <1>c DEF UndoParams
  <2>1. DeviceType'
    BY <2>a, <2>b DEF AssociationEnds, SetParm, devVars, DeviceType
  <2>2. QED
    BY <1>27, <2>1, <1>a, <1>b, ForgetType DEF UndoParams, regVars, jobVars, undoVars, recVars, UndoWrite, Settle, ParmValues
<1>28. CASE UndoReservation
  <2>1. DeviceType'
    BY <1>28, <1>c DEF UndoReservation, UndoWrite, Carries, AssociationEnds, SetResv, devVars, DeviceType
  <2>2. QED
    BY <1>28, <2>1, <1>a, <1>b, ForgetType DEF UndoReservation, regVars, jobVars, undoVars, recVars, UndoWrite, Settle
<1>29. CASE ReadReservation
  <2>1. DeviceType'
    BY <1>29, <1>c DEF ReadReservation, Carries, AssociationEnds, devVars, DeviceType
  <2>2. QED
    BY <1>29, <2>1, <1>a, <1>b, ForgetType DEF ReadReservation, regVars, jobVars, undoVars, recVars, Settle
<1>30. CASE ReservationUnreachable
  BY <1>30, <1>a, <1>b, <1>c, <1>d, <1>e, ForgetType DEF ReservationUnreachable, devVars, regVars, jobVars, undoVars, recVars, Settle, CommandEnds, DeviceType
<1>31. CASE Release
  <2>1. DeviceType'
    BY <1>31, <1>c DEF Release, Carries, AssociationEnds, SetResv, devVars, DeviceType
  <2>2. QED
    BY <1>31, <2>1, <1>a, <1>b, ForgetType DEF Release, regVars, jobVars, undoVars, recVars, Settle
<1>32. CASE Verify
  <2>1. DeviceType'
    BY <1>32, <1>c DEF Verify, Carries, AssociationEnds, devVars, DeviceType
  <2>2. QED
    BY <1>32, <2>1, <1>a, <1>b, ForgetType DEF Verify, regVars, jobVars, undoVars, recVars, Settle
<1>33. CASE Lose
  BY <1>33, <1>a, <1>b, <1>c, <1>d, <1>e, ForgetType DEF Lose, devVars, regVars, jobVars, undoVars, recVars, AssociationEnds, DeviceType
<1>34. CASE Interrupt
  BY <1>34, <1>a, <1>b, <1>c, <1>d, <1>e, ForgetType DEF Interrupt, devVars, regVars, jobVars, undoVars, recVars, CommandEnds, DeviceType
<1>35. CASE InterruptUndo
  BY <1>35, <1>a, <1>b, <1>c, <1>d, <1>e, ForgetType DEF InterruptUndo, devVars, regVars, jobVars, undoVars, recVars, CommandEnds, DeviceType
<1>36. CASE InterruptExit
  BY <1>36, <1>a, <1>b, <1>c, <1>d, <1>e, ForgetType DEF InterruptExit, devVars, regVars, jobVars, undoVars, recVars, AssociationEnds, DeviceType
<1>37. ASSUME NEW r \in RCBs, NEW c \in Others, OtherTakes(r, c) PROVE TypeInv'
  BY <1>37, <1>a, <1>b, <1>c, <1>d, <1>e, ForgetType DEF OtherTakes, devVars, regVars, jobVars, undoVars, recVars, Clients, SetResv, EnableFor, DeviceType
<1>38. ASSUME NEW r \in RCBs, NEW c \in Others, OtherLeaves(r, c) PROVE TypeInv'
  BY <1>38, <1>a, <1>b, <1>c, <1>d, <1>e, ForgetType DEF OtherLeaves, devVars, regVars, jobVars, undoVars, recVars, Clients, SetResv, EnableFor, DeviceType
<1>39. ASSUME NEW r \in RCBs, ReservationExpires(r) PROVE TypeInv'
  BY <1>39, <1>a, <1>b, <1>c, <1>d, <1>e, ForgetType DEF ReservationExpires, devVars, regVars, jobVars, undoVars, recVars, SetResv, DeviceType
<1>40. CASE UNCHANGED vars
  BY <1>40 DEF vars, DeviceType, devVars, regVars, jobVars, undoVars, recVars
<1>41. QED
  BY <1>1, <1>2, <1>3, <1>4, <1>5, <1>6, <1>7, <1>8, <1>9, <1>10, <1>11, <1>12, <1>13, <1>14, <1>15, <1>16, <1>17, <1>18, <1>19, <1>20, <1>21, <1>22, <1>23, <1>24, <1>25, <1>26, <1>27, <1>28, <1>29, <1>30, <1>31, <1>32, <1>33, <1>34, <1>35, <1>36, <1>37, <1>38, <1>39, <1>40 DEF Next, Command, Handshake, Undoing, Environment

LEMMA TypeInit == Init => TypeInv
<1> SUFFICES ASSUME Init PROVE TypeInv
  OBVIOUS
<1>1. NoOne \notin Effects
  BY ConstantsAssumption DEF Effects, Kinds
<1>2. NothingFound \in [resv : BOOLEAN, parm : ParmValues] /\ <<>> \in Seq(Effects)
  BY DEF NothingFound, ParmValues
<1>3. wants \in BOOLEAN
  BY Zenon DEF Init
<1>4. DeviceType /\ orig \in [RCBs -> ParmValues]
  BY DEF Init, DeviceType, ParmValues
<1>5. QED
  BY <1>1, <1>2, <1>3, <1>4
     DEF Init, TypeInv, TypeOK, Running, SubscribePcs, UndoPcs, StopModes, RunModes

(* Whatever goes wrong, the session's state keeps its types, and the running procedure its shape. *)
THEOREM TypeInvariant == Spec => []TypeInv
BY TypeInit, TypeStep, PTL DEF Spec

(* TypeOK holds in every state, for any RCBs, clients and faults (the state of core/session.py:127-160 and *)
(* core/reports.py:235-260).                                                                               *)
THEOREM TypeCorrect == Spec => []TypeOK
<1>1. TypeInv => TypeOK
  BY DEF TypeInv
<1>2. QED
  BY <1>1, TypeInvariant, PTL

-----------------------------------------------------------------------------
(* What a request can add to the effects in force *)

LEMMA EffectKinds ==
    ASSUME NEW e \in Effects
    PROVE  e[1] \in RCBs /\ e = <<e[1], e[2]>> /\ e[2] \in {"resv", "params", "enable"}
BY DEF Effects, Kinds

LEMMA PresentUnchanged == UNCHANGED devVars => Present' = Present
BY DEF devVars, Present

LEMMA PresentAfterEnd == DeviceType /\ AssociationEnds => Present' \subseteq Present
<1> SUFFICES ASSUME DeviceType, AssociationEnds, NEW e \in Present' PROVE e \in Present
  OBVIOUS
<1>1. e \in Effects /\ e[1] \in RCBs
  BY EffectKinds DEF Present
<1>2. NoOne # Me
  BY ConstantsAssumption
<1>3. QED
  BY <1>1, <1>2 DEF Present, AssociationEnds, DeviceType

(* A new owner: only this tool's taking an RCB is an effect of this tool. *)
LEMMA PresentAfterTaking ==
    ASSUME DeviceType, NEW r \in RCBs, NEW c
    PROVE  /\ SetResv(r, c) => Present' \subseteq Present \cup {<<r, "resv">>}
           /\ EnableFor(r, c) /\ r \notin Buffered => Present' \subseteq Present \cup {<<r, "enable">>}
           /\ EnableFor(r, c) => Present' \subseteq Present \cup {<<r, "resv">>, <<r, "enable">>}
           /\ c # Me /\ (SetResv(r, c) \/ EnableFor(r, c)) => Present' \subseteq Present
<1> SUFFICES ASSUME NEW e \in Present'
    PROVE  /\ SetResv(r, c) => e \in Present \cup {<<r, "resv">>}
           /\ EnableFor(r, c) /\ r \notin Buffered => e \in Present \cup {<<r, "enable">>}
           /\ EnableFor(r, c) => e \in Present \cup {<<r, "resv">>, <<r, "enable">>}
           /\ c # Me /\ (SetResv(r, c) \/ EnableFor(r, c)) => e \in Present
  OBVIOUS
<1>1. e \in Effects /\ e[1] \in RCBs /\ e = <<e[1], e[2]>>
  BY EffectKinds DEF Present
<1>2. SetResv(r, c) => e \in Present \cup {<<r, "resv">>}
  BY <1>1 DEF Present, SetResv, DeviceType
<1>3. EnableFor(r, c) /\ r \notin Buffered => e \in Present \cup {<<r, "enable">>}
  BY <1>1 DEF Present, EnableFor, DeviceType
<1>4. EnableFor(r, c) => e \in Present \cup {<<r, "resv">>, <<r, "enable">>}
  BY <1>1 DEF Present, EnableFor, DeviceType
<1>5. c # Me /\ (SetResv(r, c) \/ EnableFor(r, c)) => e \in Present
  BY <1>1 DEF Present, SetResv, EnableFor, DeviceType
<1>6. QED
  BY <1>2, <1>3, <1>4, <1>5

LEMMA PresentAfterUndoing ==
    ASSUME DeviceType, NEW r \in RCBs
    PROVE  /\ SetResv(r, NoOne) => Present' \subseteq Present \ {<<r, "resv">>}
           /\ SetEna(r, NoOne) => Present' \subseteq Present \ {<<r, "enable">>}
           /\ SetParm(r, "found") => Present' \subseteq Present \ {<<r, "params">>}
           /\ SetParm(r, "ours") => Present' \subseteq Present \cup {<<r, "params">>}
           /\ SetParm(r, "ours") /\ parm[r] = "ours" => Present' \subseteq Present
<1> SUFFICES ASSUME NEW e \in Present'
    PROVE  /\ SetResv(r, NoOne) => e \in Present \ {<<r, "resv">>}
           /\ SetEna(r, NoOne) => e \in Present \ {<<r, "enable">>}
           /\ SetParm(r, "found") => e \in Present \ {<<r, "params">>}
           /\ SetParm(r, "ours") => e \in Present \cup {<<r, "params">>}
           /\ SetParm(r, "ours") /\ parm[r] = "ours" => e \in Present
  OBVIOUS
<1>1. e \in Effects /\ e[1] \in RCBs /\ e = <<e[1], e[2]>>
  BY EffectKinds DEF Present
<1>2. NoOne # Me
  BY ConstantsAssumption
<1>3. SetResv(r, NoOne) => e \in Present \ {<<r, "resv">>}
  BY <1>1, <1>2 DEF Present, SetResv, DeviceType
<1>4. SetEna(r, NoOne) => e \in Present \ {<<r, "enable">>}
  BY <1>1, <1>2 DEF Present, SetEna, DeviceType
<1>5. SetParm(r, "found") => e \in Present \ {<<r, "params">>}
  BY <1>1 DEF Present, SetParm, DeviceType
<1>6. SetParm(r, "ours") => e \in Present \cup {<<r, "params">>}
  BY <1>1 DEF Present, SetParm, DeviceType
<1>7. SetParm(r, "ours") /\ parm[r] = "ours" => e \in Present
  BY <1>1 DEF Present, SetParm, DeviceType
<1>8. QED
  BY <1>3, <1>4, <1>5, <1>6, <1>7

-----------------------------------------------------------------------------
(* What one step does to the effects in force: the requests, under Tolerated *)

Tolerated == Faults \cap Harmful = {}

LEMMA ToleratedFaultKinds ==
    ASSUME Tolerated
    PROVE  /\ "late-enable" \notin Faults /\ "interrupt-in-undo" \notin Faults
           /\ "interrupt-in-exit" \notin Faults /\ "loss-in-stop" \notin Faults
           /\ "resubscribe" \notin Faults
BY DEF Tolerated, Harmful

(* At rest and during the handshake nothing is in hand and no note is pending. *)
LEMMA NothingInHand ==
    ASSUME IInv
    PROVE  /\ pc \notin UndoPcs => hand = NoOne /\ notes = {} /\ mode = "idle"
           /\ pc = "take" => hand = NoOne
           /\ pc \in {"undo", "release", "verify"} => hand \in Effects /\ hand # NoOne
           /\ hand = NoOne => Owed = Registered
           /\ hand # NoOne => Owed = Registered \cup {hand}
<1>1. NoOne \notin Effects
  BY ConstantsAssumption DEF Effects, Kinds
<1>2. TypeOK /\ Running
  BY DEF IInv
<1>3. hand = NoOne \/ hand \in Effects
  BY <1>2 DEF TypeOK
<1>4. QED
  BY <1>1, <1>2, <1>3 DEF Running, UndoPcs, Owed

(* The three ways a step can treat the ledger. *)
Recorded == logged \cup notes
Owing == Present' = Present /\ Owed \subseteq Owed' /\ NothingUnrecorded'
Taking == Present' \subseteq Present \cup Owed /\ Owed' = Owed /\ Recorded' = Recorded
Settling == Present' \subseteq Present /\ Owed' \subseteq Owed /\ NothingUnrecorded'

LEMMA LedgerKinds ==
    ASSUME NothingUnrecorded, Owing \/ Taking \/ Settling
    PROVE  Ledger!Next /\ NothingUnrecorded'
<1>1. Taking => NothingUnrecorded'
  BY DEF Taking, NothingUnrecorded, Recorded
<1>2. QED
  BY <1>1 DEF Owing, Taking, Settling, Ledger!Next, Ledger!Owe, Ledger!TakeHold, Ledger!Settle, Ledger!Covered,
              NothingUnrecorded, Recorded

(* A step of the environment, or one between requests: the ledger is not touched. *)
LEMMA ShrinkingSettles ==
    ASSUME NothingUnrecorded, Present' \subseteq Present, UNCHANGED <<cleanups, hand, notes, logged>>
    PROVE  Settling
BY DEF Settling, NothingUnrecorded, Owed, Registered

(* A request that only reads leaves no new effect behind. *)
LEMMA ReadStep ==
    ASSUME DeviceType, NEW o, Carries(o, UNCHANGED devVars)
    PROVE  Present' \subseteq Present
BY PresentAfterEnd, PresentUnchanged DEF Carries

(* While reserving, setting parameters and enabling, the effect that appears is one the registry already holds. *)
LEMMA HandshakeStep ==
    ASSUME IInv, Tolerated, SetReservation \/ SetParams \/ SetEnable
    PROVE  Present' \subseteq Present \cup Registered
<1> USE DEF IInv, TypeOK, Running
<1>1. DeviceType /\ cur \in RCBs
  BY DEF SetReservation, SetParams, SetEnable, SubscribePcs
<1>2. CASE SetReservation
  <2>1. PICK o \in Outcomes(CanReserve(cur), "lost-reply") : Carries(o, SetResv(cur, Me))
    BY <1>2 DEF SetReservation
  <2>2. SetResv(cur, Me) \/ AssociationEnds \/ UNCHANGED devVars
    BY <2>1 DEF Carries
  <2>3. <<cur, "resv">> \in Registered
    BY <1>2 DEF SetReservation, RegisteredFirst
  <2>4. QED
    BY <1>1, <2>2, <2>3, PresentAfterTaking, PresentAfterEnd, PresentUnchanged
<1>3. CASE SetParams
  <2>1. PICK o \in Outcomes(CanSetParams(cur), "lost-reply") : Carries(o, SetParm(cur, "ours"))
    BY <1>3 DEF SetParams
  <2>2. SetParm(cur, "ours") \/ AssociationEnds \/ UNCHANGED devVars
    BY <2>1 DEF Carries
  <2>3. <<cur, "params">> \in Registered
    BY <1>3 DEF SetParams, RegisteredFirst
  <2>4. QED
    BY <1>1, <2>2, <2>3, PresentAfterUndoing, PresentAfterEnd, PresentUnchanged
<1>4. CASE SetEnable
  <2>1. PICK o \in Outcomes(CanEnable(cur), "late-enable") : Carries(o, EnableFor(cur, Me))
    BY <1>4 DEF SetEnable
  <2>2. EnableFor(cur, Me) \/ AssociationEnds \/ UNCHANGED devVars
    BY <2>1 DEF Carries
  <2>3. <<cur, "enable">> \in Registered /\ (cur \in Buffered => <<cur, "resv">> \in Registered)
    BY <1>4 DEF SetEnable, RegisteredFirst
  <2>4. CASE cur \in Buffered
    BY <1>1, <2>2, <2>3, <2>4, PresentAfterTaking, PresentAfterEnd, PresentUnchanged
  <2>5. CASE cur \notin Buffered
    BY <1>1, <2>2, <2>3, <2>5, PresentAfterTaking, PresentAfterEnd, PresentUnchanged
  <2>6. QED
    BY <2>4, <2>5
<1>5. QED
  BY <1>2, <1>3, <1>4

UndoStep ==
    \/ UndoEnable \/ UndoParams \/ UndoReservation
    \/ ReadReservation \/ ReservationUnreachable \/ Release \/ Verify

(* The effect in hand stays in hand, or is noted, or is no longer in force (or an earlier record still names it). *)
Accounted == hand' = hand \/ hand \in notes' \/ hand \notin Present' \/ hand \in logged

LEMMA SettleKeeps ==
    ASSUME NEW l, Settle(l)
    PROVE  /\ Registered' = Registered /\ hand' = NoOne
           /\ logged \subseteq logged' /\ notes \subseteq notes'
           /\ l => hand \in notes'
BY DEF Settle, regVars, Registered

(* A write that undoes: answered, it takes the effect away; otherwise the effect is noted. *)
LEMMA UndoStepAccounts ==
    ASSUME IInv, UndoStep, pc = "undo" /\ hand[2] = "resv" /\ hand[1] \in Buffered /\ link # "up" => mode \in RunModes
    PROVE  /\ Present' \subseteq Present
           /\ Registered' = Registered
           /\ logged \subseteq logged' /\ notes \subseteq notes'
           /\ Accounted
<1> DEFINE r == hand[1]
           Kept == Registered' = Registered /\ logged \subseteq logged' /\ notes \subseteq notes'
<1>1. pc \in {"undo", "release", "verify"}
  BY DEF UndoStep, UndoEnable, UndoParams, UndoReservation, ReadReservation, ReservationUnreachable, Release, Verify
<1>2. DeviceType /\ hand \in Effects /\ r \in RCBs /\ hand = <<r, hand[2]>> /\ orig[r] \in {"found", "ours"}
  BY <1>1, NothingInHand, EffectKinds DEF IInv, TypeOK, ParmValues
<1>3. pc \in {"release", "verify"} => hand = <<r, "resv">>
  BY <1>2 DEF IInv, Running
<1>4. orig[r] = "ours" /\ hand = <<r, "params">> => parm[r] = "ours" /\ hand \in logged
  BY <1>1, <1>2, NothingInHand DEF IInv, LoggedBefore, OwnValueLogged
<1> HIDE DEF r
<1>5. CASE link # "up" /\ Settle(TRUE) /\ UNCHANGED <<devVars, link>>
  BY <1>5, SettleKeeps, PresentUnchanged DEF Accounted
<1>6. CASE UndoEnable /\ link = "up"
  <2>1. PICK o \in Outcomes(CanDisable(r), "lost-reply") : Carries(o, SetEna(r, NoOne)) /\ Settle(Failed(o))
    BY <1>6 DEF UndoEnable, UndoWrite, r
  <2>2. hand = <<r, "enable">>
    BY <1>2, <1>6 DEF UndoEnable
  <2>3. CASE o = "ok"
    <3>1. SetEna(r, NoOne)
      BY <2>1, <2>3 DEF Carries
    <3>2. QED
      BY <1>2, <2>1, <2>2, <3>1, SettleKeeps, PresentAfterUndoing DEF Accounted
  <2>4. CASE o # "ok"
    <3>1. SetEna(r, NoOne) \/ AssociationEnds \/ UNCHANGED devVars
      BY <2>1 DEF Carries
    <3>2. Settle(TRUE)
      BY <2>1, <2>4 DEF Failed
    <3>3. QED
      BY <1>2, <3>1, <3>2, SettleKeeps, PresentAfterUndoing, PresentAfterEnd, PresentUnchanged DEF Accounted
  <2>5. QED
    BY <2>3, <2>4
<1>7. CASE UndoParams /\ link = "up"
  <2>1. PICK o \in Outcomes(CanSetParams(r), "lost-reply") : Carries(o, SetParm(r, orig[r])) /\ Settle(Failed(o))
    BY <1>7 DEF UndoParams, UndoWrite, r
  <2>2. hand = <<r, "params">>
    BY <1>2, <1>7 DEF UndoParams
  <2>3. SetParm(r, orig[r]) \/ AssociationEnds \/ UNCHANGED devVars
    BY <2>1 DEF Carries
  <2>4. Present' \subseteq Present
    <3>1. CASE orig[r] = "found"
      BY <1>2, <2>3, <3>1, PresentAfterUndoing, PresentAfterEnd, PresentUnchanged
    <3>2. CASE orig[r] = "ours"
      BY <1>2, <1>4, <2>2, <2>3, <3>2, PresentAfterUndoing, PresentAfterEnd, PresentUnchanged
    <3>3. QED
      BY <1>2, <3>1, <3>2
  <2>5. Accounted
    <3>1. CASE o = "ok"
      <4>1. SetParm(r, orig[r])
        BY <2>1, <3>1 DEF Carries
      <4>2. QED
        BY <1>2, <1>4, <2>2, <4>1, PresentAfterUndoing DEF Accounted
    <3>2. CASE o # "ok"
      BY <2>1, <3>2, SettleKeeps DEF Accounted, Failed
    <3>3. QED
      BY <3>1, <3>2
  <2>6. QED
    BY <2>1, <2>4, <2>5, SettleKeeps
<1>8. CASE UndoReservation /\ link = "up"
  <2>1. PICK o \in Outcomes(CanUnreserve(r), "lost-reply") : Carries(o, SetResv(r, NoOne)) /\ Settle(Failed(o))
    BY <1>8 DEF UndoReservation, UndoWrite, r
  <2>2. hand = <<r, "resv">>
    BY <1>2, <1>8 DEF UndoReservation
  <2>3. CASE o = "ok"
    <3>1. SetResv(r, NoOne)
      BY <2>1, <2>3 DEF Carries
    <3>2. QED
      BY <1>2, <2>1, <2>2, <3>1, SettleKeeps, PresentAfterUndoing DEF Accounted
  <2>4. CASE o # "ok"
    <3>1. SetResv(r, NoOne) \/ AssociationEnds \/ UNCHANGED devVars
      BY <2>1 DEF Carries
    <3>2. Settle(TRUE)
      BY <2>1, <2>4 DEF Failed
    <3>3. QED
      BY <1>2, <3>1, <3>2, SettleKeeps, PresentAfterUndoing, PresentAfterEnd, PresentUnchanged DEF Accounted
  <2>5. QED
    BY <2>3, <2>4
<1>9. CASE ReadReservation
  <2>1. PICK o \in Answers : Carries(o, UNCHANGED devVars)
                            /\ (Settle(TRUE) \/ UNCHANGED <<regVars, subs, jobVars, undoVars, recVars>>)
    BY <1>9 DEF ReadReservation
  <2>2. Present' \subseteq Present
    BY <1>2, <2>1, ReadStep
  <2>3. QED
    BY <2>1, <2>2, SettleKeeps DEF Accounted, regVars, undoVars, recVars, Registered
<1>10. CASE ReservationUnreachable
  BY <1>10, SettleKeeps, PresentUnchanged DEF ReservationUnreachable, Accounted
<1>11. CASE Release /\ link = "up"
  <2>1. PICK o \in Outcomes(TRUE, "lost-reply"), ignored \in {FALSE} \cup {"ignored-release" \in Faults} :
            /\ Carries(o, IF ignored THEN UNCHANGED devVars ELSE SetResv(r, NoOne))
            /\ Settle(TRUE) \/ UNCHANGED <<regVars, subs, jobVars, undoVars, recVars>>
    BY <1>11 DEF Release, r
  <2>2. SetResv(r, NoOne) \/ AssociationEnds \/ UNCHANGED devVars
    BY <2>1 DEF Carries
  <2>3. Present' \subseteq Present
    BY <1>2, <2>2, PresentAfterUndoing, PresentAfterEnd, PresentUnchanged
  <2>4. QED
    BY <2>1, <2>3, SettleKeeps DEF Accounted, regVars, undoVars, recVars, Registered
<1>12. CASE Verify /\ link = "up"
  <2>1. PICK o \in Answers : Carries(o, UNCHANGED devVars) /\ Settle(Failed(o) \/ resv[r] = Me)
    BY <1>12 DEF Verify, r
  <2>2. Present' \subseteq Present
    BY <1>2, <2>1, ReadStep
  <2>3. resv[r] # Me => hand \notin Present
    BY <1>3, <1>12 DEF Present, Verify
  <2>4. Accounted
    <3>1. CASE resv[r] = Me
      BY <2>1, <3>1, SettleKeeps DEF Accounted
    <3>2. CASE resv[r] # Me
      BY <2>2, <2>3, <3>2 DEF Accounted
    <3>3. QED
      BY <3>1, <3>2
  <2>5. QED
    BY <2>1, <2>2, <2>4, SettleKeeps
<1>13. QED
  BY <1>5, <1>6, <1>7, <1>8, <1>9, <1>10, <1>11, <1>12
     DEF UndoStep, UndoEnable, UndoParams, UndoReservation, UndoWrite, Release, Verify

(* Registering an action is a commitment, and strikes out only records of what is not in force. *)
LEMMA RegisteringOwes ==
    ASSUME TypeOK, NothingUnrecorded, NEW e \in Effects, RegisterCleanup(e), UNCHANGED <<devVars, hand, notes>>
    PROVE  Owing
<1>1. /\ Registered' = Registered \cup {e}
      /\ logged \ {e} \subseteq logged'
  BY RegisterKeys
<1>2. Present' = Present
  BY PresentUnchanged
<1>3. Owed \subseteq Owed' /\ e \in Owed'
  <2>1. e # NoOne
    BY ConstantsAssumption DEF Effects, Kinds
  <2>2. QED
    BY <1>1, <2>1 DEF Owed
<1>4. QED
  BY <1>1, <1>2, <1>3 DEF Owing, NothingUnrecorded

RegisteringStep == RegisterReservation \/ RegisterParams \/ RegisterEnable

(* Every step of the session owes, which only registering does, takes hold of what is owed, or settles. *)
LEMMA LedgerCases ==
    ASSUME IInv, Tolerated, [Next]_vars
    PROVE  (RegisteringStep /\ Owing) \/ Taking \/ Settling
<1> USE DEF RegisteringStep
<1>a. TypeOK /\ NothingUnrecorded /\ Running /\ DeviceType
  BY DEF IInv, TypeOK
<1>b. \A r \in RCBs, k \in Kinds : <<r, k>> \in Effects
  BY DEF Effects
<1>c. "resv" \in Kinds /\ "params" \in Kinds /\ "enable" \in Kinds
  BY DEF Kinds
<1>d. pc \notin UndoPcs \/ pc = "take" => hand = NoOne /\ Owed = Registered
  BY NothingInHand
<1>e. pc \notin UndoPcs => notes = {}
  BY NothingInHand
<1>1. CASE Connect \/ CommandWithoutLink \/ Disconnect \/ Exit \/ NewProcess \/ StopShowing
           \/ \E r \in RCBs : Subscribe(r) \/ Resume(r) \/ StopCommand(r)
  <2>1. UNCHANGED <<devVars, cleanups, hand, notes, logged>>
    BY <1>1 DEF Connect, CommandWithoutLink, Disconnect, Exit, NewProcess, StopShowing, Subscribe, Resume, StopCommand,
                regVars, undoVars, recVars
  <2>2. QED
    BY <1>a, <2>1, PresentUnchanged, ShrinkingSettles
<1>2. CASE Reconnect \/ CheckConnection
  <2>1. Present' = Present /\ hand = NoOne /\ hand' = NoOne /\ notes' = notes
    BY <1>2, <1>d, PresentUnchanged DEF Reconnect, CheckConnection, undoVars, UndoPcs
  <2>2. \/ cleanups' = <<>> /\ logged' = logged \cup Registered
        \/ UNCHANGED <<cleanups, logged>>
    BY <1>2 DEF Reconnect, CheckConnection, recVars
  <2>3. CASE cleanups' = <<>> /\ logged' = logged \cup Registered
    <3>1. Registered' = {} /\ Owed' = {}
      BY <2>1, <2>3 DEF Registered, ToSet, Owed
    <3>2. Owed = Registered
      BY <1>2, <1>d DEF Reconnect, CheckConnection, UndoPcs
    <3>3. QED
      BY <1>a, <2>1, <2>3, <3>1, <3>2 DEF Settling, NothingUnrecorded
  <2>4. CASE UNCHANGED <<cleanups, logged>>
    BY <1>a, <2>1, <2>4, ShrinkingSettles
  <2>5. QED
    BY <2>2, <2>3, <2>4
<1>3. CASE RegisterReservation
  <2>1. cur \in RCBs /\ UNCHANGED <<devVars, hand, notes>>
    BY <1>3, <1>a DEF RegisterReservation, Running, SubscribePcs, undoVars
  <2>2. RegisterCleanup(<<cur, "resv">>) \/ UNCHANGED <<cleanups, logged>>
    BY <1>3 DEF RegisterReservation, recVars
  <2>3. QED
    BY <1>3, <1>a, <1>b, <1>c, <2>1, <2>2, RegisteringOwes, ShrinkingSettles, PresentUnchanged
<1>4. CASE RegisterParams
  <2>1. cur \in RCBs /\ UNCHANGED <<devVars, hand, notes>>
    BY <1>4, <1>a DEF RegisterParams, Running, SubscribePcs, undoVars
  <2>2. RegisterCleanup(<<cur, "params">>) \/ UNCHANGED <<cleanups, logged>>
    BY <1>4 DEF RegisterParams, regVars, recVars
  <2>3. QED
    BY <1>4, <1>a, <1>b, <1>c, <2>1, <2>2, RegisteringOwes, ShrinkingSettles, PresentUnchanged
<1>5. CASE RegisterEnable
  <2>1. cur \in RCBs /\ UNCHANGED <<devVars, hand, notes>>
    BY <1>5, <1>a DEF RegisterEnable, Running, SubscribePcs, undoVars
  <2>2. RegisterCleanup(<<cur, "enable">>)
    BY <1>5 DEF RegisterEnable
  <2>3. QED
    BY <1>5, <1>a, <1>b, <1>c, <2>1, <2>2, RegisteringOwes
<1>6. CASE SetReservation \/ SetParams
  <2>1. Present' \subseteq Present \cup Owed
    BY <1>6, HandshakeStep DEF Owed
  <2>2. hand = NoOne /\ notes = {} /\ hand' = NoOne /\ notes' = {}
    BY <1>6, <1>d, <1>e DEF SetReservation, SetParams, CommandEnds, Forget, undoVars, UndoPcs
  <2>3. UNCHANGED <<cleanups, logged>>
    BY <1>6 DEF SetReservation, SetParams, regVars, recVars
  <2>4. QED
    BY <2>1, <2>2, <2>3 DEF Taking, Owed, Registered, Recorded
<1>7. CASE SetEnable
  <2>1. Present' \subseteq Present \cup Owed
    BY <1>7, HandshakeStep DEF Owed
  <2>2. hand = NoOne /\ notes = {} /\ hand' = NoOne /\ notes' = {} /\ logged' = logged /\ Owed = Registered
    BY <1>7, <1>d, <1>e DEF SetEnable, undoVars, UndoPcs, recVars
  <2>3. PICK o \in Outcomes(CanEnable(cur), "late-enable") :
            /\ Carries(o, EnableFor(cur, Me))
            /\ IF Failed(o) THEN DropCleanup(<<cur, "enable">>) ELSE UNCHANGED cleanups
    BY <1>7 DEF SetEnable
  <2>4. CASE o = "ok"
    BY <2>1, <2>2, <2>3, <2>4 DEF Taking, Owed, Registered, Recorded, Failed
  <2>5. CASE o # "ok"
    <3>1. o # "late"
      BY ToleratedFaultKinds DEF Outcomes
    <3>2. Present' \subseteq Present
      BY <1>a, <2>3, <2>5, <3>1, PresentAfterEnd, PresentUnchanged DEF Carries
    <3>3. DropCleanup(<<cur, "enable">>)
      BY <2>3, <2>5 DEF Failed
    <3>4. Registered' \subseteq Registered /\ Registered \ {<<cur, "enable">>} \subseteq Registered'
      BY <1>a, <3>3, DropKeys
    <3>5. <<cur, "enable">> \in Present => <<cur, "enable">> \in logged
      BY <1>7 DEF IInv, LoggedBefore, EnabledEarlier, SetEnable, SubscribePcs, Present
    <3>6. Owed' = Registered'
      BY <2>2 DEF Owed
    <3>7. QED
      BY <1>a, <2>2, <3>2, <3>4, <3>5, <3>6 DEF Settling, NothingUnrecorded
  <2>6. QED
    BY <2>4, <2>5
<1>8. CASE Purge \/ NotConnected \/ AfterEnable \/ KeepSubscription \/ Interrupt
  <2>1. pc \notin UndoPcs /\ UNCHANGED <<cleanups, logged>>
    BY <1>8 DEF Purge, NotConnected, AfterEnable, KeepSubscription, Interrupt, UndoPcs, SubscribePcs, regVars, recVars
  <2>2. CommandEnds \/ UNCHANGED undoVars
    BY <1>8 DEF Purge, NotConnected, AfterEnable, KeepSubscription, Interrupt
  <2>3. hand' = hand /\ notes' = notes
    BY <1>d, <1>e, <2>1, <2>2 DEF CommandEnds, Forget, undoVars
  <2>4. UNCHANGED devVars \/ \E o : Carries(o, UNCHANGED devVars)
    BY <1>8 DEF Purge, NotConnected, AfterEnable, KeepSubscription, Interrupt
  <2>5. Present' \subseteq Present
    BY <1>a, <2>4, ReadStep, PresentUnchanged
  <2>6. QED
    BY <1>a, <2>1, <2>3, <2>5, ShrinkingSettles
<1>9. CASE StopTake
  <2> DEFINE e == <<cur, StopOrder[next]>>
  <2>1. pc = "take" /\ hand = NoOne /\ Owed = Registered /\ Present' = Present /\ logged' = logged
    BY <1>9, <1>d, PresentUnchanged DEF StopTake, recVars
  <2>2. CASE e \notin Registered
    <3>1. UNCHANGED <<cleanups, hand, notes>>
      BY <1>9, <2>2 DEF StopTake
    <3>2. QED
      BY <1>a, <2>1, <3>1, ShrinkingSettles
  <2>3. CASE e \in Registered
    <3>1. DropCleanup(e)
      BY <1>9, <2>3 DEF StopTake
    <3>2. \/ notes' = notes \cup {e} /\ hand' = hand
          \/ hand' = e /\ notes' = notes
      BY <1>9, <2>3 DEF StopTake
    <3> HIDE DEF e
    <3>3. Registered' \subseteq Registered /\ Registered \ {e} \subseteq Registered'
      BY <1>a, <3>1, DropKeys
    <3>4. e # NoOne
      BY <1>a, <2>3, RegisteredType, ConstantsAssumption DEF Effects, Kinds
    <3>5. \/ Owed' = Registered' /\ notes' = notes \cup {e}
          \/ Owed' = Registered' \cup {e} /\ notes' = notes
      BY <2>1, <3>2, <3>4 DEF Owed
    <3>6. QED
      BY <1>a, <2>1, <2>3, <3>3, <3>5 DEF Settling, NothingUnrecorded
  <2>4. QED
    BY <2>2, <2>3
<1>10. CASE StopFinish
  <2>1. hand = NoOne /\ hand' = NoOne /\ cleanups' = cleanups /\ logged' = logged \cup notes
    BY <1>10, <1>d DEF StopFinish, CommandEnds, Forget, regVars
  <2>2. Present' = Present
    BY <1>10, PresentUnchanged DEF StopFinish
  <2>3. QED
    BY <1>a, <2>1, <2>2 DEF Settling, NothingUnrecorded, Owed, Registered
<1>11. CASE RunTake
  <2> DEFINE e == Last(cleanups)
  <2>1. pc = "take" /\ hand = NoOne /\ Owed = Registered /\ Present' = Present
    BY <1>11, <1>d, PresentUnchanged DEF RunTake
  <2>2. \/ hand' = e /\ notes' = notes /\ logged' = logged
        \/ hand' = hand /\ notes' = notes \cup {e} /\ logged' = logged \cup {e}
    BY <1>11 DEF RunTake
  <2>3. /\ Registered' \subseteq Registered
        /\ Registered \subseteq Registered' \cup {e}
        /\ e \in Effects
    BY <1>11, <1>a, FrontOfRegistry, RegisteredType DEF RunTake
  <2>4. e # NoOne /\ e \in Registered
    <3>1. e # NoOne
      BY <2>3, ConstantsAssumption DEF Effects, Kinds
    <3>2. Len(cleanups) \in DOMAIN cleanups
      BY <1>11, <1>a DEF RunTake, TypeOK
    <3>3. QED
      BY <3>1, <3>2 DEF Registered, ToSet, Last
  <2> HIDE DEF e
  <2>5. \/ Owed' = Registered' \cup {e}
        \/ Owed' = Registered' /\ e \in logged'
    BY <2>1, <2>2, <2>4 DEF Owed
  <2>6. logged \cup notes \subseteq logged' \cup notes'
    BY <2>2
  <2>7. QED
    BY <1>a, <2>1, <2>3, <2>4, <2>5, <2>6 DEF Settling, NothingUnrecorded
<1>12. CASE RunFinish
  <2>1. hand = NoOne /\ hand' = NoOne /\ cleanups' = cleanups /\ logged' = logged /\ notes' = {}
    BY <1>12, <1>d DEF RunFinish, Forget, regVars
  <2>2. notes \subseteq logged
    BY <1>12 DEF RunFinish, IInv, LoggedBefore, NotesLogged
  <2>3. Present' \subseteq Present
    BY <1>12, <1>a, PresentAfterEnd DEF RunFinish
  <2>4. QED
    BY <1>a, <2>1, <2>2, <2>3 DEF Settling, NothingUnrecorded, Owed, Registered
<1>13. CASE UndoStep
  <2>1. pc = "undo" /\ hand[2] = "resv" /\ hand[1] \in Buffered /\ link # "up" => mode \in RunModes
    BY <1>a DEF IInv, Reachable, Running, UndoPcs, TypeOK
  <2>2. /\ Present' \subseteq Present
        /\ Registered' = Registered
        /\ logged \subseteq logged' /\ notes \subseteq notes'
        /\ Accounted
    BY <1>13, <2>1, UndoStepAccounts
  <2>3. hand' = hand \/ hand' = NoOne
    <3>1. CASE UNCHANGED undoVars
      BY <3>1 DEF undoVars
    <3>2. CASE \E l \in BOOLEAN : Settle(l)
      BY <3>2, SettleKeeps
    <3>3. CASE CommandEnds
      BY <3>3 DEF CommandEnds, Forget
    <3>4. QED
      BY <1>13, <3>1, <3>2, <3>3
         DEF UndoStep, UndoEnable, UndoParams, UndoReservation, UndoWrite, ReadReservation, ReservationUnreachable,
             Release, Verify, Failed
  <2>4. Owed' \subseteq Owed /\ Owed \subseteq Owed' \cup {hand}
    BY <2>2, <2>3 DEF Owed
  <2>5. QED
    <3>1. CASE hand' = hand
      BY <1>a, <2>2, <3>1 DEF Settling, NothingUnrecorded, Owed
    <3>2. CASE hand' # hand
      BY <1>a, <2>2, <2>4, <3>2 DEF Settling, NothingUnrecorded, Accounted
    <3>3. QED
      BY <3>1, <3>2
<1>14. CASE Lose
  BY <1>14, <1>a, PresentAfterEnd, ShrinkingSettles DEF Lose, regVars, undoVars, recVars
<1>15. CASE InterruptUndo \/ InterruptExit
  BY <1>15, ToleratedFaultKinds DEF InterruptUndo, InterruptExit
<1>16. ASSUME NEW r \in RCBs, NEW c \in Others, OtherTakes(r, c)
       PROVE  Taking \/ Settling
  <2>1. c # Me /\ (SetResv(r, c) \/ EnableFor(r, c)) /\ UNCHANGED <<regVars, undoVars, recVars>>
    BY <1>16, ConstantsAssumption DEF OtherTakes
  <2>2. Present' \subseteq Present
    BY <1>a, <2>1, PresentAfterTaking
  <2>3. QED
    BY <1>a, <2>1, <2>2, ShrinkingSettles DEF regVars, undoVars, recVars
<1>17. ASSUME NEW r \in RCBs, NEW c \in Others, OtherLeaves(r, c)
       PROVE  Taking \/ Settling
  <2>1. Present' \subseteq Present
    <3> SUFFICES ASSUME NEW e \in Present' PROVE e \in Present
      OBVIOUS
    <3>1. e \in Effects /\ e[1] \in RCBs
      BY EffectKinds DEF Present
    <3>2. NoOne # Me
      BY ConstantsAssumption
    <3>3. QED
      BY <1>17, <1>a, <3>1, <3>2 DEF Present, OtherLeaves, DeviceType
  <2>2. QED
    BY <1>17, <1>a, <2>1, ShrinkingSettles DEF OtherLeaves, regVars, undoVars, recVars
<1>18. ASSUME NEW r \in RCBs, ReservationExpires(r)
       PROVE  Taking \/ Settling
  <2>1. Present' \subseteq Present
    BY <1>18, <1>a, PresentAfterUndoing DEF ReservationExpires
  <2>2. QED
    BY <1>18, <1>a, <2>1, ShrinkingSettles DEF ReservationExpires, regVars, undoVars, recVars
<1>19. CASE UNCHANGED vars
  BY <1>19, <1>a, PresentUnchanged, ShrinkingSettles DEF vars, regVars, undoVars, recVars
<1>20. QED
  BY <1>1, <1>2, <1>3, <1>4, <1>5, <1>6, <1>7, <1>8, <1>9, <1>10, <1>11, <1>12, <1>13, <1>14, <1>15, <1>16, <1>17,
     <1>18, <1>19
     DEF Next, Command, Handshake, Undoing, Environment, UndoStep

LEMMA LedgerStep ==
    ASSUME IInv, Tolerated, [Next]_vars
    PROVE  Ledger!Next /\ NothingUnrecorded'
BY LedgerCases, LedgerKinds DEF IInv

-----------------------------------------------------------------------------
(* The other parts of the inductive invariant *)

(* The steps that leave the thread and its session as they are. *)
EnvironmentStep ==
    \/ Lose
    \/ \E r \in RCBs, c \in Others : OtherTakes(r, c) \/ OtherLeaves(r, c)
    \/ \E r \in RCBs : ReservationExpires(r)
    \/ UNCHANGED vars

LEMMA EnvironmentKeeps ==
    ASSUME EnvironmentStep
    PROVE  UNCHANGED <<regVars, subs, pc, jobVars, undoVars, recVars, parm>>
BY DEF EnvironmentStep, Lose, OtherTakes, OtherLeaves, ReservationExpires, AssociationEnds, SetResv, EnableFor, vars, devVars

(* The steps that start a procedure, or leave one: none of them is in the handshake afterwards. *)
Commands ==
    \/ Connect \/ Reconnect \/ CommandWithoutLink \/ CheckConnection \/ Disconnect \/ Exit \/ NewProcess
    \/ StopShowing \/ KeepSubscription \/ NotConnected \/ Interrupt
    \/ \E r \in RCBs : Resume(r) \/ StopCommand(r)

Subscribes == \E r \in RCBs : Subscribe(r)
RequestStep == SetReservation \/ SetParams \/ Purge \/ SetEnable \/ AfterEnable
TakeStep == StopTake \/ StopFinish \/ RunTake \/ RunFinish

LEMMA StepKinds ==
    ASSUME Tolerated, [Next]_vars
    PROVE  \/ EnvironmentStep \/ Commands \/ Subscribes \/ RegisteringStep \/ RequestStep \/ TakeStep \/ UndoStep
BY ToleratedFaultKinds
   DEF Next, Command, Handshake, Undoing, Environment, EnvironmentStep, Commands, Subscribes, RegisteringStep,
       RequestStep, TakeStep, UndoStep, InterruptUndo, InterruptExit

WritingPcs == {"set_resv", "params", "set_params", "purge", "enable", "set_enable"}

LEMMA PcAfter ==
    /\ Commands => pc' \notin SubscribePcs
    /\ TakeStep => pc' \in {"take", "undo", "boundary", "exited"}
    /\ UndoStep => pc' \in {"take", "release", "verify", "boundary"}
    /\ AfterEnable => pc' \in {"showing", "boundary"}
    /\ SetEnable => pc' \in {"after", "take"}
<1>1. Commands => pc' \notin SubscribePcs
  BY DEF Commands, Connect, Reconnect, CommandWithoutLink, CheckConnection, Disconnect, Exit, NewProcess, StopShowing,
         KeepSubscription, NotConnected, Interrupt, Resume, StopCommand, CommandEnds, SubscribePcs
<1>2. TakeStep => pc' \in {"take", "undo", "boundary", "exited"}
  BY DEF TakeStep, StopTake, StopFinish, RunTake, RunFinish, CommandEnds
<1>3. UndoStep => pc' \in {"take", "release", "verify", "boundary"}
  <2>1. \A l : Settle(l) => pc' = "take"
    BY DEF Settle
  <2>2. UndoEnable \/ UndoParams \/ UndoReservation => pc' = "take"
    BY <2>1 DEF UndoEnable, UndoParams, UndoReservation, UndoWrite
  <2>3. ReadReservation => pc' \in {"take", "release", "verify"}
    BY <2>1 DEF ReadReservation
  <2>4. ReservationUnreachable => pc' \in {"take", "boundary"}
    BY <2>1 DEF ReservationUnreachable, CommandEnds
  <2>5. Release \/ Verify => pc' \in {"take", "verify"}
    BY <2>1 DEF Release, Verify
  <2>6. QED
    BY <2>2, <2>3, <2>4, <2>5 DEF UndoStep
<1>4. AfterEnable => pc' \in {"showing", "boundary"}
  BY DEF AfterEnable, CommandEnds
<1>5. SetEnable => pc' \in {"after", "take"}
  BY DEF SetEnable
<1>6. QED
  BY <1>1, <1>2, <1>3, <1>4, <1>5

(* What the next request will change has been registered. *)
LEMMA RegisteredFirstStep ==
    ASSUME IInv, Tolerated, [Next]_vars
    PROVE  RegisteredFirst'
<1>a. TypeOK /\ Running /\ RegisteredFirst
  BY DEF IInv
<1>b. \A r \in RCBs, k \in Kinds : <<r, k>> \in Effects
  BY DEF Effects
<1>c. "resv" \in Kinds /\ "params" \in Kinds /\ "enable" \in Kinds
  BY DEF Kinds
<1>d. pc' \notin WritingPcs => RegisteredFirst'
  BY DEF WritingPcs, RegisteredFirst
<1>1. CASE EnvironmentStep
  BY <1>1, <1>a, EnvironmentKeeps DEF RegisteredFirst, Registered, regVars, jobVars
<1>2. CASE Commands \/ TakeStep \/ UndoStep \/ AfterEnable \/ SetEnable
  BY <1>2, <1>d, PcAfter DEF WritingPcs, SubscribePcs
<1>3. CASE Subscribes
  BY <1>3, <1>d DEF Subscribes, Subscribe, WritingPcs
<1>4. CASE RegisterReservation
  <2>1. cur \in RCBs /\ cur' = cur /\ pc' \in {"set_resv", "params"}
    BY <1>4, <1>a DEF RegisterReservation, Running, SubscribePcs, jobVars
  <2>2. (cur \in Buffered \/ pc' = "set_resv") => <<cur, "resv">> \in Registered'
    BY <1>4, <1>a, <1>b, <1>c, <2>1, RegisterKeys DEF RegisterReservation
  <2>3. QED
    BY <2>1, <2>2 DEF RegisteredFirst
<1>5. CASE RegisterParams
  <2>1. cur \in RCBs /\ cur' = cur /\ pc' \in {"set_params", "purge"}
    BY <1>5, <1>a DEF RegisterParams, Running, SubscribePcs, jobVars
  <2>2. /\ Registered \subseteq Registered'
        /\ pc' = "set_params" => <<cur, "params">> \in Registered'
    BY <1>5, <1>a, <1>b, <1>c, <2>1, RegisterKeys DEF RegisterParams, regVars, Registered
  <2>3. cur \in Buffered => <<cur, "resv">> \in Registered
    BY <1>5, <1>a DEF RegisterParams, RegisteredFirst
  <2>4. QED
    BY <2>1, <2>2, <2>3 DEF RegisteredFirst
<1>6. CASE RegisterEnable
  <2>1. cur \in RCBs /\ cur' = cur /\ pc' = "set_enable"
    BY <1>6, <1>a DEF RegisterEnable, Running, SubscribePcs, jobVars
  <2>2. Registered \subseteq Registered' /\ <<cur, "enable">> \in Registered'
    BY <1>6, <1>a, <1>b, <1>c, <2>1, RegisterKeys DEF RegisterEnable
  <2>3. cur \in Buffered => <<cur, "resv">> \in Registered
    BY <1>6, <1>a DEF RegisterEnable, RegisteredFirst
  <2>4. QED
    BY <2>1, <2>2, <2>3 DEF RegisteredFirst
<1>7. CASE SetReservation \/ SetParams \/ Purge
  <2>1. cleanups' = cleanups
    BY <1>7 DEF SetReservation, SetParams, Purge, regVars
  <2>2. CASE pc' = "boundary"
    BY <1>d, <2>2 DEF WritingPcs
  <2>3. CASE pc' # "boundary"
    <3>1. pc' \in {"params", "purge", "enable"} /\ cur' = cur
      BY <1>7, <2>3 DEF SetReservation, SetParams, Purge, CommandEnds, jobVars
    <3>2. cur \in Buffered => <<cur, "resv">> \in Registered
      BY <1>7, <1>a DEF SetReservation, SetParams, Purge, RegisteredFirst
    <3>3. QED
      BY <2>1, <3>1, <3>2 DEF RegisteredFirst, Registered
  <2>4. QED
    BY <2>2, <2>3
<1>8. QED
  BY <1>1, <1>2, <1>3, <1>4, <1>5, <1>6, <1>7, StepKinds DEF RegisteringStep, RequestStep

(* Subscription.stop does not lose the association between its connected check and the read of a BRCB's owner. *)
LEMMA ReachableStep ==
    ASSUME IInv, Tolerated, [Next]_vars
    PROVE  Reachable'
<1>a. pc' # "undo" => Reachable'
  BY DEF Reachable
<1>1. CASE EnvironmentStep
  <2>1. pc' = pc /\ mode' = mode /\ hand' = hand
    BY <1>1, EnvironmentKeeps DEF undoVars
  <2>2. CASE Lose
    BY <2>1, <2>2, ToleratedFaultKinds DEF Lose, Reachable
  <2>3. CASE ~Lose
    <3>1. link' = link
      BY <1>1, <2>3 DEF EnvironmentStep, OtherTakes, OtherLeaves, ReservationExpires, vars
    <3>2. QED
      BY <2>1, <3>1 DEF IInv, Reachable
  <2>4. QED
    BY <2>2, <2>3
<1>2. CASE Commands \/ Subscribes \/ RegisteringStep \/ RequestStep \/ UndoStep
  <2>1. Commands => pc' # "undo"
    BY DEF Commands, Connect, Reconnect, CommandWithoutLink, CheckConnection, Disconnect, Exit, NewProcess, StopShowing,
           KeepSubscription, NotConnected, Interrupt, Resume, StopCommand, CommandEnds
  <2>2. Subscribes \/ RegisteringStep => pc' # "undo"
    BY DEF Subscribes, Subscribe, RegisteringStep, RegisterReservation, RegisterParams, RegisterEnable
  <2>3. RequestStep => pc' # "undo"
    BY PcAfter DEF RequestStep, SetReservation, SetParams, Purge, CommandEnds
  <2>4. QED
    BY <1>2, <1>a, <2>1, <2>2, <2>3, PcAfter
<1>3. CASE StopTake
  BY <1>3 DEF StopTake, Reachable
<1>4. CASE RunTake
  BY <1>4 DEF RunTake, Reachable, RunModes, StopModes
<1>5. CASE StopFinish \/ RunFinish
  BY <1>5, <1>a DEF StopFinish, RunFinish, CommandEnds
<1>6. QED
  BY <1>1, <1>2, <1>3, <1>4, <1>5, StepKinds DEF TakeStep

(* A note of Session.run_cleanups is logged at once. *)
LEMMA NotesLoggedStep ==
    ASSUME IInv, Tolerated, [Next]_vars
    PROVE  NotesLogged'
<1>a. NotesLogged /\ Running
  BY DEF IInv, LoggedBefore
<1>b. pc \notin UndoPcs => notes = {} /\ mode = "idle"
  BY NothingInHand
<1>1. CASE EnvironmentStep
  BY <1>1, <1>a, EnvironmentKeeps DEF NotesLogged, undoVars, recVars
<1>2. CASE pc \notin UndoPcs /\ notes' = notes
  BY <1>2, <1>b DEF NotesLogged
<1>3. CASE Commands \/ Subscribes \/ RegisteringStep \/ RequestStep
  <2>1. pc \notin UndoPcs
    BY <1>3 DEF Commands, Connect, Reconnect, CommandWithoutLink, CheckConnection, Disconnect, Exit, NewProcess,
                StopShowing, KeepSubscription, NotConnected, Interrupt, Resume, StopCommand, Subscribes, Subscribe,
                RegisteringStep, RegisterReservation, RegisterParams, RegisterEnable, RequestStep, SetReservation,
                SetParams, Purge, SetEnable, AfterEnable, UndoPcs, SubscribePcs
  <2>2. CommandEnds \/ notes' = notes
    BY <1>3 DEF Commands, Connect, Reconnect, CommandWithoutLink, CheckConnection, Disconnect, Exit, NewProcess,
                StopShowing, KeepSubscription, NotConnected, Interrupt, Resume, StopCommand, Subscribes, Subscribe,
                RegisteringStep, RegisterReservation, RegisterParams, RegisterEnable, RequestStep, SetReservation,
                SetParams, Purge, SetEnable, AfterEnable, undoVars
  <2>3. QED
    BY <1>b, <1>2, <2>1, <2>2 DEF CommandEnds, Forget
<1>4. CASE StopTake
  BY <1>4 DEF StopTake, NotesLogged, StopModes, RunModes
<1>5. CASE RunTake
  BY <1>5, <1>a DEF RunTake, NotesLogged
<1>6. CASE StopFinish \/ RunFinish
  BY <1>6 DEF StopFinish, RunFinish, CommandEnds, Forget, NotesLogged, RunModes
<1>7. CASE UndoStep
  <2>1. CASE \E l \in BOOLEAN : Settle(l)
    BY <1>a, <2>1 DEF Settle, NotesLogged
  <2>2. CASE UNCHANGED <<undoVars, recVars>>
    BY <1>a, <2>2 DEF undoVars, recVars, NotesLogged
  <2>3. CASE CommandEnds
    BY <2>3 DEF CommandEnds, Forget, NotesLogged, RunModes
  <2>4. QED
    BY <1>7, <2>1, <2>2, <2>3
       DEF UndoStep, UndoEnable, UndoParams, UndoReservation, UndoWrite, ReadReservation, ReservationUnreachable,
           Release, Verify, Failed
<1>8. QED
  BY <1>1, <1>3, <1>4, <1>5, <1>6, <1>7, StepKinds DEF TakeStep

(* Records are struck out by registering only, and only those about what is not in force. *)
LEMMA RecordsKept ==
    ASSUME IInv, Tolerated, [Next]_vars
    PROVE  /\ ~RegisteringStep => logged \subseteq logged'
           /\ logged \cap Present \subseteq logged'
           /\ RegisterReservation => logged \ {<<cur, "resv">>} \subseteq logged'
           /\ RegisterParams => logged \ {<<cur, "params">>} \subseteq logged'
           /\ RegisterEnable => logged \ {<<cur, "enable">>} \subseteq logged'
<1>a. TypeOK /\ Running
  BY DEF IInv
<1>b. \A r \in RCBs : <<r, "resv">> \in Effects /\ <<r, "params">> \in Effects /\ <<r, "enable">> \in Effects
  BY DEF Effects, Kinds
<1>c. pc \in SubscribePcs => cur \in RCBs
  BY <1>a DEF Running
<1>1. RegisterReservation => logged \ {<<cur, "resv">>} \subseteq logged' /\ logged \cap Present \subseteq logged'
  BY <1>a, <1>b, <1>c, RegisterKeys DEF RegisterReservation, recVars, SubscribePcs
<1>2. RegisterParams => logged \ {<<cur, "params">>} \subseteq logged' /\ logged \cap Present \subseteq logged'
  BY <1>a, <1>b, <1>c, RegisterKeys DEF RegisterParams, recVars, SubscribePcs
<1>3. RegisterEnable => logged \ {<<cur, "enable">>} \subseteq logged' /\ logged \cap Present \subseteq logged'
  BY <1>a, <1>b, <1>c, RegisterKeys DEF RegisterEnable, recVars, SubscribePcs
<1>4. ~RegisteringStep => logged \subseteq logged'
  <2>1. EnvironmentStep => logged' = logged
    BY EnvironmentKeeps DEF recVars
  <2>2. Commands \/ Subscribes => logged \subseteq logged'
    BY DEF Commands, Connect, Reconnect, CommandWithoutLink, CheckConnection, Disconnect, Exit, NewProcess,
           StopShowing, KeepSubscription, NotConnected, Interrupt, Resume, StopCommand, Subscribes, Subscribe, recVars
  <2>3. RequestStep \/ TakeStep => logged \subseteq logged'
    BY DEF RequestStep, SetReservation, SetParams, Purge, SetEnable, AfterEnable, TakeStep, StopTake, StopFinish,
           RunTake, RunFinish, recVars
  <2>4. UndoStep => logged \subseteq logged'
    BY SettleKeeps DEF UndoStep, UndoEnable, UndoParams, UndoReservation, UndoWrite, ReadReservation,
                       ReservationUnreachable, Release, Verify, Failed, recVars
  <2>5. QED
    BY <2>1, <2>2, <2>3, <2>4, StepKinds
<1>5. QED
  BY <1>1, <1>2, <1>3, <1>4 DEF RegisteringStep

(* Only SetEnable enables an RCB for this tool; nothing but a params action changes parameters. *)
LEMMA OwnChanges ==
    ASSUME IInv, Tolerated, [Next]_vars, NEW r \in RCBs
    PROVE  /\ ~SetEnable /\ ena'[r] = Me => ena[r] = Me
           /\ ~SetParams /\ ~UndoStep => parm' = parm
           /\ parm[r] = "ours" /\ parm'[r] # "ours" => UndoParams /\ hand = <<r, "params">> /\ orig[r] # "ours"
<1>a. DeviceType /\ NoOne # Me
  BY ConstantsAssumption DEF IInv, TypeOK
<1>b. AssociationEnds => (ena'[r] = Me => ena[r] = Me) /\ parm' = parm
  BY <1>a DEF AssociationEnds, DeviceType
<1>c. UNCHANGED devVars => (ena'[r] = Me => ena[r] = Me) /\ parm' = parm
  BY DEF devVars
<1>d. ASSUME NEW o, Carries(o, UNCHANGED devVars)
      PROVE  (ena'[r] = Me => ena[r] = Me) /\ parm' = parm
  BY <1>b, <1>c, <1>d DEF Carries
<1>1. CASE EnvironmentStep
  <2>1. parm' = parm
    BY <1>1, EnvironmentKeeps
  <2>2. ena'[r] = Me => ena[r] = Me
    <3>1. CASE Lose \/ UNCHANGED vars
      BY <1>b, <1>c, <3>1 DEF Lose, vars
    <3>2. ASSUME NEW q \in RCBs, NEW c \in Others, OtherTakes(q, c) \/ OtherLeaves(q, c)
          PROVE  ena'[r] = Me => ena[r] = Me
      BY <1>a, <3>2, ConstantsAssumption DEF OtherTakes, OtherLeaves, EnableFor, SetResv, DeviceType
    <3>3. ASSUME NEW q \in RCBs, ReservationExpires(q)
          PROVE  ena'[r] = Me => ena[r] = Me
      BY <3>3 DEF ReservationExpires, SetResv
    <3>4. QED
      BY <1>1, <3>1, <3>2, <3>3 DEF EnvironmentStep
  <2>3. QED
    BY <2>1, <2>2
<1>2. CASE Commands \/ Subscribes \/ RegisteringStep \/ StopTake \/ StopFinish \/ RunTake
  <2>1. UNCHANGED devVars
    BY <1>2 DEF Commands, Connect, Reconnect, CommandWithoutLink, CheckConnection, Disconnect, Exit, NewProcess,
                StopShowing, KeepSubscription, NotConnected, Interrupt, Resume, StopCommand, Subscribes, Subscribe,
                RegisteringStep, RegisterReservation, RegisterParams, RegisterEnable, StopTake, StopFinish, RunTake
  <2>2. QED
    BY <1>c, <2>1
<1>3. CASE RunFinish
  BY <1>3, <1>b DEF RunFinish
<1>4. CASE Purge \/ AfterEnable
  BY <1>4, <1>c, <1>d DEF Purge, AfterEnable
<1>5. CASE SetReservation
  BY <1>5, <1>b, <1>c DEF SetReservation, Carries, SetResv
<1>6. CASE SetEnable
  BY <1>6, <1>b, <1>c DEF SetEnable, Carries, EnableFor
<1>7. CASE SetParams
  BY <1>7, <1>a, <1>b, <1>c DEF SetParams, Carries, SetParm, DeviceType
<1>8. CASE UndoStep
  <2>1. ena'[r] = Me => ena[r] = Me
    <3>1. CASE UndoEnable
      BY <1>a, <1>b, <1>c, <3>1 DEF UndoEnable, UndoWrite, Carries, SetEna, DeviceType
    <3>2. CASE UndoParams
      BY <1>b, <1>c, <3>2 DEF UndoParams, UndoWrite, Carries, SetParm
    <3>3. CASE UndoReservation
      BY <1>b, <1>c, <3>3 DEF UndoReservation, UndoWrite, Carries, SetResv
    <3>4. CASE Release
      BY <1>b, <1>c, <3>4 DEF Release, Carries, SetResv
    <3>5. CASE ReadReservation \/ ReservationUnreachable \/ Verify
      BY <1>c, <1>d, <3>5 DEF ReadReservation, ReservationUnreachable, Verify
    <3>6. QED
      BY <1>8, <3>1, <3>2, <3>3, <3>4, <3>5 DEF UndoStep
  <2>2. parm[r] = "ours" /\ parm'[r] # "ours" => UndoParams /\ hand = <<r, "params">> /\ orig[r] # "ours"
    <3>1. CASE UndoEnable
      BY <1>b, <1>c, <3>1 DEF UndoEnable, UndoWrite, Carries, SetEna
    <3>2. CASE UndoParams
      <4>1. hand \in Effects /\ hand = <<hand[1], "params">>
        BY <3>2, NothingInHand, EffectKinds DEF UndoParams
      <4>2. parm' = parm \/ parm' = [parm EXCEPT ![hand[1]] = orig[hand[1]]]
        BY <1>b, <1>c, <3>2 DEF UndoParams, UndoWrite, Carries, SetParm
      <4>3. QED
        BY <1>a, <3>2, <4>1, <4>2 DEF DeviceType
    <3>3. CASE UndoReservation
      BY <1>b, <1>c, <3>3 DEF UndoReservation, UndoWrite, Carries, SetResv
    <3>4. CASE Release
      BY <1>b, <1>c, <3>4 DEF Release, Carries, SetResv
    <3>5. CASE ReadReservation \/ ReservationUnreachable \/ Verify
      BY <1>c, <1>d, <3>5 DEF ReadReservation, ReservationUnreachable, Verify
    <3>6. QED
      BY <1>8, <3>1, <3>2, <3>3, <3>4, <3>5 DEF UndoStep
  <2>3. ~SetEnable /\ ~SetParams
    BY <1>8 DEF UndoStep, UndoEnable, UndoParams, UndoReservation, ReadReservation, ReservationUnreachable, Release,
                Verify, SetEnable, SetParams
  <2>4. QED
    BY <1>8, <2>1, <2>2
<1>9. QED
  BY <1>1, <1>2, <1>3, <1>4, <1>5, <1>6, <1>7, <1>8, StepKinds DEF RequestStep, TakeStep

(* At the prompt, an effect of an RCB the registry does not mention is on record if it is in force. *)
LEMMA SubscribedRecorded ==
    ASSUME IInv, Tolerated, NEW r \in RCBs, Subscribe(r), NEW k \in Kinds, <<r, k>> \in Present
    PROVE  <<r, k>> \in logged
<1>1. <<r, k>> \notin Registered
  BY ToleratedFaultKinds DEF Subscribe
<1>2. Owed = Registered /\ notes = {}
  BY NothingInHand DEF Subscribe, UndoPcs
<1>3. QED
  BY <1>1, <1>2 DEF IInv, NothingUnrecorded

(* What the handshake finds already enabled or changed by this tool is on record. *)
LEMMA EnabledEarlierStep ==
    ASSUME IInv, Tolerated, [Next]_vars
    PROVE  EnabledEarlier'
<1>a. EnabledEarlier /\ Running /\ TypeOK
  BY DEF IInv, LoggedBefore
<1>b. pc' \notin SubscribePcs \ {"after"} => EnabledEarlier'
  BY DEF EnabledEarlier
<1>1. CASE EnvironmentStep
  <2>1. pc' = pc /\ cur' = cur /\ logged' = logged
    BY <1>1, EnvironmentKeeps DEF jobVars, recVars
  <2>2. CASE pc \in SubscribePcs \ {"after"}
    <3>1. cur \in RCBs /\ ~SetEnable
      BY <1>1, <1>a, <2>1, <2>2 DEF Running, SetEnable, SubscribePcs
    <3>2. ena'[cur] = Me => ena[cur] = Me
      BY <3>1, OwnChanges
    <3>3. QED
      BY <1>a, <2>1, <3>2 DEF EnabledEarlier
  <2>3. CASE pc \notin SubscribePcs \ {"after"}
    BY <1>b, <2>1, <2>3
  <2>4. QED
    BY <2>2, <2>3
<1>2. CASE Commands \/ TakeStep \/ UndoStep \/ AfterEnable \/ SetEnable
  BY <1>2, <1>b, PcAfter DEF SubscribePcs
<1>3. ASSUME NEW r \in RCBs, Subscribe(r) PROVE EnabledEarlier'
  <2>1. cur' = r /\ ena' = ena /\ logged' = logged
    BY <1>3 DEF Subscribe, devVars, recVars
  <2>2. ena[r] = Me => <<r, "enable">> \in Present
    BY DEF Present, Effects, Kinds
  <2>3. QED
    BY <1>3, <2>1, <2>2, SubscribedRecorded DEF EnabledEarlier, Kinds
<1>4. CASE RegisteringStep \/ SetReservation \/ SetParams \/ Purge
  <2>1. CASE pc' = "boundary"
    BY <1>b, <2>1 DEF SubscribePcs
  <2>2. CASE pc' # "boundary"
    <3>1. pc \in SubscribePcs \ {"after"} /\ cur' = cur /\ cur \in RCBs /\ ~SetEnable
      BY <1>4, <1>a, <2>2
         DEF RegisteringStep, RegisterReservation, RegisterParams, RegisterEnable, SetReservation, SetParams, Purge,
             CommandEnds, jobVars, SubscribePcs, Running, SetEnable
    <3>2. ena'[cur] = Me => ena[cur] = Me
      BY <3>1, OwnChanges
    <3>3. ena[cur] = Me => <<cur, "enable">> \in logged \cap Present
      BY <1>a, <3>1 DEF EnabledEarlier, Present, Effects, Kinds
    <3>4. QED
      BY <3>1, <3>2, <3>3, RecordsKept DEF EnabledEarlier
  <2>3. QED
    BY <2>1, <2>2
<1>5. QED
  BY <1>1, <1>2, <1>3, <1>4, StepKinds DEF RequestStep, Subscribes

(* The parameters subscribe has read are still those of the device when it registers them for restoring. *)
LEMMA SnapshotCurrentStep ==
    ASSUME IInv, Tolerated, [Next]_vars
    PROVE  SnapshotCurrent'
<1>a. SnapshotCurrent /\ Running /\ TypeOK
  BY DEF IInv, LoggedBefore
<1>b. pc' \notin {"reserve", "set_resv", "params"} => SnapshotCurrent'
  BY DEF SnapshotCurrent
<1>1. CASE EnvironmentStep
  BY <1>1, <1>a, EnvironmentKeeps DEF jobVars, recVars, SnapshotCurrent
<1>2. CASE Commands \/ TakeStep \/ UndoStep \/ AfterEnable \/ SetEnable
  BY <1>2, <1>b, PcAfter DEF SubscribePcs
<1>3. ASSUME NEW r \in RCBs, Subscribe(r) PROVE SnapshotCurrent'
  <2>1. cur' = r /\ found'.parm = parm[r] /\ parm' = parm /\ logged' = logged
    BY <1>3 DEF Subscribe, devVars, recVars
  <2>2. parm[r] = "ours" => <<r, "params">> \in Present
    BY DEF Present, Effects, Kinds
  <2>3. QED
    BY <1>3, <2>1, <2>2, SubscribedRecorded DEF SnapshotCurrent, Kinds
<1>4. CASE RegisterReservation \/ SetReservation
  <2>1. CASE pc' = "boundary"
    BY <1>b, <2>1
  <2>2. CASE pc' # "boundary"
    <3>1. pc \in {"reserve", "set_resv", "params"} /\ cur' = cur /\ found' = found /\ cur \in RCBs
      BY <1>4, <1>a, <2>2 DEF RegisterReservation, SetReservation, CommandEnds, jobVars, SubscribePcs, Running
    <3>2. parm' = parm
      <4>1. ~SetParams /\ ~UndoStep
        BY <3>1 DEF SetParams, UndoStep, UndoEnable, UndoParams, UndoReservation, ReadReservation,
                    ReservationUnreachable, Release, Verify
      <4>2. QED
        BY <3>1, <4>1, OwnChanges
    <3>3. parm[cur] = "ours" => <<cur, "params">> \in logged \cap Present
      BY <1>a, <3>1 DEF SnapshotCurrent, Present, Effects, Kinds
    <3>4. QED
      BY <1>a, <3>1, <3>2, <3>3, RecordsKept DEF SnapshotCurrent
  <2>3. QED
    BY <2>1, <2>2
<1>5. CASE RegisterParams \/ RegisterEnable \/ SetParams \/ Purge
  BY <1>5, <1>b DEF RegisterParams, RegisterEnable, SetParams, Purge, CommandEnds
<1>6. QED
  BY <1>1, <1>2, <1>3, <1>4, <1>5, StepKinds DEF RequestStep, RegisteringStep, Subscribes

(* Parameters to be restored to a value of the tool's own have that value, and are on record. *)
LEMMA OwnValueLoggedStep ==
    ASSUME IInv, Tolerated, [Next]_vars
    PROVE  OwnValueLogged'
<1>a. OwnValueLogged /\ SnapshotCurrent /\ Running /\ TypeOK
  BY DEF IInv, LoggedBefore
<1> SUFFICES ASSUME NEW r \in RCBs, <<r, "params">> \in Owed', orig'[r] = "ours"
             PROVE  parm'[r] = "ours" /\ <<r, "params">> \in logged'
  BY DEF OwnValueLogged
<1>1. parm[r] = "ours" /\ orig[r] = "ours" => parm'[r] = "ours"
  BY OwnChanges
<1>2. parm[r] = "ours" => <<r, "params">> \in Present
  BY DEF Present, Effects, Kinds
<1>3. CASE ~RegisteringStep
  <2>1. Owed' \subseteq Owed
    BY <1>3, LedgerCases DEF Taking, Settling
  <2>2. orig' = orig
    <3>1. EnvironmentStep => orig' = orig
      BY EnvironmentKeeps DEF regVars
    <3>2. Commands \/ Subscribes => orig' = orig
      BY DEF Commands, Connect, Reconnect, CommandWithoutLink, CheckConnection, Disconnect, Exit, NewProcess,
             StopShowing, KeepSubscription, NotConnected, Interrupt, Resume, StopCommand, Subscribes, Subscribe, regVars
    <3>3. RequestStep \/ TakeStep => orig' = orig
      BY DEF RequestStep, SetReservation, SetParams, Purge, SetEnable, AfterEnable, TakeStep, StopTake, StopFinish,
             RunTake, RunFinish, regVars
    <3>4. UndoStep => orig' = orig
      <4>1. \A l : Settle(l) => orig' = orig
        BY DEF Settle, regVars
      <4>2. QED
        BY <4>1 DEF UndoStep, UndoEnable, UndoParams, UndoReservation, UndoWrite, ReadReservation,
                    ReservationUnreachable, Release, Verify, regVars
    <3>5. QED
      BY <1>3, <3>1, <3>2, <3>3, <3>4, StepKinds
  <2>3. parm[r] = "ours" /\ <<r, "params">> \in logged
    BY <1>a, <2>1, <2>2 DEF OwnValueLogged
  <2>4. QED
    BY <1>1, <1>3, <2>2, <2>3, RecordsKept
<1>4. CASE RegisteringStep
  <2>1. cur \in RCBs /\ hand = NoOne /\ hand' = NoOne
    BY <1>4, <1>a, NothingInHand
       DEF RegisteringStep, RegisterReservation, RegisterParams, RegisterEnable, Running, SubscribePcs, UndoPcs, undoVars
  <2>2. <<r, "params">> \in Registered'
    BY <2>1 DEF Owed
  <2>3. parm' = parm
    <3>1. ~SetParams /\ ~UndoStep
      BY <1>4 DEF RegisteringStep, RegisterReservation, RegisterParams, RegisterEnable, SetParams, UndoStep, UndoEnable,
                  UndoParams, UndoReservation, ReadReservation, ReservationUnreachable, Release, Verify
    <3>2. QED
      BY <3>1, OwnChanges
  <2>4. \A q \in RCBs, k \in Kinds : <<q, k>> \in Effects
    BY DEF Effects
  <2>5. "resv" \in Kinds /\ "params" \in Kinds /\ "enable" \in Kinds
    BY DEF Kinds
  <2>6. CASE RegisterParams /\ r = cur /\ orig' # orig
    <3>1. orig'[r] = parm[r] /\ (parm[r] = "ours" => <<r, "params">> \in logged)
      BY <1>a, <2>6 DEF RegisterParams, SnapshotCurrent, TypeOK, regVars
    <3>2. QED
      BY <1>2, <2>3, <3>1, RecordsKept
  <2>7. CASE ~(RegisterParams /\ r = cur /\ orig' # orig)
    <3>1. orig'[r] = orig[r]
      BY <1>4, <1>a, <2>7 DEF RegisteringStep, RegisterReservation, RegisterParams, RegisterEnable, TypeOK, regVars
    <3>2. CASE <<r, "params">> \in Registered
      BY <1>a, <1>2, <2>3, <3>1, <3>2, RecordsKept DEF OwnValueLogged, Owed
    <3>3. CASE <<r, "params">> \notin Registered
      <4>1. RegisterReservation \/ RegisterEnable => <<r, "params">> \notin Registered'
        BY <1>a, <2>1, <2>4, <2>5, <3>3, RegisterKeys DEF RegisterReservation, RegisterEnable, Registered
      <4>2. RegisterParams /\ RegisterCleanup(<<cur, "params">>) /\ r = cur
        BY <1>4, <1>a, <2>1, <2>2, <2>4, <2>5, <3>3, <4>1, RegisterKeys
           DEF RegisteringStep, RegisterParams, regVars, Registered
      <4>3. orig' = orig /\ orig'[r] = found.parm /\ found.parm = parm[r]
        BY <1>a, <2>2, <2>7, <3>3, <4>2 DEF RegisterParams, SnapshotCurrent, TypeOK, regVars, Registered
      <4>4. parm[r] = "ours" /\ <<r, "params">> \in logged
        BY <1>a, <4>2, <4>3 DEF RegisterParams, SnapshotCurrent
      <4>5. QED
        BY <1>2, <2>3, <4>4, RecordsKept
    <3>4. QED
      BY <3>2, <3>3
  <2>8. QED
    BY <2>6, <2>7
<1>5. QED
  BY <1>3, <1>4

-----------------------------------------------------------------------------
(* The theorems *)

LEMMA IInvInit == Init => IInv
<1> SUFFICES ASSUME Init PROVE IInv
  OBVIOUS
<1>1. NoOne # Me
  BY ConstantsAssumption
<1>2. TypeInv
  BY TypeInit
<1>3. Present = {} /\ Registered = {} /\ Owed = {}
  <2>1. ASSUME NEW e \in Present PROVE FALSE
    BY <1>1, <2>1, EffectKinds DEF Present, Init
  <2>2. Registered = {}
    BY DEF Init, Registered, ToSet
  <2>3. QED
    BY <2>1, <2>2 DEF Init, Owed
<1>4. NothingUnrecorded /\ RegisteredFirst /\ Reachable
  BY <1>3 DEF Init, NothingUnrecorded, RegisteredFirst, Reachable
<1>5. LoggedBefore
  BY <1>3 DEF Init, LoggedBefore, NotesLogged, EnabledEarlier, SnapshotCurrent, OwnValueLogged, RunModes, SubscribePcs
<1>6. QED
  BY <1>2, <1>4, <1>5 DEF IInv, TypeInv

LEMMA IInvStep ==
    ASSUME Tolerated, IInv, [Next]_vars
    PROVE  IInv'
<1>1. TypeInv'
  BY TypeStep DEF IInv, TypeInv
<1>2. NothingUnrecorded'
  BY LedgerStep
<1>3. RegisteredFirst' /\ Reachable'
  BY RegisteredFirstStep, ReachableStep
<1>4. LoggedBefore'
  BY NotesLoggedStep, EnabledEarlierStep, SnapshotCurrentStep, OwnValueLoggedStep DEF LoggedBefore
<1>5. QED
  BY <1>1, <1>2, <1>3, <1>4 DEF IInv, TypeInv

(* Unless one of the Harmful faults strikes, the registry, the hand and the records are as IInv says. *)
THEOREM InductiveInvariant ==
    ASSUME Tolerated
    PROVE  Spec => []IInv
<1>1. IInv /\ [Next]_vars => IInv'
  BY IInvStep
<1>2. QED
  BY IInvInit, <1>1, PTL DEF Spec

(* RPT-7: unless one of the Harmful faults strikes, no effect on the device is ever in force that is neither owed *)
(* nor on record, however many RCBs and clients there are (session.py:301-327, reports.py:305-329 and 383-516).   *)
THEOREM NothingIsForgotten ==
    ASSUME Tolerated
    PROVE  Spec => []NothingUnrecorded
<1>1. IInv => NothingUnrecorded
  BY DEF IInv
<1>2. QED
  BY <1>1, InductiveInvariant, PTL

(* The session implements the undo ledger: it owes before it takes, and what it no longer owes is undone or on *)
(* record (session.py:301-327, reports.py:305-329 and 383-516).                                                *)
THEOREM SessionKeepsLedger ==
    ASSUME Tolerated
    PROVE  Spec => LedgerSpec
<1>1. Init => Ledger!Init
  <2> SUFFICES ASSUME Init PROVE Ledger!Init
    OBVIOUS
  <2>1. \A e \in Present : FALSE
    BY ConstantsAssumption, EffectKinds DEF Present, Init
  <2>2. Owed = {}
    BY DEF Init, Owed, Registered, ToSet
  <2>3. QED
    BY <2>1, <2>2 DEF Init, Ledger!Init
<1>2. IInv /\ [Next]_vars => [Ledger!Next]_(Ledger!ledgerVars)
  BY LedgerStep
<1>3. QED
  BY <1>1, <1>2, InductiveInvariant, PTL DEF Spec, LedgerSpec, Ledger!Spec

(***************************************************************************)
(* The order of the cleanup registry, and what an association and another  *)
(* client are not made to pay for. Most of this holds under every fault;   *)
(* the order needs an RCB not to be subscribed again while the registry    *)
(* still owes it something.                                                *)
(***************************************************************************)

-----------------------------------------------------------------------------
(* Ranked sequences of keys *)

LEMMA RankType ==
    /\ \A k \in Kinds : Rank[k] \in 1..3
    /\ Rank["resv"] = 1 /\ Rank["params"] = 2 /\ Rank["enable"] = 3
BY DEF Rank, Kinds

(* Removing a position leaves the others in order. *)
LEMMA RankedRemoveAt ==
    ASSUME NEW s \in Seq(Effects), NEW k \in 1..Len(s), Ranked(s)
    PROVE  Ranked(RemoveAt(s, k))
<1> DEFINE w == RemoveAt(s, k)
<1>1. Len(w) = Len(s) - 1 /\ \A j \in 1..(Len(s) - 1) : w[j] = IF j < k THEN s[j] ELSE s[j + 1]
  BY RemoveAtItems
<1> HIDE DEF w
<1>2. ASSUME NEW i \in 1..Len(w), NEW j \in 1..Len(w), i < j, w[i][1] = w[j][1]
      PROVE  Rank[w[i][2]] < Rank[w[j][2]]
  <2>1. PICK a \in 1..Len(s) : w[i] = s[a] /\ a = IF i < k THEN i ELSE i + 1
    BY <1>1
  <2>2. PICK b \in 1..Len(s) : w[j] = s[b] /\ b = IF j < k THEN j ELSE j + 1
    BY <1>1
  <2>3. a < b
    BY <1>2, <2>1, <2>2
  <2>4. QED
    BY <1>2, <2>1, <2>2, <2>3 DEF Ranked
<1>3. QED
  BY <1>2 DEF Ranked, w

LEMMA RankedWithout ==
    ASSUME NEW s \in Seq(Effects), NEW e, Ranked(s)
    PROVE  Ranked(Without(s, e)) /\ (e \in Effects => e \notin ToSet(Without(s, e)))
<1>1. CASE e \in ToSet(s)
  <2> DEFINE k == CHOOSE i \in DOMAIN s : s[i] = e
             w == RemoveAt(s, k)
  <2>1. k \in 1..Len(s) /\ s[k] = e
    BY <1>1 DEF ToSet
  <2>2. Without(s, e) = w
    BY <1>1 DEF Without
  <2> HIDE DEF k
  <2>3. Ranked(w)
    BY <2>1, RankedRemoveAt
  <2>4. w \in Seq(Effects) /\ Len(w) = Len(s) - 1 /\ \A j \in 1..(Len(s) - 1) : w[j] = IF j < k THEN s[j] ELSE s[j + 1]
    BY <2>1, RemoveAtItems
  <2> HIDE DEF w
  <2>5. ASSUME e \in Effects, e \in ToSet(w) PROVE FALSE
    <3>1. PICK j \in 1..Len(w) : e = w[j]
      BY <2>4, <2>5 DEF ToSet
    <3>2. PICK b \in 1..Len(s) : e = s[b] /\ b # k
      BY <2>1, <2>4, <3>1
    <3>3. Rank[e[2]] \in 1..3
      BY <2>5, RankType DEF Effects
    <3>4. b < k => Rank[e[2]] < Rank[e[2]]
      BY <2>1, <3>2 DEF Ranked
    <3>5. k < b => Rank[e[2]] < Rank[e[2]]
      BY <2>1, <3>2 DEF Ranked
    <3>6. b < k \/ k < b
      BY <2>1, <3>2
    <3>7. QED
      BY <3>3, <3>4, <3>5, <3>6
  <2>6. QED
    BY <2>2, <2>3, <2>5
<1>2. CASE e \notin ToSet(s)
  BY <1>2 DEF Without
<1>3. QED
  BY <1>1, <1>2

(* A key may follow keys of its RCB with lower ranks only. *)
LEMMA RankedAppend ==
    ASSUME NEW s \in Seq(Effects), NEW e \in Effects, Ranked(s),
           \A x \in ToSet(s) : x[1] = e[1] => Rank[x[2]] < Rank[e[2]]
    PROVE  Ranked(Append(s, e))
<1> DEFINE w == Append(s, e)
<1>1. Len(w) = Len(s) + 1 /\ w[Len(s) + 1] = e /\ \A i \in 1..Len(s) : w[i] = s[i]
  OBVIOUS
<1>2. Len(s) \in Nat
  OBVIOUS
<1> HIDE DEF w
<1>3. ASSUME NEW i \in 1..Len(w), NEW j \in 1..Len(w), i < j, w[i][1] = w[j][1]
      PROVE  Rank[w[i][2]] < Rank[w[j][2]]
  <2>1. i \in 1..Len(s) /\ w[i] = s[i]
    BY <1>1, <1>2, <1>3
  <2>2. CASE j \in 1..Len(s)
    BY <1>1, <1>3, <2>1, <2>2 DEF Ranked
  <2>3. CASE j = Len(s) + 1
    <3>1. w[i] \in ToSet(s)
      BY <2>1 DEF ToSet
    <3>2. QED
      BY <1>1, <1>3, <2>3, <3>1
  <2>4. QED
    BY <1>1, <1>2, <2>2, <2>3
<1>4. QED
  BY <1>3 DEF Ranked, w

(* The last key outranks what is left of its RCB. *)
LEMMA RankedFront ==
    ASSUME NEW s \in Seq(Effects), s # <<>>, Ranked(s)
    PROVE  /\ Ranked(Front(s))
           /\ \A x \in ToSet(Front(s)) : x[1] = Last(s)[1] => Rank[x[2]] < Rank[Last(s)[2]]
<1> DEFINE w == Front(s)
<1>1. /\ w \in Seq(Effects)
      /\ Len(s) \in Nat /\ Len(s) >= 1
      /\ Last(s) = s[Len(s)]
      /\ Len(w) = Len(s) - 1 /\ \A i \in 1..Len(w) : w[i] = s[i]
  BY FrontItems
<1> HIDE DEF w
<1>2. Ranked(w)
  BY <1>1 DEF Ranked
<1>3. ASSUME NEW x \in ToSet(w), x[1] = Last(s)[1] PROVE Rank[x[2]] < Rank[Last(s)[2]]
  <2>1. PICK i \in 1..Len(w) : x = w[i]
    BY <1>1, <1>3 DEF ToSet
  <2>2. i \in 1..Len(s) /\ Len(s) \in 1..Len(s) /\ i < Len(s) /\ x = s[i]
    BY <1>1, <2>1
  <2>3. QED
    BY <1>1, <1>3, <2>2 DEF Ranked
<1>4. QED
  BY <1>2, <1>3 DEF w

-----------------------------------------------------------------------------
(* The order of the registry *)

NotAgain == "resubscribe" \notin Faults

(* The steps that leave the registry as it is, but for the three that register and the four that take from it. *)
TakingStep == SetEnable \/ StopTake \/ RunTake \/ Reconnect \/ CheckConnection \/ InterruptExit
KeepingStep ==
    \/ Connect \/ CommandWithoutLink \/ Disconnect \/ Exit \/ NewProcess \/ StopShowing \/ KeepSubscription
    \/ NotConnected \/ Interrupt \/ InterruptUndo \/ SetReservation \/ SetParams \/ Purge \/ AfterEnable
    \/ StopFinish \/ RunFinish \/ UndoStep
    \/ \E r \in RCBs : Resume(r) \/ StopCommand(r)

LEMMA OrderStepKinds ==
    ASSUME [Next]_vars
    PROVE  EnvironmentStep \/ RegisteringStep \/ TakingStep \/ KeepingStep \/ Subscribes
BY DEF Next, Command, Handshake, Undoing, Environment, EnvironmentStep, RegisteringStep, TakingStep, KeepingStep,
       Subscribes, UndoStep

(* An undo request, with its answer, leaves the registry alone and at most empties the hand. *)
LEMMA UndoStepRegistry ==
    ASSUME UndoStep
    PROVE  /\ cleanups' = cleanups
           /\ hand' = hand \/ hand' = NoOne
           /\ \/ cur' = cur /\ mode' = mode /\ next' = next
              \/ CommandEnds
<1>1. \A l : Settle(l) => cleanups' = cleanups /\ hand' = NoOne /\ cur' = cur /\ mode' = mode /\ next' = next
  BY DEF Settle, regVars, jobVars
<1>2. UNCHANGED <<regVars, subs, jobVars, undoVars, recVars>>
         => cleanups' = cleanups /\ hand' = hand /\ cur' = cur /\ mode' = mode /\ next' = next
  BY DEF regVars, jobVars, undoVars
<1>3. CASE UndoEnable \/ UndoParams \/ UndoReservation
  BY <1>1, <1>3 DEF UndoEnable, UndoParams, UndoReservation, UndoWrite
<1>4. CASE ReadReservation
  BY <1>1, <1>2, <1>4 DEF ReadReservation
<1>5. CASE ReservationUnreachable
  BY <1>1, <1>5 DEF ReservationUnreachable, CommandEnds, Forget, regVars
<1>6. CASE Release
  BY <1>1, <1>2, <1>6 DEF Release
<1>7. CASE Verify
  BY <1>1, <1>7 DEF Verify
<1>8. QED
  BY <1>3, <1>4, <1>5, <1>6, <1>7 DEF UndoStep

(* Where a step of KeepingStep leaves the thread. *)
LEMMA KeepingKinds ==
    ASSUME KeepingStep
    PROVE  /\ cleanups' = cleanups
           /\ hand' = hand \/ hand' = NoOne
           /\ \/ mode' = "idle" /\ next' = 1 /\ pc' \notin DOMAIN RankAhead
              \/ /\ mode' = mode /\ next' = next /\ cur' = cur
                 /\ pc' \in DOMAIN RankAhead => pc \in DOMAIN RankAhead /\ RankAhead[pc] = RankAhead[pc']
              \/ /\ mode' = mode /\ next' = next
                 /\ pc = "prompt" /\ pc' = "showing"
              \/ pc \in {"prompt", "showing"} /\ mode' \in {"stop", "disconnect", "exit"} /\ next' = next /\ pc' = "take"
<1> DEFINE D == {"reserve", "set_resv", "params", "set_params", "purge", "enable", "set_enable"}
<1>d. DOMAIN RankAhead = D /\ RankAhead["set_resv"] = RankAhead["params"]
        /\ RankAhead["set_params"] = RankAhead["purge"] /\ RankAhead["purge"] = RankAhead["enable"]
  BY DEF RankAhead
<1> HIDE DEF D
<1>e. CommandEnds => mode' = "idle" /\ next' = 1 /\ hand' = NoOne /\ pc' \notin D
  BY DEF CommandEnds, Forget, D
<1>1. CASE Connect \/ CommandWithoutLink \/ NewProcess
  BY <1>1, <1>d DEF Connect, CommandWithoutLink, NewProcess, regVars, jobVars, undoVars, D
<1>2. CASE Disconnect \/ Exit \/ StopShowing
  BY <1>2 DEF Disconnect, Exit, StopShowing, regVars, jobVars
<1>3. CASE KeepSubscription \/ NotConnected \/ Interrupt \/ InterruptUndo
  BY <1>3, <1>d, <1>e DEF KeepSubscription, NotConnected, Interrupt, InterruptUndo, regVars
<1>4. CASE SetReservation
  <2>1. cleanups' = cleanups /\ (CommandEnds \/ (pc = "set_resv" /\ pc' = "params" /\ UNCHANGED <<jobVars, undoVars>>))
    BY <1>4 DEF SetReservation, regVars
  <2>2. QED
    BY <2>1, <1>d, <1>e DEF jobVars, undoVars, D
<1>5. CASE SetParams
  <2>1. cleanups' = cleanups /\ (CommandEnds \/ (pc = "set_params" /\ pc' = "purge" /\ UNCHANGED <<jobVars, undoVars>>))
    BY <1>5 DEF SetParams, regVars
  <2>2. QED
    BY <2>1, <1>d, <1>e DEF jobVars, undoVars, D
<1>6. CASE Purge
  <2>1. cleanups' = cleanups /\ (CommandEnds \/ (pc = "purge" /\ pc' = "enable" /\ UNCHANGED <<jobVars, undoVars>>))
    BY <1>6 DEF Purge, regVars
  <2>2. QED
    BY <2>1, <1>d, <1>e DEF jobVars, undoVars, D
<1>7. CASE AfterEnable
  <2>1. cleanups' = cleanups /\ (CommandEnds \/ (pc' = "showing" /\ UNCHANGED <<jobVars, undoVars>>))
    BY <1>7 DEF AfterEnable, regVars
  <2>2. QED
    BY <2>1, <1>d, <1>e DEF jobVars, undoVars, D
<1>8. CASE StopFinish
  BY <1>8, <1>d, <1>e DEF StopFinish, regVars
<1>9. CASE RunFinish
  BY <1>9, <1>d DEF RunFinish, regVars, Forget, D
<1>10. CASE UndoStep
  <2>1. pc' \in {"take", "release", "verify", "boundary"}
    BY <1>10, PcAfter
  <2>2. QED
    BY <1>10, <2>1, <1>d, <1>e, UndoStepRegistry DEF D
<1>11. ASSUME NEW r \in RCBs, Resume(r)
       PROVE  cleanups' = cleanups /\ hand' = hand /\ mode' = mode /\ next' = next /\ pc = "prompt" /\ pc' = "showing"
  BY <1>11 DEF Resume, regVars, undoVars
<1>12. ASSUME NEW r \in RCBs, StopCommand(r)
       PROVE  cleanups' = cleanups /\ hand' = hand /\ mode' = "stop" /\ next' = next /\ pc = "prompt" /\ pc' = "take"
  BY <1>12 DEF StopCommand, regVars
<1>13. QED
  BY <1>1, <1>2, <1>3, <1>4, <1>5, <1>6, <1>7, <1>8, <1>9, <1>10, <1>11, <1>12 DEF KeepingStep

(* A key that is registered after all others of its RCB keeps the order. *)
LEMMA RegisteringKeepsRanks ==
    ASSUME TypeOK, RegistryRanked, cur \in RCBs, NEW k \in Kinds, RegisterCleanup(<<cur, k>>),
           \A e \in Registered : e[1] = cur => Rank[e[2]] < Rank[k]
    PROVE  RegistryRanked' /\ \A e \in Registered' : e[1] = cur => Rank[e[2]] < Rank[k] + 1
<1> DEFINE key == <<cur, k>>
           w == Without(cleanups, key)
<1>1. key \in Effects /\ key[1] = cur /\ key[2] = k
  BY DEF Effects
<1>2. w \in Seq(Effects) /\ ToSet(w) \subseteq Registered /\ Ranked(w)
  BY WithoutKeys, RankedWithout DEF TypeOK, Registered, RegistryRanked
<1>3. cleanups' = Append(w, key)
  BY DEF RegisterCleanup
<1>4. Registered' = Registered \cup {key}
  BY <1>1, RegisterKeys
<1> HIDE DEF key, w
<1>5. Ranked(Append(w, key))
  BY <1>1, <1>2, RankedAppend
<1>6. RegistryRanked'
  BY <1>3, <1>5 DEF RegistryRanked, Ranked
<1>7. ASSUME NEW e \in Registered', e[1] = cur PROVE Rank[e[2]] < Rank[k] + 1
  <2>1. Registered \subseteq Effects
    BY RegisteredType
  <2>2. Rank[k] \in 1..3
    BY RankType
  <2>3. CASE e = key
    BY <1>1, <2>2, <2>3
  <2>4. CASE e \in Registered
    <3>1. Rank[e[2]] \in 1..3
      BY <2>1, <2>4, RankType DEF Effects
    <3>2. QED
      BY <1>7, <2>2, <2>4, <3>1
  <2>5. QED
    BY <1>4, <2>3, <2>4
<1>8. QED
  BY <1>6, <1>7

LEMMA RankAheadValues ==
    /\ DOMAIN RankAhead = {"reserve", "set_resv", "params", "set_params", "purge", "enable", "set_enable"}
    /\ RankAhead["reserve"] = 1 /\ RankAhead["set_resv"] = 2 /\ RankAhead["params"] = 2
    /\ RankAhead["set_params"] = 3 /\ RankAhead["purge"] = 3 /\ RankAhead["enable"] = 3
    /\ RankAhead["set_enable"] = 4
BY DEF RankAhead

(* Nothing is in hand, and stop is at its beginning, unless an undo procedure runs. *)
LEMMA IdleHand ==
    ASSUME TypeInv, StopAhead
    PROVE  /\ pc \notin UndoPcs => mode = "idle" /\ next = 1 /\ hand = NoOne
           /\ pc = "take" => hand = NoOne
<1>1. NoOne \notin Effects
  BY ConstantsAssumption DEF Effects, Kinds
<1>2. hand = NoOne \/ hand \in Effects
  BY DEF TypeInv, TypeOK
<1>3. QED
  BY <1>1, <1>2 DEF TypeInv, Running, UndoPcs, StopAhead, StopModes

(* The registering steps of the handshake. *)
LEMMA RegisteringKeepsOrder ==
    ASSUME TypeInv, OrderInv, RegisteringStep
    PROVE  OrderInv'
<1>a. TypeOK /\ pc \in {"reserve", "params", "enable"} /\ cur \in RCBs
  BY DEF TypeInv, Running, RegisteringStep, RegisterReservation, RegisterParams, RegisterEnable, SubscribePcs
<1>b. UNCHANGED <<cur, mode, next, hand>>
  BY DEF RegisteringStep, RegisterReservation, RegisterParams, RegisterEnable, jobVars, undoVars
<1>c. mode = "idle" /\ next = 1 /\ hand = NoOne
  BY <1>a, IdleHand DEF OrderInv, UndoPcs
<1>d. Registered \subseteq Effects /\ \A e \in Effects : Rank[e[2]] \in 1..3
  BY <1>a, RegisteredType, RankType DEF Effects
<1>e. StopAhead' /\ UndoneInOrder'
  BY <1>b, <1>c DEF StopAhead, UndoneInOrder, StopModes
<1>f. "resv" \in Kinds /\ "params" \in Kinds /\ "enable" \in Kinds
  BY DEF Kinds
<1>g. RegistryRanked /\ \A e \in Registered : e[1] = cur => Rank[e[2]] < RankAhead[pc]
  BY <1>a, RankAheadValues DEF OrderInv, HandshakeAhead
<1>1. CASE RegisterReservation
  <2>1. pc' \in {"set_resv", "params"} /\ \A e \in Registered : e[1] = cur => Rank[e[2]] < Rank["resv"]
    BY <1>1, <1>g, RankAheadValues, RankType DEF RegisterReservation
  <2>2. CASE RegisterCleanup(<<cur, "resv">>)
    <3>1. RegistryRanked' /\ \A e \in Registered' : e[1] = cur => Rank[e[2]] < Rank["resv"] + 1
      BY <1>a, <1>f, <1>g, <2>1, <2>2, RegisteringKeepsRanks
    <3>2. HandshakeAhead'
      BY <1>b, <2>1, <3>1, RankAheadValues, RankType DEF HandshakeAhead
    <3>3. QED
      BY <1>e, <3>1, <3>2 DEF OrderInv
  <2>3. CASE cleanups' = cleanups
    <3>1. RegistryRanked' /\ Registered' = Registered
      BY <1>g, <2>3 DEF RegistryRanked, Registered
    <3>2. HandshakeAhead'
      BY <1>b, <1>d, <2>1, <3>1, RankAheadValues, RankType DEF HandshakeAhead
    <3>3. QED
      BY <1>e, <3>1, <3>2 DEF OrderInv
  <2>4. QED
    BY <1>1, <2>2, <2>3 DEF RegisterReservation
<1>2. CASE RegisterParams
  <2>1. pc' \in {"set_params", "purge"} /\ \A e \in Registered : e[1] = cur => Rank[e[2]] < Rank["params"]
    BY <1>2, <1>g, RankAheadValues, RankType DEF RegisterParams
  <2>2. CASE RegisterCleanup(<<cur, "params">>)
    <3>1. RegistryRanked' /\ \A e \in Registered' : e[1] = cur => Rank[e[2]] < Rank["params"] + 1
      BY <1>a, <1>f, <1>g, <2>1, <2>2, RegisteringKeepsRanks
    <3>2. HandshakeAhead'
      BY <1>b, <2>1, <3>1, RankAheadValues, RankType DEF HandshakeAhead
    <3>3. QED
      BY <1>e, <3>1, <3>2 DEF OrderInv
  <2>3. CASE cleanups' = cleanups
    <3>1. RegistryRanked' /\ Registered' = Registered
      BY <1>g, <2>3 DEF RegistryRanked, Registered
    <3>2. HandshakeAhead'
      BY <1>b, <1>d, <2>1, <3>1, RankAheadValues, RankType DEF HandshakeAhead
    <3>3. QED
      BY <1>e, <3>1, <3>2 DEF OrderInv
  <2>4. QED
    BY <1>2, <2>2, <2>3 DEF RegisterParams, regVars
<1>3. CASE RegisterEnable
  <2>1. pc' = "set_enable" /\ \A e \in Registered : e[1] = cur => Rank[e[2]] < Rank["enable"]
    BY <1>3, <1>g, RankAheadValues, RankType DEF RegisterEnable
  <2>2. RegistryRanked' /\ \A e \in Registered' : e[1] = cur => Rank[e[2]] < Rank["enable"] + 1
    BY <1>3, <1>a, <1>f, <1>g, <2>1, RegisteringKeepsRanks DEF RegisterEnable
  <2>3. HandshakeAhead'
    BY <1>b, <2>1, <2>2, RankAheadValues, RankType DEF HandshakeAhead
  <2>4. QED
    BY <1>e, <2>2, <2>3 DEF OrderInv
<1>4. QED
  BY <1>1, <1>2, <1>3 DEF RegisteringStep

(* The steps that take keys away. *)
LEMMA TakingKeepsOrder ==
    ASSUME TypeInv, OrderInv, TakingStep
    PROVE  OrderInv'
<1>a. TypeOK /\ cleanups \in Seq(Effects) /\ Ranked(cleanups)
  BY DEF TypeInv, TypeOK, OrderInv, RegistryRanked
<1>b. Registered \subseteq Effects /\ \A e \in Effects : Rank[e[2]] \in 1..3
  BY <1>a, RegisteredType, RankType DEF Effects
<1>c. pc' \notin DOMAIN RankAhead => HandshakeAhead'
  BY DEF HandshakeAhead
<1>1. CASE SetEnable
  <2>1. /\ pc = "set_enable" /\ mode = "idle" /\ next' = 1 /\ hand' = NoOne
        /\ pc' \in {"after", "take"}
    BY <1>1, IdleHand DEF SetEnable, OrderInv, UndoPcs
  <2>2. /\ cleanups' = cleanups \/ cleanups' = Without(cleanups, <<cur, "enable">>)
        /\ mode' \in {mode, "failed"}
    BY <1>1 DEF SetEnable, DropCleanup
  <2>3. Ranked(cleanups') /\ Registered' \subseteq Registered
    BY <1>a, <2>2, RankedWithout, WithoutKeys DEF Registered
  <2>4. RegistryRanked' /\ HandshakeAhead' /\ UndoneInOrder'
    BY <1>c, <2>1, <2>3, RankAheadValues DEF RegistryRanked, Ranked, UndoneInOrder
  <2>5. StopAhead'
    BY <1>b, <2>1, <2>2, <2>3 DEF StopAhead, StopModes
  <2>6. QED
    BY <2>4, <2>5 DEF OrderInv
<1>2. CASE StopTake
  <2> DEFINE k == StopOrder[next]
             e == <<cur, k>>
  <2>1. /\ pc = "take" /\ mode \in StopModes /\ mode' = mode /\ cur' = cur /\ hand = NoOne
        /\ next \in 1..3 /\ next' = next + 1 /\ pc' \in {"take", "undo"}
    <3>1. pc = "take" /\ hand = NoOne
      BY <1>2, IdleHand DEF StopTake, OrderInv
    <3>2. next \in 1..3
      BY <1>2, <1>a DEF StopTake, TypeOK, StopOrder
    <3>3. QED
      BY <1>2, <3>1, <3>2 DEF StopTake, jobVars
  <2>2. cur \in RCBs /\ k \in Kinds /\ Rank[k] = 4 - next /\ e \in Effects
    BY <2>1, RankType DEF TypeInv, Running, StopOrder, Kinds, Effects
  <2>3. /\ cleanups' = Without(cleanups, e) \/ (cleanups' = cleanups /\ e \notin Registered)
        /\ hand' = hand \/ hand' = e
    BY <1>2 DEF StopTake, DropCleanup
  <2>4. /\ e[1] = cur /\ e[2] = k
        /\ \A x \in Effects : x[1] = cur /\ x # e => Rank[x[2]] # 4 - next
    <3>1. \A x \in Kinds : x # k => Rank[x] # Rank[k]
      BY <2>2, RankType DEF Kinds
    <3>2. \A x \in Effects : x[2] \in Kinds /\ x = <<x[1], x[2]>>
      BY DEF Effects
    <3>3. QED
      BY <2>2, <3>1, <3>2
  <2> HIDE DEF k, e
  <2>5. Ranked(cleanups') /\ Registered' \subseteq Registered /\ e \notin Registered'
    BY <1>a, <2>2, <2>3, RankedWithout, WithoutKeys DEF Registered
  <2>6. \A x \in Registered' : x[1] = cur => Rank[x[2]] < 4 - next
    <3> SUFFICES ASSUME NEW x \in Registered', x[1] = cur PROVE Rank[x[2]] < 4 - next
      OBVIOUS
    <3>1. Rank[x[2]] \in 1..3 /\ Rank[x[2]] # 4 - next
      BY <1>b, <2>4, <2>5
    <3>2. Rank[x[2]] <= 4 - next
      BY <2>1, <2>5 DEF OrderInv, StopAhead
    <3>3. QED
      BY <2>1, <3>1, <3>2
  <2>7. StopAhead'
    <3>1. \A x \in Registered' : x[1] = cur => Rank[x[2]] <= 4 - (next + 1)
      <4> SUFFICES ASSUME NEW x \in Registered', x[1] = cur PROVE Rank[x[2]] <= 4 - (next + 1)
        OBVIOUS
      <4>1. Rank[x[2]] \in 1..3 /\ Rank[x[2]] < 4 - next
        BY <1>b, <2>5, <2>6
      <4>2. QED
        BY <2>1, <4>1
    <3>2. QED
      BY <2>1, <3>1 DEF StopAhead
  <2>8. UndoneInOrder'
    BY <2>1, <2>2, <2>3, <2>4, <2>6 DEF UndoneInOrder
  <2>9. RegistryRanked' /\ HandshakeAhead'
    BY <1>c, <2>1, <2>5, RankAheadValues DEF RegistryRanked, Ranked
  <2>10. QED
    BY <2>7, <2>8, <2>9 DEF OrderInv
<1>3. CASE RunTake
  <2>1. /\ cleanups # <<>> /\ cleanups' = Front(cleanups) /\ hand' \in {hand, Last(cleanups)}
        /\ mode' = mode /\ next' = next /\ mode \in RunModes /\ pc = "take" /\ pc' \in {"take", "undo"}
    BY <1>3 DEF RunTake
  <2>2. hand = NoOne
    BY <2>1, IdleHand DEF OrderInv
  <2>3. Ranked(cleanups') /\ \A x \in Registered' : x[1] = Last(cleanups)[1] => Rank[x[2]] < Rank[Last(cleanups)[2]]
    BY <1>a, <2>1, RankedFront DEF Registered
  <2>4. RegistryRanked' /\ HandshakeAhead'
    BY <1>c, <2>1, <2>3, RankAheadValues DEF RegistryRanked, Ranked
  <2>5. StopAhead'
    BY <2>1 DEF OrderInv, StopAhead, StopModes, RunModes
  <2>6. UndoneInOrder'
    BY <2>1, <2>2, <2>3 DEF UndoneInOrder
  <2>7. QED
    BY <2>4, <2>5, <2>6 DEF OrderInv
<1>4. CASE Reconnect \/ CheckConnection \/ InterruptExit
  <2>1. /\ cleanups' = <<>> \/ cleanups' = cleanups
        /\ pc' \in {"boundary", "prompt", "exited"}
        /\ hand' = NoOne /\ mode' = "idle" /\ next' = 1
    <3>1. Reconnect \/ CheckConnection => pc \in {"prompt", "boundary"} /\ UNCHANGED undoVars
      BY DEF Reconnect, CheckConnection
    <3>2. pc \in {"prompt", "boundary"} => hand = NoOne /\ mode = "idle" /\ next = 1
      BY IdleHand DEF OrderInv, UndoPcs
    <3>3. InterruptExit => hand' = NoOne /\ mode' = "idle" /\ next' = 1
      BY DEF InterruptExit, Forget
    <3>4. QED
      BY <1>4, <3>1, <3>2, <3>3 DEF Reconnect, CheckConnection, InterruptExit, undoVars
  <2>2. Ranked(<<>>)
    BY DEF Ranked
  <2>3. RegistryRanked'
    BY <1>a, <2>1, <2>2 DEF RegistryRanked, Ranked
  <2>4. QED
    BY <1>c, <2>1, <2>3, RankAheadValues DEF OrderInv, StopAhead, UndoneInOrder, StopModes
<1>5. QED
  BY <1>1, <1>2, <1>3, <1>4 DEF TakingStep

LEMMA OrderStep ==
    ASSUME NotAgain, TypeInv, OrderInv, [Next]_vars
    PROVE  OrderInv'
<1>a. Registered \subseteq Effects /\ \A e \in Effects : Rank[e[2]] \in 1..3
  BY RegisteredType, RankType DEF TypeInv, Effects
<1>b. cleanups' = cleanups => Registered' = Registered /\ RegistryRanked'
  BY DEF Registered, RegistryRanked, OrderInv
<1>c. pc \notin UndoPcs => mode = "idle" /\ next = 1 /\ hand = NoOne
  BY IdleHand DEF OrderInv
<1>1. CASE EnvironmentStep
  <2>1. UNCHANGED <<cleanups, pc, cur, mode, next, hand>>
    BY <1>1, EnvironmentKeeps DEF regVars, jobVars, undoVars
  <2>2. QED
    BY <1>b, <2>1 DEF OrderInv, HandshakeAhead, StopAhead, UndoneInOrder
<1>2. CASE Subscribes
  <2>1. PICK r \in RCBs : Subscribe(r)
    BY <1>2 DEF Subscribes
  <2>2. UNCHANGED <<cleanups, mode, next, hand>> /\ pc = "prompt" /\ cur' = r /\ \A k \in Kinds : <<r, k>> \notin Registered
    BY <2>1 DEF NotAgain, Subscribe, regVars, undoVars
  <2>3. HandshakeAhead'
    BY <1>a, <1>b, <2>2 DEF HandshakeAhead, Effects
  <2>4. QED
    BY <1>b, <1>c, <2>2, <2>3 DEF OrderInv, StopAhead, UndoneInOrder, UndoPcs, StopModes
<1>3. CASE KeepingStep
  <2>1. cleanups' = cleanups /\ (hand' = hand \/ hand' = NoOne)
    BY <1>3, KeepingKinds
  <2>2. UndoneInOrder'
    BY <1>b, <2>1 DEF OrderInv, UndoneInOrder
  <2>3. CASE mode' = "idle" /\ next' = 1 /\ pc' \notin DOMAIN RankAhead
    BY <1>b, <2>1, <2>2, <2>3 DEF OrderInv, StopAhead, HandshakeAhead, StopModes
  <2>4. CASE /\ mode' = mode /\ next' = next /\ cur' = cur
             /\ pc' \in DOMAIN RankAhead => pc \in DOMAIN RankAhead /\ RankAhead[pc] = RankAhead[pc']
    BY <1>b, <2>1, <2>2, <2>4 DEF OrderInv, StopAhead, HandshakeAhead
  <2>5. CASE mode' = mode /\ next' = next /\ pc = "prompt" /\ pc' = "showing"
    BY <1>b, <1>c, <2>1, <2>2, <2>5, RankAheadValues DEF OrderInv, StopAhead, HandshakeAhead, StopModes, UndoPcs
  <2>6. CASE pc \in {"prompt", "showing"} /\ mode' \in {"stop", "disconnect", "exit"} /\ next' = next /\ pc' = "take"
    <3>1. next' = 1
      BY <1>c, <2>6 DEF UndoPcs
    <3>2. StopAhead'
      BY <1>a, <1>b, <2>1, <2>6, <3>1 DEF StopAhead, StopModes
    <3>3. QED
      BY <1>b, <2>1, <2>2, <2>6, <3>2, RankAheadValues DEF OrderInv, HandshakeAhead
  <2>7. QED
    BY <1>3, <2>3, <2>4, <2>5, <2>6, KeepingKinds
<1>4. QED
  BY <1>1, <1>2, <1>3, OrderStepKinds, RegisteringKeepsOrder, TakingKeepsOrder

LEMMA OrderInit == Init => OrderInv
<1> SUFFICES ASSUME Init PROVE OrderInv
  OBVIOUS
<1>1. Registered = {} /\ Ranked(<<>>)
  BY DEF Init, Registered, ToSet, Ranked
<1>2. QED
  BY <1>1 DEF Init, OrderInv, RegistryRanked, HandshakeAhead, StopAhead, UndoneInOrder, StopModes

(* An RCB is undone from the outside in, however many RCBs share the registry and whatever fails, as long as none is *)
(* subscribed again while the registry owes it something (reports.py:305-329, session.py:301-327).                   *)
THEOREM UndoneFromTheOutside ==
    ASSUME NotAgain
    PROVE  Spec => []UndoneInOrder
<1>1. TypeInv /\ OrderInv /\ [Next]_vars => OrderInv'
  BY OrderStep
<1>2. OrderInv => UndoneInOrder
  BY DEF OrderInv
<1>3. QED
  BY OrderInit, TypeInvariant, <1>1, <1>2, PTL DEF Spec

(* What is found is what the device is given back: parameters whose undo ends without a note are again as they were *)
(* before the tool set them, or on record from an earlier subscription (reports.py:436-472), unless one of the      *)
(* Harmful faults strikes: an RCB that is subscribed again in between is given back the tool's own.                 *)
THEOREM FoundIsRestored ==
    ASSUME Tolerated
    PROVE  Spec => RestoresWhatItFound
<1>1. ASSUME IInv, [Next]_vars, NEW r \in RCBs, hand = <<r, "params">>, pc' = "take", hand \notin notes'
      PROVE  parm'[r] = "found" \/ hand \in logged
  <2>1. TypeOK /\ Running /\ OwnValueLogged
    BY <1>1 DEF IInv, LoggedBefore
  <2>2. hand \in Effects /\ hand[2] = "params"
    BY <1>1 DEF Effects, Kinds
  <2>3. pc = "undo"
    BY <2>1, <2>2 DEF Running, UndoPcs
  <2>4. UndoParams
    <3>1. EnvironmentStep => pc' # "take"
      BY <2>3, EnvironmentKeeps, PcAfter
    <3>2. ~Commands /\ ~Subscribes /\ ~RegisteringStep
      BY <1>1, <2>3
         DEF Commands, Connect, Reconnect, CommandWithoutLink, CheckConnection, Disconnect, Exit, NewProcess, StopShowing,
             KeepSubscription, NotConnected, Interrupt, Resume, StopCommand, Subscribes, Subscribe, RegisteringStep,
             RegisterReservation, RegisterParams, RegisterEnable, SubscribePcs
    <3>3. ~RequestStep /\ ~TakeStep
      BY <2>3 DEF RequestStep, SetReservation, SetParams, Purge, SetEnable, AfterEnable, TakeStep, StopTake, StopFinish,
                  RunTake, RunFinish
    <3>4. UndoStep
      BY <1>1, <3>1, <3>2, <3>3, StepKinds
    <3>5. QED
      BY <2>2, <2>3, <3>4
         DEF UndoStep, UndoEnable, UndoReservation, ReadReservation, ReservationUnreachable, Release, Verify
  <2>5. PICK o \in Outcomes(CanSetParams(r), "lost-reply") :
           link = "up" /\ Carries(o, SetParm(r, orig[r])) /\ Settle(Failed(o))
    BY <1>1, <2>4 DEF UndoParams, UndoWrite, Settle
  <2>6. parm' = [parm EXCEPT ![r] = orig[r]]
    BY <1>1, <2>5 DEF Settle, Failed, Carries, SetParm
  <2>7. parm'[r] = orig[r] /\ orig[r] \in {"found", "ours"}
    BY <2>1, <2>6 DEF TypeOK, DeviceType, ParmValues
  <2>8. hand \in Owed
    BY <2>2, ConstantsAssumption DEF Owed, Effects, Kinds
  <2>9. QED
    BY <1>1, <2>1, <2>7, <2>8 DEF OwnValueLogged
<1>2. IInv /\ [Next]_vars =>
        [\A r \in RCBs :
           hand = <<r, "params">> /\ pc' = "take" /\ hand \notin notes' =>
               parm'[r] = "found" \/ hand \in logged]_vars
  BY <1>1
<1>3. QED
  BY <1>2, InductiveInvariant, PTL DEF Spec, RestoresWhatItFound

-----------------------------------------------------------------------------
(* A new association, and other clients *)

LEMMA ClientStep ==
    ASSUME TypeInv, NothingWithoutClient, [Next]_vars
    PROVE  NothingWithoutClient'
<1>a. link = "none" => pc \notin SubscribePcs \cup {"showing", "undo", "release", "verify"}
  BY DEF NothingWithoutClient, SubscribePcs
<1>b. link = "none" => cleanups = <<>>
  BY DEF NothingWithoutClient
<1>1. CASE EnvironmentStep
  <2>1. UNCHANGED <<cleanups, pc, mode>>
    BY <1>1, EnvironmentKeeps DEF regVars, undoVars
  <2>2. link' = "none" => link = "none"
    BY <1>1 DEF EnvironmentStep, Lose, OtherTakes, OtherLeaves, ReservationExpires, vars
  <2>3. QED
    BY <2>1, <2>2 DEF NothingWithoutClient
<1>2. CASE RegisteringStep \/ RequestStep \/ UndoStep \/ Subscribes
  <2>1. link # "none" \/ pc \notin SubscribePcs
    BY <1>a
  <2>2. link # "none"
    BY <1>2, <1>a DEF RegisteringStep, RegisterReservation, RegisterParams, RegisterEnable, RequestStep, SetReservation,
         SetParams, Purge, SetEnable, AfterEnable, UndoStep, UndoEnable, UndoParams, UndoReservation, ReadReservation,
         ReservationUnreachable, Release, Verify, Subscribes, Subscribe, SubscribePcs
  <2>3. link' \in {link, "lost"}
    BY <1>2 DEF RegisteringStep, RegisterReservation, RegisterParams, RegisterEnable, RequestStep, SetReservation,
         SetParams, Purge, SetEnable, AfterEnable, UndoStep, UndoEnable, UndoParams, UndoReservation, UndoWrite,
         ReadReservation, ReservationUnreachable, Release, Verify, Subscribes, Subscribe, Carries
  <2>4. QED
    BY <2>2, <2>3 DEF NothingWithoutClient
<1>3. CASE Connect \/ Reconnect \/ CheckConnection \/ CommandWithoutLink \/ NewProcess
  BY <1>3, <1>b DEF Connect, Reconnect, CheckConnection, CommandWithoutLink, NewProcess, NothingWithoutClient, regVars
<1>4. CASE Exit \/ Disconnect
  BY <1>4, <1>b DEF Exit, Disconnect, NothingWithoutClient, regVars
<1>5. CASE StopShowing \/ KeepSubscription \/ NotConnected \/ Interrupt \/ InterruptUndo \/ StopTake \/ StopFinish
  <2>1. link' = link
    BY <1>5 DEF StopShowing, KeepSubscription, NotConnected, Interrupt, InterruptUndo, StopTake, StopFinish
  <2>2. mode \in StopModes \/ (pc \in UndoPcs /\ mode # "exit") \/ pc \in SubscribePcs \cup {"showing"}
    BY <1>5 DEF StopShowing, KeepSubscription, NotConnected, Interrupt, InterruptUndo, StopTake, StopFinish, SubscribePcs
  <2>3. link # "none"
    BY <2>2, <1>a DEF NothingWithoutClient, SubscribePcs, StopModes, UndoPcs, TypeInv, Running
  <2>4. QED
    BY <2>1, <2>3 DEF NothingWithoutClient
<1>6. CASE RunTake
  BY <1>6, <1>b DEF RunTake, NothingWithoutClient
<1>7. CASE RunFinish \/ InterruptExit
  BY <1>7 DEF RunFinish, InterruptExit, NothingWithoutClient, regVars
<1>8. ASSUME NEW r \in RCBs, Resume(r) \/ StopCommand(r) PROVE NothingWithoutClient'
  BY <1>8 DEF Resume, StopCommand, NothingWithoutClient
<1>9. QED
  BY <1>1, <1>2, <1>3, <1>4, <1>5, <1>6, <1>7, <1>8
     DEF Next, Command, Handshake, Undoing, Environment, EnvironmentStep, RegisteringStep, RequestStep, UndoStep, Subscribes

(* No undo action is carried into an association it was not made for, whatever fails (session.py:238-263, *)
(* context.py:205-230).                                                                                  *)
THEOREM NothingCarriedOver == Spec => NewAssociationOwesNothing
<1>1. Init => NothingWithoutClient
  BY DEF Init, NothingWithoutClient
<1>2. TypeInv /\ NothingWithoutClient /\ [Next]_vars => NothingWithoutClient'
  BY ClientStep
<1>3. ASSUME NothingWithoutClient, [Next]_vars PROVE [link # "up" /\ link' = "up" => cleanups' = <<>>]_vars
  <2>1. Connect \/ Reconnect => (link # "up" /\ link' = "up" => cleanups' = <<>>)
    BY <1>3 DEF Connect, Reconnect, NothingWithoutClient, regVars
  <2>2. UNCHANGED vars => link' = link
    BY DEF vars
  <2>4. Next /\ ~Connect /\ ~Reconnect => link' \in {link, "lost", "none"}
    <3>1. EnvironmentStep => link' \in {link, "lost"}
      BY DEF EnvironmentStep, Lose, OtherTakes, OtherLeaves, ReservationExpires, vars
    <3>2. RegisteringStep \/ RequestStep \/ UndoStep \/ Subscribes => link' \in {link, "lost"}
      BY DEF RegisteringStep, RegisterReservation, RegisterParams, RegisterEnable, RequestStep, SetReservation,
           SetParams, Purge, SetEnable, AfterEnable, UndoStep, UndoEnable, UndoParams, UndoReservation, UndoWrite,
           ReadReservation, ReservationUnreachable, Release, Verify, Subscribes, Subscribe, Carries
    <3>3. CommandWithoutLink \/ CheckConnection \/ Disconnect \/ Exit \/ NewProcess \/ StopShowing
            \/ KeepSubscription \/ NotConnected \/ Interrupt \/ InterruptUndo => link' = link
      BY DEF CommandWithoutLink, CheckConnection, Disconnect, Exit, NewProcess, StopShowing, KeepSubscription,
             NotConnected, Interrupt, InterruptUndo
    <3>4. \A r \in RCBs : Resume(r) \/ StopCommand(r) => link' = link
      BY DEF Resume, StopCommand
    <3>5. TakeStep \/ InterruptExit => link' \in {link, "none"}
      BY DEF TakeStep, StopTake, StopFinish, RunTake, RunFinish, InterruptExit
    <3>6. QED
      BY <3>1, <3>2, <3>3, <3>4, <3>5
         DEF Next, Command, Handshake, Undoing, Environment, EnvironmentStep, RegisteringStep, RequestStep, UndoStep,
             Subscribes, TakeStep
  <2>5. QED
    BY <1>3, <2>1, <2>2, <2>4
<1>4. QED
  BY <1>1, <1>2, <1>3, TypeInvariant, PTL DEF Spec, NewAssociationOwesNothing

(* A BRCB that is about to be released is the tool's, unless the device lets clients take RCBs from one another. *)
LEMMA ReleaseOwnedStep ==
    ASSUME ~TakeoverAllowed, TypeInv, ReleaseOwned, [Next]_vars
    PROVE  ReleaseOwned'
<1>a. pc' # "release" => ReleaseOwned'
  BY DEF ReleaseOwned
<1>b. DeviceType /\ Me \notin Others /\ NoOne # Me
  BY ConstantsAssumption DEF TypeInv, TypeOK
<1>1. CASE ReadReservation
  <2>1. PICK o \in Answers :
            /\ Carries(o, UNCHANGED devVars)
            /\ IF Failed(o) THEN Settle(TRUE)
               ELSE /\ pc' = IF resv[hand[1]] = Me THEN "release" ELSE "verify"
                    /\ UNCHANGED <<regVars, subs, jobVars, undoVars, recVars>>
    BY <1>1 DEF ReadReservation
  <2>2. CASE Failed(o)
    BY <1>a, <2>1, <2>2 DEF Settle
  <2>3. CASE ~Failed(o)
    BY <1>a, <2>1, <2>3 DEF Failed, Carries, devVars, undoVars, ReleaseOwned
  <2>4. QED
    BY <2>2, <2>3
<1>2. CASE EnvironmentStep
  <2>1. pc' = pc /\ hand' = hand
    BY <1>2, EnvironmentKeeps DEF undoVars
  <2>2. SUFFICES ASSUME pc = "release", link' = "up" PROVE resv'[hand[1]] = Me
    BY <2>1 DEF ReleaseOwned
  <2>3. link = "up" /\ ~Lose
    BY <1>2, <2>2 DEF EnvironmentStep, Lose, OtherTakes, OtherLeaves, ReservationExpires, vars
  <2>4. hand[1] \in RCBs /\ resv[hand[1]] = Me
    BY <2>2, <2>3 DEF TypeInv, Running, ReleaseOwned, UndoPcs, Effects
  <2>5. ASSUME NEW r \in RCBs, NEW c \in Others, OtherTakes(r, c) PROVE resv'[hand[1]] = Me
    <3>1. c # Me /\ resv[r] \in {NoOne, c} /\ r # hand[1]
      BY <1>b, <2>4, <2>5 DEF OtherTakes
    <3>2. resv' = resv \/ resv' = [resv EXCEPT ![r] = c]
      BY <2>5 DEF OtherTakes, EnableFor, SetResv
    <3>3. QED
      BY <1>b, <2>4, <3>1, <3>2 DEF DeviceType
  <2>6. ASSUME NEW r \in RCBs, NEW c \in Others, OtherLeaves(r, c) PROVE resv'[hand[1]] = Me
    <3>1. resv' = IF resv[r] = c THEN [resv EXCEPT ![r] = NoOne] ELSE resv
      BY <2>6 DEF OtherLeaves
    <3>2. resv[r] = c => r # hand[1]
      BY <1>b, <2>4
    <3>3. QED
      BY <1>b, <2>4, <3>1, <3>2 DEF DeviceType
  <2>7. \A r \in RCBs : ~ReservationExpires(r)
    BY <2>3 DEF ReservationExpires
  <2>8. UNCHANGED vars => resv' = resv
    BY DEF vars, devVars
  <2>9. QED
    BY <1>2, <2>3, <2>4, <2>5, <2>6, <2>7, <2>8 DEF EnvironmentStep
<1>3. CASE Release \/ Verify \/ UndoEnable \/ UndoParams \/ UndoReservation \/ ReservationUnreachable
  <2>1. pc' # "release"
    BY <1>3 DEF Release, Verify, UndoEnable, UndoParams, UndoReservation, UndoWrite, ReservationUnreachable, Settle,
                CommandEnds
  <2>2. QED
    BY <1>a, <2>1
<1>4. CASE Commands \/ Subscribes \/ RegisteringStep \/ RequestStep \/ TakeStep \/ InterruptUndo \/ InterruptExit
  <2>1. Commands => pc' # "release"
    BY DEF Commands, Connect, Reconnect, CommandWithoutLink, CheckConnection, Disconnect, Exit, NewProcess, StopShowing,
           KeepSubscription, NotConnected, Interrupt, Resume, StopCommand, CommandEnds
  <2>2. Subscribes \/ RegisteringStep => pc' # "release"
    BY DEF Subscribes, Subscribe, RegisteringStep, RegisterReservation, RegisterParams, RegisterEnable
  <2>3. RequestStep => pc' # "release"
    BY PcAfter DEF RequestStep, SetReservation, SetParams, Purge, CommandEnds
  <2>4. InterruptUndo \/ InterruptExit => pc' # "release"
    BY DEF InterruptUndo, InterruptExit, CommandEnds
  <2>5. QED
    BY <1>4, <1>a, <2>1, <2>2, <2>3, <2>4, PcAfter
<1>5. QED
  BY <1>1, <1>2, <1>3, <1>4, OrderStepKinds
     DEF TakingStep, KeepingStep, UndoStep, Commands, TakeStep, RequestStep

(* The tool's cleanup does not release a BRCB another client has reserved, on a device that does not let clients take *)
(* RCBs from one another, whatever fails (reports.py:519-560).                                                        *)
THEOREM OthersKeepTheirs ==
    ASSUME ~TakeoverAllowed
    PROVE  Spec => ReleasesOnlyItsOwn
<1>1. Init => ReleaseOwned
  BY DEF Init, ReleaseOwned
<1>2. TypeInv /\ ReleaseOwned /\ [Next]_vars => ReleaseOwned'
  BY ReleaseOwnedStep
<1>3. ASSUME TypeInv, ReleaseOwned, [Next]_vars
      PROVE  [pc = "release" /\ pc' # "release" =>
                 \A r \in Buffered : resv[r] \in Others => resv'[r] = resv[r]]_vars
  <2> SUFFICES ASSUME pc = "release", pc' # "release", NEW r \in Buffered, resv[r] \in Others PROVE resv'[r] = resv[r]
    OBVIOUS
  <2>a. DeviceType /\ Me \notin Others /\ r \in RCBs
    BY <1>3, ConstantsAssumption DEF TypeInv, TypeOK
  <2>b. AssociationEnds => resv'[r] = resv[r]
    BY <2>a DEF AssociationEnds
  <2>1. CASE Release
    <3>1. CASE link # "up"
      BY <2>1, <3>1 DEF Release, devVars
    <3>2. CASE link = "up"
      <4>1. hand[1] # r
        BY <1>3, <2>a, <3>2 DEF ReleaseOwned
      <4>2. resv' = resv \/ AssociationEnds \/ resv' = [resv EXCEPT ![hand[1]] = NoOne]
        BY <2>1, <3>2 DEF Release, Carries, SetResv, devVars
      <4>3. QED
        BY <2>a, <2>b, <4>1, <4>2 DEF DeviceType
    <3>3. QED
      BY <3>1, <3>2
  <2>2. CASE InterruptUndo \/ InterruptExit
    BY <2>2, <2>b DEF InterruptUndo, InterruptExit, devVars
  <2>3. CASE ~Release /\ ~InterruptUndo /\ ~InterruptExit
    <3>1. ~EnvironmentStep
      BY EnvironmentKeeps
    <3>2. ~RegisteringStep /\ ~Subscribes
      BY DEF RegisteringStep, RegisterReservation, RegisterParams, RegisterEnable, Subscribes, Subscribe
    <3>3. ~SetEnable /\ ~StopTake /\ ~RunTake /\ ~Reconnect /\ ~CheckConnection
      BY DEF SetEnable, StopTake, RunTake, Reconnect, CheckConnection
    <3>4. ~(UndoEnable \/ UndoParams \/ UndoReservation \/ ReadReservation \/ ReservationUnreachable \/ Verify)
      BY DEF UndoEnable, UndoParams, UndoReservation, ReadReservation, ReservationUnreachable, Verify
    <3>5. ~(Connect \/ CommandWithoutLink \/ Disconnect \/ Exit \/ NewProcess \/ StopShowing \/ KeepSubscription
             \/ NotConnected \/ Interrupt \/ SetReservation \/ SetParams \/ Purge \/ AfterEnable \/ StopFinish \/ RunFinish)
      BY DEF Connect, CommandWithoutLink, Disconnect, Exit, NewProcess, StopShowing, KeepSubscription, NotConnected,
             Interrupt, SetReservation, SetParams, Purge, AfterEnable, StopFinish, RunFinish, SubscribePcs
    <3>6. \A q \in RCBs : ~Resume(q) /\ ~StopCommand(q)
      BY DEF Resume, StopCommand
    <3>7. QED
      BY <1>3, <2>3, <3>1, <3>2, <3>3, <3>4, <3>5, <3>6, OrderStepKinds DEF TakingStep, KeepingStep, UndoStep
  <2>4. QED
    BY <2>1, <2>2, <2>3
<1>4. QED
  BY <1>1, <1>2, <1>3, TypeInvariant, PTL DEF Spec, ReleasesOnlyItsOwn
=============================================================================
