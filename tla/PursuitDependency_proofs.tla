---------------------- MODULE PursuitDependency_proofs ----------------------
(***************************************************************************)
(* Theorems about PursuitDependency, for any set of pursuits.  Acyclicity  *)
(* needs the walk of the cycle check to be as long as the pursuits are     *)
(* many, and transactions that do not overlap; the theorems that need      *)
(* these say so.                                                           *)
(***************************************************************************)
EXTENDS PursuitDependency, FiniteSetTheorems, TLAPS

-----------------------------------------------------------------------------
(* The cycle check                                                         *)

(***************************************************************************)
(* A walk that has room for every pursuit misses nothing: the predecessor  *)
(* of a visited pursuit is visited.  A walk that used up its length in a   *)
(* forest would have met the predecessor already: otherwise it has more    *)
(* steps than pursuits to meet, meets one twice, and the pursuits between  *)
(* the two meetings form a closed set.                                     *)
(***************************************************************************)
LEMMA WalkIsClosed ==
  ASSUME IsFiniteSet(Pursuits), Cardinality(Pursuits) <= DepthCap,
         NEW f \in [Pursuits -> Target], Forest!IsForest(f),
         NEW t \in Pursuits, NEW q \in Walk(f, t), f[q] \in Pursuits
  PROVE  f[q] \in Walk(f, t)
<1>0. PICK n \in 1..DepthCap : \E path \in [1..n -> Pursuits] :
         /\ path[1] = t
         /\ path[n] = q
         /\ \A i \in 1..(n - 1) : f[path[i]] = path[i + 1]
  BY DEF Walk
<1>1. PICK path \in [1..n -> Pursuits] :
         /\ path[1] = t
         /\ path[n] = q
         /\ \A i \in 1..(n - 1) : f[path[i]] = path[i + 1]
  BY <1>0
<1>2. DepthCap \in Nat /\ n \in Nat /\ n >= 1 /\ n <= DepthCap
  BY DepthCapAssumption
<1>3. CASE n < DepthCap
  <2> DEFINE longer == [i \in 1..(n + 1) |-> IF i <= n THEN path[i] ELSE f[q]]
  <2>1. longer \in [1..(n + 1) -> Pursuits]
    BY <1>2
  <2>2. longer[1] = t /\ longer[n + 1] = f[q]
    BY <1>1, <1>2
  <2>3. ASSUME NEW i \in 1..((n + 1) - 1)
        PROVE  f[longer[i]] = longer[i + 1]
    <3>1. CASE i = n
      BY <3>1, <1>1, <1>2
    <3>2. CASE i < n
      BY <3>2, <1>1, <1>2
    <3>3. QED
      BY <3>1, <3>2, <1>2
  <2>4. n + 1 \in 1..DepthCap
    BY <1>2, <1>3
  <2> HIDE DEF longer
  <2>5. QED
    BY <2>1, <2>2, <2>3, <2>4 DEF Walk
<1>4. CASE \E j \in 1..n : path[j] = f[q]
  <2>1. PICK j \in 1..n : path[j] = f[q]
    BY <1>4
  <2> DEFINE prefix == [i \in 1..j |-> path[i]]
  <2>2. prefix \in [1..j -> Pursuits]
    BY <1>2
  <2>3. prefix[1] = t /\ prefix[j] = f[q]
    BY <1>1, <1>2, <2>1
  <2>4. \A i \in 1..(j - 1) : f[prefix[i]] = prefix[i + 1]
    BY <1>1, <1>2
  <2>5. j \in 1..DepthCap
    BY <1>2
  <2> HIDE DEF prefix
  <2>6. QED
    BY <2>2, <2>3, <2>4, <2>5 DEF Walk
<1>5. CASE n = DepthCap /\ \A j \in 1..n : path[j] # f[q]
  <2> DEFINE Others == Pursuits \ {f[q]}
  <2>1. IsFiniteSet(Others) /\ Cardinality(Others) = Cardinality(Pursuits) - 1
    BY FS_RemoveElement
  <2>2. Cardinality(Pursuits) \in Nat
    BY FS_CardinalityType
  <2>3. IsFiniteSet(1..n) /\ Cardinality(1..n) = n
    BY FS_Interval, <1>2
  <2>4. path \in [1..n -> Others]
    BY <1>5
  <2>5. Cardinality(Others) < Cardinality(1..n)
    BY <2>1, <2>2, <2>3, <1>2, <1>5
  <2> HIDE DEF Others
  <2>6. \E x, y \in 1..n : x # y /\ path[x] = path[y]
    BY ONLY <2>1, <2>3, <2>4, <2>5, FS_PigeonHole
  <2>7. PICK x, y \in 1..n : x < y /\ path[x] = path[y]
    BY <2>6, <1>2
  <2> DEFINE Loop == {path[k] : k \in x..(y - 1)}
  <2>8. Loop \in SUBSET Pursuits /\ Loop # {}
    <3>1. path[x] \in Loop
      BY <2>7, <1>2
    <3>2. QED
      BY <3>1, <1>2
  <2>9. ASSUME NEW k \in x..(y - 1)
        PROVE  f[path[k]] \in Loop
    <3>1. k \in 1..(n - 1) /\ f[path[k]] = path[k + 1]
      BY <1>1, <1>2
    <3>2. CASE k = y - 1
      <4>1. f[path[k]] = path[x]
        BY <3>1, <3>2, <2>7
      <4>2. QED
        BY <4>1, <2>7, <1>2
    <3>3. CASE k # y - 1
      <4>1. k + 1 \in x..(y - 1)
        BY <3>3, <1>2
      <4>2. QED
        BY <4>1, <3>1
    <3>4. QED
      BY <3>2, <3>3
  <2>10. QED
    BY <2>8, <2>9 DEF Forest!IsForest
<1>6. QED
  BY <1>2, <1>3, <1>4, <1>5

(* The walk starts at its start.                                           *)
LEMMA WalkStarts ==
  ASSUME NEW f, NEW t \in Pursuits
  PROVE  t \in Walk(f, t)
<1> DEFINE path == [i \in 1..1 |-> t]
<1>1. path \in [1..1 -> Pursuits] /\ path[1] = t
  OBVIOUS
<1>2. \A i \in 1..(1 - 1) : f[path[i]] = path[i + 1]
  OBVIOUS
<1>3. 1 \in 1..DepthCap
  BY DepthCapAssumption
<1> HIDE DEF path
<1>4. QED
  BY <1>1, <1>2, <1>3 DEF Walk

(***************************************************************************)
(* The check is sound: giving p a predecessor whose walk does not meet p   *)
(* leaves a forest.  A closed set of the new graph would hold p, so t, and *)
(* what it shares with the walk from t would be closed in the old one.     *)
(***************************************************************************)
LEMMA CheckedLinkKeepsForest ==
  ASSUME IsFiniteSet(Pursuits), Cardinality(Pursuits) <= DepthCap,
         NEW f \in [Pursuits -> Target], Forest!IsForest(f),
         NEW p \in Pursuits, NEW t \in Pursuits, p \notin Walk(f, t)
  PROVE  Forest!IsForest([f EXCEPT ![p] = t])
<1> DEFINE g == [f EXCEPT ![p] = t]
<1> SUFFICES ASSUME NEW S \in SUBSET Pursuits, S # {},
                    \A q \in S : g[q] \in S
             PROVE  FALSE
  BY DEF Forest!IsForest
<1>1. \A q \in Pursuits : g[q] = IF q = p THEN t ELSE f[q]
  OBVIOUS
<1> HIDE DEF g
<1>2. p \in S
  BY <1>1 DEF Forest!IsForest
<1> DEFINE Met == S \cap Walk(f, t)
<1>3. Met \in SUBSET Pursuits /\ Met # {}
  BY <1>1, <1>2, WalkStarts
<1>4. ASSUME NEW q \in Met
      PROVE  f[q] \in Met
  <2>1. q # p /\ q \in S /\ q \in Walk(f, t)
    OBVIOUS
  <2>2. f[q] \in S
    BY <2>1, <1>1
  <2>3. f[q] \in Walk(f, t)
    BY <2>1, <2>2, WalkIsClosed
  <2>4. QED
    BY <2>2, <2>3
<1>5. QED
  BY <1>3, <1>4 DEF Forest!IsForest

(* Removing predecessors leaves a forest.                                  *)
LEMMA ClearingKeepsForest ==
  ASSUME NEW f, Forest!IsForest(f), NEW g,
         \A q \in Pursuits : g[q] = f[q] \/ g[q] = NoPursuit
  PROVE  Forest!IsForest(g)
BY NoPursuitAssumption DEF Forest!IsForest

-----------------------------------------------------------------------------
(* Transactions that overlap                                               *)

LEMMA InitOverlapInv == Init => OverlapInv
BY NoPursuitAssumption
   DEF Init, OverlapInv, TypeOK, SoleSourceStandsAlone, PatchesHoldTheirRow,
       Target, Outcome, Patch, Recalc

(***************************************************************************)
(* Every step of Spec keeps the row-level invariant: the columns a PATCH   *)
(* may write never put a dependency on a sole source pursuit, and a row    *)
(* with a waiting PATCH takes no other writer.                             *)
(***************************************************************************)
LEMMA NextOverlapInv == OverlapInv /\ [Next]_vars => OverlapInv'
<1> SUFFICES ASSUME OverlapInv, [Next]_vars
             PROVE  OverlapInv'
  OBVIOUS
<1> USE DEF OverlapInv, TypeOK, SoleSourceStandsAlone, PatchesHoldTheirRow,
            Target, Outcome, Patch, Recalc
<1>1. ASSUME NEW p \in Pursuits, PatchPursuit(p)
      PROVE  OverlapInv'
  BY <1>1 DEF PatchPursuit, PatchAccepted, DependencyWritten, RowFree
<1>2. ASSUME NEW p \in Pursuits, SuspendPatch(p)
      PROVE  OverlapInv'
  BY <1>2 DEF SuspendPatch, PatchAccepted, DependencyWritten, RowFree
<1>3. ASSUME NEW p \in Pursuits, NEW o \in AcceptedOutcomes, SetOutcome(p, o)
      PROVE  OverlapInv'
  BY <1>3 DEF SetOutcome, RowFree, ClearedBy, Dependents, AcceptedOutcomes
<1>4. ASSUME NEW p \in Pursuits, NEW v \in BOOLEAN, SaveP2(p, v)
      PROVE  OverlapInv'
  BY <1>4 DEF SaveP2
<1>5. ASSUME NEW p \in Pursuits, BeginRecalc(p)
      PROVE  OverlapInv'
  BY <1>5 DEF BeginRecalc
<1>6. ASSUME NEW t \in patches, CommitPatch(t)
      PROVE  OverlapInv'
  BY <1>6 DEF CommitPatch
<1>7. ASSUME NEW r \in recalcs, FinishRecalc(r) \/ FailRecalc(r)
      PROVE  OverlapInv'
  BY <1>7 DEF FinishRecalc, FailRecalc
<1>8. CASE Restart
  BY <1>8 DEF Restart
<1>9. CASE UNCHANGED vars
  BY <1>9 DEF vars
<1>10. QED
  BY <1>1, <1>2, <1>3, <1>4, <1>5, <1>6, <1>7, <1>8, <1>9
     DEF Next, Request, Resume

THEOREM OverlapInvariance == Spec => []OverlapInv
BY InitOverlapInv, NextOverlapInv, PTL DEF Spec

(***************************************************************************)
(* TypeOK, whatever overlaps.                                              *)
(***************************************************************************)
THEOREM TypeCorrect == Spec => []TypeOK
BY OverlapInvariance, PTL DEF OverlapInv

(***************************************************************************)
(* A sole source pursuit never depends on another, whatever overlaps       *)
(* (patch_pursuit's two checks and its automatic clearing).                *)
(***************************************************************************)
THEOREM SoleSourceAlwaysAlone == Spec => []SoleSourceStandsAlone
BY OverlapInvariance, PTL DEF OverlapInv

(***************************************************************************)
(* The row a waiting PATCH has checked is the row it commits to.           *)
(***************************************************************************)
THEOREM PatchedRowStaysHeld == Spec => PatchedRowIsHeld
<1> DEFINE Held == \A t \in patches : t \in patches' =>
                      LET p == t.pursuit IN
                      /\ outcome[p] = "OPEN" /\ outcome'[p] = "OPEN"
                      /\ dependsOn'[p] = dependsOn[p]
                      /\ soleSource'[p] = soleSource[p]
<1>1. OverlapInv /\ OverlapInv' /\ [Next]_vars => [Held]_vars
  <2> SUFFICES ASSUME OverlapInv, OverlapInv', Next
               PROVE  Held
    OBVIOUS
  <2> SUFFICES ASSUME NEW t \in patches, t \in patches'
               PROVE  /\ dependsOn'[t.pursuit] = dependsOn[t.pursuit]
                      /\ soleSource'[t.pursuit] = soleSource[t.pursuit]
    BY DEF OverlapInv, PatchesHoldTheirRow
  <2> USE DEF OverlapInv, TypeOK, PatchesHoldTheirRow, Patch
  <2>1. ASSUME NEW p \in Pursuits, PatchPursuit(p)
        PROVE  p # t.pursuit
    BY <2>1 DEF PatchPursuit, PatchAccepted, RowFree
  <2>2. ASSUME NEW p \in Pursuits, NEW o \in AcceptedOutcomes, SetOutcome(p, o)
        PROVE  dependsOn'[t.pursuit] = dependsOn[t.pursuit]
    BY <2>2 DEF SetOutcome, RowFree
  <2>3. ASSUME NEW p \in Pursuits, NEW v \in BOOLEAN, SaveP2(p, v)
        PROVE  dependsOn'[t.pursuit] = dependsOn[t.pursuit]
    BY <2>3 DEF SaveP2, RowFree
  <2>4. ASSUME NEW s \in patches, CommitPatch(s)
        PROVE  s.pursuit # t.pursuit
    BY <2>4 DEF CommitPatch
  <2>5. QED
    BY <2>1, <2>2, <2>3, <2>4
       DEF Next, Request, Resume, PatchPursuit, SuspendPatch, SetOutcome,
           SaveP2, BeginRecalc, CommitPatch, FinishRecalc, FailRecalc, Restart
<1>2. QED
  BY <1>1, OverlapInvariance, PTL DEF Spec, PatchedRowIsHeld

-----------------------------------------------------------------------------
(* Transactions one at a time                                              *)

LEMMA InitSerialInv == Init => SerialInv
<1> SUFFICES ASSUME Init
             PROVE  SerialInv
  OBVIOUS
<1>1. Acyclic
  BY NoPursuitAssumption DEF Init, Acyclic, Forest!IsForest
<1>2. QED
  BY <1>1, NoPursuitAssumption
     DEF Init, SerialInv, TypeOK, Target, Outcome, Patch, Recalc,
         SoleSourceStandsAlone, LptaStandsAlone, NoDependentOfCancelled,
         AtMostOneWaiting, PatchesCurrent, RecalcsCurrent

(***************************************************************************)
(* What an accepted PATCH writes leaves a forest, and a legal row.         *)
(***************************************************************************)
LEMMA WrittenIsLegal ==
  ASSUME IsFiniteSet(Pursuits), Cardinality(Pursuits) <= DepthCap, SerialInv,
         NEW p \in Pursuits, NEW sole \in BOOLEAN, NEW d \in Target,
         DependencyWritten(p, sole, d)
  PROVE  /\ Forest!IsForest([dependsOn EXCEPT ![p] = d])
         /\ d # NoPursuit => ~sole /\ ~lpta[p] /\ outcome[d] # "CANCELLED"
<1> DEFINE f == [dependsOn EXCEPT ![p] = d]
<1>0. dependsOn \in [Pursuits -> Target] /\ Forest!IsForest(dependsOn)
  BY DEF SerialInv, TypeOK, Acyclic
<1>1. CASE d = dependsOn[p] \/ d = NoPursuit
  <2>1. \A q \in Pursuits : f[q] = dependsOn[q] \/ f[q] = NoPursuit
    BY <1>0, <1>1
  <2>2. Forest!IsForest(f)
    BY <2>1, <1>0, ClearingKeepsForest
  <2>3. d # NoPursuit => ~sole /\ ~lpta[p] /\ outcome[d] # "CANCELLED"
    <3>1. CASE d = NoPursuit
      BY <3>1
    <3>2. CASE d # NoPursuit /\ d = dependsOn[p]
      <4>1. ~soleSource[p] /\ ~lpta[p] /\ outcome[d] # "CANCELLED"
        BY <3>2 DEF SerialInv, SoleSourceStandsAlone, LptaStandsAlone,
                    NoDependentOfCancelled
      <4>2. ~sole
        BY <4>1, <3>2 DEF DependencyWritten
      <4>3. QED
        BY <4>1, <4>2
    <3>3. QED
      BY <3>1, <3>2, <1>1
  <2>4. QED
    BY <2>2, <2>3
<1>2. CASE ~sole /\ MayDependOn(p, d)
  <2>1. d \in Pursuits /\ ~lpta[p] /\ outcome[d] = "OPEN"
        /\ p \notin Walk(dependsOn, d)
    BY <1>2 DEF MayDependOn
  <2>2. Forest!IsForest(f)
    BY <2>1, <1>0, CheckedLinkKeepsForest
  <2>3. QED
    BY <2>1, <2>2, <1>2
<1>3. QED
  BY <1>1, <1>2 DEF DependencyWritten

(***************************************************************************)
(* Committing a row that is legal against the current state keeps what is  *)
(* promised of the committed columns.                                      *)
(***************************************************************************)
LEMMA CommitIsLegal ==
  ASSUME SerialInv, NEW p \in Pursuits, NEW d \in Target, NEW sole \in BOOLEAN,
         Forest!IsForest([dependsOn EXCEPT ![p] = d]),
         d # NoPursuit => ~sole /\ ~lpta[p] /\ outcome[d] # "CANCELLED",
         dependsOn' = [dependsOn EXCEPT ![p] = d],
         soleSource' = [soleSource EXCEPT ![p] = sole],
         outcome' = outcome, lpta' = lpta
  PROVE  /\ Acyclic'
         /\ SoleSourceStandsAlone'
         /\ LptaStandsAlone'
         /\ NoDependentOfCancelled'
<1> USE DEF SerialInv, TypeOK
<1>1. Acyclic'
  BY DEF Acyclic, Forest!IsForest
<1>2. SoleSourceStandsAlone'
  BY DEF SoleSourceStandsAlone
<1>3. LptaStandsAlone'
  BY DEF LptaStandsAlone
<1>4. NoDependentOfCancelled'
  BY DEF NoDependentOfCancelled
<1>5. QED
  BY <1>1, <1>2, <1>3, <1>4

(***************************************************************************)
(* Every step of SerialSpec keeps SerialInv.  Type correctness is not      *)
(* repeated: SerialNext is a case of Next, so it comes from the lemma      *)
(* above.                                                                  *)
(***************************************************************************)
LEMMA SerialInvRows == SerialInv => OverlapInv
BY DEF SerialInv, OverlapInv, PatchesHoldTheirRow, PatchesCurrent,
       AtMostOneWaiting, TypeOK, Patch

LEMMA NextSerialInv ==
  ASSUME IsFiniteSet(Pursuits), Cardinality(Pursuits) <= DepthCap
  PROVE  SerialInv /\ [SerialNext]_vars => SerialInv'
<1> SUFFICES ASSUME SerialInv, [SerialNext]_vars
             PROVE  SerialInv'
  OBVIOUS
<1>0. TypeOK /\ TypeOK'
  BY SerialInvRows, NextOverlapInv DEF OverlapInv, SerialNext, Next
<1> USE DEF SerialInv, Quiet
<1>1. ASSUME NEW p \in Pursuits, Quiet, PatchPursuit(p)
      PROVE  SerialInv'
  <2>1. PICK sole \in BOOLEAN, d \in Target :
          /\ PatchAccepted(p, sole, d)
          /\ dependsOn' = [dependsOn EXCEPT ![p] = d]
          /\ soleSource' = [soleSource EXCEPT ![p] = sole]
          /\ UNCHANGED <<outcome, lpta, patches, recalcs>>
    BY <1>1 DEF PatchPursuit
  <2>2. /\ Forest!IsForest([dependsOn EXCEPT ![p] = d])
        /\ d # NoPursuit => ~sole /\ ~lpta[p] /\ outcome[d] # "CANCELLED"
    BY <2>1, WrittenIsLegal DEF PatchAccepted
  <2>3. /\ Acyclic'
        /\ SoleSourceStandsAlone'
        /\ LptaStandsAlone'
        /\ NoDependentOfCancelled'
    BY <2>1, <2>2, CommitIsLegal
  <2>4. AtMostOneWaiting' /\ PatchesCurrent' /\ RecalcsCurrent'
    BY <1>1, <2>1 DEF AtMostOneWaiting, PatchesCurrent, RecalcsCurrent
  <2>5. QED
    BY <1>0, <2>3, <2>4
<1>2. ASSUME NEW p \in Pursuits, Quiet, SuspendPatch(p)
      PROVE  SerialInv'
  <2>1. PICK sole \in BOOLEAN, d \in Target :
          /\ PatchAccepted(p, sole, d)
          /\ patches' = patches \cup
                {[pursuit |-> p, dependsOn |-> d, soleSource |-> sole,
                  lpta |-> lpta[p]]}
          /\ UNCHANGED <<dependsOn, outcome, soleSource, lpta, recalcs>>
    BY <1>2 DEF SuspendPatch
  <2>2. /\ Forest!IsForest([dependsOn EXCEPT ![p] = d])
        /\ d # NoPursuit => ~sole /\ ~lpta[p] /\ outcome[d] # "CANCELLED"
    BY <2>1, WrittenIsLegal DEF PatchAccepted
  <2>3. /\ Acyclic'
        /\ SoleSourceStandsAlone'
        /\ LptaStandsAlone'
        /\ NoDependentOfCancelled'
    BY <2>1 DEF Acyclic, Forest!IsForest, SoleSourceStandsAlone,
                LptaStandsAlone, NoDependentOfCancelled
  <2>4. patches' = {[pursuit |-> p, dependsOn |-> d, soleSource |-> sole,
                     lpta |-> lpta[p]]} /\ recalcs' = {}
    BY <1>2, <2>1
  <2>5. AtMostOneWaiting' /\ RecalcsCurrent'
    BY <2>4 DEF AtMostOneWaiting, RecalcsCurrent
  <2>6. PatchesCurrent'
    BY <2>1, <2>2, <2>4 DEF PatchesCurrent, PatchAccepted, Forest!IsForest
  <2>7. QED
    BY <1>0, <2>3, <2>5, <2>6
<1>3. ASSUME NEW p \in Pursuits, NEW o \in AcceptedOutcomes, Quiet, SetOutcome(p, o)
      PROVE  SerialInv'
  <2>1. Acyclic'
    <3>1. \A q \in Pursuits :
            dependsOn'[q] = dependsOn[q] \/ dependsOn'[q] = NoPursuit
      BY <1>3 DEF SetOutcome
    <3>2. QED
      BY <3>1, ClearingKeepsForest DEF Acyclic, Forest!IsForest
  <2>2. SoleSourceStandsAlone' /\ LptaStandsAlone'
    BY <1>3 DEF SetOutcome, SoleSourceStandsAlone, LptaStandsAlone
  <2>3. NoDependentOfCancelled'
    BY <1>0, <1>3 DEF SetOutcome, NoDependentOfCancelled, ClearedBy,
                      Dependents, TypeOK, Target, Outcome
  <2>4. AtMostOneWaiting' /\ PatchesCurrent' /\ RecalcsCurrent'
    BY <1>3 DEF SetOutcome, AtMostOneWaiting, PatchesCurrent, RecalcsCurrent
  <2>5. QED
    BY <1>0, <2>1, <2>2, <2>3, <2>4
<1>4. ASSUME NEW p \in Pursuits, NEW v \in BOOLEAN, Quiet, SaveP2(p, v)
      PROVE  SerialInv'
  <2>1. Acyclic'
    <3>1. \A q \in Pursuits :
            dependsOn'[q] = dependsOn[q] \/ dependsOn'[q] = NoPursuit
      BY <1>0, <1>4 DEF SaveP2, TypeOK
    <3>2. QED
      BY <3>1, ClearingKeepsForest DEF Acyclic, Forest!IsForest
  <2>2. /\ SoleSourceStandsAlone'
        /\ LptaStandsAlone'
        /\ NoDependentOfCancelled'
    BY <1>0, <1>4 DEF SaveP2, SoleSourceStandsAlone, LptaStandsAlone,
                      NoDependentOfCancelled, TypeOK
  <2>3. AtMostOneWaiting' /\ PatchesCurrent' /\ RecalcsCurrent'
    BY <1>4 DEF SaveP2, AtMostOneWaiting, PatchesCurrent, RecalcsCurrent
  <2>4. QED
    BY <1>0, <2>1, <2>2, <2>3
<1> DEFINE ColumnsKept ==
      dependsOn' = dependsOn /\ soleSource' = soleSource
      /\ outcome' = outcome /\ lpta' = lpta
<1>c. ColumnsKept => /\ Acyclic'
                     /\ SoleSourceStandsAlone'
                     /\ LptaStandsAlone'
                     /\ NoDependentOfCancelled'
  BY DEF Acyclic, Forest!IsForest, SoleSourceStandsAlone, LptaStandsAlone,
         NoDependentOfCancelled
<1>5. ASSUME NEW p \in Pursuits, Quiet, BeginRecalc(p)
      PROVE  SerialInv'
  BY <1>0, <1>5, <1>c DEF BeginRecalc, AtMostOneWaiting, PatchesCurrent,
                          RecalcsCurrent
<1>6. ASSUME NEW t \in patches, CommitPatch(t)
      PROVE  SerialInv'
  <2>1. t.pursuit \in Pursuits /\ t.dependsOn \in Target
        /\ t.soleSource \in BOOLEAN
    BY <1>0 DEF TypeOK, Patch
  <2>2. t.lpta = lpta[t.pursuit] /\ lpta' = lpta
    <3>1. t.lpta = lpta[t.pursuit]
      BY DEF PatchesCurrent
    <3>2. lpta' = [lpta EXCEPT ![t.pursuit] = t.lpta] \/ lpta' = lpta
      BY <1>6 DEF CommitPatch
    <3>3. lpta = [lpta EXCEPT ![t.pursuit] = lpta[t.pursuit]]
      BY <1>0 DEF TypeOK
    <3>4. QED
      BY <3>1, <3>2, <3>3
  <2>3. /\ Acyclic'
        /\ SoleSourceStandsAlone'
        /\ LptaStandsAlone'
        /\ NoDependentOfCancelled'
    BY <1>6, <2>1, <2>2, CommitIsLegal DEF CommitPatch, PatchesCurrent
  <2>4. patches' = {} /\ recalcs' = {}
    BY <1>6 DEF CommitPatch, AtMostOneWaiting
  <2>5. AtMostOneWaiting' /\ PatchesCurrent' /\ RecalcsCurrent'
    BY <2>4 DEF AtMostOneWaiting, PatchesCurrent, RecalcsCurrent
  <2>6. QED
    BY <1>0, <2>3, <2>5
<1>7. ASSUME NEW r \in recalcs, FinishRecalc(r) \/ FailRecalc(r)
      PROVE  SerialInv'
  <2>1. ColumnsKept
    BY <1>0, <1>7 DEF FinishRecalc, FailRecalc, RecalcsCurrent, TypeOK
  <2>2. patches' = {} /\ recalcs' = {}
    BY <1>7 DEF FinishRecalc, FailRecalc, AtMostOneWaiting
  <2>3. AtMostOneWaiting' /\ PatchesCurrent' /\ RecalcsCurrent'
    BY <2>2 DEF AtMostOneWaiting, PatchesCurrent, RecalcsCurrent
  <2>4. QED
    BY <1>0, <1>c, <2>1, <2>3
<1>8. CASE Restart
  BY <1>0, <1>8, <1>c DEF Restart, AtMostOneWaiting, PatchesCurrent,
                          RecalcsCurrent
<1>9. CASE UNCHANGED vars
  BY <1>0, <1>9, <1>c DEF vars, AtMostOneWaiting, PatchesCurrent,
                          RecalcsCurrent, Forest!IsForest
<1>10. QED
  BY <1>1, <1>2, <1>3, <1>4, <1>5, <1>6, <1>7, <1>8, <1>9
     DEF SerialNext, Request, Resume

(***************************************************************************)
(* With room for every pursuit in the walk of the cycle check, and one     *)
(* transaction at a time, the whole inductive invariant holds.             *)
(***************************************************************************)
THEOREM SerialInvariance ==
  ASSUME IsFiniteSet(Pursuits), Cardinality(Pursuits) <= DepthCap
  PROVE  SerialSpec => []SerialInv
BY InitSerialInv, NextSerialInv, PTL DEF SerialSpec

(***************************************************************************)
(* The dependencies never form a cycle (the claim of                       *)
(* resolve_pursuit_dependency), under those two conditions.                *)
(***************************************************************************)
THEOREM DependenciesAcyclic ==
  ASSUME IsFiniteSet(Pursuits), Cardinality(Pursuits) <= DepthCap
  PROVE  SerialSpec => []Acyclic
BY SerialInvariance, PTL DEF SerialInv

(***************************************************************************)
(* Without overlap, a pursuit that is LPTA depends on nothing              *)
(* (write.py:1234-1248, plan_scope.py:478-484).                            *)
(***************************************************************************)
THEOREM LptaDependsOnNothing ==
  ASSUME IsFiniteSet(Pursuits), Cardinality(Pursuits) <= DepthCap
  PROVE  SerialSpec => []LptaStandsAlone
BY SerialInvariance, PTL DEF SerialInv

(***************************************************************************)
(* Without overlap, nothing depends on a cancelled pursuit                 *)
(* (plan_scope.py:485-494, 559-562).                                       *)
(***************************************************************************)
THEOREM NothingDependsOnCancelled ==
  ASSUME IsFiniteSet(Pursuits), Cardinality(Pursuits) <= DepthCap
  PROVE  SerialSpec => []NoDependentOfCancelled
BY SerialInvariance, PTL DEF SerialInv

-----------------------------------------------------------------------------
(* Refinement                                                              *)

(* A set of dependencies that only shrank is an Unlink.                    *)
LEMMA ShrinkingIsUnlink ==
  ASSUME TypeOK, TypeOK',
         \A q \in Pursuits : dependsOn'[q] = dependsOn[q] \/ dependsOn'[q] = NoPursuit
  PROVE  [Forest!Next]_dependsOn
<1> DEFINE S == {q \in Pursuits : dependsOn'[q] = NoPursuit}
<1>1. dependsOn' = [q \in Pursuits |-> IF q \in S THEN NoPursuit ELSE dependsOn[q]]
  BY DEF TypeOK
<1>2. S \in SUBSET Pursuits
  OBVIOUS
<1> HIDE DEF S
<1>3. QED
  BY <1>1, <1>2 DEF Forest!Next, Forest!Unlink

(* Writing one pursuit's legal dependency is a Link or an Unlink.          *)
LEMMA LegalWriteIsForestStep ==
  ASSUME TypeOK, TypeOK', NEW p \in Pursuits, NEW d \in Target,
         Forest!IsForest([dependsOn EXCEPT ![p] = d]),
         dependsOn' = [dependsOn EXCEPT ![p] = d]
  PROVE  [Forest!Next]_dependsOn
<1>1. CASE d \in Pursuits
  BY <1>1 DEF Forest!Next, Forest!Link
<1>2. CASE d = NoPursuit
  BY <1>2, ShrinkingIsUnlink DEF TypeOK
<1>3. QED
  BY <1>1, <1>2 DEF Target

(***************************************************************************)
(* The handlers implement DependencyForest: every step, taken alone, links *)
(* one pursuit into the forest, unlinks some, or leaves the dependencies   *)
(* as they are.                                                            *)
(***************************************************************************)
THEOREM ImplementsForest ==
  ASSUME IsFiniteSet(Pursuits), Cardinality(Pursuits) <= DepthCap
  PROVE  SerialSpec => ForestSpec
<1>1. Init => Forest!Init
  BY DEF Init, Forest!Init
<1>2. SerialInv /\ SerialInv' /\ [SerialNext]_vars => [Forest!Next]_dependsOn
  <2> SUFFICES ASSUME SerialInv, SerialInv', [SerialNext]_vars
               PROVE  [Forest!Next]_dependsOn
    OBVIOUS
  <2>0. TypeOK /\ TypeOK'
    BY DEF SerialInv
  <2>1. ASSUME NEW p \in Pursuits, PatchPursuit(p)
        PROVE  [Forest!Next]_dependsOn
    <3>1. PICK sole \in BOOLEAN, d \in Target :
            /\ DependencyWritten(p, sole, d)
            /\ dependsOn' = [dependsOn EXCEPT ![p] = d]
      BY <2>1 DEF PatchPursuit, PatchAccepted
    <3>2. QED
      BY <3>1, <2>0, WrittenIsLegal, LegalWriteIsForestStep
  <2>2. ASSUME NEW p \in Pursuits, NEW o \in AcceptedOutcomes, SetOutcome(p, o)
        PROVE  [Forest!Next]_dependsOn
    <3>1. \A q \in Pursuits :
            dependsOn'[q] = dependsOn[q] \/ dependsOn'[q] = NoPursuit
      BY <2>2 DEF SetOutcome
    <3>2. QED
      BY <3>1, <2>0, ShrinkingIsUnlink
  <2>3. ASSUME NEW p \in Pursuits, NEW v \in BOOLEAN, SaveP2(p, v)
        PROVE  [Forest!Next]_dependsOn
    <3>1. \A q \in Pursuits :
            dependsOn'[q] = dependsOn[q] \/ dependsOn'[q] = NoPursuit
      BY <2>0, <2>3 DEF SaveP2, TypeOK
    <3>2. QED
      BY <3>1, <2>0, ShrinkingIsUnlink
  <2>4. ASSUME NEW t \in patches, CommitPatch(t)
        PROVE  [Forest!Next]_dependsOn
    <3>1. /\ t.pursuit \in Pursuits /\ t.dependsOn \in Target
          /\ Forest!IsForest([dependsOn EXCEPT ![t.pursuit] = t.dependsOn])
          /\ dependsOn' = [dependsOn EXCEPT ![t.pursuit] = t.dependsOn]
      BY <2>0, <2>4 DEF CommitPatch, SerialInv, PatchesCurrent, TypeOK, Patch
    <3>2. QED
      BY <3>1, <2>0, LegalWriteIsForestStep
  <2>5. QED
    BY <2>1, <2>2, <2>3, <2>4
       DEF SerialNext, Request, Resume, SuspendPatch, BeginRecalc,
           FinishRecalc, FailRecalc, Restart, vars
<1>3. QED
  BY <1>1, <1>2, SerialInvariance, PTL DEF SerialSpec, ForestSpec, Forest!Spec

-----------------------------------------------------------------------------
(* Closed pursuits                                                         *)

(***************************************************************************)
(* With transactions one at a time, a pursuit that stays closed changes    *)
(* only by losing a predecessor that is being cancelled (set_outcome and   *)
(* its automatic clearing; every other handler refuses a closed pursuit).  *)
(***************************************************************************)
THEOREM ClosedChangesOnlyWhenPredecessorCancelled ==
  ASSUME IsFiniteSet(Pursuits), Cardinality(Pursuits) <= DepthCap
  PROVE  SerialSpec => ClosedChangesOnlyByCancellation
<1>1. SerialInv /\ [SerialNext]_vars =>
        [\A p \in Pursuits :
           outcome[p] # "OPEN" /\ outcome'[p] # "OPEN" =>
             OnlyLosesCancelled(p)]_vars
  <2> SUFFICES ASSUME SerialInv, SerialNext, NEW p \in Pursuits,
                      outcome[p] # "OPEN"
               PROVE  OnlyLosesCancelled(p)
    BY Zenon
  <2> USE DEF OnlyLosesCancelled
  <2>0. TypeOK
    BY DEF SerialInv
  <2>1. ASSUME NEW q \in Pursuits, PatchPursuit(q)
        PROVE  OnlyLosesCancelled(p)
    <3>1. q # p
      BY <2>1 DEF PatchPursuit, PatchAccepted
    <3>2. QED
      BY <2>0, <2>1, <3>1 DEF PatchPursuit, TypeOK
  <2>2. ASSUME NEW q \in Pursuits, NEW o \in AcceptedOutcomes, SetOutcome(q, o)
        PROVE  OnlyLosesCancelled(p)
    BY <2>0, <2>2 DEF SetOutcome, ClearedBy, Dependents, TypeOK
  <2>3. ASSUME NEW q \in Pursuits, NEW v \in BOOLEAN, SaveP2(q, v)
        PROVE  OnlyLosesCancelled(p)
    <3>1. q # p
      BY <2>3 DEF SaveP2
    <3>2. QED
      BY <2>0, <2>3, <3>1 DEF SaveP2, TypeOK
  <2>4. ASSUME NEW t \in patches, CommitPatch(t)
        PROVE  OnlyLosesCancelled(p)
    <3>1. t.pursuit # p
      BY DEF SerialInv, PatchesCurrent
    <3>2. QED
      BY <2>0, <2>4, <3>1 DEF CommitPatch, TypeOK
  <2>5. ASSUME NEW r \in recalcs, FinishRecalc(r) \/ FailRecalc(r)
        PROVE  OnlyLosesCancelled(p)
    <3>1. r.pursuit # p
      BY DEF SerialInv, RecalcsCurrent
    <3>2. QED
      BY <2>0, <2>5, <3>1 DEF FinishRecalc, FailRecalc, TypeOK
  <2>6. ASSUME \/ \E q \in Pursuits : SuspendPatch(q) \/ BeginRecalc(q)
               \/ Restart
        PROVE  OnlyLosesCancelled(p)
    BY <2>6 DEF SuspendPatch, BeginRecalc, Restart
  <2>7. QED
    BY <2>1, <2>2, <2>3, <2>4, <2>5, <2>6 DEF SerialNext, Request, Resume
<1>2. QED
  BY <1>1, SerialInvariance, PTL
     DEF SerialSpec, ClosedChangesOnlyByCancellation
=============================================================================
