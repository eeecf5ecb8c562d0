------------------------- MODULE PursuitDependency -------------------------
(***************************************************************************)
(* The dependency between pursuits, and every handler that reads or writes *)
(* it: PATCH /pursuits/{id} (write.py), POST /outcome (write.py,           *)
(* plan_scope.py), PATCH /answers for question P2 (write.py) and the       *)
(* recalculation that carries P2 forward (recalc.py).                      *)
(*                                                                         *)
(* Handlers are coroutines of one event loop that call the database        *)
(* synchronously, so a handler is one step -- except where it awaits the   *)
(* Pwin engine inside its open transaction.  Two of them do: the           *)
(* recalculation, which has only read so far, and a PATCH that turns sole  *)
(* source off or reverts the stage to Pre-BH, which by then has updated    *)
(* its pursuit row but not committed.  Transactions are READ COMMITTED.    *)
(*                                                                         *)
(* Bid decision, stage, dates and Pwin values do not bear on the           *)
(* dependency and are left to PwinAssessment.                              *)
(***************************************************************************)
EXTENDS Naturals, FiniteSets

CONSTANTS
    Pursuits,    \* the pursuits of one client
    NoPursuit,   \* the NULL of depends_on_pursuit_id
    DepthCap,    \* how many pursuits the cycle check's walk visits (50)
    PoolSize     \* connections in the pool (10); one per open transaction

ASSUME NoPursuitAssumption == NoPursuit \notin Pursuits
ASSUME DepthCapAssumption == DepthCap \in Nat \ {0}
ASSUME PoolSizeAssumption == PoolSize \in Nat \ {0}

VARIABLES
    dependsOn,   \* pursuit.depends_on_pursuit_id
    outcome,     \* pursuit.outcome; DECIDED is WON or LOST, OPEN is NULL
    soleSource,  \* pursuit.is_sole_source
    lpta,        \* the latest BASE questionnaire answers P2 with LPTA
    patches,     \* PATCH transactions awaiting the engine: the row they wrote
                 \* and the P2 they read
    recalcs      \* recalculations awaiting the engine: the P2 they read

vars == <<dependsOn, outcome, soleSource, lpta, patches, recalcs>>

Forest == INSTANCE DependencyForest WITH predecessor <- dependsOn

Target == Pursuits \cup {NoPursuit}
Outcome == {"OPEN", "DECIDED", "CANCELLED"}
Patch == [pursuit: Pursuits, dependsOn: Target, soleSource: BOOLEAN,
          lpta: BOOLEAN]
Recalc == [pursuit: Pursuits, lpta: BOOLEAN]

TypeOK ==
    /\ dependsOn \in [Pursuits -> Target]
    /\ outcome \in [Pursuits -> Outcome]
    /\ soleSource \in [Pursuits -> BOOLEAN]
    /\ lpta \in [Pursuits -> BOOLEAN]
    /\ patches \in SUBSET Patch
    /\ recalcs \in SUBSET Recalc

Init ==
    /\ dependsOn = [p \in Pursuits |-> NoPursuit]
    /\ outcome = [p \in Pursuits |-> "OPEN"]
    /\ soleSource = [p \in Pursuits |-> FALSE]
    /\ lpta = [p \in Pursuits |-> FALSE]
    /\ patches = {}
    /\ recalcs = {}

-----------------------------------------------------------------------------
(* Database resources                                                      *)

(* Every handler starts by taking a pooled connection.                     *)
ConnectionFree == Cardinality(patches) + Cardinality(recalcs) < PoolSize

(* Mutant of RowFree: the row is not locked while the engine is awaited,   *)
(* as if the PATCH wrote it only afterwards.                               *)
RowNeverLocked(p) == TRUE

(* No open transaction has updated p's row.  An UPDATE of a locked row     *)
(* does not return.                                                        *)
RowFree(p) == \A t \in patches : t.pursuit # p

-----------------------------------------------------------------------------
(* resolve_pursuit_dependency                                              *)

(* The walk of the cycle check: the pursuits met by following f from t, at *)
(* most DepthCap of them.                                                  *)
Walk(f, t) ==
    {q \in Pursuits :
        \E n \in 1..DepthCap : \E path \in [1..n -> Pursuits] :
            /\ path[1] = t
            /\ path[n] = q
            /\ \A i \in 1..(n - 1) : f[path[i]] = path[i + 1]}

(* Mutant of MayDependOn: a pursuit may not depend on itself, and that is  *)
(* all that is checked of the graph.                                       *)
MayDependOnUnwalked(p, t) ==
    /\ ~lpta[p]
    /\ t \in Pursuits
    /\ outcome[t] = "OPEN"
    /\ t # p

(* Mutant of MayDependOn: the target may be closed.                        *)
MayDependOnClosed(p, t) ==
    /\ ~lpta[p]
    /\ t \in Pursuits
    /\ t # p
    /\ p \notin Walk(dependsOn, t)

MayDependOn(p, t) ==
    /\ ~lpta[p]
    /\ t \in Pursuits
    /\ outcome[t] = "OPEN"
    /\ t # p
    /\ p \notin Walk(dependsOn, t)

-----------------------------------------------------------------------------
(* PATCH /pursuits/{id}                                                    *)

(* Mutant of DependencyWritten: turning sole source on leaves the          *)
(* dependency alone.                                                       *)
DependencyKeptBySoleSource(p, sole, d) ==
    \/ d \in {dependsOn[p], NoPursuit}
    \/ ~sole /\ MayDependOn(p, d)

(* What a PATCH that leaves is_sole_source at `sole` may write to          *)
(* depends_on_pursuit_id: the value it had (nothing, when sole source is   *)
(* being turned on), an explicit null, or a checked target.                *)
DependencyWritten(p, sole, d) ==
    \/ d = IF sole /\ ~soleSource[p] THEN NoPursuit ELSE dependsOn[p]
    \/ d = NoPursuit
    \/ ~sole /\ MayDependOn(p, d)

(* Mutant of PatchAccepted: a closed pursuit may be edited.                *)
PatchAcceptedClosed(p, sole, d) ==
    /\ ConnectionFree
    /\ RowFree(p)
    /\ DependencyWritten(p, sole, d)

PatchAccepted(p, sole, d) ==
    /\ ConnectionFree
    /\ RowFree(p)
    /\ outcome[p] = "OPEN"
    /\ DependencyWritten(p, sole, d)

PatchPursuit(p) ==
    \E sole \in BOOLEAN, d \in Target :
        /\ PatchAccepted(p, sole, d)
        /\ dependsOn' = [dependsOn EXCEPT ![p] = d]
        /\ soleSource' = [soleSource EXCEPT ![p] = sole]
        /\ UNCHANGED <<outcome, lpta, patches, recalcs>>

(* The same PATCH, when it also recalculates: the row is written and the   *)
(* transaction stays open over the call to the engine.                     *)
SuspendPatch(p) ==
    \E sole \in BOOLEAN, d \in Target :
        /\ PatchAccepted(p, sole, d)
        /\ patches' = patches \cup
               {[pursuit |-> p, dependsOn |-> d, soleSource |-> sole,
                 lpta |-> lpta[p]]}
        /\ UNCHANGED <<dependsOn, outcome, soleSource, lpta, recalcs>>

(* The engine answers, and the answers read before the call become those   *)
(* of the new latest questionnaire row; or it fails, which is not fatal to *)
(* the PATCH.                                                              *)
CommitPatch(t) ==
    /\ patches' = patches \ {t}
    /\ dependsOn' = [dependsOn EXCEPT ![t.pursuit] = t.dependsOn]
    /\ soleSource' = [soleSource EXCEPT ![t.pursuit] = t.soleSource]
    /\ \/ lpta' = [lpta EXCEPT ![t.pursuit] = t.lpta]
       \/ lpta' = lpta
    /\ UNCHANGED <<outcome, recalcs>>

-----------------------------------------------------------------------------
(* POST /pursuits/{id}/outcome                                             *)

(* OutcomeIn's validator; null reopens.                                    *)
AcceptedOutcomes == {"OPEN", "DECIDED", "CANCELLED"}

Dependents(p) == {q \in Pursuits : dependsOn[q] = p}

(* Mutant of ClearedBy: winning or losing clears the dependents too.       *)
ClearedByAnyClosing(p, o) == IF o # "OPEN" THEN Dependents(p) ELSE {}

(* auto_clear_dependents_of_outcome runs on a transition into CANCELLED,   *)
(* over every dependent the transaction can see.                           *)
ClearedBy(p, o) ==
    IF o = "CANCELLED" /\ outcome[p] # "CANCELLED" THEN Dependents(p) ELSE {}

SetOutcome(p, o) ==
    /\ ConnectionFree
    /\ \A q \in ClearedBy(p, o) \cup {p} : RowFree(q)
    /\ outcome' = [outcome EXCEPT ![p] = o]
    /\ dependsOn' = [q \in Pursuits |->
                        IF q \in ClearedBy(p, o) THEN NoPursuit
                                                 ELSE dependsOn[q]]
    /\ UNCHANGED <<soleSource, lpta, patches, recalcs>>

-----------------------------------------------------------------------------
(* PATCH /pursuits/{id}/answers, BASE scenario; v is the merged P2 = LPTA  *)

(* Mutant of SaveP2: the dependency outlives the LPTA answer.              *)
SaveP2KeepsDependency(p, v) ==
    /\ ConnectionFree
    /\ outcome[p] = "OPEN"
    /\ lpta' = [lpta EXCEPT ![p] = v]
    /\ UNCHANGED <<dependsOn, outcome, soleSource, patches, recalcs>>

SaveP2(p, v) ==
    /\ ConnectionFree
    /\ outcome[p] = "OPEN"
    /\ v /\ dependsOn[p] # NoPursuit => RowFree(p)
    /\ lpta' = [lpta EXCEPT ![p] = v]
    /\ dependsOn' = IF v THEN [dependsOn EXCEPT ![p] = NoPursuit]
                         ELSE dependsOn
    /\ UNCHANGED <<outcome, soleSource, patches, recalcs>>

-----------------------------------------------------------------------------
(* POST /pursuits/{id}/recalculate                                         *)

BeginRecalc(p) ==
    /\ ConnectionFree
    /\ outcome[p] = "OPEN"
    /\ ~soleSource[p]
    /\ recalcs' = recalcs \cup {[pursuit |-> p, lpta |-> lpta[p]]}
    /\ UNCHANGED <<dependsOn, outcome, soleSource, lpta, patches>>

(* The answers read before the call to the engine become the answers of    *)
(* the new latest questionnaire row.                                       *)
FinishRecalc(r) ==
    /\ recalcs' = recalcs \ {r}
    /\ lpta' = [lpta EXCEPT ![r.pursuit] = r.lpta]
    /\ UNCHANGED <<dependsOn, outcome, soleSource, patches>>

(* Any failure of the engine ends the request with nothing written.        *)
FailRecalc(r) ==
    /\ recalcs' = recalcs \ {r}
    /\ UNCHANGED <<dependsOn, outcome, soleSource, lpta, patches>>

(* The process is restarted: every open transaction is rolled back.        *)
Restart ==
    /\ patches \cup recalcs # {}
    /\ patches' = {}
    /\ recalcs' = {}
    /\ UNCHANGED <<dependsOn, outcome, soleSource, lpta>>

-----------------------------------------------------------------------------
(* A request that runs from its first statement to its last or to its      *)
(* await, and the end of one that was waiting.                             *)
Request ==
    \E p \in Pursuits :
        \/ PatchPursuit(p)
        \/ SuspendPatch(p)
        \/ \E o \in AcceptedOutcomes : SetOutcome(p, o)
        \/ \E v \in BOOLEAN : SaveP2(p, v)
        \/ BeginRecalc(p)

Resume ==
    \/ \E t \in patches : CommitPatch(t)
    \/ \E r \in recalcs : FinishRecalc(r) \/ FailRecalc(r)
    \/ Restart

Next == Request \/ Resume

Spec == Init /\ [][Next]_vars

(* The same handlers when no request arrives while another one waits for   *)
(* the engine: what the code would do if each transaction ran alone.       *)
Quiet == patches = {} /\ recalcs = {}

SerialNext == (Quiet /\ Request) \/ Resume

SerialSpec == Init /\ [][SerialNext]_vars

-----------------------------------------------------------------------------
(* Properties                                                              *)

(***************************************************************************)
(* No chain of "Depends on" ever closes on itself, so a blended Pwin never *)
(* feeds on itself (resolve_pursuit_dependency's cycle check).             *)
(***************************************************************************)
Acyclic == Forest!IsForest(dependsOn)

(***************************************************************************)
(* A sole source pursuit depends on nothing: sole source bypasses the      *)
(* engine, so there is nothing to blend (patch_pursuit).                   *)
(***************************************************************************)
SoleSourceStandsAlone ==
    \A p \in Pursuits : soleSource[p] => dependsOn[p] = NoPursuit

(***************************************************************************)
(* A pursuit answered LPTA depends on nothing (resolve_pursuit_dependency  *)
(* refuses it, set_questionnaire_answers clears it).                       *)
(***************************************************************************)
LptaStandsAlone ==
    \A p \in Pursuits : lpta[p] => dependsOn[p] = NoPursuit

(***************************************************************************)
(* Nothing depends on a cancelled pursuit: the blend has no meaning for    *)
(* it, so its dependents are cleared (auto_clear_dependents_of_outcome).   *)
(***************************************************************************)
NoDependentOfCancelled ==
    \A p \in Pursuits :
        dependsOn[p] # NoPursuit => outcome[dependsOn[p]] # "CANCELLED"

(***************************************************************************)
(* While a PATCH waits for the engine its pursuit stays open and its row   *)
(* stays as the PATCH read it: the checks made before the await still hold *)
(* of that row at the commit (patch_pursuit updates, and so locks, the row *)
(* before the await).                                                      *)
(***************************************************************************)
PatchedRowIsHeld ==
    [][\A t \in patches : t \in patches' =>
          LET p == t.pursuit IN
          /\ outcome[p] = "OPEN" /\ outcome'[p] = "OPEN"
          /\ dependsOn'[p] = dependsOn[p]
          /\ soleSource'[p] = soleSource[p]]_vars

(* This step keeps p's row, or p loses a predecessor being cancelled.      *)
OnlyLosesCancelled(p) ==
    /\ soleSource'[p] = soleSource[p]
    /\ lpta'[p] = lpta[p]
    /\ dependsOn'[p] # dependsOn[p] =>
          /\ dependsOn'[p] = NoPursuit
          /\ outcome'[dependsOn[p]] = "CANCELLED"

(***************************************************************************)
(* A closed pursuit is history, up to one exception: when transactions run *)
(* alone, only the cancellation of its predecessor ever touches one.       *)
(***************************************************************************)
ClosedChangesOnlyByCancellation ==
    [][\A p \in Pursuits :
          outcome[p] # "OPEN" /\ outcome'[p] # "OPEN" =>
              OnlyLosesCancelled(p)]_vars

(***************************************************************************)
(* The handlers, one transaction at a time, do to the dependencies nothing *)
(* but what a forest allows.                                               *)
(***************************************************************************)
ForestSpec == Forest!Spec

-----------------------------------------------------------------------------
(* The inductive invariant of Spec                                         *)

(* A waiting PATCH is alone on its row, which it may commit.               *)
PatchesHoldTheirRow ==
    /\ \A s, t \in patches : s.pursuit = t.pursuit => s = t
    /\ \A t \in patches :
          /\ outcome[t.pursuit] = "OPEN"
          /\ t.soleSource => t.dependsOn = NoPursuit

OverlapInv == TypeOK /\ SoleSourceStandsAlone /\ PatchesHoldTheirRow

-----------------------------------------------------------------------------
(* The inductive invariant of SerialSpec                                   *)

(* At most one request waits for the engine.                               *)
AtMostOneWaiting ==
    /\ patches = {} \/ recalcs = {}
    /\ \A s, t \in patches : s = t
    /\ \A s, t \in recalcs : s = t

(* What a waiting PATCH wrote may be committed against the state it will   *)
(* be committed to.                                                        *)
PatchesCurrent ==
    \A t \in patches :
        /\ outcome[t.pursuit] = "OPEN"
        /\ t.lpta = lpta[t.pursuit]
        /\ Forest!IsForest([dependsOn EXCEPT ![t.pursuit] = t.dependsOn])
        /\ t.dependsOn # NoPursuit =>
              /\ ~t.soleSource
              /\ ~t.lpta
              /\ outcome[t.dependsOn] # "CANCELLED"

(* What a waiting recalculation read is still so, and its pursuit open.    *)
RecalcsCurrent ==
    \A r \in recalcs : outcome[r.pursuit] = "OPEN" /\ r.lpta = lpta[r.pursuit]

SerialInv ==
    /\ TypeOK
    /\ Acyclic
    /\ SoleSourceStandsAlone
    /\ LptaStandsAlone
    /\ NoDependentOfCancelled
    /\ AtMostOneWaiting
    /\ PatchesCurrent
    /\ RecalcsCurrent
=============================================================================
