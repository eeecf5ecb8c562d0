--------------------------- MODULE PwinAssessment ---------------------------
(***************************************************************************)
(* The history of one pursuit's Pwin: the pwin_assessment rows, and every  *)
(* handler that adds a row, rewrites one in place or changes which of them *)
(* is current.  PATCH, /outcome and /answers (write.py), /recalculate      *)
(* (recalc.py), /blackhat and /ptw (bhptw.py), and the clearing that       *)
(* another pursuit's cancellation causes (plan_scope.py).                  *)
(*                                                                         *)
(* As in PursuitDependency, a handler is one step except where it awaits   *)
(* the Pwin engine inside its open transaction.  A PATCH may do that three *)
(* times: to leave sole source, and to revert to Pre-BH, for each of the   *)
(* two scenarios.                                                          *)
(*                                                                         *)
(* Data is cut down to where it came from.  A Pwin is the engine's, an     *)
(* analyst's, the sole source rule's or a blend; the answers of a          *)
(* questionnaire row are the number of the save that last changed them.    *)
(* A call the engine would not even be sent, for want of a fee or of the   *)
(* price answer, is one that fails.                                        *)
(* Which dependency may be set, and which answers are LPTA, is             *)
(* PursuitDependency's subject: here either may happen at any time.        *)
(***************************************************************************)
EXTENDS Naturals, Sequences, FiniteSets

CONSTANTS
    PoolSize,    \* connections in the pool (10); one per open transaction
    MaxTime,     \* bound: transactions that get a calculated_at of their own
    MaxSaves     \* bound: saves of one scenario's answers

ASSUME PoolSizeAssumption == PoolSize \in Nat \ {0}
ASSUME BoundsAssumption == MaxTime \in Nat /\ MaxSaves \in Nat

VARIABLES
    closed,      \* pursuit.outcome is not NULL
    stage,       \* pursuit.pipeline_stage_id: Pre-BH, or any later stage
    soleSource,  \* pursuit.is_sole_source
    dep,         \* pursuit.depends_on_pursuit_id is not NULL
    complete,    \* pursuit.black_hat_ptw_complete
    rows,        \* pwin_assessment, in the order the rows were committed
    clock,       \* the latest start time given to a transaction that writes rows
    patches,     \* the PATCH transaction awaiting the engine, if any
    recalcs      \* recalculations awaiting the engine

columns == <<closed, stage, soleSource, dep, complete>>
vars == <<closed, stage, soleSource, dep, complete, rows, clock, patches,
          recalcs>>

Scenario == {"BASE", "DEPENDENT_WON"}
Stage == {"PRE_BH", "LATER"}
Time == 1..MaxTime
Answers == 0..MaxSaves      \* 0: no answers

(* pwin_assessment, one member per set of columns its writers fill.  Only  *)
(* a BASE row is ever blended or carries the sole source rule.  BH_PTW     *)
(* stands for BLACK_HAT and PTW, which nothing here tells apart.           *)
Row ==
    [scenario: {"BASE"}, type: {"QUESTIONNAIRE", "BH_PTW"}, at: Time,
     current: BOOLEAN, pwin: {"NONE", "ENGINE", "ENTERED", "RULE", "BLEND"},
     base: {"NONE", "ENGINE", "ENTERED"}, blended: {"NONE", "RULE", "BLEND"},
     rule: BOOLEAN, answers: Answers]
    \cup
    [scenario: {"DEPENDENT_WON"}, type: {"QUESTIONNAIRE", "BH_PTW"}, at: Time,
     current: BOOLEAN, pwin: {"NONE", "ENGINE", "ENTERED"},
     base: {"NONE", "ENGINE", "ENTERED"}, blended: {"NONE"},
     rule: {FALSE}, answers: Answers]

(* A suspended PATCH: the columns it wrote, whether it switched sole       *)
(* source, the call it waits for with the answers it sent, and the answers *)
(* of the rows it has already inserted (0: none).                          *)
Patch ==
    [sole: {"KEEP", "ON", "OFF"}, soleSource: BOOLEAN, stage: Stage,
     reverted: BOOLEAN, dep: BOOLEAN, at: Time,
     call: {"SOLE", "BASE", "DEPENDENT_WON"}, answers: Answers \ {0},
     base: Answers, dependentWon: Answers]

Recalc ==
    [scenario: Scenario, at: Time, answers: Answers \ {0}, dep: BOOLEAN]

TypeOK ==
    /\ closed \in BOOLEAN
    /\ stage \in Stage
    /\ soleSource \in BOOLEAN
    /\ dep \in BOOLEAN
    /\ complete \in BOOLEAN
    /\ rows \in Seq(Row)
    /\ clock \in 0..MaxTime
    /\ patches \subseteq Patch
    /\ recalcs \subseteq Recalc

Init ==
    /\ closed = FALSE
    /\ stage = "PRE_BH"
    /\ soleSource = FALSE
    /\ dep = FALSE
    /\ complete = FALSE
    /\ rows = <<>>
    /\ clock = 0
    /\ patches = {}
    /\ recalcs = {}

-----------------------------------------------------------------------------
(* The table: rs is pwin_assessment as some transaction sees it            *)

Questionnaires(rs, s) ==
    {i \in DOMAIN rs : rs[i].scenario = s /\ rs[i].type = "QUESTIONNAIRE"}

(* LATEST_QUESTIONNAIRE_JOIN.  The database may pick any of several rows   *)
(* with the same calculated_at.                                            *)
Latest(rs, s) ==
    LET all == Questionnaires(rs, s) IN
    {i \in all : \A j \in all : rs[j].at <= rs[i].at}

Current(rs, s) == {i \in DOMAIN rs : rs[i].scenario = s /\ rs[i].current}

(* Mutant of Demote: the UPDATE that flips is_current is missing.          *)
DemoteNothing(rs, s) == rs

Demote(rs, s) ==
    [i \in DOMAIN rs |->
        [rs[i] EXCEPT !.current = @ /\ rs[i].scenario # s]]

(* Mutant of Insert: the old row stays current and the new one is not.     *)
InsertBehind(rs, r) ==
    Append(rs, [r EXCEPT !.current = Current(rs, r.scenario) = {}])

Insert(rs, r) == Append(Demote(rs, r.scenario), r)

(* Mutant of Blend: every BASE row is rewritten, not only the current one. *)
BlendHistory(rs) ==
    [i \in DOMAIN rs |->
        IF rs[i].scenario = "BASE" /\ rs[i].base # "NONE"
        THEN [rs[i] EXCEPT !.pwin = "BLEND", !.blended = "BLEND"]
        ELSE rs[i]]

(* Mutant of Blend: both scenarios' current rows are rewritten.            *)
BlendBoth(rs) ==
    [i \in DOMAIN rs |->
        IF rs[i].current /\ rs[i].base # "NONE"
        THEN [rs[i] EXCEPT !.pwin = "BLEND", !.blended = "BLEND"]
        ELSE rs[i]]

(* Mutant of Blend: nothing is blended before DEPENDENT_WON is assessed.   *)
BlendNeedsBoth(rs) ==
    [i \in DOMAIN rs |->
        IF /\ i \in Current(rs, "BASE") /\ rs[i].base # "NONE"
           /\ Current(rs, "DEPENDENT_WON") # {}
        THEN [rs[i] EXCEPT !.pwin = "BLEND", !.blended = "BLEND"]
        ELSE rs[i]]

(* The row apply_dependency_blend writes to.                               *)
Blendable(rs) == {i \in Current(rs, "BASE") : rs[i].base # "NONE"}

Blend(rs) ==
    [i \in DOMAIN rs |->
        IF i \in Blendable(rs)
        THEN [rs[i] EXCEPT !.pwin = "BLEND", !.blended = "BLEND"]
        ELSE rs[i]]

(* Mutant of Recalculated: the new row starts with no answers.             *)
RecalculatedBare(rs, s, at, answers, d) ==
    LET new == Insert(rs, [scenario |-> s, type |-> "QUESTIONNAIRE",
                           at |-> at, current |-> TRUE, pwin |-> "ENGINE",
                           base |-> "ENGINE", blended |-> "NONE",
                           rule |-> FALSE, answers |-> 0])
    IN  IF d THEN Blend(new) ELSE new

(* What recalculate_pwin writes once the engine has answered: a new        *)
(* current row that carries the answers forward, blended if the pursuit    *)
(* had a dependency when it was read.                                      *)
Recalculated(rs, s, at, answers, d) ==
    LET new == Insert(rs, [scenario |-> s, type |-> "QUESTIONNAIRE",
                           at |-> at, current |-> TRUE, pwin |-> "ENGINE",
                           base |-> "ENGINE", blended |-> "NONE",
                           rule |-> FALSE, answers |-> answers])
    IN  IF d THEN Blend(new) ELSE new

(* Sole source turned on: the current BASE row is rewritten in place, its  *)
(* calculated_at included; with none, a row without answers is inserted.   *)
SoleRuled(rs, at) ==
    IF Current(rs, "BASE") = {}
    THEN Append(rs, [scenario |-> "BASE", type |-> "QUESTIONNAIRE",
                     at |-> at, current |-> TRUE, pwin |-> "RULE",
                     base |-> "NONE", blended |-> "RULE", rule |-> TRUE,
                     answers |-> 0])
    ELSE [i \in DOMAIN rs |->
             IF i \in Current(rs, "BASE")
             THEN [rs[i] EXCEPT !.pwin = "RULE", !.blended = "RULE",
                                !.rule = TRUE, !.at = at]
             ELSE rs[i]]

(* Mutant of Unblended: the demotion forgets the scenario.                 *)
UnblendedDemotesAll(rs) ==
    [i \in DOMAIN rs |->
        [rs[i] EXCEPT !.current = FALSE, !.pwin = rs[i].base,
                      !.blended = "NONE"]]

(* auto_clear_dependents_of_outcome, for one dependent: DEPENDENT_WON is   *)
(* demoted and the current BASE row shows its standalone Pwin again.       *)
Unblended(rs) ==
    [i \in DOMAIN rs |->
        IF i \in Current(rs, "BASE")
        THEN [rs[i] EXCEPT !.pwin = rs[i].base, !.blended = "NONE"]
        ELSE Demote(rs, "DEPENDENT_WON")[i]]

-----------------------------------------------------------------------------
(* What the handlers check                                                 *)

(* Every handler starts by taking a pooled connection.                     *)
ConnectionFree == Cardinality(patches) + Cardinality(recalcs) < PoolSize

(* No open transaction has updated the pursuit's row.                      *)
RowFree == patches = {}

(* Nor the current BASE row, which a PATCH rewrites before it waits again. *)
BaseRowFree == \A t \in patches : t.sole # "ON" /\ t.base = 0

(* Mutant of Editable: the 409 on a closed pursuit is missing.             *)
EditableAlways == TRUE

Editable == ~closed

(* The guards of recalculate_pwin on the pursuit, with stage st and        *)
(* dependency d as its transaction sees them.                              *)
MayRecalculate(s, st, d) == st = "PRE_BH" /\ (s = "DEPENDENT_WON" => d)

-----------------------------------------------------------------------------
(* PATCH /pursuits/{id}                                                    *)

(* The table as PATCH t sees it, and leaves it if it commits now.          *)
Written(t) ==
    LET ruled == IF t.sole = "ON" THEN SoleRuled(rows, t.at) ELSE rows
        based == IF t.base = 0 THEN ruled
                 ELSE Recalculated(ruled, "BASE", t.at, t.base, t.dep)
    IN  IF t.dependentWon = 0 THEN based
        ELSE Recalculated(based, "DEPENDENT_WON", t.at, t.dependentWon, t.dep)

(* The answers a recalculation of scenario s inside t may read; 0 when it  *)
(* has none, and nothing at all when its guards refuse it.                 *)
Readable(t, s) ==
    LET seen == Written(t) IN
    IF MayRecalculate(s, t.stage, t.dep)
    THEN {seen[i].answers : i \in Latest(seen, s)}
    ELSE {}

Refused(t, s) == Readable(t, s) = {} \/ 0 \in Readable(t, s)

Commit(t) ==
    /\ stage' = t.stage
    /\ soleSource' = t.soleSource
    /\ dep' = t.dep
    /\ rows' = Written(t)
    /\ clock' = IF rows' = rows \/ t.at <= clock THEN clock ELSE t.at
    /\ clock' <= MaxTime
    /\ patches' = {}
    /\ UNCHANGED <<closed, complete, recalcs>>

(* t calls the engine and waits, its transaction open.                     *)
Await(t, call, s) ==
    /\ t.at <= MaxTime
    /\ \E a \in Readable(t, s) \ {0} :
          patches' = {[t EXCEPT !.call = call, !.answers = a]}
    /\ clock' = IF t.at <= clock THEN clock ELSE t.at
    /\ UNCHANGED <<columns, rows, recalcs>>

(* The revert block: BASE, then DEPENDENT_WON.  A refusal of either, like  *)
(* a failure of the engine, is noted in the response and is not fatal.     *)
RevertDependentWon(t) ==
    \/ Await(t, "DEPENDENT_WON", "DEPENDENT_WON")
    \/ Refused(t, "DEPENDENT_WON") /\ Commit(t)

Revert(t) ==
    \/ t.reverted /\ Await(t, "BASE", "BASE")
    \/ t.reverted /\ Refused(t, "BASE") /\ RevertDependentWon(t)
    \/ ~t.reverted /\ Commit(t)

(* Sole source turned off recalculates if BASE still carries the rule.     *)
LeaveSoleSource(t) ==
    LET stale == t.sole = "OFF" /\ \E i \in Current(rows, "BASE") : rows[i].rule
    IN  \/ stale /\ Await(t, "SOLE", "BASE")
        \/ (~stale \/ Refused(t, "BASE")) /\ Revert(t)

(* What a PATCH that leaves is_sole_source at `sole` may write to          *)
(* depends_on_pursuit_id.                                                  *)
DependencyWritten(sole, d) ==
    \/ d = IF sole /\ ~soleSource THEN FALSE ELSE dep
    \/ ~d
    \/ ~sole

PatchPursuit(switch, st, d) ==
    LET sole == IF switch = "KEEP" THEN soleSource ELSE switch = "ON" IN
    /\ ConnectionFree
    /\ RowFree
    /\ Editable
    /\ DependencyWritten(sole, d)
    /\ LeaveSoleSource(
          [sole |-> switch, soleSource |-> sole, stage |-> st,
           reverted |-> stage # "PRE_BH" /\ st = "PRE_BH", dep |-> d,
           at |-> clock + 1, call |-> "SOLE", answers |-> 1,
           base |-> 0, dependentWon |-> 0])

(* The engine answers t.  A row written on leaving sole source makes the   *)
(* whole revert block unnecessary in the code's eyes.                      *)
EngineAnswersPatch(t) ==
    \/ t.call = "SOLE" /\ Commit([t EXCEPT !.base = t.answers])
    \/ t.call = "BASE" /\ RevertDependentWon([t EXCEPT !.base = t.answers])
    \/ /\ t.call = "DEPENDENT_WON"
       /\ Commit([t EXCEPT !.dependentWon = t.answers])

EngineFailsPatch(t) ==
    \/ t.call = "SOLE" /\ Revert(t)
    \/ t.call = "BASE" /\ RevertDependentWon(t)
    \/ t.call = "DEPENDENT_WON" /\ Commit(t)

-----------------------------------------------------------------------------
(* PATCH /pursuits/{id}/answers                                            *)

(* The number of the next save of s: one more than the latest.             *)
NextSave(s) ==
    {n \in 1..MaxSaves :
        /\ \A i \in Questionnaires(rows, s) : rows[i].answers < n
        /\ n = 1 \/ \E i \in Questionnaires(rows, s) : rows[i].answers = n - 1}

(* The answers go into the latest questionnaire row; the first save makes  *)
(* one, current only if no other row of the scenario is.                   *)
SaveAnswers(s) ==
    /\ ConnectionFree
    /\ Editable
    /\ s = "DEPENDENT_WON" => dep
    /\ \E n \in NextSave(s) :
          \/ \E i \in Latest(rows, s) :
                /\ rows' = [rows EXCEPT ![i].answers = n]
                /\ clock' = clock
          \/ /\ Questionnaires(rows, s) = {}
             /\ clock < MaxTime
             /\ rows' = Append(rows, [scenario |-> s, type |-> "QUESTIONNAIRE",
                                      at |-> clock + 1,
                                      current |-> Current(rows, s) = {},
                                      pwin |-> "NONE", base |-> "NONE",
                                      blended |-> "NONE", rule |-> FALSE,
                                      answers |-> n])
             /\ clock' = clock + 1
    /\ \/ dep' = dep
       \/ s = "BASE" /\ dep /\ RowFree /\ dep' = FALSE     \* P2 is LPTA
    /\ UNCHANGED <<closed, stage, soleSource, complete, patches, recalcs>>

-----------------------------------------------------------------------------
(* POST /pursuits/{id}/blackhat and /ptw                                   *)

(* A dependent pursuit's BASE row is inserted without a Pwin, which the    *)
(* blend then fills in.                                                    *)
SubmitBhPtw(s) ==
    /\ ConnectionFree
    /\ Editable
    /\ s = "DEPENDENT_WON" => dep
    /\ \E any \in Scenario : Questionnaires(rows, any) # {}
    /\ RowFree
    /\ clock < MaxTime
    /\ clock' = clock + 1
    /\ LET new == Insert(rows, [scenario |-> s, type |-> "BH_PTW",
                                at |-> clock + 1, current |-> TRUE,
                                pwin |-> IF dep /\ s = "BASE"
                                         THEN "NONE" ELSE "ENTERED",
                                base |-> "ENTERED", blended |-> "NONE",
                                rule |-> FALSE, answers |-> 0])
       IN  rows' = IF dep THEN Blend(new) ELSE new
    /\ complete' = \A needed \in IF dep THEN Scenario ELSE {"BASE"} :
                      \E i \in Current(rows', needed) : rows'[i].type = "BH_PTW"
    /\ UNCHANGED <<closed, stage, soleSource, dep, patches, recalcs>>

-----------------------------------------------------------------------------
(* POST /pursuits/{id}/recalculate                                         *)

BeginRecalc(s) ==
    /\ ConnectionFree
    /\ Editable
    /\ ~soleSource
    /\ MayRecalculate(s, stage, dep)
    /\ clock < MaxTime
    /\ clock' = clock + 1
    /\ \E i \in Latest(rows, s) :
          /\ rows[i].answers # 0
          /\ recalcs' = recalcs \cup
                 {[scenario |-> s, at |-> clock + 1,
                   answers |-> rows[i].answers, dep |-> dep]}
    /\ UNCHANGED <<columns, rows, patches>>

(* Nothing is read again once the engine has answered.                     *)
FinishRecalc(r) ==
    /\ \/ BaseRowFree
       \/ r.scenario = "DEPENDENT_WON" /\ Blendable(rows) = {}
    /\ rows' = Recalculated(rows, r.scenario, r.at, r.answers, r.dep)
    /\ recalcs' = recalcs \ {r}
    /\ UNCHANGED <<columns, clock, patches>>

FailRecalc(r) ==
    /\ recalcs' = recalcs \ {r}
    /\ UNCHANGED <<columns, rows, clock, patches>>

-----------------------------------------------------------------------------
(* POST /outcome, of this pursuit and of the one it depends on             *)

CloseOrReopen ==
    /\ ConnectionFree
    /\ RowFree
    /\ closed' = ~closed
    /\ UNCHANGED <<stage, soleSource, dep, complete, rows, clock, patches,
                   recalcs>>

(* The predecessor is cancelled; whether this pursuit is closed is not     *)
(* asked.                                                                  *)
PredecessorCancelled ==
    /\ ConnectionFree
    /\ RowFree
    /\ dep
    /\ dep' = FALSE
    /\ rows' = Unblended(rows)
    /\ UNCHANGED <<closed, stage, soleSource, complete, clock, patches,
                   recalcs>>

(* The process is restarted: every open transaction is rolled back.        *)
Restart ==
    /\ patches \cup recalcs # {}
    /\ patches' = {}
    /\ recalcs' = {}
    /\ UNCHANGED <<columns, rows, clock>>

-----------------------------------------------------------------------------
Request ==
    \/ \E switch \in {"KEEP", "ON", "OFF"}, st \in Stage, d \in BOOLEAN :
          PatchPursuit(switch, st, d)
    \/ \E s \in Scenario : SaveAnswers(s) \/ SubmitBhPtw(s) \/ BeginRecalc(s)
    \/ CloseOrReopen
    \/ PredecessorCancelled

Resume ==
    \/ \E t \in patches : EngineAnswersPatch(t) \/ EngineFailsPatch(t)
    \/ \E r \in recalcs : FinishRecalc(r) \/ FailRecalc(r)
    \/ Restart

Next == Request \/ Resume

Spec == Init /\ [][Next]_vars

(* The same handlers when no request arrives while another one waits.      *)
Quiet == patches = {} /\ recalcs = {}

SerialNext == (Quiet /\ Request) \/ Resume

SerialSpec == Init /\ [][SerialNext]_vars

-----------------------------------------------------------------------------
(* Properties                                                              *)

(***************************************************************************)
(* At most one current assessment per pursuit and scenario, whatever       *)
(* overlaps.  The unique index would turn a violation into a failed        *)
(* request; the handlers never try (uq_pwin_current).                      *)
(***************************************************************************)
OneCurrentPerScenario ==
    \A s \in Scenario : Cardinality(Current(rows, s)) <= 1

(***************************************************************************)
(* A pursuit that has a BASE assessment always has a current one: every    *)
(* demotion of a BASE row comes with its replacement (recalculate_pwin,    *)
(* submit_black_hat, submit_ptw, auto_clear_dependents_of_outcome).        *)
(***************************************************************************)
BaseStaysCovered ==
    (\E i \in DOMAIN rows : rows[i].scenario = "BASE")
        => Current(rows, "BASE") # {}

(***************************************************************************)
(* A demoted row is history: it keeps its Pwin values for good and is      *)
(* never current again (the is_current filter of every UPDATE).            *)
(***************************************************************************)
DemotedRowsAreHistory ==
    [][\A i \in DOMAIN rows : ~rows[i].current =>
          /\ ~rows'[i].current
          /\ rows'[i].pwin = rows[i].pwin
          /\ rows'[i].base = rows[i].base
          /\ rows'[i].blended = rows[i].blended]_vars

(***************************************************************************)
(* A Black Hat or PTW row never stays without a Pwin, although a dependent *)
(* pursuit's BASE row is inserted without one (submit_black_hat,           *)
(* submit_ptw, apply_dependency_blend).                                    *)
(***************************************************************************)
EnteredRowsHavePwin ==
    \A i \in DOMAIN rows : rows[i].type = "BH_PTW" => rows[i].pwin # "NONE"

(***************************************************************************)
(* When a questionnaire row is the current one, it is also the one whose   *)
(* answers are read back: the Pwin shown belongs to the answers shown      *)
(* (LATEST_QUESTIONNAIRE_JOIN and is_current agree).                       *)
(***************************************************************************)
LatestIsCurrent ==
    \A s \in Scenario : \A i \in Current(rows, s) :
        rows[i].type = "QUESTIONNAIRE" => i \in Latest(rows, s)

(***************************************************************************)
(* Saved answers are never replaced by older ones: a recalculation carries *)
(* every stored answer forward (recalculate_pwin).  Said of a scenario     *)
(* whose latest row is unique.                                             *)
(***************************************************************************)
AnswersNeverRegress ==
    [][\A s \in Scenario : \A i \in DOMAIN rows :
          Latest(rows, s) = {i} =>
              \A j \in Latest(rows', s) :
                  rows'[j].answers >= rows[i].answers]_vars

(***************************************************************************)
(* The assessments of a closed pursuit do not change while it is closed,   *)
(* except that the cancellation of its predecessor clears them             *)
(* (patch_pursuit: a closed pursuit is history).                           *)
(***************************************************************************)
ClosedPwinIsHistory ==
    [][closed /\ closed' => rows' = rows \/ (dep /\ ~dep')]_vars

(***************************************************************************)
(* Without a dependency there is no current DEPENDENT_WON assessment and   *)
(* the current BASE row is not blended.  Only the clearing by a cancelled  *)
(* predecessor sees to that: clearing by hand, by an LPTA answer or by     *)
(* sole source does not.                                                   *)
(***************************************************************************)
ClearedDependencyLeavesNothing ==
    ~dep => /\ Current(rows, "DEPENDENT_WON") = {}
            /\ \A i \in Current(rows, "BASE") : rows[i].blended # "BLEND"

(***************************************************************************)
(* A sole source pursuit shows the 95% rule and nothing else.  Black Hat,  *)
(* PTW and the revert to Pre-BH do not look at sole source.                *)
(***************************************************************************)
SoleSourceShowsRule ==
    soleSource => \A i \in Current(rows, "BASE") : rows[i].pwin = "RULE"

(***************************************************************************)
(* black_hat_ptw_complete is true only once every scenario the pursuit     *)
(* needs has a current Black Hat or PTW assessment.  It is recomputed by   *)
(* those two submissions only.                                             *)
(***************************************************************************)
CompleteMeansAnalysed ==
    complete => \A needed \in IF dep THEN Scenario ELSE {"BASE"} :
                   \E i \in Current(rows, needed) : rows[i].type = "BH_PTW"
=============================================================================
