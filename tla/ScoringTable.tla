---------------------------- MODULE ScoringTable ----------------------------
(* The scoring table kept in the process (api/app/scoring.py): loaded at   *)
(* start-up, refreshed by a loop, read by every recalculation; its calls   *)
(* to the engine share the cached key with those of the recalculations.    *)
(*                                                                         *)
(* The answer of the engine is stored part by part without an await.  Two  *)
(* parts stand for the four: the tables, assigned first, and the base      *)
(* score, whose absence raises a KeyError in between.                      *)
EXTENDS EngineKeys

CONSTANTS
    Refresher,   \* the caller that fetches the table
    MaxVersion,  \* versions of the table the engine publishes, 1..MaxVersion
    Faults       \* "database": the pool or the database fails the loop's read
                 \* "incomplete": an answer may come without a base score

ASSUME TableAssumption ==
    Refresher \in Callers /\ MaxVersion \in Nat \ {0}
    /\ Faults \subseteq {"database", "incomplete"}

VARIABLES
    published,  \* the version the engine serves
    answered,   \* the version in its answer to the refresh, 0 without one
    someClient, \* whether a client is active, whose key a refresh can use
    table,      \* the version of each part that is held, 0 for None
    task,       \* where start-up and the loop after it are
    payload,    \* the versions each recalculation was computed with
    restarts
tableVars == <<live, ssm, ssmUp, engineUp, cache, call, dropped,
               published, answered, someClient, table, task, payload, restarts>>

Versions == 0..MaxVersion
Parts    == [tables : Versions, base : Versions]
Nothing  == [tables |-> 0, base |-> 0]
Tasks    == {"startup", "loading", "sleeping", "refreshing", "ended", "down"}

TableTypeOK ==
    /\ KeysTypeOK
    /\ published \in Versions \ {0}
    /\ answered \in Versions
    /\ someClient \in BOOLEAN
    /\ table \in Parts
    /\ task \in Tasks
    /\ payload \in [Callers -> Parts]
    /\ restarts \in 0..1

TableInit ==
    /\ KeysInit
    /\ published = 1 /\ answered = 0
    /\ someClient = TRUE
    /\ table = Nothing
    /\ task = "startup"
    /\ payload = [c \in Callers |-> Nothing]
    /\ restarts = 0
-----------------------------------------------------------------------------
Serving == task \notin {"startup", "loading", "down"}
Loaded  == table.tables # 0          \* is_loaded

Calling == CASE task = "startup" -> "loading" [] task = "sleeping" -> "refreshing"

CaughtByTheLoop ==   \* variant: the loop catches every exception
    IF task \in {"startup", "loading"} THEN "down" ELSE "sleeping"

(* An exception that is not a ScoringTableError leaves startup_refresh, and *)
(* then the process does not start, or leaves the loop, which ends.        *)
Uncaught == IF task \in {"startup", "loading"} THEN "down" ELSE "ended"

DueUntilLoaded ==   \* variant: a table that is held is not fetched again
    task = "startup" \/ (task = "sleeping" /\ ~Loaded)

Due == task \in {"startup", "sleeping"}

(* A refresh reads the first active client, without one it is skipped, and *)
(* fetches with that client's key.                                         *)
BeginRefresh ==
    /\ Due
    /\ \/ /\ "database" \in Faults
          /\ task' = Uncaught /\ UNCHANGED keyVars
       \/ /\ ~someClient \/ CannotResolve
          /\ task' = "sleeping" /\ UNCHANGED keyVars
       \/ someClient /\ Send(Refresher) /\ task' = Calling
    /\ UNCHANGED <<published, answered, someClient, table, payload, restarts>>

Stored == [tables |-> answered, base |-> answered]

(* The answer is what the engine served when it gave it.  Without tables   *)
(* it raises before anything is stored, without a base score in between.   *)
FinishRefresh ==
    /\ task \in {"loading", "refreshing"}
    /\ Handle(Refresher)
    /\ IF call[Refresher].verdict = "accepted"
       THEN \/ table' = Stored /\ task' = "sleeping"
            \/ /\ "incomplete" \in Faults
               /\ table' \in {table, [table EXCEPT !.tables = answered]}
               /\ task' = Uncaught
       ELSE UNCHANGED table /\ task' = "sleeping"
    /\ answered' = 0
    /\ UNCHANGED <<published, someClient, payload, restarts>>

(* A recalculation is scored from the table that is held, then sent; with  *)
(* no table it is refused before that.                                     *)
Recalculate(c) ==
    /\ c # Refresher /\ Serving /\ Loaded
    /\ Send(c)
    /\ payload' = [payload EXCEPT ![c] = table]
    /\ UNCHANGED <<published, answered, someClient, table, task, restarts>>

FinishRecalculation(c) ==
    /\ c # Refresher
    /\ Handle(c)
    /\ payload' = [payload EXCEPT ![c] = Nothing]
    /\ UNCHANGED <<published, answered, someClient, table, task, restarts>>

EngineJudges(c) ==
    /\ Judge(c)
    /\ answered' = IF c = Refresher /\ call'[c].verdict = "accepted"
                   THEN published ELSE answered
    /\ UNCHANGED <<published, someClient, table, task, payload, restarts>>

(* The engine is deployed with another table.                              *)
Publish ==
    /\ published < MaxVersion /\ published' = published + 1
    /\ UNCHANGED <<keyVars, answered, someClient, table, task, payload, restarts>>

(* The last active client is deactivated, or one is activated again.       *)
SwitchClient ==
    /\ someClient' = ~someClient
    /\ UNCHANGED <<keyVars, published, answered, table, task, payload, restarts>>

World ==
    /\ Surroundings
    /\ UNCHANGED <<published, answered, someClient, table, task, payload, restarts>>

TableRestart ==
    /\ restarts = 0 /\ restarts' = 1
    /\ KeysRestart
    /\ table' = Nothing /\ task' = "startup" /\ answered' = 0
    /\ payload' = [c \in Callers |-> Nothing]
    /\ UNCHANGED <<published, someClient>>

Refresh == BeginRefresh \/ FinishRefresh

TableNext ==
    \/ Refresh \/ Publish \/ SwitchClient \/ World \/ TableRestart
    \/ \E c \in Callers : Recalculate(c) \/ FinishRecalculation(c) \/ EngineJudges(c)

(* The loop sleeps for a while and goes on; a call ends, by its timeout if *)
(* not by an answer, and is handled.  Nobody has to recalculate, publish,  *)
(* rotate or restart.                                                      *)
TableFairness ==
    /\ WF_tableVars(Refresh)
    /\ \A c \in Callers : WF_tableVars(FinishRecalculation(c)) /\ WF_tableVars(EngineJudges(c))

TableSpec == TableInit /\ [][TableNext]_tableVars /\ TableFairness
-----------------------------------------------------------------------------
Whole(parts) == parts.tables = parts.base

(* A table whose parts are of different versions is never followed by a    *)
(* refresh: the error that tore it has ended the loop, so recalculations   *)
(* use it until the process is restarted.                                  *)
TornTableIsLast == ~Whole(table) => task \in {"ended", "down"}

(* Whatever fails, a table that was loaded is not lost and no older one    *)
(* comes back, short of a restart.                                         *)
TableNeverRegresses ==
    [][restarts' = restarts => table'.tables >= table.tables
                               /\ table'.base >= table.base]_tableVars

(* Once the key is settled, the engine answers and a client is active, the *)
(* table catches up with what the engine serves unless the loop has ended, *)
(* also when an answer given before a deployment is stored after it.       *)
TableCatchesUp ==
    (<>[](Healthy /\ someClient)) =>
        <>[]((Whole(table) /\ table.tables = published) \/ task \in {"ended", "down"})

(* What refresh() promises (scoring.py:119-120): it "never partially       *)
(* updates" the table, so no recalculation is scored with parts of two     *)
(* versions.  The code does not keep it: see TornTableIsLast.              *)
ScoredWithOneVersion == \A c \in Callers : Whole(payload[c])

(* What refresh_loop() promises (scoring.py:287): a failed refresh "does   *)
(* not stop the loop".  The code does not keep it: see Uncaught.           *)
LoopGoesOn == task # "ended"
=============================================================================
