----------------------------- MODULE EventLoop -----------------------------
(* The one event loop the handlers share, the connection pool and the row  *)
(* locks: what holds while requests wait for the engine in open            *)
(* transactions (api/app/db.py, the async handlers that use it, and login, *)
(* the one handler that runs in a thread of its own).  Beside the process  *)
(* an operator may run a script on the same database that updates every    *)
(* pursuit in one transaction (reassign_aero_org_tree.sql).                *)
(*                                                                         *)
(* psycopg and psycopg_pool are synchronous, so a handler on the loop that *)
(* waits for a connection or for a row stops the loop.  Between two awaits *)
(* a handler runs without interruption and is one action here.             *)
EXTENDS Naturals, FiniteSets

CONSTANTS
    Requests,   \* the requests of a behaviour; each is sent once
    Pursuits,   \* the pursuits they are about
    PoolSize,   \* max_size of the pool
    MaxCalls,   \* the engine calls one PATCH makes, at most
    NoRequest   \* the loop is not stopped

ASSUME LoopAssumption ==
    PoolSize \in Nat \ {0} /\ MaxCalls \in Nat \ {0} /\ NoRequest \notin Requests


VARIABLES
    kind,     \* what each request asks for
    on,       \* the pursuit it asks it of
    at,       \* where it is
    calls,    \* the engine calls it has made
    loop,     \* the request whose synchronous call has stopped the loop, or none
    script,   \* the operator's script: not run yet, running or over
    locked,   \* the pursuits it has updated so far
    restarts  \* the number of restarts of the process
vars == <<kind, on, at, calls, loop, script, locked, restarts>>
operator == <<script, locked>>

(* A PATCH that reverts the stage or leaves sole source waits for the      *)
(* engine after its UPDATE, and one that sets sole source and reverts (a   *)
(* ruling) after it has written the assessments, too; a recalculation      *)
(* waits before it writes; an edit (bid, outcome, Black Hat, a PATCH       *)
(* without a call) and a read never wait for it; a login runs in a thread. *)
Patches == {"patch", "ruling"}
Kinds   == Patches \cup {"recalc", "edit", "read", "login"}
Places  == {"unsent", "queued", "pool", "row", "await", "answered", "thread",
            "done", "refused"}

TypeOK ==
    /\ kind \in [Requests -> Kinds]
    /\ on \in [Requests -> Pursuits]
    /\ at \in [Requests -> Places]
    /\ calls \in [Requests -> 0..MaxCalls]
    /\ loop \in Requests \cup {NoRequest}
    /\ script \in {"unsent", "running", "over"}
    /\ locked \subseteq Pursuits /\ (locked # {} => script = "running")
    /\ restarts \in Nat

Init ==
    /\ kind \in [Requests -> Kinds]
    /\ on \in [Requests -> Pursuits]
    /\ at = [r \in Requests |-> "unsent"]
    /\ calls = [r \in Requests |-> 0]
    /\ loop = NoRequest
    /\ script = "unsent" /\ locked = {}
    /\ restarts = 0

-----------------------------------------------------------------------------
Running == loop = NoRequest

Suspended(r) == at[r] \in {"await", "answered"}
Connected(r) == Suspended(r) \/ at[r] \in {"row", "thread"}
ConnectionFree == Cardinality({r \in Requests : Connected(r)}) < PoolSize

HoldsBeforeCall(r) ==   \* variant: a recalculation writes before its call, too
    IF kind[r] \in Patches \cup {"recalc"} /\ Connected(r) /\ calls[r] > 0
    THEN {"pursuit", "assessments"} ELSE {}

(* The rows a request holds: a PATCH its pursuit from its UPDATE on, and   *)
(* the pursuit's assessments from the first answer on, or from the ruling. *)
(* A recalculation writes after its call and commits at once.  The rows of *)
(* dependents, which an outcome may write, are left out.                   *)
Holds(r) ==
    IF kind[r] \in Patches /\ Connected(r) /\ calls[r] > 0
    THEN {"pursuit"} \cup (IF kind[r] = "ruling" \/ calls[r] > 1
                           THEN {"assessments"} ELSE {})
    ELSE {}

(* The rows the next uninterrupted stretch of a request writes.            *)
Writes(r) ==
    CASE kind[r] = "edit" -> {"pursuit"}
      [] kind[r] = "patch" /\ calls[r] = 0 -> {"pursuit"}
      [] kind[r] = "ruling" /\ calls[r] = 0 -> {"pursuit", "assessments"}
      [] kind[r] \in Patches \cup {"recalc"} /\ calls[r] > 0 -> {"assessments"}
      [] OTHER -> {}

Holders(r) == {q \in Requests \ {r} : on[q] = on[r] /\ Holds(q) \cap Writes(r) # {}}
ScriptHolds(r) == "pursuit" \in Writes(r) /\ on[r] \in locked
RowsFree(r) == Holders(r) = {} /\ ~ScriptHolds(r)

(* The stretch itself: on to the next call to the engine, or to the end.   *)
CallsEngine(r) ==
    \/ kind[r] \in Patches /\ calls[r] < MaxCalls
    \/ kind[r] = "recalc" /\ calls[r] = 0
Ends(r) ==
    \/ kind[r] \in Patches \cup {"recalc"} /\ calls[r] > 0
    \/ kind[r] \in {"edit", "read"}

Runs(r) ==
    /\ loop' = NoRequest
    /\ \/ /\ CallsEngine(r)
          /\ at' = [at EXCEPT ![r] = "await"]
          /\ calls' = [calls EXCEPT ![r] = @ + 1]
       \/ /\ Ends(r)
          /\ at' = [at EXCEPT ![r] = "done"]
          /\ UNCHANGED calls
    /\ UNCHANGED <<kind, on, operator, restarts>>

StopsLoop(r, place) ==
    /\ at' = [at EXCEPT ![r] = place]
    /\ loop' = r
    /\ UNCHANGED <<kind, on, calls, operator, restarts>>

(* With a connection in hand the handler runs, or stops the loop at a row  *)
(* that is not free.                                                       *)
RunsOrBlocks(r) ==
    \/ RowsFree(r) /\ Runs(r)
    \/ ~RowsFree(r) /\ StopsLoop(r, "row")

Moves(r, place) ==
    /\ at' = [at EXCEPT ![r] = place]
    /\ UNCHANGED <<kind, on, calls, operator, restarts>>

-----------------------------------------------------------------------------
(* A client sends a request.                                               *)
Send(r) ==
    /\ at[r] = "unsent"
    /\ Moves(r, "queued") /\ UNCHANGED loop

(* The loop starts a handler, which takes a connection or stops the loop.  *)
Start(r) ==
    /\ Running /\ at[r] = "queued" /\ kind[r] # "login"
    /\ \/ ConnectionFree /\ RunsOrBlocks(r)
       \/ ~ConnectionFree /\ StopsLoop(r, "pool")

(* A connection came back while the loop stood still.                      *)
GetConnection(r) ==
    /\ at[r] = "pool" /\ kind[r] # "login" /\ ConnectionFree
    /\ RunsOrBlocks(r)

PoolTimeoutOfThreads(r) ==   \* variant: only a thread's wait is limited
    /\ at[r] = "pool" /\ kind[r] = "login" /\ ~ConnectionFree
    /\ Moves(r, "refused") /\ UNCHANGED loop

(* The pool gives up after thirty seconds (PoolTimeout): a 500.            *)
PoolTimeout(r) ==
    /\ at[r] = "pool" /\ ~ConnectionFree
    /\ Moves(r, "refused")
    /\ loop' = IF loop = r THEN NoRequest ELSE loop

GetRowOrFail(r) ==   \* variant: a wait for a row can end in an error
    /\ at[r] = "row" /\ Moves(r, "refused") /\ loop' = NoRequest

(* The row came free.  No lock timeout is set.                             *)
GetRow(r) ==
    /\ at[r] = "row" /\ RowsFree(r)
    /\ Runs(r)

(* The engine answers or fails, or the call's twenty seconds pass.         *)
Answer(r) ==
    /\ at[r] = "await"
    /\ Moves(r, "answered") /\ UNCHANGED loop

(* The loop resumes the handler that waited.                               *)
Resume(r) ==
    /\ Running /\ at[r] = "answered"
    /\ RunsOrBlocks(r)

(* A login is handed to a thread by the loop; the thread waits for its     *)
(* connection without stopping anything.                                   *)
StartLogin(r) ==
    /\ Running /\ at[r] = "queued" /\ kind[r] = "login"
    /\ Moves(r, IF ConnectionFree THEN "thread" ELSE "pool") /\ UNCHANGED loop

LoginConnects(r) ==
    /\ at[r] = "pool" /\ kind[r] = "login" /\ ConnectionFree
    /\ Moves(r, "thread") /\ UNCHANGED loop

(* The thread gives its connection back.                                   *)
FinishLogin(r) ==
    /\ at[r] = "thread"
    /\ Moves(r, "done") /\ UNCHANGED loop

(* The process is restarted: PostgreSQL rolls back what was open, and      *)
(* clients get an error for every request that was sent.                   *)
Restart ==
    /\ restarts = 0
    /\ at' = [r \in Requests |-> IF at[r] \in {"unsent", "done"} THEN at[r] ELSE "refused"]
    /\ loop' = NoRequest
    /\ restarts' = 1
    /\ UNCHANGED <<kind, on, calls, operator>>

BeginScript ==
    /\ script = "unsent" /\ script' = "running"
    /\ UNCHANGED <<kind, on, at, calls, loop, locked, restarts>>

(* The UPDATE takes the pursuits' rows one by one and waits for each.      *)
ScriptLocks(p) ==
    /\ script = "running" /\ p \notin locked
    /\ ~\E q \in Requests : on[q] = p /\ "pursuit" \in Holds(q)
    /\ locked' = locked \cup {p}
    /\ UNCHANGED <<kind, on, at, calls, loop, script, restarts>>

EndScript ==
    /\ script = "running" /\ locked = Pursuits
    /\ script' = "over" /\ locked' = {}
    /\ UNCHANGED <<kind, on, at, calls, loop, restarts>>

RunScript == (\E p \in Pursuits : ScriptLocks(p)) \/ EndScript

Step(r) ==
    \/ Start(r) \/ GetConnection(r) \/ PoolTimeout(r) \/ GetRow(r)
    \/ Answer(r) \/ Resume(r)
    \/ StartLogin(r) \/ LoginConnects(r) \/ FinishLogin(r)

Next ==
    \/ \E r \in Requests : Send(r) \/ Step(r)
    \/ BeginScript \/ RunScript \/ Restart

(* The loop, the threads, the pool's timeout and the timeout of a call     *)
(* each go on as long as they can: every one is a step of some request.    *)
(* So does a script that has begun.                                        *)
Fairness == WF_vars(RunScript) /\ \A r \in Requests : WF_vars(Step(r))

Spec == Init /\ [][Next]_vars /\ Fairness
-----------------------------------------------------------------------------
Frozen == ~Running /\ at[loop] = "row"

(* The loop waits for a row held by a PATCH that waits for the engine, or  *)
(* for one the script holds while it waits for such a PATCH; and a PATCH   *)
(* that waits for the engine cannot go on without the loop.                *)
Stuck ==
    /\ Frozen
    /\ \E q \in Requests \ {loop} :
          /\ kind[q] \in Patches /\ Suspended(q)
          /\ q \in Holders(loop) \/ (ScriptHolds(loop) /\ on[q] \notin locked)

(* A handler that waits for a row another request holds waits for good:    *)
(* whoever it is needs the loop to go on (db.py opens its transactions     *)
(* synchronously, write.py awaits the engine inside one).                  *)
RowWaitIsDeadlock == Frozen /\ Holders(loop) # {} => Stuck

(* A loop that is stuck stays so until the process is restarted, whatever  *)
(* the engine, the threads and the script do: PostgreSQL sees no deadlock, *)
(* since the PATCH is idle, and no timeout ends the wait.                  *)
FrozenUntilRestart == [][Stuck /\ restarts' = restarts => Stuck']_vars

(* Every request that is sent ends, unless the loop is stuck: waiting for  *)
(* a connection, for the engine or for the script never lasts.             *)
SentRequestsEnd ==
    \A r \in Requests :
        at[r] = "queued" ~> (at[r] \in {"done", "refused"} \/ Stuck)
=============================================================================
