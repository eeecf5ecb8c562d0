--------------------------- MODULE EventLoop_proofs ---------------------------
(* Theorems of EventLoop, for any set of requests and pursuits, any size   *)
(* of the pool and any number of calls a PATCH makes.                      *)
EXTENDS EventLoop, TLAPS

(* What stops the loop is a handler on it, waiting for a connection or for *)
(* a row; only logins run in threads; and a suspended request is not a     *)
(* login and has called the engine.                                        *)
LoopInv ==
    /\ TypeOK
    /\ \A r \in Requests :
          /\ at[r] = "row" \/ (at[r] = "pool" /\ kind[r] # "login") => loop = r
          /\ at[r] = "thread" => kind[r] = "login"
          /\ Suspended(r) => kind[r] # "login" /\ calls[r] > 0
    /\ loop \in Requests => at[loop] \in {"row", "pool"} /\ kind[loop] # "login"

-----------------------------------------------------------------------------
LEMMA InitLoopInv == Init => LoopInv
BY LoopAssumption DEF Init, LoopInv, TypeOK, Places, Kinds, Patches, Suspended

(* After its stretch a handler is done or waits for the engine, and the    *)
(* loop goes on.                                                           *)
LEMMA RunsKeepsInv ==
  ASSUME LoopInv, NEW r \in Requests, Running \/ loop = r, Runs(r)
  PROVE  LoopInv'
<1>1. TypeOK'
  BY LoopAssumption DEF LoopInv, TypeOK, Runs, CallsEngine, Kinds, Patches, Places, operator
<1>2. at'[r] \in {"await", "done"} /\ \A s \in Requests \ {r} :
         /\ at'[s] = at[s] /\ calls'[s] = calls[s]
         /\ at[s] # "row" /\ (at[s] = "pool" => kind[s] = "login")
  BY LoopAssumption DEF LoopInv, TypeOK, Runs, Running
<1>3. at'[r] = "await" => kind[r] # "login" /\ calls'[r] > 0
  BY LoopAssumption DEF LoopInv, TypeOK, Runs, CallsEngine, Patches
<1>4. loop' \notin Requests /\ kind' = kind
  BY LoopAssumption DEF Runs
<1> QED
  BY <1>1, <1>2, <1>3, <1>4 DEF LoopInv, Suspended

(* A handler that stops the loop was running on it.                        *)
LEMMA StopsLoopKeepsInv ==
  ASSUME LoopInv, NEW r \in Requests, Running \/ loop = r, kind[r] # "login",
         NEW place \in {"pool", "row"}, StopsLoop(r, place)
  PROVE  LoopInv'
<1>1. TypeOK'
  BY DEF LoopInv, TypeOK, StopsLoop, Places, operator
<1>2. at'[r] = place /\ \A s \in Requests \ {r} :
         at'[s] = at[s] /\ at[s] # "row" /\ (at[s] = "pool" => kind[s] = "login")
  BY LoopAssumption DEF LoopInv, TypeOK, StopsLoop, Running
<1> QED
  BY <1>1, <1>2 DEF LoopInv, StopsLoop, Suspended

LEMMA RunsOrBlocksKeepsInv ==
  ASSUME LoopInv, NEW r \in Requests, Running \/ loop = r, kind[r] # "login",
         RunsOrBlocks(r)
  PROVE  LoopInv'
BY RunsKeepsInv, StopsLoopKeepsInv DEF RunsOrBlocks

(* A request that has not stopped the loop moves on without touching it,   *)
(* not to a row, and to the pool or a thread only as a login.              *)
LEMMA MovesKeepsInv ==
  ASSUME LoopInv, NEW r \in Requests, NEW place \in Places \ {"row"}, loop # r,
         place \in {"pool", "thread"} => kind[r] = "login",
         place \in {"await", "answered"} => Suspended(r),
         Moves(r, place), UNCHANGED loop
  PROVE  LoopInv'
<1>1. TypeOK'
  BY DEF LoopInv, TypeOK, Moves, operator
<1>2. at'[r] = place /\ \A s \in Requests \ {r} : at'[s] = at[s]
  BY DEF LoopInv, TypeOK, Moves
<1> QED
  BY <1>1, <1>2 DEF LoopInv, Moves, Suspended

LEMMA StepKeepsInv ==
  ASSUME LoopInv, NEW r \in Requests, Send(r) \/ Step(r)
  PROVE  LoopInv'
<1>1. CASE Send(r)
  BY <1>1, MovesKeepsInv DEF Send, LoopInv, Places
<1>2. CASE Start(r)
  BY <1>2, RunsOrBlocksKeepsInv, StopsLoopKeepsInv DEF Start
<1>3. CASE GetConnection(r)
  BY <1>3, RunsOrBlocksKeepsInv DEF GetConnection, LoopInv
<1>4. CASE PoolTimeout(r)
  <2>1. CASE loop = r
    <3>1. \A s \in Requests : s # r => at[s] # "row" /\ (at[s] = "pool" => kind[s] = "login")
      BY <2>1 DEF LoopInv
    <3> QED
      BY <1>4, <2>1, <3>1, LoopAssumption
         DEF PoolTimeout, Moves, LoopInv, TypeOK, Places, Suspended, operator
  <2>2. CASE loop # r
    BY <1>4, <2>2, MovesKeepsInv DEF PoolTimeout, Places
  <2> QED
    BY <2>1, <2>2
<1>5. CASE GetRow(r)
  BY <1>5, RunsKeepsInv DEF GetRow, LoopInv
<1>6. CASE Answer(r)
  BY <1>6, MovesKeepsInv DEF Answer, LoopInv, Suspended, Places
<1>7. CASE Resume(r)
  BY <1>7, RunsOrBlocksKeepsInv DEF Resume, LoopInv, Suspended
<1>8. CASE StartLogin(r)
  BY <1>8, MovesKeepsInv DEF StartLogin, LoopInv, Places
<1>9. CASE LoginConnects(r)
  BY <1>9, MovesKeepsInv DEF LoginConnects, LoopInv, Places
<1>10. CASE FinishLogin(r)
  BY <1>10, MovesKeepsInv DEF FinishLogin, LoopInv, Places
<1> QED
  BY <1>1, <1>2, <1>3, <1>4, <1>5, <1>6, <1>7, <1>8, <1>9, <1>10 DEF Step

LEMMA NextKeepsInv == LoopInv /\ [Next]_vars => LoopInv'
<1> SUFFICES ASSUME LoopInv, [Next]_vars PROVE LoopInv'
  OBVIOUS
<1>1. CASE \E r \in Requests : Send(r) \/ Step(r)
  BY <1>1, StepKeepsInv
<1>2. CASE BeginScript \/ RunScript
  BY <1>2 DEF BeginScript, RunScript, ScriptLocks, EndScript, LoopInv, TypeOK, Suspended
<1>3. CASE Restart
  BY <1>3, LoopAssumption DEF Restart, LoopInv, TypeOK, Places, Suspended, operator
<1>4. CASE UNCHANGED vars
  BY <1>4 DEF vars, LoopInv, TypeOK, Suspended
<1> QED
  BY <1>1, <1>2, <1>3, <1>4 DEF Next

(* The variables keep their types, and what stops the loop is a handler on *)
(* it that waits for a connection or a row (db.py: tenant_tx connects and  *)
(* executes synchronously; only login leaves the loop).                    *)
THEOREM LoopInvariance == Spec => []LoopInv
<1>1. LoopInv /\ [Next]_vars => LoopInv'
  BY NextKeepsInv
<1> QED
  BY InitLoopInv, <1>1, PTL DEF Spec

-----------------------------------------------------------------------------
(* Whoever holds a row the loop waits for is a suspended PATCH: it does    *)
(* not wait for a row itself, since it would have stopped the loop.        *)
LEMMA HoldersAreSuspended ==
  ASSUME LoopInv, Frozen, NEW q \in Holders(loop)
  PROVE  q \in Requests \ {loop} /\ kind[q] \in Patches /\ Suspended(q)
<1>1. /\ q \in Requests \ {loop} /\ Holds(q) # {}
      /\ kind[q] \in Patches /\ Connected(q)
  BY DEF Holders, Holds
<1>2. loop # NoRequest /\ loop \in Requests
  BY DEF Frozen, Running, LoopInv, TypeOK
<1>3. at[q] # "row" /\ (at[q] = "thread" => kind[q] = "login")
  BY <1>1, <1>2 DEF LoopInv
<1> QED
  BY <1>1, <1>3 DEF Connected, Patches

(* A wait for a row that another request holds is a deadlock: the holder   *)
(* is a PATCH that needs the loop to go on (db.py, the engine calls of     *)
(* patch_pursuit).                                                         *)
THEOREM RowWaitsAreDeadlocks == Spec => []RowWaitIsDeadlock
<1>1. LoopInv => RowWaitIsDeadlock
  BY HoldersAreSuspended DEF RowWaitIsDeadlock, Stuck
<1> QED
  BY LoopInvariance, <1>1, PTL

(* No request, answer, thread or script gets a loop going again that is    *)
(* stuck: the PATCH may be answered but not resumed, the script waits for  *)
(* it, and no lock timeout ends the wait (db.py).                          *)
THEOREM FrozenForGood == Spec => FrozenUntilRestart
<1>1. LoopInv /\ [Next]_vars => (Stuck /\ restarts' = restarts => Stuck')
  <2> SUFFICES ASSUME LoopInv, [Next]_vars, Stuck, restarts' = restarts
               PROVE  Stuck'
    OBVIOUS
  <2>1. loop \in Requests /\ at[loop] = "row" /\ ~RowsFree(loop)
    BY DEF Stuck, Frozen, Running, LoopInv, TypeOK, RowsFree
  <2>2. PICK q \in Requests \ {loop} :
          /\ kind[q] \in Patches /\ Suspended(q)
          /\ q \in Holders(loop) \/ (ScriptHolds(loop) /\ on[q] \notin locked)
    BY DEF Stuck
  <2>3. "pursuit" \in Holds(q) /\ on[q] \in Pursuits
    BY <2>2 DEF LoopInv, TypeOK, Holds, Connected
  <2>4. ASSUME UNCHANGED <<kind, on, calls, loop>>, at'[loop] = "row", Suspended(q)',
               q \in Holders(loop) \/ (on[loop] \in locked' /\ on[q] \notin locked')
        PROVE  Stuck'
    <3>1. q \in Holders(loop) => (q \in Holders(loop))'
      BY <2>1, <2>4 DEF Holders, Holds, Writes, Connected
    <3>2. q \notin Holders(loop) => ScriptHolds(loop)'
      BY <2>2, <2>4 DEF ScriptHolds, Writes
    <3> QED
      BY <2>1, <2>2, <2>4, <3>1, <3>2 DEF Stuck, Frozen, Running
  <2>5. ASSUME NEW r \in Requests, Send(r) \/ Step(r)
        PROVE  Stuck'
    <3>1. \/ Send(r) \/ Answer(r) \/ LoginConnects(r) \/ FinishLogin(r)
          \/ PoolTimeout(r) /\ loop # r
      BY <2>1, <2>5 DEF Stuck, Frozen, Step, Start, GetConnection, PoolTimeout, GetRow,
                        Resume, StartLogin, Running, LoopInv
    <3>2. /\ UNCHANGED <<kind, on, calls, loop, locked>>
          /\ at'[loop] = "row" /\ Suspended(q)'
      BY <2>1, <2>2, <3>1 DEF Send, Answer, LoginConnects, FinishLogin, PoolTimeout,
                              Moves, operator, LoopInv, TypeOK, Suspended
    <3> QED
      BY <2>2, <2>4, <3>2 DEF ScriptHolds
  <2>6. CASE \E p \in Pursuits : ScriptLocks(p)
    BY <2>1, <2>2, <2>3, <2>4, <2>6 DEF ScriptLocks, ScriptHolds, Suspended
  <2>7. CASE EndScript \/ BeginScript
    BY <2>1, <2>2, <2>3, <2>4, <2>7 DEF EndScript, BeginScript, ScriptHolds, Suspended
  <2>8. ~Restart
    BY DEF Restart
  <2>9. CASE UNCHANGED vars
    BY <2>1, <2>2, <2>4, <2>9 DEF vars, ScriptHolds, Suspended
  <2> QED
    BY <2>5, <2>6, <2>7, <2>8, <2>9 DEF Next, RunScript
<1> QED
  BY LoopInvariance, <1>1, PTL DEF Spec, FrozenUntilRestart
=============================================================================
