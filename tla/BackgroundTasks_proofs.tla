----------------------- MODULE BackgroundTasks_proofs -----------------------
(* Theorems of the two loops the process runs beside its handlers          *)
(* (api/app/main.py:72-118): the one that refreshes the scoring table,     *)
(* ScoringTable with the EngineKeys it extends, behaves by TableSpec, the  *)
(* one that keeps the markets in line, MarketSync, by Spec.  Their models  *)
(* share no variable.                                                      *)
(*                                                                         *)
(* The table: for any callers, keys, versions and faults.  The markets: a  *)
(* client's codes stay unique and what they were, its flags follow the     *)
(* last list applied and the records explain the flags, for every list of  *)
(* clients, every set of names and every way of slugging them into codes.  *)
EXTENDS ScoringTable, MarketSync, FiniteSetTheorems, WellFoundedInduction, TLAPS
-----------------------------------------------------------------------------
(* Every key in use was SSM's at some time, and a dropped one no longer is. *)
KeyInv ==
    /\ KeysTypeOK
    /\ RejectedKeyStaysOut
    /\ cache # NoKey => cache.key <= ssm
    /\ \A c \in Callers : call[c] # Idle => call[c].key <= ssm
    /\ \A k \in dropped : k < ssm

(* No part of the table is newer than what the engine serves, nor than its *)
(* answer that is still to be stored, since nobody else stores one; and    *)
(* the parts differ only once nobody refreshes it.                         *)
TableInv ==
    /\ TableTypeOK
    /\ TornTableIsLast
    /\ answered <= published /\ table.tables <= published /\ table.base <= published
    /\ call[Refresher].verdict = "accepted" =>
          table.tables <= answered /\ table.base <= answered

-----------------------------------------------------------------------------
LEMMA InitKeyInv == KeysInit => KeyInv
BY KeyAssumption DEF KeysInit, KeyInv, KeysTypeOK, RejectedKeyStaysOut, Keys, NoKey, Idle

(* Sending uses the cached key or caches SSM's, which was never dropped.   *)
LEMMA SendKeepsKeyInv ==
  ASSUME KeyInv, NEW c \in Callers, Send(c) PROVE KeyInv'
<1> USE KeyAssumption DEF KeyInv, KeysTypeOK, RejectedKeyStaysOut, Keys, NoKey, Idle
<1>1. cache' # NoKey /\ cache' \in [key : Keys, age : 0..TTL] /\ cache'.key <= ssm
  BY DEF Send, Fresh
<1>2. cache'.key \notin dropped
  BY DEF Send, Fresh
<1>3. \A d \in Callers : call'[d] = IF d = c THEN [key |-> cache'.key, verdict |-> "sent"]
                                    ELSE call[d]
  BY DEF Send
<1>4. call' \in [Callers -> [key : Keys,
                             verdict : {"sent", "accepted", "rejected", "failed"}] \cup {Idle}]
  BY <1>1 DEF Send
<1> QED
  BY <1>1, <1>2, <1>3, <1>4 DEF Send

LEMMA JudgeKeepsKeyInv ==
  ASSUME KeyInv, NEW c \in Callers, Judge(c) PROVE KeyInv'
<1> USE KeyAssumption DEF KeyInv, KeysTypeOK, RejectedKeyStaysOut, Keys, NoKey, Idle
<1>1. call[c] \in [key : Keys, verdict : {"sent", "accepted", "rejected", "failed"}]
  BY DEF Judge
<1>2. PICK v \in {"accepted", "rejected", "failed"} :
         call' = [call EXCEPT ![c].verdict = v]
  BY DEF Judge
<1>3. /\ call'[c] \in [key : Keys, verdict : {"sent", "accepted", "rejected", "failed"}]
      /\ call'[c].key = call[c].key
      /\ \A d \in Callers \ {c} : call'[d] = call[d]
  BY <1>1, <1>2
<1> QED
  BY <1>1, <1>2, <1>3 DEF Judge

(* A rejected key that SSM has replaced is older than SSM's.               *)
LEMMA HandleKeepsKeyInv ==
  ASSUME KeyInv, NEW c \in Callers, Handle(c) PROVE KeyInv'
<1> USE KeyAssumption DEF KeyInv, KeysTypeOK, RejectedKeyStaysOut, Keys, NoKey, Idle
<1>1. call[c] # Idle /\ call[c].key \in Keys /\ call[c].key <= ssm
  BY DEF Handle
<1>2. \A d \in Callers : call'[d] = IF d = c THEN Idle ELSE call[d]
  BY DEF Handle, CallAfter
<1>3. call' \in [Callers -> [key : Keys,
                             verdict : {"sent", "accepted", "rejected", "failed"}] \cup {Idle}]
  BY DEF Handle, CallAfter
<1>4. CASE call[c].verdict = "rejected"
  <2>1. cache' = NoKey /\ dropped' = dropped \cup ({call[c].key} \ {ssm})
    BY <1>4 DEF Handle, CachedAfter
  <2>2. \A k \in dropped' : k \in Keys /\ k < ssm
    BY <1>1, <2>1
  <2>3. cache'.key \notin dropped'
    BY <2>1, <2>2
  <2> QED
    BY <1>1, <1>2, <1>3, <2>1, <2>2, <2>3 DEF Handle
<1>5. CASE call[c].verdict # "rejected"
  BY <1>1, <1>2, <1>3, <1>5 DEF Handle, CachedAfter
<1> QED
  BY <1>4, <1>5

LEMMA WorldKeepsKeyInv ==
  ASSUME KeyInv, Surroundings PROVE KeyInv'
<1> USE KeyAssumption DEF KeyInv, KeysTypeOK, RejectedKeyStaysOut, Keys, NoKey, Idle
<1>1. CASE Tick
  <2>1. cache' \in [key : Keys, age : 0..TTL] /\ cache'.key = cache.key
    BY <1>1 DEF Tick, Fresh
  <2> QED
    BY <1>1, <2>1 DEF Tick, Fresh
<1>2. CASE RotateEngine
  BY <1>2 DEF RotateEngine
<1>3. CASE RotateSsm
  BY <1>3 DEF RotateSsm
<1>4. CASE Outage
  BY <1>4 DEF Outage
<1> QED
  BY <1>1, <1>2, <1>3, <1>4 DEF Surroundings

LEMMA RestartKeepsKeyInv ==
  ASSUME KeyInv, KeysRestart PROVE KeyInv'
BY KeyAssumption DEF KeysRestart, KeyInv, KeysTypeOK, RejectedKeyStaysOut, Keys, NoKey, Idle

LEMMA NextKeepsKeyInv == KeyInv /\ [TableNext]_tableVars => KeyInv'
<1> SUFFICES ASSUME KeyInv, [TableNext]_tableVars PROVE KeyInv'
  OBVIOUS
<1>1. CASE UNCHANGED keyVars
  BY <1>1 DEF keyVars, KeyInv, KeysTypeOK, RejectedKeyStaysOut
<1>2. CASE Refresh
  BY <1>1, <1>2, TableAssumption, SendKeepsKeyInv, HandleKeepsKeyInv
     DEF Refresh, BeginRefresh, FinishRefresh
<1>3. CASE \E c \in Callers : Recalculate(c) \/ FinishRecalculation(c) \/ EngineJudges(c)
  BY <1>3, SendKeepsKeyInv, HandleKeepsKeyInv, JudgeKeepsKeyInv
     DEF Recalculate, FinishRecalculation, EngineJudges
<1>4. CASE Publish \/ SwitchClient
  BY <1>1, <1>4 DEF Publish, SwitchClient
<1>5. CASE World \/ TableRestart
  BY <1>5, WorldKeepsKeyInv, RestartKeepsKeyInv DEF World, TableRestart
<1>6. CASE UNCHANGED tableVars
  BY <1>1, <1>6 DEF tableVars, keyVars
<1> QED
  BY <1>2, <1>3, <1>4, <1>5, <1>6 DEF TableNext

(* A key whose rejection was handled once SSM had another never comes back *)
(* into the cache, however many calls are in flight with it                *)
(* (engine_client.py:139-175).                                             *)
THEOREM RejectedKeysStayOut == TableSpec => []RejectedKeyStaysOut
<1>1. TableInit => KeyInv
  BY InitKeyInv DEF TableInit
<1>2. KeyInv /\ [TableNext]_tableVars => KeyInv'
  BY NextKeepsKeyInv
<1>3. KeyInv => RejectedKeyStaysOut
  BY DEF KeyInv
<1> QED
  BY <1>1, <1>2, <1>3, PTL DEF TableSpec

-----------------------------------------------------------------------------
LEMMA NextKeepsTableInv == KeyInv /\ KeyInv' /\ TableInv /\ [TableNext]_tableVars => TableInv'
<1> SUFFICES ASSUME KeyInv, KeyInv', TableInv, [TableNext]_tableVars PROVE TableInv'
  OBVIOUS
<1> USE TableAssumption DEF TableInv, TableTypeOK, TornTableIsLast, Whole, Parts, Versions, Tasks
<1>0. KeysTypeOK /\ KeysTypeOK'
  BY DEF KeyInv
<1>1. CASE BeginRefresh
  <2>1. call'[Refresher].verdict = "accepted" => call' = call
    BY <1>0, <1>1 DEF BeginRefresh, Send, KeysTypeOK, keyVars
  <2> QED
    BY <1>0, <1>1, <2>1 DEF BeginRefresh, Due, Uncaught, Calling
<1>2. CASE FinishRefresh
  <2>1. call'[Refresher].verdict = "none"
    BY <1>0, <1>2 DEF FinishRefresh, Handle, CallAfter, Idle, KeysTypeOK
  <2> QED
    BY <1>0, <1>2, <2>1 DEF FinishRefresh, Stored, Uncaught
<1>3. ASSUME NEW c \in Callers, Recalculate(c) \/ FinishRecalculation(c)
      PROVE  TableInv'
  <2>1. call'[Refresher] = call[Refresher]
    BY <1>0, <1>3 DEF Recalculate, FinishRecalculation, Send, Handle, KeysTypeOK
  <2> QED
    BY <1>0, <1>3, <2>1 DEF Recalculate, FinishRecalculation, Nothing
<1>4. ASSUME NEW c \in Callers, EngineJudges(c)
      PROVE  TableInv'
  <2>1. c # Refresher => call'[Refresher] = call[Refresher]
    BY <1>0, <1>4 DEF EngineJudges, Judge, KeysTypeOK
  <2> QED
    BY <1>0, <1>4, <2>1 DEF EngineJudges
<1>5. CASE Publish \/ SwitchClient \/ World
  <2>1. UNCHANGED call
    BY <1>5 DEF Publish, SwitchClient, World, keyVars, Surroundings, Tick, RotateEngine,
                RotateSsm, Outage
  <2>2. CASE Publish \/ World
    BY <1>0, <2>1, <2>2 DEF Publish, World
  <2>3. CASE SwitchClient
    <3>1. someClient' \in BOOLEAN
      BY <2>3, Zenon DEF SwitchClient
    <3>2. UNCHANGED <<published, answered, table, task, payload, restarts>>
      BY <2>3 DEF SwitchClient
    <3> QED
      BY <1>0, <2>1, <3>1, <3>2
  <2> QED
    BY <1>5, <2>2, <2>3
<1>6. CASE TableRestart
  <2>1. call'[Refresher].verdict = "none"
    BY <1>6 DEF TableRestart, KeysRestart, Idle
  <2> QED
    BY <1>0, <1>6, <2>1 DEF TableRestart, Nothing
<1>7. CASE UNCHANGED tableVars
  BY <1>0, <1>7 DEF tableVars
<1> QED
  BY <1>1, <1>2, <1>3, <1>4, <1>5, <1>6, <1>7 DEF TableNext, Refresh

LEMMA TableInvariance == TableSpec => []TableInv
<1>1. TableInit => KeyInv /\ TableInv
  BY InitKeyInv, TableAssumption
     DEF TableInit, KeysInit, KeyInv, Idle, TableInv, TableTypeOK, TornTableIsLast, Whole, Parts, Versions, Tasks, Nothing
<1>2. KeyInv /\ TableInv /\ [TableNext]_tableVars => (KeyInv /\ TableInv)'
  BY NextKeepsKeyInv, NextKeepsTableInv
<1> QED
  BY <1>1, <1>2, PTL DEF TableSpec

(* A torn table is the last: the error that tore it has ended the refresh  *)
(* loop, so it is used until the process is restarted (scoring.py:         *)
(* refresh, refresh_loop).                                                 *)
THEOREM TornTablesAreLast == TableSpec => []TornTableIsLast
BY TableInvariance, PTL DEF TableInv

(* Whatever fails, a table that was loaded is not lost and no older one    *)
(* comes back, short of a restart (scoring.py: refresh).                   *)
THEOREM TablesNeverRegress == TableSpec => TableNeverRegresses
<1>1. TableInv /\ [TableNext]_tableVars =>
         (restarts' = restarts => table'.tables >= table.tables /\ table'.base >= table.base)
  BY DEF TableInv, TableTypeOK, Parts, Versions, TableNext, tableVars, Refresh, BeginRefresh, FinishRefresh,
         Handle, Stored, Publish, SwitchClient, World, TableRestart, Recalculate, FinishRecalculation, EngineJudges
<1> QED
  BY TableInvariance, <1>1, PTL DEF TableSpec, TableNeverRegresses
-----------------------------------------------------------------------------
(* A set of numbers has a least one.                                       *)
LEMMA LeastNumber ==
    ASSUME NEW S \in SUBSET Nat, S # {}
    PROVE  \E x \in S : \A y \in S : x <= y
<1>1. PICK x \in S : \A y \in S : ~(<<y, x>> \in OpToRel(<, Nat))
  BY NatLessThanWellFounded, WFMin, Zenon
<1>2. \A y \in S : x <= y
  <2> SUFFICES ASSUME NEW y \in S, ~(x <= y) PROVE FALSE
    OBVIOUS
  <2>1. y \in Nat /\ x \in Nat /\ y < x
    OBVIOUS
  <2>2. <<y, x>> \in OpToRel(<, Nat)
    BY <2>1, Zenon DEF OpToRel
  <2> QED BY <1>1, <2>2
<1> QED BY <1>2

(* Induction over the names, for a set.                                    *)
LEMMA NameByName ==
    ASSUME NEW S, 0 \in S, \A n \in Names : n - 1 \in S => n \in S
    PROVE  0..LastName \subseteq S
<1> DEFINE Rest == (0..LastName) \ S
<1> SUFFICES ASSUME Rest # {} PROVE FALSE
  OBVIOUS
<1>1. Rest \in SUBSET Nat
  BY SyncAssumption
<1>2. PICK n \in Rest : \A m \in Rest : n <= m
  BY <1>1, LeastNumber
<1>3. n \in Names /\ n - 1 \in 0..LastName /\ n - 1 < n
  BY SyncAssumption DEF Names
<1>4. n - 1 \notin Rest
  BY <1>2, <1>3, <1>1
<1> QED BY <1>3, <1>4
-----------------------------------------------------------------------------
(* Of one more suffixed code than there are codes in use one is free, so   *)
(* that _generate_code finds one, and takes it.                            *)
LEMMA GeneratedCodeIsNew ==
    ASSUME NEW n \in Names, NEW existing, IsFiniteSet(existing),
           Cardinality(existing) <= LastName
    PROVE  GenerateCode(n, existing) \in Codes(n) \ existing
<1> DEFINE c == Cardinality(existing)
           Suffixes == 2..c + 2
           free(i) == Append(BaseCode[n], i) \notin existing
           Least(i) == i \in Suffixes /\ free(i) /\ \A j \in 2..(i - 1) : ~free(j)
<1>1. c \in Nat /\ LastName \in Nat
  BY FS_CardinalityType, SyncAssumption
<1>2. BaseCode[n] \in Seq(Nat)
  BY SyncAssumption
<1>3. CASE BaseCode[n] \notin existing
  BY <1>3 DEF GenerateCode, Codes
<1>4. CASE BaseCode[n] \in existing
  <2>1. \E i \in Suffixes : free(i)
    <3> SUFFICES ASSUME \A i \in Suffixes : Append(BaseCode[n], i) \in existing
                 PROVE  FALSE
      OBVIOUS
    <3> DEFINE f == [i \in Suffixes |-> Append(BaseCode[n], i)]
    <3>1. IsFiniteSet(Suffixes) /\ Cardinality(Suffixes) = c + 1
      <4>1. 2 \in Int /\ c + 2 \in Int /\ ~(2 > c + 2) /\ (c + 2) - 2 + 1 = c + 1
        BY <1>1
      <4> QED BY <4>1, FS_Interval
    <3>2. f \in [Suffixes -> existing] /\ c < c + 1
      BY <1>1
    <3>3. PICK i, j \in Suffixes : i # j /\ f[i] = f[j]
      <4> HIDE DEF f, Suffixes
      <4>1. c = Cardinality(existing)
        OBVIOUS
      <4> HIDE DEF c
      <4>2. Cardinality(existing) < Cardinality(Suffixes)
        BY <3>1, <3>2, <4>1
      <4> QED BY <3>1, <3>2, <4>2, FS_PigeonHole
    <3>4. Append(BaseCode[n], i) = Append(BaseCode[n], j)
      BY <3>3
    <3>5. i \in Nat /\ j \in Nat
      BY <1>1
    <3>6. \A b \in Seq(Nat), m \in Nat : Append(b, m)[Len(b) + 1] = m
      OBVIOUS
    <3> QED BY <1>2, <3>3, <3>4, <3>5, <3>6
  <2> DEFINE Free == {i \in Suffixes : free(i)}
  <2>2. Free \in SUBSET Nat /\ Free # {}
    BY <1>1, <2>1
  <2>3. PICK i \in Free : \A j \in Free : i <= j
    BY <2>2, LeastNumber
  <2>4. \A j \in 2..(i - 1) : j \in Suffixes /\ ~(i <= j)
    BY <1>1, <2>2
  <2>5. Least(i)
    BY <2>3, <2>4
  <2> DEFINE k == CHOOSE m \in Suffixes : free(m) /\ \A j \in 2..(m - 1) : ~free(j)
  <2>6. k \in Suffixes /\ free(k)
    BY <2>5
  <2>7. GenerateCode(n, existing) = Append(BaseCode[n], k)
    BY <1>4 DEF GenerateCode
  <2>8. k \in 2..LastName + 2
    BY <1>1, <2>6
  <2> QED BY <2>6, <2>7, <2>8 DEF Codes
<1> QED BY <1>3, <1>4

(* A client has no more codes than there are names.                        *)
LEMMA CodesAreFew ==
    ASSUME NEW t \in Tables
    PROVE  IsFiniteSet(CodesOf(t)) /\ Cardinality(CodesOf(t)) <= LastName
<1> DEFINE f == [n \in Present(t) |-> t[n].code]
<1>1. IsFiniteSet(Names) /\ Cardinality(Names) = LastName /\ LastName \in Nat
  BY FS_Interval, SyncAssumption DEF Names
<1>2. Present(t) \in SUBSET Names
  BY DEF Present
<1>3. IsFiniteSet(Present(t)) /\ Cardinality(Present(t)) <= LastName
  BY <1>1, <1>2, FS_Subset
<1>4. f \in Surjection(Present(t), CodesOf(t))
  BY DEF Surjection, CodesOf
<1>5. IsFiniteSet(CodesOf(t)) /\ Cardinality(CodesOf(t)) <= Cardinality(Present(t))
  BY <1>3, <1>4, FS_Surjection
<1>6. Cardinality(CodesOf(t)) \in Nat /\ Cardinality(Present(t)) \in Nat
  BY <1>3, <1>5, FS_CardinalityType
<1> QED BY <1>1, <1>3, <1>5, <1>6
-----------------------------------------------------------------------------
UniqueCodes(t) ==
    \A m, n \in Present(t) : m # n => t[m].code # t[n].code

(* A market that is created gets a code of its own and leaves the others   *)
(* alone.                                                                  *)
LEMMA CreatedIsNew ==
    ASSUME NEW t \in Tables, NEW n \in Names
    PROVE  LET c == Created(t, n) IN
           /\ c \in Tables /\ n \in Present(c) /\ ~c[n].flagged
           /\ \A m \in Names \ {n} : c[m] = t[m]
           /\ UniqueCodes(t) => UniqueCodes(c)
<1> DEFINE c == Created(t, n)
           code == GenerateCode(n, CodesOf(t))
           new == [code |-> code, flagged |-> FALSE]
<1>1. code \in Codes(n) /\ code \notin CodesOf(t)
  BY CodesAreFew, GeneratedCodeIsNew
<1> HIDE DEF code
<1>2. c = [t EXCEPT ![n] = new]
  BY DEF Created, code
<1>3. code # <<>>
  <2>1. BaseCode[n] \in Seq(Nat) /\ BaseCode[n] # <<>>
    BY SyncAssumption
  <2>2. \A i \in Nat : Append(BaseCode[n], i) # <<>>
    BY <2>1
  <2>3. \A i \in 2..LastName + 2 : i \in Nat
    BY SyncAssumption
  <2> QED BY <1>1, <2>1, <2>2, <2>3 DEF Codes
<1>4. new \in Rows(n) /\ new # Absent /\ new.flagged = FALSE /\ new.code = code
  BY <1>1, <1>3 DEF Rows, Absent
<1> HIDE DEF new
<1>5. /\ DOMAIN t = Names /\ t \in [Names -> UNION {Rows(m) : m \in Names}]
      /\ \A m \in Names : t[m] \in Rows(m)
  BY DEF Tables
<1>6. c[n] = new /\ \A m \in Names \ {n} : c[m] = t[m]
  BY <1>2, <1>5
<1> HIDE DEF c
<1>7. c \in [Names -> UNION {Rows(m) : m \in Names}]
  BY <1>2, <1>4, <1>5
<1>8. c \in Tables
  BY <1>4, <1>5, <1>6, <1>7 DEF Tables
<1>9. ASSUME UniqueCodes(t) PROVE UniqueCodes(c)
  <2>1. \A m \in Present(c) \ {n} : m \in Present(t) /\ c[m] = t[m] /\ c[m].code # code
    BY <1>1, <1>6 DEF Present, CodesOf
  <2> QED BY <1>4, <1>6, <1>9, <2>1 DEF UniqueCodes
<1>10. n \in Present(c) /\ ~c[n].flagged
  BY <1>4, <1>6 DEF Present
<1> QED BY <1>6, <1>8, <1>9, <1>10 DEF c

(* The creation of the missing markets, name by name.                      *)
LEMMA CreateAllByName ==
    ASSUME NEW local, NEW names
    PROVE  \E upTo : /\ CreateAll(local, names) = upTo[LastName] /\ upTo[0] = local
                     /\ \A n \in Names : upTo[n] = IF n \in names
                           THEN Created(upTo[n - 1], n) ELSE upTo[n - 1]
<1> DEFINE Next1(f, n) == IF n = 0 THEN local
                          ELSE IF n \in names THEN Created(f[n - 1], n) ELSE f[n - 1]
           Solves(f, k) == f = [n \in 0..k |-> Next1(f, n)]
           S == {k \in 0..LastName : \E f : Solves(f, k)}
           upTo == CHOOSE f : f = [n \in 0..LastName |-> Next1(f, n)]
<1>1. 0 \in S
  <2> DEFINE f == [n \in 0..0 |-> local]
  <2>1. \A n \in 0..0 : n = 0
    OBVIOUS
  <2>2. Solves(f, 0)
    BY <2>1
  <2>3. 0 \in 0..LastName
    BY SyncAssumption
  <2> HIDE DEF Solves
  <2> QED BY <2>2, <2>3
<1>2. ASSUME NEW k \in Names, k - 1 \in S PROVE k \in S
  <2>1. PICK f : Solves(f, k - 1)
    BY <1>2
  <2> DEFINE g == [n \in 0..k |-> IF n = k THEN Next1(f, k) ELSE f[n]]
  <2>2. k \in Nat /\ k # 0 /\ k \in 0..LastName
    BY SyncAssumption DEF Names
  <2>3. \A n \in 0..(k - 1) : f[n] = Next1(f, n)
    BY <2>1
  <2>4. \A n \in 0..k : n # 0 => n - 1 \in 0..(k - 1) /\ n - 1 # k
    BY <2>2
  <2>5. \A n \in 0..k : n # k => n \in 0..(k - 1)
    BY <2>2
  <2>6. \A n \in 0..k : n # 0 => g[n - 1] = f[n - 1]
    BY <2>2, <2>4
  <2>7. \A n \in 0..k : Next1(g, n) = Next1(f, n)
    BY <2>6
  <2>8. \A n \in 0..k : g[n] = Next1(g, n)
    BY <2>3, <2>5, <2>7
  <2>9. Solves(g, k)
    BY <2>8
  <2> QED BY <2>2, <2>9
<1> HIDE DEF Solves
<1>3. LastName \in S
  <2> HIDE DEF S
  <2>1. 0..LastName \subseteq S
    BY <1>1, <1>2, NameByName
  <2>2. LastName \in 0..LastName
    BY SyncAssumption
  <2> QED BY <2>1, <2>2
<1>4. \E f : f = [n \in 0..LastName |-> Next1(f, n)]
  BY <1>3 DEF Solves
<1> HIDE DEF Next1
<1>5. upTo = [n \in 0..LastName |-> Next1(upTo, n)]
  BY <1>4
<1>6. CreateAll(local, names) = upTo[LastName]
  BY DEF CreateAll, Next1
<1> HIDE DEF upTo
<1>7. 0 \in 0..LastName /\ \A n \in Names : n \in 0..LastName /\ n # 0
  BY SyncAssumption DEF Names
<1>8. upTo[0] = local /\ \A n \in Names : upTo[n] = Next1(upTo, n)
  BY <1>5, <1>7 DEF Next1
<1> QED BY <1>6, <1>7, <1>8 DEF Next1

(* Creating the missing markets leaves the other ones alone and keeps the  *)
(* codes unique.                                                           *)
LEMMA CreateAllIsSound ==
    ASSUME NEW local \in Tables, UniqueCodes(local), NEW names \in SUBSET Names
    PROVE  LET c == CreateAll(local, names) IN
           /\ c \in Tables /\ UniqueCodes(c)
           /\ \A n \in Names \ names : c[n] = local[n]
           /\ \A n \in names : n \in Present(c) /\ ~c[n].flagged
<1>1. PICK upTo : /\ CreateAll(local, names) = upTo[LastName] /\ upTo[0] = local
                  /\ \A n \in Names : upTo[n] = IF n \in names
                        THEN Created(upTo[n - 1], n) ELSE upTo[n - 1]
  BY CreateAllByName
<1> DEFINE Good(t, k) == /\ t \in Tables /\ UniqueCodes(t)
                         /\ \A n \in Names : n \notin names \/ n > k => t[n] = local[n]
                         /\ \A n \in names : n <= k => n \in Present(t) /\ ~t[n].flagged
           S == {k \in 0..LastName : Good(upTo[k], k)}
<1>2. \A n \in Names : n \in Nat /\ n > 0 /\ n \in 0..LastName
  BY SyncAssumption DEF Names
<1>3. 0 \in S
  <2>1. 0 \in 0..LastName
    BY SyncAssumption
  <2>2. \A n \in names : ~(n <= 0)
    BY <1>2
  <2> QED BY <1>1, <2>1, <2>2
<1>4. ASSUME NEW k \in Names, k - 1 \in S PROVE k \in S
  <2> DEFINE t == upTo[k - 1]
  <2>1. Good(t, k - 1)
    BY <1>4
  <2>2. \A n \in Names : n <= k => n = k \/ n <= k - 1
    BY <1>2
  <2>3. \A n \in Names : n > k => n > k - 1 /\ n # k
    BY <1>2
  <2>4. CASE k \in names
    <3> DEFINE u == Created(t, k)
    <3>1. upTo[k] = u
      BY <1>1, <2>4
    <3>2. t \in Tables /\ UniqueCodes(t)
      BY <2>1
    <3> HIDE DEF t
    <3>3. /\ u \in Tables /\ k \in Present(u) /\ ~u[k].flagged
          /\ \A m \in Names \ {k} : u[m] = t[m]
          /\ UniqueCodes(u)
      BY <3>2, CreatedIsNew
    <3> HIDE DEF u
    <3>4. \A n \in Names : n \notin names \/ n > k => u[n] = local[n]
      BY <2>1, <2>3, <2>4, <3>3
    <3>5. ASSUME NEW n \in names, n <= k PROVE n \in Present(u) /\ ~u[n].flagged
      <4>1. CASE n = k
        BY <3>3, <4>1
      <4>2. CASE n # k
        <5>1. n \in Present(t) /\ ~t[n].flagged
          BY <2>1, <2>2, <3>5, <4>2
        <5> QED BY <3>3, <4>2, <5>1 DEF Present
      <4> QED BY <4>1, <4>2
    <3>6. Good(u, k)
      BY <3>3, <3>4, <3>5
    <3> QED BY <1>2, <3>1, <3>6
  <2>5. CASE k \notin names
    <3>1. upTo[k] = t
      BY <1>1, <2>5
    <3> HIDE DEF t
    <3>2. \A n \in names : n <= k => n <= k - 1
      BY <2>2, <2>5
    <3>3. Good(t, k)
      BY <2>1, <2>3, <3>2
    <3> QED BY <1>2, <3>1, <3>3
  <2> QED BY <2>4, <2>5
<1>5. LastName \in S
  <2> HIDE DEF S
  <2>1. 0..LastName \subseteq S
    BY <1>3, <1>4, NameByName
  <2>2. LastName \in 0..LastName
    BY SyncAssumption
  <2> QED BY <2>1, <2>2
<1>6. Good(upTo[LastName], LastName)
  BY <1>5
<1>7. \A n \in names : n <= LastName
  BY SyncAssumption DEF Names
<1> QED BY <1>1, <1>6, <1>7

(* What the application of a list makes of a client's markets.             *)
LEMMA AppliedIsSound ==
    ASSUME NEW local \in Tables, UniqueCodes(local), NEW list \in SUBSET Names
    PROVE  LET a == Applied(local, list) IN
           /\ a \in Tables /\ UniqueCodes(a)
           /\ Present(a) = Present(local) \cup list
           /\ Flagged(a) = Present(local) \ list
           /\ \A n \in Present(local) : a[n].code = local[n].code
<1> DEFINE c == CreateAll(local, Missing(local, list))
           a == Applied(local, list)
           flag(n) == (c[n].flagged /\ n \notin list) \/ n \in NewlyFlagged(local, list)
<1>1. /\ c \in Tables /\ UniqueCodes(c)
      /\ \A n \in Names \ Missing(local, list) : c[n] = local[n]
      /\ \A n \in Missing(local, list) : n \in Present(c) /\ ~c[n].flagged
  <2>1. Missing(local, list) \in SUBSET Names
    BY DEF Missing
  <2> QED BY <2>1, CreateAllIsSound
<1>2. a = [n \in Names |-> [code |-> c[n].code, flagged |-> flag(n)]]
  BY DEF Applied
<1> HIDE DEF c, a
<1>3. ASSUME NEW n \in Names, NEW t \in Tables
      PROVE  /\ t[n] = Absent \/ t[n] \in [code : Codes(n), flagged : BOOLEAN]
             /\ t[n] = [code |-> t[n].code, flagged |-> t[n].flagged]
             /\ t[n].flagged \in BOOLEAN
             /\ n \in Present(t) <=> t[n].code \in Codes(n)
             /\ n \notin Present(t) => ~t[n].flagged /\ t[n].code = <<>>
  <2>1. t[n] = Absent \/ t[n] \in [code : Codes(n), flagged : BOOLEAN]
    BY DEF Tables, Rows
  <2>2. <<>> \notin Codes(n)
    <3>1. BaseCode[n] \in Seq(Nat) /\ BaseCode[n] # <<>>
      BY SyncAssumption
    <3>2. \A i \in Nat : Append(BaseCode[n], i) # <<>>
      BY <3>1
    <3>3. \A i \in 2..LastName + 2 : i \in Nat
      BY SyncAssumption
    <3> QED BY <3>1, <3>2, <3>3 DEF Codes
  <2>3. Absent.code = <<>> /\ Absent.flagged = FALSE
        /\ Absent = [code |-> <<>>, flagged |-> FALSE]
    BY DEF Absent
  <2>4. CASE t[n] = Absent
    BY <2>2, <2>3, <2>4 DEF Present
  <2>5. CASE t[n] # Absent /\ t[n] \in [code : Codes(n), flagged : BOOLEAN]
    BY <2>5 DEF Present
  <2> QED BY <2>1, <2>4, <2>5
<1>4. ASSUME NEW n \in Names
      PROVE  /\ a[n].code = c[n].code
             /\ a[n].flagged <=> n \in Present(local) \ list
             /\ a[n].flagged \in BOOLEAN
             /\ n \in Present(c) <=> n \in Present(local) \cup list
             /\ n \in Present(local) => c[n].code = local[n].code
  <2>1. a[n] = [code |-> c[n].code, flagged |-> flag(n)]
    BY <1>2
  <2>2. a[n].code = c[n].code /\ a[n].flagged = flag(n)
    BY <2>1
  <2>3. CASE n \in Missing(local, list)
    BY <1>1, <2>2, <2>3, Zenon DEF Missing, NewlyFlagged
  <2>4. CASE n \notin Missing(local, list)
    <3>1. c[n] = local[n]
      BY <1>1, <2>4
    <3>2. n \in Present(c) <=> n \in Present(local)
      BY <3>1 DEF Present
    <3>3. n \in Present(local) \/ n \notin list
      BY <2>4 DEF Missing
    <3>4. local[n].flagged \in BOOLEAN /\ (n \notin Present(local) => ~local[n].flagged)
      BY <1>3
    <3>5. flag(n) <=> n \in Present(local) \ list
      BY <3>1, <3>4 DEF NewlyFlagged, Flagged
    <3> QED BY <2>2, <3>1, <3>2, <3>3, <3>5
  <2> QED BY <2>3, <2>4
<1>5. ASSUME NEW n \in Names
      PROVE  a[n] \in Rows(n) /\ (n \in Present(a) <=> n \in Present(c))
  <2>1. a[n] = [code |-> c[n].code, flagged |-> a[n].flagged]
    BY <1>2, <1>4
  <2>2. CASE n \in Present(c)
    <3>1. c[n].code \in Codes(n)
      BY <1>1, <1>3, <2>2
    <3>2. a[n] \in [code : Codes(n), flagged : BOOLEAN]
      BY <1>4, <2>1, <3>1
    <3>3. a[n].code \in Codes(n)
      BY <1>4, <3>1
    <3>4. Absent.code \notin Codes(n)
      <4>1. Absent = [code |-> <<>>, flagged |-> FALSE]
        BY DEF Absent
      <4>2. [m \in Names |-> Absent] \in Tables
        BY DEF Tables, Rows
      <4> QED BY <1>3, <4>2 DEF Present
    <3>5. a[n] # Absent
      BY <3>3, <3>4
    <3> QED BY <2>2, <3>2, <3>5 DEF Rows, Present
  <2>3. CASE n \notin Present(c)
    <3>1. a[n] = [code |-> <<>>, flagged |-> FALSE]
      BY <1>1, <1>3, <1>4, <2>1, <2>3
    <3> QED BY <2>3, <3>1 DEF Rows, Present, Absent
  <2> QED BY <2>2, <2>3
<1>6. a \in Tables
  <2>1. a \in [Names -> UNION {Rows(n) : n \in Names}]
    BY <1>2, <1>5
  <2> QED BY <1>5, <2>1 DEF Tables
<1>7. Present(a) = Present(local) \cup list
  BY <1>4, <1>5 DEF Present
<1>8. Flagged(a) = Present(local) \ list
  BY <1>4, <1>7 DEF Flagged, Present
<1>9. UniqueCodes(a)
  BY <1>1, <1>4, <1>5 DEF UniqueCodes, Present
<1>10. \A n \in Present(local) : a[n].code = local[n].code
  BY <1>4 DEF Present
<1> QED BY <1>6, <1>7, <1>8, <1>9, <1>10 DEF a
-----------------------------------------------------------------------------
(* A fetch is always for a client of the pass.                             *)
FetchIsForAClient == phase \in {"fetching", "fetched"} => todo # <<>>

(* The inductive invariant: the three properties and the types, by which   *)
(* a list in hand is one of real names or the made-up one.                 *)
SyncInv ==
    /\ TypeOK /\ FetchIsForAClient
    /\ FlagsFollowGenuineList /\ CodesUnique /\ RecordsExplainFlags

(* Markets are there or not, and flagged or not.                           *)
LEMMA CodesUniqueByClient ==
    CodesUnique <=> \A c \in ClientSet : UniqueCodes(market[c])
BY DEF CodesUnique, UniqueCodes

LEMMA SyncInit == Init => SyncInv
<1> SUFFICES ASSUME Init PROVE SyncInv
  OBVIOUS
<1> DEFINE none == [n \in Names |-> Absent]
<1>1. none \in Tables /\ Present(none) = {}
  BY DEF Tables, Rows, Present
<1>2. UniqueCodes(none)
  BY <1>1 DEF UniqueCodes
<1>3. ASSUME NEW c \in ClientSet
      PROVE  /\ market[c] \in Tables /\ UniqueCodes(market[c])
             /\ Present(market[c]) = Seeded[c] /\ Flagged(market[c]) = {}
  <2>1. Seeded[c] \in SUBSET Names
    BY SyncAssumption DEF RealNames
  <2>2. market[c] = CreateAll(none, Seeded[c])
    BY DEF Init
  <2>3. \A n \in Names : n \notin Present(none) /\ none[n] = Absent
    BY <1>1
  <2> HIDE DEF none
  <2>4. /\ market[c] \in Tables /\ UniqueCodes(market[c])
        /\ \A n \in Names \ Seeded[c] : market[c][n] = none[n]
        /\ \A n \in Seeded[c] : n \in Present(market[c]) /\ ~market[c][n].flagged
    BY <1>1, <1>2, <2>1, <2>2, CreateAllIsSound
  <2> QED BY <2>1, <2>3, <2>4 DEF Present, Flagged
<1>4. TypeOK
  <2>1. market \in [ClientSet -> Tables]
    BY <1>3 DEF Init
  <2>2. \E i \in 1..Len(Clients) + 1 : todo = SubSeq(Clients, i, Len(Clients))
    <3>1. Clients \in Seq(ClientSet) /\ Len(Clients) \in Nat
      BY SyncAssumption
    <3>2. SubSeq(Clients, Len(Clients) + 1, Len(Clients)) = <<>>
      BY <3>1
    <3>3. Len(Clients) + 1 \in 1..Len(Clients) + 1
      BY <3>1
    <3> QED BY <3>2, <3>3 DEF Init
  <2>3. mention \in [ClientSet -> [Names -> Mentions]]
    BY DEF Init, Mentions
  <2>4. /\ reported \in [ClientSet -> SUBSET RealNames]
        /\ genuine \in [ClientSet -> SUBSET RealNames]
        /\ fetched \in (SUBSET RealNames) \cup {{Placeholder}}
        /\ phase \in {"asleep", "between", "fetching", "fetched"}
        /\ changes \in 0..MaxChanges
    BY SyncAssumption DEF Init
  <2> QED BY <2>1, <2>2, <2>3, <2>4 DEF TypeOK
<1>5. FlagsFollowGenuineList
  BY <1>3 DEF Init, FlagsFollowGenuineList, Shown
<1>6. CodesUnique
  BY <1>3, CodesUniqueByClient
<1>7. RecordsExplainFlags
  BY <1>3 DEF Init, RecordsExplainFlags
<1>8. FetchIsForAClient
  BY DEF Init, FetchIsForAClient
<1> QED BY <1>4, <1>5, <1>6, <1>7, <1>8 DEF SyncInv

(* The clients left are a tail of the list of them.                        *)
LEMMA TailOfClients ==
    ASSUME \E i \in 1..Len(Clients) + 1 : todo = SubSeq(Clients, i, Len(Clients)),
           todo # <<>>
    PROVE  \E i \in 1..Len(Clients) + 1 : Tail(todo) = SubSeq(Clients, i, Len(Clients))
<1>1. Clients \in Seq(ClientSet) /\ Len(Clients) \in Nat
  BY SyncAssumption
<1>2. PICK i \in 1..Len(Clients) + 1 : todo = SubSeq(Clients, i, Len(Clients))
  OBVIOUS
<1>3. i # Len(Clients) + 1
  <2>1. SubSeq(Clients, Len(Clients) + 1, Len(Clients)) = <<>>
    BY <1>1
  <2> QED BY <1>2, <2>1
<1>4. i + 1 \in 1..Len(Clients) + 1 /\ i \in 1..Len(Clients)
  BY <1>1, <1>3
<1>5. Tail(todo) = SubSeq(Clients, i + 1, Len(Clients))
  BY <1>1, <1>2, <1>4
<1> QED BY <1>4, <1>5

(* One list applied to one client, with its record.                        *)
LEMMA ApplyKeepsSync ==
    ASSUME SyncInv, NEW c \in ClientSet, Apply(c)
    PROVE  /\ SyncInv'
           /\ \A d \in ClientSet : \A n \in Present(market[d]) :
                 market'[d][n].code = market[d][n].code
<1> DEFINE local == market[c]
           list == fetched
           a == Applied(local, list)
<1>1. /\ market \in [ClientSet -> Tables] /\ genuine \in [ClientSet -> SUBSET RealNames]
      /\ mention \in [ClientSet -> [Names -> Mentions]]
      /\ \A d \in ClientSet : UniqueCodes(market[d])
  BY CodesUniqueByClient DEF SyncInv, TypeOK
<1>2. list \in SUBSET RealNames /\ list \in SUBSET Names
  BY DEF SyncInv, TypeOK, Apply, Acceptable, RealNames
<1>3. /\ a \in Tables /\ UniqueCodes(a)
      /\ Present(a) = Present(local) \cup list
      /\ Flagged(a) = Present(local) \ list
      /\ \A n \in Present(local) : a[n].code = local[n].code
  BY <1>1, <1>2, AppliedIsSound
<1>4. /\ market' = [market EXCEPT ![c] = a]
      /\ mention' = [mention EXCEPT ![c] = Recorded(mention[c], local, list)]
      /\ genuine' = [genuine EXCEPT ![c] = list]
      /\ phase' = "between" /\ todo' = Tail(todo) /\ fetched' = {}
      /\ UNCHANGED <<reported, changes>>
  <2>1. fetched \cap RealNames = fetched
    BY <1>2
  <2> QED BY <2>1 DEF Apply
<1> HIDE DEF a
<1>5. market'[c] = a /\ \A d \in ClientSet \ {c} : market'[d] = market[d]
  BY <1>1, <1>4
<1>6. genuine'[c] = list /\ \A d \in ClientSet \ {c} : genuine'[d] = genuine[d]
  BY <1>1, <1>4
<1>7. mention'[c] = Recorded(mention[c], local, list)
      /\ \A d \in ClientSet \ {c} : mention'[d] = mention[d]
  BY <1>1, <1>4
<1>8. Recorded(mention[c], local, list) \in [Names -> Mentions]
  BY <1>1 DEF Recorded, Mentions
<1>9. TypeOK'
  <2>1. market' \in [ClientSet -> Tables]
    BY <1>1, <1>3, <1>4
  <2>2. mention' \in [ClientSet -> [Names -> Mentions]]
    BY <1>1, <1>4, <1>8
  <2>3. genuine' \in [ClientSet -> SUBSET RealNames]
    BY <1>1, <1>2, <1>4
  <2>4. todo # <<>>
    BY DEF Apply, SyncInv, FetchIsForAClient
  <2>5. \E i \in 1..Len(Clients) + 1 : todo' = SubSeq(Clients, i, Len(Clients))
    BY <1>4, <2>4, TailOfClients DEF SyncInv, TypeOK
  <2> QED BY <1>4, <2>1, <2>2, <2>3, <2>5 DEF SyncInv, TypeOK
<1>10. FlagsFollowGenuineList'
  BY <1>3, <1>5, <1>6 DEF SyncInv, FlagsFollowGenuineList, Shown, Present, Flagged
<1>11. CodesUnique'
  BY <1>1, <1>3, <1>5 DEF CodesUnique, UniqueCodes
<1>12. RecordsExplainFlags'
  <2>1. ASSUME NEW n \in Names
        PROVE  n \in Flagged(a) <=> mention'[c][n] = "flagged"
    <3>1. mention'[c][n] = IF n \in Missing(local, list) THEN "created"
                           ELSE IF n \in NewlyFlagged(local, list) THEN "flagged"
                           ELSE IF n \in NewlyUnflagged(local, list) THEN "unflagged"
                           ELSE mention[c][n]
      BY <1>7 DEF Recorded
    <3>2. n \in Flagged(local) <=> mention[c][n] = "flagged"
      BY DEF SyncInv, RecordsExplainFlags
    <3>3. Flagged(local) \subseteq Present(local)
      BY DEF Flagged
    <3>4. n \in Missing(local, list) => n \in list
          /\ (n \in NewlyFlagged(local, list) <=>
                 n \in Present(local) /\ n \notin list /\ n \notin Flagged(local))
          /\ (n \in NewlyUnflagged(local, list) <=> n \in Flagged(local) /\ n \in list)
      BY DEF Missing, NewlyFlagged, NewlyUnflagged
    <3>5. n \in Flagged(a) <=> n \in Present(local) /\ n \notin list
      BY <1>3
    <3>6. n \in NewlyFlagged(local, list) => n \notin Missing(local, list)
      BY DEF Missing, NewlyFlagged
    <3>7. CASE n \in Flagged(local)
      BY <3>1, <3>2, <3>3, <3>4, <3>5, <3>7 DEF Missing, NewlyFlagged, NewlyUnflagged
    <3>8. CASE n \notin Flagged(local)
      BY <3>1, <3>2, <3>4, <3>5, <3>6, <3>8 DEF Missing, NewlyFlagged, NewlyUnflagged
    <3> QED BY <3>7, <3>8
  <2> QED BY <1>5, <1>7, <2>1 DEF SyncInv, RecordsExplainFlags, Flagged, Present
<1>13. \A d \in ClientSet : \A n \in Present(market[d]) :
          market'[d][n].code = market[d][n].code
  BY <1>3, <1>5
<1>14. FetchIsForAClient'
  BY <1>4 DEF FetchIsForAClient
<1> QED BY <1>9, <1>10, <1>11, <1>12, <1>13, <1>14 DEF SyncInv

(* Every other step leaves the markets and what is known of them alone.    *)
LEMMA OthersKeepSync ==
    ASSUME SyncInv, Kept, TypeOK', FetchIsForAClient'
    PROVE  /\ SyncInv'
           /\ \A d \in ClientSet : \A n \in Present(market[d]) :
                 market'[d][n].code = market[d][n].code
BY DEF Kept, SyncInv, FlagsFollowGenuineList, Shown, Present, Flagged, CodesUnique,
       RecordsExplainFlags

LEMMA SyncStep ==
    SyncInv /\ [Next]_vars =>
        /\ SyncInv'
        /\ \A d \in ClientSet : \A n \in Present(market[d]) :
              market'[d][n].code = market[d][n].code
<1> SUFFICES ASSUME SyncInv, FetchIsForAClient, [Next]_vars
             PROVE  /\ SyncInv'
                    /\ \A d \in ClientSet : \A n \in Present(market[d]) :
                          market'[d][n].code = market[d][n].code
  BY DEF SyncInv
<1>1. Clients \in Seq(ClientSet) /\ Len(Clients) \in Nat
  BY SyncAssumption
<1>2. CASE BeginPass
  <2>1. 1 \in 1..Len(Clients) + 1 /\ Clients = SubSeq(Clients, 1, Len(Clients))
    BY <1>1
  <2>2. TypeOK'
    BY <1>2, <2>1 DEF BeginPass, SyncInv, TypeOK, Kept
  <2> QED BY <1>2, <2>2, OthersKeepSync DEF FetchIsForAClient, BeginPass
<1>3. CASE EndPass \/ AnswerPlaceholder \/ AnswerWithoutList
  <2>1. changes' \in 0..MaxChanges
    BY <1>3, SyncAssumption DEF EndPass, AnswerPlaceholder, AnswerWithoutList, SyncInv, TypeOK
  <2>2. TypeOK'
    BY <1>3, <2>1 DEF EndPass, AnswerPlaceholder, AnswerWithoutList, SyncInv, TypeOK, Kept
  <2> QED BY <1>3, <2>2, OthersKeepSync
          DEF FetchIsForAClient, EndPass, AnswerPlaceholder, AnswerWithoutList
<1>4. CASE FailClient
  <2>1. \E i \in 1..Len(Clients) + 1 : todo' = SubSeq(Clients, i, Len(Clients))
    BY <1>4, TailOfClients DEF FailClient, OtherClients, SyncInv, TypeOK
  <2>2. TypeOK'
    BY <1>4, <2>1 DEF FailClient, SyncInv, TypeOK, Kept
  <2> QED BY <1>4, <2>2, OthersKeepSync DEF FetchIsForAClient, FailClient
<1>5. CASE Restart
  <2>1. Len(Clients) + 1 \in 1..Len(Clients) + 1
        /\ <<>> = SubSeq(Clients, Len(Clients) + 1, Len(Clients))
    BY <1>1
  <2>2. changes' \in 0..MaxChanges
    BY <1>5, SyncAssumption DEF Restart, SyncInv, TypeOK
  <2>3. TypeOK'
    BY <1>5, <2>1, <2>2 DEF Restart, SyncInv, TypeOK, Kept
  <2> QED BY <1>5, <2>3, OthersKeepSync DEF FetchIsForAClient, Restart
<1>6. ASSUME NEW c \in ClientSet, BeginClient(c) \/ Answer(c)
      PROVE  /\ SyncInv'
             /\ \A d \in ClientSet : \A n \in Present(market[d]) :
                   market'[d][n].code = market[d][n].code
  <2>1. TypeOK'
    BY <1>6 DEF BeginClient, Answer, SyncInv, TypeOK, Kept
  <2> QED BY <1>6, <2>1, OthersKeepSync DEF FetchIsForAClient, BeginClient, Answer
<1>7. ASSUME NEW c \in ClientSet, Apply(c)
      PROVE  /\ SyncInv'
             /\ \A d \in ClientSet : \A n \in Present(market[d]) :
                   market'[d][n].code = market[d][n].code
  BY <1>7, ApplyKeepsSync
<1>8. ASSUME NEW c \in ClientSet, ChangeList(c)
      PROVE  /\ SyncInv'
             /\ \A d \in ClientSet : \A n \in Present(market[d]) :
                   market'[d][n].code = market[d][n].code
  <2>1. changes' \in 0..MaxChanges
    BY <1>8, SyncAssumption DEF ChangeList, SyncInv, TypeOK
  <2>2. TypeOK'
    BY <1>8, <2>1 DEF ChangeList, SyncInv, TypeOK, Kept
  <2> QED BY <1>8, <2>2, OthersKeepSync DEF FetchIsForAClient, ChangeList
<1>9. CASE UNCHANGED vars
  <2>1. TypeOK'
    BY <1>9 DEF vars, SyncInv, TypeOK
  <2> QED BY <1>9, <2>1, OthersKeepSync DEF FetchIsForAClient, vars, Kept
<1> QED BY <1>2, <1>3, <1>4, <1>5, <1>6, <1>7, <1>8, <1>9 DEF Next

LEMMA SyncInvariance == Spec => []SyncInv
<1>1. SyncInv /\ [Next]_vars => SyncInv'
  BY SyncStep
<1> QED BY SyncInit, <1>1, PTL DEF Spec
-----------------------------------------------------------------------------
(* The variables keep their types; every code is its name's slug, plain or *)
(* with a suffix.                                                          *)
THEOREM TypeCorrect == Spec => []TypeOK
<1>1. SyncInv => TypeOK
  BY DEF SyncInv
<1> QED BY SyncInvariance, <1>1, PTL

(* The markets without a flag are those of the last list that was applied, *)
(* which was not the made-up one (market_sync.py:109-164).                 *)
THEOREM FlagsFollowTheEngine == Spec => []FlagsFollowGenuineList
<1>1. SyncInv => FlagsFollowGenuineList
  BY DEF SyncInv
<1> QED BY SyncInvariance, <1>1, PTL

(* No two markets of a client ever share a code (market_sync.py:93-106).   *)
THEOREM NoSharedCodes == Spec => []CodesUnique
<1>1. SyncInv => CodesUnique
  BY DEF SyncInv
<1> QED BY SyncInvariance, <1>1, PTL

(* A market is flagged exactly when the last record of a run that names it *)
(* says so (market_sync.py:204-211).                                       *)
THEOREM FlagsAreOnRecord == Spec => []RecordsExplainFlags
<1>1. SyncInv => RecordsExplainFlags
  BY DEF SyncInv
<1> QED BY SyncInvariance, <1>1, PTL

(* No market is deleted or gets another code.                              *)
THEOREM CodesAreKept == Spec => MarketsKeepTheirCodes
<1>1. SyncInv /\ [Next]_vars =>
        \A c \in ClientSet : \A n \in Present(market[c]) :
           market'[c][n].code = market[c][n].code
  BY SyncStep
<1> QED BY SyncInvariance, <1>1, PTL DEF Spec, MarketsKeepTheirCodes
=============================================================================
