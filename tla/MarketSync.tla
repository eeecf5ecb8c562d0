----------------------------- MODULE MarketSync -----------------------------
(* The background task that keeps each client's markets in line with the   *)
(* list the engine reports (api/app/market_sync.py, call_get_markets).     *)
(*                                                                         *)
(* One task visits the clients in turn.  A list is fetched outside any     *)
(* transaction, may have changed by the time it is applied, and is applied *)
(* together with the record of the run in one transaction.                 *)
EXTENDS Naturals, FiniteSets, Sequences

CONSTANTS
    Clients,      \* the active clients, in the order of their codes
    LastName,     \* market names are numbered in their order, up to this one
    Placeholder,  \* the name in the list the engine makes up for a key it misses
    BaseCode,     \* the code each name is slugged into
    Seeded,       \* the markets each client was loaded with
    MaxChanges    \* changes of the engine's lists, answers without one, and
                  \* restarts in a behaviour

ClientSet == {Clients[i] : i \in DOMAIN Clients}
Names     == 1..LastName
RealNames == Names \ {Placeholder}

ASSUME SyncAssumption ==
    /\ Clients \in Seq(ClientSet)
    /\ LastName \in Nat /\ Placeholder \in Names
    /\ BaseCode \in [Names -> Seq(Nat) \ {<<>>}]
    /\ Seeded \in [ClientSet -> SUBSET RealNames]
    /\ MaxChanges \in Nat

VARIABLES
    reported,  \* the list the engine holds for each client
    market,    \* each client's markets: code and flag by name, or Absent
    phase,     \* where the task is: asleep, between clients, or in a fetch
    todo,      \* the clients left in this pass, the current one first
    fetched,   \* the list in hand
    genuine,   \* the last list applied to each client, taken for a genuine one
    mention,   \* what the run records last say of each market
    changes
vars == <<reported, market, phase, todo, fetched, genuine, mention, changes>>

Absent   == [code |-> <<>>, flagged |-> FALSE]
Mentions == {"none", "created", "flagged", "unflagged"}

(* The codes a name may get: its slug, plain or with a numeric suffix.     *)
Codes(n) == {BaseCode[n]} \cup {Append(BaseCode[n], i) : i \in 2..LastName + 2}

Rows(n) == {Absent} \cup [code : Codes(n), flagged : BOOLEAN]

(* A client's markets, by name.                                            *)
Tables == {t \in [Names -> UNION {Rows(n) : n \in Names}] :
              \A n \in Names : t[n] \in Rows(n)}

TypeOK ==
    /\ reported \in [ClientSet -> SUBSET RealNames]
    /\ market \in [ClientSet -> Tables]
    /\ phase \in {"asleep", "between", "fetching", "fetched"}
    /\ \E i \in 1..Len(Clients) + 1 : todo = SubSeq(Clients, i, Len(Clients))
    /\ fetched \in (SUBSET RealNames) \cup {{Placeholder}}
    /\ genuine \in [ClientSet -> SUBSET RealNames]
    /\ mention \in [ClientSet -> [Names -> Mentions]]
    /\ changes \in 0..MaxChanges

Current == Head(todo)
-----------------------------------------------------------------------------
Present(local) == {n \in Names : local[n] # Absent}
CodesOf(local) == {local[n].code : n \in Present(local)}
Flagged(local) == {n \in Present(local) : local[n].flagged}

(* _generate_code: the slug of the name, with the first free suffix from 2 *)
(* on when another market has it.                                          *)
GenerateCode(n, existing) ==
    IF BaseCode[n] \notin existing THEN BaseCode[n]
    ELSE LET free(i) == Append(BaseCode[n], i) \notin existing
         IN  Append(BaseCode[n],
                    CHOOSE i \in 2..Cardinality(existing) + 2 :
                        free(i) /\ \A j \in 2..(i - 1) : ~free(j))

CreateAllAtOnce(local, names) ==   \* variant: codes just given are not counted
    [n \in Names |->
        IF n \in names THEN [code |-> GenerateCode(n, CodesOf(local)), flagged |-> FALSE]
        ELSE local[n]]

Created(local, n) ==
    [local EXCEPT ![n] = [code |-> GenerateCode(n, CodesOf(local)), flagged |-> FALSE]]

(* The missing markets are created in the order of their names, each with  *)
(* a code no market has yet, those just created included.                  *)
CreateAll(local, names) ==
    LET upTo[n \in 0..LastName] ==
            IF n = 0 THEN local
            ELSE IF n \in names THEN Created(upTo[n - 1], n) ELSE upTo[n - 1]
    IN  upTo[LastName]

MissingOrFlagged(local, list) ==   \* variant: a resurfaced market is created anew
    list \ (Present(local) \ Flagged(local))

Missing(local, list) == list \ Present(local)

FlagsAnyName(local, list) ==   \* variant: flags what is not even local
    (Names \ list) \ Flagged(local)

NewlyFlagged(local, list)   == (Present(local) \ list) \ Flagged(local)
NewlyUnflagged(local, list) == Flagged(local) \cap list

(* apply_market_sync: create what is missing, flag what is no longer       *)
(* reported, unflag what is reported again; delete and rename nothing.     *)
Applied(local, list) ==
    LET created == CreateAll(local, Missing(local, list))
    IN  [n \in Names |->
            [code    |-> created[n].code,
             flagged |-> \/ created[n].flagged /\ n \notin list
                         \/ n \in NewlyFlagged(local, list)]]

(* What the run's record says: the names created, flagged and unflagged.   *)
RecordsCreationsOnly(said, local, list) ==   \* variant: flags are not recorded
    [n \in Names |-> IF n \in Missing(local, list) THEN "created" ELSE said[n]]

Recorded(said, local, list) ==
    [n \in Names |->
        IF n \in Missing(local, list) THEN "created"
        ELSE IF n \in NewlyFlagged(local, list) THEN "flagged"
        ELSE IF n \in NewlyUnflagged(local, list) THEN "unflagged"
        ELSE said[n]]
-----------------------------------------------------------------------------
Init ==
    /\ reported \in [ClientSet -> SUBSET RealNames]
    /\ market = [c \in ClientSet |->
                    CreateAll([n \in Names |-> Absent], Seeded[c])]
    /\ phase = "asleep" /\ todo = <<>> /\ fetched = {}
    /\ genuine = Seeded
    /\ mention = [c \in ClientSet |-> [n \in Names |-> "none"]]
    /\ changes = 0

Kept == UNCHANGED <<market, genuine, mention>>

(* The loop wakes, reads the clients and starts with the first.  When that *)
(* read fails it logs the error and goes back to sleep: nothing changes.   *)
BeginPass ==
    /\ phase = "asleep"
    /\ phase' = "between" /\ todo' = Clients
    /\ Kept /\ UNCHANGED <<reported, fetched, changes>>

EndPass ==
    /\ phase = "between" /\ todo = <<>>
    /\ phase' = "asleep"
    /\ Kept /\ UNCHANGED <<reported, todo, fetched, changes>>

(* The fetch for the next client starts, after a read of its own.          *)
BeginClient(c) ==
    /\ phase = "between" /\ todo # <<>> /\ c = Current
    /\ phase' = "fetching"
    /\ Kept /\ UNCHANGED <<reported, todo, fetched, changes>>

(* The engine's answer is what it holds, or the list it makes up for a key *)
(* it could not resolve.                                                   *)
Answer(c) ==
    /\ phase = "fetching" /\ c = Current
    /\ fetched' = reported[c]
    /\ phase' = "fetched"
    /\ Kept /\ UNCHANGED <<reported, todo, changes>>

AnswerPlaceholder ==
    /\ phase = "fetching"
    /\ fetched' = {Placeholder}
    /\ phase' = "fetched"
    /\ Kept /\ UNCHANGED <<reported, todo, changes>>

(* An answer without "markets" is taken for a list without any.            *)
AnswerWithoutList ==
    /\ phase = "fetching"
    /\ changes < MaxChanges /\ changes' = changes + 1
    /\ fetched' = {}
    /\ phase' = "fetched"
    /\ Kept /\ UNCHANGED <<reported, todo>>

EndTheRound == <<>>   \* variant: one client's failure ends the pass

OtherClients == Tail(todo)

AnyList(list) == TRUE   \* variant: the made-up list is taken for a real one

Acceptable(list) == list # {Placeholder}

(* One transaction applies the list and records the run.                   *)
Apply(c) ==
    /\ phase = "fetched" /\ c = Current /\ Acceptable(fetched)
    /\ market' = [market EXCEPT ![c] = Applied(@, fetched)]
    /\ mention' = [mention EXCEPT ![c] = Recorded(@, market[c], fetched)]
    /\ genuine' = [genuine EXCEPT ![c] = fetched \cap RealNames]
    /\ phase' = "between" /\ todo' = Tail(todo) /\ fetched' = {}
    /\ UNCHANGED <<reported, changes>>

(* The reads before the fetch, the fetch, the list or the transaction      *)
(* fail: nothing of the client changes, and the pass goes on.              *)
FailClient ==
    /\ phase \in {"between", "fetching", "fetched"} /\ todo # <<>>
    /\ phase' = "between" /\ todo' = OtherClients /\ fetched' = {}
    /\ Kept /\ UNCHANGED <<reported, changes>>

(* The engine's list of a client changes, at any moment.                   *)
ChangeList(c) ==
    /\ changes < MaxChanges /\ changes' = changes + 1
    /\ \E list \in SUBSET RealNames :
          /\ list # reported[c]
          /\ reported' = [reported EXCEPT ![c] = list]
    /\ Kept /\ UNCHANGED <<phase, todo, fetched>>

(* The process restarts: the task is lost and starts again.                *)
Restart ==
    /\ phase # "asleep"
    /\ changes < MaxChanges /\ changes' = changes + 1
    /\ phase' = "asleep" /\ todo' = <<>> /\ fetched' = {}
    /\ Kept /\ UNCHANGED reported

Next ==
    \/ BeginPass \/ EndPass \/ AnswerPlaceholder \/ AnswerWithoutList \/ FailClient \/ Restart
    \/ \E c \in ClientSet : BeginClient(c) \/ Answer(c) \/ Apply(c) \/ ChangeList(c)

(* The task goes on, whatever a client's sync raises.  For the last client *)
(* of a pass, and for it alone, each step succeeds now and then.           *)
Steady == Clients[Len(Clients)]

Fairness ==
    /\ WF_vars(BeginPass) /\ WF_vars(EndPass) /\ WF_vars(FailClient)
    /\ SF_vars(BeginClient(Steady)) /\ SF_vars(Answer(Steady)) /\ SF_vars(Apply(Steady))

Spec == Init /\ [][Next]_vars /\ Fairness
-----------------------------------------------------------------------------
Shown(c) == Present(market[c]) \ Flagged(market[c])

(* The markets that carry no flag are those of the last list that was      *)
(* applied: a failed fetch, the made-up list or a rollback leaves no trace, *)
(* a vanished market is flagged and a resurfaced one is not.  A list that  *)
(* an answer lacks counts as an empty one (engine_client.py:244).          *)
FlagsFollowGenuineList == \A c \in ClientSet : Shown(c) = genuine[c]

(* No two markets of a client share a code, although their names may be    *)
(* slugged into the same one or into one another's suffixed form.          *)
CodesUnique ==
    \A c \in ClientSet : \A m, n \in Present(market[c]) :
        m # n => market[c][m].code # market[c][n].code

(* The records of the runs explain every flag: a market is flagged exactly *)
(* when the last record that names it says so.                             *)
RecordsExplainFlags ==
    \A c \in ClientSet, n \in Names :
        n \in Flagged(market[c]) <=> mention[c][n] = "flagged"

(* Pursuits refer to markets: none is ever deleted, and one that vanishes  *)
(* and resurfaces keeps the code it was calibrated under.                  *)
MarketsKeepTheirCodes ==
    [][\A c \in ClientSet : \A n \in Present(market[c]) :
          market'[c][n].code = market[c][n].code]_vars

(* A client whose own steps succeed now and then ends up with the markets  *)
(* of its engine, even if the client before it fails every time.           *)
SteadyClientConverges == <>[](Shown(Steady) = reported[Steady])
=============================================================================
