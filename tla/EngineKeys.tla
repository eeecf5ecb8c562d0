----------------------------- MODULE EngineKeys -----------------------------
(* The engine key of one client: where it is kept, how it is cached, and   *)
(* what the calls that carry it do to the cache (api/app/engine_client.py).*)
(*                                                                         *)
(* Resolving a key reads SSM without an await, so resolving, caching and   *)
(* sending are one step; the engine's verdict and its handling are later   *)
(* steps, and calls overlap.                                               *)
EXTENDS Naturals

CONSTANTS
    Callers,      \* the coroutines that call the engine
    MaxKey,       \* keys are numbered as they are issued, from 0 to MaxKey
    TTL           \* ticks a cached key is used for

ASSUME KeyAssumption == MaxKey \in Nat /\ TTL \in Nat \ {0}

VARIABLES
    live,      \* the key the engine accepts
    ssm,       \* the key kept in SSM
    ssmUp,     \* whether SSM answers this process
    engineUp,  \* whether the engine answers in time
    cache,     \* [key, age] of the cached key, or NoKey
    call,      \* each caller's call: its key and the engine's verdict
    dropped    \* keys whose rejection was handled when SSM had a newer one
keyVars == <<live, ssm, ssmUp, engineUp, cache, call, dropped>>

Keys  == 0..MaxKey
NoKey == [key |-> MaxKey + 1, age |-> 0]
Idle  == [key |-> MaxKey + 1, verdict |-> "none"]

KeysTypeOK ==
    /\ live \in Keys /\ ssm \in Keys
    /\ ssmUp \in BOOLEAN /\ engineUp \in BOOLEAN
    /\ cache \in [key : Keys, age : 0..TTL] \cup {NoKey}
    /\ call \in [Callers -> [key : Keys,
                             verdict : {"sent", "accepted", "rejected", "failed"}]
                            \cup {Idle}]
    /\ dropped \subseteq Keys

KeysInit ==
    /\ live = 0 /\ ssm = 0
    /\ ssmUp = TRUE /\ engineUp = TRUE
    /\ cache = NoKey
    /\ call = [c \in Callers |-> Idle]
    /\ dropped = {}
-----------------------------------------------------------------------------
Fresh == cache # NoKey /\ cache.age < TTL

CannotResolve == ~Fresh /\ ~ssmUp

(* A call goes out with the cached key while it is fresh, with SSM's       *)
(* otherwise, which is then cached.                                        *)
Send(c) ==
    /\ call[c] = Idle
    /\ \/ Fresh /\ UNCHANGED cache
       \/ ~Fresh /\ ssmUp /\ cache' = [key |-> ssm, age |-> 0]
    /\ call' = [call EXCEPT ![c] = [key |-> cache'.key, verdict |-> "sent"]]
    /\ UNCHANGED <<live, ssm, ssmUp, engineUp, dropped>>

(* The engine takes the key it knows and no other, or does not answer.     *)
Judge(c) ==
    /\ call[c].verdict = "sent"
    /\ call' = [call EXCEPT ![c].verdict =
                    IF ~engineUp THEN "failed"
                    ELSE IF call[c].key = live THEN "accepted" ELSE "rejected"]
    /\ UNCHANGED <<live, ssm, ssmUp, engineUp, cache, dropped>>

StaysCached(c) == cache   \* variant: a rejected key stays in the cache

(* A 401 or 403 drops the cached key, whichever key it is by now; any      *)
(* other outcome leaves it.                                                *)
CachedAfter(c) == IF call[c].verdict = "rejected" THEN NoKey ELSE cache

RetriesWithSameKey(c) ==   \* variant: a rejected call is sent once more
    IF call[c].verdict = "rejected" THEN [call[c] EXCEPT !.verdict = "sent"] ELSE Idle

CallAfter(c) == Idle

Handle(c) ==
    /\ call[c].verdict \in {"accepted", "rejected", "failed"}
    /\ cache' = CachedAfter(c)
    /\ call' = [call EXCEPT ![c] = CallAfter(c)]
    /\ dropped' = IF call[c].verdict = "rejected"
                  THEN dropped \cup ({call[c].key} \ {ssm}) ELSE dropped
    /\ UNCHANGED <<live, ssm, ssmUp, engineUp>>

(* Time passes for the cached key.                                         *)
Tick ==
    /\ Fresh
    /\ cache' = [cache EXCEPT !.age = @ + 1]
    /\ UNCHANGED <<live, ssm, ssmUp, engineUp, call, dropped>>

(* A rotation reaches the engine and SSM in either order.                  *)
RotateEngine ==
    /\ live < MaxKey /\ live' = live + 1
    /\ UNCHANGED <<ssm, ssmUp, engineUp, cache, call, dropped>>

RotateSsm ==
    /\ ssm < MaxKey /\ ssm' = ssm + 1
    /\ UNCHANGED <<live, ssmUp, engineUp, cache, call, dropped>>

(* AWS credentials expire and are renewed; the engine goes and comes back. *)
Outage ==
    /\ \/ ssmUp' = ~ssmUp /\ UNCHANGED engineUp
       \/ engineUp' = ~engineUp /\ UNCHANGED ssmUp
    /\ UNCHANGED <<live, ssm, cache, call, dropped>>

(* The cache dies with the process.                                        *)
KeysRestart ==
    /\ cache' = NoKey
    /\ call' = [c \in Callers |-> Idle]
    /\ UNCHANGED <<live, ssm, ssmUp, engineUp, dropped>>

Surroundings == Tick \/ RotateEngine \/ RotateSsm \/ Outage
-----------------------------------------------------------------------------
(* A key whose rejection was handled once SSM had another never comes      *)
(* back into the cache: not through a call that was still in flight with   *)
(* it, nor through one that resolved its key earlier.                      *)
RejectedKeyStaysOut == cache.key \notin dropped

Healthy == ssmUp /\ engineUp /\ live = ssm

(* Once a rotation has reached both sides, the engine's rejections end.    *)
RejectionsEnd ==
    (<>[]Healthy) => <>[](\A c \in Callers : call[c].verdict # "rejected")
=============================================================================
