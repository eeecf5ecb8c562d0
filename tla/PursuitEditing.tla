--------------------------- MODULE PursuitEditing ---------------------------
(* Several people edit the same pursuits: the lost-update guard of PATCH,  *)
(* the requests that write the row without it (bid toggle, outcome, Black  *)
(* Hat and PTW, the LPTA answer, a predecessor's cancellation), and the    *)
(* poll that tells an open page that something changed                     *)
(* (api/app/routers/write.py, bhptw.py, plan_scope.py; the page is         *)
(* api/static/index.html).                                                 *)
(*                                                                         *)
(* A row is stamped (updated_at) with the time its transaction started.    *)
(* Two transactions never start in the same millisecond, and the browsers' *)
(* clocks agree with the database's.  A request that needs a row held by a *)
(* waiting PATCH is not a step: it stops the event loop (EventLoop).  The  *)
(* writers are the requests; an operator's script that rewrites rows and   *)
(* does not stamp them (reassign_aero_org_tree.sql:59-71) is not one.      *)
EXTENDS Naturals

CONSTANTS
    Pursuits,
    Predecessor,  \* the pursuit that each of some pursuits may depend on
    Editors,      \* people, each with the application open in one page
    MaxTime       \* bound: transactions that write

ASSUME EditingAssumption ==
    /\ MaxTime \in Nat \ {0} /\ Pursuits # {} /\ "nobody" \notin Pursuits
    /\ \E S \in SUBSET Pursuits : Predecessor \in [S -> Pursuits]

VARIABLES
    row,     \* the pursuit table as committed
    clock,   \* when the last transaction that writes started
    patch,   \* the PATCH of each editor that waits for the engine, or NoPatch
    page,    \* what each page is doing
    view,    \* the rows each page shows, or that a load under way brings
    since,   \* the cursor of each page's poll (changesSince)
    told,    \* whether a poll told the page of a change since its last load
    excused  \* history: changes a page may miss, by their stamps
vars == <<row, clock, patch, page, view, since, told, excused>>
server == <<row, clock, patch>>
pages  == <<page, view, since, told>>

Nobody == "nobody"
Open   == "open"      \* outcome IS NULL
NoPatch == [pursuit |-> Nobody]
Outcomes == {Open, "WON", "CANCELLED"}   \* WON stands for LOST too
Bids   == {"BID", "NO_BID"}   \* NO_BID stands for UNDECIDED too

Rows ==
    [bid : Bids, outcome : Outcomes, dep : BOOLEAN,
     text : 0..1,   \* every other field
     stamp : 0..MaxTime, by : Editors \cup {Nobody}]

FirstRow == [bid |-> "NO_BID", outcome |-> Open, dep |-> FALSE, text |-> 0,
             stamp |-> 0, by |-> Nobody]

TypeOK ==
    /\ row \in [Pursuits -> Rows] /\ clock \in 0..MaxTime
    /\ patch \in [Editors -> {NoPatch} \cup [pursuit : Pursuits, new : Rows]]
    /\ page \in [Editors -> {"shown", "reload", "loading"}]
    /\ view \in [Editors -> [Pursuits -> Rows]]
    /\ since \in [Editors -> 0..clock] /\ told \in [Editors -> BOOLEAN]
    /\ excused \in [Editors -> SUBSET (1..clock)]
    /\ \A p \in Pursuits :
          /\ row[p].stamp <= clock
          /\ row[p].dep => p \in DOMAIN Predecessor
          /\ \A e, f \in Editors :
                patch[e].pursuit = p /\ patch[f].pursuit = p => e = f

Init ==
    /\ row = [p \in Pursuits |-> FirstRow] /\ clock = 0
    /\ patch = [e \in Editors |-> NoPatch]
    /\ page = [e \in Editors |-> "shown"]
    /\ view = [e \in Editors |-> row]
    /\ since = [e \in Editors |-> 0] /\ told = [e \in Editors |-> FALSE]
    /\ excused = [e \in Editors |-> {}]
-----------------------------------------------------------------------------
Free(p) == \A e \in Editors : patch[e].pursuit # p

Dependents(p) ==
    {q \in DOMAIN Predecessor : Predecessor[q] = p /\ row[q].dep}

Begins == clock < MaxTime /\ clock' = clock + 1

Stamped(r, e) == [r EXCEPT !.stamp = clock', !.by = e]

(* What commits while a page loads is not in what the load brings.         *)
Noted == excused' = [e \in Editors |->
            IF page[e] = "loading" THEN excused[e] \cup {clock'} ELSE excused[e]]

(* The page goes on to loadData(), or stays as it is.                      *)
Reloads(e) == page' = [page EXCEPT ![e] = "reload"] /\ UNCHANGED view

(* The lost-update guard.                                                  *)
Unmodified(e, p) == view[e][p].stamp = row[p].stamp

(* resolve_pursuit_dependency; its other refusals are PursuitDependency's. *)
MayDepend(p) ==
    /\ p \in DOMAIN Predecessor
    /\ row[Predecessor[p]].outcome = Open

Edits(p) ==
    {[row[p] EXCEPT !.text = 1 - @]}
    \cup {[row[p] EXCEPT !.bid = b] : b \in Bids \ {row[p].bid}}
    \cup {r \in {[row[p] EXCEPT !.dep = ~@]} : r.dep => MayDepend(p)}

(* patch_pursuit, up to its commit or its first call to the engine.        *)
PatchPursuit(e, p) ==
    /\ page[e] = "shown" /\ patch[e] = NoPatch
    /\ Free(p) /\ Unmodified(e, p) /\ row[p].outcome = Open
    /\ Begins
    /\ \E edit \in Edits(p) : LET new == Stamped(edit, e) IN
          \/ /\ row' = [row EXCEPT ![p] = new]
             /\ Reloads(e) /\ Noted
             /\ UNCHANGED patch
          \/ /\ patch' = [patch EXCEPT ![e] = [pursuit |-> p, new |-> new]]
             /\ UNCHANGED <<row, page, view, excused>>
    /\ UNCHANGED <<since, told>>

CommitPatch(e) ==
    /\ patch[e] # NoPatch
    /\ row' = [row EXCEPT ![patch[e].pursuit] = patch[e].new]
    /\ patch' = [patch EXCEPT ![e] = NoPatch]
    /\ excused' = [f \in Editors |-> excused[f] \cup {patch[e].new.stamp}]
    /\ Reloads(e)
    /\ UNCHANGED <<clock, since, told>>

(* A stopped server rolls back what has not committed.                     *)
Restart ==
    /\ \E e \in Editors : patch[e] # NoPatch
    /\ patch' = [e \in Editors |-> NoPatch]
    /\ UNCHANGED <<row, clock, pages, excused>>

(* set_bid and saveBid: the page shows the new decision without reloading. *)
SetBid(e, p, b) ==
    /\ page[e] = "shown" /\ patch[e] = NoPatch
    /\ row[p].outcome = Open
    /\ view' = [view EXCEPT ![e][p].bid = b]
    /\ \/ /\ row[p].bid = b
          /\ UNCHANGED <<row, clock, excused>>
       \/ /\ row[p].bid # b /\ Free(p) /\ Begins /\ Noted
          /\ row' = [row EXCEPT ![p] = Stamped([@ EXCEPT !.bid = b], e)]
    /\ UNCHANGED <<patch, page, since, told>>

AlwaysBid(p, o, also) == TRUE   \* variant: bid_required is not asked

(* bid_required: what was won or lost was bid.                             *)
BidFor(p, o, also) == o = "WON" => row[p].bid = "BID" \/ also

ClearedUnstamped(p, o, e) ==   \* variant: dependents keep their updated_at
    [q \in Pursuits |->
        IF o = "CANCELLED" /\ row[p].outcome # o /\ q \in Dependents(p)
        THEN [row[q] EXCEPT !.dep = FALSE] ELSE row[q]]

(* auto_clear_dependents_of_outcome.                                       *)
Cleared(p, o, e) ==
    [q \in Pursuits |->
        IF o = "CANCELLED" /\ row[p].outcome # o /\ q \in Dependents(p)
        THEN Stamped([row[q] EXCEPT !.dep = FALSE], e) ELSE row[q]]

SetOutcome(e, p, o, also) ==
    /\ page[e] = "shown" /\ patch[e] = NoPatch
    /\ BidFor(p, o, also)
    /\ Free(p)
    /\ o = "CANCELLED" /\ row[p].outcome # o => \A q \in Dependents(p) : Free(q)
    /\ Begins /\ Noted
    /\ row' = [Cleared(p, o, e) EXCEPT ![p] =
                  Stamped([row[p] EXCEPT
                     !.outcome = o,
                     !.bid = IF o = "WON" /\ also THEN "BID" ELSE row[p].bid], e)]
    /\ Reloads(e)
    /\ UNCHANGED <<patch, since, told>>

(* submit_black_hat, submit_ptw: the fee and the investment are written to *)
(* the row; the first of two scenarios does not reload the page.           *)
SubmitBhPtw(e, p) ==
    /\ page[e] = "shown" /\ patch[e] = NoPatch
    /\ row[p].outcome = Open /\ Free(p)
    /\ Begins /\ Noted
    /\ row' = [row EXCEPT ![p] = Stamped([@ EXCEPT !.text = 1 - row[p].text], e)]
    /\ \/ Reloads(e)
       \/ row[p].dep /\ UNCHANGED <<page, view>>
    /\ UNCHANGED <<patch, since, told>>

(* set_questionnaire_answers: P2 = LPTA; recalculatePwin reloads the page  *)
(* only after the recalculation that follows has succeeded.                *)
AnswerLpta(e, p) ==
    /\ page[e] = "shown" /\ patch[e] = NoPatch
    /\ row[p].outcome = Open /\ row[p].dep /\ Free(p)
    /\ Begins /\ Noted
    /\ row' = [row EXCEPT ![p] = Stamped([@ EXCEPT !.dep = FALSE], e)]
    /\ Reloads(e) \/ UNCHANGED <<page, view>>
    /\ UNCHANGED <<patch, since, told>>
-----------------------------------------------------------------------------
(* loadData: bootstrap reads the rows; the page shows them and takes its   *)
(* own clock for the cursor, since bootstrap sends no "latest".            *)
BeginLoad(e) ==
    /\ page[e] # "loading" /\ patch[e] = NoPatch
    /\ page' = [page EXCEPT ![e] = "loading"]
    /\ view' = [view EXCEPT ![e] = row]
    /\ excused' = [excused EXCEPT ![e] = {}]
    /\ UNCHANGED <<server, since, told>>

(* What it was told starts anew, although the banner that told it stays    *)
(* until it is clicked.                                                    *)
ShowLoaded(e) ==
    /\ page[e] = "loading"
    /\ page' = [page EXCEPT ![e] = "shown"]
    /\ since' = [since EXCEPT ![e] = clock]
    /\ told' = [told EXCEPT ![e] = FALSE]
    /\ UNCHANGED <<server, view, excused>>

Latest == CHOOSE t \in {row[p].stamp : p \in Pursuits} :
             \A p \in Pursuits : row[p].stamp <= t

ChangedLater(e) ==   \* variant: off by one
    {p \in Pursuits : row[p].stamp > since[e] + 1}

(* changes: the pursuits changed since the cursor.                         *)
Changed(e) == {p \in Pursuits : row[p].stamp > since[e]}

(* pollChangesTick.                                                        *)
Poll(e) ==
    /\ page[e] = "shown"
    /\ told' = [told EXCEPT ![e] = @ \/ Changed(e) # {}]
    /\ since' = [since EXCEPT ![e] = Latest]
    /\ UNCHANGED <<server, page, view, excused>>

Next ==
    \/ \E e \in Editors :
          \/ \E p \in Pursuits :
                \/ PatchPursuit(e, p)
                \/ \E b \in {"BID", "NO_BID"} : SetBid(e, p, b)
                \/ \E o \in Outcomes, also \in BOOLEAN : SetOutcome(e, p, o, also)
                \/ SubmitBhPtw(e, p)
                \/ AnswerLpta(e, p)
          \/ CommitPatch(e) \/ BeginLoad(e) \/ ShowLoaded(e) \/ Poll(e)
    \/ Restart

Spec == Init /\ [][Next]_vars
-----------------------------------------------------------------------------
(* A save that would pass the guard comes from a page that shows the row   *)
(* as it is: whichever request wrote it, nothing is overwritten unseen     *)
(* (write.py:222-237).                                                     *)
NoLostUpdate ==
    \A e \in Editors, p \in Pursuits :
        page[e] = "shown" /\ patch[e] = NoPatch /\ Unmodified(e, p)
            => view[e][p] = row[p]

(* A pursuit that was won or lost was bid, whatever toggles, edits that    *)
(* wait for the engine, closings and reopenings came before                *)
(* (write.py:555-557, 663-678).                                            *)
WonWasBid ==
    \A p \in Pursuits : row[p].outcome = "WON" => row[p].bid = "BID"

Missed(e, p) ==
    /\ page[e] = "shown" /\ view[e][p] # row[p]
    /\ row[p].stamp <= since[e] /\ ~told[e]

(* A page that no poll will warn shows outdated rows only when the change  *)
(* was committed by a PATCH that had waited for the engine, or while the   *)
(* page was loading (write.py:855-873).                                    *)
MissedOnlyInAWindow ==
    \A e \in Editors, p \in Pursuits : Missed(e, p) => row[p].stamp \in excused[e]

(* A page is warned of every change, since its cursor never passes one     *)
(* (index.html:3309-3314, 3549-3553).  The code does not keep it: see      *)
(* MissedOnlyInAWindow.                                                    *)
EveryChangeIsReported == \A e \in Editors, p \in Pursuits : ~Missed(e, p)

(* A save refused as modified was overtaken by somebody else's write, as   *)
(* its message says (write.py:231-235).  The code does not keep it: one's  *)
(* own bid toggle stamps the row and leaves the page its old stamp.        *)
RefusalNamesSomebodyElse ==
    \A e \in Editors, p \in Pursuits :
        page[e] = "shown" /\ patch[e] = NoPatch /\ row[p].outcome = Open
            /\ ~Unmodified(e, p) => row[p].by # e
=============================================================================
