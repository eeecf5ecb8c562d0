------------------------ MODULE PursuitEditing_proofs ------------------------
(* Theorems of PursuitEditing, for any pursuits, editors and length of a   *)
(* behaviour.                                                              *)
EXTENDS PursuitEditing, WellFoundedInduction, TLAPS

(* What a page shows is what the row was when it was stamped, and not      *)
(* newer.                                                                  *)
ViewsAreOfTheirStamp ==
    \A e \in Editors, p \in Pursuits :
        /\ view[e][p].stamp <= row[p].stamp
        /\ view[e][p].stamp = row[p].stamp => view[e][p] = row[p]

(* A PATCH that waits for the engine is newer than its row, which is open  *)
(* and which nobody else can write.                                        *)
PatchesAreNewer ==
    \A e \in Editors : patch[e] # NoPatch =>
        /\ row[patch[e].pursuit].stamp < patch[e].new.stamp
        /\ patch[e].new.stamp <= clock
        /\ patch[e].new.outcome = Open
        /\ patch[e].new.dep => patch[e].pursuit \in DOMAIN Predecessor

(* A row is newer than a page shows it only if the change is excused, or   *)
(* is still ahead of the cursor of the poll, or was told; what commits     *)
(* while the page loads is excused whatever the cursor.                    *)
MissesAreExcused ==
    \A e \in Editors, p \in Pursuits : view[e][p].stamp < row[p].stamp =>
        /\ page[e] = "loading" => row[p].stamp \in excused[e]
        /\ page[e] = "shown" /\ row[p].stamp <= since[e] /\ ~told[e]
             => row[p].stamp \in excused[e]

EditInv ==
    TypeOK /\ ViewsAreOfTheirStamp /\ PatchesAreNewer /\ WonWasBid /\ MissesAreExcused

-----------------------------------------------------------------------------
LEMMA StampedRow ==
  ASSUME NEW r \in Rows, NEW e \in Editors, clock' \in 0..MaxTime
  PROVE  /\ Stamped(r, e) \in Rows /\ Stamped(r, e).stamp = clock'
         /\ Stamped(r, e).outcome = r.outcome /\ Stamped(r, e).bid = r.bid
         /\ Stamped(r, e).dep = r.dep
BY DEF Stamped, Rows

LEMMA InitEditInv == Init => EditInv
BY EditingAssumption DEF Init, EditInv, TypeOK, ViewsAreOfTheirStamp, PatchesAreNewer,
   WonWasBid, MissesAreExcused, Rows, FirstRow, NoPatch, Nobody, Open, Outcomes, Bids

(* A transaction that commits at once stamps what it writes with a time    *)
(* nobody has seen, and writes no row a PATCH holds.                       *)
LEMMA WriteKeepsInv ==
  ASSUME EditInv, Begins, UNCHANGED patch,
         row' \in [Pursuits -> Rows], view' \in [Editors -> [Pursuits -> Rows]],
         \A p \in Pursuits : \/ row'[p] = row[p]
                             \/ /\ Free(p) /\ row'[p].stamp = clock'
                                /\ row'[p].outcome = "WON" => row'[p].bid = "BID"
                                /\ row'[p].dep => p \in DOMAIN Predecessor,
         \A e \in Editors, p \in Pursuits :
            /\ view'[e][p].stamp = view[e][p].stamp
            /\ row'[p] = row[p] => view'[e][p] = view[e][p],
         page' \in [Editors -> {"shown", "reload", "loading"}],
         \A e \in Editors : page'[e] \in {page[e], "reload"},
         excused' \in [Editors -> SUBSET (1..clock')], UNCHANGED <<since, told>>,
         \A e \in Editors : /\ excused[e] \subseteq excused'[e]
                            /\ page[e] = "loading" => clock' \in excused'[e]
  PROVE  EditInv'
<1>1. clock \in Nat /\ clock' = clock + 1 /\ clock' \in 0..MaxTime
  BY EditingAssumption DEF EditInv, TypeOK, Begins
<1>2. \A p \in Pursuits : row[p].stamp \in Nat /\ row[p].stamp <= clock
  BY <1>1 DEF EditInv, TypeOK, Rows
<1>3. \A e \in Editors, p \in Pursuits : view[e][p].stamp \in Nat
  BY <1>1 DEF EditInv, TypeOK, Rows
<1>4. TypeOK'
  <2>1. \A p \in Pursuits : row'[p].stamp <= clock' /\ (row'[p].dep => p \in DOMAIN Predecessor)
    BY <1>1, <1>2 DEF EditInv, TypeOK
  <2>2. since' \in [Editors -> 0..clock'] /\ told' \in [Editors -> BOOLEAN]
    BY <1>1 DEF EditInv, TypeOK
  <2> QED
    BY <1>1, <2>1, <2>2 DEF EditInv, TypeOK
<1>5. ViewsAreOfTheirStamp'
  BY <1>1, <1>2, <1>3 DEF EditInv, ViewsAreOfTheirStamp
<1>6. PatchesAreNewer'
  <2> SUFFICES ASSUME NEW e \in Editors, patch[e] # NoPatch
               PROVE  /\ row'[patch[e].pursuit].stamp < patch[e].new.stamp
                      /\ patch[e].new.stamp <= clock'
                      /\ patch[e].new.outcome = Open
                      /\ patch[e].new.dep => patch[e].pursuit \in DOMAIN Predecessor
    BY DEF PatchesAreNewer
  <2>1. patch[e].pursuit \in Pursuits /\ ~Free(patch[e].pursuit) /\ patch[e].new \in Rows
    BY DEF EditInv, TypeOK, Free
  <2>2. row'[patch[e].pursuit] = row[patch[e].pursuit] /\ patch[e].new.stamp \in Nat
    BY <2>1 DEF Rows
  <2> QED
    BY <1>1, <1>2, <2>1, <2>2 DEF EditInv, PatchesAreNewer
<1>7. WonWasBid'
  BY DEF EditInv, WonWasBid
<1>8. MissesAreExcused'
  <2> SUFFICES ASSUME NEW e \in Editors, NEW p \in Pursuits,
                      view'[e][p].stamp < row'[p].stamp
               PROVE  /\ page'[e] = "loading" => row'[p].stamp \in excused'[e]
                      /\ page'[e] = "shown" /\ row'[p].stamp <= since'[e] /\ ~told'[e]
                           => row'[p].stamp \in excused'[e]
    BY DEF MissesAreExcused
  <2>1. CASE row'[p] = row[p]
    BY <2>1 DEF EditInv, MissesAreExcused
  <2>2. CASE row'[p].stamp = clock'
    <3>1. ~(row'[p].stamp <= since'[e])
      BY <1>1, <2>2 DEF EditInv, TypeOK
    <3> QED
      BY <2>2, <3>1
  <2> QED
    BY <2>1, <2>2
<1> QED
  BY <1>4, <1>5, <1>6, <1>7, <1>8 DEF EditInv

LEMMA NotedTyped ==
  ASSUME EditInv, Begins, Noted
  PROVE  /\ excused' \in [Editors -> SUBSET (1..clock')]
         /\ \A e \in Editors : /\ excused[e] \subseteq excused'[e]
                               /\ page[e] = "loading" => clock' \in excused'[e]
<1>1. clock \in Nat /\ clock' = clock + 1
  BY EditingAssumption DEF EditInv, TypeOK, Begins
<1>2. \A e \in Editors : excused'[e] \subseteq 1..clock'
  BY <1>1 DEF EditInv, TypeOK, Noted
<1>3. \A e \in Editors : /\ excused[e] \subseteq excused'[e]
                         /\ page[e] = "loading" => clock' \in excused'[e]
  BY DEF Noted
<1> QED
  BY <1>2, <1>3 DEF Noted

LEMMA KeptExcused ==
  ASSUME EditInv, Begins, UNCHANGED excused
  PROVE  excused' \in [Editors -> SUBSET (1..clock')]
<1>1. clock \in Nat /\ clock' = clock + 1
  BY EditingAssumption DEF EditInv, TypeOK, Begins
<1>2. 1..clock \subseteq 1..clock'
  BY <1>1
<1> QED
  BY <1>2 DEF EditInv, TypeOK

LEMMA EditsAreRows ==
  ASSUME EditInv, NEW p \in Pursuits, NEW r \in Edits(p)
  PROVE  /\ r \in Rows /\ r.outcome = row[p].outcome
         /\ r.dep => p \in DOMAIN Predecessor
<1>1. row[p] \in Rows /\ (row[p].dep => p \in DOMAIN Predecessor)
  BY DEF EditInv, TypeOK
<1>2. CASE r = [row[p] EXCEPT !.text = 1 - row[p].text]
  <2>1. 1 - row[p].text \in 0..1
    BY <1>1 DEF Rows
  <2> QED
    BY <1>1, <1>2, <2>1 DEF Rows
<1>3. CASE \E b \in Bids : r = [row[p] EXCEPT !.bid = b]
  BY <1>1, <1>3 DEF Rows
<1>4. CASE r = [row[p] EXCEPT !.dep = ~@] /\ (r.dep => MayDepend(p))
  <2>1. r.dep => p \in DOMAIN Predecessor
    BY <1>4 DEF MayDepend
  <2>2. (~row[p].dep) \in BOOLEAN
    BY Zenon
  <2> HIDE DEF MayDepend
  <2>3. r \in Rows /\ r.outcome = row[p].outcome
    BY <1>1, <1>4, <2>2 DEF Rows
  <2> QED
    BY <2>1, <2>3
<1> QED
  BY <1>2, <1>3, <1>4 DEF Edits

(* A PATCH leaves its edit in the row, or waits for the engine with it.    *)
LEMMA PatchKeepsInv ==
  ASSUME EditInv, NEW e \in Editors, NEW p \in Pursuits, PatchPursuit(e, p)
  PROVE  EditInv'
<1> PICK edit \in Edits(p) : LET new == Stamped(edit, e) IN
          \/ /\ row' = [row EXCEPT ![p] = new]
             /\ Reloads(e) /\ Noted
             /\ UNCHANGED patch
          \/ /\ patch' = [patch EXCEPT ![e] = [pursuit |-> p, new |-> new]]
             /\ UNCHANGED <<row, page, view, excused>>
  BY DEF PatchPursuit
<1> DEFINE new == Stamped(edit, e)
<1>1. Free(p) /\ row[p].outcome = Open /\ Begins /\ UNCHANGED <<since, told>>
  BY DEF PatchPursuit
<1>2. clock \in Nat /\ clock' = clock + 1 /\ clock' \in 0..MaxTime
  BY <1>1, EditingAssumption DEF EditInv, TypeOK, Begins
<1>3. /\ new \in Rows /\ new.stamp = clock' /\ new.outcome = Open
      /\ new.dep => p \in DOMAIN Predecessor
  BY <1>1, <1>2, EditsAreRows, StampedRow
<1>4. CASE row' = [row EXCEPT ![p] = new] /\ Reloads(e) /\ Noted /\ UNCHANGED patch
  <2>1. row' \in [Pursuits -> Rows] /\ page' \in [Editors -> {"shown", "reload", "loading"}]
    BY <1>3, <1>4 DEF EditInv, TypeOK, Reloads
  <2>2. \A q \in Pursuits : row'[q] = row[q] \/ (q = p /\ row'[q] = new)
    BY <1>4 DEF EditInv, TypeOK
  <2>3. UNCHANGED view /\ view' \in [Editors -> [Pursuits -> Rows]]
    BY <1>4 DEF EditInv, TypeOK, Reloads
  <2>4. /\ excused' \in [Editors -> SUBSET (1..clock')]
        /\ \A f \in Editors : /\ excused[f] \subseteq excused'[f]
                              /\ page[f] = "loading" => clock' \in excused'[f]
    BY <1>1, <1>4, NotedTyped
  <2>6. \A f \in Editors : page'[f] \in {page[f], "reload"}
    BY <1>4 DEF EditInv, TypeOK, Reloads
  <2> HIDE DEF new
  <2>5. \A q \in Pursuits : \/ row'[q] = row[q]
                            \/ /\ Free(q) /\ row'[q].stamp = clock'
                               /\ row'[q].outcome = "WON" => row'[q].bid = "BID"
                               /\ row'[q].dep => q \in DOMAIN Predecessor
    BY <1>1, <1>3, <2>2 DEF Open
  <2> QED
    BY <1>1, <1>4, <2>1, <2>3, <2>4, <2>5, <2>6, WriteKeepsInv
<1>5. CASE /\ patch' = [patch EXCEPT ![e] = [pursuit |-> p, new |-> new]]
           /\ UNCHANGED <<row, page, view, excused>>
  <2> HIDE DEF new
  <2>1. /\ patch' \in [Editors -> {NoPatch} \cup [pursuit : Pursuits, new : Rows]]
        /\ patch'[e].pursuit = p /\ patch'[e].new = new
        /\ \A f \in Editors \ {e} : patch'[f] = patch[f]
    BY <1>3, <1>5 DEF EditInv, TypeOK
  <2>2. TypeOK'
    <3>1. \A f, g \in Editors, q \in Pursuits :
            patch'[f].pursuit = q /\ patch'[g].pursuit = q => f = g
      BY <1>1, <2>1 DEF EditInv, TypeOK, Free
    <3>2. excused' \in [Editors -> SUBSET (1..clock')]
      BY <1>1, <1>5, KeptExcused
    <3>3. since' \in [Editors -> 0..clock']
      BY <1>1, <1>2 DEF EditInv, TypeOK
    <3>4. \A q \in Pursuits : row[q].stamp <= clock' /\ row[q].stamp \in Nat
      BY <1>2 DEF EditInv, TypeOK, Rows
    <3> QED
      BY <1>1, <1>2, <1>5, <2>1, <3>1, <3>2, <3>3, <3>4 DEF EditInv, TypeOK
  <2>3. PatchesAreNewer'
    <3>1. row[p].stamp \in Nat /\ row[p].stamp <= clock
      BY DEF EditInv, TypeOK, Rows
    <3>2. \A f \in Editors : patch[f] # NoPatch => patch[f].new.stamp \in Nat
      BY <1>2 DEF EditInv, TypeOK, Rows
    <3> QED
      BY <1>2, <1>3, <1>5, <2>1, <3>1, <3>2 DEF EditInv, PatchesAreNewer
  <2>4. ViewsAreOfTheirStamp' /\ WonWasBid' /\ MissesAreExcused'
    BY <1>1, <1>5 DEF EditInv, ViewsAreOfTheirStamp, WonWasBid, MissesAreExcused
  <2> QED
    BY <2>2, <2>3, <2>4 DEF EditInv
<1> QED
  BY <1>4, <1>5

(* A request that stamps one open row and commits at once.                 *)
LEMMA OneRowKeepsInv ==
  ASSUME EditInv, NEW e \in Editors, NEW p \in Pursuits, NEW r \in Rows,
         Begins, Noted, Free(p), UNCHANGED <<patch, since, told>>,
         row' = [row EXCEPT ![p] = Stamped(r, e)],
         r.outcome = "WON" => r.bid = "BID",
         r.dep => p \in DOMAIN Predecessor,
         page' \in [Editors -> {"shown", "reload", "loading"}],
         \A f \in Editors : page'[f] \in {page[f], "reload"},
         view' \in [Editors -> [Pursuits -> Rows]],
         \A f \in Editors, q \in Pursuits :
            /\ view'[f][q].stamp = view[f][q].stamp
            /\ q # p => view'[f][q] = view[f][q]
  PROVE  EditInv'
<1>1. clock \in Nat /\ clock' = clock + 1 /\ clock' \in 0..MaxTime
  BY EditingAssumption DEF EditInv, TypeOK, Begins
<1>2. /\ Stamped(r, e) \in Rows /\ Stamped(r, e).stamp = clock'
      /\ Stamped(r, e).outcome = r.outcome /\ Stamped(r, e).bid = r.bid
      /\ Stamped(r, e).dep = r.dep
  BY <1>1, StampedRow
<1>3. /\ row' \in [Pursuits -> Rows] /\ row'[p] = Stamped(r, e)
      /\ \A q \in Pursuits \ {p} : row'[q] = row[q]
  BY <1>2 DEF EditInv, TypeOK
<1>4. row'[p] # row[p]
  BY <1>1, <1>2, <1>3 DEF EditInv, TypeOK, Rows
<1>5. \A q \in Pursuits : \/ row'[q] = row[q]
                          \/ /\ Free(q) /\ row'[q].stamp = clock'
                             /\ row'[q].outcome = "WON" => row'[q].bid = "BID"
                             /\ row'[q].dep => q \in DOMAIN Predecessor
  BY <1>2, <1>3
<1>6. \A f \in Editors, q \in Pursuits :
         /\ view'[f][q].stamp = view[f][q].stamp
         /\ row'[q] = row[q] => view'[f][q] = view[f][q]
  BY <1>4
<1>7. /\ excused' \in [Editors -> SUBSET (1..clock')]
      /\ \A f \in Editors : /\ excused[f] \subseteq excused'[f]
                            /\ page[f] = "loading" => clock' \in excused'[f]
  BY NotedTyped
<1> QED
  BY <1>3, <1>5, <1>6, <1>7, WriteKeepsInv

(* The page shows a decision the row does not have: it keeps its stamp, so *)
(* it passes for the row only if the row has the decision too.             *)
LEMMA SetBidKeepsInv ==
  ASSUME EditInv, NEW e \in Editors, NEW p \in Pursuits, NEW b \in Bids,
         SetBid(e, p, b)
  PROVE  EditInv'
<1>1. /\ view' \in [Editors -> [Pursuits -> Rows]]
      /\ \A f \in Editors, q \in Pursuits :
            /\ view'[f][q].stamp = view[f][q].stamp
            /\ q # p => view'[f][q] = view[f][q]
      /\ \A f \in Editors : f # e => view'[f] = view[f]
      /\ view'[e][p] = [view[e][p] EXCEPT !.bid = b]
  <2> DEFINE shown == [view[e][p] EXCEPT !.bid = b]
  <2>1. view \in [Editors -> [Pursuits -> Rows]]
    BY DEF EditInv, TypeOK
  <2>2. shown \in Rows /\ shown.stamp = view[e][p].stamp
    BY <2>1 DEF Rows
  <2>3. view' = [view EXCEPT ![e] = [view[e] EXCEPT ![p] = shown]]
    BY DEF SetBid
  <2>4. view'[e][p] = shown
    BY <2>1, <2>3
  <2> HIDE DEF shown
  <2>5. /\ view' \in [Editors -> [Pursuits -> Rows]]
        /\ \A f \in Editors, q \in Pursuits : f # e \/ q # p => view'[f][q] = view[f][q]
        /\ \A f \in Editors : f # e => view'[f] = view[f]
        /\ view'[e][p] = shown
    BY <2>1, <2>2, <2>3, <2>4
  <2> QED
    BY <2>2, <2>4, <2>5 DEF shown
<1>2. row[p] \in Rows /\ row[p].outcome = Open
  BY DEF EditInv, TypeOK, SetBid
<1>3. CASE row[p].bid = b /\ UNCHANGED <<row, clock, excused>>
  <2>1. ViewsAreOfTheirStamp'
    <3>1. [row[p] EXCEPT !.bid = b] = row[p]
      BY <1>2, <1>3 DEF Rows
    <3> QED
      BY <1>1, <1>3, <3>1 DEF EditInv, ViewsAreOfTheirStamp
  <2>2. TypeOK'
    BY <1>1, <1>3 DEF EditInv, TypeOK, SetBid
  <2>3. PatchesAreNewer' /\ WonWasBid' /\ MissesAreExcused'
    BY <1>1, <1>3 DEF EditInv, PatchesAreNewer, WonWasBid, MissesAreExcused, SetBid
  <2> QED
    BY <2>1, <2>2, <2>3 DEF EditInv
<1>4. CASE /\ Free(p) /\ Begins /\ Noted
           /\ row' = [row EXCEPT ![p] = Stamped([@ EXCEPT !.bid = b], e)]
  <2> DEFINE r == [row[p] EXCEPT !.bid = b]
  <2>1. r \in Rows /\ r.outcome = Open /\ r.dep = row[p].dep
    BY <1>2 DEF Rows
  <2>2. row' = [row EXCEPT ![p] = Stamped(r, e)]
    BY <1>4 DEF EditInv, TypeOK
  <2>3. r.dep => p \in DOMAIN Predecessor
    BY <2>1 DEF EditInv, TypeOK
  <2>4. /\ page' \in [Editors -> {"shown", "reload", "loading"}]
        /\ \A f \in Editors : page'[f] \in {page[f], "reload"}
        /\ UNCHANGED <<patch, since, told>>
    BY DEF EditInv, TypeOK, SetBid
  <2>5. ~(r.outcome = "WON")
    BY <2>1 DEF Open
  <2> HIDE DEF r
  <2> QED
    BY <1>1, <1>4, <2>1, <2>2, <2>3, <2>4, <2>5, OneRowKeepsInv
<1> QED
  BY <1>3, <1>4 DEF SetBid

LEMMA SubmitKeepsInv ==
  ASSUME EditInv, NEW e \in Editors, NEW p \in Pursuits,
         SubmitBhPtw(e, p) \/ AnswerLpta(e, p)
  PROVE  EditInv'
<1>1. row[p] \in Rows /\ row[p].outcome = Open /\ (row[p].dep => p \in DOMAIN Predecessor)
  BY DEF EditInv, TypeOK, SubmitBhPtw, AnswerLpta
<1>2. PICK r \in {[row[p] EXCEPT !.text = 1 - row[p].text], [row[p] EXCEPT !.dep = FALSE]} :
        row' = [row EXCEPT ![p] = Stamped(r, e)]
  <2>1. CASE SubmitBhPtw(e, p)
    <3>1. row' = [row EXCEPT ![p] = Stamped([row[p] EXCEPT !.text = 1 - row[p].text], e)]
      BY <2>1, Zenon DEF SubmitBhPtw
    <3> QED  BY <3>1
  <2>2. CASE AnswerLpta(e, p)
    <3>1. row' = [row EXCEPT ![p] = Stamped([row[p] EXCEPT !.dep = FALSE], e)]
      BY <2>2, Zenon DEF AnswerLpta
    <3> QED  BY <3>1
  <2> QED  BY <2>1, <2>2
<1>3. r \in Rows /\ r.outcome = Open /\ (r.dep => p \in DOMAIN Predecessor)
  <2>1. 1 - row[p].text \in 0..1
    BY <1>1 DEF Rows
  <2>2. CASE r = [row[p] EXCEPT !.text = 1 - row[p].text]
    BY <1>1, <2>1, <2>2 DEF Rows
  <2>3. CASE r = [row[p] EXCEPT !.dep = FALSE]
    BY <1>1, <2>3 DEF Rows
  <2> QED  BY <2>2, <2>3
<1>4. /\ Begins /\ Noted /\ Free(p) /\ UNCHANGED <<patch, since, told>>
      /\ page' \in [Editors -> {"shown", "reload", "loading"}] /\ UNCHANGED view
      /\ \A f \in Editors : page'[f] \in {page[f], "reload"}
  BY DEF EditInv, TypeOK, SubmitBhPtw, AnswerLpta, Reloads
<1>5. view' \in [Editors -> [Pursuits -> Rows]]
  BY <1>4 DEF EditInv, TypeOK
<1>6. r.outcome = "WON" => r.bid = "BID"
  BY <1>3 DEF Open
<1> QED
  BY <1>2, <1>3, <1>4, <1>5, <1>6, OneRowKeepsInv

(* Closing stamps the pursuit, and its dependents when it is cancelled.    *)
LEMMA OutcomeKeepsInv ==
  ASSUME EditInv, NEW e \in Editors, NEW p \in Pursuits, NEW o \in Outcomes,
         NEW also \in BOOLEAN, SetOutcome(e, p, o, also)
  PROVE  EditInv'
<1> DEFINE bid == IF o = "WON" /\ also THEN "BID" ELSE row[p].bid
           closed == [row[p] EXCEPT !.outcome = o, !.bid = bid]
<1>1. clock \in Nat /\ clock' = clock + 1 /\ clock' \in 0..MaxTime
  BY EditingAssumption DEF EditInv, TypeOK, Begins, SetOutcome
<1>2. \A q \in Pursuits : row[q] \in Rows /\ (row[q].dep => q \in DOMAIN Predecessor)
  BY DEF EditInv, TypeOK
<1>3. /\ closed \in Rows /\ closed.outcome = o /\ closed.bid = bid
      /\ closed.dep = row[p].dep
  BY <1>2 DEF Rows, Bids
<1>4. o = "WON" => bid = "BID"
  BY DEF SetOutcome, BidFor
<1>5. row' = [Cleared(p, o, e) EXCEPT ![p] = Stamped(closed, e)]
  BY DEF SetOutcome
<1> HIDE DEF closed, bid
<1>6. /\ Stamped(closed, e) \in Rows /\ Stamped(closed, e).stamp = clock'
      /\ Stamped(closed, e).outcome = o /\ Stamped(closed, e).bid = bid
      /\ Stamped(closed, e).dep = row[p].dep
  BY <1>1, <1>3, StampedRow
<1>7. \A q \in Pursuits :
        LET r == Stamped([row[q] EXCEPT !.dep = FALSE], e) IN
        r \in Rows /\ r.stamp = clock' /\ ~r.dep
          /\ r.outcome = row[q].outcome /\ r.bid = row[q].bid
  <2> SUFFICES ASSUME NEW q \in Pursuits
               PROVE  LET r == Stamped([row[q] EXCEPT !.dep = FALSE], e) IN
                      r \in Rows /\ r.stamp = clock' /\ ~r.dep
                        /\ r.outcome = row[q].outcome /\ r.bid = row[q].bid
    OBVIOUS
  <2> DEFINE s == [row[q] EXCEPT !.dep = FALSE]
  <2>1. s \in Rows /\ ~s.dep /\ s.outcome = row[q].outcome /\ s.bid = row[q].bid
    BY <1>2 DEF Rows
  <2> HIDE DEF s
  <2>2. /\ Stamped(s, e) \in Rows /\ Stamped(s, e).stamp = clock' /\ ~Stamped(s, e).dep
        /\ Stamped(s, e).outcome = row[q].outcome /\ Stamped(s, e).bid = row[q].bid
    BY <1>1, <2>1, StampedRow
  <2> QED
    BY <2>2 DEF s
<1>8. row'[p] = Stamped(closed, e) /\ DOMAIN row' = Pursuits
  BY <1>5 DEF Cleared
<1>9. \A q \in Pursuits \ {p} :
        \/ row'[q] = row[q]
        \/ row'[q] = Stamped([row[q] EXCEPT !.dep = FALSE], e) /\ Free(q)
  BY <1>5 DEF Cleared, SetOutcome
<1>10. \A q \in Pursuits : \/ row'[q] = row[q]
                           \/ /\ Free(q) /\ row'[q].stamp = clock'
                              /\ row'[q].outcome = "WON" => row'[q].bid = "BID"
                              /\ row'[q].dep => q \in DOMAIN Predecessor
  <2> SUFFICES ASSUME NEW q \in Pursuits, row'[q] # row[q]
               PROVE  /\ Free(q) /\ row'[q].stamp = clock'
                      /\ row'[q].outcome = "WON" => row'[q].bid = "BID"
                      /\ row'[q].dep => q \in DOMAIN Predecessor
    OBVIOUS
  <2>1. CASE q = p
    <3>1. Free(p)
      BY DEF SetOutcome
    <3> QED
      BY <1>2, <1>4, <1>6, <1>8, <2>1, <3>1
  <2>2. CASE q # p
    BY <1>7, <1>9, <2>2 DEF EditInv, WonWasBid
  <2> QED
    BY <2>1, <2>2
<1>11. row' \in [Pursuits -> Rows]
  <2>1. \A q \in Pursuits : row'[q] \in Rows
    BY <1>2, <1>6, <1>7, <1>8, <1>9
  <2>2. row' = [q \in Pursuits |-> row'[q]]
    BY <1>5, <1>8 DEF Cleared
  <2> QED
    BY <2>1, <2>2
<1>12. /\ Begins /\ Noted /\ UNCHANGED <<patch, since, told, view>>
       /\ page' \in [Editors -> {"shown", "reload", "loading"}]
       /\ \A f \in Editors : page'[f] \in {page[f], "reload"}
  BY DEF EditInv, TypeOK, SetOutcome, Reloads
<1>13. view' \in [Editors -> [Pursuits -> Rows]]
  BY <1>12 DEF EditInv, TypeOK
<1>14. /\ excused' \in [Editors -> SUBSET (1..clock')]
       /\ \A f \in Editors : /\ excused[f] \subseteq excused'[f]
                             /\ page[f] = "loading" => clock' \in excused'[f]
  BY <1>12, NotedTyped
<1> QED
  BY <1>10, <1>11, <1>12, <1>13, <1>14, WriteKeepsInv

(* What a waiting PATCH commits is newer than its row, which is open.      *)
LEMMA CommitKeepsInv ==
  ASSUME EditInv, NEW e \in Editors, CommitPatch(e) PROVE EditInv'
<1> DEFINE p == patch[e].pursuit
           new == patch[e].new
<1>1. /\ p \in Pursuits /\ new \in Rows /\ new.outcome = Open
      /\ row[p].stamp < new.stamp /\ new.stamp \in 1..clock
      /\ new.dep => p \in DOMAIN Predecessor
      /\ \A f \in Editors \ {e} : patch[f].pursuit # p
  <2>1. patch[e] \in [pursuit : Pursuits, new : Rows]
    BY DEF EditInv, TypeOK, CommitPatch
  <2>2. p \in Pursuits /\ new \in Rows /\ row[p] \in Rows
    BY <2>1 DEF EditInv, TypeOK
  <2>3. /\ row[p].stamp < new.stamp /\ new.stamp <= clock /\ new.outcome = Open
        /\ new.dep => p \in DOMAIN Predecessor
    BY DEF EditInv, PatchesAreNewer, CommitPatch
  <2>4. row[p].stamp \in Nat /\ new.stamp \in Nat /\ clock \in Nat
    BY <2>2, EditingAssumption DEF Rows, EditInv, TypeOK
  <2>5. \A f \in Editors \ {e} : patch[f].pursuit # p
    BY <2>2 DEF EditInv, TypeOK
  <2> QED
    BY <2>2, <2>3, <2>4, <2>5
<1>2. /\ row' = [row EXCEPT ![p] = new] /\ patch' = [patch EXCEPT ![e] = NoPatch]
      /\ excused' = [f \in Editors |-> excused[f] \cup {new.stamp}]
      /\ Reloads(e) /\ UNCHANGED <<clock, since, told>>
  BY DEF CommitPatch
<1> HIDE DEF p, new
<1>3. TypeOK'
  <2>1. row' \in [Pursuits -> Rows] /\ page' \in [Editors -> {"shown", "reload", "loading"}]
    BY <1>1, <1>2 DEF EditInv, TypeOK, Reloads
  <2>2. excused' \in [Editors -> SUBSET (1..clock')]
    BY <1>1, <1>2 DEF EditInv, TypeOK
  <2>3. /\ patch' \in [Editors -> {NoPatch} \cup [pursuit : Pursuits, new : Rows]]
        /\ patch'[e] = NoPatch /\ \A f \in Editors \ {e} : patch'[f] = patch[f]
    BY <1>2 DEF EditInv, TypeOK
  <2>4. \A f, g \in Editors, q \in Pursuits :
          patch'[f].pursuit = q /\ patch'[g].pursuit = q => f = g
    <3>1. patch'[e].pursuit \notin Pursuits
      BY <2>3, EditingAssumption DEF NoPatch, Nobody
    <3>2. \A f, g \in Editors, q \in Pursuits :
            patch[f].pursuit = q /\ patch[g].pursuit = q => f = g
      BY DEF EditInv, TypeOK
    <3> QED
      BY <2>3, <3>1, <3>2
  <2>5. \A q \in Pursuits : row'[q].stamp <= clock /\ (row'[q].dep => q \in DOMAIN Predecessor)
    BY <1>1, <1>2 DEF EditInv, TypeOK
  <2>6. UNCHANGED <<clock, view, since, told>>
    BY <1>2 DEF Reloads
  <2> QED
    BY <2>1, <2>2, <2>3, <2>4, <2>5, <2>6 DEF EditInv, TypeOK
<1>4. ViewsAreOfTheirStamp'
  <2>1. UNCHANGED view /\ row'[p] = new /\ \A q \in Pursuits \ {p} : row'[q] = row[q]
    BY <1>1, <1>2 DEF EditInv, TypeOK, Reloads
  <2>2. \A f \in Editors : view[f][p].stamp \in Nat /\ view[f][p].stamp <= row[p].stamp
    BY <1>1, EditingAssumption DEF EditInv, TypeOK, ViewsAreOfTheirStamp, Rows
  <2>3. row[p].stamp \in Nat
    BY <1>1, EditingAssumption DEF EditInv, TypeOK, Rows
  <2> QED
    BY <1>1, <2>1, <2>2, <2>3 DEF EditInv, ViewsAreOfTheirStamp
<1>5. PatchesAreNewer'
  <2> SUFFICES ASSUME NEW f \in Editors, patch'[f] # NoPatch
               PROVE  /\ row'[patch'[f].pursuit].stamp < patch'[f].new.stamp
                      /\ patch'[f].new.stamp <= clock'
                      /\ patch'[f].new.outcome = Open
                      /\ patch'[f].new.dep => patch'[f].pursuit \in DOMAIN Predecessor
    BY DEF PatchesAreNewer
  <2>1. f # e /\ patch'[f] = patch[f]
    BY <1>2 DEF EditInv, TypeOK
  <2>2. patch[f].pursuit \in Pursuits \ {p} /\ patch[f] # NoPatch
    BY <1>1, <2>1 DEF EditInv, TypeOK
  <2>3. row'[patch[f].pursuit] = row[patch[f].pursuit] /\ clock' = clock
    BY <1>2, <2>2 DEF EditInv, TypeOK
  <2> QED
    BY <2>1, <2>2, <2>3 DEF EditInv, PatchesAreNewer
<1>6. WonWasBid'
  <2>1. new.outcome # "WON"
    BY <1>1 DEF Open
  <2> QED
    BY <1>2, <2>1 DEF EditInv, TypeOK, WonWasBid
<1>7. MissesAreExcused'
  <2>1. \A f \in Editors, q \in Pursuits :
          \/ row'[q] = row[q] /\ excused[f] \subseteq excused'[f]
          \/ row'[q].stamp \in excused'[f]
    BY <1>1, <1>2 DEF EditInv, TypeOK
  <2>2. \A f \in Editors : page'[f] \in {page[f], "reload"}
    BY <1>2 DEF EditInv, TypeOK, Reloads
  <2>3. UNCHANGED <<view, since, told>>
    BY <1>2 DEF Reloads
  <2> QED
    BY <2>1, <2>2, <2>3 DEF EditInv, MissesAreExcused
<1> QED
  BY <1>3, <1>4, <1>5, <1>6, <1>7 DEF EditInv

LEMMA RestartKeepsInv == ASSUME EditInv, Restart PROVE EditInv'
<1>1. /\ patch' \in [Editors -> {NoPatch} \cup [pursuit : Pursuits, new : Rows]]
      /\ \A f \in Editors : patch'[f] = NoPatch
      /\ UNCHANGED <<row, clock, page, view, since, told, excused>>
  BY DEF Restart, pages
<1>2. TypeOK'
  <2>1. \A f \in Editors : patch'[f].pursuit \notin Pursuits
    BY <1>1, EditingAssumption DEF NoPatch, Nobody
  <2> QED
    BY <1>1, <2>1 DEF EditInv, TypeOK
<1> QED
  BY <1>1, <1>2 DEF EditInv, ViewsAreOfTheirStamp, PatchesAreNewer, WonWasBid, MissesAreExcused

(* max(updated_at) is one of the stamps.                                   *)
LEMMA LatestIsAStamp == ASSUME EditInv PROVE Latest \in 0..clock
<1> DEFINE S == {row[p].stamp : p \in Pursuits}
           T == {MaxTime - t : t \in S}
<1>1. S # {} /\ S \subseteq 0..clock /\ S \subseteq 0..MaxTime /\ MaxTime \in Nat
  BY EditingAssumption DEF EditInv, TypeOK, Rows
<1>2. \A p \in Pursuits : row[p].stamp \in S
  OBVIOUS
<1> HIDE DEF S
<1>3. T \subseteq Nat /\ T # {}
  <2>1. \A t \in S : MaxTime - t \in Nat
    BY <1>1
  <2> QED
    BY <1>1, <2>1
<1> HIDE DEF T
<1>4. PICK x \in T : \A y \in T : ~(<<y, x>> \in OpToRel(<, Nat))
  BY <1>3, NatLessThanWellFounded, WFMin, Zenon
<1>5. \A y \in T : x <= y
  <2> SUFFICES ASSUME NEW y \in T, ~(x <= y) PROVE FALSE
    OBVIOUS
  <2>1. y \in Nat /\ x \in Nat /\ y < x
    BY <1>3
  <2>2. <<y, x>> \in OpToRel(<, Nat)
    BY <2>1, Zenon DEF OpToRel
  <2> QED
    BY <1>4, <2>2
<1>6. PICK t \in S : x = MaxTime - t
  BY <1>4 DEF T
<1>7. \A u \in S : u <= t
  BY <1>1, <1>5, <1>6 DEF T
<1>8. \A p \in Pursuits : row[p].stamp <= t
  BY <1>2, <1>7
<1>9. Latest \in S
  BY <1>6, <1>8 DEF Latest, S
<1> QED
  BY <1>1, <1>9

(* The pages read the table without changing it.                           *)
LEMMA PageKeepsInv ==
  ASSUME EditInv, NEW e \in Editors, BeginLoad(e) \/ ShowLoaded(e) \/ Poll(e)
  PROVE  EditInv'
<1>1. UNCHANGED <<row, clock, patch>>
  BY DEF BeginLoad, ShowLoaded, Poll, server
<1>2. /\ view' \in [Editors -> [Pursuits -> Rows]]
      /\ \A f \in Editors : view'[f] = view[f] \/ view'[f] = row
  BY DEF EditInv, TypeOK, BeginLoad, ShowLoaded, Poll
<1>3. TypeOK'
  <2>1. /\ page' \in [Editors -> {"shown", "reload", "loading"}]
        /\ excused' \in [Editors -> SUBSET (1..clock)]
    BY DEF EditInv, TypeOK, BeginLoad, ShowLoaded, Poll
  <2>2. told' \in [Editors -> BOOLEAN]
    <3>1. CASE Poll(e)
      BY <3>1, Zenon DEF EditInv, TypeOK, Poll
    <3>2. CASE BeginLoad(e) \/ ShowLoaded(e)
      BY <3>2 DEF EditInv, TypeOK, BeginLoad, ShowLoaded
    <3> QED
      BY <3>1, <3>2
  <2>3. since' \in [Editors -> 0..clock]
    <3>1. clock \in 0..clock
      BY EditingAssumption DEF EditInv, TypeOK
    <3> QED
      BY <3>1, LatestIsAStamp DEF EditInv, TypeOK, BeginLoad, ShowLoaded, Poll
  <2> QED
    BY <1>1, <1>2, <2>1, <2>2, <2>3 DEF EditInv, TypeOK
<1>4. ViewsAreOfTheirStamp'
  <2>1. \A p \in Pursuits : row[p].stamp <= row[p].stamp
    <3>1. \A p \in Pursuits : row[p] \in Rows
      BY DEF EditInv, TypeOK
    <3>2. \A r \in Rows : r.stamp \in Nat
      BY EditingAssumption DEF Rows
    <3>3. \A n \in Nat : n <= n
      OBVIOUS
    <3> QED
      BY <3>1, <3>2, <3>3, Zenon
  <2> QED
    BY <1>1, <1>2, <2>1 DEF EditInv, ViewsAreOfTheirStamp
<1>5. MissesAreExcused'
  <2> SUFFICES ASSUME NEW f \in Editors, NEW p \in Pursuits,
                      view'[f][p].stamp < row[p].stamp
               PROVE  /\ page'[f] = "loading" => row[p].stamp \in excused'[f]
                      /\ page'[f] = "shown" /\ row[p].stamp <= since'[f] /\ ~told'[f]
                           => row[p].stamp \in excused'[f]
    BY <1>1 DEF MissesAreExcused
  <2>1. row[p].stamp \in Nat /\ clock \in Nat
    BY EditingAssumption DEF EditInv, TypeOK, Rows
  <2>2. view'[f] # row
    BY <2>1
  <2>3. view'[f] = view[f] /\ view[f][p].stamp < row[p].stamp
    BY <1>2, <2>2
  <2>4. CASE f # e
    BY <2>3, <2>4 DEF EditInv, TypeOK, MissesAreExcused, BeginLoad, ShowLoaded, Poll
  <2>5. CASE f = e /\ BeginLoad(e)
    BY <2>2, <2>5 DEF EditInv, TypeOK, BeginLoad
  <2>6. CASE f = e /\ ShowLoaded(e)
    BY <2>3, <2>6 DEF EditInv, TypeOK, MissesAreExcused, ShowLoaded
  <2>7. CASE f = e /\ Poll(e)
    <3>1. page'[e] = "shown" /\ page[e] = "shown" /\ excused' = excused
      BY <2>7 DEF Poll
    <3>2. ASSUME ~told'[e] PROVE ~told[e] /\ ~(row[p].stamp > since[e])
      <4>1. told' = [told EXCEPT ![e] = told[e] \/ Changed(e) # {}]
        BY <2>7, Zenon DEF Poll
      <4>2. told'[e] = (told[e] \/ Changed(e) # {})
        BY <4>1, Zenon DEF EditInv, TypeOK
      <4> QED
        BY <3>2, <4>2 DEF Changed
    <3>3. since[e] \in Nat
      BY <2>1 DEF EditInv, TypeOK
    <3>4. ~told'[e] => row[p].stamp <= since[e]
      BY <2>1, <3>2, <3>3
    <3> QED
      BY <2>3, <2>7, <3>1, <3>2, <3>4 DEF EditInv, MissesAreExcused
  <2> QED
    BY <2>4, <2>5, <2>6, <2>7
<1> QED
  BY <1>1, <1>3, <1>4, <1>5 DEF EditInv, PatchesAreNewer, WonWasBid
-----------------------------------------------------------------------------
(* EditInv is inductive: every stamp a page or a waiting PATCH carries is  *)
(* tied to the row it came from.                                           *)
THEOREM EditInvariance == Spec => []EditInv
<1>1. Init => EditInv
  BY InitEditInv
<1>2. EditInv /\ [Next]_vars => EditInv'
  <2> SUFFICES ASSUME EditInv, [Next]_vars PROVE EditInv'
    OBVIOUS
  <2>1. ASSUME NEW e \in Editors, NEW p \in Pursuits, PatchPursuit(e, p) PROVE EditInv'
    BY <2>1, PatchKeepsInv
  <2>2. ASSUME NEW e \in Editors, NEW p \in Pursuits, NEW b \in {"BID", "NO_BID"},
               SetBid(e, p, b) PROVE EditInv'
    BY <2>2, SetBidKeepsInv DEF Bids
  <2>3. ASSUME NEW e \in Editors, NEW p \in Pursuits, NEW o \in Outcomes,
               NEW also \in BOOLEAN, SetOutcome(e, p, o, also) PROVE EditInv'
    BY <2>3, OutcomeKeepsInv
  <2>4. ASSUME NEW e \in Editors, NEW p \in Pursuits,
               SubmitBhPtw(e, p) \/ AnswerLpta(e, p) PROVE EditInv'
    BY <2>4, SubmitKeepsInv
  <2>5. ASSUME NEW e \in Editors, CommitPatch(e) PROVE EditInv'
    BY <2>5, CommitKeepsInv
  <2>6. ASSUME NEW e \in Editors, BeginLoad(e) \/ ShowLoaded(e) \/ Poll(e) PROVE EditInv'
    BY <2>6, PageKeepsInv
  <2>7. CASE Restart
    BY <2>7, RestartKeepsInv
  <2>8. CASE UNCHANGED vars
    BY <2>8 DEF vars, EditInv, TypeOK, ViewsAreOfTheirStamp, PatchesAreNewer, WonWasBid,
       MissesAreExcused
  <2> QED
    BY <2>1, <2>2, <2>3, <2>4, <2>5, <2>6, <2>7, <2>8 DEF Next
<1> QED
  BY <1>1, <1>2, PTL DEF Spec

(* No save that passes the guard overwrites what its page has not shown    *)
(* (write.py:222-237), since every request that writes the row stamps it.  *)
THEOREM NothingIsOverwrittenUnseen == Spec => []NoLostUpdate
<1>1. EditInv => NoLostUpdate
  BY DEF EditInv, ViewsAreOfTheirStamp, NoLostUpdate, Unmodified
<1> QED
  BY <1>1, EditInvariance, PTL

(* Whatever was won was bid (write.py:663-678): a PATCH that waits holds an *)
(* open row, and nothing else writes the bid of a closed one.              *)
THEOREM WonOnlyAfterABid == Spec => []WonWasBid
<1>1. EditInv => WonWasBid
  BY DEF EditInv
<1> QED
  BY <1>1, EditInvariance, PTL

(* A page that no poll will warn is outdated only by what committed while  *)
(* it was loading, or by a PATCH that had waited (write.py:855-873): every *)
(* other stamp is later than the cursor when it appears.                   *)
THEOREM WarnedUnlessExcused == Spec => []MissedOnlyInAWindow
<1>1. EditInv => MissedOnlyInAWindow
  <2> SUFFICES ASSUME EditInv, NEW e \in Editors, NEW p \in Pursuits, Missed(e, p)
               PROVE  row[p].stamp \in excused[e]
    BY DEF MissedOnlyInAWindow
  <2>1. view[e][p].stamp <= row[p].stamp /\ view[e][p].stamp # row[p].stamp
    BY DEF Missed, EditInv, ViewsAreOfTheirStamp
  <2>2. view[e][p].stamp \in Nat /\ row[p].stamp \in Nat
    BY EditingAssumption DEF EditInv, TypeOK, Rows
  <2>3. view[e][p].stamp < row[p].stamp
    BY <2>1, <2>2
  <2> QED
    BY <2>3 DEF Missed, EditInv, MissesAreExcused
<1> QED
  BY <1>1, EditInvariance, PTL
=============================================================================
