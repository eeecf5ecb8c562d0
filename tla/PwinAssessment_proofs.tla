------------------------ MODULE PwinAssessment_proofs ------------------------
(* Theorems of PwinAssessment, for any pool, any number of transactions    *)
(* and of saves: first of Spec, whose requests overlap, then of SerialSpec,*)
(* for what overlapping requests break and the handlers alone do not.      *)
EXTENDS PwinAssessment, FiniteSetTheorems, SequenceTheorems, WellFoundedInduction, TLAPS

(* What holds of the table between any two transactions, and of the table  *)
(* a waiting PATCH sees.                                                   *)
OneCurrent(rs) ==
    \A i, j \in DOMAIN rs :
        rs[i].current /\ rs[j].current /\ rs[i].scenario = rs[j].scenario => i = j
Covered(rs) ==
    (\E i \in DOMAIN rs : rs[i].scenario = "BASE")
        => \E i \in DOMAIN rs : rs[i].scenario = "BASE" /\ rs[i].current
Entered(rs) ==
    \A i \in DOMAIN rs : rs[i].type = "BH_PTW" =>
        rs[i].pwin # "NONE" /\ rs[i].base # "NONE"
Table(rs) == rs \in Seq(Row) /\ OneCurrent(rs) /\ Covered(rs) /\ Entered(rs)

(* How it may change: what was demoted stays as it is.                     *)
Keeps(rs, new) ==
    /\ DOMAIN rs \subseteq DOMAIN new
    /\ \A i \in DOMAIN rs : ~rs[i].current =>
          /\ ~new[i].current
          /\ new[i].pwin = rs[i].pwin
          /\ new[i].base = rs[i].base
          /\ new[i].blended = rs[i].blended

-----------------------------------------------------------------------------
LEMMA RowwiseIsSeq ==
  ASSUME NEW rs \in Seq(Row), NEW f, f = [i \in DOMAIN rs |-> f[i]],
         \A i \in DOMAIN rs : f[i] \in Row
  PROVE  f \in Seq(Row) /\ DOMAIN f = DOMAIN rs /\ DOMAIN f = 1..Len(f)
<1>1. DOMAIN rs = 1..Len(rs) /\ Len(rs) \in Nat
  OBVIOUS
<1>2. f \in [1..Len(rs) -> Row]
  BY <1>1
<1>3. f \in Seq(Row)
  BY <1>1, <1>2, SeqDef
<1> QED
  BY <1>1, <1>2, <1>3

LEMMA AppendIsSeq ==
  ASSUME NEW rs \in Seq(Row), NEW r \in Row
  PROVE  /\ Append(rs, r) \in Seq(Row)
         /\ DOMAIN Append(rs, r) = DOMAIN rs \cup {Len(rs) + 1}
         /\ Len(rs) + 1 \notin DOMAIN rs
         /\ Append(rs, r)[Len(rs) + 1] = r
         /\ \A i \in DOMAIN rs : Append(rs, r)[i] = rs[i]
OBVIOUS

LEMMA RowEdits ==
  ASSUME NEW r \in Row
  PROVE  /\ [r EXCEPT !.current = FALSE] \in Row
         /\ r.base # "NONE" /\ r.scenario = "BASE"
              => [r EXCEPT !.pwin = "BLEND", !.blended = "BLEND"] \in Row
         /\ r.scenario = "BASE" => [r EXCEPT !.pwin = r.base, !.blended = "NONE"] \in Row
         /\ \A at \in Time : r.scenario = "BASE" =>
              [r EXCEPT !.pwin = "RULE", !.blended = "RULE", !.rule = TRUE, !.at = at] \in Row
         /\ \A n \in Answers : [r EXCEPT !.answers = n] \in Row
<1>1. [r EXCEPT !.current = FALSE] \in Row
  BY DEF Row
<1>2. r.base # "NONE" /\ r.scenario = "BASE"
              => [r EXCEPT !.pwin = "BLEND", !.blended = "BLEND"] \in Row
  BY DEF Row
<1>3. r.scenario = "BASE" => [r EXCEPT !.pwin = r.base, !.blended = "NONE"] \in Row
  BY DEF Row
<1>4. \A at \in Time : r.scenario = "BASE" =>
              [r EXCEPT !.pwin = "RULE", !.blended = "RULE", !.rule = TRUE, !.at = at] \in Row
  BY DEF Row
<1>5. \A n \in Answers : [r EXCEPT !.answers = n] \in Row
  BY DEF Row
<1> QED
  BY <1>1, <1>2, <1>3, <1>4, <1>5

LEMMA RowFields ==
  ASSUME NEW r \in Row
  PROVE  /\ r.current \in BOOLEAN /\ r.scenario \in Scenario
         /\ r.type \in {"QUESTIONNAIRE", "BH_PTW"} /\ r.answers \in Answers
         /\ r.at \in Time
BY DEF Row, Scenario

LEMMA KeepsComposes ==
  ASSUME NEW a, NEW b, NEW c, Keeps(a, b), Keeps(b, c) PROVE Keeps(a, c)
BY DEF Keeps

LEMMA KeepsItself == ASSUME NEW rs PROVE Keeps(rs, rs)
BY DEF Keeps

-----------------------------------------------------------------------------
(* Demotion: the rows of one scenario stop being current.                  *)
LEMMA DemoteRows ==
  ASSUME NEW rs \in Seq(Row), NEW s
  PROVE  /\ Demote(rs, s) \in Seq(Row)
         /\ DOMAIN Demote(rs, s) = DOMAIN rs
         /\ \A i \in DOMAIN rs : Demote(rs, s)[i] =
                IF rs[i].scenario = s THEN [rs[i] EXCEPT !.current = FALSE] ELSE rs[i]
<1>1. \A i \in DOMAIN rs : rs[i] \in Row
  OBVIOUS
<1>2. \A i \in DOMAIN rs : Demote(rs, s)[i] =
         IF rs[i].scenario = s THEN [rs[i] EXCEPT !.current = FALSE] ELSE rs[i]
  <2> SUFFICES ASSUME NEW i \in DOMAIN rs
               PROVE  Demote(rs, s)[i] =
         IF rs[i].scenario = s THEN [rs[i] EXCEPT !.current = FALSE] ELSE rs[i]
    OBVIOUS
  <2>1. Demote(rs, s)[i] = [rs[i] EXCEPT !.current = rs[i].current /\ rs[i].scenario # s]
    BY Zenon DEF Demote
  <2>2. CASE rs[i].scenario = s
    <3>1. (rs[i].current /\ rs[i].scenario # s) = FALSE
      BY <2>2
    <3> QED
      BY <2>1, <2>2, <3>1, Zenon
  <2>3. CASE rs[i].scenario # s
    <3>1. rs[i].current \in BOOLEAN
      BY <1>1, RowFields
    <3>2. (rs[i].current /\ rs[i].scenario # s) = rs[i].current
      BY <2>3, <3>1
    <3>3. [rs[i] EXCEPT !.current = rs[i].current] = rs[i]
      BY <1>1 DEF Row
    <3> QED
      BY <2>1, <2>3, <3>2, <3>3, Zenon
  <2> QED
    BY <2>2, <2>3
<1>3. \A i \in DOMAIN rs : Demote(rs, s)[i] \in Row
  BY <1>1, <1>2, RowEdits
<1>4. Demote(rs, s) = [i \in DOMAIN rs |-> Demote(rs, s)[i]]
  BY Zenon DEF Demote
<1> HIDE DEF Demote
<1> QED
  BY <1>2, <1>3, <1>4, RowwiseIsSeq

(* A new current row takes the place of its scenario's.                    *)
LEMMA InsertRows ==
  ASSUME NEW rs \in Seq(Row), NEW r \in Row
  PROVE  /\ Insert(rs, r) \in Seq(Row)
         /\ DOMAIN Insert(rs, r) = DOMAIN rs \cup {Len(rs) + 1}
         /\ Len(rs) + 1 \notin DOMAIN rs
         /\ Insert(rs, r)[Len(rs) + 1] = r
         /\ \A i \in DOMAIN rs : Insert(rs, r)[i] =
                IF rs[i].scenario = r.scenario THEN [rs[i] EXCEPT !.current = FALSE]
                ELSE rs[i]
<1> DEFINE d == Demote(rs, r.scenario)
<1>1. d \in Seq(Row) /\ DOMAIN d = DOMAIN rs
  BY DemoteRows
<1>2. Len(d) = Len(rs)
  BY <1>1, LenProperties
<1>3. \A i \in DOMAIN rs : d[i] = IF rs[i].scenario = r.scenario
                                  THEN [rs[i] EXCEPT !.current = FALSE] ELSE rs[i]
  BY DemoteRows
<1> HIDE DEF d
<1>4. /\ Append(d, r) \in Seq(Row) /\ DOMAIN Append(d, r) = DOMAIN d \cup {Len(d) + 1}
      /\ Len(d) + 1 \notin DOMAIN d /\ Append(d, r)[Len(d) + 1] = r
      /\ \A i \in DOMAIN d : Append(d, r)[i] = d[i]
  BY <1>1, AppendIsSeq
<1>5. Insert(rs, r) = Append(d, r)
  BY DEF Insert, d
<1> QED
  BY <1>1, <1>2, <1>3, <1>4, <1>5

LEMMA InsertKeepsTable ==
  ASSUME NEW rs, rs \in Seq(Row), OneCurrent(rs), Covered(rs), NEW r \in Row, r.current
  PROVE  /\ Insert(rs, r) \in Seq(Row) /\ OneCurrent(Insert(rs, r)) /\ Covered(Insert(rs, r))
         /\ Keeps(rs, Insert(rs, r))
         /\ Entered(rs) => \A i \in DOMAIN rs : Insert(rs, r)[i].type = "BH_PTW" =>
              Insert(rs, r)[i].pwin # "NONE" /\ Insert(rs, r)[i].base # "NONE"
<1> DEFINE new == Insert(rs, r)
           n == Len(rs) + 1
<1>1. /\ new \in Seq(Row) /\ DOMAIN new = DOMAIN rs \cup {n} /\ n \notin DOMAIN rs
      /\ new[n] = r
      /\ \A i \in DOMAIN rs : new[i] =
             IF rs[i].scenario = r.scenario THEN [rs[i] EXCEPT !.current = FALSE] ELSE rs[i]
  BY InsertRows
<1> HIDE DEF new, n
<1>2. \A i \in DOMAIN rs :
         /\ new[i].scenario = rs[i].scenario /\ new[i].pwin = rs[i].pwin
         /\ new[i].base = rs[i].base /\ new[i].blended = rs[i].blended
         /\ new[i].type = rs[i].type
         /\ new[i].current => rs[i].current /\ rs[i].scenario # r.scenario
         /\ rs[i].scenario # r.scenario => new[i] = rs[i]
  <2> DEFINE out(q) == [q EXCEPT !.current = FALSE]
  <2>1. \A q \in Row :
          /\ out(q).scenario = q.scenario /\ out(q).pwin = q.pwin
          /\ out(q).base = q.base /\ out(q).blended = q.blended
          /\ out(q).type = q.type /\ ~out(q).current /\ q.current \in BOOLEAN
    BY DEF Row
  <2>2. \A i \in DOMAIN rs : new[i] = IF rs[i].scenario = r.scenario
                                      THEN out(rs[i]) ELSE rs[i]
    BY <1>1
  <2> HIDE DEF out
  <2> SUFFICES ASSUME NEW i \in DOMAIN rs
      PROVE  /\ new[i].scenario = rs[i].scenario /\ new[i].pwin = rs[i].pwin
             /\ new[i].base = rs[i].base /\ new[i].blended = rs[i].blended
             /\ new[i].type = rs[i].type
             /\ new[i].current => rs[i].current /\ rs[i].scenario # r.scenario
             /\ rs[i].scenario # r.scenario => new[i] = rs[i]
    OBVIOUS
  <2>3. rs[i] \in Row
    OBVIOUS
  <2>4. CASE rs[i].scenario = r.scenario
    BY <2>1, <2>2, <2>3, <2>4
  <2>5. CASE rs[i].scenario # r.scenario
    BY <2>2, <2>5
  <2> QED
    BY <2>4, <2>5
<1>3. OneCurrent(new)
  BY <1>1, <1>2 DEF OneCurrent
<1>4. Covered(new)
  <2>1. CASE r.scenario = "BASE"
    BY <1>1, <2>1 DEF Covered
  <2>2. CASE r.scenario # "BASE"
    <3> SUFFICES ASSUME NEW i \in DOMAIN new, new[i].scenario = "BASE"
                 PROVE  \E j \in DOMAIN new : new[j].scenario = "BASE" /\ new[j].current
      BY DEF Covered
    <3>1. i \in DOMAIN rs /\ rs[i].scenario = "BASE"
      BY <1>1, <1>2, <2>2
    <3>2. PICK j \in DOMAIN rs : rs[j].scenario = "BASE" /\ rs[j].current
      BY <3>1 DEF Covered
    <3>3. new[j] = rs[j] /\ j \in DOMAIN new
      BY <1>1, <1>2, <2>2, <3>2
    <3> QED
      BY <3>2, <3>3
  <2> QED
    BY <2>1, <2>2
<1>5. Keeps(rs, new)
  BY <1>1, <1>2 DEF Keeps
<1>6. Entered(rs) => \A i \in DOMAIN rs : new[i].type = "BH_PTW" =>
        new[i].pwin # "NONE" /\ new[i].base # "NONE"
  BY <1>2 DEF Entered
<1> QED
  BY <1>1, <1>3, <1>4, <1>5, <1>6 DEF new

(* The blend rewrites current BASE rows that have a base, and no other.    *)
LEMMA BlendKeepsTable ==
  ASSUME NEW rs, rs \in Seq(Row), OneCurrent(rs), Covered(rs)
  PROVE  /\ Blend(rs) \in Seq(Row) /\ OneCurrent(Blend(rs)) /\ Covered(Blend(rs))
         /\ Keeps(rs, Blend(rs)) /\ DOMAIN Blend(rs) = DOMAIN rs
         /\ \A i \in DOMAIN rs :
               /\ Blend(rs)[i].type = rs[i].type /\ Blend(rs)[i].base = rs[i].base
               /\ rs[i].pwin # "NONE" => Blend(rs)[i].pwin # "NONE"
               /\ i \in Blendable(rs) => Blend(rs)[i].pwin # "NONE"
<1> DEFINE new == Blend(rs)
           blended(r) == [r EXCEPT !.pwin = "BLEND", !.blended = "BLEND"]
<1>1. /\ new = [i \in DOMAIN rs |-> new[i]]
      /\ \A i \in DOMAIN rs : new[i] = IF i \in Blendable(rs) THEN blended(rs[i]) ELSE rs[i]
  BY DEF Blend
<1>2. \A i \in DOMAIN rs : rs[i] \in Row
  OBVIOUS
<1>3. \A i \in Blendable(rs) :
         i \in DOMAIN rs /\ rs[i].current /\ rs[i].base # "NONE" /\ rs[i].scenario = "BASE"
  BY DEF Blendable, Current
<1>4. \A r \in Row :
         /\ blended(r).scenario = r.scenario /\ blended(r).base = r.base
         /\ blended(r).type = r.type /\ blended(r).current = r.current
         /\ blended(r).pwin = "BLEND"
  BY DEF Row
<1>5. \A r \in Row : r.base # "NONE" /\ r.scenario = "BASE" => blended(r) \in Row
  BY RowEdits
<1> HIDE DEF new, blended
<1>6. \A i \in DOMAIN rs : new[i] \in Row
  BY <1>1, <1>2, <1>3, <1>5
<1>7. new \in Seq(Row) /\ DOMAIN new = DOMAIN rs
  BY <1>1, <1>6, RowwiseIsSeq
<1>8. \A i \in DOMAIN rs :
         /\ new[i].type = rs[i].type /\ new[i].base = rs[i].base
         /\ new[i].scenario = rs[i].scenario /\ new[i].current = rs[i].current
         /\ rs[i].pwin # "NONE" => new[i].pwin # "NONE"
         /\ i \in Blendable(rs) => new[i].pwin # "NONE"
         /\ ~rs[i].current => new[i] = rs[i]
  BY <1>1, <1>2, <1>3, <1>4
<1>9. OneCurrent(new) /\ Covered(new)
  BY <1>7, <1>8 DEF OneCurrent, Covered
<1>10. Keeps(rs, new)
  BY <1>7, <1>8 DEF Keeps
<1> QED
  BY <1>7, <1>8, <1>9, <1>10 DEF new

LEMMA RecalculatedKeepsTable ==
  ASSUME NEW rs, Table(rs), NEW s \in Scenario, NEW at \in Time, NEW answers \in Answers,
         NEW d \in BOOLEAN
  PROVE  Table(Recalculated(rs, s, at, answers, d)) /\ Keeps(rs, Recalculated(rs, s, at, answers, d))
<1> DEFINE r == [scenario |-> s, type |-> "QUESTIONNAIRE",
                 at |-> at, current |-> TRUE, pwin |-> "ENGINE",
                 base |-> "ENGINE", blended |-> "NONE",
                 rule |-> FALSE, answers |-> answers]
           new == Insert(rs, r)
<1>1. r \in Row /\ r.current /\ r.type # "BH_PTW"
  BY DEF Row, Scenario
<1> HIDE DEF r
<1>2. new \in Seq(Row) /\ OneCurrent(new) /\ Covered(new) /\ Keeps(rs, new)
  BY <1>1, InsertKeepsTable DEF Table
<1>3. Entered(new)
  <2>1. \A i \in DOMAIN rs : new[i].type = "BH_PTW" => new[i].pwin # "NONE" /\ new[i].base # "NONE"
    BY <1>1, InsertKeepsTable DEF Table
  <2>2. DOMAIN new = DOMAIN rs \cup {Len(rs) + 1} /\ new[Len(rs) + 1] = r
    BY <1>1, InsertRows DEF Table
  <2> QED
    BY <1>1, <2>1, <2>2 DEF Entered
<1> HIDE DEF new
<1>4. Table(Blend(new)) /\ Keeps(new, Blend(new))
  BY <1>2, <1>3, BlendKeepsTable DEF Table, Entered
<1>5. Recalculated(rs, s, at, answers, d) = IF d THEN Blend(new) ELSE new
  BY DEF Recalculated, new, r
<1> QED
  BY <1>2, <1>3, <1>4, <1>5, KeepsComposes DEF Table

(* Sole source rewrites the current BASE row or adds one where there is    *)
(* none.                                                                   *)
LEMMA SoleRuledKeepsTable ==
  ASSUME NEW rs, Table(rs), NEW at \in Time
  PROVE  Table(SoleRuled(rs, at)) /\ Keeps(rs, SoleRuled(rs, at))
<1> DEFINE new == SoleRuled(rs, at)
           ruled(r) == [r EXCEPT !.pwin = "RULE", !.blended = "RULE", !.rule = TRUE, !.at = at]
           first == [scenario |-> "BASE", type |-> "QUESTIONNAIRE",
                     at |-> at, current |-> TRUE, pwin |-> "RULE",
                     base |-> "NONE", blended |-> "RULE", rule |-> TRUE, answers |-> 0]
<1>1. rs \in Seq(Row) /\ \A i \in DOMAIN rs : rs[i] \in Row
  BY DEF Table
<1>2. CASE Current(rs, "BASE") = {}
  <2>1. new = Append(rs, first)
    BY <1>2 DEF SoleRuled
  <2>2. /\ first \in Row /\ first.type # "BH_PTW" /\ first.scenario = "BASE" /\ first.current
    BY BoundsAssumption DEF Row, Answers
  <2> HIDE DEF first, new
  <2>3. /\ new \in Seq(Row) /\ DOMAIN new = DOMAIN rs \cup {Len(rs) + 1}
        /\ Len(rs) + 1 \notin DOMAIN rs /\ new[Len(rs) + 1] = first
        /\ \A i \in DOMAIN rs : new[i] = rs[i]
    BY <1>1, <2>1, <2>2, AppendIsSeq
  <2>4. \A i \in DOMAIN rs : ~(rs[i].scenario = "BASE" /\ rs[i].current)
    BY <1>2 DEF Current
  <2>5. OneCurrent(new)
    BY <2>2, <2>3, <2>4 DEF Table, OneCurrent
  <2>6. Covered(new) /\ Entered(new) /\ Keeps(rs, new)
    BY <2>2, <2>3 DEF Table, Covered, Entered, Keeps
  <2> QED
    BY <2>3, <2>5, <2>6 DEF Table, new
<1>3. CASE Current(rs, "BASE") # {}
  <2>1. /\ new = [i \in DOMAIN rs |-> new[i]]
        /\ \A i \in DOMAIN rs : new[i] = IF i \in Current(rs, "BASE") THEN ruled(rs[i]) ELSE rs[i]
    BY <1>3 DEF SoleRuled
  <2>2. \A r \in Row :
          /\ ruled(r).scenario = r.scenario /\ ruled(r).base = r.base
          /\ ruled(r).type = r.type /\ ruled(r).current = r.current
          /\ ruled(r).pwin = "RULE"
          /\ r.scenario = "BASE" => ruled(r) \in Row
    <3>1. \A r \in Row : r.scenario = "BASE" => ruled(r) \in Row
      BY RowEdits
    <3>2. \A r \in Row :
          /\ ruled(r).scenario = r.scenario /\ ruled(r).base = r.base
          /\ ruled(r).type = r.type /\ ruled(r).current = r.current
          /\ ruled(r).pwin = "RULE"
      BY DEF Row
    <3> HIDE DEF ruled
    <3> QED
      BY <3>1, <3>2
  <2> HIDE DEF new, ruled
  <2>3. \A i \in Current(rs, "BASE") : i \in DOMAIN rs /\ rs[i].scenario = "BASE" /\ rs[i].current
    BY DEF Current
  <2>4. new \in Seq(Row) /\ DOMAIN new = DOMAIN rs
    <3>1. \A i \in DOMAIN rs : new[i] \in Row
      BY <1>1, <2>1, <2>2, <2>3
    <3> QED
      BY <1>1, <2>1, <3>1, RowwiseIsSeq
  <2>5. \A i \in DOMAIN rs :
          /\ new[i].type = rs[i].type /\ new[i].base = rs[i].base
          /\ new[i].scenario = rs[i].scenario /\ new[i].current = rs[i].current
          /\ rs[i].pwin # "NONE" => new[i].pwin # "NONE"
          /\ ~rs[i].current => new[i] = rs[i]
    BY <1>1, <2>1, <2>2, <2>3
  <2>6. OneCurrent(new) /\ Covered(new) /\ Entered(new) /\ Keeps(rs, new)
    BY <2>4, <2>5 DEF Table, OneCurrent, Covered, Entered, Keeps
  <2> QED
    BY <2>4, <2>6 DEF Table, new
<1> QED
  BY <1>2, <1>3

(* A cancelled predecessor demotes DEPENDENT_WON and shows BASE unblended. *)
LEMMA UnblendedKeepsTable ==
  ASSUME NEW rs, Table(rs)
  PROVE  Table(Unblended(rs)) /\ Keeps(rs, Unblended(rs))
<1> DEFINE new == Unblended(rs)
           alone(r) == [r EXCEPT !.pwin = r.base, !.blended = "NONE"]
           out(r)   == [r EXCEPT !.current = FALSE]
<1>1. rs \in Seq(Row) /\ \A i \in DOMAIN rs : rs[i] \in Row
  BY DEF Table
<1>2. /\ new = [i \in DOMAIN rs |-> new[i]]
      /\ \A i \in DOMAIN rs : new[i] =
            IF i \in Current(rs, "BASE") THEN alone(rs[i]) ELSE Demote(rs, "DEPENDENT_WON")[i]
  BY DEF Unblended
<1>3. \A i \in DOMAIN rs : new[i] =
         IF i \in Current(rs, "BASE") THEN alone(rs[i])
         ELSE IF rs[i].scenario = "DEPENDENT_WON" THEN out(rs[i]) ELSE rs[i]
  <2>1. \A i \in DOMAIN rs : Demote(rs, "DEPENDENT_WON")[i] =
           IF rs[i].scenario = "DEPENDENT_WON" THEN out(rs[i]) ELSE rs[i]
    BY <1>1, DemoteRows
  <2> HIDE DEF new, alone, out
  <2> QED
    BY <1>2, <2>1
<1>4a. \A r \in Row :
        /\ alone(r).scenario = r.scenario /\ alone(r).base = r.base
        /\ alone(r).type = r.type /\ alone(r).current = r.current /\ alone(r).pwin = r.base
  BY DEF Row
<1>4b. \A r \in Row :
        /\ out(r).scenario = r.scenario /\ out(r).base = r.base
        /\ out(r).type = r.type /\ ~out(r).current /\ out(r).pwin = r.pwin
        /\ out(r).blended = r.blended
  BY DEF Row
<1>5. \A r \in Row : (r.scenario = "BASE" => alone(r) \in Row) /\ out(r) \in Row
  BY RowEdits
<1> HIDE DEF new, alone, out
<1>6. \A i \in Current(rs, "BASE") : i \in DOMAIN rs /\ rs[i].scenario = "BASE" /\ rs[i].current
  BY DEF Current
<1>7. new \in Seq(Row) /\ DOMAIN new = DOMAIN rs
  <2>1. \A i \in DOMAIN rs : new[i] \in Row
    BY <1>1, <1>3, <1>5, <1>6
  <2> QED
    BY <1>1, <1>2, <2>1, RowwiseIsSeq
<1>8. \A i \in DOMAIN rs :
        /\ new[i].type = rs[i].type /\ new[i].base = rs[i].base
        /\ new[i].scenario = rs[i].scenario /\ (new[i].current => rs[i].current)
        /\ rs[i].scenario = "BASE" => new[i].current = rs[i].current
        /\ new[i].pwin \in {rs[i].pwin, rs[i].base}
        /\ ~rs[i].current => new[i].pwin = rs[i].pwin /\ new[i].blended = rs[i].blended
  <2> SUFFICES ASSUME NEW i \in DOMAIN rs
               PROVE  /\ new[i].type = rs[i].type /\ new[i].base = rs[i].base
                      /\ new[i].scenario = rs[i].scenario /\ (new[i].current => rs[i].current)
                      /\ rs[i].scenario = "BASE" => new[i].current = rs[i].current
                      /\ new[i].pwin \in {rs[i].pwin, rs[i].base}
                      /\ ~rs[i].current => new[i].pwin = rs[i].pwin /\ new[i].blended = rs[i].blended
    OBVIOUS
  <2>1. CASE i \in Current(rs, "BASE")
    BY <1>1, <1>3, <1>4a, <1>6, <2>1
  <2>2. CASE i \notin Current(rs, "BASE") /\ rs[i].scenario = "DEPENDENT_WON"
    BY <1>1, <1>3, <1>4b, <2>2
  <2>3. CASE i \notin Current(rs, "BASE") /\ rs[i].scenario # "DEPENDENT_WON"
    BY <1>3, <2>3
  <2> QED
    BY <2>1, <2>2, <2>3
<1>9. OneCurrent(new)
  BY <1>7, <1>8 DEF Table, OneCurrent
<1>10. Covered(new) /\ Entered(new) /\ Keeps(rs, new)
  BY <1>7, <1>8 DEF Table, Covered, Entered, Keeps
<1> QED
  BY <1>7, <1>9, <1>10 DEF Table, new

-----------------------------------------------------------------------------
(* One lemma per handler.  The invariant is the type and the table; every  *)
(* step, besides, keeps what was demoted.                                  *)
IInv == TypeOK /\ Table(rows)
Good == IInv' /\ Keeps(rows, rows')

(* A PATCH that begins may be one start time past the bound, in which case *)
(* it writes no row; it has sent no answers yet.                           *)
Began ==
    [sole: {"KEEP", "ON", "OFF"}, soleSource: BOOLEAN, stage: Stage,
     reverted: BOOLEAN, dep: BOOLEAN, at: 1..(MaxTime + 1),
     call: {"SOLE", "BASE", "DEPENDENT_WON"}, answers: Nat \ {0},
     base: Answers, dependentWon: Answers]

LEMMA WrittenIsTable ==
  ASSUME IInv, NEW t \in Began, t.at \in Time
  PROVE  Table(Written(t)) /\ Keeps(rows, Written(t))
<1> DEFINE ruled == IF t.sole = "ON" THEN SoleRuled(rows, t.at) ELSE rows
           based == IF t.base = 0 THEN ruled
                    ELSE Recalculated(ruled, "BASE", t.at, t.base, t.dep)
<1>0. t.base \in Answers /\ t.dependentWon \in Answers /\ t.dep \in BOOLEAN
  BY DEF Began
<1>1. Table(ruled) /\ Keeps(rows, ruled)
  BY SoleRuledKeepsTable, KeepsItself DEF IInv
<1> HIDE DEF ruled
<1>2. Table(based) /\ Keeps(ruled, based)
  <2>1. "BASE" \in Scenario
    BY DEF Scenario
  <2> QED
    BY <1>0, <1>1, <2>1, RecalculatedKeepsTable, KeepsItself
<1> HIDE DEF based
<1>3. Table(Written(t)) /\ Keeps(based, Written(t))
  <2>1. "DEPENDENT_WON" \in Scenario
    BY DEF Scenario
  <2>2. Written(t) = IF t.dependentWon = 0 THEN based
                     ELSE Recalculated(based, "DEPENDENT_WON", t.at, t.dependentWon, t.dep)
    BY DEF Written, based, ruled
  <2> QED
    BY <1>0, <1>2, <2>1, <2>2, RecalculatedKeepsTable, KeepsItself
<1>4. Keeps(rows, based)
  BY <1>1, <1>2, KeepsComposes
<1> QED
  BY <1>3, <1>4, KeepsComposes

LEMMA CommitStep ==
  ASSUME IInv, NEW t \in Began, Commit(t)
  PROVE  Good
<1>1. clock \in 0..MaxTime /\ MaxTime \in Nat /\ t.at \in 1..(MaxTime + 1)
  BY BoundsAssumption DEF IInv, TypeOK, Began
<1>2. Table(rows') /\ Keeps(rows, rows')
  <2>1. CASE t.at \in Time
    BY <2>1, WrittenIsTable DEF Commit
  <2>2. CASE t.at \notin Time
    <3>1. t.at > MaxTime /\ ~(t.at <= clock)
      BY <1>1, <2>2 DEF Time
    <3>2. rows' = rows
      BY <1>1, <3>1 DEF Commit
    <3> QED
      BY <3>2, KeepsItself DEF IInv
  <2> QED
    BY <2>1, <2>2
<1>3. clock' \in 0..MaxTime
  BY <1>1 DEF Commit
<1>4. /\ t.stage \in Stage /\ t.soleSource \in BOOLEAN /\ t.dep \in BOOLEAN
  BY DEF Began
<1>5. TypeOK'
  BY <1>2, <1>3, <1>4 DEF Commit, IInv, TypeOK, Table
<1> QED
  BY <1>2, <1>5 DEF Good, IInv

LEMMA AwaitStep ==
  ASSUME IInv, NEW t \in Began, NEW call \in {"SOLE", "BASE", "DEPENDENT_WON"},
         NEW s \in Scenario, Await(t, call, s)
  PROVE  Good
<1>1. t.at \in Time /\ clock \in 0..MaxTime /\ MaxTime \in Nat
  BY BoundsAssumption DEF IInv, TypeOK, Began, Await, Time
<1>2. rows' = rows /\ recalcs' = recalcs /\ UNCHANGED columns
  BY DEF Await
<1>3. PICK a \in Readable(t, s) \ {0} : patches' = {[t EXCEPT !.call = call, !.answers = a]}
  BY DEF Await
<1>4. a \in Answers \ {0}
  <2>1. Written(t) \in Seq(Row)
    BY <1>1, WrittenIsTable DEF Table
  <2>2. PICK i \in Latest(Written(t), s) : a = Written(t)[i].answers
    BY <1>3 DEF Readable
  <2>3. i \in DOMAIN Written(t)
    BY <2>2 DEF Latest, Questionnaires
  <2>4. Written(t)[i] \in Row
    BY <2>1, <2>3
  <2> QED
    BY <1>3, <2>2, <2>4, RowFields
<1>5. [t EXCEPT !.call = call, !.answers = a] \in Patch
  BY <1>1, <1>4 DEF Began, Patch
<1>6. clock' \in 0..MaxTime
  BY <1>1 DEF Await, Time
<1>7. TypeOK'
  BY <1>2, <1>3, <1>5, <1>6 DEF IInv, TypeOK, columns
<1> QED
  BY <1>2, <1>7, KeepsItself DEF Good, IInv

LEMMA RevertDependentWonStep ==
  ASSUME IInv, NEW t \in Began, RevertDependentWon(t) PROVE Good
<1>1. CASE Await(t, "DEPENDENT_WON", "DEPENDENT_WON")
  BY <1>1, AwaitStep DEF Scenario
<1>2. CASE Commit(t)
  BY <1>2, CommitStep
<1> QED
  BY <1>1, <1>2 DEF RevertDependentWon

LEMMA RevertStep ==
  ASSUME IInv, NEW t \in Began, Revert(t) PROVE Good
<1>1. CASE Await(t, "BASE", "BASE")
  BY <1>1, AwaitStep DEF Scenario
<1>2. CASE RevertDependentWon(t)
  BY <1>2, RevertDependentWonStep
<1>3. CASE Commit(t)
  BY <1>3, CommitStep
<1> QED
  BY <1>1, <1>2, <1>3 DEF Revert

LEMMA PatchBegan ==
  ASSUME IInv, NEW switch \in {"KEEP", "ON", "OFF"}, NEW st \in Stage, NEW d \in BOOLEAN,
         PatchPursuit(switch, st, d)
  PROVE  \E t \in Began : /\ t.at = clock + 1 /\ t.base = 0 /\ t.dependentWon = 0
                         /\ LeaveSoleSource(t)
<1> DEFINE sole == IF switch = "KEEP" THEN soleSource ELSE switch = "ON"
           reverted == stage # "PRE_BH" /\ st = "PRE_BH"
           t == [sole |-> switch, soleSource |-> sole, stage |-> st,
                 reverted |-> reverted, dep |-> d,
                 at |-> clock + 1, call |-> "SOLE", answers |-> 1,
                 base |-> 0, dependentWon |-> 0]
<1>1. LeaveSoleSource(t)
  BY DEF PatchPursuit
<1>2. sole \in BOOLEAN /\ reverted \in BOOLEAN
  BY DEF IInv, TypeOK
<1>3. clock + 1 \in 1..(MaxTime + 1) /\ MaxSaves \in Nat
  BY BoundsAssumption DEF IInv, TypeOK
<1> HIDE DEF sole, reverted
<1>4. t \in Began
  <2>1. 0 \in Answers
    BY <1>3 DEF Answers
  <2> QED
    BY <1>2, <1>3, <2>1 DEF Began
<1> QED
  BY <1>1, <1>4

LEMMA PatchPursuitStep ==
  ASSUME IInv, NEW switch \in {"KEEP", "ON", "OFF"}, NEW st \in Stage, NEW d \in BOOLEAN,
         PatchPursuit(switch, st, d)
  PROVE  Good
<1>1. PICK t \in Began : LeaveSoleSource(t)
  BY PatchBegan
<1>2. CASE Await(t, "SOLE", "BASE")
  BY <1>2, AwaitStep DEF Scenario
<1>3. CASE Revert(t)
  BY <1>3, RevertStep
<1> QED
  BY <1>1, <1>2, <1>3 DEF LeaveSoleSource

LEMMA EngineStep ==
  ASSUME IInv, NEW t \in patches, EngineAnswersPatch(t) \/ EngineFailsPatch(t)
  PROVE  Good
<1>1. t \in Patch /\ MaxTime \in Nat /\ MaxSaves \in Nat
  BY BoundsAssumption DEF IInv, TypeOK
<1>2. t \in Began /\ t.answers \in Answers
  BY <1>1 DEF Patch, Began, Answers, Time
<1>3. [t EXCEPT !.base = t.answers] \in Began
  BY <1>2 DEF Began
<1>4. [t EXCEPT !.dependentWon = t.answers] \in Began
  BY <1>2 DEF Began
<1>5. CASE Commit([t EXCEPT !.base = t.answers])
  BY <1>3, <1>5, CommitStep
<1>6. CASE RevertDependentWon([t EXCEPT !.base = t.answers])
  BY <1>3, <1>6, RevertDependentWonStep
<1>7. CASE Commit([t EXCEPT !.dependentWon = t.answers])
  BY <1>4, <1>7, CommitStep
<1>8. CASE Revert(t)
  BY <1>2, <1>8, RevertStep
<1>9. CASE RevertDependentWon(t)
  BY <1>2, <1>9, RevertDependentWonStep
<1>10. CASE Commit(t)
  BY <1>2, <1>10, CommitStep
<1> QED
  BY <1>5, <1>6, <1>7, <1>8, <1>9, <1>10 DEF EngineAnswersPatch, EngineFailsPatch

(* Answers are saved in place, or in a first row of their scenario.        *)
LEMMA SaveAnswersStep ==
  ASSUME IInv, NEW s \in Scenario, SaveAnswers(s) PROVE Good
<1>1. clock \in 0..MaxTime /\ MaxTime \in Nat /\ MaxSaves \in Nat
  BY BoundsAssumption DEF IInv, TypeOK
<1>2. /\ rows \in Seq(Row) /\ OneCurrent(rows) /\ Covered(rows) /\ Entered(rows)
  BY DEF IInv, Table
<1>3. \A i \in DOMAIN rows : rows[i] \in Row
  BY <1>2
<1>4. PICK n \in NextSave(s) :
        \/ \E i \in Latest(rows, s) :
              rows' = [rows EXCEPT ![i].answers = n] /\ clock' = clock
        \/ /\ Questionnaires(rows, s) = {}
           /\ clock < MaxTime
           /\ rows' = Append(rows, [scenario |-> s, type |-> "QUESTIONNAIRE",
                                    at |-> clock + 1,
                                    current |-> Current(rows, s) = {},
                                    pwin |-> "NONE", base |-> "NONE",
                                    blended |-> "NONE", rule |-> FALSE,
                                    answers |-> n])
           /\ clock' = clock + 1
  BY DEF SaveAnswers
<1>5. n \in Answers
  BY <1>1 DEF NextSave, Answers
<1>6. ASSUME NEW i \in Latest(rows, s),
             rows' = [rows EXCEPT ![i].answers = n], clock' = clock
      PROVE  Table(rows') /\ Keeps(rows, rows')
  <2> DEFINE saved(r) == [r EXCEPT !.answers = n]
  <2>1. /\ rows' = [j \in DOMAIN rows |-> rows'[j]]
        /\ \A j \in DOMAIN rows : rows'[j] = IF j = i THEN saved(rows[j]) ELSE rows[j]
    BY <1>6
  <2>2. \A r \in Row :
          /\ saved(r).scenario = r.scenario /\ saved(r).base = r.base
          /\ saved(r).type = r.type /\ saved(r).current = r.current
          /\ saved(r).pwin = r.pwin /\ saved(r).blended = r.blended
    BY DEF Row
  <2>3. \A r \in Row : saved(r) \in Row
    BY <1>5, RowEdits
  <2> HIDE DEF saved
  <2>4. \A j \in DOMAIN rows : rows'[j] \in Row
    BY <1>3, <2>1, <2>3
  <2>5. rows' \in Seq(Row) /\ DOMAIN rows' = DOMAIN rows
    BY <1>2, <2>1, <2>4, RowwiseIsSeq
  <2>6. \A j \in DOMAIN rows :
          /\ rows'[j].scenario = rows[j].scenario /\ rows'[j].base = rows[j].base
          /\ rows'[j].type = rows[j].type /\ rows'[j].current = rows[j].current
          /\ rows'[j].pwin = rows[j].pwin /\ rows'[j].blended = rows[j].blended
    BY <1>3, <2>1, <2>2
  <2>7. OneCurrent(rows') /\ Covered(rows') /\ Entered(rows') /\ Keeps(rows, rows')
    BY <1>2, <2>5, <2>6 DEF OneCurrent, Covered, Entered, Keeps
  <2> QED
    BY <2>5, <2>7 DEF Table
<1>7. ASSUME clock < MaxTime,
             rows' = Append(rows, [scenario |-> s, type |-> "QUESTIONNAIRE",
                                   at |-> clock + 1,
                                   current |-> Current(rows, s) = {},
                                   pwin |-> "NONE", base |-> "NONE",
                                   blended |-> "NONE", rule |-> FALSE,
                                   answers |-> n])
      PROVE  Table(rows') /\ Keeps(rows, rows')
  <2> DEFINE first == Current(rows, s) = {}
             r == [scenario |-> s, type |-> "QUESTIONNAIRE", at |-> clock + 1,
                   current |-> first, pwin |-> "NONE", base |-> "NONE",
                   blended |-> "NONE", rule |-> FALSE, answers |-> n]
  <2>1. first \in BOOLEAN /\ clock + 1 \in Time
    BY <1>1, <1>7 DEF Time
  <2>2. first <=> Current(rows, s) = {}
    OBVIOUS
  <2>3. rows' = Append(rows, r)
    BY <1>7
  <2> HIDE DEF first
  <2>4. r \in Row
    BY <1>5, <2>1 DEF Row, Scenario
  <2>5. r.current = first /\ r.scenario = s /\ r.type # "BH_PTW"
    OBVIOUS
  <2> HIDE DEF r
  <2>6. /\ rows' \in Seq(Row) /\ DOMAIN rows' = DOMAIN rows \cup {Len(rows) + 1}
        /\ Len(rows) + 1 \notin DOMAIN rows /\ rows'[Len(rows) + 1] = r
        /\ \A i \in DOMAIN rows : rows'[i] = rows[i]
    BY <1>2, <2>3, <2>4, AppendIsSeq
  <2>7. OneCurrent(rows')
    <3>1. r.current => \A i \in DOMAIN rows : ~(rows[i].scenario = s /\ rows[i].current)
      BY <2>2, <2>5 DEF Current
    <3> QED
      BY <1>2, <2>5, <2>6, <3>1 DEF OneCurrent
  <2>8. Covered(rows')
    <3> SUFFICES ASSUME NEW i \in DOMAIN rows', rows'[i].scenario = "BASE"
                 PROVE  \E j \in DOMAIN rows' : rows'[j].scenario = "BASE" /\ rows'[j].current
      BY DEF Covered
    <3>1. CASE s = "BASE" /\ first
      BY <2>5, <2>6, <3>1
    <3>2. CASE \E j \in DOMAIN rows : rows[j].scenario = "BASE" /\ rows[j].current
      BY <2>6, <3>2
    <3>3. CASE s = "BASE" /\ ~first
      <4>1. \E j \in DOMAIN rows : rows[j].scenario = "BASE" /\ rows[j].current
        BY <2>2, <3>3 DEF Current
      <4> QED
        BY <3>2, <4>1
    <3>4. CASE s # "BASE"
      <4>1. i \in DOMAIN rows /\ rows[i].scenario = "BASE"
        BY <2>5, <2>6, <3>4
      <4> QED
        BY <1>2, <3>2, <4>1 DEF Covered
    <3> QED
      BY <2>1, <3>1, <3>3, <3>4
  <2>9. Entered(rows') /\ Keeps(rows, rows')
    BY <1>2, <2>5, <2>6 DEF Entered, Keeps
  <2> QED
    BY <2>6, <2>7, <2>8, <2>9 DEF Table
<1>8. Table(rows') /\ Keeps(rows, rows')
  BY <1>4, <1>6, <1>7
<1>9. clock' \in 0..MaxTime
  BY <1>1, <1>4
<1>10. dep' \in BOOLEAN
  BY DEF SaveAnswers, IInv, TypeOK
<1>11. UNCHANGED <<closed, stage, soleSource, complete, patches, recalcs>>
  BY DEF SaveAnswers
<1>12. TypeOK'
  BY <1>8, <1>9, <1>10, <1>11 DEF IInv, TypeOK, Table
<1> QED
  BY <1>8, <1>12 DEF Good, IInv

(* The row of a dependent pursuit is entered without a Pwin; as the        *)
(* current BASE row, with a base, it is the one the blend fills in.        *)
LEMMA SubmitBhPtwStep ==
  ASSUME IInv, NEW s \in Scenario, SubmitBhPtw(s) PROVE Good
<1> DEFINE pw == IF dep /\ s = "BASE" THEN "NONE" ELSE "ENTERED"
           r == [scenario |-> s, type |-> "BH_PTW",
                 at |-> clock + 1, current |-> TRUE, pwin |-> pw,
                 base |-> "ENTERED", blended |-> "NONE",
                 rule |-> FALSE, answers |-> 0]
           n == Len(rows) + 1
           new == Insert(rows, r)
<1>1. /\ clock \in 0..MaxTime /\ MaxTime \in Nat /\ MaxSaves \in Nat /\ clock < MaxTime
      /\ clock' = clock + 1
  BY BoundsAssumption DEF IInv, TypeOK, SubmitBhPtw
<1>2. rows' = IF dep THEN Blend(new) ELSE new
  BY DEF SubmitBhPtw
<1>3. clock + 1 \in Time /\ 0 \in Answers
  BY <1>1 DEF Time, Answers
<1>4. pw \in {"NONE", "ENTERED"} /\ (pw = "NONE" => dep /\ s = "BASE")
  OBVIOUS
<1> HIDE DEF pw
<1>5. r \in Row
  BY <1>3, <1>4 DEF Row, Scenario
<1>6. r.current /\ r.pwin = pw /\ r.base = "ENTERED" /\ r.scenario = s
  OBVIOUS
<1> HIDE DEF r
<1>7. rows \in Seq(Row) /\ OneCurrent(rows) /\ Covered(rows) /\ Entered(rows)
  BY DEF IInv, Table
<1>8. /\ new \in Seq(Row) /\ OneCurrent(new) /\ Covered(new) /\ Keeps(rows, new)
      /\ \A i \in DOMAIN rows : new[i].type = "BH_PTW" => new[i].pwin # "NONE" /\ new[i].base # "NONE"
  BY <1>5, <1>6, <1>7, InsertKeepsTable
<1>9. DOMAIN new = DOMAIN rows \cup {n} /\ new[n] = r
  BY <1>5, <1>7, InsertRows
<1> HIDE DEF new, n
<1>10. ASSUME dep PROVE Table(rows') /\ Keeps(rows, rows')
  <2>1. /\ Blend(new) \in Seq(Row) /\ OneCurrent(Blend(new)) /\ Covered(Blend(new))
        /\ Keeps(new, Blend(new)) /\ DOMAIN Blend(new) = DOMAIN new
        /\ \A i \in DOMAIN new :
              /\ Blend(new)[i].type = new[i].type /\ Blend(new)[i].base = new[i].base
              /\ new[i].pwin # "NONE" => Blend(new)[i].pwin # "NONE"
              /\ i \in Blendable(new) => Blend(new)[i].pwin # "NONE"
    BY <1>8, BlendKeepsTable
  <2>2. pw = "NONE" => n \in Blendable(new)
    BY <1>4, <1>6, <1>9 DEF Blendable, Current
  <2>3. Entered(Blend(new))
    BY <1>4, <1>6, <1>8, <1>9, <2>1, <2>2 DEF Entered
  <2>4. Keeps(rows, Blend(new))
    BY <1>8, <2>1, KeepsComposes
  <2>5. rows' = Blend(new)
    BY <1>2, <1>10
  <2> QED
    BY <2>1, <2>3, <2>4, <2>5 DEF Table
<1>11. ASSUME ~dep PROVE Table(rows') /\ Keeps(rows, rows')
  <2>1. pw # "NONE"
    BY <1>4, <1>11
  <2>2. Entered(new)
    BY <1>6, <1>8, <1>9, <2>1 DEF Entered
  <2>3. rows' = new
    BY <1>2, <1>11
  <2> QED
    BY <1>8, <2>2, <2>3 DEF Table
<1>12. Table(rows') /\ Keeps(rows, rows')
  <2>1. dep \in BOOLEAN
    BY DEF IInv, TypeOK
  <2> QED
    BY <1>10, <1>11, <2>1
<1>13. complete' \in BOOLEAN
  BY DEF SubmitBhPtw
<1>14. UNCHANGED <<closed, stage, soleSource, dep, patches, recalcs>>
  BY DEF SubmitBhPtw
<1>15. clock' \in 0..MaxTime
  BY <1>1
<1>16. TypeOK'
  BY <1>12, <1>13, <1>14, <1>15 DEF IInv, TypeOK, Table
<1> QED
  BY <1>12, <1>16 DEF Good, IInv

LEMMA RecalcStep ==
  ASSUME IInv,
         \/ \E s \in Scenario : BeginRecalc(s)
         \/ \E r \in recalcs : FinishRecalc(r) \/ FailRecalc(r)
  PROVE  Good
<1>1. clock \in 0..MaxTime /\ MaxTime \in Nat /\ Table(rows) /\ rows \in Seq(Row)
  BY BoundsAssumption DEF IInv, TypeOK
<1>2. ASSUME NEW s \in Scenario, BeginRecalc(s) PROVE Good
  <2>1. PICK i \in Latest(rows, s) :
          /\ rows[i].answers # 0
          /\ recalcs' = recalcs \cup
                 {[scenario |-> s, at |-> clock + 1,
                   answers |-> rows[i].answers, dep |-> dep]}
    BY <1>2 DEF BeginRecalc
  <2>2. rows[i] \in Row
    BY <1>1 DEF Latest, Questionnaires
  <2>3. rows[i].answers \in Answers \ {0}
    BY <2>1, <2>2, RowFields
  <2>4. clock + 1 \in Time /\ clock' \in 0..MaxTime
    BY <1>1, <1>2 DEF BeginRecalc, Time
  <2>5. dep \in BOOLEAN
    BY DEF IInv, TypeOK
  <2>6. recalcs' \subseteq Recalc
    BY <2>1, <2>3, <2>4, <2>5 DEF Recalc, IInv, TypeOK
  <2>7. UNCHANGED <<columns, rows, patches>>
    BY <1>2 DEF BeginRecalc
  <2>8. TypeOK'
    BY <2>4, <2>6, <2>7 DEF IInv, TypeOK, columns
  <2> QED
    BY <1>1, <2>7, <2>8, KeepsItself DEF Good, IInv
<1>3. ASSUME NEW r \in recalcs, FinishRecalc(r) PROVE Good
  <2>1. /\ r.scenario \in Scenario /\ r.at \in Time /\ r.answers \in Answers
        /\ r.dep \in BOOLEAN
    BY DEF IInv, TypeOK, Recalc
  <2>2. Table(rows') /\ Keeps(rows, rows')
    BY <1>1, <1>3, <2>1, RecalculatedKeepsTable DEF FinishRecalc
  <2>3. TypeOK'
    BY <1>3, <2>2 DEF FinishRecalc, IInv, TypeOK, columns, Table
  <2> QED
    BY <2>2, <2>3 DEF Good, IInv
<1>4. ASSUME NEW r \in recalcs, FailRecalc(r) PROVE Good
  <2>1. TypeOK' /\ rows' = rows
    BY <1>4 DEF FailRecalc, IInv, TypeOK, columns
  <2> QED
    BY <1>1, <2>1, KeepsItself DEF Good, IInv
<1> QED
  BY <1>2, <1>3, <1>4

LEMMA OutcomeStep ==
  ASSUME IInv, CloseOrReopen \/ PredecessorCancelled \/ Restart PROVE Good
<1>1. Table(rows)
  BY DEF IInv
<1>2. CASE CloseOrReopen
  <2>1. TypeOK' /\ rows' = rows
    BY <1>2 DEF CloseOrReopen, IInv, TypeOK
  <2> QED
    BY <1>1, <2>1, KeepsItself DEF Good, IInv
<1>3. CASE PredecessorCancelled
  <2>1. Table(rows') /\ Keeps(rows, rows')
    BY <1>1, <1>3, UnblendedKeepsTable DEF PredecessorCancelled
  <2>2. TypeOK'
    BY <1>3, <2>1 DEF PredecessorCancelled, IInv, TypeOK, Table
  <2> QED
    BY <2>1, <2>2 DEF Good, IInv
<1>4. CASE Restart
  <2>1. TypeOK' /\ rows' = rows
    BY <1>4 DEF Restart, IInv, TypeOK, columns
  <2> QED
    BY <1>1, <2>1, KeepsItself DEF Good, IInv
<1> QED
  BY <1>2, <1>3, <1>4

-----------------------------------------------------------------------------
LEMMA InitIInv == Init => IInv
<1> SUFFICES ASSUME Init PROVE IInv
  OBVIOUS
<1>1. rows \in Seq(Row) /\ DOMAIN rows = {}
  BY DEF Init
<1>2. Table(rows)
  BY <1>1 DEF Table, OneCurrent, Covered, Entered
<1>3. clock \in 0..MaxTime
  BY BoundsAssumption DEF Init
<1>4. TypeOK
  BY <1>1, <1>3 DEF Init, TypeOK, Stage
<1> QED
  BY <1>2, <1>4 DEF IInv

LEMMA NextIInv == IInv /\ [Next]_vars => Good
<1> SUFFICES ASSUME IInv, [Next]_vars PROVE Good
  OBVIOUS
<1>1. CASE \E switch \in {"KEEP", "ON", "OFF"}, st \in Stage, d \in BOOLEAN :
              PatchPursuit(switch, st, d)
  BY <1>1, PatchPursuitStep
<1>2. CASE \E s \in Scenario : SaveAnswers(s)
  BY <1>2, SaveAnswersStep
<1>3. CASE \E s \in Scenario : SubmitBhPtw(s)
  BY <1>3, SubmitBhPtwStep
<1>4. CASE \/ \E s \in Scenario : BeginRecalc(s)
           \/ \E r \in recalcs : FinishRecalc(r) \/ FailRecalc(r)
  BY <1>4, RecalcStep
<1>5. CASE CloseOrReopen \/ PredecessorCancelled \/ Restart
  BY <1>5, OutcomeStep
<1>6. CASE \E t \in patches : EngineAnswersPatch(t) \/ EngineFailsPatch(t)
  BY <1>6, EngineStep
<1>7. CASE UNCHANGED vars
  <2>1. TypeOK' /\ rows' = rows
    BY <1>7 DEF vars, IInv, TypeOK
  <2> QED
    BY <2>1, KeepsItself DEF Good, IInv
<1> QED
  BY <1>1, <1>2, <1>3, <1>4, <1>5, <1>6, <1>7 DEF Next, Request, Resume

LEMMA Invariance == Spec => []IInv
<1>1. IInv /\ [Next]_vars => IInv'
  BY NextIInv DEF Good
<1> QED
  BY InitIInv, <1>1, PTL DEF Spec

(***************************************************************************)
(* Every row any handler writes, and every transaction that waits for the  *)
(* engine, is of the kinds the schema allows.                              *)
(***************************************************************************)
THEOREM TypeCorrect == Spec => []TypeOK
<1>1. IInv => TypeOK
  BY DEF IInv
<1> QED
  BY Invariance, <1>1, PTL

(***************************************************************************)
(* The unique index uq_pwin_current is never what stops a handler: however *)
(* saves, recalculations and PATCHes overlap, one assessment per scenario  *)
(* is current.                                                             *)
(***************************************************************************)
THEOREM CurrentIsUnique == Spec => []OneCurrentPerScenario
<1>1. IInv => OneCurrentPerScenario
  <2> SUFFICES ASSUME IInv, NEW s \in Scenario PROVE Cardinality(Current(rows, s)) <= 1
    BY DEF OneCurrentPerScenario
  <2>1. CASE Current(rows, s) = {}
    BY <2>1, FS_EmptySet
  <2>2. CASE Current(rows, s) # {}
    <3>1. PICK i \in Current(rows, s) : TRUE
      BY <2>2
    <3>2. Current(rows, s) = {i}
      BY <3>1 DEF Current, IInv, Table, OneCurrent
    <3>3. Cardinality({i}) = 1
      BY FS_Singleton
    <3> QED
      BY <3>2, <3>3
  <2> QED
    BY <2>1, <2>2
<1> QED
  BY Invariance, <1>1, PTL

(***************************************************************************)
(* Every demotion of a BASE row comes with its replacement: a pursuit that *)
(* was ever assessed has a current assessment.                             *)
(***************************************************************************)
THEOREM BaseIsCovered == Spec => []BaseStaysCovered
<1>1. IInv => BaseStaysCovered
  BY DEF IInv, Table, Covered, BaseStaysCovered, Current
<1> QED
  BY Invariance, <1>1, PTL

(***************************************************************************)
(* The blend never leaves the Black Hat or PTW row it follows without a    *)
(* Pwin.                                                                   *)
(***************************************************************************)
THEOREM EnteredPwinIsShown == Spec => []EnteredRowsHavePwin
<1>1. IInv => EnteredRowsHavePwin
  BY DEF IInv, Table, Entered, EnteredRowsHavePwin
<1> QED
  BY Invariance, <1>1, PTL

(***************************************************************************)
(* No handler writes the Pwin of a row that is no longer current, nor      *)
(* makes it current again.                                                 *)
(***************************************************************************)
THEOREM HistoryIsKept == Spec => DemotedRowsAreHistory
<1>1. IInv /\ [Next]_vars =>
        [\A i \in DOMAIN rows : ~rows[i].current =>
            /\ ~rows'[i].current
            /\ rows'[i].pwin = rows[i].pwin
            /\ rows'[i].base = rows[i].base
            /\ rows'[i].blended = rows[i].blended]_vars
  BY NextIInv DEF Good, Keeps
<1> QED
  BY Invariance, <1>1, PTL DEF Spec, DemotedRowsAreHistory

-----------------------------------------------------------------------------
(* One transaction at a time: none is open on a closed pursuit.            *)
OpenPursuitsOnly == closed => Quiet

LEMMA CloseStep == CloseOrReopen => closed' = ~closed /\ UNCHANGED <<patches, recalcs, rows>>
BY DEF CloseOrReopen

LEMMA PatchLeavesClosed ==
  ASSUME NEW t,
         \/ LeaveSoleSource(t) \/ Revert(t) \/ RevertDependentWon(t) \/ Commit(t)
  PROVE  closed' = closed
<1>1. Commit(t) => closed' = closed
  BY DEF Commit
<1>2. \A call, s : Await(t, call, s) => closed' = closed
  BY DEF Await, columns
<1>3. RevertDependentWon(t) => closed' = closed
  BY <1>1, <1>2 DEF RevertDependentWon
<1>4. Revert(t) => closed' = closed
  BY <1>1, <1>2, <1>3 DEF Revert
<1>5. LeaveSoleSource(t) => closed' = closed
  BY <1>2, <1>4 DEF LeaveSoleSource
<1> QED
  BY <1>1, <1>3, <1>4, <1>5

LEMMA ResumeLeavesClosed == Resume => closed' = closed /\ ~Quiet
<1> SUFFICES ASSUME Resume PROVE closed' = closed /\ ~Quiet
  OBVIOUS
<1>1. ASSUME NEW t \in patches, EngineAnswersPatch(t) \/ EngineFailsPatch(t)
      PROVE  closed' = closed
  BY <1>1, PatchLeavesClosed DEF EngineAnswersPatch, EngineFailsPatch
<1>2. ASSUME NEW r \in recalcs, FinishRecalc(r) \/ FailRecalc(r)
      PROVE  closed' = closed
  BY <1>2 DEF FinishRecalc, FailRecalc, columns
<1>3. Restart => closed' = closed /\ ~Quiet
  BY DEF Restart, columns, Quiet
<1>4. ASSUME patches # {} \/ recalcs # {} PROVE ~Quiet
  BY <1>4 DEF Quiet
<1> QED
  BY <1>1, <1>2, <1>3, <1>4 DEF Resume

LEMMA RequestOnClosed ==
  Request => \/ closed' = closed /\ ~closed
             \/ CloseOrReopen
             \/ PredecessorCancelled
<1> SUFFICES ASSUME Request PROVE \/ closed' = closed /\ ~closed
                                  \/ CloseOrReopen
                                  \/ PredecessorCancelled
  OBVIOUS
<1>1. ASSUME NEW switch, NEW st, NEW d, PatchPursuit(switch, st, d)
      PROVE  closed' = closed /\ ~closed
  BY <1>1, PatchLeavesClosed DEF PatchPursuit, Editable
<1>2. ASSUME NEW s, SaveAnswers(s) \/ SubmitBhPtw(s) \/ BeginRecalc(s)
      PROVE  closed' = closed /\ ~closed
  BY <1>2 DEF SaveAnswers, SubmitBhPtw, BeginRecalc, Editable, columns
<1> QED
  BY <1>1, <1>2 DEF Request

(***************************************************************************)
(* With one transaction at a time, the assessments of a closed pursuit     *)
(* change only when the cancellation of its predecessor clears them.       *)
(***************************************************************************)
THEOREM ClosedPursuitsKeepTheirPwin == SerialSpec => ClosedPwinIsHistory
<1>1. Init => OpenPursuitsOnly
  BY DEF Init, OpenPursuitsOnly
<1>2. OpenPursuitsOnly /\ [SerialNext]_vars => OpenPursuitsOnly'
  <2> SUFFICES ASSUME OpenPursuitsOnly, [SerialNext]_vars PROVE OpenPursuitsOnly'
    OBVIOUS
  <2>1. CASE Quiet /\ Request
    <3>1. CASE CloseOrReopen
      BY <2>1, <3>1, CloseStep DEF OpenPursuitsOnly, Quiet
    <3>2. CASE PredecessorCancelled
      BY <2>1, <3>2 DEF PredecessorCancelled, OpenPursuitsOnly, Quiet
    <3> QED
      BY <2>1, <3>1, <3>2, RequestOnClosed DEF OpenPursuitsOnly
  <2>2. CASE Resume
    BY <2>2, ResumeLeavesClosed DEF OpenPursuitsOnly
  <2>3. CASE UNCHANGED vars
    BY <2>3 DEF vars, OpenPursuitsOnly, Quiet
  <2> QED
    BY <2>1, <2>2, <2>3 DEF SerialNext
<1>3. OpenPursuitsOnly /\ [SerialNext]_vars
        => [closed /\ closed' => rows' = rows \/ (dep /\ ~dep')]_vars
  <2> SUFFICES ASSUME OpenPursuitsOnly, SerialNext, closed, closed'
               PROVE  rows' = rows \/ (dep /\ ~dep')
    OBVIOUS
  <2>1. ~Resume
    BY ResumeLeavesClosed DEF OpenPursuitsOnly
  <2>2. ~CloseOrReopen
    BY CloseStep
  <2>3. PredecessorCancelled
    BY <2>1, <2>2, RequestOnClosed DEF SerialNext
  <2> QED
    BY <2>3 DEF PredecessorCancelled
<1> QED
  BY <1>1, <1>2, <1>3, PTL DEF SerialSpec, ClosedPwinIsHistory

-----------------------------------------------------------------------------
(* One transaction at a time: rows are dated in the order they are         *)
(* committed.  c is the latest start time.                                 *)
Dated(rs, c) ==
    \A i \in DOMAIN rs :
        /\ rs[i].at <= c
        /\ rs[i].current /\ rs[i].type = "QUESTIONNAIRE" =>
              \A j \in Questionnaires(rs, rs[i].scenario) : rs[j].at <= rs[i].at

LEMMA DatedLater ==
  ASSUME NEW rs \in Seq(Row), NEW c \in Nat, NEW d \in Nat, c <= d, Dated(rs, c)
  PROVE  Dated(rs, d)
<1>1. \A i \in DOMAIN rs : rs[i].at \in Nat
  BY RowFields DEF Time
<1> QED
  BY <1>1 DEF Dated

LEMMA SameDates ==
  ASSUME NEW rs, NEW new, NEW c, Dated(rs, c), DOMAIN new = DOMAIN rs,
         \A i \in DOMAIN rs :
            /\ new[i].at = rs[i].at /\ new[i].type = rs[i].type
            /\ new[i].scenario = rs[i].scenario
            /\ new[i].current => rs[i].current
  PROVE  Dated(new, c)
BY DEF Dated, Questionnaires

LEMMA InsertDates ==
  ASSUME NEW rs \in Seq(Row), NEW c \in Nat, Dated(rs, c), NEW r \in Row, c <= r.at
  PROVE  Dated(Insert(rs, r), r.at)
<1> DEFINE new == Insert(rs, r)
           n == Len(rs) + 1
           out(q) == [q EXCEPT !.current = FALSE]
<1>1. /\ DOMAIN new = DOMAIN rs \cup {n} /\ n \notin DOMAIN rs /\ new[n] = r
      /\ \A i \in DOMAIN rs : new[i] =
             IF rs[i].scenario = r.scenario THEN out(rs[i]) ELSE rs[i]
  BY InsertRows
<1>2. \A q \in Row :
         /\ out(q).scenario = q.scenario /\ out(q).type = q.type
         /\ out(q).at = q.at /\ ~out(q).current
  BY DEF Row
<1> HIDE DEF new, n, out
<1>3. \A i \in DOMAIN rs : rs[i] \in Row /\ rs[i].at \in Nat
  BY RowFields DEF Time
<1>4. \A i \in DOMAIN rs :
         /\ new[i].at = rs[i].at /\ new[i].type = rs[i].type
         /\ new[i].scenario = rs[i].scenario
         /\ new[i].current => rs[i].current /\ rs[i].scenario # r.scenario
  BY <1>1, <1>2, <1>3
<1>5. r.at \in Nat
  BY RowFields DEF Time
<1>6. \A i \in DOMAIN new : new[i].at <= r.at
  BY <1>1, <1>3, <1>4, <1>5 DEF Dated
<1>7. ASSUME NEW i \in DOMAIN new, new[i].current, new[i].type = "QUESTIONNAIRE",
             NEW j \in Questionnaires(new, new[i].scenario)
      PROVE  new[j].at <= new[i].at
  <2>1. j \in DOMAIN new /\ new[j].scenario = new[i].scenario /\ new[j].type = "QUESTIONNAIRE"
    BY DEF Questionnaires
  <2>2. CASE i = n
    BY <1>1, <1>6, <2>1, <2>2
  <2>3. CASE i # n
    <3>1. i \in DOMAIN rs /\ rs[i].current /\ rs[i].scenario # r.scenario
      BY <1>1, <1>4, <1>7, <2>3
    <3>2. j \in DOMAIN rs
      BY <1>1, <1>4, <2>1, <3>1
    <3>3. j \in Questionnaires(rs, rs[i].scenario)
      BY <1>4, <2>1, <3>1, <3>2 DEF Questionnaires
    <3> QED
      BY <1>4, <1>7, <3>1, <3>2, <3>3 DEF Dated
  <2> QED
    BY <2>2, <2>3
<1> QED
  BY <1>6, <1>7 DEF Dated, new

LEMMA BlendDates ==
  ASSUME NEW rs \in Seq(Row), NEW c, Dated(rs, c) PROVE Dated(Blend(rs), c)
<1> DEFINE new == Blend(rs)
           blended(r) == [r EXCEPT !.pwin = "BLEND", !.blended = "BLEND"]
<1>1. /\ DOMAIN new = DOMAIN rs
      /\ \A i \in DOMAIN rs : new[i] = IF i \in Blendable(rs) THEN blended(rs[i]) ELSE rs[i]
  BY DEF Blend
<1>2. \A r \in Row :
         /\ blended(r).at = r.at /\ blended(r).type = r.type
         /\ blended(r).scenario = r.scenario /\ blended(r).current = r.current
  BY DEF Row
<1>3. \A i \in DOMAIN rs : rs[i] \in Row
  OBVIOUS
<1> HIDE DEF new, blended
<1>4. \A i \in DOMAIN rs :
         /\ new[i].at = rs[i].at /\ new[i].type = rs[i].type
         /\ new[i].scenario = rs[i].scenario
         /\ new[i].current => rs[i].current
  BY <1>1, <1>2, <1>3
<1> QED
  BY <1>1, <1>4, SameDates DEF new

LEMMA RecalculatedDates ==
  ASSUME NEW rs, Table(rs), NEW c \in Nat, Dated(rs, c), NEW s \in Scenario,
         NEW at \in Time, c <= at, NEW answers \in Answers, NEW d \in BOOLEAN
  PROVE  Dated(Recalculated(rs, s, at, answers, d), at)
<1> DEFINE r == [scenario |-> s, type |-> "QUESTIONNAIRE",
                 at |-> at, current |-> TRUE, pwin |-> "ENGINE",
                 base |-> "ENGINE", blended |-> "NONE",
                 rule |-> FALSE, answers |-> answers]
           new == Insert(rs, r)
<1>1. r \in Row /\ r.at = at
  BY DEF Row, Scenario
<1> HIDE DEF r
<1>2. new \in Seq(Row) /\ Dated(new, at)
  BY <1>1, InsertRows, InsertDates DEF Table
<1> HIDE DEF new
<1>3. Recalculated(rs, s, at, answers, d) = IF d THEN Blend(new) ELSE new
  BY DEF Recalculated, new, r
<1> QED
  BY <1>2, <1>3, BlendDates

LEMMA UnblendedDates ==
  ASSUME NEW rs, Table(rs), NEW c, Dated(rs, c) PROVE Dated(Unblended(rs), c)
<1> DEFINE new == Unblended(rs)
           alone(r) == [r EXCEPT !.pwin = r.base, !.blended = "NONE"]
           out(r)   == [r EXCEPT !.current = FALSE]
<1>1. rs \in Seq(Row) /\ \A i \in DOMAIN rs : rs[i] \in Row
  BY DEF Table
<1>2. \A i \in DOMAIN rs : Demote(rs, "DEPENDENT_WON")[i] =
         IF rs[i].scenario = "DEPENDENT_WON" THEN out(rs[i]) ELSE rs[i]
  BY <1>1, DemoteRows
<1>3. /\ DOMAIN new = DOMAIN rs
      /\ \A i \in DOMAIN rs : new[i] =
            IF i \in Current(rs, "BASE") THEN alone(rs[i]) ELSE Demote(rs, "DEPENDENT_WON")[i]
  BY DEF Unblended
<1>4. \A r \in Row :
        /\ alone(r).at = r.at /\ alone(r).type = r.type
        /\ alone(r).scenario = r.scenario /\ alone(r).current = r.current
  BY DEF Row
<1>5. \A r \in Row :
        /\ out(r).at = r.at /\ out(r).type = r.type
        /\ out(r).scenario = r.scenario /\ ~out(r).current
  BY DEF Row
<1> HIDE DEF new, alone, out
<1>6. \A i \in DOMAIN rs :
         /\ new[i].at = rs[i].at /\ new[i].type = rs[i].type
         /\ new[i].scenario = rs[i].scenario
         /\ new[i].current => rs[i].current
  BY <1>1, <1>2, <1>3, <1>4, <1>5
<1> QED
  BY <1>3, <1>6, SameDates DEF new

LEMMA SoleRuledDates ==
  ASSUME NEW rs, Table(rs), NEW c \in Nat, Dated(rs, c), NEW at \in Time, c <= at
  PROVE  Dated(SoleRuled(rs, at), at)
<1> DEFINE new == SoleRuled(rs, at)
           ruled(r) == [r EXCEPT !.pwin = "RULE", !.blended = "RULE", !.rule = TRUE, !.at = at]
           first == [scenario |-> "BASE", type |-> "QUESTIONNAIRE",
                     at |-> at, current |-> TRUE, pwin |-> "RULE",
                     base |-> "NONE", blended |-> "RULE", rule |-> TRUE, answers |-> 0]
           n == Len(rs) + 1
<1>1. rs \in Seq(Row) /\ \A i \in DOMAIN rs : rs[i] \in Row /\ rs[i].at \in Nat
  BY RowFields DEF Table, Time
<1>2. at \in Nat
  BY DEF Time
<1>3. CASE Current(rs, "BASE") = {}
  <2>1. new = Append(rs, first)
    BY <1>3 DEF SoleRuled
  <2>2. first \in Row /\ first.scenario = "BASE" /\ first.at = at
    BY BoundsAssumption DEF Row, Answers
  <2> HIDE DEF first, new
  <2>3. /\ DOMAIN new = DOMAIN rs \cup {n} /\ n \notin DOMAIN rs /\ new[n] = first
        /\ \A i \in DOMAIN rs : new[i] = rs[i]
    BY <1>1, <2>1, <2>2, AppendIsSeq
  <2> HIDE DEF n
  <2>4. \A i \in DOMAIN rs : ~(rs[i].scenario = "BASE" /\ rs[i].current)
    BY <1>3 DEF Current
  <2>5. \A i \in DOMAIN new : new[i].at <= at
    BY <1>1, <1>2, <2>2, <2>3 DEF Dated
  <2>6. ASSUME NEW i \in DOMAIN new, new[i].current, new[i].type = "QUESTIONNAIRE",
               NEW j \in Questionnaires(new, new[i].scenario)
        PROVE  new[j].at <= new[i].at
    <3>1. j \in DOMAIN new /\ new[j].scenario = new[i].scenario /\ new[j].type = "QUESTIONNAIRE"
      BY DEF Questionnaires
    <3>2. CASE i = n
      BY <2>2, <2>3, <2>5, <3>1, <3>2
    <3>3. CASE i # n
      <4>1. i \in DOMAIN rs /\ rs[i].current /\ rs[i].scenario # "BASE" /\ new[i] = rs[i]
        BY <2>3, <2>4, <2>6, <3>3
      <4>2. j \in DOMAIN rs /\ new[j] = rs[j]
        BY <2>2, <2>3, <3>1, <4>1
      <4>3. j \in Questionnaires(rs, rs[i].scenario)
        BY <3>1, <4>1, <4>2 DEF Questionnaires
      <4> QED
        BY <2>6, <4>1, <4>2, <4>3 DEF Dated
    <3> QED
      BY <3>2, <3>3
  <2> QED
    BY <2>5, <2>6 DEF Dated, new
<1>4. CASE Current(rs, "BASE") # {}
  <2>1. /\ DOMAIN new = DOMAIN rs
        /\ \A i \in DOMAIN rs : new[i] = IF i \in Current(rs, "BASE") THEN ruled(rs[i]) ELSE rs[i]
    BY <1>4 DEF SoleRuled
  <2>2. \A r \in Row :
          /\ ruled(r).scenario = r.scenario /\ ruled(r).type = r.type
          /\ ruled(r).current = r.current /\ ruled(r).at = at
    BY DEF Row
  <2> HIDE DEF new, ruled
  <2>3. \A i \in DOMAIN rs :
          /\ new[i].scenario = rs[i].scenario /\ new[i].type = rs[i].type
          /\ new[i].current = rs[i].current
          /\ new[i].at = IF rs[i].scenario = "BASE" /\ rs[i].current THEN at ELSE rs[i].at
    BY <1>1, <2>1, <2>2 DEF Current
  <2>4. \A i \in DOMAIN new : new[i].at <= at
    BY <1>1, <1>2, <2>1, <2>3 DEF Dated
  <2>5. ASSUME NEW i \in DOMAIN new, new[i].current, new[i].type = "QUESTIONNAIRE",
               NEW j \in Questionnaires(new, new[i].scenario)
        PROVE  new[j].at <= new[i].at
    <3>1. j \in DOMAIN rs /\ rs[j].scenario = rs[i].scenario /\ rs[j].type = "QUESTIONNAIRE"
      BY <2>1, <2>3 DEF Questionnaires
    <3>2. CASE rs[i].scenario = "BASE"
      BY <2>1, <2>3, <2>4, <2>5, <3>1, <3>2
    <3>3. CASE rs[i].scenario # "BASE"
      <4>1. rs[j].at <= rs[i].at
        BY <2>1, <2>3, <2>5, <3>1 DEF Dated, Questionnaires
      <4> QED
        BY <2>1, <2>3, <3>1, <3>3, <4>1
    <3> QED
      BY <3>2, <3>3
  <2> QED
    BY <2>4, <2>5 DEF Dated, new
<1> QED
  BY <1>3, <1>4

LEMMA WrittenDates ==
  ASSUME IInv, Dated(rows, clock), NEW t \in Began, t.at \in Time, clock <= t.at
  PROVE  Dated(Written(t), t.at)
<1> DEFINE ruled == IF t.sole = "ON" THEN SoleRuled(rows, t.at) ELSE rows
           based == IF t.base = 0 THEN ruled
                    ELSE Recalculated(ruled, "BASE", t.at, t.base, t.dep)
<1>0. /\ t.base \in Answers /\ t.dependentWon \in Answers /\ t.dep \in BOOLEAN
      /\ "BASE" \in Scenario /\ "DEPENDENT_WON" \in Scenario
      /\ clock \in Nat /\ t.at \in Nat /\ Table(rows) /\ rows \in Seq(Row)
  BY DEF Began, Scenario, Time, IInv, TypeOK
<1>1. Table(ruled) /\ Dated(ruled, t.at)
  BY <1>0, SoleRuledKeepsTable, SoleRuledDates, DatedLater
<1> HIDE DEF ruled
<1>2. Table(based) /\ Dated(based, t.at)
  BY <1>0, <1>1, RecalculatedKeepsTable, RecalculatedDates
<1> HIDE DEF based
<1>3. Written(t) = IF t.dependentWon = 0 THEN based
                   ELSE Recalculated(based, "DEPENDENT_WON", t.at, t.dependentWon, t.dep)
  BY DEF Written, based, ruled
<1> QED
  BY <1>0, <1>2, <1>3, RecalculatedDates

(* What waits was started at the clock, and what starts does so past it.   *)
Waiting == /\ \A t \in patches : t.at = clock
           /\ \A r \in recalcs : r.at = clock
SInv == IInv /\ Dated(rows, clock) /\ Waiting
Timely(t) == t.at = clock \/ (clock < t.at /\ recalcs = {})

LEMMA CommitDates ==
  ASSUME SInv, NEW t \in Began, Timely(t), Commit(t) PROVE SInv'
<1>1. /\ clock \in 0..MaxTime /\ MaxTime \in Nat /\ t.at \in 1..(MaxTime + 1)
      /\ clock <= t.at
  BY BoundsAssumption DEF SInv, IInv, TypeOK, Began, Timely
<1>2. IInv'
  BY CommitStep DEF Good, SInv
<1>3. Dated(rows', clock')
  <2>1. CASE rows' = rows
    <3>1. clock' = clock
      BY <2>1 DEF Commit
    <3> QED
      BY <2>1, <3>1 DEF SInv
  <2>2. CASE rows' # rows
    <3>1. clock' = t.at /\ t.at \in Time
      BY <1>1, <2>2 DEF Commit, Time
    <3>2. Dated(Written(t), t.at)
      BY <1>1, <3>1, WrittenDates DEF SInv
    <3> QED
      BY <3>1, <3>2 DEF Commit
  <2> QED
    BY <2>1, <2>2
<1>4. Waiting'
  <2>1. patches' = {} /\ recalcs' = recalcs
    BY DEF Commit
  <2>2. recalcs = {} \/ clock' = clock
    BY <1>1 DEF Commit, Timely
  <2> QED
    BY <2>1, <2>2 DEF Waiting, SInv
<1> QED
  BY <1>2, <1>3, <1>4 DEF SInv

LEMMA AwaitDates ==
  ASSUME SInv, NEW t \in Began, Timely(t), NEW call \in {"SOLE", "BASE", "DEPENDENT_WON"},
         NEW s \in Scenario, Await(t, call, s)
  PROVE  SInv'
<1>1. /\ clock \in 0..MaxTime /\ MaxTime \in Nat /\ t.at \in 1..(MaxTime + 1)
      /\ clock <= t.at
  BY BoundsAssumption DEF SInv, IInv, TypeOK, Began, Timely
<1>2. IInv'
  BY AwaitStep DEF Good, SInv
<1>3. clock' = t.at /\ clock \in Nat /\ t.at \in Nat
  BY <1>1 DEF Await
<1>4. rows' = rows /\ recalcs' = recalcs
  BY DEF Await
<1>5. Dated(rows', clock')
  BY <1>1, <1>3, <1>4, DatedLater DEF SInv, IInv, TypeOK
<1>6. \A u \in patches' : u.at = clock'
  <2>1. PICK a \in Readable(t, s) \ {0} : patches' = {[t EXCEPT !.call = call, !.answers = a]}
    BY DEF Await
  <2>2. [t EXCEPT !.call = call, !.answers = a].at = t.at
    BY DEF Began
  <2> QED
    BY <1>3, <2>1, <2>2
<1>7. \A r \in recalcs' : r.at = clock'
  BY <1>3, <1>4 DEF Timely, SInv, Waiting
<1> QED
  BY <1>2, <1>5, <1>6, <1>7 DEF SInv, Waiting

LEMMA RevertDependentWonDates ==
  ASSUME SInv, NEW t \in Began, Timely(t), RevertDependentWon(t) PROVE SInv'
<1>1. CASE Await(t, "DEPENDENT_WON", "DEPENDENT_WON")
  BY <1>1, AwaitDates DEF Scenario
<1>2. CASE Commit(t)
  BY <1>2, CommitDates
<1> QED
  BY <1>1, <1>2 DEF RevertDependentWon

LEMMA RevertDates ==
  ASSUME SInv, NEW t \in Began, Timely(t), Revert(t) PROVE SInv'
<1>1. CASE Await(t, "BASE", "BASE")
  BY <1>1, AwaitDates DEF Scenario
<1>2. CASE RevertDependentWon(t)
  BY <1>2, RevertDependentWonDates
<1>3. CASE Commit(t)
  BY <1>3, CommitDates
<1> QED
  BY <1>1, <1>2, <1>3 DEF Revert

LEMMA PatchPursuitDates ==
  ASSUME SInv, Quiet, NEW switch \in {"KEEP", "ON", "OFF"}, NEW st \in Stage,
         NEW d \in BOOLEAN, PatchPursuit(switch, st, d)
  PROVE  SInv'
<1>1. PICK t \in Began : t.at = clock + 1 /\ LeaveSoleSource(t)
  BY PatchBegan DEF SInv
<1>2. Timely(t)
  BY <1>1 DEF Timely, Quiet, SInv, IInv, TypeOK
<1>3. CASE Await(t, "SOLE", "BASE")
  BY <1>2, <1>3, AwaitDates DEF Scenario
<1>4. CASE Revert(t)
  BY <1>2, <1>4, RevertDates
<1> QED
  BY <1>1, <1>3, <1>4 DEF LeaveSoleSource

LEMMA EngineDates ==
  ASSUME SInv, NEW t \in patches, EngineAnswersPatch(t) \/ EngineFailsPatch(t)
  PROVE  SInv'
<1> DEFINE u == [t EXCEPT !.base = t.answers]
           v == [t EXCEPT !.dependentWon = t.answers]
<1>1. t \in Began /\ t.answers \in Answers
  BY BoundsAssumption DEF Patch, Began, Answers, Time, SInv, IInv, TypeOK
<1>2. u \in Began /\ v \in Began
  BY <1>1 DEF Began
<1>3. t.at = clock /\ u.at = clock /\ v.at = clock
  BY <1>1 DEF SInv, Waiting, Began
<1>4. Timely(t) /\ Timely(u) /\ Timely(v)
  BY <1>3 DEF Timely
<1> HIDE DEF u, v
<1>5. \/ Commit(u) \/ RevertDependentWon(u) \/ Commit(v)
      \/ Revert(t) \/ RevertDependentWon(t) \/ Commit(t)
  BY DEF EngineAnswersPatch, EngineFailsPatch, u, v
<1> QED
  BY <1>1, <1>2, <1>4, <1>5, CommitDates, RevertDependentWonDates, RevertDates

LEMMA SaveAnswersDates ==
  ASSUME SInv, Quiet, NEW s \in Scenario, SaveAnswers(s) PROVE SInv'
<1>1. /\ clock \in 0..MaxTime /\ MaxTime \in Nat /\ MaxSaves \in Nat
      /\ rows \in Seq(Row) /\ Dated(rows, clock)
  BY BoundsAssumption DEF SInv, IInv, TypeOK
<1>2. IInv'
  BY SaveAnswersStep DEF Good, SInv
<1>3. Waiting'
  BY DEF SaveAnswers, Quiet, Waiting
<1>4. ASSUME NEW n, NEW i \in Latest(rows, s),
             rows' = [rows EXCEPT ![i].answers = n], clock' = clock
      PROVE  Dated(rows', clock')
  <2> DEFINE saved(r) == [r EXCEPT !.answers = n]
  <2>1. /\ DOMAIN rows' = DOMAIN rows
        /\ \A j \in DOMAIN rows : rows'[j] = IF j = i THEN saved(rows[j]) ELSE rows[j]
    BY <1>4
  <2>2. \A r \in Row :
          /\ saved(r).at = r.at /\ saved(r).type = r.type
          /\ saved(r).scenario = r.scenario /\ saved(r).current = r.current
    BY DEF Row
  <2>3. \A j \in DOMAIN rows : rows[j] \in Row
    BY <1>1
  <2> HIDE DEF saved
  <2>4. \A j \in DOMAIN rows :
          /\ rows'[j].at = rows[j].at /\ rows'[j].type = rows[j].type
          /\ rows'[j].scenario = rows[j].scenario
          /\ rows'[j].current => rows[j].current
    BY <2>1, <2>2, <2>3
  <2> QED
    BY <1>1, <1>4, <2>1, <2>4, SameDates
<1>5. ASSUME NEW n \in NextSave(s), Questionnaires(rows, s) = {}, clock < MaxTime,
             rows' = Append(rows, [scenario |-> s, type |-> "QUESTIONNAIRE",
                                   at |-> clock + 1,
                                   current |-> Current(rows, s) = {},
                                   pwin |-> "NONE", base |-> "NONE",
                                   blended |-> "NONE", rule |-> FALSE,
                                   answers |-> n]),
             clock' = clock + 1
      PROVE  Dated(rows', clock')
  <2> DEFINE first == Current(rows, s) = {}
             r == [scenario |-> s, type |-> "QUESTIONNAIRE", at |-> clock + 1,
                   current |-> first, pwin |-> "NONE", base |-> "NONE",
                   blended |-> "NONE", rule |-> FALSE, answers |-> n]
             k == Len(rows) + 1
  <2>1. first \in BOOLEAN /\ clock + 1 \in Time /\ n \in Answers
    BY <1>1, <1>5 DEF Time, NextSave, Answers
  <2>2. rows' = Append(rows, r)
    BY <1>5
  <2> HIDE DEF first
  <2>3. r \in Row /\ r.scenario = s /\ r.at = clock + 1
    BY <2>1 DEF Row, Scenario
  <2> HIDE DEF r
  <2>4. /\ DOMAIN rows' = DOMAIN rows \cup {k} /\ k \notin DOMAIN rows /\ rows'[k] = r
        /\ \A i \in DOMAIN rows : rows'[i] = rows[i]
    BY <1>1, <2>2, <2>3, AppendIsSeq
  <2> HIDE DEF k
  <2>5. \A i \in DOMAIN rows : rows[i].at \in Nat
    BY <1>1, RowFields DEF Time
  <2>6. \A i \in DOMAIN rows' : rows'[i].at <= clock'
    BY <1>1, <1>5, <2>3, <2>4, <2>5 DEF Dated
  <2>7. ASSUME NEW i \in DOMAIN rows', rows'[i].current, rows'[i].type = "QUESTIONNAIRE",
               NEW j \in Questionnaires(rows', rows'[i].scenario)
        PROVE  rows'[j].at <= rows'[i].at
    <3>1. j \in DOMAIN rows' /\ rows'[j].scenario = rows'[i].scenario
          /\ rows'[j].type = "QUESTIONNAIRE"
      BY DEF Questionnaires
    <3>2. CASE i = k
      BY <1>5, <2>3, <2>4, <2>6, <3>1, <3>2
    <3>3. CASE i # k
      <4>1. i \in DOMAIN rows /\ rows'[i] = rows[i]
        BY <2>4, <3>3
      <4>2. rows[i].scenario # s
        BY <1>5, <2>7, <4>1 DEF Questionnaires
      <4>3. j \in DOMAIN rows /\ rows'[j] = rows[j]
        BY <2>3, <2>4, <3>1, <4>1, <4>2
      <4>4. j \in Questionnaires(rows, rows[i].scenario)
        BY <3>1, <4>1, <4>3 DEF Questionnaires
      <4> QED
        BY <1>1, <2>7, <4>1, <4>3, <4>4 DEF Dated
    <3> QED
      BY <3>2, <3>3
  <2> QED
    BY <2>6, <2>7 DEF Dated
<1>6. Dated(rows', clock')
  BY <1>4, <1>5 DEF SaveAnswers
<1> QED
  BY <1>2, <1>3, <1>6 DEF SInv

LEMMA SubmitBhPtwDates ==
  ASSUME SInv, Quiet, NEW s \in Scenario, SubmitBhPtw(s) PROVE SInv'
<1> DEFINE pw == IF dep /\ s = "BASE" THEN "NONE" ELSE "ENTERED"
           r == [scenario |-> s, type |-> "BH_PTW",
                 at |-> clock + 1, current |-> TRUE, pwin |-> pw,
                 base |-> "ENTERED", blended |-> "NONE",
                 rule |-> FALSE, answers |-> 0]
           new == Insert(rows, r)
<1>1. /\ clock \in 0..MaxTime /\ MaxTime \in Nat /\ MaxSaves \in Nat /\ clock < MaxTime
      /\ clock' = clock + 1 /\ rows \in Seq(Row) /\ Dated(rows, clock)
  BY BoundsAssumption DEF SInv, IInv, TypeOK, SubmitBhPtw
<1>2. IInv' /\ Waiting'
  BY SubmitBhPtwStep DEF Good, SInv, SubmitBhPtw, Quiet, Waiting
<1>3. rows' = IF dep THEN Blend(new) ELSE new
  BY DEF SubmitBhPtw
<1>4. pw \in {"NONE", "ENTERED"} /\ clock + 1 \in Time /\ 0 \in Answers
  BY <1>1 DEF Time, Answers
<1> HIDE DEF pw
<1>5. r \in Row /\ r.at = clock + 1
  BY <1>4 DEF Row, Scenario
<1> HIDE DEF r
<1>6. new \in Seq(Row) /\ Dated(new, clock + 1)
  <2>1. clock \in Nat /\ clock <= r.at
    BY <1>1, <1>5
  <2>2. Dated(new, r.at)
    BY <1>1, <1>5, <2>1, InsertDates
  <2>3. new \in Seq(Row)
    BY <1>1, <1>5, InsertRows
  <2> QED
    BY <1>5, <2>2, <2>3
<1> HIDE DEF new
<1>7. Dated(rows', clock')
  BY <1>1, <1>3, <1>6, BlendDates
<1> QED
  BY <1>2, <1>7 DEF SInv

LEMMA RecalcDates ==
  ASSUME SInv,
         \/ Quiet /\ \E s \in Scenario : BeginRecalc(s)
         \/ \E r \in recalcs : FinishRecalc(r) \/ FailRecalc(r)
  PROVE  SInv'
<1>1. /\ clock \in 0..MaxTime /\ MaxTime \in Nat /\ Table(rows) /\ rows \in Seq(Row)
      /\ Dated(rows, clock) /\ Waiting
  BY BoundsAssumption DEF SInv, IInv, TypeOK
<1>2. IInv'
  BY RecalcStep DEF Good, SInv
<1>3. ASSUME Quiet, NEW s \in Scenario, BeginRecalc(s) PROVE Dated(rows', clock') /\ Waiting'
  <2>1. clock' = clock + 1 /\ rows' = rows /\ patches' = {}
    BY <1>3 DEF BeginRecalc, Quiet
  <2>2. Dated(rows', clock')
    BY <1>1, <2>1, DatedLater
  <2>3. \A r \in recalcs' : r.at = clock + 1
    BY <1>3 DEF BeginRecalc, Quiet
  <2> QED
    BY <2>1, <2>2, <2>3 DEF Waiting
<1>4. ASSUME NEW r \in recalcs, FinishRecalc(r) PROVE Dated(rows', clock') /\ Waiting'
  <2>1. /\ r.scenario \in Scenario /\ r.at \in Time /\ r.answers \in Answers
        /\ r.dep \in BOOLEAN /\ r.at = clock
    BY <1>1 DEF SInv, IInv, TypeOK, Recalc, Waiting
  <2>2. Dated(rows', clock')
    BY <1>1, <1>4, <2>1, RecalculatedDates DEF FinishRecalc
  <2> QED
    BY <1>1, <1>4, <2>2 DEF FinishRecalc, Waiting
<1>5. ASSUME NEW r \in recalcs, FailRecalc(r) PROVE Dated(rows', clock') /\ Waiting'
  BY <1>1, <1>5 DEF FailRecalc, Waiting
<1> QED
  BY <1>2, <1>3, <1>4, <1>5 DEF SInv

LEMMA OutcomeDates ==
  ASSUME SInv, CloseOrReopen \/ PredecessorCancelled \/ Restart PROVE SInv'
<1>1. IInv'
  BY OutcomeStep DEF Good, SInv
<1>2. Dated(rows', clock')
  <2>1. Table(rows) /\ Dated(rows, clock)
    BY DEF SInv, IInv
  <2>2. clock' = clock /\ (rows' = rows \/ rows' = Unblended(rows))
    BY DEF CloseOrReopen, PredecessorCancelled, Restart
  <2>3. Dated(Unblended(rows), clock)
    BY <2>1, UnblendedDates
  <2> QED
    BY <2>1, <2>2, <2>3
<1>3. Waiting'
  BY DEF SInv, Waiting, CloseOrReopen, PredecessorCancelled, Restart
<1> QED
  BY <1>1, <1>2, <1>3 DEF SInv

LEMMA SerialInvariance == SerialSpec => []SInv
<1>1. Init => SInv
  <2>1. Init => Dated(rows, clock) /\ Waiting
    BY DEF Init, Dated, Waiting
  <2> QED
    BY <2>1, InitIInv DEF SInv
<1>2. SInv /\ [SerialNext]_vars => SInv'
  <2> SUFFICES ASSUME SInv, [SerialNext]_vars PROVE SInv'
    OBVIOUS
  <2>1. CASE Quiet /\ \E switch \in {"KEEP", "ON", "OFF"}, st \in Stage, d \in BOOLEAN :
                         PatchPursuit(switch, st, d)
    BY <2>1, PatchPursuitDates
  <2>2. CASE Quiet /\ \E s \in Scenario : SaveAnswers(s)
    BY <2>2, SaveAnswersDates
  <2>3. CASE Quiet /\ \E s \in Scenario : SubmitBhPtw(s)
    BY <2>3, SubmitBhPtwDates
  <2>4. CASE \/ Quiet /\ \E s \in Scenario : BeginRecalc(s)
             \/ \E r \in recalcs : FinishRecalc(r) \/ FailRecalc(r)
    BY <2>4, RecalcDates
  <2>5. CASE CloseOrReopen \/ PredecessorCancelled \/ Restart
    BY <2>5, OutcomeDates
  <2>6. CASE \E t \in patches : EngineAnswersPatch(t) \/ EngineFailsPatch(t)
    BY <2>6, EngineDates
  <2>7. CASE UNCHANGED vars
    <3>1. IInv'
      BY NextIInv, <2>7 DEF Good, SInv
    <3> QED
      BY <2>7, <3>1 DEF vars, SInv, Waiting
  <2> QED
    BY <2>1, <2>2, <2>3, <2>4, <2>5, <2>6, <2>7 DEF SerialNext, Request, Resume
<1> QED
  BY <1>1, <1>2, PTL DEF SerialSpec

(***************************************************************************)
(* With one transaction at a time, the Pwin shown belongs to the answers   *)
(* shown: a current questionnaire row is the latest one of its scenario.   *)
(* Overlapping requests break it, because calculated_at is the start of a  *)
(* transaction and rows are demoted in the order they are committed.       *)
(***************************************************************************)
THEOREM LatestStaysCurrent == SerialSpec => []LatestIsCurrent
<1>1. SInv => LatestIsCurrent
  BY DEF SInv, Dated, LatestIsCurrent, Current, Latest, Questionnaires
<1> QED
  BY SerialInvariance, <1>1, PTL
-----------------------------------------------------------------------------
(* One transaction at a time: what is read as the latest answers is what   *)
(* is carried forward.                                                     *)
Ans(rs, s) == {rs[i].answers : i \in Latest(rs, s)}

Carries(rs, new) ==
    \A s \in Scenario : Questionnaires(rs, s) # {} =>
        Questionnaires(new, s) # {} /\ Ans(new, s) \subseteq Ans(rs, s)

NoneRegress(rs, new) ==
    \A s \in Scenario : \A i \in DOMAIN rs : Latest(rs, s) = {i} =>
        \A j \in Latest(new, s) : new[j].answers >= rs[i].answers

LEMMA CarriesComposes ==
  ASSUME NEW a, NEW b, NEW c, Carries(a, b), Carries(b, c) PROVE Carries(a, c)
BY DEF Carries

LEMMA CarriesItself == ASSUME NEW rs PROVE Carries(rs, rs)
BY DEF Carries

LEMMA CarriedAnswers ==
  ASSUME NEW rs \in Seq(Row), NEW new \in Seq(Row), Carries(rs, new)
  PROVE  NoneRegress(rs, new)
<1> SUFFICES ASSUME NEW s \in Scenario, NEW i \in DOMAIN rs, Latest(rs, s) = {i},
                    NEW j \in Latest(new, s)
             PROVE  new[j].answers >= rs[i].answers
  BY DEF NoneRegress
<1>1. Ans(rs, s) = {rs[i].answers}
  BY DEF Ans
<1>2. Questionnaires(rs, s) # {}
  BY DEF Latest
<1>3. new[j].answers = rs[i].answers
  BY <1>1, <1>2 DEF Carries, Ans
<1>4. rs[i].answers \in Nat
  BY RowFields, BoundsAssumption DEF Answers
<1> QED
  BY <1>3, <1>4

(* Rows that keep their dates and answers, beside rows of another type.    *)
LEMMA SameAnswers ==
  ASSUME NEW rs, NEW new, DOMAIN rs \subseteq DOMAIN new,
         \A i \in DOMAIN rs :
            /\ new[i].at = rs[i].at /\ new[i].type = rs[i].type
            /\ new[i].scenario = rs[i].scenario /\ new[i].answers = rs[i].answers,
         \A i \in DOMAIN new : i \notin DOMAIN rs => new[i].type # "QUESTIONNAIRE"
  PROVE  /\ Carries(rs, new)
         /\ \A s : /\ Questionnaires(new, s) = Questionnaires(rs, s)
                   /\ Ans(new, s) = Ans(rs, s)
<1>1. ASSUME NEW s
      PROVE  Questionnaires(new, s) = Questionnaires(rs, s) /\ Ans(new, s) = Ans(rs, s)
  <2>1. Questionnaires(new, s) = Questionnaires(rs, s)
    BY DEF Questionnaires
  <2>2. \A i \in Questionnaires(rs, s) :
           new[i].at = rs[i].at /\ new[i].answers = rs[i].answers
    BY DEF Questionnaires
  <2>3. Latest(new, s) = Latest(rs, s)
    BY <2>1, <2>2 DEF Latest
  <2>4. \A i \in Latest(rs, s) : new[i].answers = rs[i].answers
    BY <2>2 DEF Latest
  <2> QED
    BY <2>1, <2>3, <2>4 DEF Ans
<1> QED
  BY <1>1 DEF Carries

LEMMA InsertCarries ==
  ASSUME NEW rs \in Seq(Row), NEW c \in Nat, Dated(rs, c), NEW r \in Row, c <= r.at,
         r.type = "QUESTIONNAIRE", r.answers \in Ans(rs, r.scenario)
  PROVE  Carries(rs, Insert(rs, r))
<1> DEFINE new == Insert(rs, r)
           n == Len(rs) + 1
           out(q) == [q EXCEPT !.current = FALSE]
<1>1. /\ DOMAIN new = DOMAIN rs \cup {n} /\ n \notin DOMAIN rs /\ new[n] = r
      /\ \A i \in DOMAIN rs : new[i] =
             IF rs[i].scenario = r.scenario THEN out(rs[i]) ELSE rs[i]
  BY InsertRows
<1>2. \A q \in Row :
         /\ out(q).scenario = q.scenario /\ out(q).type = q.type
         /\ out(q).at = q.at /\ out(q).answers = q.answers
  BY DEF Row
<1> HIDE DEF new, n, out
<1>3. \A i \in DOMAIN rs : rs[i] \in Row /\ rs[i].at \in Nat
  BY RowFields DEF Time
<1>4. \A i \in DOMAIN rs :
         /\ new[i].at = rs[i].at /\ new[i].type = rs[i].type
         /\ new[i].scenario = rs[i].scenario /\ new[i].answers = rs[i].answers
  BY <1>1, <1>2, <1>3
<1>5. r.at \in Nat
  BY RowFields DEF Time
<1>6. ASSUME NEW s \in Scenario, Questionnaires(rs, s) # {}
      PROVE  Questionnaires(new, s) # {} /\ Ans(new, s) \subseteq Ans(rs, s)
  <2>1. Questionnaires(rs, s) \subseteq Questionnaires(new, s)
    BY <1>1, <1>4 DEF Questionnaires
  <2>2. ASSUME NEW j \in Latest(new, s) PROVE new[j].answers \in Ans(rs, s)
    <3>1. /\ j \in DOMAIN new /\ new[j].scenario = s /\ new[j].type = "QUESTIONNAIRE"
          /\ \A i \in Questionnaires(new, s) : new[i].at <= new[j].at
      BY DEF Latest, Questionnaires
    <3>2. CASE j = n
      BY <1>1, <3>1, <3>2
    <3>3. CASE j # n
      <4>1. j \in Questionnaires(rs, s)
        BY <1>1, <1>4, <3>1, <3>3 DEF Questionnaires
      <4>2. \A i \in Questionnaires(rs, s) : rs[i].at <= rs[j].at
        BY <1>4, <2>1, <3>1, <4>1 DEF Questionnaires
      <4>3. j \in Latest(rs, s)
        BY <4>1, <4>2 DEF Latest
      <4> QED
        BY <1>4, <4>1, <4>3 DEF Ans, Questionnaires
    <3> QED
      BY <3>2, <3>3
  <2> QED
    BY <1>6, <2>1, <2>2 DEF Ans
<1> QED
  BY <1>6 DEF Carries, new

LEMMA BlendCarries ==
  ASSUME NEW rs \in Seq(Row) PROVE Carries(rs, Blend(rs))
<1> DEFINE new == Blend(rs)
           blended(r) == [r EXCEPT !.pwin = "BLEND", !.blended = "BLEND"]
<1>1. /\ DOMAIN new = DOMAIN rs
      /\ \A i \in DOMAIN rs : new[i] = IF i \in Blendable(rs) THEN blended(rs[i]) ELSE rs[i]
  BY DEF Blend
<1>2. \A r \in Row :
         /\ blended(r).at = r.at /\ blended(r).type = r.type
         /\ blended(r).scenario = r.scenario /\ blended(r).answers = r.answers
  BY DEF Row
<1>3. \A i \in DOMAIN rs : rs[i] \in Row
  OBVIOUS
<1> HIDE DEF new, blended
<1>4. \A i \in DOMAIN rs :
         /\ new[i].at = rs[i].at /\ new[i].type = rs[i].type
         /\ new[i].scenario = rs[i].scenario /\ new[i].answers = rs[i].answers
  BY <1>1, <1>2, <1>3
<1> QED
  BY <1>1, <1>4, SameAnswers DEF new

LEMMA RecalculatedCarries ==
  ASSUME NEW rs, Table(rs), NEW c \in Nat, Dated(rs, c), NEW s \in Scenario,
         NEW at \in Time, c <= at, NEW answers \in Ans(rs, s), NEW d \in BOOLEAN
  PROVE  Carries(rs, Recalculated(rs, s, at, answers, d))
<1> DEFINE r == [scenario |-> s, type |-> "QUESTIONNAIRE",
                 at |-> at, current |-> TRUE, pwin |-> "ENGINE",
                 base |-> "ENGINE", blended |-> "NONE",
                 rule |-> FALSE, answers |-> answers]
           new == Insert(rs, r)
<1>1. answers \in Answers
  <2>1. \A i \in DOMAIN rs : rs[i].answers \in Answers
    BY RowFields DEF Table
  <2> QED
    BY <2>1 DEF Ans, Latest, Questionnaires
<1>2. /\ r \in Row /\ r.at = at /\ r.scenario = s /\ r.answers = answers
      /\ r.type = "QUESTIONNAIRE"
  BY <1>1 DEF Row, Scenario
<1> HIDE DEF r
<1>3. new \in Seq(Row) /\ Carries(rs, new)
  BY <1>2, InsertRows, InsertCarries DEF Table
<1> HIDE DEF new
<1>4. Recalculated(rs, s, at, answers, d) = IF d THEN Blend(new) ELSE new
  BY DEF Recalculated, new, r
<1> QED
  BY <1>3, <1>4, BlendCarries, CarriesComposes

LEMMA UnblendedCarries ==
  ASSUME NEW rs, Table(rs) PROVE Carries(rs, Unblended(rs))
<1> DEFINE new == Unblended(rs)
           alone(r) == [r EXCEPT !.pwin = r.base, !.blended = "NONE"]
           out(r)   == [r EXCEPT !.current = FALSE]
<1>1. rs \in Seq(Row) /\ \A i \in DOMAIN rs : rs[i] \in Row
  BY DEF Table
<1>2. \A i \in DOMAIN rs : Demote(rs, "DEPENDENT_WON")[i] =
         IF rs[i].scenario = "DEPENDENT_WON" THEN out(rs[i]) ELSE rs[i]
  BY <1>1, DemoteRows
<1>3. /\ DOMAIN new = DOMAIN rs
      /\ \A i \in DOMAIN rs : new[i] =
            IF i \in Current(rs, "BASE") THEN alone(rs[i]) ELSE Demote(rs, "DEPENDENT_WON")[i]
  BY DEF Unblended
<1>4. \A r \in Row :
        /\ alone(r).at = r.at /\ alone(r).type = r.type
        /\ alone(r).scenario = r.scenario /\ alone(r).answers = r.answers
  BY DEF Row
<1>5. \A r \in Row :
        /\ out(r).at = r.at /\ out(r).type = r.type
        /\ out(r).scenario = r.scenario /\ out(r).answers = r.answers
  BY DEF Row
<1> HIDE DEF new, alone, out
<1>6. \A i \in DOMAIN rs :
         /\ new[i].at = rs[i].at /\ new[i].type = rs[i].type
         /\ new[i].scenario = rs[i].scenario /\ new[i].answers = rs[i].answers
  BY <1>1, <1>2, <1>3, <1>4, <1>5
<1> QED
  BY <1>3, <1>6, SameAnswers DEF new

(* The row that is rewritten in place is the latest one, or no             *)
(* questionnaire at all.                                                   *)
LEMMA SoleRuledCarries ==
  ASSUME NEW rs, Table(rs), NEW c \in Nat, Dated(rs, c), NEW at \in Time, c <= at
  PROVE  Carries(rs, SoleRuled(rs, at))
<1> DEFINE new == SoleRuled(rs, at)
           ruled(r) == [r EXCEPT !.pwin = "RULE", !.blended = "RULE", !.rule = TRUE, !.at = at]
           first == [scenario |-> "BASE", type |-> "QUESTIONNAIRE",
                     at |-> at, current |-> TRUE, pwin |-> "RULE",
                     base |-> "NONE", blended |-> "RULE", rule |-> TRUE, answers |-> 0]
           n == Len(rs) + 1
<1>1. rs \in Seq(Row) /\ \A i \in DOMAIN rs : rs[i] \in Row /\ rs[i].at \in Nat
  BY RowFields DEF Table, Time
<1>2. at \in Nat
  BY DEF Time
<1>3. CASE Current(rs, "BASE") = {}
  <2>1. new = Append(rs, first)
    BY <1>3 DEF SoleRuled
  <2>2. first \in Row /\ first.scenario = "BASE"
    BY BoundsAssumption DEF Row, Answers
  <2> HIDE DEF first, new
  <2>3. /\ DOMAIN new = DOMAIN rs \cup {n} /\ n \notin DOMAIN rs /\ new[n] = first
        /\ \A i \in DOMAIN rs : new[i] = rs[i]
    BY <1>1, <2>1, <2>2, AppendIsSeq
  <2> HIDE DEF n
  <2>4. \A i \in DOMAIN rs : rs[i].scenario # "BASE"
    BY <1>3 DEF Table, Covered, Current
  <2>5. Questionnaires(rs, "BASE") = {}
    BY <2>4 DEF Questionnaires
  <2>6. ASSUME NEW s \in Scenario, s # "BASE"
        PROVE  Questionnaires(new, s) = Questionnaires(rs, s) /\ Ans(new, s) = Ans(rs, s)
    <3>1. Questionnaires(new, s) = Questionnaires(rs, s)
      BY <2>2, <2>3, <2>6 DEF Questionnaires
    <3>2. \A i \in Questionnaires(rs, s) : new[i] = rs[i]
      BY <2>3 DEF Questionnaires
    <3>3. Latest(new, s) = Latest(rs, s)
      BY <3>1, <3>2 DEF Latest
    <3>4. \A i \in Latest(rs, s) : new[i] = rs[i]
      BY <3>2 DEF Latest
    <3> QED
      BY <3>1, <3>3, <3>4 DEF Ans
  <2> QED
    BY <2>5, <2>6 DEF Carries, new
<1>4. CASE Current(rs, "BASE") # {}
  <2>1. /\ DOMAIN new = DOMAIN rs
        /\ \A i \in DOMAIN rs : new[i] = IF i \in Current(rs, "BASE") THEN ruled(rs[i]) ELSE rs[i]
    BY <1>4 DEF SoleRuled
  <2>2. \A r \in Row :
          /\ ruled(r).scenario = r.scenario /\ ruled(r).type = r.type
          /\ ruled(r).answers = r.answers /\ ruled(r).at = at
    BY DEF Row
  <2> HIDE DEF new, ruled
  <2>3. \A i \in DOMAIN rs :
          /\ new[i].scenario = rs[i].scenario /\ new[i].type = rs[i].type
          /\ new[i].answers = rs[i].answers
          /\ new[i].at = IF i \in Current(rs, "BASE") THEN at ELSE rs[i].at
    BY <1>1, <2>1, <2>2
  <2>4. ASSUME NEW s PROVE Questionnaires(new, s) = Questionnaires(rs, s)
    BY <2>1, <2>3 DEF Questionnaires
  <2>5. ASSUME NEW s \in Scenario, NEW j \in Latest(new, s) PROVE j \in Latest(rs, s)
    <3>1. j \in Questionnaires(rs, s) /\ \A i \in Questionnaires(rs, s) : new[i].at <= new[j].at
      BY <2>4 DEF Latest
    <3>2. j \in DOMAIN rs /\ rs[j].scenario = s /\ rs[j].type = "QUESTIONNAIRE"
      BY <3>1 DEF Questionnaires
    <3>3. CASE j \in Current(rs, "BASE")
      <4>1. \A i \in Questionnaires(rs, s) : rs[i].at <= rs[j].at
        BY <3>2, <3>3 DEF Dated, Current
      <4> QED
        BY <3>1, <4>1 DEF Latest
    <3>4. CASE j \notin Current(rs, "BASE")
      <4>1. ASSUME NEW i \in Questionnaires(rs, s) PROVE rs[i].at <= rs[j].at
        <5>1. i \in DOMAIN rs /\ new[i].at <= new[j].at /\ rs[i].at <= c
          BY <3>1 DEF Questionnaires, Dated
        <5>2. new[j].at = rs[j].at
          BY <2>3, <3>2, <3>4
        <5>3. rs[i].at <= new[i].at
          BY <1>1, <1>2, <2>3, <5>1
        <5>4. new[i].at \in Nat /\ rs[j].at \in Nat /\ rs[i].at \in Nat
          BY <1>1, <1>2, <2>3, <3>2, <5>1
        <5> QED
          BY <5>1, <5>2, <5>3, <5>4
      <4> QED
        BY <3>1, <4>1 DEF Latest
    <3> QED
      BY <3>3, <3>4
  <2>6. \A s \in Scenario : Ans(new, s) \subseteq Ans(rs, s)
    <3> SUFFICES ASSUME NEW s \in Scenario, NEW j \in Latest(new, s)
                 PROVE  new[j].answers \in Ans(rs, s)
      BY DEF Ans
    <3>1. j \in Latest(rs, s) /\ j \in DOMAIN rs
      BY <2>5 DEF Latest, Questionnaires
    <3> QED
      BY <2>3, <3>1 DEF Ans
  <2> QED
    BY <2>4, <2>6 DEF Carries, new
<1> QED
  BY <1>3, <1>4

(* The table as PATCH t sees it before a recalculation of BASE, and of     *)
(* DEPENDENT_WON.                                                          *)
Ruled(rs, t) == IF t.sole = "ON" THEN SoleRuled(rs, t.at) ELSE rs
Based(rs, t) == IF t.base = 0 THEN Ruled(rs, t)
                ELSE Recalculated(Ruled(rs, t), "BASE", t.at, t.base, t.dep)

(* The answers of the rows t has inserted are those it read as the latest, *)
(* and so are the answers a waiting t has sent.                            *)
Reads(rs, t) ==
    /\ t.base # 0 => t.base \in Ans(Ruled(rs, t), "BASE")
    /\ t.dependentWon # 0 => t.dependentWon \in Ans(Based(rs, t), "DEPENDENT_WON")

Subject(call) == IF call = "DEPENDENT_WON" THEN "DEPENDENT_WON" ELSE "BASE"

Knows(rs, t) ==
    /\ Reads(rs, t) /\ t.dependentWon = 0
    /\ t.call # "DEPENDENT_WON" => t.base = 0
    /\ t.answers \in Ans(Based(rs, t), Subject(t.call))

Solo == /\ patches = {} \/ recalcs = {}
        /\ \A a, b \in recalcs : a = b
Known == /\ \A r \in recalcs : r.answers \in Ans(rows, r.scenario)
         /\ \A t \in patches : Knows(rows, t)
AInv == SInv /\ Solo /\ Known
AnswersKept == Solo' /\ Known' /\ NoneRegress(rows, rows')

LEMMA WrittenTable ==
  ASSUME NEW t
  PROVE  Written(t) = IF t.dependentWon = 0 THEN Based(rows, t)
                      ELSE Recalculated(Based(rows, t), "DEPENDENT_WON", t.at,
                                        t.dependentWon, t.dep)
BY DEF Written, Based, Ruled

LEMMA WrittenCarries ==
  ASSUME IInv, Dated(rows, clock), NEW t \in Began, t.at \in Time, clock <= t.at,
         Reads(rows, t)
  PROVE  Carries(rows, Written(t))
<1> DEFINE ruled == Ruled(rows, t)
           based == Based(rows, t)
<1>0. /\ t.base \in Answers /\ t.dependentWon \in Answers /\ t.dep \in BOOLEAN
      /\ "BASE" \in Scenario /\ "DEPENDENT_WON" \in Scenario
      /\ clock \in Nat /\ t.at \in Nat /\ Table(rows) /\ rows \in Seq(Row)
  BY DEF Began, Scenario, Time, IInv, TypeOK
<1>1. Table(ruled) /\ Dated(ruled, t.at) /\ Carries(rows, ruled)
  BY <1>0, SoleRuledKeepsTable, SoleRuledDates, DatedLater, SoleRuledCarries, CarriesItself
     DEF Ruled
<1>2. based = IF t.base = 0 THEN ruled ELSE Recalculated(ruled, "BASE", t.at, t.base, t.dep)
  BY DEF Based
<1>3. t.base # 0 => t.base \in Ans(ruled, "BASE")
  BY DEF Reads
<1>4. t.dependentWon # 0 => t.dependentWon \in Ans(based, "DEPENDENT_WON")
  BY DEF Reads
<1>5. Written(t) = IF t.dependentWon = 0 THEN based
                   ELSE Recalculated(based, "DEPENDENT_WON", t.at, t.dependentWon, t.dep)
  BY WrittenTable
<1> HIDE DEF ruled, based
<1>6. Table(based) /\ Dated(based, t.at)
  BY <1>0, <1>1, <1>2, RecalculatedKeepsTable, RecalculatedDates
<1>7. Carries(ruled, based)
  BY <1>0, <1>1, <1>2, <1>3, RecalculatedCarries, CarriesItself
<1>8. Carries(based, Written(t))
  BY <1>0, <1>4, <1>5, <1>6, RecalculatedCarries, CarriesItself
<1> QED
  BY <1>1, <1>7, <1>8, CarriesComposes

(* Nothing but the table may matter to what a transaction knows of it.     *)
LEMMA NothingWritten ==
  ASSUME AInv, rows' = rows PROVE NoneRegress(rows, rows')
BY CarriesItself, CarriedAnswers DEF AInv, SInv, IInv, TypeOK

LEMMA CommitAnswers ==
  ASSUME AInv, SInv', recalcs = {}, NEW t \in Began, Timely(t), Reads(rows, t), Commit(t)
  PROVE  AnswersKept
<1>1. /\ clock \in 0..MaxTime /\ MaxTime \in Nat /\ t.at \in 1..(MaxTime + 1)
      /\ clock <= t.at
  BY BoundsAssumption DEF AInv, SInv, IInv, TypeOK, Began, Timely
<1>2. patches' = {} /\ recalcs' = {} /\ rows' = Written(t)
  BY DEF Commit
<1>3. Solo' /\ Known'
  BY <1>2 DEF Solo, Known
<1>4. CASE rows' = rows
  BY <1>3, <1>4, NothingWritten DEF AnswersKept
<1>5. CASE rows' # rows
  <2>1. t.at \in Time
    BY <1>1, <1>5 DEF Commit, Time
  <2>2. Carries(rows, rows')
    BY <1>1, <1>2, <2>1, WrittenCarries DEF AInv, SInv
  <2>3. rows \in Seq(Row) /\ rows' \in Seq(Row)
    BY DEF AInv, SInv, IInv, TypeOK
  <2> QED
    BY <1>3, <2>2, <2>3, CarriedAnswers DEF AnswersKept
<1> QED
  BY <1>4, <1>5

LEMMA AwaitAnswers ==
  ASSUME AInv, recalcs = {}, NEW t \in Began, Reads(rows, t), t.dependentWon = 0,
         NEW call \in {"SOLE", "BASE", "DEPENDENT_WON"},
         call # "DEPENDENT_WON" => t.base = 0, Await(t, call, Subject(call))
  PROVE  AnswersKept
<1>1. PICK a \in Readable(t, Subject(call)) \ {0} :
         patches' = {[t EXCEPT !.call = call, !.answers = a]}
  BY DEF Await
<1> DEFINE u == [t EXCEPT !.call = call, !.answers = a]
<1>2. /\ u.call = call /\ u.answers = a /\ u.sole = t.sole /\ u.at = t.at
      /\ u.base = t.base /\ u.dep = t.dep /\ u.dependentWon = t.dependentWon
  BY DEF Began
<1>3. patches' = {u} /\ recalcs' = {} /\ rows' = rows
  BY <1>1 DEF Await
<1> HIDE DEF u
<1>4. Ruled(rows, u) = Ruled(rows, t) /\ Based(rows, u) = Based(rows, t)
  BY <1>2 DEF Ruled, Based
<1>5. a \in Ans(Based(rows, t), Subject(call))
  BY <1>1, WrittenTable DEF Readable, Ans
<1>6. Reads(rows, u)
  BY <1>2, <1>4 DEF Reads
<1>7. Knows(rows, u)
  BY <1>2, <1>4, <1>5, <1>6 DEF Knows
<1>8. Solo' /\ Known'
  BY <1>3, <1>7 DEF Solo, Known
<1> QED
  BY <1>3, <1>8, NothingWritten DEF AnswersKept

LEMMA RevertDependentWonAnswers ==
  ASSUME AInv, SInv', recalcs = {}, NEW t \in Began, Timely(t), Reads(rows, t),
         t.dependentWon = 0, RevertDependentWon(t)
  PROVE  AnswersKept
<1>1. CASE Await(t, "DEPENDENT_WON", "DEPENDENT_WON")
  <2>1. Subject("DEPENDENT_WON") = "DEPENDENT_WON"
    BY DEF Subject
  <2> QED
    BY <1>1, <2>1, AwaitAnswers
<1>2. CASE Commit(t)
  BY <1>2, CommitAnswers
<1> QED
  BY <1>1, <1>2 DEF RevertDependentWon

LEMMA RevertAnswers ==
  ASSUME AInv, SInv', recalcs = {}, NEW t \in Began, Timely(t), Reads(rows, t),
         t.dependentWon = 0, t.base = 0, Revert(t)
  PROVE  AnswersKept
<1>1. CASE Await(t, "BASE", "BASE")
  <2>1. Subject("BASE") = "BASE"
    BY DEF Subject
  <2> QED
    BY <1>1, <2>1, AwaitAnswers
<1>2. CASE RevertDependentWon(t)
  BY <1>2, RevertDependentWonAnswers
<1>3. CASE Commit(t)
  BY <1>3, CommitAnswers
<1> QED
  BY <1>1, <1>2, <1>3 DEF Revert

LEMMA PatchPursuitAnswers ==
  ASSUME AInv, SInv', Quiet, NEW switch \in {"KEEP", "ON", "OFF"}, NEW st \in Stage,
         NEW d \in BOOLEAN, PatchPursuit(switch, st, d)
  PROVE  AnswersKept
<1>1. PICK t \in Began : /\ t.at = clock + 1 /\ t.base = 0 /\ t.dependentWon = 0
                         /\ LeaveSoleSource(t)
  BY PatchBegan DEF AInv, SInv
<1>2. recalcs = {} /\ Timely(t) /\ Reads(rows, t)
  BY <1>1 DEF Timely, Quiet, AInv, SInv, IInv, TypeOK, Reads
<1>3. CASE Await(t, "SOLE", "BASE")
  <2>1. Subject("SOLE") = "BASE"
    BY DEF Subject
  <2> QED
    BY <1>1, <1>2, <1>3, <2>1, AwaitAnswers
<1>4. CASE Revert(t)
  BY <1>1, <1>2, <1>4, RevertAnswers
<1> QED
  BY <1>1, <1>3, <1>4 DEF LeaveSoleSource

LEMMA EngineAnswers ==
  ASSUME AInv, SInv', NEW t \in patches, EngineAnswersPatch(t) \/ EngineFailsPatch(t)
  PROVE  AnswersKept
<1> DEFINE u == [t EXCEPT !.base = t.answers]
           v == [t EXCEPT !.dependentWon = t.answers]
<1>1. t \in Began /\ t.answers \in Answers
  BY BoundsAssumption DEF Patch, Began, Answers, Time, AInv, SInv, IInv, TypeOK
<1>2. u \in Began /\ v \in Began
  BY <1>1 DEF Began
<1>3. t.at = clock /\ u.at = clock /\ v.at = clock
  BY <1>1 DEF AInv, SInv, Waiting, Began
<1>4. Timely(t) /\ Timely(u) /\ Timely(v)
  BY <1>3 DEF Timely
<1>5. /\ recalcs = {} /\ Reads(rows, t) /\ t.dependentWon = 0
      /\ t.call # "DEPENDENT_WON" => t.base = 0
      /\ t.answers \in Ans(Based(rows, t), Subject(t.call))
  BY DEF AInv, Solo, Known, Knows
<1>6. /\ u.base = t.answers /\ u.sole = t.sole /\ u.at = t.at
      /\ u.dependentWon = t.dependentWon
      /\ v.dependentWon = t.answers /\ v.sole = t.sole /\ v.at = t.at
      /\ v.base = t.base /\ v.dep = t.dep
  BY <1>1 DEF Began
<1>7. CASE t.call # "DEPENDENT_WON"
  <2>1. Based(rows, t) = Ruled(rows, t) /\ Subject(t.call) = "BASE"
    BY <1>5, <1>7 DEF Based, Subject
  <2> HIDE DEF u
  <2>2. Ruled(rows, u) = Ruled(rows, t)
    BY <1>6 DEF Ruled
  <2>3. Reads(rows, u)
    BY <1>5, <1>6, <2>1, <2>2 DEF Reads
  <2>4. Commit(u) \/ RevertDependentWon(u) \/ Revert(t) \/ RevertDependentWon(t)
    BY <1>7 DEF EngineAnswersPatch, EngineFailsPatch, u
  <2> QED
    BY <1>1, <1>2, <1>4, <1>5, <1>6, <1>7, <2>3, <2>4,
       CommitAnswers, RevertAnswers, RevertDependentWonAnswers
<1>8. CASE t.call = "DEPENDENT_WON"
  <2>1. Subject(t.call) = "DEPENDENT_WON"
    BY <1>8 DEF Subject
  <2> HIDE DEF v
  <2>2. Ruled(rows, v) = Ruled(rows, t) /\ Based(rows, v) = Based(rows, t)
    BY <1>6 DEF Ruled, Based
  <2>3. Reads(rows, v)
    BY <1>5, <1>6, <2>1, <2>2 DEF Reads
  <2>4. Commit(v) \/ Commit(t)
    BY <1>8 DEF EngineAnswersPatch, EngineFailsPatch, v
  <2> QED
    BY <1>1, <1>2, <1>4, <1>5, <2>3, <2>4, CommitAnswers
<1> QED
  BY <1>7, <1>8

(* A save takes a number above all of its scenario's.                      *)
LEMMA SaveAnswersGrow ==
  ASSUME AInv, SInv', Quiet, NEW s \in Scenario, SaveAnswers(s)
  PROVE  AnswersKept
<1>1. rows \in Seq(Row) /\ \A i \in DOMAIN rows : rows[i].answers \in Nat
  BY RowFields, BoundsAssumption DEF AInv, SInv, IInv, TypeOK, Answers
<1>2. Solo' /\ Known'
  BY DEF SaveAnswers, Quiet, Solo, Known
<1>3. ASSUME NEW n \in NextSave(s), NEW i \in Latest(rows, s),
             rows' = [rows EXCEPT ![i].answers = n]
      PROVE  NoneRegress(rows, rows')
  <2> DEFINE saved(r) == [r EXCEPT !.answers = n]
  <2>1. /\ DOMAIN rows' = DOMAIN rows
        /\ \A j \in DOMAIN rows : rows'[j] = IF j = i THEN saved(rows[j]) ELSE rows[j]
    BY <1>3
  <2>2. \A r \in Row :
          /\ saved(r).at = r.at /\ saved(r).type = r.type
          /\ saved(r).scenario = r.scenario /\ saved(r).answers = n
    BY DEF Row
  <2>3. \A j \in DOMAIN rows : rows[j] \in Row
    BY <1>1
  <2> HIDE DEF saved
  <2>4. \A j \in DOMAIN rows :
          /\ rows'[j].at = rows[j].at /\ rows'[j].type = rows[j].type
          /\ rows'[j].scenario = rows[j].scenario
          /\ rows'[j].answers = IF j = i THEN n ELSE rows[j].answers
    BY <2>1, <2>2, <2>3
  <2>5. ASSUME NEW x PROVE Latest(rows', x) = Latest(rows, x)
    <3>1. Questionnaires(rows', x) = Questionnaires(rows, x)
      BY <2>1, <2>4 DEF Questionnaires
    <3>2. \A j \in Questionnaires(rows, x) : rows'[j].at = rows[j].at
      BY <2>4 DEF Questionnaires
    <3> QED
      BY <3>1, <3>2 DEF Latest
  <2>6. i \in DOMAIN rows /\ n \in Nat /\ rows[i].answers < n
    BY <1>3 DEF Latest, Questionnaires, NextSave
  <2>7. \A j \in DOMAIN rows : rows'[j].answers >= rows[j].answers
    BY <1>1, <2>4, <2>6
  <2> QED
    BY <2>5, <2>7 DEF NoneRegress
<1>4. ASSUME NEW r, r.scenario = s, Questionnaires(rows, s) = {}, rows' = Append(rows, r)
      PROVE  NoneRegress(rows, rows')
  <2> DEFINE k == Len(rows) + 1
  <2>1. /\ DOMAIN rows' = DOMAIN rows \cup {k} /\ k \notin DOMAIN rows /\ rows'[k] = r
        /\ \A i \in DOMAIN rows : rows'[i] = rows[i]
    BY <1>1, <1>4
  <2> HIDE DEF k
  <2>2. ASSUME NEW x \in Scenario, NEW i \in DOMAIN rows, Latest(rows, x) = {i},
               NEW j \in Latest(rows', x)
        PROVE  rows'[j].answers >= rows[i].answers
    <3>1. x # s
      BY <1>4, <2>2 DEF Latest
    <3>2. Questionnaires(rows', x) = Questionnaires(rows, x)
      BY <1>4, <2>1, <3>1 DEF Questionnaires
    <3>3. \A m \in Questionnaires(rows, x) : rows'[m] = rows[m]
      BY <2>1 DEF Questionnaires
    <3>4. Latest(rows', x) = Latest(rows, x)
      BY <3>2, <3>3 DEF Latest
    <3> QED
      BY <1>1, <2>1, <2>2, <3>4
  <2> QED
    BY <2>2 DEF NoneRegress
<1>5. NoneRegress(rows, rows')
  BY <1>3, <1>4 DEF SaveAnswers
<1> QED
  BY <1>2, <1>5 DEF AnswersKept

LEMMA SubmitBhPtwAnswers ==
  ASSUME AInv, SInv', Quiet, NEW s \in Scenario, SubmitBhPtw(s)
  PROVE  AnswersKept
<1> DEFINE pw == IF dep /\ s = "BASE" THEN "NONE" ELSE "ENTERED"
           r == [scenario |-> s, type |-> "BH_PTW",
                 at |-> clock + 1, current |-> TRUE, pwin |-> pw,
                 base |-> "ENTERED", blended |-> "NONE",
                 rule |-> FALSE, answers |-> 0]
           new == Insert(rows, r)
           n == Len(rows) + 1
           out(q) == [q EXCEPT !.current = FALSE]
<1>1. /\ clock \in 0..MaxTime /\ MaxTime \in Nat /\ MaxSaves \in Nat /\ clock < MaxTime
      /\ rows \in Seq(Row) /\ rows' \in Seq(Row)
  BY BoundsAssumption DEF AInv, SInv, IInv, TypeOK, SubmitBhPtw
<1>2. Solo' /\ Known'
  BY DEF SubmitBhPtw, Quiet, Solo, Known
<1>3. rows' = IF dep THEN Blend(new) ELSE new
  BY DEF SubmitBhPtw
<1>4. pw \in {"NONE", "ENTERED"} /\ clock + 1 \in Time /\ 0 \in Answers
  BY <1>1 DEF Time, Answers
<1> HIDE DEF pw
<1>5. r \in Row /\ r.type = "BH_PTW"
  BY <1>4 DEF Row, Scenario
<1> HIDE DEF r
<1>6. /\ new \in Seq(Row)
      /\ DOMAIN new = DOMAIN rows \cup {n} /\ n \notin DOMAIN rows /\ new[n] = r
      /\ \A i \in DOMAIN rows : new[i] =
             IF rows[i].scenario = r.scenario THEN out(rows[i]) ELSE rows[i]
  BY <1>1, <1>5, InsertRows
<1>7. \A q \in Row :
         /\ out(q).scenario = q.scenario /\ out(q).type = q.type
         /\ out(q).at = q.at /\ out(q).answers = q.answers
  BY DEF Row
<1> HIDE DEF new, n, out
<1>8. \A i \in DOMAIN rows : rows[i] \in Row
  BY <1>1
<1>9. \A i \in DOMAIN rows :
         /\ new[i].at = rows[i].at /\ new[i].type = rows[i].type
         /\ new[i].scenario = rows[i].scenario /\ new[i].answers = rows[i].answers
  BY <1>6, <1>7, <1>8
<1>10. Carries(rows, new)
  BY <1>5, <1>6, <1>9, SameAnswers
<1>11. Carries(rows, rows')
  BY <1>3, <1>6, <1>10, BlendCarries, CarriesComposes
<1> QED
  BY <1>1, <1>2, <1>11, CarriedAnswers DEF AnswersKept

LEMMA RecalcAnswers ==
  ASSUME AInv, SInv',
         \/ Quiet /\ \E s \in Scenario : BeginRecalc(s)
         \/ \E r \in recalcs : FinishRecalc(r) \/ FailRecalc(r)
  PROVE  AnswersKept
<1>1. /\ clock \in Nat /\ Table(rows) /\ rows \in Seq(Row) /\ rows' \in Seq(Row)
      /\ Dated(rows, clock) /\ Waiting /\ Solo /\ Known
  BY BoundsAssumption DEF AInv, SInv, IInv, TypeOK
<1>2. ASSUME Quiet, NEW s \in Scenario, BeginRecalc(s) PROVE AnswersKept
  <2>1. rows' = rows /\ patches' = {}
    BY <1>2 DEF BeginRecalc, Quiet
  <2>2. PICK i \in Latest(rows, s) : recalcs' =
           {[scenario |-> s, at |-> clock + 1, answers |-> rows[i].answers, dep |-> dep]}
    BY <1>2 DEF BeginRecalc, Quiet
  <2>3. rows[i].answers \in Ans(rows, s)
    BY DEF Ans
  <2>4. \A r \in recalcs' : r.answers \in Ans(rows, r.scenario)
    BY <2>2, <2>3
  <2>5. \A a, b \in recalcs' : a = b
    BY <2>2
  <2>6. Solo' /\ Known'
    BY <2>1, <2>4, <2>5 DEF Solo, Known
  <2> QED
    BY <2>1, <2>6, NothingWritten DEF AnswersKept
<1>3. ASSUME NEW r \in recalcs, FinishRecalc(r) \/ FailRecalc(r) PROVE Solo' /\ Known'
  <2>1. patches' = {} /\ recalcs' = {}
    BY <1>1, <1>3 DEF FinishRecalc, FailRecalc, Solo
  <2> QED
    BY <2>1 DEF Solo, Known
<1>4. ASSUME NEW r \in recalcs, FinishRecalc(r) PROVE AnswersKept
  <2>1. /\ r.scenario \in Scenario /\ r.at \in Time /\ r.dep \in BOOLEAN
        /\ r.at = clock /\ r.answers \in Ans(rows, r.scenario)
    BY <1>1 DEF AInv, SInv, IInv, TypeOK, Recalc, Waiting, Known
  <2>2. clock <= r.at
    BY <1>1, <2>1
  <2>3. Carries(rows, rows')
    BY <1>1, <1>4, <2>1, <2>2, RecalculatedCarries DEF FinishRecalc
  <2> QED
    BY <1>1, <1>3, <1>4, <2>3, CarriedAnswers DEF AnswersKept
<1>5. ASSUME NEW r \in recalcs, FailRecalc(r) PROVE AnswersKept
  BY <1>3, <1>5, NothingWritten DEF FailRecalc, AnswersKept
<1> QED
  BY <1>2, <1>4, <1>5

LEMMA OutcomeAnswers ==
  ASSUME AInv, SInv',
         \/ Quiet /\ (CloseOrReopen \/ PredecessorCancelled)
         \/ Restart
  PROVE  AnswersKept
<1>1. Solo' /\ Known'
  BY DEF Quiet, CloseOrReopen, PredecessorCancelled, Restart, Solo, Known
<1>2. Table(rows) /\ rows \in Seq(Row) /\ rows' \in Seq(Row)
  BY DEF AInv, SInv, IInv, TypeOK
<1>3. rows' = rows \/ rows' = Unblended(rows)
  BY DEF CloseOrReopen, PredecessorCancelled, Restart
<1>4. Carries(rows, rows')
  BY <1>2, <1>3, UnblendedCarries, CarriesItself
<1> QED
  BY <1>1, <1>2, <1>4, CarriedAnswers DEF AnswersKept

LEMMA AnswersStep == AInv /\ SInv' /\ [SerialNext]_vars => AnswersKept
<1> SUFFICES ASSUME AInv, SInv', [SerialNext]_vars PROVE AnswersKept
  OBVIOUS
<1>1. CASE Quiet /\ \E switch \in {"KEEP", "ON", "OFF"}, st \in Stage, d \in BOOLEAN :
                       PatchPursuit(switch, st, d)
  BY <1>1, PatchPursuitAnswers
<1>2. CASE Quiet /\ \E s \in Scenario : SaveAnswers(s)
  BY <1>2, SaveAnswersGrow
<1>3. CASE Quiet /\ \E s \in Scenario : SubmitBhPtw(s)
  BY <1>3, SubmitBhPtwAnswers
<1>4. CASE \/ Quiet /\ \E s \in Scenario : BeginRecalc(s)
           \/ \E r \in recalcs : FinishRecalc(r) \/ FailRecalc(r)
  BY <1>4, RecalcAnswers
<1>5. CASE (Quiet /\ (CloseOrReopen \/ PredecessorCancelled)) \/ Restart
  BY <1>5, OutcomeAnswers
<1>6. CASE \E t \in patches : EngineAnswersPatch(t) \/ EngineFailsPatch(t)
  BY <1>6, EngineAnswers
<1>7. CASE UNCHANGED vars
  <2>1. rows' = rows /\ patches' = patches /\ recalcs' = recalcs
    BY <1>7 DEF vars
  <2>2. Solo' /\ Known'
    BY <2>1 DEF AInv, Solo, Known
  <2> QED
    BY <2>1, <2>2, NothingWritten DEF AnswersKept
<1> QED
  BY <1>1, <1>2, <1>3, <1>4, <1>5, <1>6, <1>7 DEF SerialNext, Request, Resume

(***************************************************************************)
(* With one transaction at a time, a recalculation carries the latest      *)
(* answers forward and never older ones: what it read when it began is     *)
(* still the latest when the engine answers, also for the two that one     *)
(* PATCH may run in turn (recalculate_pwin, patch_pursuit).                *)
(***************************************************************************)
THEOREM AnswersAreCarried == SerialSpec => AnswersNeverRegress
<1>1. Init => Solo /\ Known
  BY DEF Init, Solo, Known
<1>2. Solo /\ Known /\ SInv /\ SInv' /\ [SerialNext]_vars => Solo' /\ Known'
  BY AnswersStep DEF AnswersKept, AInv
<1>3. Solo /\ Known /\ SInv /\ SInv' /\ [SerialNext]_vars =>
        \A s \in Scenario : \A i \in DOMAIN rows :
          Latest(rows, s) = {i} =>
              \A j \in Latest(rows', s) :
                  rows'[j].answers >= rows[i].answers
  BY AnswersStep DEF AnswersKept, AInv, NoneRegress
<1> QED
  BY SerialInvariance, <1>1, <1>2, <1>3, PTL DEF SerialSpec, AnswersNeverRegress
=============================================================================
