------------------------------ MODULE Staffing ------------------------------
(* The monthly staffing demand of a pursuit: its phases stacked back from  *)
(* the day the proposal is due, cut at a cancellation, spread over the     *)
(* calendar and divided by the escalation of the year the work falls in    *)
(* (api/app/routers/staffing.py, api/app/staffing_escalation.py; the       *)
(* bootstrap page does the same with its own rows).                        *)
(*                                                                         *)
(* Durations and staffed cells come with the import and never change; due  *)
(* dates are edited and escalation rates are overridden, each in one       *)
(* transaction without an await.  A date is the number of days since       *)
(* FirstYear began, a month a pair, a rate a number of basis points.  An   *)
(* amount of FTE is kept as the fraction of the phase and the rates it is  *)
(* divided by, so that nothing is rounded.                                 *)
EXTENDS Integers, Sequences, FiniteSets, FiniteSetsExt

CONSTANTS
    Categories, Static,           \* labor categories; those not escalated
    HalfWeeks,                    \* durations of each phase, in half weeks
    Grids,                        \* the cells of a pursuit that have FTE
    DueDates, Starts, CancelDates,
    NoDate,
    OverrideYears, Rates,
    MaxOverrides,                 \* bound: overridden years
    FirstYear, LastYear           \* bound: the calendar

Backward == <<"FINAL", "PREPROP", "SOL", "STRAT">>   \* BACKWARD_PHASES
Phases   == {Backward[i] : i \in DOMAIN Backward} \cup {"EN"}

(* The durations a pursuit may be imported with.                           *)
Durations ==
    {w \in [Phases -> UNION {HalfWeeks[p] : p \in Phases}] :
        \A p \in Phases : w[p] \in HalfWeeks[p]}

ASSUME StaffingAssumption ==
    /\ Static \subseteq Categories
    /\ HalfWeeks \in [Phases -> SUBSET Nat]
    /\ Grids \subseteq SUBSET (Categories \X Phases)
    /\ DueDates \subseteq Int /\ CancelDates \subseteq Int \cup {NoDate} /\ NoDate \notin Int
    /\ OverrideYears \subseteq 2000..2100 /\ MaxOverrides \in Nat
    /\ Rates \subseteq -5000..5000   \* EscalationRateIn

VARIABLES
    plan,    \* what was imported: weeks, cells, first day, cancellation
    due,     \* proposal_due_date
    rates,   \* client_escalation_rate
    dates,   \* when its phases begin and end, and the demand of each
    demand   \* category by month, as a request would find them now
vars == <<plan, due, rates, dates, demand>>

TypeOK ==
    /\ plan.weeks \in Durations /\ plan.cells \in Grids
    /\ plan.start \in Starts /\ plan.cancel \in CancelDates
    /\ due \in DueDates \cup {NoDate}
    /\ DOMAIN rates \subseteq OverrideYears
    /\ \A y \in DOMAIN rates : rates[y] \in Rates
    /\ DOMAIN demand = Categories
    /\ \A p \in DOMAIN dates : dates[p] \in Int \X Int /\ dates[p][1] <= dates[p][2]
-----------------------------------------------------------------------------
(* The calendar, of a century in which every fourth year is a leap year.   *)
DaysIn(mo) ==
    IF mo[2] = 2 /\ mo[1] % 4 = 0 THEN 29
    ELSE <<31, 28, 31, 30, 31, 30, 31, 31, 30, 31, 30, 31>>[mo[2]]

FirstDay(mo) ==
    LET before == <<0, 31, 59, 90, 120, 151, 181, 212, 243, 273, 304, 334>>
        leaps  == (mo[1] - 1) \div 4 - (FirstYear - 1) \div 4
    IN  365 * (mo[1] - FirstYear) + leaps + before[mo[2]]
        + (IF mo[2] > 2 /\ mo[1] % 4 = 0 THEN 1 ELSE 0)

MonthOf(d) ==
    LET y == FirstYear + d \div 365   \* or the year before
    IN  CHOOSE mo \in {y - 1, y} \X (1..12) : d - FirstDay(mo) \in 0..DaysIn(mo) - 1

Calendar == (FirstYear..LastYear) \X (1..12)

NextMonth(mo) == IF mo[2] = 12 THEN <<mo[1] + 1, 1>> ELSE <<mo[1], mo[2] + 1>>
-----------------------------------------------------------------------------
(* Python's round() of a number of half weeks, in days: half to even.      *)
Days(half) == LET d == (half * 7) \div 2 IN IF half % 2 = 0 THEN d ELSE d + (d % 2)

(* The calendar holds every day of every phase.                            *)
ASSUME CalendarAssumption ==
    /\ FirstYear \in 1901..2099 /\ LastYear \in FirstYear..2099
    /\ \A day \in DueDates, w \in Durations :
          /\ Days(w["FINAL"]) + Days(w["PREPROP"]) + Days(w["SOL"]) + Days(w["STRAT"]) <= day
          /\ day + Days(w["EN"]) <= FirstDay(<<LastYear, 12>>)

Staffed == {p \in Phases : \E c \in Categories : <<c, p>> \in plan.cells}

(* demand's weeks: a phase without a staffed cell has no row to read its   *)
(* duration from.                                                          *)
Weeks(p) == IF p \in Staffed THEN plan.weeks[p] ELSE 0

CutEndOnly(span) ==   \* variant: a phase that has not begun is not collapsed
    IF plan.cancel = NoDate THEN span ELSE <<span[1], Min({span[2], plan.cancel})>>

(* apply_cutoff.                                                           *)
Cut(span) ==
    LET end == Min({span[2], plan.cancel})
    IN  IF plan.cancel = NoDate THEN span
        ELSE IF end <= span[1] THEN <<span[1], span[1]>> ELSE <<span[1], end>>

(* compute_phase_dates, cut: first day, and the day after the last.        *)
PhaseDates(day) ==
    LET start[i \in 0..Len(Backward)] ==
            IF i = 0 THEN day ELSE start[i - 1] - Days(Weeks(Backward[i]))
        place(p) == CHOOSE i \in DOMAIN Backward : Backward[i] = p
    IN  [p \in Phases |->
            Cut(IF p = "EN" THEN <<day, day + Days(Weeks("EN"))>>
                ELSE <<start[place(p)], start[place(p) - 1]>>)]

InclusiveWindow(mo) == <<FirstDay(mo), FirstDay(NextMonth(mo)) - 1>>   \* variant

MonthWindow(mo) == <<FirstDay(mo), FirstDay(NextMonth(mo))>>   \* _month_window

Overlap(span, mo) ==
    Min({span[2], MonthWindow(mo)[2]}) - Max({span[1], MonthWindow(mo)[1]})

(* The months the walk of monthly_contributions comes through.             *)
Walked(span) ==
    LET from[mo \in Calendar] ==
            IF FirstDay(mo) < span[2] THEN {mo} \cup from[NextMonth(mo)] ELSE {}
    IN  from[MonthOf(span[1])]
-----------------------------------------------------------------------------
BaseYear     == 2026
GenericRates == [y \in 2026..2031 |-> <<283, 540, 265, 196, 193, 203>>[y - 2025]]

(* f where it is defined, g elsewhere.                                     *)
Over(f, g) == [x \in DOMAIN f \cup DOMAIN g |-> IF x \in DOMAIN f THEN f[x] ELSE g[x]]

KnownRates(overrides) == Over(overrides, GenericRates)

LastKnownRate(y, overrides) ==   \* variant: the flat hold takes the last rate there is
    LET known == KnownRates(overrides)
    IN  IF y \in DOMAIN known THEN known[y] ELSE known[Max(DOMAIN known)]

ResolveRate(y, overrides) ==
    LET known   == KnownRates(overrides)
        earlier == {k \in DOMAIN known : k <= y}
    IN  IF y \in DOMAIN known THEN known[y]
        ELSE IF earlier # {} THEN known[Max(earlier)] ELSE known[Min(DOMAIN known)]

(* compute_cumulative_escalation_factor, as the rates that are compounded: *)
(* those of the base year up to, but not including, the target year.       *)
Factor(year, overrides) == [i \in 1..year - BaseYear |-> ResolveRate(BaseYear + i - 1, overrides)]

(* monthly_contributions of a category: for each month, the fraction of    *)
(* each phase that falls in it, and what it is divided by.                 *)
Contributions(c, spans, overrides) ==
    LET cells == {pm \in UNION {{p} \X Walked(spans[p]) : p \in
                        {q \in Phases : <<c, q>> \in plan.cells /\ spans[q][1] < spans[q][2]}} :
                     Overlap(spans[pm[1]], pm[2]) > 0}
    IN  [mo \in {pm[2] : pm \in cells} |->
            [part   |-> [p \in {q \in Phases : <<q, mo>> \in cells} |->
                            <<Overlap(spans[p], mo), spans[p][2] - spans[p][1]>>],
             factor |-> IF c \in Static THEN <<>> ELSE Factor(mo[1], overrides)]]

(* GET /demand, or the curve on the page: a pursuit without a due date is  *)
(* not phased.                                                             *)
Dates(day) == IF day = NoDate THEN <<>> ELSE PhaseDates(day)
Demand(spans, overrides) ==
    [c \in Categories |-> IF spans = <<>> THEN <<>> ELSE Contributions(c, spans, overrides)]
-----------------------------------------------------------------------------
Init ==
    /\ plan \in [weeks : Durations, cells : Grids, start : Starts, cancel : CancelDates]
    /\ due \in DueDates /\ rates = <<>>
    /\ dates = Dates(due) /\ demand = Demand(dates, rates)

(* A PATCH of proposal_due_date: the dates must run in order.              *)
MoveDue(d) ==
    /\ d # due
    /\ NoDate \notin {d, plan.start} => plan.start <= d
    /\ due' = d /\ dates' = Dates(d) /\ demand' = Demand(dates', rates)
    /\ UNCHANGED <<plan, rates>>

PutEscalationRate(y, r) ==
    /\ Cardinality(DOMAIN rates \cup {y}) <= MaxOverrides
    /\ rates' = Over([k \in {y} |-> r], rates) /\ demand' = Demand(dates, rates')
    /\ UNCHANGED <<plan, due, dates>>

Next ==
    \/ \E d \in DueDates \cup {NoDate} : MoveDue(d)
    \/ \E y \in OverrideYears, r \in Rates : PutEscalationRate(y, r)

Spec == Init /\ [][Next]_vars
-----------------------------------------------------------------------------
(* The phases told day by day instead: each begins as many days before the *)
(* due date as it and the phases after it last, and no day is worked from  *)
(* the cancellation on.                                                    *)
Through(i) == SumFunction([k \in 1..i |-> Days(Weeks(Backward[k]))])

DaysOf(p) ==
    {d \in UNION ({due..due + Days(Weeks(q)) - 1 : q \in {p} \cap {"EN"}} \cup
                  {due - Through(i)..due - Through(i - 1) - 1 :
                      i \in {k \in DOMAIN Backward : Backward[k] = p}}) :
        plan.cancel = NoDate \/ d < plan.cancel}

(* Whatever the durations, the due date and the cancellation, over a year's*)
(* end and a leap day: the months of a category hold every day of each of  *)
(* its phases once, out of all the days there are, so that its FTE is all  *)
(* there or, cut before it begins, not at all (staffing.py:52-125).        *)
EveryDayIsWorkedOnce ==
    due # NoDate => \A c \in Categories, p \in Phases :
        LET days   == IF <<c, p>> \in plan.cells THEN DaysOf(p) ELSE {}
            months == {mo \in DOMAIN demand[c] : p \in DOMAIN demand[c][mo].part}
        IN  /\ SumFunction([mo \in months |-> demand[c][mo].part[p][1]]) = Cardinality(days)
            /\ \A mo \in months :
                  LET inMonth == days \cap (FirstDay(mo)..FirstDay(mo) + DaysIn(mo) - 1)
                  IN  demand[c][mo].part[p] = <<Cardinality(inMonth), Cardinality(days)>>

(* Overriding the rate of a year changes no figure of a static category,   *)
(* of that year or of an earlier one, nor which days are worked, and none  *)
(* at all before the base year, however rates are held over the years      *)
(* nobody gave one for (staffing_escalation.py:31-58).                     *)
OverrideReachesOnlyLaterYears ==
    [][\A c \in Categories : due' = due =>
          /\ DOMAIN demand[c]' = DOMAIN demand[c]
          /\ \A mo \in DOMAIN demand[c] :
                /\ demand[c][mo].part' = demand[c][mo].part
                /\ demand[c][mo].factor' # demand[c][mo].factor =>
                      /\ c \notin Static
                      /\ \E y \in DOMAIN rates' :
                            /\ BaseYear <= y /\ y < mo[1]
                            /\ y \in DOMAIN rates => rates'[y] # rates[y]]_vars
=============================================================================
