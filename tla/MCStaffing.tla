----------------------------- MODULE MCStaffing -----------------------------
(* Three staffing grids, durations and due dates that cross a year's end   *)
(* and a leap day, and rates in and beyond the generic table.              *)
EXTENDS Staffing

Day(y, m, d) == FirstDay(<<y, m>>) + d - 1

MCHalfWeeks  == [p \in Phases |->
    CASE p = "FINAL" -> {0, 3} [] p = "PREPROP" -> {1} [] p = "SOL" -> {9}
      [] p = "STRAT" -> {0, 57} [] p = "EN" -> {5}]
MCCategories == {"CM", "ENG"}
MCStatic     == {"CM"}
MCGrids      == {{<<"ENG", p>> : p \in Phases},
                 {<<"CM", p>> : p \in Phases} \cup {<<"ENG", "STRAT">>},
                 {<<"CM", "FINAL">>, <<"ENG", "SOL">>, <<"ENG", "EN">>}}
MCDueDates   == {Day(2027, 1, 10), Day(2028, 3, 2), Day(2033, 1, 20)}
MCRates      == {-100, 300}
MCStarts     == {NoDate, Day(2027, 6, 1)}
MCCancelDates == {NoDate, Day(2027, 1, 10), Day(2028, 2, 29), Day(2032, 12, 1)}
=============================================================================
