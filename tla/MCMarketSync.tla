---------------------------- MODULE MCMarketSync ----------------------------
(* Two clients and three real markets: 1 and 2 are slugged into the same   *)
(* code, and 3 into the code 2 gets when 1 is there first.                 *)
EXTENDS MarketSync

MCClients  == <<"AERO", "DEMO">>
MCBaseCode == [n \in 1..4 |-> CASE n \in {1, 2} -> <<1>>
                                   [] n = 3 -> <<1, 2>>
                                   [] n = 4 -> <<4>>]
MCSeeded   == [c \in {"AERO", "DEMO"} |-> IF c = "AERO" THEN {1} ELSE {2, 3}]
=============================================================================
