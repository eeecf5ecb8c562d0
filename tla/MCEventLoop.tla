---------------------------- MODULE MCEventLoop ----------------------------
(* Three requests of every kind, about two pursuits, with two connections. *)
(* Requests and pursuits are numbered, and interchangeable, so it is       *)
(* enough to start with the requests in the order of their kinds and       *)
(* pursuits, and the first one about the first pursuit.                    *)
EXTENDS EventLoop, TLC

Rank == "patch" :> 1 @@ "ruling" :> 2 @@ "recalc" :> 3 @@ "edit" :> 4
        @@ "read" :> 5 @@ "login" :> 6

MCInit ==
    /\ Init
    /\ on[1] = 1
    /\ \A i, j \in Requests : i < j =>
          \/ Rank[kind[i]] < Rank[kind[j]]
          \/ kind[i] = kind[j] /\ on[i] <= on[j]

MCSpec == MCInit /\ [][Next]_vars /\ Fairness
=============================================================================
