-------------------------- MODULE DependencyForest --------------------------
(***************************************************************************)
(* What the "Depends on" column promises, with no handler in sight: every  *)
(* pursuit has at most one predecessor, and following predecessors never   *)
(* comes back to where it started.  The dependency blend is only           *)
(* meaningful on such a forest: a pursuit's factor is its predecessor's    *)
(* own Pwin.                                                               *)
(***************************************************************************)
CONSTANTS
    Pursuits,      \* the pursuits of one client
    NoPursuit      \* the NULL of depends_on_pursuit_id

VARIABLE predecessor   \* predecessor[p]: the pursuit p depends on, or NoPursuit

(***************************************************************************)
(* A forest has no closed set: in every nonempty set of pursuits, some     *)
(* member's predecessor lies outside the set (or does not exist).          *)
(***************************************************************************)
IsForest(f) ==
    \A S \in SUBSET Pursuits : S # {} => \E p \in S : f[p] \notin S

Init == predecessor = [p \in Pursuits |-> NoPursuit]

(* One pursuit is given a predecessor, and the result is still a forest.   *)
Link(p, t) ==
    /\ IsForest([predecessor EXCEPT ![p] = t])
    /\ predecessor' = [predecessor EXCEPT ![p] = t]

(* Some pursuits lose their predecessor.                                   *)
Unlink(S) ==
    predecessor' = [p \in Pursuits |-> IF p \in S THEN NoPursuit
                                                  ELSE predecessor[p]]

Next ==
    \/ \E p, t \in Pursuits : Link(p, t)
    \/ \E S \in SUBSET Pursuits : Unlink(S)

Spec == Init /\ [][Next]_predecessor
=============================================================================
