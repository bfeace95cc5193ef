-------------------------- MODULE TwoLanePriority --------------------------
(***************************************************************************)
(* TwoLaneQueue with a history variable that remembers by which lane the   *)
(* keys of the consumer queue came, to ask what its doc says of priority.  *)
(***************************************************************************)
EXTENDS TwoLaneQueue

VARIABLE direct      \* keys in consumerQueue that came by the fast lane

ReceivesFast(k) ==
    /\ pump["fast"].item = k
    /\ pump'["fast"].item = None

Takes(w, k) == active[w] # k /\ active'[w] = k

PriorityInit == Init /\ direct = {}

PriorityNext ==
    /\ Next
    /\ direct' = { k \in Keys :
                     \/ ReceivesFast(k)
                     \/ k \in direct /\ \A w \in Workers : ~Takes(w, k) }

PrioritySpec == PriorityInit /\ [][PriorityNext]_<<vars, direct>>

(***************************************************************************)
(* The doc of the type, "slow queue, whose contents are processed if fast  *)
(* queue has no items" (two_lane_queue.go:28), and of Get, "It gets the    *)
(* item from fast lane if it has anything, alternatively the slow lane"    *)
(* (223-224): a worker takes a key that came by the slow lane alone only   *)
(* while the fast lane holds nothing.                                      *)
(***************************************************************************)
FastLaneFirst ==
    [][ lane["fast"].queue # <<>> =>
            \A w \in Workers, k \in Keys : Takes(w, k) => k \in direct ]_<<vars, direct>>

=============================================================================
