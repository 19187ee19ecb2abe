-------------------------- MODULE MCSchedulerOrder --------------------------
(* Three actions that compete for one channel: one holds a key, one is    *)
(* delayed and cancels the channel it is on, and one, which cannot be      *)
(* cancelled, cancels the latest.                                          *)
EXTENDS SchedulerOrder

CONSTANTS k1, k2, k3, c1

On(kind, channel) == [kind |-> kind, on |-> channel]

OneChannel == [x \in {k1, k2, k3} |-> c1]
Competing ==
  [x \in {k1, k2, k3} |->
     CASE x = k1 -> <<ItemOf("hold")>>
       [] x = k2 -> <<ItemOf("delay"), On("cancelChannel", c1)>>
       [] x = k3 -> <<On("cancelRecent", c1)>>]
=============================================================================
