---------------------------- MODULE MCScheduler ----------------------------
(* Instances of Scheduler for TLC: which actions are submitted, on which   *)
(* channels, made of which items.                                          *)
EXTENDS Scheduler

CONSTANTS k1, k2, k3, c1

On(kind, channel) == [kind |-> kind, on |-> channel]

\* A key hold, and a second action that waits behind it.
HoldChannel == [x \in {k1, k2} |-> c1]
HoldProgram == [x \in {k1, k2} |-> IF x = k1 THEN <<ItemOf("hold")>> ELSE <<ItemOf("plain")>>]

\* Actions that cancel one another, and themselves, while keys are held.
CancelChannelOf == [x \in {k1, k2, k3} |-> IF x = k1 THEN Private ELSE c1]
CancelProgram ==
  [x \in {k1, k2, k3} |->
     CASE x = k1 -> <<ItemOf("holdProceed"), ItemOf("cancelAll"), ItemOf("plain")>>
       [] x = k2 -> <<ItemOf("hold"), On("cancelRecent", c1)>>
       [] x = k3 -> <<On("cancelChannel", c1)>>]
=============================================================================
