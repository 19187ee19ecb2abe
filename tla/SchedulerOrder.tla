-------------------------- MODULE SchedulerOrder --------------------------
(* The scheduler keeps the promise of ChannelOrder: the queue of a channel *)
(* is its registered actions in the order of their registration.           *)
EXTENDS Scheduler

OnChannels == {a \in Actions : ChannelOf[a] # Private}

Ahead(S, t, a) == {b \in S : t[b] < t[a]}

\* The elements of S, those with a lower ticket first.
Ranked(S, t) ==
  [n \in 1 .. Cardinality(S) |->
     CHOOSE a \in S : Cardinality(Ahead(S, t, a)) = n - 1]

RegisteredOn(c) == {a \in live \cap OnChannels : ChannelOf[a] = c}

Queued == [c \in Channels |-> Ranked(RegisteredOn(c), ticket)]

Entered == {a \in OnChannels : ticket[a] > 0}

Order == INSTANCE ChannelOrder WITH
  Members <- OnChannels,
  HomeOf  <- ChannelOf,
  queue   <- Queued,
  inItem  <- executing \cap OnChannels,
  entered <- Entered

\* "Preserve strict FIFO ordering within channels": whatever is submitted,
\* cancelled, delayed, paused or resumed, items of a channel are executed only
\* for the action admitted first of those still there, one at a time.
ChannelsKeepOrder == Order!Spec
=============================================================================
