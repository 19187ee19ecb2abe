----------------------------- MODULE Scheduler -----------------------------
(***************************************************************************)
(* The action scheduler: the scheduler thread of app/src/Scheduler.cpp     *)
(* with its ChannelManager, DelayQueue and mailbox, the worker threads it  *)
(* hands contexts to, and the items that press and release keys.           *)
(*                                                                         *)
(* A handler of the scheduler thread is one step: all it touches is        *)
(* private to that thread, except the queues and the cancel flags, which   *)
(* the workers see as it writes them.                                      *)
(*                                                                         *)
(* Every run of an Action has an id.  An action of Actions is submitted at *)
(* most once and is its own id.  An item that holds a key leaves two more  *)
(* Actions behind: Release(a, i), the delayed KeyUp, and Flush(a, i), the  *)
(* KeyUp to run when a is cancelled.  Both are on channel 0, that is on a  *)
(* private key, and uncancelable.                                          *)
(*                                                                         *)
(* Time is abstract: a delay may be over whenever the scheduler looks.     *)
(* Whatever must not depend on the order of a container is a set; the      *)
(* queues of a channel are ordered by the tickets of their entries.        *)
(*                                                                         *)
(* A definition commented as "Fault" is a wrong version of the one after   *)
(* it.  No specification uses it: put in the right one's place it makes    *)
(* TLC find a property violated, which shows that the property can fail.   *)
(***************************************************************************)
EXTENDS Naturals, Sequences, FiniteSets

CONSTANTS
  Actions,       \* the Actions callers submit
  Channels,      \* the channels other than 0
  Private,       \* channel 0
  ChannelOf,     \* Action::channel of each action
  Program,       \* the ActionItems of each action
  Cancelable,    \* the actions with Action::isCancelable
  NumWorkers,    \* threads of the pool
  MaxPauses,     \* bound on the calls of pause
  MaxCancels     \* bound on the calls of cancelAction, -Channel and -All

HoldKinds   == {"hold", "holdProceed"}
CancelKinds == {"cancelRecent", "cancelChannel", "cancelAll"}
AskKinds    == HoldKinds \cup CancelKinds
ItemKinds   == {"plain", "delay"} \cup AskKinds

Release(a, i) == <<a, i, "release">>
Flush(a, i)   == <<a, i, "flush">>

HoldsOf(a) == {i \in DOMAIN Program[a] : Program[a][i].kind \in HoldKinds}
Holds    == UNION {{a} \X HoldsOf(a) : a \in Actions}
Releases == {Release(h[1], h[2]) : h \in Holds}
Flushes  == {Flush(h[1], h[2]) : h \in Holds}
Ids      == Actions \cup Releases \cup Flushes
Keys     == Channels \cup Ids

Item == [kind : ItemKinds, on : Channels \cup {Private}]

ASSUME SchedulerAssumption ==
  /\ IsFiniteSet(Actions)
  /\ Private \notin Channels
  /\ ChannelOf \in [Actions -> Channels \cup {Private}]
  /\ Program \in [Actions -> Seq(Item)]
  /\ Cancelable \subseteq Actions
  /\ Actions \cap (Releases \cup Flushes) = {}
  /\ Channels \cap Ids = {}
  /\ NumWorkers \in Nat \ {0}
  /\ MaxPauses \in Nat /\ MaxCancels \in Nat

ItemOf(kind) == [kind |-> kind, on |-> Private]

\* The items of an id: AI_Delay then AI_KeyRelease, or AI_KeyRelease alone.
ItemsOf(id) ==
  CASE id \in Actions  -> Program[id]
    [] id \in Releases -> <<ItemOf("delay"), ItemOf("release")>>
    [] id \in Flushes  -> <<ItemOf("release")>>

\* resolveKey: channel 0 stands for a fresh key per context.
KeyOf(id) ==
  IF id \in Actions /\ ChannelOf[id] # Private THEN ChannelOf[id] ELSE id

VARIABLES
  mailbox,       \* m_mailbox
  unsent,        \* actions no caller has submitted yet
  live,          \* ids registered with the scheduler and bound to a key
  ticket,        \* m_submitOrder: when each action was registered
  busy,          \* keys whose ChannelState is busy
  waiting,       \* entries of the ChannelStates' waiting queues
  delayed,       \* m_delayQueue
  pausedReady,   \* m_pausedReady
  flushOf,       \* m_flushActions: the holds of an action to flush
  linked,        \* m_linkedDelayedByParent: the holds whose release is linked
  flagged,       \* contexts whose cancel flag is set
  paused,        \* m_paused, here and in the pool
  inbound,       \* WorkerPool::m_inbound
  urgent,        \* WorkerPool::m_urgent
  running,       \* contexts in the hands of a worker
  executing,     \* those of them inside ActionItem::execute
  index,         \* m_currentIndex of each context
  down,          \* holds whose key is pressed
  cancelled,     \* actions a cancel request has found registered
  pauses, cancels

schedVars  == <<live, ticket, busy, waiting, delayed, pausedReady,
                flushOf, linked, flagged, urgent, inbound>>
workerVars == <<running, executing, index, down>>
callVars   == <<unsent, pauses, cancels>>
vars == <<mailbox, unsent, live, ticket, busy, waiting, delayed, pausedReady,
          flushOf, linked, flagged, paused, inbound, urgent, running,
          executing, index, down, cancelled, pauses, cancels>>

Statuses == {"Continue", "Delayed", "Completed", "Cancelled"}

Submitted(a) == [type |-> "submit", of |-> a]

\* A context comes back with what its last item left in it: the holds whose
\* flush and release it registered, and the cancels it requested.
Result(id, status, held, requests) ==
  [type |-> "result", of |-> id, status |-> status, held |-> held,
   requests |-> requests]

CancelItem == [kind : CancelKinds, on : Channels \cup {Private}]

ActionResults(a) ==
  [type : {"result"}, of : {a}, status : Statuses, held : SUBSET HoldsOf(a),
   requests : SUBSET CancelItem]

\* KeyUps leave nothing behind.
KeyUpResults ==
  [type : {"result"}, of : Releases \cup Flushes, status : Statuses,
   held : {{}}, requests : {{}}]

Results == KeyUpResults \cup UNION {ActionResults(a) : a \in Actions}

Events ==
  [type : {"submit", "cancelAction"}, of : Actions]
    \cup [type : {"cancelChannel"}, of : Channels \cup {Private}]
    \cup [type : {"cancelAll", "pause", "resume"}]
    \cup Results

Init ==
  /\ mailbox = <<>> /\ unsent = Actions
  /\ live = {} /\ ticket = [a \in Actions |-> 0]
  /\ busy = {} /\ waiting = {} /\ delayed = {} /\ pausedReady = {}
  /\ flushOf = [a \in Actions |-> {}] /\ linked = [a \in Actions |-> {}]
  /\ flagged = {} /\ paused = FALSE
  /\ inbound = {} /\ urgent = {} /\ running = {} /\ executing = {}
  /\ index = [id \in Ids |-> 0]
  /\ down = {} /\ cancelled = {}
  /\ pauses = 0 /\ cancels = 0

-----------------------------------------------------------------------------
(* The callers: any thread may push to the mailbox.                        *)

Push(event) == mailbox' = Append(mailbox, event)

CallersRest == UNCHANGED <<schedVars, workerVars, paused, cancelled>>

Submit(a) ==
  /\ a \in unsent
  /\ unsent' = unsent \ {a}
  /\ Push(Submitted(a))
  /\ UNCHANGED <<pauses, cancels>>
  /\ CallersRest

CancelCall(event) ==
  /\ cancels < MaxCancels
  /\ cancels' = cancels + 1
  /\ Push(event)
  /\ UNCHANGED <<unsent, pauses>>
  /\ CallersRest

\* A caller knows the id of an action it has submitted.
RequestCancel ==
  \/ \E a \in Actions \ unsent : CancelCall([type |-> "cancelAction", of |-> a])
  \/ \E c \in Channels \cup {Private} :
       CancelCall([type |-> "cancelChannel", of |-> c])
  \/ CancelCall([type |-> "cancelAll"])

RequestPause ==
  /\ pauses < MaxPauses
  /\ pauses' = pauses + 1
  /\ Push([type |-> "pause"])
  /\ UNCHANGED <<unsent, cancels>>
  /\ CallersRest

\* A resume can be asked for as often as a pause was.
RequestResume ==
  /\ pauses > 0
  /\ \A i \in DOMAIN mailbox : mailbox[i].type # "resume"
  /\ Push([type |-> "resume"])
  /\ UNCHANGED callVars
  /\ CallersRest

-----------------------------------------------------------------------------
(* What the handlers of the scheduler thread are made of.                  *)

\* Fault: a context destroyed in the delay queue keeps its channel.
FreedKeysNotDelayed(gone) == {KeyOf(d) : d \in gone \ (waiting \cup delayed)}
\* Destroying a context frees its key, unless it was waiting for it.
FreedKeys(gone) == {KeyOf(d) : d \in gone \ waiting}

\* Fault: only a hand-over marks the channel busy.
TakenKeysOfWaiters(started) == {KeyOf(id) : id \in started \cap waiting}

\* Starting a context, admitted or handed the channel, takes its key.
TakenKeys(started) == {KeyOf(id) : id \in started}

\* Fault: the channel goes to the newest waiter.
PromotedNewest(freed, gone) ==
  {w \in waiting \ gone :
     /\ KeyOf(w) \in freed
     /\ \A v \in waiting \ gone :
          KeyOf(v) = KeyOf(w) => ticket[w] >= ticket[v]}

\* Fault: the channel goes to all its waiters, destroyed ones too.
PromotedCancelled(freed, gone) ==
  {w \in waiting : KeyOf(w) \in freed}

\* The front of each freed channel's waiting queue, once gone has left it.
Promoted(freed, gone) ==
  {w \in waiting \ gone :
     /\ KeyOf(w) \in freed
     /\ \A v \in waiting \ gone :
          KeyOf(v) = KeyOf(w) => ticket[w] <= ticket[v]}

(***************************************************************************)
(* The effect of a handler on the contexts:                                *)
(*   gone      destroyed here: unbound, unregistered, out of every queue,  *)
(*             their key released unless they were waiting for it;         *)
(*   orphaned  unbound and unregistered while a worker has them;           *)
(*   fresh     registered and admitted on a free key, to run now;          *)
(*   forced    flushes, registered and handed to the pool as urgent;       *)
(*   resumed   contexts to run again;    parked  contexts to delay.        *)
(***************************************************************************)
Settle(gone, orphaned, fresh, forced, resumed, parked) ==
  LET freed == FreedKeys(gone)
      next  == Promoted(freed, gone)
      ready == next \cup fresh \cup resumed
  IN  /\ live' = (live \ (gone \cup orphaned)) \cup fresh \cup forced
      /\ waiting' = waiting \ (gone \cup next)
      /\ busy' = (busy \ freed) \cup TakenKeys(next \cup fresh \cup forced)
      /\ delayed' = (delayed \ gone) \cup parked
      /\ pausedReady' = (pausedReady \ gone) \cup (IF paused THEN ready ELSE {})
      /\ inbound' = inbound \cup (IF paused THEN {} ELSE ready)
      /\ urgent' = urgent \cup forced

\* Fault: isCancelable is not asked.
TargetsUncancelable(scope, of, requester) ==
  CASE scope = "cancelAction"  -> live \cap {of}
    [] scope = "cancelChannel" -> {a \in live \cap Actions : ChannelOf[a] = of}
    [] OTHER                   -> live \cap Actions

\* Registered actions a cancel request names; the others are skipped.
Targets(scope, of, requester) ==
  LET found == live \cap Cancelable
      recent == {a \in found \ {requester} : of \in {Private, ChannelOf[a]}}
  IN  CASE scope = "cancelAction"  -> found \cap {of}
        [] scope = "cancelChannel" -> {a \in found : ChannelOf[a] = of}
        [] scope = "cancelAll"     -> found
        [] scope = "cancelRecent"  ->
             {a \in recent : \A b \in recent : ticket[b] <= ticket[a]}

\* Fault: a parked action is not flushed.
FlushesOfStarted(S) == UNION {{Flush(a, i) : i \in flushOf[a]} : a \in S \ delayed}

LinkedTo(S)  == UNION {{Release(a, i) : i \in linked[a]} : a \in S}
FlushesOf(S) == UNION {{Flush(a, i) : i \in flushOf[a]} : a \in S}

\* What handleCancelAction destroys of S at once: what no worker has.
Discarded(S) ==
  (S \cap waiting) \cup ((S \cup LinkedTo(S)) \cap (delayed \cup pausedReady))

Popped(type) ==
  /\ mailbox # <<>>
  /\ Head(mailbox).type = type
  /\ mailbox' = Tail(mailbox)

SchedulerRest == UNCHANGED <<callVars, workerVars>>

-----------------------------------------------------------------------------
(* The handlers.                                                           *)

HandleSubmit ==
  /\ Popped("submit")
  /\ LET a == Head(mailbox).of IN
     /\ ticket' = [ticket EXCEPT ![a] =
                    1 + Cardinality({b \in Actions : ticket[b] > 0})]
     /\ IF KeyOf(a) \in busy
        THEN /\ live' = live \cup {a}
             /\ waiting' = waiting \cup {a}
             /\ UNCHANGED <<busy, delayed, pausedReady, inbound, urgent>>
        ELSE Settle({}, {}, {a}, {}, {}, {})
  /\ UNCHANGED <<flushOf, linked, flagged, paused, cancelled>>
  /\ SchedulerRest

\* cancelAction, cancelChannel and cancelAll, the waiters first.
HandleCancel(scope) ==
  /\ Popped(scope)
  /\ LET S == Targets(scope, IF scope = "cancelAll" THEN Private ELSE Head(mailbox).of, Private)
         gone == Discarded(S)
     IN  /\ Settle(gone, LinkedTo(S) \ gone, {}, FlushesOf(S), {}, {})
         /\ flushOf' = [a \in Actions |-> IF a \in S THEN {} ELSE flushOf[a]]
         /\ linked' = [a \in Actions |-> IF a \in S THEN {} ELSE linked[a]]
         /\ flagged' = flagged \cup (S \ gone)
         /\ cancelled' = cancelled \cup S
  /\ UNCHANGED <<ticket, paused>>
  /\ SchedulerRest

HandlePause ==
  /\ Popped("pause")
  /\ paused' = TRUE
  /\ UNCHANGED <<schedVars, cancelled>>
  /\ SchedulerRest

\* The held contexts are dispatched, and whatever is due after the shift.
HandleResume ==
  /\ Popped("resume")
  /\ \/ ~paused /\ UNCHANGED <<paused, inbound, delayed, pausedReady>>
     \/ /\ paused
        /\ paused' = FALSE
        /\ \E due \in SUBSET delayed :
             /\ delayed' = delayed \ due
             /\ inbound' = inbound \cup pausedReady \cup due
        /\ pausedReady' = {}
  /\ UNCHANGED <<live, ticket, busy, waiting, flushOf, linked, flagged,
                 urgent, cancelled>>
  /\ SchedulerRest

\* Fault: delays expire while paused.
ProcessDueDelaysPaused ==
  /\ \E due \in SUBSET delayed \ {{}} :
       /\ delayed' = delayed \ due
       /\ inbound' = inbound \cup due
  /\ UNCHANGED <<mailbox, live, ticket, busy, waiting, pausedReady, flushOf,
                 linked, flagged, urgent, paused, cancelled>>
  /\ SchedulerRest

\* popDue between two events.
ProcessDueDelays ==
  /\ ~paused
  /\ \E due \in SUBSET delayed \ {{}} :
       /\ delayed' = delayed \ due
       /\ inbound' = inbound \cup due
  /\ UNCHANGED <<mailbox, live, ticket, busy, waiting, pausedReady, flushOf,
                 linked, flagged, urgent, paused, cancelled>>
  /\ SchedulerRest

(***************************************************************************)
(* A worker's result.  What the last item left in the context is ingested  *)
(* first: a hold registers its flush and, unless the action terminates as  *)
(* cancelled, submits its release; a cancel item cancels.  Then the action *)
(* goes on, is parked, or ends and hands its channel over.                 *)
(***************************************************************************)
HandleResult ==
  /\ Popped("result")
  /\ LET r    == Head(mailbox)
         id   == r.of
         S    == UNION {Targets(q.kind, q.on, id) : q \in r.requests}
         stop == \/ r.status = "Cancelled"
                 \/ r.status # "Completed" /\ id \in live \cap (flagged \cup S)
         ends == id \in live /\ (stop \/ r.status = "Completed")
         gone == Discarded(S) \cup (IF ends THEN {id} ELSE {})
         goes == IF id \in live /\ ~ends THEN {id} ELSE {}
     IN  /\ Settle(gone,
                   LinkedTo(S) \ gone,
                   IF r.status = "Cancelled" THEN {}
                   ELSE {Release(id, i) : i \in r.held},
                   FlushesOf(S) \cup
                     (IF stop
                      THEN FlushesOf({id} \cap Actions) \cup {Flush(id, i) : i \in r.held}
                      ELSE {}),
                   IF r.status = "Continue" THEN goes ELSE {},
                   IF r.status = "Delayed" THEN goes ELSE {})
         /\ flushOf' = [a \in Actions |->
                          IF a \in S \cup gone THEN {}
                          ELSE IF a = id THEN flushOf[a] \cup r.held ELSE flushOf[a]]
         /\ linked' = [a \in Actions |->
                         IF a \in S \cup gone THEN {}
                         ELSE IF a = id THEN linked[a] \cup r.held ELSE linked[a]]
         /\ flagged' = (flagged \cup S) \ gone
         /\ cancelled' = cancelled \cup S
  /\ UNCHANGED <<ticket, paused>>
  /\ SchedulerRest

-----------------------------------------------------------------------------
(* The workers.  The gate they sleep at while paused is module WorkerPool: *)
(* here a worker may still take an inbound context after the pause, as one *)
(* that passed the gate before it does.                                    *)

WorkerRest ==
  UNCHANGED <<live, ticket, busy, waiting, delayed, pausedReady, flushOf,
              linked, flagged, paused, cancelled, callVars>>

WorkerFree == Cardinality(running) < NumWorkers

TakeUrgent ==
  /\ WorkerFree
  /\ \E id \in urgent : urgent' = urgent \ {id} /\ running' = running \cup {id}
  /\ UNCHANGED <<mailbox, inbound, executing, index, down>>
  /\ WorkerRest

TakeInbound ==
  /\ WorkerFree
  /\ \E id \in inbound : inbound' = inbound \ {id} /\ running' = running \cup {id}
  /\ UNCHANGED <<mailbox, urgent, executing, index, down>>
  /\ WorkerRest

Finished(id) == index[id] >= Len(ItemsOf(id))

\* Fault: a flush sees the pause.
BeginItemUnpaused(id) ==
  /\ id \in running \ executing
  /\ ~Finished(id) /\ id \notin flagged
  /\ ~paused
  /\ executing' = executing \cup {id}
  /\ UNCHANGED <<mailbox, inbound, urgent, running, index, down>>
  /\ WorkerRest

\* The flag is read, then the pool's pause, then the item executes; between
\* them the worker touches nothing that is shared.  A cancel or a pause that
\* is handled in between finds the item begun here, as it finds it in execute.
BeginItem(id) ==
  /\ id \in running \ executing
  /\ ~Finished(id) /\ id \notin flagged
  /\ ~paused \/ id \in Flushes
  /\ executing' = executing \cup {id}
  /\ UNCHANGED <<mailbox, inbound, urgent, running, index, down>>
  /\ WorkerRest

Deliver(id, status, held, requests) ==
  /\ Push(Result(id, status, held, requests))
  /\ running' = running \ {id}

\* execute returns and the index advances.  A delay and requests for the
\* scheduler end the worker's turn.
EndItem(id) ==
  /\ id \in executing
  /\ executing' = executing \ {id}
  /\ index' = [index EXCEPT ![id] = @ + 1]
  /\ LET at   == index[id] + 1
         item == ItemsOf(id)[at]
         held == IF item.kind \in HoldKinds THEN {at} ELSE {}
         next == IF id \in flagged THEN "Cancelled"
                 ELSE IF at = Len(ItemsOf(id)) THEN "Completed" ELSE "Continue"
     IN  /\ down' = IF item.kind = "release" THEN down \ {<<id[1], id[2]>>}
                    ELSE down \cup {<<id, i>> : i \in held}
         /\ CASE item.kind \in {"hold", "delay"} -> Deliver(id, "Delayed", held, {})
              [] item.kind = "holdProceed"       -> Deliver(id, next, held, {})
              [] item.kind \in CancelKinds       -> Deliver(id, next, {}, {item})
              [] OTHER                           -> UNCHANGED <<mailbox, running>>
  /\ UNCHANGED <<inbound, urgent>>
  /\ WorkerRest

\* Between items: end of the action, a cancel, or a pause.
EndTurn(id) ==
  /\ id \in running \ executing
  /\ \/ Finished(id) /\ id \notin flagged /\ Deliver(id, "Completed", {}, {})
     \/ id \in flagged /\ Deliver(id, "Cancelled", {}, {})
     \/ /\ ~Finished(id) /\ id \notin flagged
        /\ paused /\ id \notin Flushes
        /\ Deliver(id, "Continue", {}, {})
  /\ UNCHANGED <<inbound, urgent, executing, index, down>>
  /\ WorkerRest

-----------------------------------------------------------------------------
CallerStep ==
  \/ \E a \in Actions : Submit(a)
  \/ RequestCancel \/ RequestPause \/ RequestResume

HandleEvent ==
  \/ HandleSubmit
  \/ \E scope \in {"cancelAction", "cancelChannel", "cancelAll"} : HandleCancel(scope)
  \/ HandlePause \/ HandleResume \/ HandleResult

WorkerStep ==
  \/ TakeUrgent \/ TakeInbound
  \/ \E id \in Ids : BeginItem(id) \/ EndItem(id) \/ EndTurn(id)

Next == CallerStep \/ HandleEvent \/ ProcessDueDelays \/ WorkerStep

Spec == Init /\ [][Next]_vars

\* The scheduler thread handles its events and looks at its delays, a worker
\* takes and executes contexts, and the execution of an item ends.  No caller
\* is obliged to do anything.
Fairness == WF_vars(HandleEvent) /\ WF_vars(ProcessDueDelays) /\ WF_vars(WorkerStep)

FairSpec == Spec /\ Fairness

-----------------------------------------------------------------------------
(* Properties.                                                             *)

\* Contexts whose result is still in the mailbox.
Reported == {mailbox[n].of : n \in {m \in DOMAIN mailbox : mailbox[m].type = "result"}}

\* Contexts that hold their key: every one that is not waiting for it.
InFlight == inbound \cup urgent \cup running \cup Reported \cup delayed \cup pausedReady

\* The values the scheduler's tables and queues range over.
TypeOK ==
  /\ mailbox \in Seq(Events) /\ unsent \subseteq Actions
  /\ live \subseteq Ids /\ ticket \in [Actions -> Nat]
  /\ busy \subseteq Keys /\ waiting \subseteq Actions
  /\ delayed \subseteq Ids /\ pausedReady \subseteq Ids
  /\ flushOf \in [Actions -> SUBSET Nat] /\ linked \in [Actions -> SUBSET Nat]
  /\ \A a \in Actions : flushOf[a] \cup linked[a] \subseteq HoldsOf(a)
  /\ flagged \subseteq Actions /\ paused \in BOOLEAN
  /\ inbound \subseteq Ids /\ urgent \subseteq Flushes
  /\ running \subseteq Ids /\ executing \subseteq running
  /\ index \in [Ids -> Nat]
  /\ down \subseteq Holds /\ cancelled \subseteq Cancelable
  /\ pauses \in 0 .. MaxPauses /\ cancels \in 0 .. MaxCancels

\* "At most one Action in-flight per channel key" (Scheduler.hpp:49): through
\* delays, pauses, cancels and hand-overs no key has two holders.
OneHolderPerKey ==
  \A x, y \in InFlight : KeyOf(x) = KeyOf(y) => x = y

\* No channel is stuck: an action waits only behind a registered holder that
\* will release the channel, and a busy channel has such a holder.
WaitersHaveHolder ==
  \A c \in Channels :
    c \in busy \cup {KeyOf(w) : w \in waiting}
      => \E x \in InFlight \cap live : KeyOf(x) = c

\* A key an item has pressed stays pressed only while something is on its way
\* to release it: the delayed KeyUp, the cancel-flush, or the result that
\* will have the scheduler register both.
PressedKeysGetReleased ==
  \A h \in down :
    \/ \E id \in {Release(h[1], h[2]), Flush(h[1], h[2])} :
         id \in live \cap InFlight /\ ~Finished(id)
    \/ \E n \in DOMAIN mailbox :
         /\ mailbox[n].type = "result" /\ mailbox[n].of = h[1]
         /\ h[2] \in mailbox[n].held

\* Once the scheduler has handled a cancel of an action, the item in progress
\* is its last, wherever its context was (Scheduler.hpp:64).
CancelledRunNoMoreItems ==
  [][\A a \in cancelled : a \in executing' => a \in executing]_vars

\* An action that is not cancelable leaves the scheduler only after its last
\* item (Scheduler.hpp:65).
UncancelableRunsToEnd ==
  [][\A a \in Actions \ Cancelable :
       a \in live /\ a \notin live' => Finished(a)]_vars

\* A paused scheduler hands the pool nothing but flushes, and consumes no
\* delay except by a cancel (Scheduler.hpp:72-73).
PausedDispatchesNothing ==
  [][paused /\ paused' =>
       inbound' \subseteq inbound /\ \A id \in delayed : id \in delayed' \/ id \notin live']_vars

\* The flush of a cancelled action is executed, paused or not (Scheduler.hpp:66,69).
FlushesAreExecuted ==
  \A f \in Flushes : f \in urgent ~> f \notin InFlight /\ Finished(f)

\* Unless paused for ever, every submitted action ends and frees its channel.
ActionsEnd ==
  <>[]~paused => \A a \in Actions : a \notin unsent ~> (ticket[a] > 0 /\ a \notin live)

\* Unless paused for ever, no key is left pressed.
KeysAreReleased == <>[]~paused => <>[](down = {})

\* "links delayed cleanup that is discarded when the parent is cancelled
\* (after flush)" (Scheduler.hpp:67-68): when the parent of a linked release
\* has been cancelled and is gone, so is the release.
\* The code does not keep this; the README says how it fails.
LinkedReleaseDiscarded ==
  \A h \in Holds :
    h[1] \in cancelled \ live => Release(h[1], h[2]) \notin live

=============================================================================
