-------------------------- MODULE Scheduler_proofs --------------------------
(* Proofs about the scheduler, for every set of actions, channels and      *)
(* programs, every number of workers and every sequence of calls.          *)
EXTENDS Scheduler, FiniteSetTheorems, WellFoundedInduction, TLAPS

-----------------------------------------------------------------------------
(* Types.  Only a context that is inside an item advances its index, and   *)
(* it has an item to execute.                                              *)

ItemLeft == \A id \in executing : ~Finished(id)

TypeInv == TypeOK /\ ItemLeft

\* Holds, releases and flushes are ids of their own kind.
LEMMA IdFacts ==
  /\ \A a \in Actions : \A i \in HoldsOf(a) :
       /\ <<a, i>> \in Holds /\ i \in Nat
       /\ Release(a, i) \in Releases /\ Flush(a, i) \in Flushes
  /\ \A f \in Releases \cup Flushes : <<f[1], f[2]>> \in Holds
  /\ Actions \subseteq Ids /\ Releases \subseteq Ids /\ Flushes \subseteq Ids
<1>1. ASSUME NEW a \in Actions, NEW i \in HoldsOf(a)
      PROVE  /\ <<a, i>> \in Holds /\ i \in Nat
             /\ Release(a, i) \in Releases /\ Flush(a, i) \in Flushes
  <2>1. <<a, i>> \in Holds
    BY DEF Holds
  <2>2. i \in Nat
    BY SchedulerAssumption DEF HoldsOf
  <2>3. Release(a, i) \in Releases /\ Flush(a, i) \in Flushes
    BY <2>1 DEF Releases, Flushes
  <2>4. QED BY <2>1, <2>2, <2>3
<1>2. ASSUME NEW f \in Releases \cup Flushes PROVE <<f[1], f[2]>> \in Holds
  <2>1. PICK h \in Holds : f = Release(h[1], h[2]) \/ f = Flush(h[1], h[2])
    BY DEF Releases, Flushes
  <2>2. f[1] = h[1] /\ f[2] = h[2]
    BY <2>1 DEF Release, Flush
  <2>3. h = <<h[1], h[2]>>
    BY DEF Holds
  <2>4. QED BY <2>2, <2>3
<1>3. QED BY <1>1, <1>2 DEF Ids

\* The three kinds of ids are disjoint.
LEMMA IdsDisjoint ==
  /\ Actions \cap Releases = {} /\ Actions \cap Flushes = {}
  /\ Releases \cap Flushes = {}
<1>1. \A f \in Releases : f[3] = "release"
  BY DEF Releases, Release
<1>2. \A f \in Flushes : f[3] = "flush"
  BY DEF Flushes, Flush
<1>3. QED BY <1>1, <1>2, SchedulerAssumption

AnyItem == [kind : ItemKinds \cup {"release"}, on : Channels \cup {Private}]

\* Every id has a sequence of items; only actions have items that ask.
LEMMA ItemsFacts ==
  ASSUME NEW id \in Ids
  PROVE  /\ ItemsOf(id) \in Seq(AnyItem)
         /\ id \in Actions => ItemsOf(id) = Program[id]
         /\ \A i \in DOMAIN ItemsOf(id) :
              ItemsOf(id)[i].kind \in AskKinds => id \in Actions
<1> USE IdsDisjoint
<1>1. CASE id \in Actions
  <2>1. ItemsOf(id) = Program[id]
    BY <1>1 DEF ItemsOf
  <2>2. Program[id] \in Seq(Item)
    BY <1>1, SchedulerAssumption
  <2>3. \A x \in Item : x \in AnyItem
    BY DEF Item, AnyItem
  <2>4. Program[id] \in Seq(AnyItem)
    BY <2>2, <2>3
  <2>5. QED BY <1>1, <2>1, <2>4
<1>2. CASE id \in Releases
  <2>1. ItemsOf(id) = <<ItemOf("delay"), ItemOf("release")>>
    BY <1>2 DEF ItemsOf
  <2>2. QED
    BY <1>2, <2>1 DEF ItemOf, AnyItem, ItemKinds, AskKinds, HoldKinds, CancelKinds
<1>3. CASE id \in Flushes
  <2>1. ItemsOf(id) = <<ItemOf("release")>>
    BY <1>3 DEF ItemsOf
  <2>2. QED
    BY <1>3, <2>1 DEF ItemOf, AnyItem, ItemKinds, AskKinds, HoldKinds, CancelKinds
<1>4. QED BY <1>1, <1>2, <1>3 DEF Ids

\* What a result carries.
LEMMA ResultFacts ==
  ASSUME NEW m \in Results
  PROVE  /\ m.type = "result" /\ m.of \in Ids /\ m.status \in Statuses
         /\ m.requests \subseteq CancelItem
         /\ m.of \in Actions => m.held \subseteq HoldsOf(m.of)
         /\ m.of \notin Actions => m.held = {} /\ m.requests = {}
<1>1. ASSUME NEW a \in Actions, m \in ActionResults(a)
      PROVE  /\ m.type = "result" /\ m.of = a /\ m.status \in Statuses
             /\ m.requests \subseteq CancelItem /\ m.held \subseteq HoldsOf(a)
  BY <1>1 DEF ActionResults
<1>2. ASSUME m \in KeyUpResults
      PROVE  /\ m.type = "result" /\ m.of \in Releases \cup Flushes
             /\ m.status \in Statuses /\ m.held = {} /\ m.requests = {}
  BY <1>2 DEF KeyUpResults
<1>3. CASE \E a \in Actions : m \in ActionResults(a)
  <2>1. PICK a \in Actions : m \in ActionResults(a)
    BY <1>3
  <2>2. m.of = a /\ a \in Ids
    BY <1>1, <2>1 DEF Ids
  <2>3. QED BY <1>1, <2>1, <2>2
<1>4. CASE m \in KeyUpResults
  <2>1. m.of \in Ids /\ m.of \notin Actions
    BY <1>2, <1>4, IdsDisjoint DEF Ids
  <2>2. QED BY <1>2, <1>4, <2>1
<1>5. (\E a \in Actions : m \in ActionResults(a)) \/ m \in KeyUpResults
  BY DEF Results
<1>6. QED BY <1>3, <1>4, <1>5

\* What the other events carry.
LEMMA EventFacts ==
  ASSUME NEW m \in Events
  PROVE  /\ m.type \in {"submit", "cancelAction"} => m.of \in Actions
         /\ m.type = "cancelChannel" => m.of \in Channels \cup {Private}
         /\ m.type = "result" => m \in Results
<1>1. m \in Results => m.type = "result"
  BY ResultFacts
<1>2. m \in Results \/ m \notin Results
  OBVIOUS
<1>3. QED BY <1>1, <1>2 DEF Events

\* The results workers deliver are events.
LEMMA ResultsAreEvents ==
  ASSUME NEW id \in Ids, NEW status \in Statuses
  PROVE  /\ Result(id, status, {}, {}) \in Events
         /\ \A held \in SUBSET HoldsOf(id) : \A requests \in SUBSET CancelItem :
              id \in Actions => Result(id, status, held, requests) \in Events
<1>1. \A held \in SUBSET HoldsOf(id) : \A requests \in SUBSET CancelItem :
        id \in Actions => Result(id, status, held, requests) \in ActionResults(id)
  BY DEF Result, ActionResults
<1>2. CASE id \in Actions
  <2>1. ActionResults(id) \subseteq Events
    BY <1>2 DEF Events, Results
  <2>2. QED BY <1>1, <1>2, <2>1
<1>3. CASE id \notin Actions
  <2>1. id \in Releases \cup Flushes
    BY <1>3 DEF Ids
  <2>2. Result(id, status, {}, {}) \in KeyUpResults
    BY <2>1 DEF Result, KeyUpResults
  <2>3. Result(id, status, {}, {}) \in Events
    BY <2>2 DEF Events, Results
  <2>4. QED BY <1>3, <2>3
<1>4. QED BY <1>2, <1>3

\* The head of the mailbox is an event, and so is what is behind it.
LEMMA PoppedTypes ==
  ASSUME mailbox \in Seq(Events), NEW type, Popped(type)
  PROVE  Head(mailbox) \in Events /\ Head(mailbox).type = type
           /\ mailbox' \in Seq(Events)
BY DEF Popped

\* Settle keeps the tables and queues within their types.
LEMMA SettleTypes ==
  ASSUME TypeOK,
         NEW gone, NEW orphaned,
         NEW fresh \in SUBSET Ids, NEW forced \in SUBSET Flushes,
         NEW resumed \in SUBSET Ids, NEW parked \in SUBSET Ids,
         Settle(gone, orphaned, fresh, forced, resumed, parked)
  PROVE  /\ live' \subseteq Ids /\ waiting' \subseteq Actions
         /\ busy' \subseteq Keys
         /\ delayed' \subseteq Ids /\ pausedReady' \subseteq Ids
         /\ inbound' \subseteq Ids /\ urgent' \subseteq Flushes
<1> DEFINE freed == FreedKeys(gone)
           next  == Promoted(freed, gone)
<1>1. next \subseteq waiting
  BY DEF Promoted
<1>2. \A id \in Ids : KeyOf(id) \in Keys
  BY SchedulerAssumption DEF KeyOf, Keys
<1>3. next \subseteq Ids /\ forced \subseteq Ids
  BY <1>1, IdFacts DEF TypeOK
<1>4. busy' = (busy \ freed) \cup TakenKeys(next \cup fresh \cup forced)
  BY DEF Settle
<1>5. busy' \subseteq Keys
  <2>1. TakenKeys(next \cup fresh \cup forced) \subseteq Keys
    BY <1>2, <1>3 DEF TakenKeys
  <2>2. QED BY <1>4, <2>1 DEF TypeOK
<1>6. QED BY <1>1, <1>3, <1>5 DEF Settle, TypeOK

\* Requests name registered cancelable actions; what is destroyed or flushed
\* for them is of the right kind.
LEMMA TargetsTypes ==
  ASSUME NEW scope \in CancelKinds \cup {"cancelAction"}, NEW of, NEW requester
  PROVE  Targets(scope, of, requester) \subseteq Cancelable \cap live
<1> DEFINE found == live \cap Cancelable
           recent == {a \in found \ {requester} : of \in {Private, ChannelOf[a]}}
<1>1. CASE scope = "cancelRecent"
  <2>1. Targets(scope, of, requester) = {a \in recent : \A b \in recent : ticket[b] <= ticket[a]}
    BY <1>1 DEF Targets
  <2>2. QED BY <2>1
<1>2. CASE scope = "cancelChannel"
  <2>1. Targets(scope, of, requester) = {a \in found : ChannelOf[a] = of}
    BY <1>2 DEF Targets
  <2>2. QED BY <2>1
<1>3. CASE scope \in {"cancelAction", "cancelAll"}
  BY <1>3 DEF Targets
<1>4. QED BY <1>1, <1>2, <1>3 DEF CancelKinds

LEMMA FlushesOfTypes ==
  ASSUME TypeOK, NEW S \in SUBSET Actions
  PROVE  FlushesOf(S) \subseteq Flushes
<1>1. \A a \in S : \A i \in flushOf[a] : Flush(a, i) \in Flushes
  BY IdFacts DEF TypeOK
<1>2. QED BY <1>1 DEF FlushesOf

LEMMA TypeInit == Init => TypeInv
<1> SUFFICES ASSUME Init PROVE TypeInv
  OBVIOUS
<1>1. mailbox \in Seq(Events)
  BY DEF Init
<1>2. pauses \in 0 .. MaxPauses /\ cancels \in 0 .. MaxCancels
  BY SchedulerAssumption DEF Init
<1>3. index \in [Ids -> Nat] /\ ticket \in [Actions -> Nat]
  BY DEF Init
<1>4. flushOf \in [Actions -> SUBSET Nat] /\ linked \in [Actions -> SUBSET Nat]
  BY DEF Init
<1>5. \A a \in Actions : flushOf[a] \cup linked[a] \subseteq HoldsOf(a)
  BY DEF Init
<1>6. TypeOK
  BY <1>1, <1>2, <1>3, <1>4, <1>5 DEF Init, TypeOK
<1>7. ItemLeft
  BY DEF Init, ItemLeft
<1>8. QED BY <1>6, <1>7 DEF TypeInv

\* The calls.
LEMMA TypeCallers ==
  ASSUME TypeInv, CallerStep
  PROVE  TypeInv'
<1> USE DEF TypeInv, TypeOK, ItemLeft, Finished, Push, CallersRest, schedVars, workerVars
<1>1. ASSUME NEW e \in Events, mailbox' = Append(mailbox, e)
      PROVE  mailbox' \in Seq(Events)
  BY <1>1
<1>2. ASSUME NEW a \in Actions, Submit(a) PROVE TypeInv'
  <2>1. Submitted(a) \in Events
    BY DEF Submitted, Events
  <2>2. QED BY <1>1, <1>2, <2>1 DEF Submit
<1>3. ASSUME NEW e \in Events, CancelCall(e) PROVE TypeInv'
  BY <1>1, <1>3, SchedulerAssumption DEF CancelCall
<1>4. ASSUME RequestCancel PROVE TypeInv'
  <2>1. \A a \in Actions : [type |-> "cancelAction", of |-> a] \in Events
    BY DEF Events
  <2>2. \A c \in Channels \cup {Private} : [type |-> "cancelChannel", of |-> c] \in Events
    BY DEF Events
  <2>3. [type |-> "cancelAll"] \in Events
    BY DEF Events
  <2>4. QED BY <1>3, <1>4, <2>1, <2>2, <2>3 DEF RequestCancel
<1>5. ASSUME RequestPause PROVE TypeInv'
  <2>1. [type |-> "pause"] \in Events
    BY DEF Events
  <2>2. QED BY <1>1, <1>5, <2>1, SchedulerAssumption DEF RequestPause
<1>6. ASSUME RequestResume PROVE TypeInv'
  <2>1. [type |-> "resume"] \in Events
    BY DEF Events
  <2>2. QED BY <1>1, <1>6, <2>1 DEF RequestResume, callVars
<1>7. QED BY <1>2, <1>4, <1>5, <1>6 DEF CallerStep

\* The scheduler's handlers.
LEMMA TypeSubmit ==
  ASSUME TypeInv, HandleSubmit
  PROVE  TypeInv'
<1> DEFINE a == Head(mailbox).of
<1>1. a \in Actions /\ mailbox' \in Seq(Events)
  BY PoppedTypes, EventFacts DEF HandleSubmit, TypeInv, TypeOK
<1>2. {b \in Actions : ticket[b] > 0} \subseteq Actions
  OBVIOUS
<1>3. Cardinality({b \in Actions : ticket[b] > 0}) \in Nat
  BY <1>2, FS_Subset, FS_CardinalityType, SchedulerAssumption
<1>4. ticket' = [ticket EXCEPT ![a] = 1 + Cardinality({b \in Actions : ticket[b] > 0})]
  BY DEF HandleSubmit
<1>5. ticket' \in [Actions -> Nat]
  <2>1. ticket \in [Actions -> Nat]
    BY DEF TypeInv, TypeOK
  <2>2. \A n \in Nat : [ticket EXCEPT ![a] = 1 + n] \in [Actions -> Nat]
    <3> HIDE DEF a
    <3>1. \A n \in Nat : 1 + n \in Nat
      OBVIOUS
    <3>2. QED BY <1>1, <2>1, <3>1
  <2>3. QED BY <1>3, <1>4, <2>2
<1>6. /\ live' \subseteq Ids /\ waiting' \subseteq Actions /\ busy' \subseteq Keys
      /\ delayed' \subseteq Ids /\ pausedReady' \subseteq Ids
      /\ inbound' \subseteq Ids /\ urgent' \subseteq Flushes
  <2>1. CASE KeyOf(a) \in busy
    BY <1>1, <2>1, IdFacts DEF HandleSubmit, TypeInv, TypeOK
  <2>2. CASE Settle({}, {}, {a}, {}, {}, {})
    <3>1. {a} \in SUBSET Ids /\ {} \in SUBSET Ids /\ {} \in SUBSET Flushes
      BY <1>1, IdFacts
    <3> HIDE DEF a
    <3>2. QED BY <2>2, <3>1, SettleTypes DEF TypeInv
  <2>3. QED BY <2>1, <2>2 DEF HandleSubmit
<1>7. QED
  BY <1>1, <1>5, <1>6
     DEF HandleSubmit, TypeInv, TypeOK, ItemLeft, Finished, SchedulerRest, callVars, workerVars

LEMMA TypeCancel ==
  ASSUME TypeInv, NEW scope \in {"cancelAction", "cancelChannel", "cancelAll"},
         HandleCancel(scope)
  PROVE  TypeInv'
<1> DEFINE S == Targets(scope, IF scope = "cancelAll" THEN Private ELSE Head(mailbox).of, Private)
           gone == Discarded(S)
<1>1. S \subseteq Cancelable /\ S \subseteq Actions
  BY TargetsTypes, SchedulerAssumption DEF CancelKinds
<1>2. mailbox' \in Seq(Events)
  BY PoppedTypes DEF HandleCancel, TypeInv, TypeOK
<1>3. FlushesOf(S) \subseteq Flushes
  BY <1>1, FlushesOfTypes DEF TypeInv
<1>4. Settle(gone, LinkedTo(S) \ gone, {}, FlushesOf(S), {}, {})
  BY DEF HandleCancel
<1>5. /\ live' \subseteq Ids /\ waiting' \subseteq Actions /\ busy' \subseteq Keys
      /\ delayed' \subseteq Ids /\ pausedReady' \subseteq Ids
      /\ inbound' \subseteq Ids /\ urgent' \subseteq Flushes
  <2> HIDE DEF S, gone
  <2>1. {} \in SUBSET Ids
    OBVIOUS
  <2>2. QED BY <1>3, <1>4, <2>1, SettleTypes DEF TypeInv
<1>6. /\ flushOf' = [a \in Actions |-> IF a \in S THEN {} ELSE flushOf[a]]
      /\ linked' = [a \in Actions |-> IF a \in S THEN {} ELSE linked[a]]
      /\ flagged' = flagged \cup (S \ gone)
      /\ cancelled' = cancelled \cup S
  BY DEF HandleCancel
<1>7. flushOf' \in [Actions -> SUBSET Nat] /\ linked' \in [Actions -> SUBSET Nat]
  BY <1>6 DEF TypeInv, TypeOK
<1>8. \A a \in Actions : flushOf'[a] \cup linked'[a] \subseteq HoldsOf(a)
  BY <1>6 DEF TypeInv, TypeOK
<1>9. flagged' \subseteq Actions /\ cancelled' \subseteq Cancelable
  BY <1>1, <1>6 DEF TypeInv, TypeOK
<1>10. UNCHANGED <<ticket, paused, callVars, workerVars>>
  BY DEF HandleCancel, SchedulerRest
<1>11. QED
  BY <1>2, <1>5, <1>7, <1>8, <1>9, <1>10
     DEF TypeInv, TypeOK, ItemLeft, Finished, callVars, workerVars

LEMMA TypeResult ==
  ASSUME TypeInv, HandleResult
  PROVE  TypeInv'
<1> DEFINE r    == Head(mailbox)
           id   == r.of
           S    == UNION {Targets(q.kind, q.on, id) : q \in r.requests}
           stop == \/ r.status = "Cancelled"
                   \/ r.status # "Completed" /\ id \in live \cap (flagged \cup S)
           ends == id \in live /\ (stop \/ r.status = "Completed")
           gone == Discarded(S) \cup (IF ends THEN {id} ELSE {})
           goes == IF id \in live /\ ~ends THEN {id} ELSE {}
           fresh == IF r.status = "Cancelled" THEN {}
                    ELSE {Release(id, i) : i \in r.held}
           forced == FlushesOf(S) \cup
                       (IF stop
                        THEN FlushesOf({id} \cap Actions) \cup {Flush(id, i) : i \in r.held}
                        ELSE {})
           resumed == IF r.status = "Continue" THEN goes ELSE {}
           parked  == IF r.status = "Delayed" THEN goes ELSE {}
<1>1. r \in Results /\ mailbox' \in Seq(Events)
  BY PoppedTypes, EventFacts DEF HandleResult, TypeInv, TypeOK
<1>2. S \subseteq Cancelable /\ S \subseteq Actions
  <2>1. \A q \in r.requests : Targets(q.kind, q.on, id) \subseteq Cancelable
    BY <1>1, ResultFacts, TargetsTypes DEF CancelItem
  <2>2. QED BY <2>1, SchedulerAssumption
<1>3. \A i \in r.held : id \in Actions /\ i \in HoldsOf(id) /\ i \in Nat
  BY <1>1, ResultFacts, IdFacts
<1>4. fresh \subseteq Ids
  BY <1>3, IdFacts
<1>5. forced \subseteq Flushes
  <2>1. FlushesOf(S) \subseteq Flushes /\ FlushesOf({id} \cap Actions) \subseteq Flushes
    BY <1>2, FlushesOfTypes DEF TypeInv
  <2>2. {Flush(id, i) : i \in r.held} \subseteq Flushes
    BY <1>3, IdFacts
  <2>3. QED BY <2>1, <2>2
<1>6. resumed \subseteq Ids /\ parked \subseteq Ids
  BY <1>1, ResultFacts
<1>7. Settle(gone, LinkedTo(S) \ gone, fresh, forced, resumed, parked)
  BY DEF HandleResult
<1>8. /\ live' \subseteq Ids /\ waiting' \subseteq Actions /\ busy' \subseteq Keys
      /\ delayed' \subseteq Ids /\ pausedReady' \subseteq Ids
      /\ inbound' \subseteq Ids /\ urgent' \subseteq Flushes
  <2> HIDE DEF fresh, forced, resumed, parked, gone
  <2>1. QED BY <1>4, <1>5, <1>6, <1>7, SettleTypes DEF TypeInv
<1>9. /\ flushOf' = [a \in Actions |->
                       IF a \in S \cup gone THEN {}
                       ELSE IF a = id THEN flushOf[a] \cup r.held ELSE flushOf[a]]
      /\ linked' = [a \in Actions |->
                      IF a \in S \cup gone THEN {}
                      ELSE IF a = id THEN linked[a] \cup r.held ELSE linked[a]]
      /\ flagged' = (flagged \cup S) \ gone
      /\ cancelled' = cancelled \cup S
      /\ UNCHANGED <<ticket, paused, callVars, workerVars>>
  BY DEF HandleResult, SchedulerRest
<1> HIDE DEF S, gone, fresh, forced, resumed, parked, stop, ends, goes
<1>10. flushOf' \in [Actions -> SUBSET Nat] /\ linked' \in [Actions -> SUBSET Nat]
  BY <1>3, <1>9 DEF TypeInv, TypeOK
<1>11. \A a \in Actions : flushOf'[a] \cup linked'[a] \subseteq HoldsOf(a)
  BY <1>3, <1>9 DEF TypeInv, TypeOK
<1>12. flagged' \subseteq Actions /\ cancelled' \subseteq Cancelable
  BY <1>2, <1>9 DEF TypeInv, TypeOK
<1>13. QED
  BY <1>1, <1>8, <1>9, <1>10, <1>11, <1>12
     DEF TypeInv, TypeOK, ItemLeft, Finished, callVars, workerVars

LEMMA TypeScheduler ==
  ASSUME TypeInv, HandleEvent \/ ProcessDueDelays
  PROVE  TypeInv'
<1> USE DEF TypeInv, TypeOK, ItemLeft, Finished, SchedulerRest, callVars, workerVars, schedVars
<1>1. ASSUME HandlePause PROVE TypeInv'
  BY <1>1, PoppedTypes DEF HandlePause
<1>2. ASSUME HandleResume PROVE TypeInv'
  BY <1>2, PoppedTypes DEF HandleResume
<1>3. ASSUME ProcessDueDelays PROVE TypeInv'
  BY <1>3 DEF ProcessDueDelays
<1>4. QED
  BY <1>1, <1>2, <1>3, TypeSubmit, TypeCancel, TypeResult DEF HandleEvent

\* The workers.
LEMMA TypeWorkers ==
  ASSUME TypeInv, WorkerStep
  PROVE  TypeInv'
<1> USE DEF TypeInv, TypeOK, ItemLeft, WorkerRest, callVars
<1>1. ASSUME TakeUrgent \/ TakeInbound PROVE TypeInv'
  BY <1>1, IdFacts DEF TakeUrgent, TakeInbound, Finished
<1>2. ASSUME NEW id \in Ids, BeginItem(id) PROVE TypeInv'
  BY <1>2 DEF BeginItem, Finished
<1>3. ASSUME NEW id \in Ids, EndItem(id) PROVE TypeInv'
  <2> DEFINE at   == index[id] + 1
             item == ItemsOf(id)[at]
             held == IF item.kind \in HoldKinds THEN {at} ELSE {}
             next == IF id \in flagged THEN "Cancelled"
                     ELSE IF at = Len(ItemsOf(id)) THEN "Completed" ELSE "Continue"
  <2>1. ItemsOf(id) \in Seq(AnyItem) /\ at \in DOMAIN ItemsOf(id)
    BY <1>3, ItemsFacts DEF EndItem, Finished
  <2>2. item \in AnyItem /\ at \in Nat
    BY <2>1
  <2>3. item.kind \in AskKinds => id \in Actions
    BY <2>1, ItemsFacts
  <2>4. held \subseteq HoldsOf(id) /\ (held # {} => id \in Actions)
    BY <2>1, <2>3, ItemsFacts DEF HoldsOf, AskKinds
  <2>5. {<<id, i>> : i \in held} \subseteq Holds
    BY <2>4, IdFacts
  <2>6. item.kind \in CancelKinds => {item} \subseteq CancelItem
    BY <2>2 DEF AnyItem, CancelItem
  <2> HIDE DEF at, item
  <2>7. next \in Statuses /\ "Delayed" \in Statuses
    BY DEF Statuses
  <2>8. /\ \A status \in Statuses : Result(id, status, {}, {}) \in Events
        /\ \A status \in Statuses : Result(id, status, held, {}) \in Events
        /\ \A status \in Statuses :
             item.kind \in CancelKinds => Result(id, status, {}, {item}) \in Events
    BY <2>3, <2>4, <2>6, ResultsAreEvents DEF AskKinds
  <2>9. \/ \E e \in Events : mailbox' = Append(mailbox, e) /\ running' = running \ {id}
        \/ UNCHANGED <<mailbox, running>>
    BY <1>3, <2>7, <2>8 DEF EndItem, Deliver, Push, at, item
  <2>10. mailbox' \in Seq(Events) /\ running' \subseteq Ids
    <3>1. \A e \in Events : Append(mailbox, e) \in Seq(Events)
      OBVIOUS
    <3>2. QED BY <2>9, <3>1
  <2>11. executing' = executing \ {id} /\ executing' \subseteq running'
    BY <1>3, <2>9 DEF EndItem
  <2>12. index' \in [Ids -> Nat] /\ \A x \in Ids \ {id} : index'[x] = index[x]
    BY <1>3 DEF EndItem
  <2>13. down' \subseteq Holds
    BY <1>3, <2>5 DEF EndItem, at, item
  <2>14. QED
    BY <1>3, <2>10, <2>11, <2>12, <2>13 DEF EndItem, Finished
<1>4. ASSUME NEW id \in Ids, EndTurn(id) PROVE TypeInv'
  <2>1. \A status \in Statuses : Result(id, status, {}, {}) \in Events
    BY ResultsAreEvents
  <2>2. PICK e \in Events : mailbox' = Append(mailbox, e) /\ running' = running \ {id}
    BY <1>4, <2>1 DEF EndTurn, Deliver, Push, Statuses
  <2>3. QED BY <1>4, <2>2 DEF EndTurn, Finished
<1>5. QED BY <1>1, <1>2, <1>3, <1>4 DEF WorkerStep

\* Every step keeps the types.
LEMMA TypeStep == TypeInv /\ [Next]_vars => TypeInv'
<1>1. ASSUME TypeInv, UNCHANGED vars PROVE TypeInv'
  BY <1>1 DEF TypeInv, TypeOK, ItemLeft, Finished, vars
<1>2. QED BY <1>1, TypeCallers, TypeScheduler, TypeWorkers DEF Next

\* Whatever is submitted, cancelled, paused and resumed, the tables of the
\* scheduler keep their types: in particular a worker never advances a
\* context past its last item, and only requests for registered cancelable
\* actions reach the cancel flags.
THEOREM TypeCorrect == Spec => []TypeOK
<1>1. TypeInv => TypeOK
  BY DEF TypeInv
<1>2. QED BY TypeInit, TypeStep, <1>1, PTL DEF Spec

-----------------------------------------------------------------------------
(* A key has one holder, and no channel is stuck: whatever is submitted,   *)
(* delayed, paused, cancelled and handed over.  A context that holds a key *)
(* is in one place of the scheduler at a time, so that destroying it there *)
(* leaves no second one behind that would still run.                       *)

-----------------------------------------------------------------------------
(* The invariant.                                                          *)

\* The ids in the events of a type, each action at most once.
Posted(type) == {mailbox[n].of : n \in {m \in DOMAIN mailbox : mailbox[m].type = type}}

Once(type) ==
  \A m, n \in DOMAIN mailbox :
    /\ mailbox[m].type = type /\ mailbox[n].type = type
    /\ mailbox[m].of = mailbox[n].of /\ mailbox[m].of \in Actions
    => m = n

\* An action that is not yet handled is registered nowhere.
SubmitsOnce ==
  /\ Once("submit")
  /\ \A a \in Actions : a \in unsent \cup Posted("submit") => ticket[a] = 0 /\ a \notin live
  /\ unsent \cap Posted("submit") = {}

\* A context is with the scheduler, in the pool's queue, with a worker, or on
\* its way back.
OnePlace ==
  /\ Once("result")
  /\ \A a \in Actions :
       /\ a \in delayed \cup pausedReady => a \notin inbound \cup running \cup Posted("result")
       /\ a \in delayed => a \notin pausedReady
       /\ a \in inbound => a \notin running \cup Posted("result")
       /\ a \in running => a \notin Posted("result")

\* Registrations are numbered from 1.
Tickets ==
  /\ \A a \in Actions : ticket[a] <= Cardinality({b \in Actions : ticket[b] > 0})
  /\ \A a, b \in Actions : ticket[a] = ticket[b] /\ ticket[a] > 0 => a = b
  /\ \A w \in waiting : ticket[w] > 0

Holders == InFlight \cap Actions

\* A busy channel has one holder, and only registered actions wait or hold.
KeysHeld ==
  /\ \A x, y \in Holders : KeyOf(x) = KeyOf(y) => x = y
  /\ \A x \in Holders \cup waiting : KeyOf(x) \in busy
  /\ \A c \in Channels \cap busy : \E x \in Holders : KeyOf(x) = c
  /\ waiting \cap Holders = {}
  /\ live \cap Actions = waiting \cup Holders

KeyInv == TypeInv /\ SubmitsOnce /\ OnePlace /\ Tickets /\ KeysHeld

-----------------------------------------------------------------------------
(* Numbers, keys and the mailbox.                                          *)

Below == {p \in Nat \X Nat : p[1] < p[2]}

LEMMA LeastNat ==
  ASSUME NEW T \in SUBSET Nat, T # {}
  PROVE  \E x \in T : \A y \in T : x <= y
<1>1. PICK x \in T : \A y \in T : <<y, x>> \notin Below
  <2>1. IsWellFoundedOn(Below, Nat)
    BY ONLY NatLessThanWellFounded, Zenon DEF OpToRel, Below
  <2>2. QED BY <2>1, WFMin
<1>2. \A y \in T : ~(y < x)
  BY <1>1 DEF Below
<1>3. QED BY <1>2

\* Only the actions of a channel share a key.
LEMMA KeyFacts ==
  /\ \A a \in Actions : KeyOf(a) \in Channels \cup {a}
  /\ \A x \in Ids \ Actions : KeyOf(x) = x /\ x \notin Channels
  /\ \A a \in Actions, x \in Ids \ Actions : KeyOf(a) # x
  /\ \A a \in Actions : a \notin Channels
<1>1. \A a \in Actions : KeyOf(a) \in Channels \cup {a}
  BY SchedulerAssumption DEF KeyOf
<1>2. \A x \in Ids : x \notin Channels
  BY SchedulerAssumption
<1>3. \A x \in Ids \ Actions : KeyOf(x) = x
  BY DEF KeyOf
<1> QED BY <1>1, <1>2, <1>3, IdFacts

\* An event comes last, of an action that no event of its type names yet.
LEMMA Pushed ==
  ASSUME mailbox \in Seq(Events), NEW e \in Events, Push(e), NEW CONSTANT type, Once(type),
         e.type = type /\ e.of \in Actions => e.of \notin Posted(type)
  PROVE  /\ Once(type)'
         /\ Posted(type)' = Posted(type) \cup (IF e.type = type THEN {e.of} ELSE {})
<1>1. /\ mailbox' = Append(mailbox, e) /\ Len(mailbox) \in Nat
      /\ DOMAIN mailbox = 1 .. Len(mailbox) /\ DOMAIN mailbox' = 1 .. Len(mailbox) + 1
      /\ mailbox'[Len(mailbox) + 1] = e
      /\ \A n \in DOMAIN mailbox : mailbox'[n] = mailbox[n]
  BY DEF Push
<1>2. \A n \in DOMAIN mailbox' : n \in DOMAIN mailbox \/ n = Len(mailbox) + 1
  BY <1>1
<1>3. \A n \in DOMAIN mailbox : n \in DOMAIN mailbox' /\ n # Len(mailbox) + 1
  BY <1>1
<1>4. Posted(type)' = Posted(type) \cup (IF e.type = type THEN {e.of} ELSE {})
  <2>1. \A n \in DOMAIN mailbox : mailbox'[n].type = type => mailbox'[n].of \in Posted(type)
    BY <1>1 DEF Posted
  <2>2. Posted(type) \subseteq Posted(type)'
    BY <1>1, <1>3 DEF Posted
  <2>3. Len(mailbox) + 1 \in DOMAIN mailbox'
    BY <1>1
  <2>4. e.type = type => e.of \in Posted(type)'
    BY <1>1, <2>3 DEF Posted
  <2>5. \A x \in Posted(type)' : x \in Posted(type) \/ (e.type = type /\ x = e.of)
    BY <1>1, <1>2, <2>1 DEF Posted
  <2> QED BY <2>2, <2>4, <2>5
<1>5. Once(type)'
  <2> SUFFICES ASSUME NEW m \in DOMAIN mailbox', NEW n \in DOMAIN mailbox',
                      mailbox'[m].type = type, mailbox'[n].type = type,
                      mailbox'[m].of = mailbox'[n].of, mailbox'[m].of \in Actions
               PROVE  m = n
    BY DEF Once
  <2>1. CASE m \in DOMAIN mailbox /\ n \in DOMAIN mailbox
    BY <1>1, <2>1 DEF Once
  <2>2. CASE m \in DOMAIN mailbox /\ n = Len(mailbox) + 1
    BY <1>1, <2>2 DEF Posted
  <2>3. CASE n \in DOMAIN mailbox /\ m = Len(mailbox) + 1
    BY <1>1, <2>3 DEF Posted
  <2> QED BY <1>2, <2>1, <2>2, <2>3
<1> QED BY <1>4, <1>5

LEMMA PushedOther ==
  ASSUME mailbox \in Seq(Events), NEW e \in Events, Push(e), NEW CONSTANT type, Once(type),
         e.type # type
  PROVE  Once(type)' /\ Posted(type)' = Posted(type)
BY Pushed

\* The first event is handled; no other of its type names its action.
LEMMA Handled ==
  ASSUME mailbox \in Seq(Events), mailbox # <<>>, mailbox' = Tail(mailbox),
         NEW CONSTANT type, Once(type)
  PROVE  /\ Once(type)'
         /\ Posted(type) = Posted(type)' \cup (IF Head(mailbox).type = type
                                               THEN {Head(mailbox).of} ELSE {})
         /\ Head(mailbox).type = type /\ Head(mailbox).of \in Actions
              => Head(mailbox).of \notin Posted(type)'
<1>1. /\ Len(mailbox) \in Nat /\ DOMAIN mailbox = 1 .. Len(mailbox)
      /\ DOMAIN mailbox' = 1 .. Len(mailbox) - 1 /\ 1 \in DOMAIN mailbox
      /\ mailbox[1] = Head(mailbox)
      /\ \A n \in DOMAIN mailbox' : n \in Nat /\ n + 1 \in DOMAIN mailbox /\ n + 1 # 1
      /\ \A n \in DOMAIN mailbox' : mailbox'[n] = mailbox[n + 1]
      /\ \A n \in DOMAIN mailbox : n = 1 \/ n - 1 \in DOMAIN mailbox'
      /\ \A n \in DOMAIN mailbox : n \in Nat
  OBVIOUS
<1>2. \A n \in DOMAIN mailbox : n = 1 \/ \E m \in DOMAIN mailbox' : mailbox'[m] = mailbox[n]
  BY <1>1
<1>3. Once(type)'
  <2> SUFFICES ASSUME NEW m \in DOMAIN mailbox', NEW n \in DOMAIN mailbox',
                      mailbox'[m].type = type, mailbox'[n].type = type,
                      mailbox'[m].of = mailbox'[n].of, mailbox'[m].of \in Actions
               PROVE  m = n
    BY DEF Once
  <2>1. m + 1 \in DOMAIN mailbox /\ n + 1 \in DOMAIN mailbox
    BY <1>1
  <2>2. m + 1 = n + 1
    BY <1>1, <2>1 DEF Once
  <2> QED BY <1>1, <2>2
<1>4. Posted(type)' \subseteq Posted(type)
  BY <1>1 DEF Posted
<1>5. Head(mailbox).type = type => Head(mailbox).of \in Posted(type)
  BY <1>1 DEF Posted
<1>6. \A x \in Posted(type) : x \in Posted(type)' \/ (Head(mailbox).type = type /\ x = Head(mailbox).of)
  BY <1>1, <1>2 DEF Posted
<1>7. Head(mailbox).type = type /\ Head(mailbox).of \in Actions
        => Head(mailbox).of \notin Posted(type)'
  BY <1>1 DEF Once, Posted
<1> QED BY <1>3, <1>4, <1>5, <1>6, <1>7

-----------------------------------------------------------------------------
(* What a handler does to the keys.                                        *)

\* No key freed is one that a holder keeps, and it was busy.
LEMMA FreedFacts ==
  ASSUME TypeInv, KeysHeld, NEW gone \in SUBSET Ids, gone \cap Actions \subseteq waiting \cup Holders
  PROVE  /\ \A x \in Holders : KeyOf(x) \in FreedKeys(gone) => x \in gone
         /\ \A x \in Holders \cap gone : KeyOf(x) \in FreedKeys(gone)
         /\ \A a \in Actions : KeyOf(a) \in FreedKeys(gone) => KeyOf(a) \in busy
<1>1. ASSUME NEW a \in Actions, KeyOf(a) \in FreedKeys(gone)
      PROVE  \E d \in gone \cap Holders : KeyOf(d) = KeyOf(a)
  <2>1. PICK d \in gone \ waiting : KeyOf(d) = KeyOf(a)
    BY <1>1 DEF FreedKeys
  <2>2. d \in Actions
    BY <2>1, KeyFacts
  <2> QED BY <2>1, <2>2
<1>2. Holders \subseteq Actions
  BY DEF Holders
<1>3. \A x \in Holders : KeyOf(x) \in FreedKeys(gone) => x \in gone
  BY <1>1, <1>2 DEF KeysHeld
<1>4. \A x \in Holders \cap gone : KeyOf(x) \in FreedKeys(gone)
  BY DEF FreedKeys, KeysHeld
<1>5. \A a \in Actions : KeyOf(a) \in FreedKeys(gone) => KeyOf(a) \in busy
  BY <1>1 DEF KeysHeld
<1> QED BY <1>3, <1>4, <1>5

\* A freed key goes to one of those that wait for it, if there are any.
LEMMA PromotedFacts ==
  ASSUME TypeInv, Tickets, NEW freed, NEW gone
  PROVE  /\ \A u \in Promoted(freed, gone) : u \in waiting \ gone /\ KeyOf(u) \in freed
         /\ \A u, v \in Promoted(freed, gone) : KeyOf(u) = KeyOf(v) => u = v
         /\ \A w \in waiting \ gone : KeyOf(w) \in freed
               => \E u \in Promoted(freed, gone) : KeyOf(u) = KeyOf(w)
<1>1. \A w \in waiting : w \in Actions /\ ticket[w] \in Nat /\ ticket[w] > 0
  BY DEF TypeInv, TypeOK, Tickets
<1>2. \A u \in Promoted(freed, gone) : u \in waiting \ gone /\ KeyOf(u) \in freed
  BY DEF Promoted
<1>3. ASSUME NEW u \in Promoted(freed, gone), NEW v \in Promoted(freed, gone), KeyOf(u) = KeyOf(v)
      PROVE  u = v
  <2>1. ticket[u] <= ticket[v] /\ ticket[v] <= ticket[u]
    BY <1>2, <1>3 DEF Promoted
  <2>2. ticket[u] = ticket[v] /\ ticket[u] > 0
    BY <1>1, <1>2, <2>1
  <2> QED BY <1>1, <1>2, <2>2 DEF Tickets
<1>4. ASSUME NEW w \in waiting \ gone, KeyOf(w) \in freed
      PROVE  \E u \in Promoted(freed, gone) : KeyOf(u) = KeyOf(w)
  <2> DEFINE rivals == {v \in waiting \ gone : KeyOf(v) = KeyOf(w)}
             T == {ticket[v] : v \in rivals}
  <2>1. T \in SUBSET Nat /\ T # {}
    BY <1>1
  <2>2. PICK t \in T : \A y \in T : t <= y
    BY <2>1, LeastNat
  <2>3. PICK u \in rivals : t = ticket[u]
    BY <2>2
  <2>4. \A v \in waiting \ gone : KeyOf(v) = KeyOf(u) => ticket[u] <= ticket[v]
    BY <2>2, <2>3
  <2> QED BY <1>4, <2>3, <2>4 DEF Promoted
<1> QED BY <1>2, <1>3, <1>4

\* Handing the freed keys over keeps the keys held.
LEMMA KeysHandedOver ==
  ASSUME KeyInv, NEW gone \in SUBSET Ids, NEW orphaned, NEW fresh \in SUBSET Ids,
         NEW forced \in SUBSET Flushes, NEW resumed \in SUBSET Ids, NEW parked \in SUBSET Ids,
         Settle(gone, orphaned, fresh, forced, resumed, parked),
         gone \cap Actions \subseteq waiting \cup Holders, orphaned \cap Actions = {},
         \A x, y \in fresh \cap Actions : x = y /\ KeyOf(x) \notin busy /\ x \notin live,
         Holders' = (Holders \ gone) \cup Promoted(FreedKeys(gone), gone) \cup (fresh \cap Actions)
  PROVE  KeysHeld'
<1> DEFINE freed == FreedKeys(gone)
           next  == Promoted(freed, gone)
           new   == fresh \cap Actions
<1>1. /\ live' = (live \ (gone \cup orphaned)) \cup fresh \cup forced
      /\ waiting' = waiting \ (gone \cup next)
      /\ busy' = (busy \ freed) \cup TakenKeys(next \cup fresh \cup forced)
  BY DEF Settle
<1>2. /\ \A x \in Holders : KeyOf(x) \in freed => x \in gone
      /\ \A x \in Holders \cap gone : KeyOf(x) \in freed
      /\ \A a \in Actions : KeyOf(a) \in freed => KeyOf(a) \in busy
  BY FreedFacts DEF KeyInv
<1>3. /\ \A u \in next : u \in waiting \ gone /\ KeyOf(u) \in freed
      /\ \A u, v \in next : KeyOf(u) = KeyOf(v) => u = v
      /\ \A w \in waiting \ gone : KeyOf(w) \in freed => \E u \in next : KeyOf(u) = KeyOf(w)
  BY PromotedFacts DEF KeyInv
<1>4. waiting \subseteq Actions /\ Holders \subseteq Actions
  BY DEF KeyInv, TypeInv, TypeOK, Holders
<1>5. forced \subseteq Ids /\ forced \cap Actions = {}
  BY IdFacts, IdsDisjoint
<1>6. \A x \in new : KeyOf(x) \notin busy /\ x \notin live /\ x \in Actions
  OBVIOUS
<1>7. Holders' = (Holders \ gone) \cup next \cup new
  OBVIOUS
<1> HIDE DEF freed, next, new
<1>8. \A x, y \in Holders' : KeyOf(x) = KeyOf(y) => x = y
  <2> SUFFICES ASSUME NEW x \in Holders', NEW y \in Holders', KeyOf(x) = KeyOf(y) PROVE x = y
    OBVIOUS
  <2>1. \A z \in Holders \ gone : KeyOf(z) \in busy /\ KeyOf(z) \notin freed
    BY <1>2 DEF KeyInv, KeysHeld
  <2>2. \A z \in next : KeyOf(z) \in busy /\ KeyOf(z) \in freed
    BY <1>3 DEF KeyInv, KeysHeld
  <2>3. CASE x \in Holders \ gone
    BY <1>6, <1>7, <2>1, <2>2, <2>3 DEF KeyInv, KeysHeld
  <2>4. CASE x \in next
    BY <1>3, <1>6, <1>7, <2>1, <2>2, <2>4
  <2>5. CASE x \in new
    BY <1>6, <1>7, <2>1, <2>2, <2>5 DEF new
  <2> QED BY <1>7, <2>3, <2>4, <2>5
<1>9. \A x \in Holders' \cup waiting' : KeyOf(x) \in busy'
  <2>1. \A x \in next \cup fresh : KeyOf(x) \in busy'
    BY <1>1 DEF TakenKeys
  <2>2. \A x \in Holders \ gone : KeyOf(x) \in busy'
    BY <1>1, <1>2 DEF KeyInv, KeysHeld
  <2>3. \A w \in waiting' : KeyOf(w) \in busy'
    <3> SUFFICES ASSUME NEW w \in waiting' PROVE KeyOf(w) \in busy'
      OBVIOUS
    <3>1. w \in waiting \ gone /\ KeyOf(w) \in busy
      BY <1>1 DEF KeyInv, KeysHeld
    <3>2. CASE KeyOf(w) \in freed
      BY <1>3, <2>1, <3>1, <3>2
    <3> QED BY <1>1, <3>1, <3>2
  <2> QED BY <1>7, <2>1, <2>2, <2>3 DEF new
<1>10. \A c \in Channels \cap busy' : \E x \in Holders' : KeyOf(x) = c
  <2> SUFFICES ASSUME NEW c \in Channels \cap busy' PROVE \E x \in Holders' : KeyOf(x) = c
    OBVIOUS
  <2>1. CASE c \in busy \ freed
    <3>1. PICK x \in Holders : KeyOf(x) = c
      BY <2>1 DEF KeyInv, KeysHeld
    <3> QED BY <1>2, <1>7, <2>1, <3>1
  <2>2. CASE c \in TakenKeys(next \cup fresh \cup forced)
    <3>1. PICK x \in next \cup fresh \cup forced : KeyOf(x) = c
      BY <2>2 DEF TakenKeys
    <3>2. x \in Ids
      BY <1>3, <1>4, <1>5, IdFacts
    <3>3. x \in Actions
      BY <3>1, <3>2, KeyFacts
    <3> QED BY <1>5, <1>7, <3>1, <3>3 DEF new
  <2> QED BY <1>1, <2>1, <2>2
<1>11. waiting' \cap Holders' = {}
  BY <1>1, <1>6, <1>7 DEF KeyInv, KeysHeld
<1>12. live' \cap Actions = waiting' \cup Holders'
  BY <1>1, <1>3, <1>4, <1>5, <1>7 DEF KeyInv, KeysHeld, new
<1> QED BY <1>8, <1>9, <1>10, <1>11, <1>12 DEF KeysHeld

\* The actions in back have come back with the event and are destroyed or go
\* on; nothing else that a worker or the pool has is touched.
Returned(back, gone, fresh, resumed, parked) ==
  /\ Posted("result") \cap Actions = (Posted("result")' \cap Actions) \cup back
  /\ back \cap Posted("result")' = {}
  /\ back \subseteq gone \cup resumed \cup parked
  /\ (resumed \cup parked) \cap Actions \subseteq back
  /\ resumed \cap parked = {}
  /\ gone \cap Actions \cap (resumed \cup parked) = {}
  /\ gone \cap Actions \cap (inbound \cup running \cup Posted("result")') = {}
  /\ \A x \in fresh \cap Actions : x \notin live

\* Where the contexts are after a handler.
LEMMA PlacesSettled ==
  ASSUME KeyInv, NEW gone \in SUBSET Ids, NEW orphaned, NEW fresh \in SUBSET Ids,
         NEW forced \in SUBSET Flushes, NEW resumed \in SUBSET Ids, NEW parked \in SUBSET Ids,
         NEW back \in SUBSET Actions,
         Settle(gone, orphaned, fresh, forced, resumed, parked),
         running' = running, Once("result")',
         Returned(back, gone, fresh, resumed, parked)
  PROVE  /\ OnePlace'
         /\ Holders' = (Holders \ gone) \cup Promoted(FreedKeys(gone), gone) \cup (fresh \cap Actions)
         /\ live' \cap Actions \subseteq live \cup fresh
         /\ waiting' \subseteq waiting
<1> DEFINE next  == Promoted(FreedKeys(gone), gone)
           new   == fresh \cap Actions
           ready == next \cup fresh \cup resumed
<1> USE DEF Returned
<1>1. /\ live' = (live \ (gone \cup orphaned)) \cup fresh \cup forced
      /\ waiting' = waiting \ (gone \cup next)
      /\ delayed' = (delayed \ gone) \cup parked
      /\ pausedReady' = (pausedReady \ gone) \cup (IF paused THEN ready ELSE {})
      /\ inbound' = inbound \cup (IF paused THEN {} ELSE ready)
      /\ urgent' = urgent \cup forced
  BY DEF Settle
<1>2. next \subseteq waiting \ gone /\ waiting \subseteq Actions
  BY DEF Promoted, KeyInv, TypeInv, TypeOK
<1>3. urgent \cap Actions = {} /\ forced \cap Actions = {}
  BY IdsDisjoint DEF KeyInv, TypeInv, TypeOK
<1>4. Holders = (inbound \cup running \cup Posted("result") \cup delayed \cup pausedReady) \cap Actions
  BY <1>3 DEF Holders, InFlight, Reported, Posted
<1>5. Holders' = (inbound' \cup running \cup Posted("result")' \cup delayed' \cup pausedReady') \cap Actions
  <2>1. urgent' \cap Actions = {}
    BY <1>1, <1>3
  <2> QED BY <2>1 DEF Holders, InFlight, Reported, Posted
<1> HIDE DEF next
<1>6. \A a \in new : a \notin Holders /\ a \notin waiting
  BY DEF KeyInv, KeysHeld
<1>7. \A a \in next : a \notin Holders
  BY <1>2 DEF KeyInv, KeysHeld
<1>8. \A a \in back : a \in Posted("result") /\ a \in Holders
                   /\ a \notin inbound \cup running \cup delayed \cup pausedReady
  BY <1>4 DEF KeyInv, OnePlace
<1>9. Holders' = (Holders \ gone) \cup next \cup new
  <2>1. Holders' \subseteq (Holders \ gone) \cup next \cup new
    BY <1>1, <1>4, <1>5, <1>8
  <2>2. next \cup new \subseteq Holders'
    BY <1>1, <1>2, <1>5
  <2>3. Holders \ gone \subseteq Holders'
    BY <1>1, <1>4, <1>5
  <2> QED BY <2>1, <2>2, <2>3
<1>10. OnePlace'
  <2> SUFFICES ASSUME NEW a \in Actions
               PROVE  /\ a \in delayed' \cup pausedReady'
                           => a \notin inbound' \cup running \cup Posted("result")'
                      /\ a \in delayed' => a \notin pausedReady'
                      /\ a \in inbound' => a \notin running \cup Posted("result")'
                      /\ a \in running => a \notin Posted("result")'
    BY DEF OnePlace
  <2>1. /\ a \in delayed \cup pausedReady => a \notin inbound \cup running \cup Posted("result")
        /\ a \in delayed => a \notin pausedReady
        /\ a \in inbound => a \notin running \cup Posted("result")
        /\ a \in running => a \notin Posted("result")
        /\ a \in Posted("result")' => a \in Posted("result")
    BY DEF KeyInv, OnePlace
  <2>2. a \in ready => \/ a \notin Holders
                       \/ a \in back /\ a \in resumed
    BY <1>6, <1>7
  <2>3. a \in parked => a \in back
    OBVIOUS
  <2>4. a \in ready => a \notin inbound \cup running \cup Posted("result")' \cup delayed \cup pausedReady
    BY <1>4, <1>8, <2>1, <2>2
  <2>5. a \in parked => a \notin inbound \cup running \cup Posted("result")' \cup ready \cup pausedReady
    BY <1>6, <1>7, <1>8, <2>3
  <2> QED BY <1>1, <2>1, <2>4, <2>5
<1> QED BY <1>1, <1>3, <1>9, <1>10 DEF next

\* The same of a handler whose event brings no context back.
LEMMA PlacesLeft ==
  ASSUME KeyInv, NEW gone \in SUBSET Ids, NEW orphaned, NEW fresh \in SUBSET Ids,
         NEW forced \in SUBSET Flushes,
         Settle(gone, orphaned, fresh, forced, {}, {}),
         running' = running, Once("result")', Posted("result")' = Posted("result"),
         gone \cap Actions \cap (inbound \cup running \cup Posted("result")) = {},
         \A x \in fresh \cap Actions : x \notin live
  PROVE  /\ OnePlace'
         /\ Holders' = (Holders \ gone) \cup Promoted(FreedKeys(gone), gone) \cup (fresh \cap Actions)
         /\ live' \cap Actions \subseteq live \cup fresh
         /\ waiting' \subseteq waiting
<1>1. PICK none : none = {}
  OBVIOUS
<1>2. Settle(gone, orphaned, fresh, forced, none, none)
  BY <1>1
<1>3. none \in SUBSET Ids /\ none \in SUBSET Actions
  BY <1>1
<1>4. Returned(none, gone, fresh, none, none)
  BY <1>1 DEF Returned
<1> QED BY <1>2, <1>3, <1>4, PlacesSettled

-----------------------------------------------------------------------------
(* The steps.                                                              *)

LEMMA KeyInit == Init => KeyInv
<1> SUFFICES ASSUME Init PROVE KeyInv
  OBVIOUS
<1>1. TypeInv
  BY TypeInit
<1>2. Posted("submit") = {} /\ Posted("result") = {} /\ Once("submit") /\ Once("result")
  BY DEF Init, Posted, Once
<1>3. SubmitsOnce /\ OnePlace
  BY <1>2 DEF Init, SubmitsOnce, OnePlace
<1>4. Tickets
  <2>1. {b \in Actions : ticket[b] > 0} = {}
    BY DEF Init
  <2>2. Cardinality({b \in Actions : ticket[b] > 0}) = 0
    BY <2>1, FS_EmptySet
  <2>3. waiting = {} /\ \A a \in Actions : ticket[a] = 0
    BY DEF Init
  <2> QED BY <2>2, <2>3 DEF Tickets
<1>5. Holders = {}
  BY <1>2 DEF Init, Holders, InFlight, Reported, Posted
<1> QED BY <1>1, <1>3, <1>4, <1>5 DEF Init, KeyInv, KeysHeld

\* What nobody submits or handles stays unhandled.
LEMMA SubmitsKept ==
  ASSUME SubmitsOnce, Once("submit")', Posted("submit")' = Posted("submit"),
         UNCHANGED <<unsent, ticket>>, live' \cap Actions \subseteq live
  PROVE  SubmitsOnce'
BY DEF SubmitsOnce

LEMMA TicketsKept ==
  ASSUME Tickets, UNCHANGED ticket, waiting' \subseteq waiting
  PROVE  Tickets'
BY DEF Tickets

LEMMA HeldKept ==
  ASSUME KeysHeld, Holders' = Holders, UNCHANGED <<waiting, busy, live>>
  PROVE  KeysHeld'
BY DEF KeysHeld

\* Who holds a key, by the places of the actions.
LEMMA HoldersAre ==
  ASSUME TypeInv
  PROVE  Holders = (inbound \cup running \cup Posted("result") \cup delayed \cup pausedReady) \cap Actions
<1>1. urgent \cap Actions = {}
  BY IdsDisjoint DEF TypeInv, TypeOK
<1> QED BY <1>1 DEF Holders, InFlight, Reported, Posted

\* The calls only post events.
LEMMA KeyCallers ==
  ASSUME KeyInv, TypeInv', CallerStep
  PROVE  KeyInv'
<1> USE DEF CallersRest, schedVars, workerVars
<1>1. mailbox \in Seq(Events) /\ Once("submit") /\ Once("result")
  BY DEF KeyInv, TypeInv, TypeOK, SubmitsOnce, OnePlace
<1>2. ASSUME NEW e \in Events, Push(e), e.type \notin {"submit", "result"}, UNCHANGED unsent, CallersRest
      PROVE  KeyInv'
  <2>1. /\ Once("submit")' /\ Posted("submit")' = Posted("submit")
        /\ Once("result")' /\ Posted("result")' = Posted("result")
    BY <1>1, <1>2, Pushed
  <2>2. SubmitsOnce' /\ Tickets'
    BY <1>2, <2>1, SubmitsKept, TicketsKept DEF KeyInv
  <2>3. OnePlace'
    BY <1>2, <2>1 DEF KeyInv, OnePlace
  <2>4. Holders' = Holders
    BY <1>2, <2>1 DEF Holders, InFlight, Reported, Posted
  <2>5. KeysHeld'
    BY <1>2, <2>4, HeldKept DEF KeyInv
  <2> QED BY <2>2, <2>3, <2>5 DEF KeyInv
<1>3. ASSUME NEW a \in Actions, Submit(a) PROVE KeyInv'
  <2>1. Submitted(a) \in Events /\ Submitted(a).type = "submit" /\ Submitted(a).of = a
    BY DEF Submitted, Events
  <2>2. /\ a \in unsent /\ unsent' = unsent \ {a} /\ Push(Submitted(a)) /\ CallersRest
    BY <1>3 DEF Submit
  <2>3. a \notin Posted("submit")
    BY <2>2 DEF KeyInv, SubmitsOnce
  <2>4. Once("submit")' /\ Posted("submit")' = Posted("submit") \cup {a}
    <3> DEFINE e == Submitted(a)
    <3>1. e \in Events /\ Push(e) /\ e.type = "submit" /\ e.of = a
      BY <2>1, <2>2
    <3> HIDE DEF e
    <3> QED BY <1>1, <2>3, <3>1, Pushed
  <2>5. Once("result")' /\ Posted("result")' = Posted("result")
    <3> DEFINE e == Submitted(a)
    <3>1. e \in Events /\ Push(e) /\ e.type # "result"
      BY <2>1, <2>2
    <3> HIDE DEF e
    <3> QED BY <1>1, <3>1, Pushed
  <2>6. SubmitsOnce'
    BY <2>2, <2>4 DEF KeyInv, SubmitsOnce
  <2>7. OnePlace' /\ Tickets'
    BY <2>2, <2>5, TicketsKept DEF KeyInv, OnePlace
  <2>8. Holders' = Holders
    BY <2>2, <2>5 DEF Holders, InFlight, Reported, Posted
  <2>9. KeysHeld'
    BY <2>2, <2>8, HeldKept DEF KeyInv
  <2> QED BY <2>6, <2>7, <2>9 DEF KeyInv
<1>4. \A e \in Events : CancelCall(e) /\ e.type \notin {"submit", "result"} => KeyInv'
  BY <1>2 DEF CancelCall
<1>5. ASSUME RequestCancel PROVE KeyInv'
  <2>1. \A a \in Actions : [type |-> "cancelAction", of |-> a] \in Events
    BY DEF Events
  <2>2. \A c \in Channels \cup {Private} : [type |-> "cancelChannel", of |-> c] \in Events
    BY DEF Events
  <2>3. [type |-> "cancelAll"] \in Events
    BY DEF Events
  <2> QED BY <1>4, <1>5, <2>1, <2>2, <2>3 DEF RequestCancel
<1>6. [type |-> "pause"] \in Events /\ [type |-> "resume"] \in Events
  BY DEF Events
<1>7. ASSUME RequestPause PROVE KeyInv'
  BY <1>2, <1>6, <1>7 DEF RequestPause
<1>8. ASSUME RequestResume PROVE KeyInv'
  BY <1>2, <1>6, <1>8 DEF RequestResume, callVars
<1> QED BY <1>3, <1>5, <1>7, <1>8 DEF CallerStep

\* A registration takes the next ticket.
LEMMA TicketTaken ==
  ASSUME TypeInv, Tickets, NEW a \in Actions, ticket[a] = 0,
         ticket' = [ticket EXCEPT ![a] = 1 + Cardinality({b \in Actions : ticket[b] > 0})],
         waiting' \subseteq waiting \cup {a}
  PROVE  Tickets'
<1> DEFINE old == {b \in Actions : ticket[b] > 0}
           n   == Cardinality(old)
<1>1. IsFiniteSet(old) /\ n \in Nat
  <2>1. old \subseteq Actions
    OBVIOUS
  <2> HIDE DEF old
  <2> QED BY <2>1, FS_Subset, FS_CardinalityType, SchedulerAssumption
<1>2. ticket \in [Actions -> Nat]
  BY DEF TypeInv, TypeOK
<1>3. \A b \in Actions : ticket'[b] = IF b = a THEN 1 + n ELSE ticket[b]
  BY <1>2
<1>4. {b \in Actions : ticket'[b] > 0} = old \cup {a}
  BY <1>1, <1>3
<1>5. Cardinality(old \cup {a}) = n + 1
  <2>1. a \notin old
    OBVIOUS
  <2> HIDE DEF old
  <2> QED BY <1>1, <2>1, FS_AddElement DEF n
<1>6. \A b \in Actions : ticket[b] <= n
  BY DEF Tickets
<1> HIDE DEF old, n
<1>7. \A b \in Actions : ticket'[b] <= n + 1
  BY <1>1, <1>2, <1>3, <1>6
<1>8. \A b, c \in Actions : ticket'[b] = ticket'[c] /\ ticket'[b] > 0 => b = c
  BY <1>1, <1>2, <1>3, <1>6 DEF Tickets
<1>9. \A w \in waiting' : ticket'[w] > 0
  <2>1. \A w \in waiting : w \in Actions /\ ticket[w] > 0
    BY DEF TypeInv, TypeOK, Tickets
  <2> QED BY <1>1, <1>3, <2>1
<1> QED BY <1>4, <1>5, <1>7, <1>8, <1>9, SMTT(30) DEF Tickets

LEMMA KeySubmit ==
  ASSUME KeyInv, TypeInv', HandleSubmit
  PROVE  KeyInv'
<1> DEFINE a == Head(mailbox).of
<1>1. /\ mailbox \in Seq(Events) /\ mailbox # <<>> /\ mailbox' = Tail(mailbox)
      /\ Head(mailbox).type = "submit" /\ a \in Actions
  BY PoppedTypes, EventFacts DEF HandleSubmit, Popped, KeyInv, TypeInv, TypeOK
<1>2. /\ Once("submit")' /\ Posted("submit") = Posted("submit")' \cup {a} /\ a \notin Posted("submit")'
      /\ Once("result")' /\ Posted("result")' = Posted("result")
  <2>1. Once("submit") /\ Once("result")
    BY DEF KeyInv, SubmitsOnce, OnePlace
  <2>2. /\ Once("submit")' /\ Posted("submit") = Posted("submit")' \cup {a} /\ a \notin Posted("submit")'
    BY <1>1, <2>1, Handled
  <2>3. Once("result")' /\ Posted("result")' = Posted("result")
    BY <1>1, <2>1, Handled
  <2> QED BY <2>2, <2>3
<1>3. /\ a \notin live /\ a \notin unsent /\ ticket[a] = 0
  BY <1>1, <1>2 DEF KeyInv, SubmitsOnce
<1>4. /\ ticket' = [ticket EXCEPT ![a] = 1 + Cardinality({b \in Actions : ticket[b] > 0})]
      /\ UNCHANGED <<unsent, running>>
  BY DEF HandleSubmit, SchedulerRest, callVars, workerVars
<1> HIDE DEF a
<1>5. ASSUME waiting' \subseteq waiting \cup {a}, live' \cap Actions \subseteq live \cup {a}
      PROVE  Tickets' /\ SubmitsOnce'
  <2>1. Tickets'
    BY <1>1, <1>3, <1>4, <1>5, TicketTaken DEF KeyInv
  <2>2. \A b \in Actions \ {a} : ticket'[b] = ticket[b]
    BY <1>4 DEF KeyInv, TypeInv, TypeOK
  <2> QED BY <1>2, <1>3, <1>4, <1>5, <2>1, <2>2 DEF KeyInv, SubmitsOnce
<1>6. CASE KeyOf(a) \in busy
  <2>1. /\ live' = live \cup {a} /\ waiting' = waiting \cup {a}
        /\ UNCHANGED <<busy, delayed, pausedReady, inbound, urgent>>
    BY <1>6 DEF HandleSubmit, a
  <2>2. Tickets' /\ SubmitsOnce'
    BY <1>5, <2>1
  <2>3. OnePlace'
    BY <1>2, <1>4, <2>1 DEF KeyInv, OnePlace
  <2>4. Holders' = Holders
    BY <1>2, <1>4, <2>1 DEF Holders, InFlight, Reported, Posted
  <2>5. a \notin Holders
    BY <1>1, <1>3 DEF KeyInv, KeysHeld
  <2>6. KeysHeld'
    BY <1>1, <1>6, <2>1, <2>4, <2>5 DEF KeyInv, KeysHeld
  <2> QED BY <2>2, <2>3, <2>6 DEF KeyInv
<1>7. CASE KeyOf(a) \notin busy
  <2>1. Settle({}, {}, {a}, {}, {}, {})
    BY <1>7 DEF HandleSubmit, a
  <2>2. {a} \in SUBSET Ids /\ {} \in SUBSET Ids /\ {} \in SUBSET Flushes /\ {} \in SUBSET Actions
    BY <1>1, IdFacts
  <2>3. /\ OnePlace'
        /\ Holders' = (Holders \ {}) \cup Promoted(FreedKeys({}), {}) \cup ({a} \cap Actions)
        /\ live' \cap Actions \subseteq live \cup {a}
        /\ waiting' \subseteq waiting
    <3>1. PICK none : none = {}
      OBVIOUS
    <3>2. PICK one : one = {a}
      OBVIOUS
    <3>3. /\ Settle(none, none, one, none, none, none)
          /\ none \in SUBSET Ids /\ one \in SUBSET Ids /\ none \in SUBSET Flushes
          /\ none \cap Actions \cap (inbound \cup running \cup Posted("result")) = {}
          /\ \A x \in one \cap Actions : x \notin live
      BY <1>3, <2>1, <2>2, <3>1, <3>2
    <3>4. /\ Once("result")' /\ Posted("result")' = Posted("result") /\ running' = running
      BY <1>2, <1>4
    <3>5. Settle(none, none, one, none, {}, {})
      BY <3>1, <3>3
    <3>6. /\ OnePlace'
          /\ Holders' = (Holders \ none) \cup Promoted(FreedKeys(none), none) \cup (one \cap Actions)
          /\ live' \cap Actions \subseteq live \cup one
          /\ waiting' \subseteq waiting
      BY <3>3, <3>4, <3>5, PlacesLeft
    <3> QED BY <3>1, <3>2, <3>6
  <2>4. KeysHeld'
    BY <1>3, <1>7, <2>1, <2>2, <2>3, KeysHandedOver
  <2> QED BY <1>5, <2>3, <2>4 DEF KeyInv
<1> QED BY <1>6, <1>7

\* What cancels destroy and leave in a worker's hands.
LEMMA DiscardedFacts ==
  ASSUME KeyInv, NEW S \in SUBSET Actions
  PROVE  /\ Discarded(S) \in SUBSET Ids
         /\ Discarded(S) \cap Actions \subseteq waiting \cup delayed \cup pausedReady
         /\ LinkedTo(S) \subseteq Releases /\ LinkedTo(S) \cap Actions = {}
         /\ FlushesOf(S) \in SUBSET Flushes
<1>1. LinkedTo(S) \subseteq Releases
  <2>1. \A a \in S : \A i \in linked[a] : Release(a, i) \in Releases
    BY IdFacts DEF KeyInv, TypeInv, TypeOK
  <2> QED BY <2>1 DEF LinkedTo
<1>2. FlushesOf(S) \in SUBSET Flushes
  BY FlushesOfTypes DEF KeyInv, TypeInv
<1> QED BY <1>1, <1>2, IdFacts, IdsDisjoint DEF Discarded, KeyInv, TypeInv, TypeOK

LEMMA KeyCancel ==
  ASSUME KeyInv, TypeInv', NEW scope \in {"cancelAction", "cancelChannel", "cancelAll"},
         HandleCancel(scope)
  PROVE  KeyInv'
<1> DEFINE S == Targets(scope, IF scope = "cancelAll" THEN Private ELSE Head(mailbox).of, Private)
           gone == Discarded(S)
<1>1. S \in SUBSET Actions
  BY TargetsTypes, SchedulerAssumption DEF CancelKinds
<1>2. /\ mailbox \in Seq(Events) /\ mailbox # <<>> /\ mailbox' = Tail(mailbox)
      /\ Head(mailbox).type = scope
  BY DEF HandleCancel, Popped, KeyInv, TypeInv, TypeOK
<1>3. /\ Once("submit")' /\ Posted("submit") = Posted("submit")'
      /\ Once("result")' /\ Posted("result")' = Posted("result")
  <2>1. Once("submit") /\ Once("result")
    BY DEF KeyInv, SubmitsOnce, OnePlace
  <2>2. Head(mailbox).type # "submit" /\ Head(mailbox).type # "result"
    BY <1>2
  <2>3. Once("submit")' /\ Posted("submit") = Posted("submit")'
    BY <1>2, <2>1, <2>2, Handled
  <2>4. Once("result")' /\ Posted("result")' = Posted("result")
    BY <1>2, <2>1, <2>2, Handled
  <2> QED BY <2>3, <2>4
<1>4. /\ Settle(gone, LinkedTo(S) \ gone, {}, FlushesOf(S), {}, {})
      /\ UNCHANGED <<ticket, unsent, running>>
  BY DEF HandleCancel, SchedulerRest, callVars, workerVars
<1> HIDE DEF S
<1>5. /\ gone \in SUBSET Ids /\ gone \cap Actions \subseteq waiting \cup delayed \cup pausedReady
      /\ (LinkedTo(S) \ gone) \cap Actions = {} /\ FlushesOf(S) \in SUBSET Flushes
  BY <1>1, DiscardedFacts
<1> HIDE DEF gone
<1>6. Holders = (inbound \cup running \cup Posted("result") \cup delayed \cup pausedReady) \cap Actions
  BY HoldersAre DEF KeyInv
<1>7. gone \cap Actions \cap (inbound \cup running \cup Posted("result")) = {}
  BY <1>3, <1>5, <1>6 DEF KeyInv, OnePlace, KeysHeld
<1>8. {} \in SUBSET Ids /\ {} \in SUBSET Actions
  OBVIOUS
<1>9. /\ OnePlace'
      /\ Holders' = (Holders \ gone) \cup Promoted(FreedKeys(gone), gone) \cup ({} \cap Actions)
      /\ live' \cap Actions \subseteq live \cup {}
      /\ waiting' \subseteq waiting
  BY <1>3, <1>4, <1>5, <1>7, <1>8, PlacesLeft
<1>10. KeysHeld'
  BY <1>4, <1>5, <1>6, <1>8, <1>9, KeysHandedOver
<1> QED BY <1>3, <1>4, <1>9, <1>10, SubmitsKept, TicketsKept DEF KeyInv

LEMMA KeyResult ==
  ASSUME KeyInv, TypeInv', HandleResult
  PROVE  KeyInv'
<1> DEFINE r    == Head(mailbox)
           id   == r.of
           S    == UNION {Targets(q.kind, q.on, id) : q \in r.requests}
           stop == \/ r.status = "Cancelled"
                   \/ r.status # "Completed" /\ id \in live \cap (flagged \cup S)
           ends == id \in live /\ (stop \/ r.status = "Completed")
           gone == Discarded(S) \cup (IF ends THEN {id} ELSE {})
           goes == IF id \in live /\ ~ends THEN {id} ELSE {}
           fresh == IF r.status = "Cancelled" THEN {}
                    ELSE {Release(id, i) : i \in r.held}
           forced == FlushesOf(S) \cup
                       (IF stop
                        THEN FlushesOf({id} \cap Actions) \cup {Flush(id, i) : i \in r.held}
                        ELSE {})
           resumed == IF r.status = "Continue" THEN goes ELSE {}
           parked  == IF r.status = "Delayed" THEN goes ELSE {}
           back    == {id} \cap Actions
<1>1. /\ mailbox \in Seq(Events) /\ mailbox # <<>> /\ mailbox' = Tail(mailbox)
      /\ r \in Results /\ r.type = "result" /\ id \in Ids /\ r.status \in Statuses
  BY PoppedTypes, EventFacts, ResultFacts DEF HandleResult, Popped, KeyInv, TypeInv, TypeOK
<1>2. S \in SUBSET Actions
  <2>1. \A q \in r.requests : Targets(q.kind, q.on, id) \subseteq Cancelable
    BY <1>1, ResultFacts, TargetsTypes DEF CancelItem
  <2>2. QED BY <2>1, SchedulerAssumption
<1>3. \A i \in r.held : Release(id, i) \in Releases /\ Flush(id, i) \in Flushes
  BY <1>1, ResultFacts, IdFacts
<1>4. fresh \in SUBSET Ids /\ fresh \cap Actions = {}
  BY <1>3, IdFacts, IdsDisjoint
<1>5. forced \in SUBSET Flushes
  <2>1. FlushesOf(S) \subseteq Flushes /\ FlushesOf({id} \cap Actions) \subseteq Flushes
    BY <1>2, FlushesOfTypes DEF KeyInv, TypeInv
  <2> QED BY <1>3, <2>1
<1>6. /\ Settle(gone, LinkedTo(S) \ gone, fresh, forced, resumed, parked)
      /\ UNCHANGED <<ticket, unsent, running>>
  BY DEF HandleResult, SchedulerRest, callVars, workerVars
<1>7. resumed \in SUBSET Ids /\ parked \in SUBSET Ids /\ back \in SUBSET Actions /\ resumed \cap parked = {}
  BY <1>1
<1>8. /\ Discarded(S) \in SUBSET Ids
      /\ Discarded(S) \cap Actions \subseteq waiting \cup delayed \cup pausedReady
      /\ LinkedTo(S) \cap Actions = {}
  BY <1>2, DiscardedFacts
<1>9. /\ Once("submit")' /\ Posted("submit") = Posted("submit")'
      /\ Once("result")' /\ Posted("result") = Posted("result")' \cup {id}
      /\ id \in Actions => id \notin Posted("result")'
  <2>1. Once("submit") /\ Once("result")
    BY DEF KeyInv, SubmitsOnce, OnePlace
  <2>2. Once("submit")' /\ Posted("submit") = Posted("submit")'
    <3>1. Head(mailbox).type # "submit"
      BY <1>1
    <3> QED BY <1>1, <2>1, <3>1, Handled
  <2>3. /\ Once("result")' /\ Posted("result") = Posted("result")' \cup {id}
        /\ id \in Actions => id \notin Posted("result")'
    BY <1>1, <2>1, Handled
  <2> QED BY <2>2, <2>3
<1>10. Holders = (inbound \cup running \cup Posted("result") \cup delayed \cup pausedReady) \cap Actions
  BY HoldersAre DEF KeyInv
<1>11. id \in Actions => /\ id \in Holders /\ id \in live /\ id \notin waiting
                         /\ id \notin inbound \cup running \cup delayed \cup pausedReady
  BY <1>9, <1>10 DEF KeyInv, KeysHeld, OnePlace
<1>12. id \in Actions => \/ ends /\ goes = {}
                         \/ ~ends /\ goes = {id} /\ r.status \in {"Continue", "Delayed"}
  BY <1>1, <1>11 DEF Statuses
<1> HIDE DEF S, stop
<1>13. back \subseteq gone \cup resumed \cup parked /\ (resumed \cup parked) \cap Actions \subseteq back
  BY <1>12
<1>14. /\ gone \in SUBSET Ids /\ gone \cap Actions \subseteq waiting \cup Holders
       /\ (LinkedTo(S) \ gone) \cap Actions = {}
  BY <1>1, <1>8, <1>10, <1>11
<1>15. gone \cap Actions \cap (inbound \cup running \cup Posted("result")') = {}
  <2>1. \A a \in Discarded(S) \cap Actions : a \notin inbound \cup running \cup Posted("result")
    BY <1>8, <1>10 DEF KeyInv, OnePlace, KeysHeld
  <2> QED BY <1>9, <1>11, <2>1
<1>16. back \cap Posted("result")' = {}
       /\ Posted("result") \cap Actions = (Posted("result")' \cap Actions) \cup back
  BY <1>9
<1>17. gone \cap Actions \cap (resumed \cup parked) = {}
  BY <1>8, <1>11
<1> HIDE DEF gone, fresh, forced, resumed, parked, back, ends, goes, r, id
<1>18. /\ OnePlace'
       /\ Holders' = (Holders \ gone) \cup Promoted(FreedKeys(gone), gone) \cup (fresh \cap Actions)
       /\ live' \cap Actions \subseteq live \cup fresh
       /\ waiting' \subseteq waiting
  <2>1. Returned(back, gone, fresh, resumed, parked)
    BY <1>4, <1>7, <1>13, <1>15, <1>16, <1>17 DEF Returned
  <2> QED BY <1>4, <1>5, <1>6, <1>7, <1>9, <1>14, <2>1, PlacesSettled
<1>19. KeysHeld'
  BY <1>4, <1>5, <1>6, <1>7, <1>14, <1>18, KeysHandedOver
<1>20. live' \cap Actions \subseteq live
  BY <1>4, <1>18
<1> QED BY <1>6, <1>9, <1>18, <1>19, <1>20, SubmitsKept, TicketsKept DEF KeyInv

\* Pauses, resumes and delays that end move registered contexts to the pool.
LEMMA KeyScheduler ==
  ASSUME KeyInv, TypeInv', HandleEvent \/ ProcessDueDelays
  PROVE  KeyInv'
<1>1. ASSUME NEW type, type \notin {"submit", "result"}, Popped(type)
      PROVE  /\ Once("submit")' /\ Posted("submit")' = Posted("submit")
             /\ Once("result")' /\ Posted("result")' = Posted("result")
  <2>1. Once("submit") /\ Once("result")
    BY DEF KeyInv, SubmitsOnce, OnePlace
  <2>2. /\ mailbox \in Seq(Events) /\ mailbox # <<>> /\ mailbox' = Tail(mailbox)
        /\ Head(mailbox).type # "submit" /\ Head(mailbox).type # "result"
    BY <1>1 DEF Popped, KeyInv, TypeInv, TypeOK
  <2>3. Once("submit")' /\ Posted("submit")' = Posted("submit")
    BY <2>1, <2>2, Handled
  <2>4. Once("result")' /\ Posted("result")' = Posted("result")
    BY <2>1, <2>2, Handled
  <2> QED BY <2>3, <2>4
<1>2. ASSUME /\ Once("submit")' /\ Posted("submit")' = Posted("submit")
             /\ Once("result")' /\ Posted("result")' = Posted("result"),
             NEW moved \in SUBSET (delayed \cup pausedReady),
             inbound' = inbound \cup moved, delayed' \subseteq delayed, pausedReady' \subseteq pausedReady,
             \A a \in Actions :
               a \in delayed \cup pausedReady <=> a \in moved \/ a \in delayed' \cup pausedReady',
             \A a \in Actions : a \in moved => a \notin delayed' \cup pausedReady',
             UNCHANGED <<unsent, ticket, live, busy, waiting, urgent, running>>
      PROVE  KeyInv'
  <2>1. SubmitsOnce' /\ Tickets'
    BY <1>2, SubmitsKept, TicketsKept DEF KeyInv
  <2>2. OnePlace'
    BY <1>2 DEF KeyInv, OnePlace
  <2>3. Holders' = Holders
    BY <1>2 DEF Holders, InFlight, Reported, Posted
  <2>4. KeysHeld'
    BY <1>2, <2>3, HeldKept DEF KeyInv
  <2> QED BY <2>1, <2>2, <2>4 DEF KeyInv
<1>3. ASSUME HandlePause PROVE KeyInv'
  <2>1. PICK moved : moved = {}
    OBVIOUS
  <2>2. /\ moved \in SUBSET (delayed \cup pausedReady) /\ inbound' = inbound \cup moved
        /\ UNCHANGED <<delayed, pausedReady>> /\ Popped("pause")
        /\ UNCHANGED <<unsent, ticket, live, busy, waiting, urgent, running>>
    BY <1>3, <2>1 DEF HandlePause, SchedulerRest, schedVars, callVars, workerVars
  <2> QED BY <1>1, <1>2, <2>1, <2>2
<1>4. ASSUME HandleResume PROVE KeyInv'
  <2>1. Popped("resume") /\ UNCHANGED <<unsent, ticket, live, busy, waiting, urgent, running>>
    BY <1>4 DEF HandleResume, SchedulerRest, callVars, workerVars
  <2>2. CASE UNCHANGED <<inbound, delayed, pausedReady>>
    <3>1. PICK moved : moved = {}
      OBVIOUS
    <3>2. moved \in SUBSET (delayed \cup pausedReady) /\ inbound' = inbound \cup moved
      BY <2>2, <3>1
    <3> QED BY <1>1, <1>2, <2>1, <2>2, <3>1, <3>2
  <2>3. ASSUME NEW due \in SUBSET delayed, delayed' = delayed \ due,
               inbound' = inbound \cup pausedReady \cup due, pausedReady' = {}
        PROVE  KeyInv'
    <3> DEFINE moved == pausedReady \cup due
    <3>1. moved \in SUBSET (delayed \cup pausedReady) /\ inbound' = inbound \cup moved
      BY <2>3
    <3>2. \A a \in Actions : a \in delayed => a \notin pausedReady
      BY DEF KeyInv, OnePlace
    <3>3. /\ \A a \in Actions : a \in delayed \cup pausedReady
                               <=> a \in moved \/ a \in delayed' \cup pausedReady'
          /\ \A a \in Actions : a \in moved => a \notin delayed' \cup pausedReady'
      BY <2>3, <3>2
    <3> HIDE DEF moved
    <3> QED BY <1>1, <1>2, <2>1, <2>3, <3>1, <3>3
  <2> QED BY <1>4, <2>2, <2>3 DEF HandleResume
<1>5. ASSUME ProcessDueDelays PROVE KeyInv'
  <2>1. PICK due \in SUBSET delayed : delayed' = delayed \ due /\ inbound' = inbound \cup due
    BY <1>5 DEF ProcessDueDelays
  <2>2. /\ UNCHANGED <<mailbox, pausedReady>>
        /\ UNCHANGED <<unsent, ticket, live, busy, waiting, urgent, running>>
    BY <1>5 DEF ProcessDueDelays, SchedulerRest, callVars, workerVars
  <2>3. /\ Once("submit")' /\ Posted("submit")' = Posted("submit")
        /\ Once("result")' /\ Posted("result")' = Posted("result")
    BY <2>2 DEF KeyInv, SubmitsOnce, OnePlace, Once, Posted
  <2>4. /\ \A a \in Actions : a \in delayed \cup pausedReady
                             <=> a \in due \/ a \in delayed' \cup pausedReady'
        /\ \A a \in Actions : a \in due => a \notin delayed' \cup pausedReady'
    BY <2>1, <2>2 DEF KeyInv, OnePlace
  <2> QED BY <1>2, <2>1, <2>2, <2>3, <2>4
<1> QED BY <1>3, <1>4, <1>5, KeySubmit, KeyCancel, KeyResult DEF HandleEvent

\* The workers take contexts and send them back.
LEMMA KeyWorkers ==
  ASSUME KeyInv, TypeInv', WorkerStep
  PROVE  KeyInv'
<1> USE DEF WorkerRest, callVars
<1>1. /\ mailbox \in Seq(Events) /\ Once("submit") /\ Once("result")
  BY DEF KeyInv, TypeInv, TypeOK, SubmitsOnce, OnePlace
<1>2. ASSUME /\ Once("submit")' /\ Posted("submit")' = Posted("submit"), OnePlace',
             Holders' = Holders, WorkerRest
      PROVE  KeyInv'
  <2>1. SubmitsOnce' /\ Tickets'
    BY <1>2, SubmitsKept, TicketsKept DEF KeyInv
  <2>2. KeysHeld'
    BY <1>2, HeldKept DEF KeyInv
  <2> QED BY <1>2, <2>1, <2>2 DEF KeyInv
<1>3. ASSUME UNCHANGED mailbox
      PROVE  /\ Once("submit")' /\ Posted("submit")' = Posted("submit")
             /\ Once("result")' /\ Posted("result")' = Posted("result")
  BY <1>1, <1>3 DEF Once, Posted
<1>4. ASSUME TakeUrgent PROVE KeyInv'
  <2>1. PICK id \in urgent : urgent' = urgent \ {id} /\ running' = running \cup {id}
    BY <1>4 DEF TakeUrgent
  <2>2. id \notin Actions
    BY IdsDisjoint DEF KeyInv, TypeInv, TypeOK
  <2>3. UNCHANGED <<mailbox, inbound>> /\ WorkerRest
    BY <1>4 DEF TakeUrgent
  <2>4. OnePlace'
    BY <1>3, <2>1, <2>2, <2>3 DEF KeyInv, OnePlace
  <2>5. Holders' = Holders
    BY <1>3, <2>1, <2>2, <2>3 DEF Holders, InFlight, Reported, Posted
  <2> QED BY <1>2, <1>3, <2>3, <2>4, <2>5
<1>5. ASSUME TakeInbound PROVE KeyInv'
  <2>1. PICK id \in inbound : inbound' = inbound \ {id} /\ running' = running \cup {id}
    BY <1>5 DEF TakeInbound
  <2>2. UNCHANGED <<mailbox, urgent>> /\ WorkerRest
    BY <1>5 DEF TakeInbound
  <2>3. OnePlace'
    BY <1>3, <2>1, <2>2 DEF KeyInv, OnePlace
  <2>4. Holders' = Holders
    BY <1>3, <2>1, <2>2 DEF Holders, InFlight, Reported, Posted
  <2> QED BY <1>2, <1>3, <2>2, <2>3, <2>4
<1>6. ASSUME UNCHANGED <<mailbox, inbound, urgent, running>>, WorkerRest PROVE KeyInv'
  <2>1. OnePlace' /\ Holders' = Holders
    BY <1>3, <1>6 DEF KeyInv, OnePlace, Holders, InFlight, Reported, Posted
  <2> QED BY <1>2, <1>3, <1>6, <2>1
<1>7. ASSUME NEW id \in running, NEW status, NEW held, NEW requests,
             Deliver(id, status, held, requests), mailbox' \in Seq(Events),
             UNCHANGED <<inbound, urgent>>, WorkerRest
      PROVE  KeyInv'
  <2> DEFINE e == Result(id, status, held, requests)
  <2>1. Push(e) /\ running' = running \ {id} /\ e.type = "result" /\ e.of = id
    BY <1>7 DEF Deliver, Result
  <2>2. e \in Events
    <3>1. mailbox' = Append(mailbox, e) /\ Len(mailbox) + 1 \in DOMAIN mailbox'
          /\ mailbox'[Len(mailbox) + 1] = e
      BY <1>1, <2>1 DEF Push
    <3> QED BY <1>7, <3>1
  <2> HIDE DEF e
  <2>3. id \in Actions => id \notin Posted("result")
    BY DEF KeyInv, OnePlace
  <2>4. Once("submit")' /\ Posted("submit")' = Posted("submit")
    <3>1. e.type # "submit"
      BY <2>1
    <3> QED BY <1>1, <2>1, <2>2, <3>1, PushedOther
  <2>5. Once("result")' /\ Posted("result")' = Posted("result") \cup {id}
    BY <1>1, <2>1, <2>2, <2>3, Pushed
  <2>6. OnePlace'
    BY <1>7, <2>1, <2>5 DEF KeyInv, OnePlace
  <2>7. Holders' = Holders
    BY <1>7, <2>1, <2>5 DEF Holders, InFlight, Reported, Posted
  <2> QED BY <1>2, <1>7, <2>4, <2>6, <2>7
<1>8. mailbox' \in Seq(Events)
  BY DEF TypeInv, TypeOK
<1>9. ASSUME NEW id \in Ids, BeginItem(id) PROVE KeyInv'
  BY <1>6, <1>9 DEF BeginItem
<1>10. ASSUME NEW id \in Ids, EndItem(id) PROVE KeyInv'
  <2>1. id \in running /\ UNCHANGED <<inbound, urgent>> /\ WorkerRest
    BY <1>10 DEF EndItem, KeyInv, TypeInv, TypeOK
  <2>2. CASE UNCHANGED <<mailbox, running>>
    BY <1>6, <2>1, <2>2
  <2>3. CASE \E status, held, requests : Deliver(id, status, held, requests)
    BY <1>7, <1>8, <2>1, <2>3
  <2>4. UNCHANGED <<mailbox, running>> \/ \E status, held, requests : Deliver(id, status, held, requests)
    BY <1>10 DEF EndItem
  <2> QED BY <2>2, <2>3, <2>4
<1>11. ASSUME NEW id \in Ids, EndTurn(id) PROVE KeyInv'
  <2>1. id \in running /\ UNCHANGED <<inbound, urgent>> /\ WorkerRest
    BY <1>11 DEF EndTurn
  <2>2. \E status, held, requests : Deliver(id, status, held, requests)
    BY <1>11 DEF EndTurn
  <2> QED BY <1>7, <1>8, <2>1, <2>2
<1> QED BY <1>4, <1>5, <1>9, <1>10, <1>11 DEF WorkerStep

LEMMA KeyStep == KeyInv /\ [Next]_vars => KeyInv'
<1> SUFFICES ASSUME KeyInv, [Next]_vars PROVE KeyInv'
  OBVIOUS
<1>1. TypeInv'
  BY TypeStep DEF KeyInv
<1>2. CASE UNCHANGED vars
  BY <1>1, <1>2
     DEF KeyInv, SubmitsOnce, OnePlace, Tickets, KeysHeld, Holders, InFlight, Reported, Once, Posted, vars
<1> QED BY <1>1, <1>2, KeyCallers, KeyScheduler, KeyWorkers DEF Next

-----------------------------------------------------------------------------
(* The theorems.                                                           *)

\* Through delays, pauses, cancels and hand-overs no key has two holders
\* (ChannelManager, discardContext, releaseAndTakeNext): the actions of a
\* channel run one at a time, whatever the program.
THEOREM OneHolder == Spec => []OneHolderPerKey
<1>1. ASSUME KeyInv PROVE OneHolderPerKey
  <2> SUFFICES ASSUME NEW x \in InFlight, NEW y \in InFlight, KeyOf(x) = KeyOf(y) PROVE x = y
    BY DEF OneHolderPerKey
  <2>1. InFlight \subseteq Ids
    <3>1. \A n \in DOMAIN mailbox : mailbox[n] \in Events
      BY <1>1 DEF KeyInv, TypeInv, TypeOK
    <3>2. Reported \subseteq Ids
      BY <3>1, EventFacts, ResultFacts DEF Reported
    <3> QED BY <1>1, <3>2, IdFacts DEF InFlight, KeyInv, TypeInv, TypeOK
  <2>2. CASE x \in Actions /\ y \in Actions
    BY <1>1, <2>2 DEF KeyInv, KeysHeld, Holders
  <2>3. CASE x \notin Actions
    BY <2>1, <2>3, KeyFacts
  <2>4. CASE y \notin Actions
    BY <2>1, <2>4, KeyFacts
  <2> QED BY <2>2, <2>3, <2>4
<1> QED BY KeyInit, KeyStep, <1>1, PTL DEF Spec

\* No channel is stuck: whatever waits for a channel, and whatever channel is
\* marked busy, has a registered holder, whose end will release it
\* (releaseAndTakeNext, removeWaitingIf).
THEOREM NoChannelStuck == Spec => []WaitersHaveHolder
<1>1. ASSUME KeyInv PROVE WaitersHaveHolder
  <2> SUFFICES ASSUME NEW c \in Channels, c \in busy \cup {KeyOf(w) : w \in waiting}
               PROVE  \E x \in InFlight \cap live : KeyOf(x) = c
    BY DEF WaitersHaveHolder
  <2>1. c \in busy
    BY <1>1 DEF KeyInv, KeysHeld
  <2>2. PICK x \in Holders : KeyOf(x) = c
    BY <1>1, <2>1 DEF KeyInv, KeysHeld
  <2>3. x \in InFlight /\ x \in live
    BY <1>1 DEF KeyInv, KeysHeld, Holders
  <2> QED BY <2>2, <2>3
<1> QED BY KeyInit, KeyStep, <1>1, PTL DEF Spec
=============================================================================
