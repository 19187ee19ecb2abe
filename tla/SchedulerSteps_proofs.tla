----------------------- MODULE SchedulerSteps_proofs ------------------------
(* No key stays pressed for want of a release: whatever is delayed,        *)
(* paused or cancelled, by callers or by items, a pressed key has a KeyUp  *)
(* on its way.  And what a step of the scheduler may not do: go on with an *)
(* action after its cancel has been handled, drop one that cannot be       *)
(* cancelled before its end, or hand work to a paused pool.  And that the  *)
(* scheduler implements the queues of ChannelOrder.                        *)
EXTENDS SchedulerOrder, Scheduler_proofs, Filter_proofs

-----------------------------------------------------------------------------
(* The invariant.                                                          *)

KeyUps   == Releases \cup Flushes
ReleaseOf(h) == Release(h[1], h[2])
FlushOf(h)   == Flush(h[1], h[2])

\* The results the scheduler has yet to handle.
Reports == {mailbox[n] : n \in {m \in DOMAIN mailbox : mailbox[m].type = "result"}}

\* Before its item is executed nothing is known of a hold.
Fresh ==
  \A h \in Holds : index[h[1]] < h[2] =>
    /\ index[ReleaseOf(h)] = 0 /\ ReleaseOf(h) \notin InFlight
    /\ index[FlushOf(h)] = 0 /\ FlushOf(h) \notin InFlight
    /\ h[2] \notin flushOf[h[1]] /\ h \notin down
    /\ \A r \in Reports : r.of = h[1] => h[2] \notin r.held

\* KeyUps are not cancelled, and leave when they are done.
KeyUpsReport ==
  \A r \in Reports : r.of \in KeyUps =>
    r.status # "Cancelled" /\ (r.status = "Completed" => Finished(r.of))

\* A KeyUp is registered, or the result is on its way that registers it.
OnItsWay(h) ==
  \/ ReleaseOf(h) \in live
  \/ FlushOf(h) \in live
  \/ \E r \in Reports : r.of = h[1] /\ h[2] \in r.held

Pressed ==
  \A h \in down : ~Finished(ReleaseOf(h)) /\ ~Finished(FlushOf(h)) /\ OnItsWay(h)

PressInv ==
  /\ KeyInv
  /\ linked = flushOf
  /\ live \cap KeyUps \subseteq InFlight
  /\ Fresh /\ KeyUpsReport /\ Pressed

-----------------------------------------------------------------------------
(* Holds, their KeyUps, and the results.                                   *)

LEMMA HoldFacts ==
  /\ \A h \in Holds : h[1] \in Actions /\ h[2] \in HoldsOf(h[1]) /\ h[2] \in Nat /\ h = <<h[1], h[2]>>
  /\ \A a \in Actions, i \in Nat : i \in HoldsOf(a) => <<a, i>> \in Holds
<1>1. ASSUME NEW h \in Holds
      PROVE  h[1] \in Actions /\ h[2] \in HoldsOf(h[1]) /\ h[2] \in Nat /\ h = <<h[1], h[2]>>
  <2>1. PICK a \in Actions : h \in {a} \X HoldsOf(a)
    BY DEF Holds
  <2>2. h[1] = a /\ h[2] \in HoldsOf(a) /\ h = <<h[1], h[2]>>
    BY <2>1
  <2> QED BY <2>1, <2>2, IdFacts
<1> QED BY <1>1, IdFacts

LEMMA KeyUpFacts ==
  /\ \A h \in Holds : ReleaseOf(h) \in Releases /\ FlushOf(h) \in Flushes
  /\ \A k \in Releases : \E h \in Holds : k = ReleaseOf(h)
  /\ \A k \in Flushes : \E h \in Holds : k = FlushOf(h)
  /\ \A h, g \in Holds : ReleaseOf(h) = ReleaseOf(g) \/ FlushOf(h) = FlushOf(g) => h = g
  /\ KeyUps \subseteq Ids /\ KeyUps \cap Actions = {} /\ Releases \cap Flushes = {}
<1>1. \A h, g \in Holds : ReleaseOf(h) = ReleaseOf(g) \/ FlushOf(h) = FlushOf(g) => h = g
  <2> SUFFICES ASSUME NEW h \in Holds, NEW g \in Holds,
                      ReleaseOf(h) = ReleaseOf(g) \/ FlushOf(h) = FlushOf(g)
               PROVE  h = g
    OBVIOUS
  <2>1. h[1] = g[1] /\ h[2] = g[2]
    BY DEF ReleaseOf, FlushOf, Release, Flush
  <2> QED BY <2>1, HoldFacts
<1>2. \A h \in Holds : ReleaseOf(h) \in Releases /\ FlushOf(h) \in Flushes
  BY DEF Releases, Flushes, ReleaseOf, FlushOf
<1>3. /\ \A k \in Releases : \E h \in Holds : k = ReleaseOf(h)
      /\ \A k \in Flushes : \E h \in Holds : k = FlushOf(h)
  BY DEF Releases, Flushes, ReleaseOf, FlushOf
<1> QED BY <1>1, <1>2, <1>3, IdFacts, IdsDisjoint DEF KeyUps

\* A release is a delay and the release of the key, a flush only that.
LEMMA KeyUpItems ==
  /\ \A k \in Releases :
       /\ Len(ItemsOf(k)) = 2
       /\ ItemsOf(k)[1].kind = "delay" /\ ItemsOf(k)[2].kind = "release"
  /\ \A k \in Flushes : Len(ItemsOf(k)) = 1 /\ ItemsOf(k)[1].kind = "release"
<1>1. \A k \in Releases : ItemsOf(k) = <<ItemOf("delay"), ItemOf("release")>>
  BY IdsDisjoint DEF ItemsOf
<1>2. \A k \in Flushes : ItemsOf(k) = <<ItemOf("release")>>
  BY IdsDisjoint DEF ItemsOf
<1> QED BY <1>1, <1>2 DEF ItemOf

LEMMA ReportsFacts ==
  ASSUME mailbox \in Seq(Events)
  PROVE  /\ Reported = {r.of : r \in Reports}
         /\ \A r \in Reports : r \in Results /\ r.type = "result" /\ r.of \in Ids
<1>1. \A n \in DOMAIN mailbox : mailbox[n] \in Events
  OBVIOUS
<1>2. \A r \in Reports : r \in Results /\ r.type = "result" /\ r.of \in Ids
  BY <1>1, EventFacts, ResultFacts DEF Reports
<1>3. Reported = {r.of : r \in Reports}
  BY DEF Reported, Reports
<1> QED BY <1>2, <1>3

LEMMA SameReported == Reports' = Reports => Reported' = Reported
<1>1. Reported = {r.of : r \in Reports} /\ Reported' = {r.of : r \in Reports'}
  BY DEF Reported, Reports
<1> QED BY <1>1

LEMMA ReportPushed ==
  ASSUME mailbox \in Seq(Events), NEW e \in Events, Push(e)
  PROVE  Reports' = Reports \cup (IF e.type = "result" THEN {e} ELSE {})
<1>1. /\ mailbox' = Append(mailbox, e) /\ Len(mailbox) \in Nat
      /\ DOMAIN mailbox = 1 .. Len(mailbox) /\ DOMAIN mailbox' = 1 .. Len(mailbox) + 1
      /\ mailbox'[Len(mailbox) + 1] = e
      /\ \A n \in DOMAIN mailbox : mailbox'[n] = mailbox[n]
  BY DEF Push
<1>2. /\ \A n \in DOMAIN mailbox' : n \in DOMAIN mailbox \/ n = Len(mailbox) + 1
      /\ \A n \in DOMAIN mailbox : n \in DOMAIN mailbox'
      /\ Len(mailbox) + 1 \in DOMAIN mailbox'
  BY <1>1
<1>3. Reports' \subseteq Reports \cup (IF e.type = "result" THEN {e} ELSE {})
  BY <1>1, <1>2 DEF Reports
<1>4. Reports \subseteq Reports'
  BY <1>1, <1>2 DEF Reports
<1>5. e.type = "result" => e \in Reports'
  BY <1>1, <1>2 DEF Reports
<1> QED BY <1>3, <1>4, <1>5

LEMMA ReportHandled ==
  ASSUME mailbox \in Seq(Events), mailbox # <<>>, mailbox' = Tail(mailbox)
  PROVE  Reports = Reports' \cup (IF Head(mailbox).type = "result" THEN {Head(mailbox)} ELSE {})
<1>1. /\ 1 \in DOMAIN mailbox /\ mailbox[1] = Head(mailbox)
      /\ \A n \in DOMAIN mailbox' : n + 1 \in DOMAIN mailbox /\ mailbox'[n] = mailbox[n + 1]
      /\ \A n \in DOMAIN mailbox : n = 1 \/ (n - 1 \in DOMAIN mailbox' /\ mailbox'[n - 1] = mailbox[n])
  OBVIOUS
<1>2. Reports' \subseteq Reports
  BY <1>1 DEF Reports
<1>3. Head(mailbox).type = "result" => Head(mailbox) \in Reports
  BY <1>1 DEF Reports
<1>4. Reports \subseteq Reports' \cup (IF Head(mailbox).type = "result" THEN {Head(mailbox)} ELSE {})
  BY <1>1 DEF Reports
<1> QED BY <1>2, <1>3, <1>4

-----------------------------------------------------------------------------
(* The steps.                                                              *)

LEMMA PressInit == Init => PressInv
<1> SUFFICES ASSUME Init PROVE PressInv
  OBVIOUS
<1>1. Reports = {} /\ Reported = {}
  BY DEF Init, Reports, Reported
<1>2. InFlight = {}
  BY <1>1 DEF Init, InFlight
<1>3. Fresh
  BY <1>1, <1>2, KeyUpFacts, HoldFacts DEF Fresh, Init, KeyUps
<1> QED BY KeyInit, <1>1, <1>3 DEF Init, PressInv, KeyUpsReport, Pressed

\* A step that only moves contexts about, or posts or handles other events.
LEMMA PressKept ==
  ASSUME PressInv, KeyInv', UNCHANGED <<live, flushOf, linked, index, down>>,
         Reports' = Reports, InFlight' = InFlight
  PROVE  PressInv'
<1>1. Fresh'
  BY DEF PressInv, Fresh
<1>2. KeyUpsReport' /\ Pressed'
  BY DEF PressInv, KeyUpsReport, Pressed, OnItsWay, Finished
<1> QED BY <1>1, <1>2 DEF PressInv

LEMMA PressCallers ==
  ASSUME PressInv, KeyInv', CallerStep
  PROVE  PressInv'
<1> USE DEF CallersRest, schedVars, workerVars
<1>1. mailbox \in Seq(Events)
  BY DEF PressInv, KeyInv, TypeInv, TypeOK
<1>2. ASSUME NEW e \in Events, Push(e), e.type # "result", CallersRest
      PROVE  PressInv'
  <2>1. Reports' = Reports
    BY <1>1, <1>2, ReportPushed
  <2>2. Reported' = Reported
    BY <2>1, SameReported
  <2>3. InFlight' = InFlight
    BY <1>2, <2>2 DEF InFlight
  <2> QED BY <1>2, <2>1, <2>3, PressKept
<1>3. /\ \A a \in Actions : Submitted(a) \in Events /\ Submitted(a).type # "result"
      /\ \A a \in Actions : [type |-> "cancelAction", of |-> a] \in Events
      /\ \A c \in Channels \cup {Private} : [type |-> "cancelChannel", of |-> c] \in Events
      /\ \A t \in {"cancelAll", "pause", "resume"} : [type |-> t] \in Events
  BY DEF Submitted, Events
<1>4. \A e \in Events : CancelCall(e) /\ e.type # "result" => PressInv'
  BY <1>2 DEF CancelCall
<1>5. ASSUME NEW a \in Actions, Submit(a) PROVE PressInv'
  BY <1>2, <1>3, <1>5 DEF Submit
<1>6. ASSUME RequestCancel PROVE PressInv'
  BY <1>3, <1>4, <1>6 DEF RequestCancel
<1>7. ASSUME RequestPause \/ RequestResume PROVE PressInv'
  <2>1. PICK t \in {"pause", "resume"} : Push([type |-> t]) /\ CallersRest
    BY <1>7 DEF RequestPause, RequestResume
  <2> QED BY <1>2, <1>3, <2>1
<1> QED BY <1>5, <1>6, <1>7 DEF CallerStep

\* A KeyUp whose result is handled, one of back, is destroyed or goes on.
KeyUpsBack(back, gone, resumed, parked) ==
  /\ Reported = Reported' \cup back
  /\ back \cap live \cap KeyUps \subseteq gone \cup resumed \cup parked
  /\ resumed \cup parked \subseteq back

\* After a handler a registered KeyUp is in flight, and no other than before
\* and those it registers.
LEMMA KeyUpsSettled ==
  ASSUME PressInv, NEW gone, NEW orphaned, NEW fresh, NEW forced \in SUBSET Flushes,
         NEW resumed, NEW parked, NEW back,
         Settle(gone, orphaned, fresh, forced, resumed, parked),
         running' = running, KeyUpsBack(back, gone, resumed, parked)
  PROVE  /\ live' \cap KeyUps \subseteq InFlight'
         /\ InFlight' \cap KeyUps \subseteq InFlight \cup fresh \cup forced
<1> USE DEF KeyUpsBack
<1> DEFINE next  == Promoted(FreedKeys(gone), gone)
           ready == next \cup fresh \cup resumed
<1>1. /\ live' = (live \ (gone \cup orphaned)) \cup fresh \cup forced
      /\ delayed' = (delayed \ gone) \cup parked
      /\ pausedReady' = (pausedReady \ gone) \cup (IF paused THEN ready ELSE {})
      /\ inbound' = inbound \cup (IF paused THEN {} ELSE ready)
      /\ urgent' = urgent \cup forced
  BY DEF Settle
<1>2. next \cap KeyUps = {}
  BY KeyUpFacts DEF Promoted, PressInv, KeyInv, TypeInv, TypeOK
<1>3. ready \subseteq InFlight' /\ forced \subseteq InFlight' /\ parked \subseteq InFlight'
  BY <1>1 DEF InFlight
<1> HIDE DEF next
<1>4. \A x \in InFlight : x \in InFlight' \/ x \in gone \/ x \in back
  BY <1>1 DEF InFlight
<1>5. live' \cap KeyUps \subseteq InFlight'
  BY <1>1, <1>3, <1>4 DEF PressInv
<1>6. InFlight' \cap KeyUps \subseteq InFlight \cup fresh \cup forced
  BY <1>1, <1>2 DEF InFlight
<1> QED BY <1>5, <1>6

LEMMA PressSubmit ==
  ASSUME PressInv, KeyInv', HandleSubmit
  PROVE  PressInv'
<1> DEFINE a == Head(mailbox).of
<1>1. /\ mailbox \in Seq(Events) /\ mailbox # <<>> /\ mailbox' = Tail(mailbox)
      /\ Head(mailbox).type = "submit" /\ a \in Actions
  BY PoppedTypes, EventFacts DEF HandleSubmit, Popped, PressInv, KeyInv, TypeInv, TypeOK
<1>2. Reports' = Reports
  BY <1>1, ReportHandled
<1>3. Reported' = Reported
  BY <1>2, SameReported
<1>4. UNCHANGED <<flushOf, linked, index, down, running>>
  BY DEF HandleSubmit, SchedulerRest, workerVars
<1>5. /\ live' = live \cup {a} /\ live' \cap KeyUps \subseteq InFlight'
      /\ InFlight' \cap KeyUps \subseteq InFlight
  <2>1. CASE KeyOf(a) \in busy
    <3>1. live' = live \cup {a} /\ UNCHANGED <<delayed, pausedReady, inbound, urgent>>
      BY <2>1 DEF HandleSubmit
    <3>2. InFlight' = InFlight
      BY <1>3, <1>4, <3>1 DEF InFlight
    <3> QED BY <1>1, <3>1, <3>2, KeyUpFacts DEF PressInv
  <2>2. CASE KeyOf(a) \notin busy
    <3>1. Settle({}, {}, {a}, {}, {}, {})
      BY <2>2 DEF HandleSubmit
    <3>2. PICK none : none = {}
      OBVIOUS
    <3>3. /\ Settle(none, none, {a}, none, none, none) /\ none \in SUBSET Flushes
          /\ KeyUpsBack(none, none, none, none)
      BY <1>3, <3>1, <3>2 DEF KeyUpsBack
    <3> HIDE DEF a
    <3>4. /\ live' \cap KeyUps \subseteq InFlight'
          /\ InFlight' \cap KeyUps \subseteq InFlight \cup {a} \cup none
      BY <1>4, <3>3, KeyUpsSettled
    <3>5. live' = live \cup {a}
      BY <3>1 DEF Settle
    <3> QED BY <1>1, <3>2, <3>4, <3>5, KeyUpFacts
  <2> QED BY <2>1, <2>2
<1> HIDE DEF a
<1>6. Fresh'
  BY <1>2, <1>4, <1>5, KeyUpFacts DEF PressInv, Fresh, KeyUps
<1>7. KeyUpsReport'
  BY <1>2, <1>4 DEF PressInv, KeyUpsReport, Finished
<1>8. Pressed'
  BY <1>2, <1>4, <1>5 DEF PressInv, Pressed, OnItsWay, Finished
<1> QED BY <1>4, <1>5, <1>6, <1>7, <1>8 DEF PressInv

\* What a cancel destroys of KeyUps are linked releases, and each of them has
\* its flush; no other flush than of an executed hold is submitted.
LEMMA CancelledKeyUps ==
  ASSUME PressInv, NEW S \in SUBSET Actions
  PROVE  /\ FlushesOf(S) \in SUBSET Flushes
         /\ Discarded(S) \cap KeyUps \subseteq LinkedTo(S)
         /\ LinkedTo(S) \cap Flushes = {}
         /\ \A h \in Holds : ReleaseOf(h) \in LinkedTo(S) => FlushOf(h) \in FlushesOf(S)
         /\ \A h \in Holds : FlushOf(h) \in FlushesOf(S) => ~(index[h[1]] < h[2])
<1>1. \A a \in Actions : \A i \in flushOf[a] : <<a, i>> \in Holds
  BY HoldFacts DEF PressInv, KeyInv, TypeInv, TypeOK
<1>2. FlushesOf(S) \in SUBSET Flushes
  BY FlushesOfTypes DEF PressInv, KeyInv, TypeInv
<1>3. \A x \in LinkedTo(S) :
        \E h \in Holds : x = ReleaseOf(h) /\ h[1] \in S /\ h[2] \in flushOf[h[1]]
  <2> SUFFICES ASSUME NEW x \in LinkedTo(S)
               PROVE  \E h \in Holds : x = ReleaseOf(h) /\ h[1] \in S /\ h[2] \in flushOf[h[1]]
    OBVIOUS
  <2>1. PICK a \in S : \E i \in flushOf[a] : x = Release(a, i)
    BY DEF LinkedTo, PressInv
  <2>2. PICK i \in flushOf[a] : x = Release(a, i)
    BY <2>1
  <2>3. <<a, i>> \in Holds /\ <<a, i>>[1] = a /\ <<a, i>>[2] = i
    BY <1>1
  <2> QED BY <2>2, <2>3 DEF ReleaseOf
<1>4. \A x \in FlushesOf(S) :
        \E h \in Holds : x = FlushOf(h) /\ h[1] \in S /\ h[2] \in flushOf[h[1]]
  <2> SUFFICES ASSUME NEW x \in FlushesOf(S)
               PROVE  \E h \in Holds : x = FlushOf(h) /\ h[1] \in S /\ h[2] \in flushOf[h[1]]
    OBVIOUS
  <2>1. PICK a \in S : \E i \in flushOf[a] : x = Flush(a, i)
    BY DEF FlushesOf
  <2>2. PICK i \in flushOf[a] : x = Flush(a, i)
    BY <2>1
  <2>3. <<a, i>> \in Holds /\ <<a, i>>[1] = a /\ <<a, i>>[2] = i
    BY <1>1
  <2> QED BY <2>2, <2>3 DEF FlushOf
<1>5. Discarded(S) \cap KeyUps \subseteq LinkedTo(S)
  BY KeyUpFacts DEF Discarded
<1>6. LinkedTo(S) \cap Flushes = {}
  BY <1>3, KeyUpFacts
<1>7. \A h \in Holds : ReleaseOf(h) \in LinkedTo(S) => FlushOf(h) \in FlushesOf(S)
  BY <1>3, KeyUpFacts DEF FlushesOf, FlushOf
<1>8. \A h \in Holds : FlushOf(h) \in FlushesOf(S) => ~(index[h[1]] < h[2])
  BY <1>4, KeyUpFacts DEF PressInv, Fresh
<1> QED BY <1>2, <1>5, <1>6, <1>7, <1>8

LEMMA PressCancel ==
  ASSUME PressInv, KeyInv', NEW scope \in {"cancelAction", "cancelChannel", "cancelAll"},
         HandleCancel(scope)
  PROVE  PressInv'
<1> DEFINE S == Targets(scope, IF scope = "cancelAll" THEN Private ELSE Head(mailbox).of, Private)
           gone == Discarded(S)
<1>1. S \in SUBSET Actions
  BY TargetsTypes, SchedulerAssumption DEF CancelKinds
<1>2. /\ mailbox \in Seq(Events) /\ mailbox # <<>> /\ mailbox' = Tail(mailbox)
      /\ Head(mailbox).type # "result"
  BY DEF HandleCancel, Popped, PressInv, KeyInv, TypeInv, TypeOK
<1>3. Reports' = Reports
  BY <1>2, ReportHandled
<1>4. Reported' = Reported
  BY <1>3, SameReported
<1>5. /\ Settle(gone, LinkedTo(S) \ gone, {}, FlushesOf(S), {}, {})
      /\ UNCHANGED <<index, down, running>>
      /\ flushOf' = [a \in Actions |-> IF a \in S THEN {} ELSE flushOf[a]]
      /\ linked' = [a \in Actions |-> IF a \in S THEN {} ELSE linked[a]]
  BY DEF HandleCancel, SchedulerRest, workerVars
<1>6. live' = (live \ (gone \cup LinkedTo(S))) \cup FlushesOf(S)
  BY <1>5 DEF Settle
<1> HIDE DEF S
<1>7. /\ FlushesOf(S) \in SUBSET Flushes
      /\ gone \cap KeyUps \subseteq LinkedTo(S)
      /\ LinkedTo(S) \cap Flushes = {}
      /\ \A h \in Holds : ReleaseOf(h) \in LinkedTo(S) => FlushOf(h) \in FlushesOf(S)
      /\ \A h \in Holds : FlushOf(h) \in FlushesOf(S) => ~(index[h[1]] < h[2])
  BY <1>1, CancelledKeyUps
<1> HIDE DEF gone
<1>8. /\ live' \cap KeyUps \subseteq InFlight'
      /\ InFlight' \cap KeyUps \subseteq InFlight \cup FlushesOf(S)
  <2>1. PICK none : none = {}
    OBVIOUS
  <2>2. /\ Settle(gone, LinkedTo(S) \ gone, none, FlushesOf(S), none, none)
        /\ KeyUpsBack(none, gone, none, none)
    BY <1>4, <1>5, <2>1 DEF KeyUpsBack
  <2>3. /\ live' \cap KeyUps \subseteq InFlight'
        /\ InFlight' \cap KeyUps \subseteq InFlight \cup none \cup FlushesOf(S)
    BY <1>5, <1>7, <2>2, KeyUpsSettled
  <2> QED BY <2>1, <2>3
<1>9. linked' = flushOf' /\ \A a \in Actions : flushOf'[a] \subseteq flushOf[a]
  BY <1>5 DEF PressInv
<1>10. Fresh'
  <2> SUFFICES ASSUME NEW h \in Holds, index[h[1]] < h[2]
               PROVE  /\ index[ReleaseOf(h)] = 0 /\ ReleaseOf(h) \notin InFlight'
                      /\ index[FlushOf(h)] = 0 /\ FlushOf(h) \notin InFlight'
                      /\ h[2] \notin flushOf'[h[1]] /\ h \notin down
                      /\ \A r \in Reports : r.of = h[1] => h[2] \notin r.held
    BY <1>3, <1>5 DEF Fresh
  <2>1. ReleaseOf(h) \in KeyUps \ Flushes /\ FlushOf(h) \in KeyUps
    BY KeyUpFacts DEF KeyUps
  <2>2. h[1] \in Actions
    BY HoldFacts
  <2> QED BY <1>7, <1>8, <1>9, <2>1, <2>2 DEF PressInv, Fresh
<1>11. KeyUpsReport'
  BY <1>3, <1>5 DEF PressInv, KeyUpsReport, Finished
<1>12. Pressed'
  <2> SUFFICES ASSUME NEW h \in down
               PROVE  ~Finished(ReleaseOf(h)) /\ ~Finished(FlushOf(h)) /\ OnItsWay(h)'
    BY <1>5 DEF Pressed, Finished
  <2>1. h \in Holds
    BY DEF PressInv, KeyInv, TypeInv, TypeOK
  <2>2. /\ ReleaseOf(h) \in live => ReleaseOf(h) \in live' \/ FlushOf(h) \in live'
        /\ FlushOf(h) \in live => FlushOf(h) \in live'
    BY <1>6, <1>7, <2>1, KeyUpFacts DEF KeyUps
  <2> QED BY <1>3, <2>2 DEF PressInv, Pressed, OnItsWay
<1> QED BY <1>8, <1>9, <1>10, <1>11, <1>12 DEF PressInv

LEMMA PressResult ==
  ASSUME PressInv, KeyInv', HandleResult
  PROVE  PressInv'
<1> DEFINE r    == Head(mailbox)
           id   == r.of
           S    == UNION {Targets(q.kind, q.on, id) : q \in r.requests}
           stop == \/ r.status = "Cancelled"
                   \/ r.status # "Completed" /\ id \in live \cap (flagged \cup S)
           ends == id \in live /\ (stop \/ r.status = "Completed")
           gone == Discarded(S) \cup (IF ends THEN {id} ELSE {})
           goes == IF id \in live /\ ~ends THEN {id} ELSE {}
           fresh == IF r.status = "Cancelled" THEN {}
                    ELSE {Release(id, i) : i \in r.held}
           forced == FlushesOf(S) \cup
                       (IF stop
                        THEN FlushesOf({id} \cap Actions) \cup {Flush(id, i) : i \in r.held}
                        ELSE {})
           resumed == IF r.status = "Continue" THEN goes ELSE {}
           parked  == IF r.status = "Delayed" THEN goes ELSE {}
<1>1. /\ mailbox \in Seq(Events) /\ mailbox # <<>> /\ mailbox' = Tail(mailbox)
      /\ r \in Results /\ r.type = "result" /\ id \in Ids /\ r.status \in Statuses
  BY PoppedTypes, EventFacts, ResultFacts DEF HandleResult, Popped, PressInv, KeyInv, TypeInv, TypeOK
<1>2. S \in SUBSET Actions
  <2>1. \A q \in r.requests : Targets(q.kind, q.on, id) \subseteq Cancelable
    BY <1>1, ResultFacts, TargetsTypes DEF CancelItem
  <2>2. QED BY <2>1, SchedulerAssumption
<1>3. Reports = Reports' \cup {r} /\ r \in Reports
  BY <1>1, ReportHandled
<1>4. Reported = Reported' \cup {id}
  <2>1. Reported = {q.of : q \in Reports} /\ Reported' = {q.of : q \in Reports'}
    BY DEF Reported, Reports
  <2> QED BY <1>3, <2>1
<1>5. \A i \in r.held : id \in Actions /\ i \in Nat /\ <<id, i>> \in Holds
  BY <1>1, ResultFacts, IdFacts
<1>6. /\ Settle(gone, LinkedTo(S) \ gone, fresh, forced, resumed, parked)
      /\ UNCHANGED <<index, down, running>>
      /\ flushOf' = [a \in Actions |->
                       IF a \in S \cup gone THEN {}
                       ELSE IF a = id THEN flushOf[a] \cup r.held ELSE flushOf[a]]
      /\ linked' = [a \in Actions |->
                      IF a \in S \cup gone THEN {}
                      ELSE IF a = id THEN linked[a] \cup r.held ELSE linked[a]]
  BY DEF HandleResult, SchedulerRest, workerVars
<1>7. live' = (live \ (gone \cup LinkedTo(S))) \cup fresh \cup forced
  BY <1>6 DEF Settle
<1>8. /\ FlushesOf(S) \in SUBSET Flushes
      /\ Discarded(S) \cap KeyUps \subseteq LinkedTo(S)
      /\ LinkedTo(S) \cap Flushes = {}
      /\ \A h \in Holds : ReleaseOf(h) \in LinkedTo(S) => FlushOf(h) \in FlushesOf(S)
      /\ \A h \in Holds : FlushOf(h) \in FlushesOf(S) => ~(index[h[1]] < h[2])
  BY <1>2, CancelledKeyUps
<1>9. /\ FlushesOf({id} \cap Actions) \in SUBSET Flushes
      /\ \A h \in Holds : FlushOf(h) \in FlushesOf({id} \cap Actions) => ~(index[h[1]] < h[2])
  <2>1. {id} \cap Actions \in SUBSET Actions
    OBVIOUS
  <2> HIDE DEF id
  <2> QED BY <2>1, CancelledKeyUps
<1>10. id \in KeyUps => (r.status # "Cancelled" /\ ~stop /\ (ends => Finished(id)))
  <2>1. id \in KeyUps => id \notin flagged \cup S
    BY <1>2, KeyUpFacts DEF PressInv, KeyInv, TypeInv, TypeOK
  <2> QED BY <1>3, <2>1 DEF PressInv, KeyUpsReport
<1>11. id \in Actions => id \in live
  <2>1. id \in Actions => id \in Holders
    BY <1>4 DEF Holders, InFlight
  <2> QED BY <2>1 DEF PressInv, KeyInv, KeysHeld
<1> HIDE DEF S
<1>12. KeyUpsBack({id}, gone, resumed, parked)
  <2>1. id \in live \cap KeyUps => id \in gone \cup resumed \cup parked
    BY <1>1, <1>10 DEF Statuses
  <2> QED BY <1>4, <2>1 DEF KeyUpsBack
<1>13. \A i \in r.held :
         \/ r.status # "Cancelled" /\ Release(id, i) \in fresh
         \/ r.status = "Cancelled" /\ Flush(id, i) \in forced
  <2>1. r.status = "Cancelled" => {Flush(id, i) : i \in r.held} \subseteq forced
    OBVIOUS
  <2>2. r.status # "Cancelled" => fresh = {Release(id, i) : i \in r.held}
    OBVIOUS
  <2> HIDE DEF fresh, forced, id, r
  <2>3. ASSUME NEW i \in r.held
        PROVE  \/ r.status # "Cancelled" /\ Release(id, i) \in fresh
               \/ r.status = "Cancelled" /\ Flush(id, i) \in forced
    <3>1. CASE r.status = "Cancelled"
      BY <2>1, <3>1
    <3>2. CASE r.status # "Cancelled"
      BY <2>2, <3>2
    <3> QED BY <3>1, <3>2
  <2> QED BY <2>3
<1>14. forced \in SUBSET Flushes
  <2>1. {Flush(id, i) : i \in r.held} \subseteq Flushes
    BY <1>1, ResultFacts, IdFacts
  <2> QED BY <1>8, <1>9, <2>1
<1>15. \A h \in Holds : index[h[1]] < h[2] => h[1] # id \/ h[2] \notin r.held
  BY <1>3 DEF PressInv, Fresh
<1>16. \A h \in Holds : ReleaseOf(h) \in fresh => ~(index[h[1]] < h[2])
  <2>1. ASSUME NEW h \in Holds, NEW i \in r.held, ReleaseOf(h) = Release(id, i)
        PROVE  h[1] = id /\ h[2] = i
    BY <2>1 DEF ReleaseOf, Release
  <2> QED BY <1>15, <2>1
<1>17. \A h \in Holds : FlushOf(h) \in forced => ~(index[h[1]] < h[2])
  <2>1. ASSUME NEW h \in Holds, NEW i \in r.held, FlushOf(h) = Flush(id, i)
        PROVE  ~(index[h[1]] < h[2])
    BY <1>15, <2>1 DEF FlushOf, Flush
  <2>2. \A x \in forced : \/ x \in FlushesOf(S)
                          \/ x \in FlushesOf({id} \cap Actions)
                          \/ \E i \in r.held : x = Flush(id, i)
    OBVIOUS
  <2> HIDE DEF forced, id, r
  <2> QED BY <1>8, <1>9, <2>1, <2>2
<1>18. fresh \cap Flushes = {} /\ fresh \subseteq Releases
  BY <1>5, IdFacts, IdsDisjoint, ResultFacts, <1>1
<1>19. /\ \A h \in Holds : FlushOf(h) \in gone => Finished(FlushOf(h))
       /\ \A h \in Holds : ReleaseOf(h) \in gone
            => Finished(ReleaseOf(h)) \/ ReleaseOf(h) \in LinkedTo(S)
       /\ FlushesOf(S) \subseteq forced
  <2>1. \A x \in gone \cap KeyUps : x \in LinkedTo(S) \/ (x = id /\ Finished(id))
    <3>1. \A x \in gone : x \in Discarded(S) \/ (ends /\ x = id)
      OBVIOUS
    <3> HIDE DEF gone, ends, stop, id
    <3>2. \A x \in Discarded(S) : x \in KeyUps => x \in LinkedTo(S)
      BY <1>8
    <3>3. id \in KeyUps /\ ends => Finished(id)
      BY <1>10
    <3> QED BY <3>1, <3>2, <3>3
  <2>2. \A h \in Holds : ReleaseOf(h) \in KeyUps /\ FlushOf(h) \in KeyUps \cap Flushes
    BY KeyUpFacts DEF KeyUps
  <2>3. FlushesOf(S) \subseteq forced
    OBVIOUS
  <2> HIDE DEF gone, forced, id
  <2> QED BY <1>8, <2>1, <2>2, <2>3
<1> HIDE DEF gone, fresh, forced, resumed, parked, ends, goes, stop
<1>20. /\ live' \cap KeyUps \subseteq InFlight'
       /\ InFlight' \cap KeyUps \subseteq InFlight \cup fresh \cup forced
  <2> HIDE DEF id, r
  <2> QED BY <1>6, <1>12, <1>14, KeyUpsSettled
<1>21. linked' = flushOf'
  BY <1>6 DEF PressInv
<1>22. Fresh'
  <2> SUFFICES ASSUME NEW h \in Holds, index[h[1]] < h[2]
               PROVE  /\ index[ReleaseOf(h)] = 0 /\ ReleaseOf(h) \notin InFlight'
                      /\ index[FlushOf(h)] = 0 /\ FlushOf(h) \notin InFlight'
                      /\ h[2] \notin flushOf'[h[1]] /\ h \notin down
                      /\ \A q \in Reports' : q.of = h[1] => h[2] \notin q.held
    BY <1>6 DEF Fresh
  <2>1. ReleaseOf(h) \in KeyUps \ Flushes /\ FlushOf(h) \in KeyUps \ Releases
    BY KeyUpFacts DEF KeyUps
  <2>2. h[2] \notin flushOf'[h[1]]
    <3>1. h[1] \in Actions /\ h[2] \notin flushOf[h[1]]
      BY HoldFacts DEF PressInv, Fresh
    <3> QED BY <1>6, <1>15, <3>1
  <2>3. ReleaseOf(h) \notin InFlight' /\ FlushOf(h) \notin InFlight'
    BY <1>14, <1>16, <1>17, <1>18, <1>20, <2>1 DEF PressInv, Fresh
  <2> QED BY <1>3, <2>2, <2>3 DEF PressInv, Fresh
<1>23. KeyUpsReport'
  BY <1>3, <1>6 DEF PressInv, KeyUpsReport, Finished
<1>24. Pressed'
  <2> HIDE DEF id, r
  <2> SUFFICES ASSUME NEW h \in down
               PROVE  ~Finished(ReleaseOf(h)) /\ ~Finished(FlushOf(h)) /\ OnItsWay(h)'
    BY <1>6 DEF Pressed, Finished
  <2>1. h \in Holds
    BY DEF PressInv, KeyInv, TypeInv, TypeOK
  <2>2. ~Finished(ReleaseOf(h)) /\ ~Finished(FlushOf(h)) /\ OnItsWay(h)
    BY DEF PressInv, Pressed
  <2>3. CASE ReleaseOf(h) \in live
    <3>1. ReleaseOf(h) \in live' \/ FlushOf(h) \in live'
      BY <1>7, <1>8, <1>19, <2>1, <2>2, <2>3
    <3> QED BY <2>2, <3>1 DEF OnItsWay
  <2>4. CASE FlushOf(h) \in live
    <3>1. FlushOf(h) \in live'
      BY <1>7, <1>8, <1>19, <2>1, <2>2, <2>4, KeyUpFacts
    <3> QED BY <2>2, <3>1 DEF OnItsWay
  <2>5. ASSUME NEW q \in Reports, q.of = h[1], h[2] \in q.held PROVE OnItsWay(h)'
    <3>1. CASE q \in Reports'
      BY <2>5, <3>1 DEF OnItsWay
    <3>2. CASE q = r
      <4>1. ReleaseOf(h) \in live' \/ FlushOf(h) \in live'
        BY <1>7, <1>13, <2>5, <3>2 DEF ReleaseOf, FlushOf, id
      <4> QED BY <4>1 DEF OnItsWay
    <3> QED BY <1>3, <3>1, <3>2
  <2> QED BY <2>2, <2>3, <2>4, <2>5 DEF OnItsWay
<1> QED BY <1>20, <1>21, <1>22, <1>23, <1>24 DEF PressInv

LEMMA PressScheduler ==
  ASSUME PressInv, KeyInv', HandleEvent \/ ProcessDueDelays
  PROVE  PressInv'
<1>1. ASSUME HandlePause \/ HandleResume PROVE PressInv'
  <2>1. /\ mailbox \in Seq(Events) /\ mailbox # <<>> /\ mailbox' = Tail(mailbox)
        /\ Head(mailbox).type # "result"
    BY <1>1 DEF HandlePause, HandleResume, Popped, PressInv, KeyInv, TypeInv, TypeOK
  <2>2. Reports' = Reports
    BY <2>1, ReportHandled
  <2>3. Reported' = Reported
    BY <2>2, SameReported
  <2>4. UNCHANGED <<live, flushOf, linked, index, down, urgent, running>>
    BY <1>1 DEF HandlePause, HandleResume, SchedulerRest, schedVars, workerVars
  <2>5. inbound' \cup delayed' \cup pausedReady' = inbound \cup delayed \cup pausedReady
    BY <1>1 DEF HandlePause, HandleResume, schedVars
  <2>6. InFlight' = InFlight
    BY <2>3, <2>4, <2>5 DEF InFlight
  <2> QED BY <2>2, <2>4, <2>6, PressKept
<1>2. ASSUME ProcessDueDelays PROVE PressInv'
  <2>1. UNCHANGED <<mailbox, live, flushOf, linked, index, down, urgent, running, pausedReady>>
    BY <1>2 DEF ProcessDueDelays, SchedulerRest, workerVars
  <2>2. Reports' = Reports /\ Reported' = Reported
    BY <2>1 DEF Reports, Reported
  <2>3. inbound' \cup delayed' = inbound \cup delayed
    BY <1>2 DEF ProcessDueDelays
  <2>4. InFlight' = InFlight
    BY <2>1, <2>2, <2>3 DEF InFlight
  <2> QED BY <2>1, <2>2, <2>4, PressKept
<1> QED BY <1>1, <1>2, PressSubmit, PressCancel, PressResult DEF HandleEvent

\* A worker's result keeps its context in flight and joins the reports.
LEMMA Delivered ==
  ASSUME PressInv, KeyInv', NEW id \in running, NEW status, NEW held, NEW requests,
         Deliver(id, status, held, requests), UNCHANGED <<inbound, urgent>>, WorkerRest
  PROVE  /\ Reports' = Reports \cup {Result(id, status, held, requests)}
         /\ InFlight' = InFlight
<1> DEFINE e == Result(id, status, held, requests)
<1>1. mailbox \in Seq(Events) /\ mailbox' \in Seq(Events)
  BY DEF PressInv, KeyInv, TypeInv, TypeOK
<1>2. Push(e) /\ running' = running \ {id} /\ e.type = "result" /\ e.of = id
  BY DEF Deliver, Result
<1> HIDE DEF e
<1>3. e \in Events
  <2>1. mailbox' = Append(mailbox, e) /\ Len(mailbox) + 1 \in DOMAIN mailbox'
        /\ mailbox'[Len(mailbox) + 1] = e
    BY <1>1, <1>2 DEF Push
  <2> QED BY <1>1, <2>1
<1>4. Reports' = Reports \cup {e}
  BY <1>1, <1>2, <1>3, ReportPushed
<1>5. Reported' = Reported \cup {id}
  <2>1. Reported = {r.of : r \in Reports} /\ Reported' = {r.of : r \in Reports'}
    BY DEF Reported, Reports
  <2> QED BY <1>2, <1>4, <2>1
<1>6. InFlight' = InFlight
  BY <1>2, <1>5 DEF InFlight, WorkerRest
<1> QED BY <1>4, <1>6 DEF e

\* Once its item has been executed, the report of a hold has its KeyUps
\* registered.
LEMMA PressHolds ==
  ASSUME PressInv, KeyInv', InFlight' = InFlight, UNCHANGED <<live, flushOf, linked>>,
         NEW id \in Actions, NEW held, NEW new,
         index' = [index EXCEPT ![id] = @ + 1],
         held \subseteq {index[id] + 1},
         down' = down \cup {<<id, i>> : i \in held},
         Reports' = Reports \cup new,
         \A r \in new : r.of = id /\ r.held = held,
         held # {} => new # {}
  PROVE  PressInv'
<1> DEFINE at == index[id] + 1
<1>1. /\ index \in [Ids -> Nat] /\ id \in Ids /\ index[id] \in Nat /\ index'[id] = at
      /\ at \in Nat /\ \A x \in Ids \ {id} : index'[x] = index[x]
  BY IdFacts DEF PressInv, KeyInv, TypeInv, TypeOK
<1>2. \A x \in KeyUps : x \in Ids /\ index'[x] = index[x] /\ (Finished(x)' <=> Finished(x))
  BY <1>1, KeyUpFacts DEF Finished
<1>3. \A h \in Holds : ReleaseOf(h) \in KeyUps /\ FlushOf(h) \in KeyUps
  BY KeyUpFacts DEF KeyUps
<1>4. ASSUME NEW h \in Holds, index'[h[1]] < h[2]
      PROVE  index[h[1]] < h[2] /\ ~(h[1] = id /\ h[2] \in held) /\ h \notin down'
  <2>1. h[1] \in Ids /\ h[2] \in Nat /\ index[h[1]] \in Nat
    BY <1>1, HoldFacts, IdFacts
  <2>2. index[h[1]] < h[2]
    <3>1. CASE h[1] = id
      BY <1>1, <1>4, <2>1, <3>1
    <3>2. CASE h[1] # id
      BY <1>1, <1>4, <2>1, <3>2
    <3> QED BY <3>1, <3>2
  <2>3. ~(h[1] = id /\ h[2] \in held)
    BY <1>1, <1>4, <2>1
  <2>4. h \notin down
    BY <2>2 DEF PressInv, Fresh
  <2> QED BY <2>2, <2>3, <2>4
<1>5. Fresh'
  <2> SUFFICES ASSUME NEW h \in Holds, index'[h[1]] < h[2]
               PROVE  /\ index'[ReleaseOf(h)] = 0 /\ ReleaseOf(h) \notin InFlight
                      /\ index'[FlushOf(h)] = 0 /\ FlushOf(h) \notin InFlight
                      /\ h[2] \notin flushOf[h[1]] /\ h \notin down'
                      /\ \A r \in Reports' : r.of = h[1] => h[2] \notin r.held
    BY DEF Fresh
  <2>1. index[h[1]] < h[2] /\ ~(h[1] = id /\ h[2] \in held) /\ h \notin down'
    BY <1>4
  <2> QED BY <1>2, <1>3, <2>1 DEF PressInv, Fresh
<1>6. KeyUpsReport'
  <2>1. id \notin KeyUps
    BY KeyUpFacts
  <2> QED BY <1>2, <2>1 DEF PressInv, KeyUpsReport
<1>7. Pressed'
  <2> SUFFICES ASSUME NEW h \in down'
               PROVE  ~Finished(ReleaseOf(h))' /\ ~Finished(FlushOf(h))' /\ OnItsWay(h)'
    BY DEF Pressed
  <2>1. h \in Holds
    BY DEF KeyInv, TypeInv, TypeOK
  <2>2. CASE h \in down
    BY <1>2, <1>3, <2>1, <2>2 DEF PressInv, Pressed, OnItsWay
  <2>3. CASE h \notin down
    <3>1. PICK i \in held : h = <<id, i>>
      BY <2>3
    <3>2. h[1] = id /\ h[2] = at
      BY <3>1
    <3>3. index[ReleaseOf(h)] = 0 /\ index[FlushOf(h)] = 0
      BY <1>1, <2>1, <3>2 DEF PressInv, Fresh
    <3>4. Len(ItemsOf(ReleaseOf(h))) = 2 /\ Len(ItemsOf(FlushOf(h))) = 1
      BY <2>1, KeyUpFacts, KeyUpItems
    <3>5. ~Finished(ReleaseOf(h))' /\ ~Finished(FlushOf(h))'
      BY <1>2, <1>3, <2>1, <3>3, <3>4 DEF Finished
    <3>6. OnItsWay(h)'
      BY <3>1, <3>2 DEF OnItsWay
    <3> QED BY <3>5, <3>6
  <2> QED BY <2>2, <2>3
<1> QED BY <1>5, <1>6, <1>7 DEF PressInv

\* A KeyUp is done when it releases its key, and not before.
LEMMA PressReleases ==
  ASSUME PressInv, KeyInv', InFlight' = InFlight, UNCHANGED <<live, flushOf, linked>>,
         NEW h \in Holds, NEW id \in {ReleaseOf(h), FlushOf(h)}, id \in InFlight, NEW new,
         index' = [index EXCEPT ![id] = @ + 1],
         \/ down' = down \ {h}
         \/ id = ReleaseOf(h) /\ index[id] = 0 /\ down' = down,
         Reports' = Reports \cup new,
         \A r \in new : r.of = id /\ r.held = {} /\ r.status = "Delayed"
  PROVE  PressInv'
<1>1. /\ id \in Ids /\ id \notin Actions /\ index \in [Ids -> Nat] /\ index[id] \in Nat
      /\ index'[id] = index[id] + 1 /\ \A x \in Ids \ {id} : index'[x] = index[x]
  BY KeyUpFacts DEF PressInv, KeyInv, TypeInv, TypeOK, KeyUps
<1>2. \A g \in Holds : g[1] \in Ids \ {id}
  BY <1>1, HoldFacts, IdFacts
<1>3. \A g \in Holds \ {h} :
        ReleaseOf(g) \in Ids \ {id} /\ FlushOf(g) \in Ids \ {id}
  BY KeyUpFacts DEF KeyUps
<1>4. ~(index[h[1]] < h[2])
  BY DEF PressInv, Fresh
<1>5. Fresh'
  <2> SUFFICES ASSUME NEW g \in Holds, index'[g[1]] < g[2]
               PROVE  /\ index'[ReleaseOf(g)] = 0 /\ ReleaseOf(g) \notin InFlight
                      /\ index'[FlushOf(g)] = 0 /\ FlushOf(g) \notin InFlight
                      /\ g[2] \notin flushOf[g[1]] /\ g \notin down'
                      /\ \A r \in Reports' : r.of = g[1] => g[2] \notin r.held
    BY DEF Fresh
  <2>1. index[g[1]] < g[2]
    BY <1>1, <1>2
  <2>2. g # h
    BY <1>4, <2>1
  <2>3. index'[ReleaseOf(g)] = index[ReleaseOf(g)] /\ index'[FlushOf(g)] = index[FlushOf(g)]
    BY <1>1, <1>3, <2>2
  <2> QED BY <2>1, <2>3 DEF PressInv, Fresh
<1>6. \A x \in KeyUps : Len(ItemsOf(x)) \in Nat /\ x \in Ids
  BY KeyUpFacts, KeyUpItems DEF KeyUps
<1>7. KeyUpsReport'
  <2>1. \A x \in KeyUps : index[x] \in Nat /\ index'[x] \in Nat /\ index[x] <= index'[x]
    BY <1>1, <1>6
  <2>2. \A x \in KeyUps : Finished(x) => Finished(x)'
    BY <1>6, <2>1 DEF Finished
  <2> QED BY <2>2 DEF PressInv, KeyUpsReport
<1>8. Pressed'
  <2> SUFFICES ASSUME NEW g \in down'
               PROVE  ~Finished(ReleaseOf(g))' /\ ~Finished(FlushOf(g))' /\ OnItsWay(g)'
    BY DEF Pressed
  <2>1. g \in Holds /\ g \in down
    BY DEF KeyInv, TypeInv, TypeOK
  <2>2. ~Finished(ReleaseOf(g)) /\ ~Finished(FlushOf(g)) /\ OnItsWay(g)'
    BY <2>1 DEF PressInv, Pressed, OnItsWay
  <2>3. CASE g # h
    <3>1. index'[ReleaseOf(g)] = index[ReleaseOf(g)] /\ index'[FlushOf(g)] = index[FlushOf(g)]
      BY <1>1, <1>3, <2>1, <2>3
    <3> QED BY <2>2, <3>1 DEF Finished
  <2>4. CASE g = h
    <3>1. id = ReleaseOf(h) /\ index[id] = 0
      BY <2>4
    <3>2. Len(ItemsOf(id)) = 2 /\ FlushOf(h) \in Ids \ {id}
      BY <3>1, KeyUpFacts, KeyUpItems DEF KeyUps
    <3>3. index'[id] = 1 /\ index'[FlushOf(h)] = index[FlushOf(h)]
      BY <1>1, <3>1, <3>2
    <3> QED BY <2>2, <2>4, <3>1, <3>2, <3>3 DEF Finished
  <2> QED BY <2>3, <2>4
<1> QED BY <1>5, <1>7, <1>8 DEF PressInv

LEMMA PressEndItem ==
  ASSUME PressInv, KeyInv', NEW id \in Ids, EndItem(id)
  PROVE  PressInv'
<1> DEFINE at   == index[id] + 1
           item == ItemsOf(id)[at]
           held == IF item.kind \in HoldKinds THEN {at} ELSE {}
<1>1. /\ id \in running /\ UNCHANGED <<inbound, urgent>> /\ WorkerRest
      /\ UNCHANGED <<live, flushOf, linked>> /\ id \in InFlight
      /\ index' = [index EXCEPT ![id] = at]
      /\ index[id] \in Nat /\ at \in Nat /\ at \in DOMAIN ItemsOf(id)
  <2>1. id \in executing /\ id \in running /\ index \in [Ids -> Nat] /\ ~Finished(id)
    BY DEF EndItem, PressInv, KeyInv, TypeInv, TypeOK, ItemLeft
  <2>2. at \in DOMAIN ItemsOf(id)
    BY <2>1, ItemsFacts DEF Finished
  <2> QED BY <2>1, <2>2 DEF EndItem, WorkerRest, InFlight
<1>2. /\ down' = IF item.kind = "release" THEN down \ {<<id[1], id[2]>>}
                 ELSE down \cup {<<id, i>> : i \in held}
      /\ \/ item.kind \in {"hold", "delay"} /\ Deliver(id, "Delayed", held, {})
         \/ item.kind = "holdProceed" /\ \E next : Deliver(id, next, held, {})
         \/ item.kind \in CancelKinds /\ \E next : Deliver(id, next, {}, {item})
         \/ /\ item.kind \notin {"hold", "delay", "holdProceed"} \cup CancelKinds
            /\ UNCHANGED <<mailbox, running>>
  BY DEF EndItem
<1>3. UNCHANGED <<mailbox, running>> => Reports' = Reports /\ InFlight' = InFlight
  BY <1>1 DEF Reports, Reported, InFlight, WorkerRest
<1>4. PressInv'
  <2>1. CASE id \in Actions
    <3>1. item.kind \in ItemKinds
      <4>1. ItemsOf(id) \in Seq(Item)
        BY <2>1, ItemsFacts, SchedulerAssumption
      <4>2. item \in Item
        BY <1>1, <4>1
      <4> HIDE DEF item
      <4> QED BY <4>2 DEF Item
    <3>2. item.kind # "release" /\ "hold" \notin CancelKinds /\ "holdProceed" \notin CancelKinds
      BY <3>1 DEF ItemKinds, AskKinds, HoldKinds, CancelKinds
    <3>3. down' = down \cup {<<id, i>> : i \in held} /\ held \subseteq {at}
      BY <1>2, <3>2
    <3>4. \E new : /\ Reports' = Reports \cup new /\ InFlight' = InFlight
                   /\ \A r \in new : r.of = id /\ r.held = held
                   /\ held # {} => new # {}
      <4>1. ASSUME NEW status, NEW requests, Deliver(id, status, held, requests)
            PROVE  /\ Reports' = Reports \cup {Result(id, status, held, requests)}
                   /\ InFlight' = InFlight
                   /\ Result(id, status, held, requests).of = id
                   /\ Result(id, status, held, requests).held = held
        <5> HIDE DEF held
        <5>1. /\ Reports' = Reports \cup {Result(id, status, held, requests)}
              /\ InFlight' = InFlight
          BY <1>1, <4>1, Delivered
        <5> QED BY <5>1 DEF Result
      <4>2. item.kind \in CancelKinds => held = {}
        BY DEF HoldKinds, CancelKinds
      <4>3. item.kind \notin {"hold", "delay", "holdProceed"} => held = {}
        BY DEF HoldKinds
      <4> HIDE DEF held, item
      <4>4. CASE \E status, requests : Deliver(id, status, held, requests)
        <5>1. PICK status, requests : Deliver(id, status, held, requests)
          BY <4>4
        <5> WITNESS {Result(id, status, held, requests)}
        <5> QED BY <4>1, <5>1
      <4>5. CASE held = {} /\ UNCHANGED <<mailbox, running>>
        <5>1. Reports' = Reports \cup {} /\ InFlight' = InFlight
          BY <1>3, <4>5
        <5> QED BY <4>5, <5>1
      <4> QED BY <1>2, <4>2, <4>3, <4>4, <4>5
    <3>5. PICK new : /\ Reports' = Reports \cup new /\ InFlight' = InFlight
                     /\ \A r \in new : r.of = id /\ r.held = held
                     /\ held # {} => new # {}
      BY <3>4
    <3>6. index' = [index EXCEPT ![id] = @ + 1]
      BY <1>1
    <3> HIDE DEF held, item
    <3> QED BY <1>1, <2>1, <3>3, <3>5, <3>6, PressHolds
  <2>2. CASE id \in KeyUps
    <3>1. PICK h \in Holds : id \in {ReleaseOf(h), FlushOf(h)}
      BY <2>2, KeyUpFacts DEF KeyUps
    <3>2. <<id[1], id[2]>> = h
      BY <3>1, HoldFacts DEF ReleaseOf, FlushOf, Release, Flush
    <3>3. \/ item.kind = "release"
          \/ item.kind = "delay" /\ id = ReleaseOf(h) /\ at = 1
      <4>1. CASE id = ReleaseOf(h)
        <5>1. id \in Releases
          BY <3>1, <4>1, KeyUpFacts
        <5>2. at = 1 \/ at = 2
          BY <1>1, <5>1, KeyUpItems, ItemsFacts
        <5> QED BY <4>1, <5>1, <5>2, KeyUpItems
      <4>2. CASE id = FlushOf(h)
        <5>1. id \in Flushes
          BY <3>1, <4>2, KeyUpFacts
        <5>2. at = 1
          BY <1>1, <5>1, KeyUpItems, ItemsFacts
        <5> QED BY <5>1, <5>2, KeyUpItems
      <4> QED BY <3>1, <4>1, <4>2
    <3>4. held = {} /\ item.kind \notin CancelKinds
      BY <3>3 DEF HoldKinds, CancelKinds
    <3>5. \/ down' = down \ {h}
          \/ id = ReleaseOf(h) /\ index[id] = 0 /\ down' = down
      BY <1>1, <1>2, <3>2, <3>3, <3>4
    <3>6. \E new : /\ Reports' = Reports \cup new /\ InFlight' = InFlight
                   /\ \A r \in new : r.of = id /\ r.held = {} /\ r.status = "Delayed"
      <4>1. CASE item.kind = "release"
        <5>1. Reports' = Reports /\ InFlight' = InFlight
          <6>1. item.kind \notin {"hold", "delay", "holdProceed"} \cup CancelKinds
            BY <4>1 DEF CancelKinds
          <6> QED BY <1>2, <1>3, <6>1
        <5>2. PICK none : none = {}
          OBVIOUS
        <5>3. Reports' = Reports \cup none /\ \A r \in none : FALSE
          BY <5>1, <5>2
        <5> QED BY <5>1, <5>3
      <4>2. CASE item.kind = "delay"
        <5>1. Deliver(id, "Delayed", {}, {})
          BY <1>2, <3>4, <4>2
        <5>2. /\ Reports' = Reports \cup {Result(id, "Delayed", {}, {})}
              /\ InFlight' = InFlight
          BY <1>1, <5>1, Delivered
        <5> WITNESS {Result(id, "Delayed", {}, {})}
        <5> QED BY <5>2 DEF Result
      <4> QED BY <3>3, <4>1, <4>2
    <3>7. PICK new : /\ Reports' = Reports \cup new /\ InFlight' = InFlight
                     /\ \A r \in new : r.of = id /\ r.held = {} /\ r.status = "Delayed"
      BY <3>6
    <3>8. index' = [index EXCEPT ![id] = @ + 1]
      BY <1>1
    <3>9. id \in InFlight /\ UNCHANGED <<live, flushOf, linked>>
      BY <1>1
    <3> HIDE DEF held, item
    <3> QED BY <3>1, <3>5, <3>7, <3>8, <3>9, PressReleases
  <2> QED BY <2>1, <2>2 DEF Ids, KeyUps
<1> QED BY <1>4

LEMMA PressEndTurn ==
  ASSUME PressInv, KeyInv', NEW id \in Ids, EndTurn(id)
  PROVE  PressInv'
<1>1. /\ id \in running /\ UNCHANGED <<inbound, urgent, index, down>> /\ WorkerRest
      /\ UNCHANGED <<live, flushOf, linked>>
  BY DEF EndTurn, WorkerRest
<1>2. PICK status \in Statuses :
        /\ Deliver(id, status, {}, {})
        /\ status = "Completed" => Finished(id)
        /\ status = "Cancelled" => id \in flagged
  BY DEF EndTurn, Statuses
<1>3. id \in KeyUps => status # "Cancelled"
  BY <1>2, KeyUpFacts DEF PressInv, KeyInv, TypeInv, TypeOK
<1> DEFINE e == Result(id, status, {}, {})
<1>4. Reports' = Reports \cup {e} /\ InFlight' = InFlight
  BY <1>1, <1>2, Delivered
<1>5. e.of = id /\ e.held = {} /\ e.status = status
  BY DEF Result
<1> HIDE DEF e
<1>6. Fresh'
  BY <1>1, <1>4, <1>5 DEF PressInv, Fresh
<1>7. KeyUpsReport'
  BY <1>1, <1>2, <1>3, <1>4, <1>5 DEF PressInv, KeyUpsReport, Finished
<1>8. Pressed'
  BY <1>1, <1>4 DEF PressInv, Pressed, OnItsWay, Finished
<1> QED BY <1>1, <1>4, <1>6, <1>7, <1>8 DEF PressInv

LEMMA PressWorkers ==
  ASSUME PressInv, KeyInv', WorkerStep
  PROVE  PressInv'
<1>1. ASSUME UNCHANGED <<mailbox, index, down>>, WorkerRest,
             inbound' \cup urgent' \cup running' = inbound \cup urgent \cup running
      PROVE  PressInv'
  <2>1. Reports' = Reports /\ Reported' = Reported
    BY <1>1 DEF Reports, Reported
  <2>2. InFlight' = InFlight
    BY <1>1, <2>1 DEF InFlight, WorkerRest
  <2> QED BY <1>1, <2>1, <2>2, PressKept DEF WorkerRest
<1>2. ASSUME TakeUrgent \/ TakeInbound PROVE PressInv'
  BY <1>1, <1>2 DEF TakeUrgent, TakeInbound
<1>3. ASSUME NEW id \in Ids, BeginItem(id) PROVE PressInv'
  BY <1>1, <1>3 DEF BeginItem
<1> QED BY <1>2, <1>3, PressEndItem, PressEndTurn DEF WorkerStep

LEMMA PressStep == PressInv /\ [Next]_vars => PressInv'
<1> SUFFICES ASSUME PressInv, [Next]_vars PROVE PressInv'
  OBVIOUS
<1>1. KeyInv'
  BY KeyStep DEF PressInv
<1>2. CASE UNCHANGED vars
  BY <1>1, <1>2 DEF vars, PressInv, Fresh, KeyUpsReport, Pressed, OnItsWay, Reports,
     Finished, InFlight, Reported
<1> QED BY <1>1, <1>2, PressCallers, PressScheduler, PressWorkers DEF Next

-----------------------------------------------------------------------------
\* A key an item has pressed stays pressed only while its delayed KeyUp, its
\* cancel-flush or the result that will have the scheduler register both is
\* on the way: through every delay, pause, cancel and channel hand-over of
\* app/src/Scheduler.cpp, for all programs of the actions and all calls.
THEOREM NoKeyStuck == Spec => []PressedKeysGetReleased
<1>1. PressInv => PressedKeysGetReleased
  <2> SUFFICES ASSUME PressInv, NEW h \in down
               PROVE  \/ \E id \in {Release(h[1], h[2]), Flush(h[1], h[2])} :
                           id \in live \cap InFlight /\ ~Finished(id)
                      \/ \E n \in DOMAIN mailbox :
                           /\ mailbox[n].type = "result" /\ mailbox[n].of = h[1]
                           /\ h[2] \in mailbox[n].held
    BY DEF PressedKeysGetReleased
  <2>1. h \in Holds
    BY DEF PressInv, KeyInv, TypeInv, TypeOK
  <2>2. ReleaseOf(h) \in KeyUps /\ FlushOf(h) \in KeyUps
    BY <2>1, KeyUpFacts DEF KeyUps
  <2>3. ~Finished(ReleaseOf(h)) /\ ~Finished(FlushOf(h)) /\ OnItsWay(h)
    BY DEF PressInv, Pressed
  <2>4. \A id \in {ReleaseOf(h), FlushOf(h)} : id \in live => id \in live \cap InFlight
    BY <2>2 DEF PressInv
  <2>5. (\E r \in Reports : r.of = h[1] /\ h[2] \in r.held)
          => \E n \in DOMAIN mailbox :
               /\ mailbox[n].type = "result" /\ mailbox[n].of = h[1]
               /\ h[2] \in mailbox[n].held
    BY DEF Reports
  <2> QED BY <2>3, <2>4, <2>5 DEF OnItsWay, ReleaseOf, FlushOf
<1> QED BY PressInit, PressStep, <1>1, PTL DEF Spec

-----------------------------------------------------------------------------
(* Steps.                                                                  *)

-----------------------------------------------------------------------------
(* The invariant.                                                          *)

\* Actions whose submit the scheduler has yet to see.
Pending == unsent \cup Posted("submit")

\* A handled cancel leaves the action flagged, or destroyed for good.
CancelsTaken ==
  /\ flagged \subseteq Cancelable
  /\ \A a \in cancelled : a \notin Pending /\ (a \in flagged \/ a \notin live)

\* An action reported as completed is, and one reported as cancelled may be.
ReportsTrue ==
  \A r \in Reports : r.of \in Actions =>
    /\ r.status = "Completed" => Finished(r.of)
    /\ r.status = "Cancelled" => r.of \in Cancelable

\* A result registers no hold that is already linked to its action.
HeldOnce ==
  \A r \in Reports : r.of \in Actions => r.held \cap linked[r.of] = {}

\* A flush is never delayed.
FlushesGoOn ==
  /\ delayed \cap Flushes = {}
  /\ \A r \in Reports : r.status = "Delayed" => r.of \notin Flushes

StepInv == PressInv /\ CancelsTaken /\ ReportsTrue /\ HeldOnce /\ FlushesGoOn

\* What the action properties say of a step.
Stops == \A a \in cancelled : a \in executing' => a \in executing
Runs  == \A a \in Actions \ Cancelable : a \in live /\ a \notin live' => Finished(a)
Quiet == paused /\ paused' =>
            inbound' \subseteq inbound /\ \A id \in delayed : id \in delayed' \/ id \notin live'
Proper == Stops /\ Runs /\ Quiet

-----------------------------------------------------------------------------
LEMMA StepInit == Init => StepInv
<1> SUFFICES ASSUME Init PROVE StepInv
  OBVIOUS
<1>1. Reports = {}
  BY DEF Init, Reports
<1> QED BY <1>1, PressInit DEF Init, StepInv, CancelsTaken, ReportsTrue, HeldOnce, FlushesGoOn

\* A submit handled is pending no more, and nothing becomes pending.
LEMMA PendingHandled ==
  ASSUME KeyInv, mailbox # <<>>, mailbox' = Tail(mailbox), unsent' = unsent
  PROVE  Pending' \subseteq Pending
<1>1. Posted("submit")' \subseteq Posted("submit")
  BY Handled DEF KeyInv, TypeInv, TypeOK, SubmitsOnce
<1> QED BY <1>1 DEF Pending

LEMMA PendingPosted ==
  ASSUME KeyInv, NEW e \in Events, Push(e), unsent' \subseteq unsent,
         e.type = "submit" => e.of \in unsent
  PROVE  Pending' \subseteq Pending
<1>1. e.type = "submit" => e.of \notin Posted("submit")
  BY DEF KeyInv, SubmitsOnce
<1>2. Posted("submit")' = Posted("submit") \cup (IF e.type = "submit" THEN {e.of} ELSE {})
  BY <1>1, Pushed DEF KeyInv, TypeInv, TypeOK, SubmitsOnce
<1> QED BY <1>2 DEF Pending

\* A step that leaves the contexts and the results alone.
LEMMA StepKept ==
  ASSUME StepInv, PressInv', UNCHANGED <<live, flagged, cancelled, linked, executing, index>>,
         Reports' = Reports, Pending' \subseteq Pending, delayed' \subseteq delayed
  PROVE  StepInv' /\ Stops /\ Runs
<1>1. CancelsTaken'
  BY DEF StepInv, CancelsTaken
<1>2. ReportsTrue' /\ HeldOnce' /\ FlushesGoOn'
  BY DEF StepInv, ReportsTrue, HeldOnce, FlushesGoOn, Finished
<1> QED BY <1>1, <1>2 DEF StepInv, Stops, Runs

LEMMA StepCallers ==
  ASSUME StepInv, PressInv', CallerStep
  PROVE  StepInv' /\ Proper
<1> USE DEF CallersRest, schedVars, workerVars
<1>1. mailbox \in Seq(Events) /\ KeyInv
  BY DEF StepInv, PressInv, KeyInv, TypeInv, TypeOK
<1>2. ASSUME NEW e \in Events, Push(e), e.type # "result", CallersRest, unsent' \subseteq unsent,
             e.type = "submit" => e.of \in unsent
      PROVE  StepInv' /\ Proper
  <2>1. Reports' = Reports
    BY <1>1, <1>2, ReportPushed
  <2>2. Pending' \subseteq Pending
    BY <1>1, <1>2, PendingPosted
  <2>3. StepInv' /\ Stops /\ Runs
    BY <1>2, <2>1, <2>2, StepKept
  <2>4. Quiet
    BY <1>2 DEF Quiet
  <2> QED BY <2>3, <2>4 DEF Proper
<1>3. /\ \A a \in Actions : Submitted(a) \in Events /\ Submitted(a).type # "result"
                            /\ Submitted(a).of = a
      /\ \A a \in Actions : [type |-> "cancelAction", of |-> a] \in Events
      /\ \A c \in Channels \cup {Private} : [type |-> "cancelChannel", of |-> c] \in Events
      /\ \A t \in {"cancelAll", "pause", "resume"} : [type |-> t] \in Events
  BY DEF Submitted, Events
<1>4. \A e \in Events : CancelCall(e) /\ e.type \notin {"result", "submit"} => StepInv' /\ Proper
  BY <1>2 DEF CancelCall
<1>5. ASSUME NEW a \in Actions, Submit(a) PROVE StepInv' /\ Proper
  BY <1>2, <1>3, <1>5 DEF Submit
<1>6. ASSUME RequestCancel PROVE StepInv' /\ Proper
  BY <1>3, <1>4, <1>6 DEF RequestCancel
<1>7. ASSUME RequestPause \/ RequestResume PROVE StepInv' /\ Proper
  <2>1. PICK t \in {"pause", "resume"} : Push([type |-> t]) /\ CallersRest /\ unsent' = unsent
    BY <1>7 DEF RequestPause, RequestResume, callVars
  <2> QED BY <1>2, <1>3, <2>1
<1> QED BY <1>5, <1>6, <1>7 DEF CallerStep

LEMMA StepSubmit ==
  ASSUME StepInv, PressInv', HandleSubmit
  PROVE  StepInv' /\ Proper
<1> DEFINE a == Head(mailbox).of
<1>1. /\ KeyInv /\ mailbox \in Seq(Events) /\ mailbox # <<>> /\ mailbox' = Tail(mailbox)
      /\ Head(mailbox).type = "submit" /\ a \in Actions
  BY PoppedTypes, EventFacts DEF HandleSubmit, Popped, StepInv, PressInv, KeyInv, TypeInv, TypeOK
<1>2. Reports' = Reports
  BY <1>1, ReportHandled
<1>3. /\ UNCHANGED <<flushOf, linked, flagged, paused, cancelled, unsent, executing, index>>
  BY DEF HandleSubmit, SchedulerRest, callVars, workerVars
<1>4. Pending' \subseteq Pending /\ a \in Pending
  <2>1. a \in Posted("submit")
    BY <1>1, Handled DEF KeyInv, TypeInv, TypeOK, SubmitsOnce
  <2> QED BY <1>1, <1>3, <2>1, PendingHandled DEF Pending
<1>5. /\ live' = live \cup {a} /\ delayed' = delayed
      /\ paused => inbound' \subseteq inbound
  <2>1. CASE KeyOf(a) \in busy
    BY <2>1 DEF HandleSubmit
  <2>2. CASE KeyOf(a) \notin busy
    <3>1. Settle({}, {}, {a}, {}, {}, {})
      BY <2>2 DEF HandleSubmit
    <3> HIDE DEF a
    <3> QED BY <3>1 DEF Settle
  <2> QED BY <2>1, <2>2
<1> HIDE DEF a
<1>6. CancelsTaken'
  BY <1>3, <1>4, <1>5 DEF StepInv, CancelsTaken
<1>7. ReportsTrue' /\ HeldOnce' /\ FlushesGoOn'
  BY <1>2, <1>3, <1>5 DEF StepInv, ReportsTrue, HeldOnce, FlushesGoOn, Finished
<1>8. Proper
  BY <1>3, <1>5 DEF Proper, Stops, Runs, Quiet
<1> QED BY <1>6, <1>7, <1>8 DEF StepInv

\* What cancels destroy of S is of S or linked to it, and comes back as
\* flushes only.
LEMMA CancelledActions ==
  ASSUME StepInv, NEW S \in SUBSET (Cancelable \cap live)
  PROVE  /\ S \in SUBSET Actions /\ S \cap Pending = {}
         /\ \A x \in Discarded(S) : x \in S \/ x \in LinkedTo(S)
         /\ LinkedTo(S) \subseteq Releases /\ FlushesOf(S) \subseteq Flushes
<1>1. S \in SUBSET Actions
  BY SchedulerAssumption
<1>2. S \cap Pending = {}
  BY <1>1 DEF StepInv, PressInv, KeyInv, SubmitsOnce, Pending
<1>3. KeyInv
  BY DEF StepInv, PressInv
<1> QED BY <1>1, <1>2, <1>3, DiscardedFacts DEF Discarded

LEMMA StepCancel ==
  ASSUME StepInv, PressInv', NEW scope \in {"cancelAction", "cancelChannel", "cancelAll"},
         HandleCancel(scope)
  PROVE  StepInv' /\ Proper
<1> DEFINE S == Targets(scope, IF scope = "cancelAll" THEN Private ELSE Head(mailbox).of, Private)
           gone == Discarded(S)
<1>1. S \in SUBSET (Cancelable \cap live)
  BY TargetsTypes DEF CancelKinds
<1>2. /\ KeyInv /\ mailbox \in Seq(Events) /\ mailbox # <<>> /\ mailbox' = Tail(mailbox)
      /\ Head(mailbox).type # "result"
  BY DEF HandleCancel, Popped, StepInv, PressInv, KeyInv, TypeInv, TypeOK
<1>3. Reports' = Reports
  BY <1>2, ReportHandled
<1>4. /\ Settle(gone, LinkedTo(S) \ gone, {}, FlushesOf(S), {}, {})
      /\ linked' = [a \in Actions |-> IF a \in S THEN {} ELSE linked[a]]
      /\ flagged' = flagged \cup (S \ gone)
      /\ cancelled' = cancelled \cup S
      /\ UNCHANGED <<paused, unsent, executing, index>>
  BY DEF HandleCancel, SchedulerRest, callVars, workerVars
<1>5. Pending' \subseteq Pending
  BY <1>2, <1>4, PendingHandled
<1> HIDE DEF S
<1>6. /\ live' = (live \ (gone \cup LinkedTo(S))) \cup FlushesOf(S)
      /\ delayed' = delayed \ gone
      /\ paused => inbound' = inbound
  BY <1>4 DEF Settle
<1>7. /\ S \in SUBSET Actions /\ S \cap Pending = {}
      /\ \A x \in gone : x \in S \/ x \in LinkedTo(S)
      /\ LinkedTo(S) \subseteq Releases /\ FlushesOf(S) \subseteq Flushes
  BY <1>1, CancelledActions
<1> HIDE DEF gone
<1>8. CancelsTaken'
  <2>1. cancelled \subseteq Actions
    BY SchedulerAssumption DEF StepInv, PressInv, KeyInv, TypeInv, TypeOK
  <2> QED BY <1>1, <1>4, <1>5, <1>6, <1>7, <2>1, IdsDisjoint DEF StepInv, CancelsTaken
<1>9. HeldOnce'
  <2>1. \A a \in Actions : linked'[a] \subseteq linked[a]
    BY <1>4
  <2> QED BY <1>3, <2>1 DEF StepInv, HeldOnce
<1>10. ReportsTrue' /\ FlushesGoOn'
  BY <1>3, <1>4, <1>6 DEF StepInv, ReportsTrue, FlushesGoOn, Finished
<1>11. Proper
  BY <1>1, <1>4, <1>6, <1>7, IdsDisjoint DEF Proper, Stops, Runs, Quiet
<1> QED BY <1>8, <1>9, <1>10, <1>11 DEF StepInv

LEMMA StepResult ==
  ASSUME StepInv, PressInv', HandleResult
  PROVE  StepInv' /\ Proper
<1> DEFINE r    == Head(mailbox)
           id   == r.of
           S    == UNION {Targets(q.kind, q.on, id) : q \in r.requests}
           stop == \/ r.status = "Cancelled"
                   \/ r.status # "Completed" /\ id \in live \cap (flagged \cup S)
           ends == id \in live /\ (stop \/ r.status = "Completed")
           gone == Discarded(S) \cup (IF ends THEN {id} ELSE {})
           goes == IF id \in live /\ ~ends THEN {id} ELSE {}
           fresh == IF r.status = "Cancelled" THEN {}
                    ELSE {Release(id, i) : i \in r.held}
           forced == FlushesOf(S) \cup
                       (IF stop
                        THEN FlushesOf({id} \cap Actions) \cup {Flush(id, i) : i \in r.held}
                        ELSE {})
           resumed == IF r.status = "Continue" THEN goes ELSE {}
           parked  == IF r.status = "Delayed" THEN goes ELSE {}
<1>1. /\ KeyInv /\ mailbox \in Seq(Events) /\ mailbox # <<>> /\ mailbox' = Tail(mailbox)
      /\ r \in Results /\ r.type = "result" /\ id \in Ids /\ r.status \in Statuses
  BY PoppedTypes, EventFacts, ResultFacts
     DEF HandleResult, Popped, StepInv, PressInv, KeyInv, TypeInv, TypeOK
<1>2. S \in SUBSET (Cancelable \cap live)
  BY <1>1, ResultFacts, TargetsTypes DEF CancelItem
<1>3. Reports = Reports' \cup {r} /\ r \in Reports
  BY <1>1, ReportHandled
<1>4. \A q \in Reports' : q.of \in Actions => q.of # id
  <2>1. id \in Actions => id \notin Posted("result")'
    BY <1>1, Handled DEF KeyInv, OnePlace
  <2>2. \A q \in Reports' : q.of \in Posted("result")'
    BY DEF Reports, Posted
  <2> QED BY <2>1, <2>2
<1>5. /\ Settle(gone, LinkedTo(S) \ gone, fresh, forced, resumed, parked)
      /\ linked' = [a \in Actions |->
                      IF a \in S \cup gone THEN {}
                      ELSE IF a = id THEN linked[a] \cup r.held ELSE linked[a]]
      /\ flagged' = (flagged \cup S) \ gone
      /\ cancelled' = cancelled \cup S
      /\ UNCHANGED <<paused, unsent, executing, index>>
  BY DEF HandleResult, SchedulerRest, callVars, workerVars
<1>6. Pending' \subseteq Pending
  BY <1>1, <1>5, PendingHandled
<1>7. /\ live' = (live \ (gone \cup LinkedTo(S))) \cup fresh \cup forced
      /\ delayed' = (delayed \ gone) \cup parked
      /\ paused => inbound' = inbound
  BY <1>5 DEF Settle
<1>8. /\ id \in Actions => \A i \in r.held : i \in Nat /\ i \in HoldsOf(id)
      /\ id \notin Actions => r.held = {}
      /\ id \in Actions => r.held \cap linked[id] = {}
  BY <1>1, <1>3, ResultFacts, IdFacts DEF StepInv, HeldOnce
<1>9. id \in Actions => /\ r.status = "Completed" => Finished(id)
                        /\ r.status = "Cancelled" => id \in Cancelable
  BY <1>3 DEF StepInv, ReportsTrue
<1>10. ends /\ id \in Actions /\ id \notin Cancelable => Finished(id)
  BY <1>2, <1>9 DEF StepInv, CancelsTaken
<1>11. parked \cap Flushes = {}
  BY <1>3 DEF StepInv, FlushesGoOn
<1> HIDE DEF S
<1>12. /\ S \in SUBSET Actions /\ S \cap Pending = {}
       /\ \A x \in Discarded(S) : x \in S \/ x \in LinkedTo(S)
       /\ LinkedTo(S) \subseteq Releases /\ FlushesOf(S) \subseteq Flushes
  BY <1>2, CancelledActions
<1>13. fresh \subseteq Releases
  BY <1>8, IdFacts
<1>14. forced \subseteq Flushes
  <2>1. FlushesOf({id} \cap Actions) \subseteq Flushes
    BY <1>1, FlushesOfTypes DEF KeyInv, TypeInv
  <2>2. {Flush(id, i) : i \in r.held} \subseteq Flushes
    BY <1>8, IdFacts
  <2> QED BY <1>12, <2>1, <2>2
\* A release linked before is not one the result registers.
<1>15. LinkedTo(S) \cap fresh = {}
  <2>1. ASSUME NEW a \in S, NEW i \in linked[a], NEW j \in r.held, Release(a, i) = Release(id, j)
        PROVE  FALSE
    <3>1. a = id /\ i = j
      BY <2>1 DEF Release
    <3> QED BY <1>8, <1>12, <3>1
  <2> HIDE DEF id, r
  <2>2. \A x \in LinkedTo(S) : \E a \in S : \E i \in linked[a] : x = Release(a, i)
    BY DEF LinkedTo
  <2>3. \A x \in fresh : \E j \in r.held : x = Release(id, j)
    OBVIOUS
  <2> HIDE DEF fresh
  <2> QED BY <2>1, <2>2, <2>3
<1>16. \A x \in gone : x \in S \/ x \in LinkedTo(S) \/ (ends /\ x = id)
  BY <1>12
\* What is destroyed is not registered anew; a flush is not in the delay queue.
<1>17. \A x \in gone : x \notin Flushes => x \notin live'
  <2>1. id \notin fresh
    <3>1. id \in Actions \/ fresh = {}
      BY <1>8
    <3> HIDE DEF fresh, id
    <3> QED BY <1>13, <3>1, IdsDisjoint
  <2> HIDE DEF gone, fresh, forced, id, ends
  <2>2. \A x \in gone : x \notin fresh
    BY <1>12, <1>13, <1>15, <1>16, <2>1, IdsDisjoint
  <2> QED BY <1>7, <1>14, <2>2
<1> HIDE DEF gone, fresh, forced, resumed, parked, ends, goes, stop, id, r
<1>18. CancelsTaken'
  <2>1. cancelled \subseteq Actions /\ Actions \cap (fresh \cup forced) = {}
    BY <1>13, <1>14, IdsDisjoint, SchedulerAssumption DEF StepInv, PressInv, KeyInv, TypeInv, TypeOK
  <2>2. \A a \in Actions : a \in gone => a \notin live'
    BY <1>17, IdsDisjoint
  <2>3. \A a \in Actions : a \notin live => a \notin live'
    BY <1>7, <2>1
  <2> QED BY <1>2, <1>5, <1>6, <1>12, <2>1, <2>2, <2>3 DEF StepInv, CancelsTaken
<1>19. HeldOnce'
  <2>1. \A a \in Actions \ {id} : linked'[a] \subseteq linked[a]
    BY <1>5
  <2> QED BY <1>3, <1>4, <2>1 DEF StepInv, HeldOnce
<1>20. ReportsTrue' /\ FlushesGoOn'
  BY <1>3, <1>5, <1>7, <1>11 DEF StepInv, ReportsTrue, FlushesGoOn, Finished
<1>21. Stops
  BY <1>5 DEF Stops
<1>22. Runs
  BY <1>2, <1>7, <1>10, <1>12, <1>16, IdsDisjoint DEF Runs
<1>23. Quiet
  BY <1>7, <1>17 DEF Quiet, StepInv, FlushesGoOn
<1> QED BY <1>18, <1>19, <1>20, <1>21, <1>22, <1>23 DEF StepInv, Proper

LEMMA StepScheduler ==
  ASSUME StepInv, PressInv', HandleEvent \/ ProcessDueDelays
  PROVE  StepInv' /\ Proper
<1>1. KeyInv
  BY DEF StepInv, PressInv
<1>2. ASSUME HandlePause \/ HandleResume PROVE StepInv' /\ Proper
  <2>1. /\ mailbox \in Seq(Events) /\ mailbox # <<>> /\ mailbox' = Tail(mailbox)
        /\ Head(mailbox).type # "result"
    BY <1>1, <1>2 DEF HandlePause, HandleResume, Popped, KeyInv, TypeInv, TypeOK
  <2>2. Reports' = Reports
    BY <2>1, ReportHandled
  <2>3. /\ UNCHANGED <<live, flagged, cancelled, linked, executing, index, unsent>>
        /\ delayed' \subseteq delayed
    BY <1>2 DEF HandlePause, HandleResume, SchedulerRest, schedVars, workerVars, callVars
  <2>4. Pending' \subseteq Pending
    BY <1>1, <2>1, <2>3, PendingHandled
  <2>5. Quiet
    BY <1>2 DEF HandlePause, HandleResume, schedVars, Quiet
  <2> QED BY <2>2, <2>3, <2>4, <2>5, StepKept DEF Proper
<1>3. ASSUME ProcessDueDelays PROVE StepInv' /\ Proper
  <2>1. /\ UNCHANGED <<mailbox, live, flagged, cancelled, linked, executing, index, unsent>>
        /\ delayed' \subseteq delayed
    BY <1>3 DEF ProcessDueDelays, SchedulerRest, workerVars, callVars
  <2>2. Reports' = Reports /\ Pending' = Pending
    BY <2>1 DEF Reports, Pending, Posted
  <2>3. Quiet
    BY <1>3 DEF ProcessDueDelays, Quiet
  <2> QED BY <2>1, <2>2, <2>3, StepKept DEF Proper
<1> QED BY <1>2, <1>3, StepSubmit, StepCancel, StepResult DEF HandleEvent

\* A worker's result: what it says of the context is so.
Truthful(id, status, held) ==
  /\ status = "Completed" => Finished(id)'
  /\ status = "Cancelled" => id \in flagged
  /\ status = "Delayed" => id \notin Flushes
  /\ id \in Actions => held \cap linked[id] = {}

LEMMA StepReported ==
  ASSUME StepInv, PressInv', NEW id \in running, NEW status, NEW held, NEW requests,
         Deliver(id, status, held, requests), Truthful(id, status, held),
         UNCHANGED <<inbound, urgent>>, WorkerRest,
         \A x \in Actions : Finished(x) => Finished(x)'
  PROVE  StepInv'
<1> USE DEF Truthful
<1> DEFINE e == Result(id, status, held, requests)
<1>1. KeyInv /\ KeyInv'
  BY DEF StepInv, PressInv
<1>2. Reports' = Reports \cup {e}
  BY <1>1, Delivered DEF StepInv
<1>3. /\ Push(e) /\ e.of = id /\ e.type = "result" /\ e.status = status /\ e.held = held
      /\ UNCHANGED <<live, flagged, cancelled, linked, delayed, unsent>>
  BY DEF Deliver, Result, WorkerRest, callVars
<1> HIDE DEF e
<1>4. Pending' \subseteq Pending
  <2>1. e \in Events
    <3>1. mailbox \in Seq(Events) /\ mailbox' \in Seq(Events)
      BY <1>1 DEF KeyInv, TypeInv, TypeOK
    <3>2. mailbox' = Append(mailbox, e) /\ Len(mailbox) + 1 \in DOMAIN mailbox'
          /\ mailbox'[Len(mailbox) + 1] = e
      BY <1>3, <3>1 DEF Push
    <3> QED BY <3>1, <3>2
  <2> QED BY <1>1, <1>3, <2>1, PendingPosted
<1>5. CancelsTaken'
  BY <1>3, <1>4 DEF StepInv, CancelsTaken
<1>6. ReportsTrue'
  BY <1>2, <1>3 DEF StepInv, ReportsTrue, CancelsTaken
<1>7. HeldOnce' /\ FlushesGoOn'
  BY <1>2, <1>3 DEF StepInv, HeldOnce, FlushesGoOn
<1> QED BY <1>5, <1>6, <1>7 DEF StepInv

LEMMA StepWorkers ==
  ASSUME StepInv, PressInv', WorkerStep
  PROVE  StepInv' /\ Proper
<1>1. /\ KeyInv /\ index \in [Ids -> Nat] /\ executing \subseteq running /\ ItemLeft
      /\ cancelled \subseteq Actions
  BY SchedulerAssumption DEF StepInv, PressInv, KeyInv, TypeInv, TypeOK
<1>2. ASSUME WorkerRest, UNCHANGED <<mailbox>>,
             \A x \in Actions : Finished(x) => Finished(x)'
      PROVE  StepInv'
  <2>1. UNCHANGED <<live, flagged, cancelled, linked, delayed, unsent>>
    BY <1>2 DEF WorkerRest, callVars
  <2>2. Reports' = Reports /\ Pending' = Pending
    BY <1>2, <2>1 DEF Reports, Pending, Posted
  <2>3. CancelsTaken'
    BY <2>1, <2>2 DEF StepInv, CancelsTaken
  <2>4. ReportsTrue' /\ HeldOnce' /\ FlushesGoOn'
    BY <1>2, <2>1, <2>2 DEF StepInv, ReportsTrue, HeldOnce, FlushesGoOn
  <2> QED BY <2>3, <2>4 DEF StepInv
<1>3. index' = index => \A x \in Actions : Finished(x) => Finished(x)'
  BY DEF Finished
<1>4. ASSUME WorkerRest, inbound' \subseteq inbound, executing' \subseteq executing PROVE Proper
  BY <1>4 DEF WorkerRest, Proper, Stops, Runs, Quiet
<1>5. ASSUME TakeUrgent \/ TakeInbound PROVE StepInv' /\ Proper
  <2>1. /\ WorkerRest /\ UNCHANGED <<mailbox, index, executing>> /\ inbound' \subseteq inbound
    BY <1>5 DEF TakeUrgent, TakeInbound
  <2> QED BY <1>2, <1>3, <1>4, <2>1
<1>6. ASSUME NEW id \in Ids, BeginItem(id) PROVE StepInv' /\ Proper
  <2>1. /\ WorkerRest /\ UNCHANGED <<mailbox, index, inbound>>
        /\ executing' = executing \cup {id} /\ id \in running /\ id \notin flagged
    BY <1>6 DEF BeginItem
  <2>2. id \in Actions => id \in live
    BY <1>1, <2>1 DEF KeyInv, KeysHeld, Holders, InFlight
  <2>3. id \notin cancelled
    BY <1>1, <2>1, <2>2 DEF StepInv, CancelsTaken
  <2>4. Proper
    BY <2>1, <2>3 DEF WorkerRest, Proper, Stops, Runs, Quiet
  <2> QED BY <1>2, <1>3, <2>1, <2>4
<1>7. ASSUME NEW id \in Ids, EndTurn(id) PROVE StepInv' /\ Proper
  <2>1. /\ WorkerRest /\ UNCHANGED <<inbound, urgent, index, executing>> /\ id \in running
    BY <1>7 DEF EndTurn
  <2>2. PICK status \in {"Completed", "Cancelled", "Continue"} :
          /\ Deliver(id, status, {}, {})
          /\ status = "Completed" => Finished(id)
          /\ status = "Cancelled" => id \in flagged
    BY <1>7 DEF EndTurn
  <2>3. status = "Completed" => Finished(id)'
    BY <2>1, <2>2 DEF Finished
  <2>4. status # "Delayed"
    OBVIOUS
  <2>5. StepInv'
    <3>1. PICK none : none = {}
      OBVIOUS
    <3>2. Deliver(id, status, none, none) /\ Truthful(id, status, none)
      BY <2>2, <2>3, <2>4, <3>1 DEF Truthful
    <3> QED BY <1>3, <2>1, <3>2, StepReported
  <2> QED BY <1>4, <2>1, <2>5
<1>8. ASSUME NEW id \in Ids, EndItem(id) PROVE StepInv' /\ Proper
  <2> DEFINE at   == index[id] + 1
             item == ItemsOf(id)[at]
             held == IF item.kind \in HoldKinds THEN {at} ELSE {}
             next == IF id \in flagged THEN "Cancelled"
                     ELSE IF at = Len(ItemsOf(id)) THEN "Completed" ELSE "Continue"
  <2>1. /\ WorkerRest /\ UNCHANGED <<inbound, urgent, flagged>> /\ id \in running
        /\ executing' \subseteq executing /\ index' = [index EXCEPT ![id] = @ + 1]
        /\ ~Finished(id) /\ index[id] \in Nat
    BY <1>1, <1>8 DEF EndItem, ItemLeft, WorkerRest
  <2>2. /\ index'[id] = at /\ \A x \in Ids \ {id} : index'[x] = index[x]
        /\ at \in DOMAIN ItemsOf(id) /\ Len(ItemsOf(id)) \in Nat
    BY <1>1, <2>1, ItemsFacts DEF Finished
  <2>3. \A x \in Actions : Finished(x) => Finished(x)'
    <3>1. \A x \in Actions : Finished(x) => x # id /\ x \in Ids
      BY <2>1, IdFacts
    <3> QED BY <2>2, <3>1 DEF Finished
  <2>4. /\ next \in {"Cancelled", "Completed", "Continue"}
        /\ next = "Completed" => Finished(id)'
        /\ next = "Cancelled" => id \in flagged
    BY <2>2 DEF Finished
  <2>5. id \in Actions => held \cap linked[id] = {}
    <3>1. ASSUME id \in Actions, item.kind \in HoldKinds PROVE at \notin linked[id]
      <4>1. at \in HoldsOf(id)
        BY <2>2, <3>1, ItemsFacts DEF HoldsOf
      <4>2. <<id, at>> \in Holds
        BY <3>1, <4>1, IdFacts
      <4>3. at \notin flushOf[id]
        BY <2>1, <4>2 DEF StepInv, PressInv, Fresh
      <4> QED BY <4>3 DEF StepInv, PressInv
    <3> QED BY <3>1
  <2>6. item.kind \in {"hold", "delay"} => id \notin Flushes
    <3>1. ASSUME id \in Flushes PROVE item.kind = "release"
      <4>1. at = 1
        BY <2>2, <3>1, KeyUpItems, ItemsFacts
      <4> QED BY <3>1, <4>1, KeyUpItems
    <3> QED BY <3>1
  <2>7. \/ item.kind \in {"hold", "delay"} /\ Deliver(id, "Delayed", held, {})
        \/ Deliver(id, next, held, {})
        \/ Deliver(id, next, {}, {item})
        \/ UNCHANGED <<mailbox, running>>
    BY <1>8 DEF EndItem
  <2> HIDE DEF at, item, held, next
  <2>8. Proper
    BY <1>4, <2>1
  <2>9. CASE item.kind \in {"hold", "delay"} /\ Deliver(id, "Delayed", held, {})
    <3>1. Truthful(id, "Delayed", held)
      BY <2>5, <2>6, <2>9 DEF Truthful
    <3> QED BY <2>1, <2>3, <2>9, <2>8, <3>1, StepReported
  <2>10. CASE Deliver(id, next, held, {})
    <3>1. Truthful(id, next, held)
      BY <2>4, <2>5 DEF Truthful
    <3> QED BY <2>1, <2>3, <2>10, <2>8, <3>1, StepReported
  <2>11. CASE Deliver(id, next, {}, {item})
    <3>1. PICK none : none = {}
      OBVIOUS
    <3>2. Deliver(id, next, none, {item}) /\ Truthful(id, next, none)
      BY <2>4, <2>11, <3>1 DEF Truthful
    <3> QED BY <2>1, <2>3, <2>8, <3>2, StepReported
  <2>12. CASE UNCHANGED <<mailbox, running>>
    BY <1>2, <2>1, <2>3, <2>8, <2>12
  <2> QED BY <2>7, <2>9, <2>10, <2>11, <2>12
<1> QED BY <1>5, <1>6, <1>7, <1>8 DEF WorkerStep

LEMMA StepProper == StepInv /\ [Next]_vars => StepInv' /\ [Proper]_vars
<1> SUFFICES ASSUME StepInv, [Next]_vars PROVE StepInv' /\ [Proper]_vars
  OBVIOUS
<1>1. PressInv'
  BY PressStep DEF StepInv
<1>2. CASE UNCHANGED vars
  BY <1>1, <1>2 DEF vars, StepInv, CancelsTaken, ReportsTrue, HeldOnce, FlushesGoOn, Pending,
     Posted, Reports, Finished
<1> QED BY <1>1, <1>2, StepCallers, StepScheduler, StepWorkers DEF Next

-----------------------------------------------------------------------------
\* After the scheduler has handled a cancel of an action (handleCancelAction,
\* Scheduler.cpp:462), no worker begins another of its items, wherever its
\* context was.
THEOREM CancelsAreFinal == Spec => CancelledRunNoMoreItems
<1>1. [Proper]_vars => [\A a \in cancelled : a \in executing' => a \in executing]_vars
  BY DEF Proper, Stops
<1> QED BY StepInit, StepProper, <1>1, PTL DEF Spec, CancelledRunNoMoreItems

\* An action that is not cancelable is destroyed only once its last item has
\* been executed, whatever is cancelled beside it.
THEOREM UncancelableEnd == Spec => UncancelableRunsToEnd
<1>1. [Proper]_vars => [\A a \in Actions \ Cancelable :
                          a \in live /\ a \notin live' => Finished(a)]_vars
  BY DEF Proper, Runs
<1> QED BY StepInit, StepProper, <1>1, PTL DEF Spec, UncancelableRunsToEnd

\* While paused, the scheduler dispatches nothing but flushes and lets no
\* delay run out; a cancel may still empty the delay queue.
THEOREM PauseIsQuiet == Spec => PausedDispatchesNothing
<1>1. [Proper]_vars =>
        [paused /\ paused' =>
           inbound' \subseteq inbound
             /\ \A id \in delayed : id \in delayed' \/ id \notin live']_vars
  BY DEF Proper, Quiet
<1> QED BY StepInit, StepProper, <1>1, PTL DEF Spec, PausedDispatchesNothing

-----------------------------------------------------------------------------
(* The queue of a channel.                                                 *)

\* The tickets of S tell its elements apart.
Ticketed(S, t) ==
  /\ IsFiniteSet(S)
  /\ \A a \in S : t[a] \in Nat
  /\ \A a, b \in S : t[a] = t[b] => a = b

\* s has all of S, those with a lower ticket first.
Sorted(s, S, t) ==
  /\ s \in Seq(S)
  /\ \A i, j \in 1 .. Len(s) : i < j => t[s[i]] < t[s[j]]
  /\ \A a \in S : \E i \in 1 .. Len(s) : s[i] = a

LEMMA RanksTold ==
  ASSUME NEW S, NEW t, Ticketed(S, t)
  PROVE  /\ Cardinality(S) \in Nat
         /\ \A a \in S : Cardinality(Ahead(S, t, a)) \in 0 .. Cardinality(S) - 1
         /\ \A a, b \in S : Cardinality(Ahead(S, t, a)) = Cardinality(Ahead(S, t, b)) => a = b
         /\ \A k \in 0 .. Cardinality(S) - 1 : \E a \in S : Cardinality(Ahead(S, t, a)) = k
<1> DEFINE A == [a \in S |-> Ahead(S, t, a)]
<1>1. A \in [S -> SUBSET S]
  BY DEF Ahead
<1>2. \A a \in S : a \notin A[a]
  BY DEF Ticketed, Ahead
<1>3. \A a, b \in S : b \in A[a] => A[b] \subseteq A[a]
  BY DEF Ticketed, Ahead
<1>4. \A a, b \in S : a # b => a \in A[b] \/ b \in A[a]
  BY DEF Ticketed, Ahead
<1>5. \A a \in S : A[a] = Ahead(S, t, a)
  OBVIOUS
<1>6. IsFiniteSet(S) /\ Cardinality(S) \in Nat
  BY FS_CardinalityType DEF Ticketed
<1> HIDE DEF A
<1>7. /\ \A a \in S : Cardinality(A[a]) \in 0 .. Cardinality(S) - 1
      /\ \A a, b \in S : Cardinality(A[a]) = Cardinality(A[b]) => a = b
      /\ \A k \in 0 .. Cardinality(S) - 1 : \E a \in S : Cardinality(A[a]) = k
  BY <1>1, <1>2, <1>3, <1>4, <1>6, Positions
<1> QED BY <1>5, <1>6, <1>7

LEMMA RankedSorted ==
  ASSUME NEW S, NEW t, Ticketed(S, t)
  PROVE  Sorted(Ranked(S, t), S, t)
<1> DEFINE n == Cardinality(S)
           P(a) == Cardinality(Ahead(S, t, a))
           r == Ranked(S, t)
<1>1. /\ n \in Nat /\ \A a \in S : P(a) \in 0 .. n - 1
      /\ \A k \in 0 .. n - 1 : \E a \in S : P(a) = k
      /\ \A a, b \in S : P(a) = P(b) => a = b
  BY RanksTold
<1>2. r = [i \in 1 .. n |-> CHOOSE a \in S : P(a) = i - 1]
  BY DEF Ranked
<1>3. ASSUME NEW a \in S, NEW b \in S, ~(t[a] < t[b]) PROVE ~(P(a) < P(b))
  <2>1. Ahead(S, t, b) \in SUBSET Ahead(S, t, a)
    BY <1>3 DEF Ticketed, Ahead
  <2>2. IsFiniteSet(Ahead(S, t, a))
    BY FS_Subset DEF Ticketed, Ahead
  <2>3. P(b) <= P(a) /\ P(a) \in Nat /\ P(b) \in Nat
    BY <1>1, <2>1, <2>2, FS_Subset
  <2> QED BY <2>3
<1> HIDE DEF P, n, r
<1>4. ASSUME NEW i \in 1 .. n PROVE r[i] \in S /\ P(r[i]) = i - 1
  <2>1. i - 1 \in 0 .. n - 1
    BY <1>1
  <2>2. \E a \in S : P(a) = i - 1
    BY <1>1, <2>1
  <2>3. r[i] = CHOOSE a \in S : P(a) = i - 1
    BY <1>2
  <2> QED BY <2>2, <2>3
<1>5. r \in Seq(S) /\ Len(r) = n
  BY <1>1, <1>2, <1>4
<1>6. \A i, j \in 1 .. n : i < j => t[r[i]] < t[r[j]]
  BY <1>1, <1>3, <1>4
<1>7. ASSUME NEW a \in S PROVE \E i \in 1 .. n : r[i] = a
  <2>1. P(a) + 1 \in 1 .. n /\ (P(a) + 1) - 1 = P(a)
    BY <1>1
  <2>2. P(r[P(a) + 1]) = P(a) /\ r[P(a) + 1] \in S
    BY <1>4, <2>1
  <2> QED BY <1>1, <2>1, <2>2
<1> QED BY <1>5, <1>6, <1>7 DEF Sorted, r

\* There is but one such sequence.
LEMMA SortedIsRanked ==
  ASSUME NEW S, NEW t, Ticketed(S, t), NEW s, Sorted(s, S, t)
  PROVE  s = Ranked(S, t)
<1> DEFINE n == Len(s)
           P(a) == Cardinality(Ahead(S, t, a))
           r == Ranked(S, t)
<1>1. /\ s \in Seq(S) /\ n \in Nat /\ s \in [1 .. n -> S]
      /\ \A i \in 1 .. n : t[s[i]] \in Nat
      /\ \A i, j \in 1 .. n : i < j => t[s[i]] < t[s[j]]
      /\ \A a \in S : \E i \in 1 .. n : s[i] = a
  BY DEF Sorted, Ticketed
<1>2. \A i, j \in 1 .. n : t[s[i]] < t[s[j]] => i < j
  BY <1>1
<1>3. \A i, j \in 1 .. n : s[i] = s[j] => i = j
  BY <1>1
<1> HIDE DEF n
<1>4. ASSUME NEW i \in 1 .. n PROVE P(s[i]) = i - 1
  <2> DEFINE T == Ahead(S, t, s[i])
             f == [j \in 1 .. i - 1 |-> s[j]]
  <2>1. i - 1 \in Nat /\ \A j \in 1 .. i - 1 : j \in 1 .. n /\ j < i
    BY <1>1
  <2>2. f \in [1 .. i - 1 -> T]
    BY <1>1, <2>1 DEF Ahead
  <2>3. \A j, k \in 1 .. i - 1 : f[j] = f[k] => j = k
    BY <1>3, <2>1
  <2>4. \A b \in T : \E j \in 1 .. i - 1 : f[j] = b
    <3> SUFFICES ASSUME NEW b \in S, t[b] < t[s[i]] PROVE \E j \in 1 .. i - 1 : f[j] = b
      BY DEF Ahead
    <3>1. PICK j \in 1 .. n : s[j] = b
      BY <1>1
    <3>2. j < i
      BY <1>2, <3>1
    <3>3. j \in 1 .. i - 1
      BY <1>1, <3>2
    <3> QED BY <3>1, <3>3
  <2> HIDE DEF f, T
  <2>5. f \in Bijection(1 .. i - 1, T)
    BY <2>2, <2>3, <2>4 DEF Bijection, Injection, IsInjective, Surjection
  <2>6. Cardinality(T) = i - 1
    BY <2>1, <2>5, FS_CountingElements DEF ExistsBijection
  <2> QED BY <2>6 DEF T
<1>5. Cardinality(S) = n
  <2>1. s \in Bijection(1 .. n, S)
    BY <1>1, <1>3 DEF Bijection, Injection, IsInjective, Surjection
  <2> QED BY <1>1, <2>1, FS_CountingElements DEF ExistsBijection
<1>6. \A a, b \in S : P(a) = P(b) => a = b
  BY RanksTold
<1>7. r = [i \in 1 .. n |-> CHOOSE a \in S : P(a) = i - 1]
  BY <1>5 DEF Ranked
<1> HIDE DEF P, r
<1>8. ASSUME NEW i \in 1 .. n PROVE r[i] = s[i]
  <2>1. s[i] \in S /\ P(s[i]) = i - 1
    BY <1>1, <1>4
  <2>2. r[i] = CHOOSE a \in S : P(a) = i - 1
    BY <1>7
  <2> QED BY <1>6, <2>1, <2>2
<1>9. s = [i \in 1 .. n |-> s[i]]
  BY <1>1
<1>10. r = [i \in 1 .. n |-> s[i]]
  <2>1. \A i \in 1 .. n : (CHOOSE a \in S : P(a) = i - 1) = s[i]
    BY <1>7, <1>8
  <2> QED BY <1>7, <2>1
<1> QED BY <1>9, <1>10 DEF r
\* Other tickets, the same queue.
LEMMA RankedKept ==
  ASSUME NEW S, NEW t, Ticketed(S, t), NEW u, \A b \in S : u[b] = t[b]
  PROVE  Ranked(S, u) = Ranked(S, t)
<1>1. \A a \in S : Ahead(S, u, a) = Ahead(S, t, a)
  BY DEF Ahead
<1> QED BY <1>1 DEF Ranked

\* Of the tickets u that a has one too, and the last one.
TakesLast(S, t, a, u) ==
  /\ a \notin S /\ u[a] \in Nat
  /\ \A b \in S : u[b] = t[b] /\ t[b] < u[a]

\* Named, as the provers do not match the Append of a cited lemma.
Longer(r, s, a) == r = Append(s, a)

\* The newest comes last.
LEMMA RankedAppended ==
  ASSUME NEW S, NEW t, NEW a, NEW u, Ticketed(S, t), TakesLast(S, t, a, u)
  PROVE  Longer(Ranked(S \cup {a}, u), Ranked(S, t), a)
<1> DEFINE r == Ranked(S, t)
           s == Append(r, a)
<1>1. /\ r \in Seq(S) /\ Len(r) \in Nat
      /\ \A i \in 1 .. Len(r) : r[i] \in S
      /\ \A i, j \in 1 .. Len(r) : i < j => t[r[i]] < t[r[j]]
      /\ \A b \in S : \E i \in 1 .. Len(r) : r[i] = b
  BY RankedSorted DEF Sorted
<1>0. /\ a \notin S /\ u[a] \in Nat
      /\ \A b \in S : u[b] = t[b] /\ t[b] < u[a]
  BY DEF TakesLast
<1> HIDE DEF r
<1>2. /\ s \in Seq(S \cup {a}) /\ Len(s) = Len(r) + 1
      /\ \A i \in 1 .. Len(r) : s[i] = r[i]
      /\ s[Len(r) + 1] = a
  BY <1>1
<1>3. Ticketed(S \cup {a}, u)
  BY <1>0, FS_AddElement DEF Ticketed
<1> HIDE DEF s
<1>4. ASSUME NEW i \in 1 .. Len(s), NEW j \in 1 .. Len(s), i < j PROVE u[s[i]] < u[s[j]]
  <2>1. Len(r) \in Nat /\ Len(s) = Len(r) + 1
    BY <1>1, <1>2
  <2>2. i \in 1 .. Len(r)
    BY <1>4, <2>1
  <2>3. s[i] = r[i] /\ r[i] \in S
    BY <1>1, <1>2, <2>2
  <2>4. CASE j \in 1 .. Len(r)
    <3>1. s[j] = r[j] /\ r[j] \in S /\ t[r[i]] < t[r[j]]
      BY <1>1, <1>2, <1>4, <2>2, <2>4
    <3> QED BY <1>0, <2>3, <3>1
  <2>5. CASE j = Len(r) + 1
    BY <1>0, <1>2, <2>3, <2>5
  <2> QED BY <2>1, <2>4, <2>5
<1>5. ASSUME NEW b \in S \cup {a} PROVE \E i \in 1 .. Len(s) : s[i] = b
  <2>1. CASE b = a
    <3>1. Len(r) + 1 \in 1 .. Len(s)
      BY <1>1, <1>2
    <3> QED BY <1>2, <2>1, <3>1
  <2>2. CASE b \in S
    <3>1. PICK i \in 1 .. Len(r) : r[i] = b
      BY <1>1, <2>2
    <3>2. i \in 1 .. Len(s)
      BY <1>1, <1>2
    <3> QED BY <1>2, <3>1, <3>2
  <2> QED BY <2>1, <2>2
<1>6. Sorted(s, S \cup {a}, u)
  BY <1>2, <1>4, <1>5 DEF Sorted
<1> QED BY <1>3, <1>6, SortedIsRanked DEF Longer, s, r

\* Whoever leaves, the others keep their order.
LEMMA RankedLeft ==
  ASSUME NEW S, NEW t, Ticketed(S, t), NEW K
  PROVE  Ranked(S \cap K, t) = Only(Ranked(S, t), K)
<1> DEFINE r == Ranked(S, t)
           s == Only(r, K)
<1>1. /\ r \in Seq(S) /\ Len(r) \in Nat
      /\ \A i, j \in 1 .. Len(r) : i < j => t[r[i]] < t[r[j]]
      /\ \A b \in S : \E i \in 1 .. Len(r) : r[i] = b
  BY RankedSorted DEF Sorted
<1> HIDE DEF r
<1>2. /\ s \in Seq(S) /\ \A j \in 1 .. Len(s) : s[j] \in K
      /\ \A i \in 1 .. Len(r) : r[i] \in K => \E j \in 1 .. Len(s) : s[j] = r[i]
  BY <1>1, OnlyElements
<1>3. PICK g \in [1 .. Len(s) -> 1 .. Len(r)] :
        /\ \A i, j \in 1 .. Len(s) : i < j => g[i] < g[j]
        /\ \A j \in 1 .. Len(s) : s[j] = r[g[j]]
  BY <1>1, OnlyOrdered
<1> HIDE DEF s
<1>4. s \in Seq(S \cap K)
  BY <1>2
<1>5. \A i, j \in 1 .. Len(s) : i < j => t[s[i]] < t[s[j]]
  <2>1. \A i \in 1 .. Len(s) : g[i] \in 1 .. Len(r) /\ s[i] = r[g[i]]
    BY <1>3
  <2> QED BY <1>1, <1>3, <2>1
<1>6. \A b \in S \cap K : \E i \in 1 .. Len(s) : s[i] = b
  BY <1>1, <1>2
<1>7. Ticketed(S \cap K, t)
  BY FS_Subset DEF Ticketed
<1> QED BY <1>4, <1>5, <1>6, <1>7, SortedIsRanked DEF Sorted, s, r

\* The oldest is the first.
LEMMA RankedFirst ==
  ASSUME NEW S, NEW t, Ticketed(S, t), NEW a \in S, \A b \in S : b # a => t[a] < t[b]
  PROVE  Ranked(S, t) # <<>> /\ a = Head(Ranked(S, t))
<1> DEFINE r == Ranked(S, t)
<1>1. /\ r \in Seq(S) /\ Len(r) \in Nat
      /\ \A i \in 1 .. Len(r) : r[i] \in S
      /\ \A i, j \in 1 .. Len(r) : i < j => t[r[i]] < t[r[j]]
      /\ \A b \in S : \E i \in 1 .. Len(r) : r[i] = b
  BY RankedSorted DEF Sorted
<1> HIDE DEF r
<1>2. PICK i \in 1 .. Len(r) : r[i] = a
  BY <1>1
<1>3. 1 \in 1 .. Len(r) /\ ~(1 < i)
  <2>1. ASSUME 1 < i PROVE FALSE
    <3>1. 1 \in 1 .. Len(r)
      BY <1>1
    <3>2. r[1] \in S /\ t[r[1]] < t[r[i]]
      BY <1>1, <2>1, <3>1
    <3> QED BY <1>2, <3>2 DEF Ticketed
  <2> QED BY <1>1, <1>2, <2>1
<1>4. r[1] = a
  BY <1>2, <1>3
<1>5. r # <<>> /\ Head(r) = r[1]
  BY <1>1, <1>3
<1> QED BY <1>4, <1>5 DEF r

LEMMA RankedNone == \A t : Ranked({}, t) = <<>>
  BY FS_EmptySet DEF Ranked
-----------------------------------------------------------------------------
(* The steps.                                                              *)

\* Whoever is registered has a ticket, and whoever holds a channel an older
\* one than those that wait for it.
OrderInv ==
  /\ KeyInv
  /\ \A a \in live \cap Actions : ticket[a] > 0
  /\ \A x \in Holders, w \in waiting : KeyOf(x) = KeyOf(w) => ticket[x] < ticket[w]

LEMMA SameFilter == \A s, S : Order!Only(s, S) = Only(s, S)
  BY DEF Order!Only, Only

LEMMA QueuesTicketed ==
  ASSUME OrderInv, NEW c
  PROVE  Ticketed(RegisteredOn(c), ticket) /\ RegisteredOn(c) \subseteq Actions
<1>1. IsFiniteSet(RegisteredOn(c))
  BY SchedulerAssumption, FS_Subset DEF RegisteredOn, OnChannels
<1> QED BY <1>1
  DEF Ticketed, RegisteredOn, OnChannels, OrderInv, KeyInv, Tickets, TypeInv, TypeOK

LEMMA OrderInitial == Init => OrderInv /\ Order!Init
<1> SUFFICES ASSUME Init PROVE OrderInv /\ Order!Init
  OBVIOUS
<1>1. OrderInv
  BY KeyInit DEF Init, OrderInv
<1>2. \A c : RegisteredOn(c) = {}
  BY DEF Init, RegisteredOn
<1>3. Queued = [c \in Channels |-> <<>>]
  BY <1>2, RankedNone DEF Queued
<1>4. executing \cap OnChannels = {} /\ Entered = {}
  BY DEF Init, OnChannels, Entered
<1> QED BY <1>1, <1>3, <1>4 DEF Order!Init

\* Nobody is registered, destroyed or handed a channel.
LEMMA OrderKept ==
  ASSUME OrderInv, KeyInv', UNCHANGED <<live, waiting, ticket>>
  PROVE  OrderInv' /\ UNCHANGED <<Queued, Entered>>
<1>1. Holders' = Holders
  BY DEF OrderInv, KeyInv, KeysHeld
<1>2. OrderInv'
  BY <1>1 DEF OrderInv
<1>3. UNCHANGED <<Queued, Entered>>
  BY DEF Queued, RegisteredOn, Entered
<1> QED BY <1>2, <1>3

\* The actions destroyed leave, and each channel they free goes to the oldest
\* of those that wait for it.
LEMMA OrderSettled ==
  ASSUME OrderInv, KeyInv', NEW gone, NEW orphaned, NEW fresh, NEW forced, NEW resumed, NEW parked,
         Settle(gone, orphaned, fresh, forced, resumed, parked),
         (orphaned \cup fresh \cup forced) \cap Actions = {},
         gone \cap running \cap Actions = {},
         UNCHANGED <<ticket, executing>>
  PROVE  OrderInv' /\ Order!Next
<1> DEFINE next == Promoted(FreedKeys(gone), gone)
           S == gone \cap OnChannels
<1>1. /\ live' = (live \ (gone \cup orphaned)) \cup fresh \cup forced
      /\ waiting' = waiting \ (gone \cup next)
  BY DEF Settle
<1>2. live' \cap Actions = (live \cap Actions) \ gone
  BY <1>1
<1>3. ASSUME NEW x \in Holders', NEW w \in waiting', KeyOf(x) = KeyOf(w)
      PROVE  ticket[x] < ticket[w]
  <2>1. w \in waiting \ gone /\ w \notin next /\ w \in live /\ w \in Actions
    BY <1>1, <1>2, <1>3 DEF OrderInv, KeyInv, KeysHeld, TypeInv, TypeOK
  <2>2. x \in live' \cap Actions /\ x \notin waiting'
    BY DEF KeyInv, KeysHeld
  <2>3. x \in live \cap Actions /\ x \notin gone
    BY <1>2, <2>2
  <2>4. CASE x \in Holders
    BY <1>3, <2>1, <2>4 DEF OrderInv
  <2>5. CASE x \notin Holders
    <3>1. x \in waiting
      BY <2>3, <2>5 DEF OrderInv, KeyInv, KeysHeld
    <3>2. x \in next
      BY <1>1, <2>2, <2>3, <3>1
    <3>3. ticket[x] <= ticket[w]
      BY <1>3, <2>1, <3>2 DEF Promoted
    <3>4. ticket[x] # ticket[w] /\ ticket[x] \in Nat /\ ticket[w] \in Nat
      BY <2>1, <2>3, <3>2 DEF OrderInv, KeyInv, Tickets, TypeInv, TypeOK
    <3> QED BY <3>3, <3>4
  <2> QED BY <2>4, <2>5
<1>4. OrderInv'
  BY <1>2, <1>3 DEF OrderInv
<1>5. ASSUME NEW c \in Channels PROVE Queued'[c] = Only(Queued[c], OnChannels \ S)
  <2>1. RegisteredOn(c)' = RegisteredOn(c) \cap (OnChannels \ S)
    BY <1>2 DEF RegisteredOn, OnChannels
  <2>2. Ranked(RegisteredOn(c) \cap (OnChannels \ S), ticket)
          = Only(Ranked(RegisteredOn(c), ticket), OnChannels \ S)
    BY QueuesTicketed, RankedLeft
  <2>3. Queued'[c] = Ranked(RegisteredOn(c)', ticket)
    BY DEF Queued
  <2> QED BY <2>1, <2>2, <2>3 DEF Queued
<1>6. Queued' = [c \in Channels |-> Order!Only(Queued[c], OnChannels \ S)]
  <2>1. Queued' = [c \in Channels |-> Queued'[c]]
    BY DEF Queued
  <2> QED BY <1>5, <2>1, SameFilter
<1>7. S \cap (executing \cap OnChannels) = {}
  BY DEF OnChannels, OrderInv, KeyInv, TypeInv, TypeOK
<1>8. Order!Leave(S)
  BY <1>6, <1>7 DEF Order!Leave, Entered
<1> QED BY <1>4, <1>8 DEF Order!Next
LEMMA OrderCancel ==
  ASSUME OrderInv, KeyInv', NEW scope \in {"cancelAction", "cancelChannel", "cancelAll"},
         HandleCancel(scope)
  PROVE  OrderInv' /\ Order!Next
<1> DEFINE S == Targets(scope, IF scope = "cancelAll" THEN Private ELSE Head(mailbox).of, Private)
           gone == Discarded(S)
<1>1. S \in SUBSET Actions
  BY TargetsTypes, SchedulerAssumption DEF CancelKinds
<1>2. /\ Settle(gone, LinkedTo(S) \ gone, {}, FlushesOf(S), {}, {})
      /\ UNCHANGED <<ticket, executing>>
  BY DEF HandleCancel, SchedulerRest, workerVars
<1> HIDE DEF S
<1>3. /\ gone \cap Actions \subseteq waiting \cup delayed \cup pausedReady
      /\ LinkedTo(S) \cap Actions = {} /\ FlushesOf(S) \in SUBSET Flushes
  BY <1>1, DiscardedFacts DEF OrderInv
<1>4. gone \cap running \cap Actions = {}
  BY <1>3, HoldersAre DEF OrderInv, KeyInv, OnePlace, KeysHeld
<1> HIDE DEF gone
<1>5. ((LinkedTo(S) \ gone) \cup {} \cup FlushesOf(S)) \cap Actions = {}
  BY <1>3, IdsDisjoint
<1> QED BY <1>2, <1>4, <1>5, OrderSettled

LEMMA OrderResult ==
  ASSUME OrderInv, KeyInv', HandleResult
  PROVE  OrderInv' /\ Order!Next
<1> DEFINE r    == Head(mailbox)
           id   == r.of
           S    == UNION {Targets(q.kind, q.on, id) : q \in r.requests}
           stop == \/ r.status = "Cancelled"
                   \/ r.status # "Completed" /\ id \in live \cap (flagged \cup S)
           ends == id \in live /\ (stop \/ r.status = "Completed")
           gone == Discarded(S) \cup (IF ends THEN {id} ELSE {})
           goes == IF id \in live /\ ~ends THEN {id} ELSE {}
           fresh == IF r.status = "Cancelled" THEN {}
                    ELSE {Release(id, i) : i \in r.held}
           forced == FlushesOf(S) \cup
                       (IF stop
                        THEN FlushesOf({id} \cap Actions) \cup {Flush(id, i) : i \in r.held}
                        ELSE {})
           resumed == IF r.status = "Continue" THEN goes ELSE {}
           parked  == IF r.status = "Delayed" THEN goes ELSE {}
<1>1. /\ mailbox \in Seq(Events) /\ mailbox # <<>> /\ mailbox' = Tail(mailbox)
      /\ r \in Results /\ r.type = "result" /\ id \in Ids
  BY PoppedTypes, EventFacts, ResultFacts DEF HandleResult, Popped, OrderInv, KeyInv, TypeInv, TypeOK
<1>2. S \in SUBSET Actions
  <2>1. \A q \in r.requests : Targets(q.kind, q.on, id) \subseteq Cancelable
    BY <1>1, ResultFacts, TargetsTypes DEF CancelItem
  <2>2. QED BY <2>1, SchedulerAssumption
<1>3. \A i \in r.held : Release(id, i) \in Releases /\ Flush(id, i) \in Flushes
  BY <1>1, ResultFacts, IdFacts
<1>4. /\ Settle(gone, LinkedTo(S) \ gone, fresh, forced, resumed, parked)
      /\ UNCHANGED <<ticket, executing>>
  BY DEF HandleResult, SchedulerRest, workerVars
<1>5. /\ Discarded(S) \cap Actions \subseteq waiting \cup delayed \cup pausedReady
      /\ LinkedTo(S) \cap Actions = {}
  BY <1>2, DiscardedFacts DEF OrderInv
<1>6. fresh \cap Actions = {}
  BY <1>3, IdsDisjoint
<1>7. forced \cap Actions = {}
  <2>1. FlushesOf(S) \subseteq Flushes /\ FlushesOf({id} \cap Actions) \subseteq Flushes
    BY <1>2, FlushesOfTypes DEF OrderInv, KeyInv, TypeInv
  <2> QED BY <1>3, <2>1, IdsDisjoint
<1>8. id \in Actions => id \notin running
  <2>1. id \in Posted("result")
    <3>1. 1 \in DOMAIN mailbox /\ mailbox[1] = r
      BY <1>1
    <3> QED BY <1>1, <3>1 DEF Posted
  <2> QED BY <2>1 DEF OrderInv, KeyInv, OnePlace
<1> HIDE DEF S, stop, r, id
<1>9. gone \cap running \cap Actions = {}
  <2>1. \A a \in Discarded(S) \cap Actions : a \notin running
    BY <1>5, HoldersAre DEF OrderInv, KeyInv, OnePlace, KeysHeld
  <2> QED BY <1>8, <2>1
<1> HIDE DEF gone, fresh, forced, resumed, parked, ends, goes
<1>10. ((LinkedTo(S) \ gone) \cup fresh \cup forced) \cap Actions = {}
  BY <1>5, <1>6, <1>7
<1> QED BY <1>4, <1>9, <1>10, OrderSettled

\* An action is registered: it enters at the end of its channel's queue.
LEMMA OrderSubmit ==
  ASSUME OrderInv, KeyInv', HandleSubmit
  PROVE  OrderInv' /\ [Order!Next]_(Order!vars)
<1> DEFINE a == Head(mailbox).of
           n == Cardinality({b \in Actions : ticket[b] > 0})
<1>1. /\ mailbox \in Seq(Events) /\ mailbox # <<>> /\ mailbox' = Tail(mailbox)
      /\ Head(mailbox).type = "submit" /\ a \in Actions
  BY PoppedTypes, EventFacts DEF HandleSubmit, Popped, OrderInv, KeyInv, TypeInv, TypeOK
<1>2. a \notin live /\ ticket[a] = 0
  <2>1. 1 \in DOMAIN mailbox /\ mailbox[1] = Head(mailbox)
    BY <1>1
  <2>2. a \in Posted("submit")
    BY <1>1, <2>1 DEF Posted
  <2> QED BY <1>1, <2>2 DEF OrderInv, KeyInv, SubmitsOnce
<1>3. /\ ticket' = [ticket EXCEPT ![a] = 1 + n] /\ executing' = executing
      /\ \/ /\ KeyOf(a) \in busy /\ live' = live \cup {a} /\ waiting' = waiting \cup {a}
         \/ KeyOf(a) \notin busy /\ Settle({}, {}, {a}, {}, {}, {})
  BY DEF HandleSubmit, SchedulerRest, workerVars
<1>4. ticket \in [Actions -> Nat] /\ \A b \in Actions : ticket[b] <= n
  BY DEF OrderInv, KeyInv, Tickets, TypeInv, TypeOK
<1>5. n \in Nat
  <2>1. {b \in Actions : ticket[b] > 0} \in SUBSET Actions
    OBVIOUS
  <2> QED BY <2>1, SchedulerAssumption, FS_Subset, FS_CardinalityType
<1> HIDE DEF a, n
<1>6. /\ ticket'[a] = 1 + n /\ ticket'[a] \in Nat /\ ticket'[a] > 0
      /\ \A b \in Actions : b # a => ticket'[b] = ticket[b]
      /\ \A b \in Actions : ticket[b] < ticket'[a]
  BY <1>1, <1>3, <1>4, <1>5
<1>7. live' = live \cup {a} /\ waiting' \in {waiting, waiting \cup {a}}
      /\ (waiting' = waiting /\ a \in Holders' => KeyOf(a) \notin busy)
  <2>1. Promoted(FreedKeys({}), {}) = {}
    BY DEF Promoted, FreedKeys
  <2>2. CASE KeyOf(a) \notin busy /\ Settle({}, {}, {a}, {}, {}, {})
    BY <2>1, <2>2 DEF Settle
  <2>3. CASE KeyOf(a) \in busy /\ live' = live \cup {a} /\ waiting' = waiting \cup {a}
    BY <1>2, <2>3 DEF KeyInv, KeysHeld
  <2> QED BY <1>3, <2>2, <2>3
<1>8. ASSUME NEW x \in Holders', NEW w \in waiting', KeyOf(x) = KeyOf(w)
      PROVE  ticket'[x] < ticket'[w]
  <2>1. x \in Actions /\ w \in Actions /\ x \in live' /\ x \notin waiting'
    BY DEF KeyInv, KeysHeld, TypeInv, TypeOK
  <2>2. CASE x = a
    <3>1. w # a /\ w \in waiting /\ KeyOf(a) \notin busy
      BY <1>7, <2>1, <2>2
    <3> QED BY <1>8, <2>2, <3>1 DEF OrderInv, KeyInv, KeysHeld
  <2>3. CASE x # a
    <3>1. x \in Holders
      BY <1>7, <2>1, <2>3 DEF OrderInv, KeyInv, KeysHeld
    <3>2. CASE w = a
      BY <1>6, <2>1, <2>3, <3>2
    <3>3. CASE w # a
      BY <1>6, <1>7, <1>8, <2>1, <2>3, <3>1, <3>3 DEF OrderInv
    <3> QED BY <3>2, <3>3
  <2> QED BY <2>2, <2>3
<1>9. \A b \in live' \cap Actions : ticket'[b] > 0
  BY <1>6, <1>7 DEF OrderInv
<1>10. OrderInv'
  BY <1>8, <1>9 DEF OrderInv
<1>11. ASSUME NEW c \in Channels
       PROVE  Queued'[c] = IF a \in OnChannels /\ ChannelOf[a] = c THEN Append(Queued[c], a) ELSE Queued[c]
  <2>1. /\ Ticketed(RegisteredOn(c), ticket) /\ a \notin RegisteredOn(c)
        /\ \A b \in RegisteredOn(c) : ticket'[b] = ticket[b] /\ ticket[b] < ticket'[a]
    BY <1>2, <1>6, QueuesTicketed DEF RegisteredOn
  <2>2. Queued'[c] = Ranked(RegisteredOn(c)', ticket') /\ Queued[c] = Ranked(RegisteredOn(c), ticket)
    BY DEF Queued
  <2>3. CASE a \in OnChannels /\ ChannelOf[a] = c
    <3>1. RegisteredOn(c)' = RegisteredOn(c) \cup {a}
      BY <1>7, <2>3 DEF RegisteredOn
    <3>2. TakesLast(RegisteredOn(c), ticket, a, ticket')
      BY <1>6, <2>1 DEF TakesLast
    <3>3. Longer(Ranked(RegisteredOn(c) \cup {a}, ticket'), Ranked(RegisteredOn(c), ticket), a)
      BY <2>1, <3>2, RankedAppended
    <3> QED BY <2>2, <2>3, <3>1, <3>3 DEF Longer
  <2>4. CASE ~(a \in OnChannels /\ ChannelOf[a] = c)
    <3>1. RegisteredOn(c)' = RegisteredOn(c)
      BY <1>7, <2>4 DEF RegisteredOn
    <3> QED BY <2>1, <2>2, <2>4, <3>1, RankedKept
  <2> QED BY <2>3, <2>4
<1>12. Queued' = [c \in Channels |-> Queued'[c]] /\ Queued = [c \in Channels |-> Queued[c]]
  BY DEF Queued
<1>13. CASE a \in OnChannels
  <2>1. a \notin Entered /\ Entered' = Entered \cup {a}
    BY <1>2, <1>6, <1>13 DEF Entered, OnChannels
  <2>2. Queued' = [Queued EXCEPT ![ChannelOf[a]] = Append(@, a)]
    BY <1>11, <1>12, <1>13
  <2> QED BY <1>3, <1>10, <1>13, <2>1, <2>2 DEF Order!Next, Order!Enter
<1>14. CASE a \notin OnChannels
  <2>1. Entered' = Entered
    BY <1>6, <1>14 DEF Entered, OnChannels
  <2>2. Queued' = Queued
    BY <1>11, <1>12, <1>14
  <2> QED BY <1>3, <1>10, <2>1, <2>2 DEF Order!vars
<1> QED BY <1>13, <1>14

\* Only the oldest registered action of a channel executes an item.
LEMMA OrderItem ==
  ASSUME OrderInv, KeyInv', NEW id \in Ids, BeginItem(id) \/ EndItem(id)
  PROVE  OrderInv' /\ [Order!Next]_(Order!vars)
<1>1. OrderInv' /\ UNCHANGED <<Queued, Entered>>
  BY OrderKept DEF BeginItem, EndItem, WorkerRest
<1>2. CASE id \notin OnChannels
  <2>1. executing' \cap OnChannels = executing \cap OnChannels
    BY <1>2 DEF BeginItem, EndItem
  <2> QED BY <1>1, <2>1 DEF Order!vars
<1>3. CASE EndItem(id) /\ id \in OnChannels
  <2>1. executing' \cap OnChannels = (executing \cap OnChannels) \ {id}
    BY <1>3 DEF EndItem
  <2> QED BY <1>1, <1>3, <2>1 DEF Order!Next, Order!EndItem
<1>4. CASE BeginItem(id) /\ id \in OnChannels
  <2> DEFINE c == ChannelOf[id]
  <2>1. executing' \cap OnChannels = (executing \cap OnChannels) \cup {id}
    BY <1>4 DEF BeginItem
  <2>2. id \in Actions /\ c \in Channels /\ KeyOf(id) = c
    BY <1>4, SchedulerAssumption DEF OnChannels, KeyOf
  <2>3. id \in Holders
    BY <1>4, <2>2, HoldersAre DEF BeginItem, OrderInv, KeyInv
  <2>4. id \in RegisteredOn(c)
    BY <1>4, <2>3 DEF RegisteredOn, OrderInv, KeyInv, KeysHeld
  <2>5. ASSUME NEW b \in RegisteredOn(c), b # id PROVE ticket[id] < ticket[b]
    <3>1. b \in live \cap Actions /\ KeyOf(b) = c
      BY <2>2 DEF RegisteredOn, OnChannels, KeyOf
    <3>2. b \in waiting
      BY <2>2, <2>3, <2>5, <3>1 DEF OrderInv, KeyInv, KeysHeld
    <3> QED BY <2>2, <2>3, <3>1, <3>2 DEF OrderInv
  <2>6. Ranked(RegisteredOn(c), ticket) # <<>> /\ id = Head(Ranked(RegisteredOn(c), ticket))
    BY <2>4, <2>5, QueuesTicketed, RankedFirst
  <2>7. Queued[c] # <<>> /\ id = Head(Queued[c])
    BY <2>2, <2>6 DEF Queued
  <2> QED BY <1>1, <1>4, <2>1, <2>7 DEF Order!Next, Order!BeginItem
<1> QED BY <1>2, <1>3, <1>4

LEMMA OrderStep == OrderInv /\ [Next]_vars => OrderInv' /\ [Order!Next]_(Order!vars)
<1> SUFFICES ASSUME OrderInv, [Next]_vars PROVE OrderInv' /\ [Order!Next]_(Order!vars)
  OBVIOUS
<1>1. KeyInv'
  BY KeyStep DEF OrderInv
<1>2. ASSUME UNCHANGED <<live, waiting, ticket, executing>>
      PROVE  OrderInv' /\ [Order!Next]_(Order!vars)
  BY <1>1, <1>2, OrderKept DEF Order!vars
<1>3. CASE UNCHANGED vars
  BY <1>2, <1>3 DEF vars
<1>4. CASE CallerStep
  BY <1>2, <1>4 DEF CallerStep, Submit, RequestCancel, CancelCall, RequestPause, RequestResume,
     CallersRest, schedVars, workerVars
<1>5. CASE HandlePause \/ HandleResume \/ ProcessDueDelays
  BY <1>2, <1>5 DEF HandlePause, HandleResume, ProcessDueDelays, SchedulerRest, schedVars, workerVars
<1>6. CASE TakeUrgent \/ TakeInbound \/ \E id \in Ids : EndTurn(id)
  BY <1>2, <1>6 DEF TakeUrgent, TakeInbound, EndTurn, WorkerRest
<1> QED BY <1>1, <1>3, <1>4, <1>5, <1>6, OrderSubmit, OrderCancel, OrderResult, OrderItem
  DEF Next, HandleEvent, WorkerStep

\* Strict FIFO within a channel (Scheduler.hpp, ChannelManager): whatever the
\* programs are, the scheduler implements the queues of ChannelOrder.
THEOREM ChannelsFollowOrder == Spec => ChannelsKeepOrder
<1> QED BY OrderInitial, OrderStep, PTL DEF Spec, ChannelsKeepOrder, Order!Spec
=============================================================================
