------------------------- MODULE WorkerPool_proofs -------------------------
(* Proofs about the pause gate of WorkerPool, for every set of workers and *)
(* of contexts.                                                            *)
EXTENDS WorkerPool, TLAPS

USE DEF InGate, Asleep

\* A worker executes an item only of a context with items left.
ItemLeft == \A w \in Workers : pc[w] = "item" => left[w] > 0

TypeInv == TypeOK /\ ItemLeft

\* The initial state is well-typed.
LEMMA TypeInit == Init => TypeInv
<1> SUFFICES ASSUME Init PROVE TypeInv
  OBVIOUS
<1> USE PoolAssumption DEF Init
<1>1. /\ inbound \in Seq(Jobs) /\ urgent \in Seq(UrgentJobs)
      /\ pc \in [Workers -> WorkerPc]
      /\ stopper \in StopperPc
  BY DEF WorkerPc, StopperPc
<1>2. /\ job \in [Workers -> SUBSET (Jobs \cup UrgentJobs)]
      /\ left \in [Workers -> 0 .. Items]
      /\ todo \subseteq Jobs \cup UrgentJobs
      /\ pauses \in 0 .. MaxPauses
  OBVIOUS
<1>3. QED BY <1>1, <1>2 DEF TypeInv, TypeOK, ItemLeft

\* Every step keeps the types.
LEMMA TypeStep == TypeInv /\ [Next]_vars => TypeInv'
<1> SUFFICES ASSUME TypeInv, [Next]_vars PROVE TypeInv'
  OBVIOUS
<1> USE PoolAssumption DEF TypeInv, TypeOK, ItemLeft, WorkerPc, StopperPc, queues, callers
<1>1. ASSUME NEW j \in Jobs, Submit(j) PROVE TypeInv'
  BY <1>1 DEF Submit, Pushed
<1>2. ASSUME NEW j \in UrgentJobs, SubmitUrgent(j) PROVE TypeInv'
  BY <1>2 DEF SubmitUrgent, Pushed
<1>3. ASSUME NEW b \in BOOLEAN, SetPaused(b) PROVE TypeInv'
  BY <1>3 DEF SetPaused
<1>4. CASE SchedulerNotify
  BY <1>4 DEF SchedulerNotify, Woken
<1>5. CASE StopStep
  BY <1>5 DEF StopStep, StopUnpause, StopNotify, StopUrgent, StopInbound,
              StopJoin, Woken
<1>6. ASSUME NEW w \in Workers, TakeUrgent(w) PROVE TypeInv'
  <2>1. Head(urgent) \in UrgentJobs /\ Tail(urgent) \in Seq(UrgentJobs)
    BY <1>6 DEF TakeUrgent
  <2>2. /\ urgent' = Tail(urgent)
        /\ Holds(w, Head(urgent))
        /\ UNCHANGED <<paused, inbound, inboundStopped, urgentStopped, callers>>
    BY <1>6 DEF TakeUrgent
  <2>3. QED BY <2>1, <2>2 DEF Holds, Goto
<1>7. ASSUME NEW w \in Workers, PopInbound(w) PROVE TypeInv'
  <2>1. CASE inbound # <<>>
    <3>1. Head(inbound) \in Jobs /\ Tail(inbound) \in Seq(Jobs)
      BY <2>1
    <3>2. /\ inbound' = Tail(inbound)
          /\ Holds(w, Head(inbound))
          /\ UNCHANGED <<paused, urgent, inboundStopped, urgentStopped, callers>>
      BY <1>7, <2>1 DEF PopInbound
    <3>3. QED BY <3>1, <3>2 DEF Holds, Goto
  <2>2. CASE inbound = <<>>
    BY <1>7, <2>2 DEF PopInbound, Goto
  <2>3. QED BY <2>1, <2>2
<1>8. ASSUME NEW w \in Workers, BetweenItems(w) \/ FinishItem(w) PROVE TypeInv'
  <2>1. CASE Deliver(w) /\ UNCHANGED <<paused, queues, callers>>
    BY <2>1 DEF Deliver, Goto
  <2>2. CASE BetweenItems(w) /\ Goto(w, "item")
    BY <2>2 DEF BetweenItems, Goto, Deliver
  <2>3. CASE FinishItem(w) /\ Goto(w, "run")
    BY <2>3, SMTT(30) DEF FinishItem, Goto, Deliver
  <2>4. QED BY <1>8, <2>1, <2>2, <2>3 DEF BetweenItems, FinishItem
<1>9. ASSUME NEW w \in Workers,
             NoUrgent(w) \/ CheckPaused(w) \/ EvaluateGate(w) \/ Block(w)
               \/ SpuriousWake(w) \/ LeaveGate(w)
      PROVE TypeInv'
  BY <1>9, SMTT(30) DEF NoUrgent, CheckPaused, EvaluateGate, Block, SpuriousWake,
              LeaveGate, Goto
<1>10. CASE UNCHANGED vars
  BY <1>10 DEF vars
<1>11. QED
  BY <1>1, <1>2, <1>3, <1>4, <1>5, <1>6, <1>7, <1>8, <1>9, <1>10
  DEF Next, SchedulerStep, WorkerStep

\* Every reachable state of the pool is well-typed.
THEOREM TypeCorrect == Spec => []TypeOK
<1>1. TypeInv => TypeOK
  BY DEF TypeInv
<1>2. QED BY TypeInit, TypeStep, <1>1, PTL DEF Spec

\* The gate's mutex excludes, and a worker holding it with a false predicate
\* still sees a paused pool.
GateLocked ==
  /\ \A v, w \in Workers : pc[v] \in InGate /\ pc[w] \in InGate => v = w
  /\ \A w \in Workers : pc[w] = "deciding" => paused

\* How far stop() has come decides which queues are stopped, and a worker
\* tries the urgent queue for the last time only after both are.
StopOrder ==
  /\ urgentStopped <=> stopper \in {"stopInbound", "join", "done"}
  /\ inboundStopped <=> stopper \in {"join", "done"}
  /\ \A w \in Workers : pc[w] = "lastTry" => inboundStopped

-----------------------------------------------------------------------------
(* The gate.  Two facts carry the proof: a worker in "deciding" holds the  *)
(* mutex, so m_paused cannot be cleared under it; and whoever clears       *)
(* m_paused notifies afterwards, which empties "blocked".                  *)

\* The inductive invariant: types, mutual exclusion at the gate, no lost
\* resume, and the order in which stop() stops the queues.
GateInv ==
  /\ TypeInv
  /\ GateLocked
  /\ NoLostResume
  /\ StopOrder
  /\ ExitLeavesNoUrgent

USE DEF GateInv, GateLocked, NoLostResume, NotifyPending, StopOrder,
        ExitLeavesNoUrgent

\* No worker holds the mutex, sleeps, exits or waits at the start.
LEMMA GateInit == Init => GateInv
BY TypeInit DEF Init

\* Every step keeps the gate's invariant.
LEMMA GateStep == GateInv /\ [Next]_vars => GateInv'
<1> SUFFICES ASSUME GateInv, [Next]_vars PROVE GateInv'
  OBVIOUS
<1>0. TypeInv'
  BY TypeStep
<1> USE <1>0 DEF TypeInv, TypeOK, MutexFree, queues, callers
<1>1. ASSUME NEW j \in Jobs, Submit(j) PROVE GateInv'
  BY <1>1 DEF Submit
<1>2. ASSUME NEW j \in UrgentJobs, SubmitUrgent(j) PROVE GateInv'
  BY <1>2 DEF SubmitUrgent, Pushed
<1>3. ASSUME NEW b \in BOOLEAN, SetPaused(b) PROVE GateInv'
  BY <1>3 DEF SetPaused
<1>4. CASE SchedulerNotify
  BY <1>4 DEF SchedulerNotify, Woken
<1>5. CASE StopStep
  BY <1>5 DEF StopStep, StopUnpause, StopNotify, StopUrgent, StopInbound,
              StopJoin, Woken, StopperPc
<1>6. ASSUME NEW w \in Workers, TakeUrgent(w) PROVE GateInv'
  BY <1>6 DEF TakeUrgent, Holds, Goto, WorkerPc
<1>7. ASSUME NEW w \in Workers, PopInbound(w) PROVE GateInv'
  BY <1>7, SMTT(30) DEF PopInbound, Holds, Goto, WorkerPc
<1>8. ASSUME NEW w \in Workers, BetweenItems(w) \/ FinishItem(w) PROVE GateInv'
  BY <1>8 DEF BetweenItems, FinishItem, Deliver, Goto, WorkerPc
<1>9. ASSUME NEW w \in Workers,
             NoUrgent(w) \/ CheckPaused(w) \/ Block(w) \/ SpuriousWake(w)
               \/ LeaveGate(w)
      PROVE GateInv'
  <2>1. CASE CheckPaused(w) \/ Block(w) \/ SpuriousWake(w)
    BY <2>1, ZenonT(60) DEF CheckPaused, Block, SpuriousWake, Goto, WorkerPc
  <2>2. CASE NoUrgent(w)
    <3>1. pc[w] = "lastTry" => urgentStopped
      OBVIOUS
    <3>2. QED BY <2>2, <3>1 DEF NoUrgent, Goto, WorkerPc
  <2>3. CASE LeaveGate(w)
    <3>1. inboundStopped => urgentStopped
      OBVIOUS
    <3>2. QED BY <2>3, <3>1 DEF LeaveGate, Goto, WorkerPc
  <2>4. QED BY <1>9, <2>1, <2>2, <2>3
<1>10. ASSUME NEW w \in Workers, EvaluateGate(w) PROVE GateInv'
  BY <1>10 DEF EvaluateGate, MayLeaveGate, Goto, WorkerPc
<1>11. CASE UNCHANGED vars
  BY <1>11 DEF vars
<1>12. QED
  BY <1>1, <1>2, <1>3, <1>4, <1>5, <1>6, <1>7, <1>8, <1>9, <1>10, <1>11
  DEF Next, SchedulerStep, WorkerStep

\* A worker sleeps at the gate only in a paused pool or with its notification
\* on the way, whatever the number of workers and however calls interleave.
THEOREM NoResumeLost == Spec => []NoLostResume
BY GateInit, GateStep, PTL DEF Spec

\* A worker exits only when no urgent context is left, nor can come.
THEOREM ExitDrainsUrgent == Spec => []ExitLeavesNoUrgent
BY GateInit, GateStep, PTL DEF Spec

\* With two workers or more urgent work always finds one of them awake once
\* submitUrgent has notified.  One worker alone can be asleep.
THEOREM UrgentReachesAWorker ==
  ASSUME NEW v \in Workers, NEW w \in Workers, v # w
  PROVE  Spec => []UrgentNotStranded
<1> DEFINE Inv == GateInv /\ UrgentNotStranded
<1>1. Init => Inv
  BY GateInit DEF Init, UrgentNotStranded
<1>2. Inv /\ [Next]_vars => Inv'
  <2> SUFFICES ASSUME Inv, [Next]_vars PROVE UrgentNotStranded'
    BY GateStep
  <2> USE DEF TypeInv, TypeOK, MutexFree, UrgentNotStranded, queues, callers
  <2>1. (\E u \in Workers : pc[u] = "exited") => urgent = <<>>
    OBVIOUS
  <2>2. ASSUME NEW j \in Jobs, Submit(j) PROVE UrgentNotStranded'
    BY <2>2 DEF Submit
  <2>3. ASSUME NEW j \in UrgentJobs, SubmitUrgent(j) PROVE UrgentNotStranded'
    BY <2>3 DEF SubmitUrgent
  <2>4. ASSUME NEW b \in BOOLEAN, SetPaused(b) PROVE UrgentNotStranded'
    BY <2>4 DEF SetPaused
  <2>5. CASE SchedulerNotify
    <3>1. ~(pc[v] = "deciding" /\ pc[w] = "deciding")
      OBVIOUS
    <3>2. QED BY <2>1, <2>5, <3>1 DEF SchedulerNotify, Woken
  <2>6. CASE StopStep
    BY <2>6 DEF StopStep, StopUnpause, StopNotify, StopUrgent, StopInbound,
                StopJoin, Woken
  <2>7. ASSUME NEW u \in Workers, TakeUrgent(u) PROVE UrgentNotStranded'
    BY <2>7 DEF TakeUrgent, Holds, Goto
  <2>8. ASSUME NEW u \in Workers, PopInbound(u) PROVE UrgentNotStranded'
    BY <2>8 DEF PopInbound, Holds, Goto
  <2>9. ASSUME NEW u \in Workers, BetweenItems(u) \/ FinishItem(u)
        PROVE UrgentNotStranded'
    BY <2>9 DEF BetweenItems, FinishItem, Deliver, Goto
  <2>10. ASSUME NEW u \in Workers,
                NoUrgent(u) \/ CheckPaused(u) \/ LeaveGate(u)
         PROVE UrgentNotStranded'
    BY <2>10 DEF NoUrgent, CheckPaused, LeaveGate, Goto
  <2>11. ASSUME NEW u \in Workers,
                Block(u) \/ SpuriousWake(u) \/ EvaluateGate(u)
         PROVE UrgentNotStranded'
    BY <2>11 DEF Block, SpuriousWake, EvaluateGate, MayLeaveGate, Goto
  <2>12. CASE UNCHANGED vars
    BY <2>12 DEF vars
  <2>13. QED
    BY <2>2, <2>3, <2>4, <2>5, <2>6, <2>7, <2>8, <2>9, <2>10, <2>11, <2>12
    DEF Next, SchedulerStep, WorkerStep
<1>3. QED BY <1>1, <1>2, PTL DEF Spec
=============================================================================
