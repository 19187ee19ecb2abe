---------------------------- MODULE WorkerPool ----------------------------
(***************************************************************************)
(* The worker threads of app/src/WorkerPool.cpp and the pause gate they    *)
(* sleep at.  The scheduler thread calls submit, submitUrgent and          *)
(* setPaused; the thread that destroys the scheduler calls stop.           *)
(*                                                                         *)
(* A condition variable is the set of threads in pc "blocked".  A wait is  *)
(* three steps, as in the machine: evaluate the predicate under            *)
(* m_pauseMutex ("deciding" when it was false), block and release the      *)
(* mutex, be notified and take the mutex again.  Exactly the threads in    *)
(* "deciding" and "passed" hold m_pauseMutex.                              *)
(*                                                                         *)
(* A definition commented as "Fault" is a wrong version of the one after   *)
(* it.  No specification uses it: put in the right one's place it makes    *)
(* TLC find a property violated, which shows that the property can fail.   *)
(***************************************************************************)
EXTENDS Naturals, Sequences, FiniteSets

CONSTANTS
  Workers,       \* the threads of m_workers
  Jobs,          \* contexts handed over by submit
  UrgentJobs,    \* contexts handed over by submitUrgent
  Items,         \* ActionItems of each context
  MaxPauses      \* bound on the calls of setPaused(true)

ASSUME PoolAssumption ==
  /\ Workers # {}
  /\ Jobs \cap UrgentJobs = {}
  /\ Items \in Nat \ {0}
  /\ MaxPauses \in Nat

VARIABLES
  paused,           \* m_paused
  inbound,          \* m_inbound
  urgent,           \* m_urgent
  inboundStopped,   \* m_inbound.stopped()
  urgentStopped,    \* m_urgent.stopped()
  pc,               \* where each worker is in workerMain
  job,              \* the contexts a worker holds: none or one
  left,             \* ActionItems left in the context a worker holds
  scheduler,        \* "notify": between an update and its notify_all
  stopper,          \* progress of the thread inside stop()
  todo,             \* contexts the scheduler has not submitted yet
  pauses            \* calls of setPaused(true) so far

vars == <<paused, inbound, urgent, inboundStopped, urgentStopped,
          pc, job, left, scheduler, stopper, todo, pauses>>

queues == <<inbound, urgent, inboundStopped, urgentStopped>>
callers == <<scheduler, stopper, todo, pauses>>

InGate  == {"deciding", "passed"}
Asleep  == {"deciding", "blocked"}
WorkerPc == {"loop", "check", "gate", "deciding", "blocked", "passed",
             "pop", "lastTry", "run", "item", "exited"}
StopperPc == {"idle", "notify", "stopUrgent", "stopInbound", "join", "done"}

MutexFree == \A w \in Workers : pc[w] \notin InGate

Init ==
  /\ paused = FALSE
  /\ inbound = <<>> /\ urgent = <<>>
  /\ inboundStopped = FALSE /\ urgentStopped = FALSE
  /\ pc = [w \in Workers |-> "loop"]
  /\ job = [w \in Workers |-> {}]
  /\ left = [w \in Workers |-> 0]
  /\ scheduler = "idle" /\ stopper = "idle"
  /\ todo = Jobs \cup UrgentJobs
  /\ pauses = 0

-----------------------------------------------------------------------------
(* The scheduler thread.                                                   *)

\* A push to a stopped queue is dropped.
Pushed(queue, stopped, j) == IF stopped THEN queue ELSE Append(queue, j)

\* The scheduler holds runnable contexts back while it is paused.
Submit(j) ==
  /\ scheduler = "idle" /\ ~paused
  /\ j \in todo \cap Jobs
  /\ inbound' = Pushed(inbound, inboundStopped, j)
  /\ todo' = todo \ {j}
  /\ UNCHANGED <<paused, urgent, inboundStopped, urgentStopped, pc, job,
                 left, scheduler, stopper, pauses>>

\* Fault: the push is not followed by a notification.
SubmitUrgentSilently(j) ==
  /\ scheduler = "idle"
  /\ j \in todo \cap UrgentJobs
  /\ urgent' = Pushed(urgent, urgentStopped, j)
  /\ todo' = todo \ {j}
  /\ UNCHANGED <<paused, inbound, inboundStopped, urgentStopped, pc, job,
                 left, scheduler, stopper, pauses>>

\* The push takes only the queue's own mutex, never m_pauseMutex.
SubmitUrgent(j) ==
  /\ scheduler = "idle"
  /\ j \in todo \cap UrgentJobs
  /\ urgent' = Pushed(urgent, urgentStopped, j)
  /\ todo' = todo \ {j}
  /\ scheduler' = "notify"
  /\ UNCHANGED <<paused, inbound, inboundStopped, urgentStopped, pc, job,
                 left, stopper, pauses>>

\* Fault: m_paused is stored without m_pauseMutex.
SetPausedUnlocked(b) ==
  /\ scheduler = "idle"
  /\ paused # b
  /\ b => pauses < MaxPauses
  /\ paused' = b
  /\ pauses' = IF b THEN pauses + 1 ELSE pauses
  /\ scheduler' = "notify"
  /\ UNCHANGED <<queues, pc, job, left, stopper, todo>>

SetPaused(b) ==
  /\ scheduler = "idle"
  /\ paused # b
  /\ MutexFree
  /\ b => pauses < MaxPauses
  /\ paused' = b
  /\ pauses' = IF b THEN pauses + 1 ELSE pauses
  /\ scheduler' = "notify"
  /\ UNCHANGED <<queues, pc, job, left, stopper, todo>>

\* notify_all moves every blocked worker back to the mutex.
Woken == [w \in Workers |-> IF pc[w] = "blocked" THEN "gate" ELSE pc[w]]

SchedulerNotify ==
  /\ scheduler = "notify"
  /\ scheduler' = "idle"
  /\ pc' = Woken
  /\ UNCHANGED <<paused, queues, job, left, stopper, todo, pauses>>

-----------------------------------------------------------------------------
(* The thread inside stop().                                               *)

StopUnpause ==
  /\ stopper = "idle"
  /\ MutexFree
  /\ paused' = FALSE
  /\ stopper' = "notify"
  /\ UNCHANGED <<queues, pc, job, left, scheduler, todo, pauses>>

\* Fault: stop() wakes nobody.
StopSilently ==
  /\ stopper = "notify"
  /\ stopper' = "stopUrgent"
  /\ UNCHANGED <<paused, queues, pc, job, left, scheduler, todo, pauses>>

StopNotify ==
  /\ stopper = "notify"
  /\ pc' = Woken
  /\ stopper' = "stopUrgent"
  /\ UNCHANGED <<paused, queues, job, left, scheduler, todo, pauses>>

StopUrgent ==
  /\ stopper = "stopUrgent"
  /\ urgentStopped' = TRUE
  /\ stopper' = "stopInbound"
  /\ UNCHANGED <<paused, inbound, urgent, inboundStopped, pc, job, left,
                 scheduler, todo, pauses>>

\* Wakes the waiters of m_inbound, not those of m_pauseCv.
StopInbound ==
  /\ stopper = "stopInbound"
  /\ inboundStopped' = TRUE
  /\ stopper' = "join"
  /\ UNCHANGED <<paused, inbound, urgent, urgentStopped, pc, job, left,
                 scheduler, todo, pauses>>

StopJoin ==
  /\ stopper = "join"
  /\ \A w \in Workers : pc[w] = "exited"
  /\ stopper' = "done"
  /\ UNCHANGED <<paused, queues, pc, job, left, scheduler, todo, pauses>>

-----------------------------------------------------------------------------
(* The worker threads.                                                     *)

Goto(w, to) == pc' = [pc EXCEPT ![w] = to]

Holds(w, j) ==
  /\ job' = [job EXCEPT ![w] = {j}]
  /\ left' = [left EXCEPT ![w] = Items]
  /\ Goto(w, "run")

\* m_urgent.tryPop, at the head of the loop and once more before exiting.
TakeUrgent(w) ==
  /\ pc[w] \in {"loop", "lastTry"}
  /\ urgent # <<>>
  /\ Holds(w, Head(urgent))
  /\ urgent' = Tail(urgent)
  /\ UNCHANGED <<paused, inbound, inboundStopped, urgentStopped, callers>>

NoUrgent(w) ==
  /\ urgent = <<>>
  /\ \/ pc[w] = "loop" /\ Goto(w, "check")
     \/ pc[w] = "lastTry" /\ Goto(w, "exited")
  /\ UNCHANGED <<paused, queues, job, left, callers>>

CheckPaused(w) ==
  /\ pc[w] = "check"
  /\ Goto(w, IF paused THEN "gate" ELSE "pop")
  /\ UNCHANGED <<paused, queues, job, left, callers>>

\* Fault: urgent work does not open the gate.
MayLeaveGateUnlessPaused == ~paused \/ inboundStopped

\* The predicate of m_pauseCv.wait, evaluated with m_pauseMutex held.
MayLeaveGate == ~paused \/ urgent # <<>> \/ inboundStopped

EvaluateGate(w) ==
  /\ pc[w] = "gate"
  /\ MutexFree
  /\ Goto(w, IF MayLeaveGate THEN "passed" ELSE "deciding")
  /\ UNCHANGED <<paused, queues, job, left, callers>>

Block(w) ==
  /\ pc[w] = "deciding"
  /\ Goto(w, "blocked")
  /\ UNCHANGED <<paused, queues, job, left, callers>>

\* A condition variable may also wake without a notification.
SpuriousWake(w) ==
  /\ pc[w] = "blocked"
  /\ Goto(w, "gate")
  /\ UNCHANGED <<paused, queues, job, left, callers>>

\* Fault: a worker that sees the inbound queue stopped exits at once.
LeaveGateInHaste(w) ==
  /\ pc[w] = "passed"
  /\ Goto(w, IF inboundStopped THEN "exited" ELSE "loop")
  /\ UNCHANGED <<paused, queues, job, left, callers>>

LeaveGate(w) ==
  /\ pc[w] = "passed"
  /\ Goto(w, IF inboundStopped /\ urgent = <<>> THEN "exited" ELSE "loop")
  /\ UNCHANGED <<paused, queues, job, left, callers>>

\* Fault: nothing within 25 ms is taken for a stopped queue.
PopInboundOnce(w) ==
  /\ pc[w] = "pop"
  /\ \/ /\ inbound # <<>>
        /\ Holds(w, Head(inbound))
        /\ inbound' = Tail(inbound)
     \/ /\ inbound = <<>>
        /\ Goto(w, "lastTry")
        /\ UNCHANGED <<inbound, job, left>>
  /\ UNCHANGED <<paused, urgent, inboundStopped, urgentStopped, callers>>

\* popWaitUntil: an item, else stopped, else the 25 ms are over.
PopInbound(w) ==
  /\ pc[w] = "pop"
  /\ \/ /\ inbound # <<>>
        /\ Holds(w, Head(inbound))
        /\ inbound' = Tail(inbound)
     \/ /\ inbound = <<>>
        /\ Goto(w, IF inboundStopped THEN "lastTry" ELSE "loop")
        /\ UNCHANGED <<inbound, job, left>>
  /\ UNCHANGED <<paused, urgent, inboundStopped, urgentStopped, callers>>

UrgentJob(w) == job[w] \subseteq UrgentJobs

\* The result goes to the mailbox; the worker is at the head of its loop.
Deliver(w) ==
  /\ Goto(w, "loop")
  /\ job' = [job EXCEPT ![w] = {}]
  /\ left' = [left EXCEPT ![w] = 0]

BetweenItems(w) ==
  /\ pc[w] = "run"
  /\ \/ left[w] = 0 /\ Deliver(w)
     \/ left[w] > 0 /\ paused /\ ~UrgentJob(w) /\ Deliver(w)
     \/ /\ left[w] > 0
        /\ ~paused \/ UrgentJob(w)
        /\ Goto(w, "item")
        /\ UNCHANGED <<job, left>>
  /\ UNCHANGED <<paused, queues, callers>>

\* An item that delays or leaves requests for the scheduler ends the turn.
FinishItem(w) ==
  /\ pc[w] = "item"
  /\ \/ Goto(w, "run") /\ left' = [left EXCEPT ![w] = @ - 1] /\ UNCHANGED job
     \/ Deliver(w)
  /\ UNCHANGED <<paused, queues, callers>>

-----------------------------------------------------------------------------
SchedulerStep ==
  \/ \E j \in Jobs : Submit(j)
  \/ \E j \in UrgentJobs : SubmitUrgent(j)
  \/ \E b \in BOOLEAN : SetPaused(b)
  \/ SchedulerNotify

StopStep == StopUnpause \/ StopNotify \/ StopUrgent \/ StopInbound \/ StopJoin

WorkerStep(w) ==
  \/ TakeUrgent(w) \/ NoUrgent(w) \/ CheckPaused(w)
  \/ EvaluateGate(w) \/ Block(w) \/ LeaveGate(w)
  \/ PopInbound(w) \/ BetweenItems(w) \/ FinishItem(w)

Next ==
  \/ SchedulerStep
  \/ StopStep
  \/ \E w \in Workers : WorkerStep(w) \/ SpuriousWake(w)

Spec == Init /\ [][Next]_vars

(* Every thread that can run does run, and a call that was begun is        *)
(* finished.  Locking m_pauseMutex is strongly fair: a worker that keeps   *)
(* finding it free gets it.  Nothing obliges the scheduler to pause, to    *)
(* resume or to submit, nor anyone to call stop, nor a condition variable  *)
(* to wake spuriously.                                                     *)
Fairness ==
  /\ \A w \in Workers : /\ WF_vars(WorkerStep(w))
                        /\ SF_vars(EvaluateGate(w))
  /\ WF_vars(SchedulerNotify)
  /\ WF_vars(StopNotify) /\ WF_vars(StopUrgent)
  /\ WF_vars(StopInbound) /\ WF_vars(StopJoin)

FairSpec == Spec /\ Fairness

-----------------------------------------------------------------------------
(* Properties.                                                             *)

\* The values the pool's fields and its threads' positions range over.
TypeOK ==
  /\ paused \in BOOLEAN /\ inboundStopped \in BOOLEAN /\ urgentStopped \in BOOLEAN
  /\ inbound \in Seq(Jobs) /\ urgent \in Seq(UrgentJobs)
  /\ pc \in [Workers -> WorkerPc]
  /\ job \in [Workers -> SUBSET (Jobs \cup UrgentJobs)]
  /\ left \in [Workers -> 0 .. Items]
  /\ scheduler \in {"idle", "notify"}
  /\ stopper \in StopperPc
  /\ todo \subseteq Jobs \cup UrgentJobs
  /\ pauses \in 0 .. MaxPauses

NotifyPending == scheduler = "notify" \/ stopper = "notify"

\* No wakeup of resume is lost: a worker that sleeps at the gate, or has
\* decided to, does so in a paused pool or is about to be notified
\* (setPaused stores m_paused under m_pauseMutex and notifies afterwards).
NoLostResume ==
  \A w \in Workers : pc[w] \in Asleep => paused \/ NotifyPending

\* submitUrgent notifies without m_pauseMutex, so it can miss a worker that
\* has evaluated the predicate and not yet blocked.  With two workers at most
\* one can be missed: urgent work never finds every worker asleep.
UrgentNotStranded ==
  urgent # <<>> /\ scheduler # "notify"
    => \E w \in Workers : pc[w] \notin Asleep \cup {"exited"}

\* A worker leaves its loop only for good: no urgent context is left behind
\* in the queue by a worker that has exited.
ExitLeavesNoUrgent ==
  (\E w \in Workers : pc[w] = "exited") => urgent = <<>> /\ urgentStopped

\* Cancel-flush work is executed whether or not the pool is paused, and even
\* while it stops.
UrgentServed ==
  \A j \in UrgentJobs :
    (\E i \in DOMAIN urgent : urgent[i] = j)
      ~> (\A i \in DOMAIN urgent : urgent[i] # j)

\* "Cancel-flush bypasses pause so hardware cleanup can still run"
\* (Scheduler.hpp:69), said of a pool that nobody stops.
\* The code does not keep this; the README says how it fails.
CancelFlushBypassesPause ==
  \A j \in UrgentJobs :
    (\E i \in DOMAIN urgent : urgent[i] = j)
      ~> (stopper # "idle" \/ \A i \in DOMAIN urgent : urgent[i] # j)

\* What is in the inbound queue is taken once the pool stays unpaused: the
\* gate opens for every worker it held.  Not so once stop() was called: a
\* worker woken at the gate exits and leaves the inbound queue undrained.
ResumeServesInbound ==
  <>[](~paused /\ stopper = "idle") => []<>(inbound = <<>>)

\* stop() ends, unless a pause request overtakes it.
StopJoinsUnlessPaused ==
  (stopper = "notify") ~> (stopper = "done" \/ paused)

\* stop() "stops the pool and joins all workers" (WorkerPool.hpp:76).
\* The code does not keep this; the README says how it fails.
StopJoins == (stopper = "notify") ~> (stopper = "done")

=============================================================================
