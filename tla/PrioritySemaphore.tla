-------------------------- MODULE PrioritySemaphore --------------------------
(***************************************************************************)
(* PrioritySemaphore, the cap on concurrent agent runs and on the subtasks *)
(* of one epic (backend/app/pipeline/concurrency.py).  Everything runs on  *)
(* one event loop, so the code between two awaits is one step.  acquire()  *)
(* awaits once, on the future of its heap entry, and two things happen to  *)
(* that future before the waiting coroutine runs again: wake_up_next()     *)
(* sets its result, and the timeout of agent_run_slot() or subtask_slot(), *)
(* or the cancellation of the caller, cancels it.  When both happen in     *)
(* that window the caller unwinds although it was given a permit.          *)
(***************************************************************************)
EXTENDS Integers, FiniteSets

CONSTANTS
  Tasks,       \* the coroutines that ask for a slot
  Priority,    \* DevTask.priority of the task each of them works on
  Capacity     \* the cap the semaphore was created with

ASSUME TasksAssumption == IsFiniteSet(Tasks)
ASSUME CapacityAssumption == Capacity \in Nat
ASSUME PriorityAssumption == Priority \in [Tasks -> STRING]

VARIABLES
  value,   \* _value: the free permits
  state,   \* where each caller is: see TypeOK
  heap,    \* the callers whose entry is in _waiters
  ahead    \* ahead[t]: the entries in the heap with a smaller _seq than t's

vars == <<value, state, heap, ahead>>

Init ==
  /\ value = Capacity
  /\ state = [t \in Tasks |-> "idle"]
  /\ heap = {}
  /\ ahead = [t \in Tasks |-> {}]

-----------------------------------------------------------------------------

(* _PRIORITY_RANK: what is not one of the three names counts as medium. *)
Rank(t) == CASE Priority[t] = "high" -> 0
             [] Priority[t] = "low"  -> 2
             [] OTHER -> 1

(* Slip: the heap ordered by arrival alone. *)
BeforeByArrival(a, b) == a \in ahead[b]

(* The order of the heap: (rank, sequence number). *)
Before(a, b) ==
  \/ Rank(a) < Rank(b)
  \/ Rank(a) = Rank(b) /\ a \in ahead[b]

(* The entries whose future is not done. *)
Pending(st, h) == {w \in h : st[w] = "waiting"}

(* Slip: locked() without its test of the free permits. *)
LockedByWaiters == Pending(state, heap) # {}

Locked == value = 0 \/ Pending(state, heap) # {}

SetHeap(h) ==
  /\ heap' = h
  /\ ahead' = [t \in Tasks |-> IF t \in h THEN ahead[t] \intersect h ELSE {}]

(* Grant(b, v, st, h): set_result() on the future of b, first in the order *)
(* among those not done.  What came before b in the heap has been popped.  *)
Grant(b, v, st, h) ==
  /\ \A o \in Pending(st, h) \ {b} : Before(b, o)
  /\ value' = v - 1
  /\ state' = [st EXCEPT ![b] = "granted"]
  /\ SetHeap({w \in h : Before(b, w)})

(* Slip: _wake_up_next() that pops one entry, done or not, and returns. *)
WakeTopOnly(v, st, h) ==
  \/ /\ h = {}
     /\ value' = v /\ state' = st
     /\ UNCHANGED <<heap, ahead>>
  \/ \E top \in h :
       /\ \A o \in h \ {top} : Before(top, o)
       /\ IF st[top] = "waiting"
            THEN Grant(top, v, st, h)
            ELSE value' = v /\ state' = st /\ SetHeap(h \ {top})

(* _wake_up_next(), from the given values of the permits, the futures and  *)
(* the heap.  With nobody left to wake, every entry has been popped.       *)
WakeUpNext(v, st, h) ==
  \/ /\ Pending(st, h) = {}
     /\ value' = v
     /\ state' = st
     /\ SetHeap({})
  \/ \E b \in Pending(st, h) : Grant(b, v, st, h)

-----------------------------------------------------------------------------

(* acquire() that need not wait. *)
AcquireFree(t) ==
  /\ state[t] = "idle"
  /\ ~Locked
  /\ value' = value - 1
  /\ state' = [state EXCEPT ![t] = "holding"]
  /\ UNCHANGED <<heap, ahead>>

(* acquire() up to its await: a new entry, the latest in the heap. *)
AcquireWait(t) ==
  /\ state[t] = "idle"
  /\ Locked
  /\ state' = [state EXCEPT ![t] = "waiting"]
  /\ heap' = heap \union {t}
  /\ ahead' = [ahead EXCEPT ![t] = heap]
  /\ UNCHANGED value

(* The slot's timeout, or a cancellation of the caller, reaches the await. *)
(* A future that already has its result stays as it is, and the coroutine  *)
(* is resumed with CancelledError all the same.                            *)
Cancel(t) ==
  /\ state[t] \in {"waiting", "granted"}
  /\ state' = [state EXCEPT ![t] =
                 IF state[t] = "waiting" THEN "cancelling" ELSE "revoked"]
  /\ UNCHANGED <<value, heap, ahead>>

(* acquire() resumes with its permit, and passes on any that is free. *)
RunGranted(t) ==
  /\ state[t] = "granted"
  /\ LET st == [state EXCEPT ![t] = "holding"]
     IN IF value > 0
          THEN WakeUpNext(value, st, heap)
          ELSE state' = st /\ UNCHANGED <<value, heap, ahead>>

(* acquire() resumes cancelled before it was granted: only its entry goes. *)
RunCancelled(t) ==
  /\ state[t] = "cancelling"
  /\ state' = [state EXCEPT ![t] = "idle"]
  /\ SetHeap(heap \ {t})
  /\ UNCHANGED value

(* acquire() resumes cancelled although granted: the permit is passed on. *)
RunRevoked(t) ==
  /\ state[t] = "revoked"
  /\ WakeUpNext(value + 1, [state EXCEPT ![t] = "idle"], heap)

(* Slip: release() that wakes nobody. *)
ReleaseSilently(t) ==
  /\ state[t] = "holding"
  /\ value' = value + 1
  /\ state' = [state EXCEPT ![t] = "idle"]
  /\ UNCHANGED <<heap, ahead>>

(* The end of the slot's body, however it ends: release(). *)
Release(t) ==
  /\ state[t] = "holding"
  /\ WakeUpNext(value + 1, [state EXCEPT ![t] = "idle"], heap)

Run(t) == RunGranted(t) \/ RunCancelled(t) \/ RunRevoked(t)

Next ==
  \E t \in Tasks :
    \/ AcquireFree(t) \/ AcquireWait(t) \/ Cancel(t)
    \/ RunGranted(t) \/ RunCancelled(t) \/ RunRevoked(t)
    \/ Release(t)

Spec == Init /\ [][Next]_vars

(***************************************************************************)
(* The event loop runs every ready coroutine, and the body of a slot ends: *)
(* an agent run is bounded by max_run_time_seconds.  Nobody has to ask for *)
(* a slot, and no wait has to time out.                                    *)
(***************************************************************************)
Fairness == \A t \in Tasks : WF_vars(Run(t)) /\ WF_vars(Release(t))

FairSpec == Spec /\ Fairness

-----------------------------------------------------------------------------

(***************************************************************************)
(* idle: does not want a slot; waiting: its future is not done;            *)
(* cancelling: its future was cancelled and it has not run since; granted: *)
(* its future has its result and it has not run since; revoked: cancelled  *)
(* in that window; holding: between acquire() and release().               *)
(***************************************************************************)
TypeOK ==
  /\ value \in 0..Capacity
  /\ state \in [Tasks -> {"idle", "waiting", "cancelling", "granted",
                          "revoked", "holding"}]
  /\ heap \subseteq Tasks
  /\ ahead \in [Tasks -> SUBSET Tasks]

(* The callers a permit has been taken for. *)
Charged == {t \in Tasks : state[t] \in {"holding", "granted", "revoked"}}

(***************************************************************************)
(* No permit is lost or made up, whatever is cancelled and when: the free  *)
(* ones and those taken for a caller are always Capacity together.  A lost *)
(* one lowers the cap for the rest of the process.                         *)
(***************************************************************************)
PermitConservation == value + Cardinality(Charged) = Capacity

(***************************************************************************)
(* No lost wake-up: a permit is never free while a caller that could take  *)
(* it is asleep in acquire().  Nothing but a release would wake it, and    *)
(* there may be none to come.                                              *)
(***************************************************************************)
NoIdlePermit == value > 0 => \A t \in Tasks : state[t] # "waiting"

(* Which of two sleepers the documentation serves first.                   *)
ServeFirst(a, b) ==
  \/ Rank(a) < Rank(b)
  \/ Rank(a) = Rank(b) /\ a \in ahead[b]

(***************************************************************************)
(* "highest DevTask.priority first, then real FIFO (arrival order) among   *)
(* equal-priority waiters", and nobody jumps the queue: who is given a     *)
(* permit was waiting, ahead of every other caller still waiting, or came  *)
(* when nobody waited.                                                     *)
(***************************************************************************)
ServedInOrder ==
  [][\A t, o \in Tasks :
       (t \in Charged' \ Charged /\ o # t /\ state[o] = "waiting")
         => state[t] = "waiting" /\ ServeFirst(t, o)]_vars

(***************************************************************************)
(* A caller of the highest priority does not wait for ever, whoever else   *)
(* arrives or is cancelled in the meantime.                                *)
(***************************************************************************)
HighServed ==
  \A t \in Tasks : Rank(t) = 0 => (state[t] = "waiting" ~> state[t] # "waiting")

(* What the cap promises, of the callers between acquire() and release(). *)
Inside == {t \in Tasks : state[t] = "holding"}

Gate == INSTANCE BoundedGate WITH inside <- Inside

(* Never more callers inside than the cap, and they pass one at a time. *)
IsBoundedGate == Gate!Spec
=============================================================================
