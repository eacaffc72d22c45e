---------------------- MODULE PrioritySemaphore_proofs ----------------------
(* TLAPS proofs about PrioritySemaphore, for every finite set of callers,  *)
(* every priority they may have and every cap.                             *)
EXTENDS PrioritySemaphore, FiniteSetTheorems, TLAPS

USE TasksAssumption, CapacityAssumption

States == {"idle", "waiting", "cancelling", "granted", "revoked", "holding"}

ChargedIn(st) == {t \in Tasks : st[t] \in {"holding", "granted", "revoked"}}

(***************************************************************************)
(* The inductive invariant.  Every sleeping caller has its entry in the    *)
(* heap: that is what makes an empty _waiters mean that nobody sleeps, so  *)
(* that wake_up_next() cannot leave a permit and a sleeper behind.         *)
(***************************************************************************)
SleepersQueued == \A t \in Tasks : state[t] = "waiting" => t \in heap

SemInv == TypeOK /\ SleepersQueued /\ PermitConservation /\ NoIdlePermit

LEMMA ChargedFinite ==
  ASSUME NEW st
  PROVE  /\ IsFiniteSet(ChargedIn(st))
         /\ Cardinality(ChargedIn(st)) \in Nat
<1>1. ChargedIn(st) \in SUBSET Tasks
  BY DEF ChargedIn
<1>2. IsFiniteSet(ChargedIn(st))
  BY <1>1, FS_Subset
<1> QED
  BY <1>2, FS_CardinalityType

(* What a caller that becomes, or ceases to be, charged does to the count. *)
LEMMA ChargeOne ==
  ASSUME NEW st \in [Tasks -> States], NEW t \in Tasks,
         t \notin ChargedIn(st),
         NEW s \in {"holding", "granted", "revoked"}
  PROVE  Cardinality(ChargedIn([st EXCEPT ![t] = s]))
           = Cardinality(ChargedIn(st)) + 1
<1>1. ChargedIn([st EXCEPT ![t] = s]) = ChargedIn(st) \union {t}
  BY DEF ChargedIn
<1> QED
  BY <1>1, ChargedFinite, FS_AddElement

LEMMA DischargeOne ==
  ASSUME NEW st \in [Tasks -> States], NEW t \in Tasks,
         t \in ChargedIn(st),
         NEW s \in {"idle", "waiting", "cancelling"}
  PROVE  Cardinality(ChargedIn([st EXCEPT ![t] = s]))
           = Cardinality(ChargedIn(st)) - 1
<1>1. ChargedIn([st EXCEPT ![t] = s]) = ChargedIn(st) \ {t}
  BY DEF ChargedIn
<1> QED
  BY <1>1, ChargedFinite, FS_RemoveElement

LEMMA ChargeSame ==
  ASSUME NEW st \in [Tasks -> States], NEW t \in Tasks, NEW s \in States,
         t \in ChargedIn(st) <=> s \in {"holding", "granted", "revoked"}
  PROVE  ChargedIn([st EXCEPT ![t] = s]) = ChargedIn(st)
  BY DEF ChargedIn

(* wake_up_next() restores the invariant from where its callers leave off: *)
(* a permit just put back, or one seen to be free with nobody asleep.      *)
LEMMA WakePreserves ==
  ASSUME NEW v \in 1..Capacity, NEW st \in [Tasks -> States],
         NEW h \in SUBSET Tasks, ahead \in [Tasks -> SUBSET Tasks],
         \A t \in Tasks : st[t] = "waiting" => t \in h /\ v = 1,
         v + Cardinality(ChargedIn(st)) = Capacity,
         WakeUpNext(v, st, h)
  PROVE  SemInv'
<1> USE DEF SemInv, TypeOK, SleepersQueued, PermitConservation, NoIdlePermit
<1>1. CASE Pending(st, h) = {} /\ value' = v /\ state' = st /\ SetHeap({})
  <2>1. \A t \in Tasks : st[t] # "waiting"
    BY <1>1 DEF Pending
  <2>2. Charged' = ChargedIn(st)
    BY <1>1 DEF Charged, ChargedIn
  <2>3. heap' \subseteq Tasks /\ ahead' \in [Tasks -> SUBSET Tasks]
    BY <1>1 DEF SetHeap
  <2> QED
    BY <1>1, <2>1, <2>2, <2>3 DEF States
<1>2. ASSUME NEW b \in Pending(st, h), Grant(b, v, st, h)
      PROVE  SemInv'
  <2>1. b \in Tasks /\ st[b] = "waiting" /\ v = 1
    BY <1>2 DEF Pending
  <2>2. value' = 0 /\ state' = [st EXCEPT ![b] = "granted"]
    BY <1>2, <2>1 DEF Grant
  <2>3. /\ heap' = {w \in h : Before(b, w)}
        /\ ahead' \in [Tasks -> SUBSET Tasks]
    BY <1>2 DEF Grant, SetHeap
  <2>4. Charged' = ChargedIn([st EXCEPT ![b] = "granted"])
    BY <2>2 DEF Charged, ChargedIn
  <2>5. b \notin ChargedIn(st)
    BY <2>1 DEF ChargedIn
  <2>6. value' + Cardinality(Charged') = Capacity
    <3>1. Cardinality(Charged') = Cardinality(ChargedIn(st)) + 1
      BY <2>1, <2>4, <2>5, ChargeOne
    <3>2. Cardinality(ChargedIn(st)) \in Nat
      BY ChargedFinite
    <3> QED
      BY <2>1, <2>2, <3>1, <3>2
  <2>7. ASSUME NEW t \in Tasks, state'[t] = "waiting" PROVE t \in heap'
    <3>1. t # b /\ st[t] = "waiting" /\ t \in h
      BY <2>1, <2>2, <2>7
    <3>2. Before(b, t)
      BY <1>2, <3>1 DEF Grant, Pending
    <3> QED
      BY <2>3, <3>1, <3>2
  <2>8. TypeOK'
    <3>1. heap' \subseteq Tasks
      BY <2>3
    <3>2. state' \in [Tasks -> States]
      BY <2>1, <2>2 DEF States
    <3> QED
      BY <2>2, <2>3, <3>1, <3>2 DEF States
  <2>9. NoIdlePermit'
    BY <2>2
  <2> QED
    BY <2>6, <2>7, <2>8, <2>9
<1> QED
  BY <1>1, <1>2 DEF WakeUpNext

LEMMA SemInvInit == Init => SemInv
<1> SUFFICES ASSUME Init PROVE SemInv
  OBVIOUS
<1>1. Charged = {}
  BY DEF Init, Charged
<1>2. Cardinality(Charged) = 0
  BY <1>1, FS_EmptySet
<1> QED
  BY <1>2 DEF Init, SemInv, TypeOK, SleepersQueued, PermitConservation,
              NoIdlePermit

(* A caller that gives its permit back, whether it used it or not. *)
LEMMA PutBack ==
  ASSUME SemInv, NEW t \in Tasks, state[t] \in {"holding", "revoked"},
         WakeUpNext(value + 1, [state EXCEPT ![t] = "idle"], heap)
  PROVE  SemInv'
<1> DEFINE st == [state EXCEPT ![t] = "idle"]
<1> USE DEF SemInv, TypeOK
<1>1. state \in [Tasks -> States] /\ st \in [Tasks -> States]
  BY DEF States
<1>2. Charged = ChargedIn(state) /\ t \in ChargedIn(state)
  BY DEF Charged, ChargedIn
<1>3. Cardinality(ChargedIn(st)) = Cardinality(Charged) - 1
  BY <1>1, <1>2, DischargeOne
<1>4. Cardinality(ChargedIn(st)) \in Nat /\ Cardinality(Charged) \in Nat
  BY <1>2, ChargedFinite
<1>5. /\ value + 1 \in 1..Capacity
      /\ value + 1 + Cardinality(ChargedIn(st)) = Capacity
  BY <1>3, <1>4 DEF PermitConservation
<1>6. \A o \in Tasks : st[o] = "waiting" => o \in heap /\ value + 1 = 1
  BY DEF SleepersQueued, NoIdlePermit
<1> QED
  BY <1>1, <1>5, <1>6, WakePreserves

LEMMA SemInvNext == SemInv /\ [Next]_vars => SemInv'
<1> SUFFICES ASSUME SemInv, [Next]_vars PROVE SemInv'
  OBVIOUS
<1>a. state \in [Tasks -> States]
  BY DEF SemInv, TypeOK, States
<1>b. Charged = ChargedIn(state) /\ Cardinality(Charged) \in Nat
  BY ChargedFinite DEF Charged, ChargedIn
<1>1. ASSUME NEW t \in Tasks, AcquireFree(t) PROVE SemInv'
  <2>1. Charged' = ChargedIn([state EXCEPT ![t] = "holding"])
    BY <1>1 DEF AcquireFree, Charged, ChargedIn
  <2>2. Cardinality(Charged') = Cardinality(Charged) + 1
    BY <1>1, <1>a, <1>b, <2>1, ChargeOne DEF AcquireFree, ChargedIn
  <2>3. \A o \in Tasks : state[o] # "waiting"
    BY <1>1 DEF AcquireFree, Locked, Pending, SemInv, SleepersQueued
  <2> QED
    BY <1>1, <1>b, <2>2, <2>3
    DEF AcquireFree, Locked, SemInv, TypeOK, SleepersQueued,
        PermitConservation, NoIdlePermit
<1>2. ASSUME NEW t \in Tasks, AcquireWait(t) PROVE SemInv'
  <2>1. Charged' = ChargedIn([state EXCEPT ![t] = "waiting"])
    BY <1>2 DEF AcquireWait, Charged, ChargedIn
  <2>2. Charged' = Charged
    BY <1>2, <1>a, <1>b, <2>1, ChargeSame DEF AcquireWait, ChargedIn, States
  <2>3. value = 0
    BY <1>2 DEF AcquireWait, Locked, Pending, SemInv, TypeOK, NoIdlePermit
  <2> QED
    BY <1>2, <2>2, <2>3
    DEF AcquireWait, SemInv, TypeOK, SleepersQueued, PermitConservation,
        NoIdlePermit
<1>3. ASSUME NEW t \in Tasks, Cancel(t) PROVE SemInv'
  <2>1. Charged' = Charged
    BY <1>3 DEF Cancel, Charged, SemInv, TypeOK
  <2> QED
    BY <1>3, <2>1
    DEF Cancel, SemInv, TypeOK, SleepersQueued, PermitConservation,
        NoIdlePermit
<1>4. ASSUME NEW t \in Tasks, RunGranted(t) PROVE SemInv'
  <2> DEFINE st == [state EXCEPT ![t] = "holding"]
  <2>1. st \in [Tasks -> States] /\ ChargedIn(st) = Charged
    BY <1>4, <1>a, <1>b, ChargeSame DEF RunGranted, ChargedIn, States
  <2>2. CASE value > 0
    <3>1. \A o \in Tasks : st[o] # "waiting"
      BY <2>2, <1>a DEF SemInv, NoIdlePermit
    <3>2. WakeUpNext(value, st, heap)
      BY <1>4, <2>2 DEF RunGranted
    <3>3. value + Cardinality(ChargedIn(st)) = Capacity
      BY <2>1 DEF SemInv, PermitConservation
    <3>4. value \in 1..Capacity /\ heap \in SUBSET Tasks
      BY <2>2 DEF SemInv, TypeOK
    <3>5. ahead \in [Tasks -> SUBSET Tasks]
      BY DEF SemInv, TypeOK
    <3> HIDE DEF st
    <3> QED
      BY <2>1, <3>1, <3>2, <3>3, <3>4, <3>5, WakePreserves
  <2>3. CASE ~(value > 0)
    <3>1. state' = st /\ UNCHANGED <<value, heap, ahead>>
      BY <1>4, <2>3 DEF RunGranted
    <3>2. Charged' = Charged
      BY <2>1, <3>1 DEF Charged, ChargedIn
    <3> QED
      BY <2>3, <3>1, <3>2
      DEF SemInv, TypeOK, SleepersQueued, PermitConservation, NoIdlePermit
  <2> QED
    BY <2>2, <2>3
<1>5. ASSUME NEW t \in Tasks, RunCancelled(t) PROVE SemInv'
  <2>1. Charged' = Charged
    BY <1>5 DEF RunCancelled, Charged, SemInv, TypeOK
  <2>2. /\ heap' = heap \ {t}
        /\ ahead' \in [Tasks -> SUBSET Tasks]
    BY <1>5 DEF RunCancelled, SetHeap, SemInv, TypeOK
  <2> QED
    BY <1>5, <2>1, <2>2
    DEF RunCancelled, SemInv, TypeOK, SleepersQueued, PermitConservation,
        NoIdlePermit
<1>6. ASSUME NEW t \in Tasks, RunRevoked(t) PROVE SemInv'
  BY <1>6, PutBack DEF RunRevoked
<1>7. ASSUME NEW t \in Tasks, Release(t) PROVE SemInv'
  BY <1>7, PutBack DEF Release
<1>8. CASE UNCHANGED vars
  BY <1>8
  DEF vars, SemInv, TypeOK, SleepersQueued, PermitConservation, NoIdlePermit,
      Charged
<1> QED
  BY <1>1, <1>2, <1>3, <1>4, <1>5, <1>6, <1>7, <1>8 DEF Next

LEMMA Invariance == Spec => []SemInv
<1> QED
  BY SemInvInit, SemInvNext, PTL DEF Spec

(* Every variable keeps its range; value never leaves 0..Capacity. *)
THEOREM TypeCorrect == Spec => []TypeOK
<1>1. SemInv => TypeOK
  BY DEF SemInv
<1> QED
  BY <1>1, Invariance, PTL

(* No cancellation, however it interleaves with a grant, loses a permit of *)
(* PrioritySemaphore or makes one up.                                      *)
THEOREM PermitsConserved == Spec => []PermitConservation
<1>1. SemInv => PermitConservation
  BY DEF SemInv
<1> QED
  BY <1>1, Invariance, PTL

(* No caller sleeps in acquire() while a permit is free. *)
THEOREM NoLostWakeUp == Spec => []NoIdlePermit
<1>1. SemInv => NoIdlePermit
  BY DEF SemInv
<1> QED
  BY <1>1, Invariance, PTL

-----------------------------------------------------------------------------
(* What wake_up_next() does to the callers, from the point of view of the  *)
(* gate: who is inside does not change.                                    *)
LEMMA WakeInside ==
  ASSUME NEW v, NEW st \in [Tasks -> States], NEW h \in SUBSET Tasks,
         WakeUpNext(v, st, h)
  PROVE  Inside' = {t \in Tasks : st[t] = "holding"}
<1>1. CASE state' = st
  BY <1>1 DEF Inside
<1>2. ASSUME NEW b \in Pending(st, h), Grant(b, v, st, h)
      PROVE  Inside' = {t \in Tasks : st[t] = "holding"}
  BY <1>2 DEF Pending, Grant, Inside
<1> QED
  BY <1>1, <1>2 DEF WakeUpNext

(* A caller that comes in holds a permit that was free or charged to it.   *)
LEMMA RoomInside ==
  ASSUME SemInv, NEW t \in Tasks, state[t] # "holding",
         value > 0 \/ t \in Charged
  PROVE  Cardinality(Inside) < Capacity
<1>1. Charged \in SUBSET Tasks /\ Inside \in SUBSET Charged
  BY DEF Charged, Inside
<1>2. /\ IsFiniteSet(Charged)
      /\ Cardinality(Charged) \in Nat
  BY <1>1, FS_Subset, FS_CardinalityType
<1>3. /\ Cardinality(Inside) \in Nat
      /\ Cardinality(Inside) <= Cardinality(Charged)
      /\ Cardinality(Charged) = Cardinality(Inside) => Charged = Inside
  BY <1>1, <1>2, FS_Subset, FS_CardinalityType
<1>4. t \notin Inside
  BY DEF Inside
<1>5. value \in Nat /\ value + Cardinality(Charged) = Capacity
  BY DEF SemInv, TypeOK, PermitConservation
<1>6. CASE value > 0
  BY <1>2, <1>3, <1>5, <1>6
<1>7. CASE t \in Charged
  BY <1>2, <1>3, <1>4, <1>5, <1>7
<1> QED
  BY <1>6, <1>7

LEMMA GateStep == SemInv /\ [Next]_vars => [Gate!Next]_Inside
<1> SUFFICES ASSUME SemInv, [Next]_vars PROVE [Gate!Next]_Inside
  OBVIOUS
<1>a. state \in [Tasks -> States] /\ heap \in SUBSET Tasks
  BY DEF SemInv, TypeOK, States
<1>1. ASSUME NEW t \in Tasks, AcquireFree(t) PROVE Gate!Enter(t)
  <2>1. Inside' = Inside \union {t} /\ t \notin Inside
    BY <1>1, <1>a DEF AcquireFree, Inside
  <2>2. value > 0
    BY <1>1 DEF AcquireFree, Locked, SemInv, TypeOK
  <2>3. Cardinality(Inside) < Capacity
    BY <1>1, <2>2, RoomInside DEF AcquireFree
  <2> QED
    BY <2>1, <2>3 DEF Gate!Enter, Gate!Cardinality, Cardinality
<1>2. ASSUME NEW t \in Tasks, AcquireWait(t) \/ Cancel(t) \/ RunCancelled(t)
      PROVE  Inside' = Inside
  BY <1>2, <1>a DEF AcquireWait, Cancel, RunCancelled, Inside
<1>3. ASSUME NEW t \in Tasks, RunGranted(t) PROVE Gate!Enter(t)
  <2> DEFINE st == [state EXCEPT ![t] = "holding"]
  <2>1. st \in [Tasks -> States]
    BY <1>a DEF States
  <2>2. Inside' = {o \in Tasks : st[o] = "holding"}
    <3>1. CASE WakeUpNext(value, st, heap)
      BY <1>a, <2>1, <3>1, WakeInside
    <3>2. CASE state' = st
      BY <3>2 DEF Inside
    <3> QED
      BY <1>3, <3>1, <3>2 DEF RunGranted
  <2>3. Inside' = Inside \union {t} /\ t \notin Inside
    BY <1>3, <1>a, <2>2 DEF RunGranted, Inside
  <2>4. t \in Charged /\ state[t] # "holding"
    BY <1>3 DEF RunGranted, Charged
  <2>5. Cardinality(Inside) < Capacity
    BY <2>4, RoomInside
  <2> QED
    BY <2>3, <2>5 DEF Gate!Enter, Gate!Cardinality, Cardinality
<1>4. ASSUME NEW t \in Tasks, RunRevoked(t) \/ Release(t)
      PROVE  Inside' = Inside \ {t}
  <2> DEFINE st == [state EXCEPT ![t] = "idle"]
  <2>1. st \in [Tasks -> States]
    BY <1>a DEF States
  <2>2. Inside' = {o \in Tasks : st[o] = "holding"}
    BY <1>4, <1>a, <2>1, WakeInside DEF RunRevoked, Release
  <2> QED
    BY <1>4, <1>a, <2>2 DEF Inside
<1>5. ASSUME NEW t \in Tasks, Release(t) PROVE Gate!Leave(t)
  BY <1>4, <1>5 DEF Release, Gate!Leave, Inside
<1>6. ASSUME NEW t \in Tasks, RunRevoked(t) PROVE Inside' = Inside
  <2>1. t \notin Inside
    BY <1>6 DEF RunRevoked, Inside
  <2> QED
    BY <1>4, <1>6, <2>1
<1>7. CASE UNCHANGED vars
  BY <1>7 DEF vars, Inside
<1> QED
  BY <1>1, <1>2, <1>3, <1>5, <1>6, <1>7 DEF Next, Gate!Next

(* The semaphore keeps the promise of the cap: the callers between         *)
(* acquire() and release() come and go one at a time, never more of them   *)
(* than Capacity.                                                          *)
THEOREM Refinement == Spec => IsBoundedGate
<1>1. Init => Gate!Init
  BY DEF Init, Gate!Init, Inside
<1> QED
  BY <1>1, Invariance, GateStep, PTL DEF Spec, IsBoundedGate, Gate!Spec

-----------------------------------------------------------------------------
(* Whom wake_up_next() charges: one sleeper, ahead of the others.          *)
LEMMA WakeInOrder ==
  ASSUME NEW v, NEW st \in [Tasks -> States], NEW h \in SUBSET Tasks,
         \A o \in Tasks : st[o] = "waiting" => o \in h,
         WakeUpNext(v, st, h),
         NEW t \in Tasks, t \in Charged' \ ChargedIn(st),
         NEW o \in Tasks, o # t, st[o] = "waiting"
  PROVE  st[t] = "waiting" /\ Before(t, o)
<1>1. CASE state' = st
  BY <1>1 DEF Charged, ChargedIn
<1>2. ASSUME NEW b \in Pending(st, h), Grant(b, v, st, h)
      PROVE  st[t] = "waiting" /\ Before(t, o)
  <2>1. t = b
    BY <1>2 DEF Grant, Pending, Charged, ChargedIn
  <2>2. o \in Pending(st, h) \ {b}
    BY <2>1 DEF Pending
  <2> QED
    BY <1>2, <2>1, <2>2 DEF Grant, Pending
<1> QED
  BY <1>1, <1>2 DEF WakeUpNext

LEMMA OrderStep ==
  ASSUME SemInv, [Next]_vars, NEW t \in Tasks, NEW o \in Tasks,
         t \in Charged' \ Charged, o # t, state[o] = "waiting"
  PROVE  state[t] = "waiting" /\ Before(t, o)
<1>a. /\ state \in [Tasks -> States] /\ heap \in SUBSET Tasks
      /\ \A w \in Tasks : state[w] = "waiting" => w \in heap
  BY DEF SemInv, TypeOK, SleepersQueued, States
<1>1. ASSUME NEW u \in Tasks, AcquireFree(u) PROVE FALSE
  BY <1>1, <1>a DEF AcquireFree, Locked, Pending
<1>2. ASSUME NEW u \in Tasks, AcquireWait(u) \/ Cancel(u) \/ RunCancelled(u)
      PROVE  FALSE
  BY <1>2, <1>a DEF AcquireWait, Cancel, RunCancelled, Charged
<1>3. ASSUME NEW u \in Tasks, NEW v, NEW s \in {"holding", "idle"},
             state[u] \in {"granted", "revoked", "holding"},
             WakeUpNext(v, [state EXCEPT ![u] = s], heap)
      PROVE  state[t] = "waiting" /\ Before(t, o)
  <2> DEFINE st == [state EXCEPT ![u] = s]
  <2>1. st \in [Tasks -> States]
    BY <1>3, <1>a DEF States
  <2>2. \A w \in Tasks : st[w] = "waiting" <=> state[w] = "waiting"
    BY <1>3, <1>a
  <2>3. CASE t \notin ChargedIn(st)
    <3> HIDE DEF st
    <3> QED
      BY <1>3, <1>a, <2>1, <2>2, <2>3, WakeInOrder DEF st
  <2>4. CASE t \in ChargedIn(st)
    BY <1>3, <1>a, <2>4 DEF ChargedIn, Charged
  <2> QED
    BY <2>3, <2>4
<1>4. ASSUME NEW u \in Tasks, RunGranted(u)
      PROVE  state[t] = "waiting" /\ Before(t, o)
  <2>1. CASE WakeUpNext(value, [state EXCEPT ![u] = "holding"], heap)
    BY <1>3, <1>4, <2>1 DEF RunGranted
  <2>2. CASE state' = [state EXCEPT ![u] = "holding"]
    BY <1>4, <1>a, <2>2 DEF RunGranted, Charged
  <2> QED
    BY <1>4, <2>1, <2>2 DEF RunGranted
<1>5. ASSUME NEW u \in Tasks, RunRevoked(u) \/ Release(u)
      PROVE  state[t] = "waiting" /\ Before(t, o)
  BY <1>3, <1>5 DEF RunRevoked, Release
<1>6. CASE UNCHANGED vars
  BY <1>6 DEF vars, Charged
<1> QED
  BY <1>1, <1>2, <1>4, <1>5, <1>6 DEF Next

(* Permits go out in the order of priority and then of arrival, and nobody *)
(* who has just come is served before a caller that sleeps.                *)
THEOREM InOrder == Spec => ServedInOrder
<1>1. SemInv /\ [Next]_vars =>
        [\A t, o \in Tasks :
           (t \in Charged' \ Charged /\ o # t /\ state[o] = "waiting")
             => state[t] = "waiting" /\ ServeFirst(t, o)]_vars
  BY OrderStep DEF Before, ServeFirst
<1> QED
  BY <1>1, Invariance, PTL DEF Spec, ServedInOrder
=============================================================================
