----------------------------- MODULE SpendGuard -----------------------------
(***************************************************************************)
(* The daily LLM spend cap (backend/app/fleet/spend_guard.py).  Every call *)
(* of the provider reserves its worst-case cost, is admitted if the day's  *)
(* total before the reservation was under the cap, and is settled to its   *)
(* real cost afterwards.  The total is kept twice: in a counter of each    *)
(* worker process, under a lock, and in one Redis key per day, which is    *)
(* incremented after it.  So _add() is two steps, and calls of all the     *)
(* processes interleave between them.                                      *)
(*                                                                         *)
(* Money is counted in whole units.  With spend_guard_require_redis a call *)
(* may be refused before it reserves anything, which takes behaviours away *)
(* and adds none.  The estimate is no upper bound: four characters count   *)
(* as a token and the surcharge for writing a cache is left out, so a call *)
(* may be billed more than it reserved.  The bill is what the guard prices *)
(* an answer at; a call whose usage it never sees counts as reserved.      *)
(***************************************************************************)
EXTENDS Integers, FiniteSetsExt

CONSTANTS
  Procs,        \* worker processes
  Calls,        \* concurrent callers of the provider
  Home,         \* the process each of them runs in
  Limit,        \* cost_budget_daily_usd
  Amounts,      \* the estimated worst-case costs of calls
  Costs,        \* what the answers of calls are priced at
  MaxMishaps    \* bound: midnights, restarts and Redis errors together

ASSUME ProcsAssumption == IsFiniteSet(Procs)
ASSUME CallsAssumption == IsFiniteSet(Calls)
ASSUME HomeAssumption == Home \in [Calls -> Procs]
ASSUME LimitAssumption == Limit \in Nat \ {0}
ASSUME AmountsAssumption == Amounts \subseteq Nat \ {0} /\ Amounts # {}
                             /\ IsFiniteSet(Amounts)
ASSUME CostsAssumption == Costs \subseteq Nat
ASSUME BoundAssumption == MaxMishaps \in Nat

Days == 0..MaxMishaps

VARIABLES
  day,        \* _today()
  local,      \* local[p][d]: _local of process p
  shared,     \* shared[d]: the Redis key of day d
  pc,         \* where each call is
  reserved,   \* the amount the call has reserved
  opened,     \* the day it reserved it on
  op,         \* the _add() under way: its amount, day and local total
  restarts,   \* number of process restarts so far
  faults,     \* number of increments that Redis may have missed so far
  spent,      \* history: the bill of the calls each process admitted on
              \* each day, those in flight at their worst case
  carried,    \* history: what midnight kept out of each day's total: taken
              \* off it for the day before, or put on that of the next
  overrun,    \* history: what each process was billed beyond reservations
              \* since it last made one with its own total under the cap
  leaked      \* history: a reservation was abandoned by a stream or a restart

ledger == <<local, shared>>
history == <<spent, carried, overrun, leaked>>
vars == <<day, ledger, pc, reserved, opened, op, restarts, faults, history>>

NoOp == [usd |-> 0, day |-> 0, after |-> 0]

Init ==
  /\ day = 0
  /\ local = [p \in Procs |-> [d \in Days |-> 0]]
  /\ shared = [d \in Days |-> 0]
  /\ pc = [c \in Calls |-> "idle"]
  /\ reserved = [c \in Calls |-> 0]
  /\ opened = [c \in Calls |-> 0]
  /\ op = [c \in Calls |-> NoOp]
  /\ restarts = 0
  /\ faults = 0
  /\ spent = [p \in Procs |-> [d \in Days |-> 0]]
  /\ carried = [d \in Days |-> 0]
  /\ overrun = [p \in Procs |-> [d \in Days |-> 0]]
  /\ leaked = FALSE

-----------------------------------------------------------------------------

Goto(c, l) == pc' = [pc EXCEPT ![c] = l]

(* The wrapper returns, or raises, and nothing of the call is left.        *)
Return(c) ==
  /\ Goto(c, "idle")
  /\ reserved' = [reserved EXCEPT ![c] = 0]
  /\ opened' = [opened EXCEPT ![c] = 0]
  /\ op' = [op EXCEPT ![c] = NoOp]

(* The bound on midnights, restarts and Redis errors.                      *)
Mishap == day + restarts + faults < MaxMishaps

(* _add() up to the release of the lock.                                   *)
AddLocal(c, usd) ==
  LET after == local[Home[c]][day] + usd
  IN /\ local' = [local EXCEPT ![Home[c]][day] = after]
     /\ op' = [op EXCEPT ![c] = [usd |-> usd, day |-> day, after |-> after]]

(* What the increment of the Redis key may come to: the new value of the   *)
(* key, the total _add() returns and the number of Redis errors.  When     *)
(* Redis fails, with or without having made the increment, the total is    *)
(* that of this process; the seconds in which a process then leaves Redis  *)
(* alone are errors of each of its increments.                             *)
Incremented(c, total) ==
  LET after == shared[op[c].day] + op[c].usd
      failed(key) == [key |-> key, total |-> op[c].after, faults |-> faults + 1]
  IN {[key |-> after, total |-> total, faults |-> faults]}
       \union (IF Mishap THEN {failed(after), failed(shared[op[c].day])} ELSE {})

(* Slip: the total of this process is looked at only when Redis fails.     *)
AddSharedAlone(c) == Incremented(c, shared[op[c].day] + op[c].usd)

(* The rest of _add().                                                     *)
AddShared(c) ==
  Incremented(c, Max({shared[op[c].day] + op[c].usd, op[c].after}))

Write(c, r) ==
  /\ shared' = [shared EXCEPT ![op[c].day] = r.key]
  /\ faults' = r.faults

(* Settling or withdrawing a reservation of an earlier day takes usd off   *)
(* today's total, or puts there what belongs to that of the earlier day.   *)
Carry(c, usd) ==
  carried' = IF opened[c] = day THEN carried
             ELSE IF usd <= 0 THEN [carried EXCEPT ![day] = @ - usd]
             ELSE [carried EXCEPT ![opened[c]] = @ + usd]

(* What is billed beyond the reservation, on the day it was made.          *)
Overruns(c, usd) ==
  overrun' = IF usd <= 0 \/ opened[c] # day THEN overrun
             ELSE [overrun EXCEPT ![Home[c]][day] = @ + usd]

-----------------------------------------------------------------------------

(* reserve(), first half.                                                  *)
Reserve(c) ==
  /\ pc[c] = "idle"
  /\ \E a \in Amounts :
       /\ AddLocal(c, a)
       /\ reserved' = [reserved EXCEPT ![c] = a]
  /\ opened' = [opened EXCEPT ![c] = day]
  /\ overrun' = IF local[Home[c]][day] >= Limit THEN overrun
                ELSE [overrun EXCEPT ![Home[c]][day] = 0]
  /\ Goto(c, "reserving")
  /\ UNCHANGED <<day, shared, restarts, faults, spent, carried, leaked>>

(* Slip: a call is refused only above the cap, so one more gets in at it.  *)
DecideLate(c, total) ==
  IF total - reserved[c] > Limit
    THEN Goto(c, "refused") /\ UNCHANGED spent
    ELSE /\ Goto(c, "calling")
         /\ spent' = [spent EXCEPT ![Home[c]][opened[c]] = @ + reserved[c]]

(* reserve() compares the total before its reservation with the cap.       *)
Decide(c, total) ==
  IF total - reserved[c] >= Limit
    THEN Goto(c, "refused") /\ UNCHANGED spent
    ELSE /\ Goto(c, "calling")
         /\ spent' = [spent EXCEPT ![Home[c]][opened[c]] = @ + reserved[c]]

(* reserve(), second half.                                                 *)
Admit(c) ==
  /\ pc[c] = "reserving"
  /\ \E r \in AddShared(c) : Write(c, r) /\ Decide(c, r.total)
  /\ op' = [op EXCEPT ![c] = NoOp]
  /\ UNCHANGED <<day, local, reserved, opened, restarts, carried, overrun,
                 leaked>>

(* Slip: a refused call leaves its reservation in the total.               *)
WithdrawNothing(c) ==
  /\ pc[c] = "refused"
  /\ Return(c)
  /\ UNCHANGED <<day, ledger, restarts, faults, history>>

(* A refused call takes its reservation back: _add(-amount).               *)
Withdraw(c) ==
  /\ pc[c] = "refused"
  /\ AddLocal(c, -reserved[c])
  /\ Carry(c, -reserved[c])
  /\ Goto(c, "settling")
  /\ UNCHANGED <<day, shared, reserved, opened, restarts, faults, spent,
                 overrun, leaked>>

(* The provider answers, or fails (actual = 0): settle(reserved, actual).  *)
Settle(c) ==
  /\ pc[c] = "calling"
  /\ \E actual \in Costs \union {0} :
       /\ AddLocal(c, actual - reserved[c])
       /\ Carry(c, actual - reserved[c])
       /\ Overruns(c, actual - reserved[c])
       /\ spent' = [spent EXCEPT ![Home[c]][opened[c]]
                                   = @ + actual - reserved[c]]
  /\ Goto(c, "settling")
  /\ UNCHANGED <<day, shared, reserved, opened, restarts, faults, leaked>>

(* The last step of Withdraw and Settle.                                   *)
Settled(c) ==
  /\ pc[c] = "settling"
  /\ \E r \in AddShared(c) : Write(c, r)
  /\ Return(c)
  /\ UNCHANGED <<day, local, restarts, history>>

(* A raw stream keeps its reservation as its charge.                       *)
KeepReservation(c) ==
  /\ pc[c] = "calling"
  /\ Return(c)
  /\ UNCHANGED <<day, ledger, restarts, faults, history>>

(* The request of a stream() guard fails in __enter__(): __exit__(), which *)
(* settles, is never called.  Nothing is billed.                           *)
StreamFails(c) ==
  /\ pc[c] = "calling"
  /\ spent' = [spent EXCEPT ![Home[c]][opened[c]] = @ - reserved[c]]
  /\ leaked' = TRUE
  /\ Return(c)
  /\ UNCHANGED <<day, ledger, restarts, faults, carried, overrun>>

(* Midnight, UTC.                                                          *)
Midnight ==
  /\ Mishap
  /\ day' = day + 1
  /\ UNCHANGED <<ledger, pc, reserved, opened, op, restarts, faults, history>>

(* A worker process stops and starts again with an empty counter.  Its     *)
(* calls in flight stay on the bill as reserved.  What it was about to add *)
(* for one billed beyond its reservation, Redis never hears of.            *)
Restart(p) ==
  /\ Mishap
  /\ restarts' = restarts + 1
  /\ faults' = IF \E c \in Calls :
                    Home[c] = p /\ pc[c] = "settling" /\ op[c].usd > 0
                 THEN faults + 1 ELSE faults
  /\ local' = [local EXCEPT ![p] = [d \in Days |-> 0]]
  /\ pc' = [c \in Calls |-> IF Home[c] = p THEN "idle" ELSE pc[c]]
  /\ reserved' = [c \in Calls |-> IF Home[c] = p THEN 0 ELSE reserved[c]]
  /\ opened' = [c \in Calls |-> IF Home[c] = p THEN 0 ELSE opened[c]]
  /\ op' = [c \in Calls |-> IF Home[c] = p THEN NoOp ELSE op[c]]
  /\ leaked' = TRUE
  /\ UNCHANGED <<day, shared, spent, carried, overrun>>

Next ==
  \/ \E c \in Calls :
       \/ Reserve(c) \/ Admit(c) \/ Withdraw(c) \/ Settle(c) \/ Settled(c)
       \/ KeepReservation(c) \/ StreamFails(c)
  \/ Midnight
  \/ \E p \in Procs : Restart(p)

Spec == Init /\ [][Next]_vars

-----------------------------------------------------------------------------

(* The values each variable may take.                                      *)
TypeOK ==
  /\ day \in Days
  /\ local \in [Procs -> [Days -> Int]]
  /\ shared \in [Days -> Int]
  /\ pc \in [Calls -> {"idle", "reserving", "refused", "calling", "settling"}]
  /\ reserved \in [Calls -> Amounts \union {0}]
  /\ opened \in [Calls -> Days]
  /\ op \in [Calls -> [usd : Int, day : Days, after : Int]]
  /\ restarts \in 0..MaxMishaps
  /\ faults \in 0..MaxMishaps
  /\ spent \in [Procs -> [Days -> Nat]]
  /\ carried \in [Days -> Nat]
  /\ overrun \in [Procs -> [Days -> Nat]]
  /\ leaked \in BOOLEAN

MaxAmount == Max(Amounts)

Bill(d) == MapThenSumSet(LAMBDA p : spent[p][d], Procs)

(* What answers billed beyond their reservations have yet to add to the    *)
(* total of a day.                                                         *)
Late(c, d) ==
  IF pc[c] = "settling" /\ op[c].day = d /\ op[c].usd > 0 THEN op[c].usd ELSE 0

Unseen(d) == MapThenSumSet(LAMBDA c : Late(c, d), Calls)

(***************************************************************************)
(* However the calls of all the processes interleave, and whichever of     *)
(* them restart, a call is let in only while the bill of its day is under  *)
(* the cap; but for what answers that came in at this very moment were     *)
(* billed beyond their reservations, and for what midnight kept out of the *)
(* total.  So the bill passes the cap by one worst case, and by what calls *)
(* in flight together cost more than theirs.  This takes a Redis that      *)
(* answers.                                                                *)
(***************************************************************************)
Admitted(c) == pc[c] = "reserving" /\ pc'[c] = "calling"

BelowCapWhenAdmitted(c) ==
  LET d == opened[c] IN Bill(d) < Limit + carried[d] + Unseen(d)

OvershootBounded ==
  [][\A c \in Calls : Admitted(c) /\ faults' = 0 => BelowCapWhenAdmitted(c)]_vars

(***************************************************************************)
(* While Redis fails "the ledger falls back to this process only": each    *)
(* process still enforces the cap on what it spends itself.  It passes the *)
(* cap by one worst case, and by what its answers cost more than theirs    *)
(* since it last reserved under the cap, as long as it does not restart.   *)
(***************************************************************************)
OutageBounded ==
  restarts = 0 =>
    \A p \in Procs, d \in Days :
      spent[p][d] < Limit + MaxAmount + carried[d] + overrun[p][d]

(***************************************************************************)
(* "Afterwards the reservation is replaced by the real cost": with no call *)
(* under way the total of a day is its bill, unless a stream could not be  *)
(* opened, or a mishap came between.                                       *)
(***************************************************************************)
LedgerIsBill ==
  (\A c \in Calls : pc[c] = "idle")
    /\ ~leaked /\ faults = 0 /\ (\A d \in Days : carried[d] = 0)
    => \A d \in Days : shared[d] = Bill(d)

(* "the most the cap can be exceeded by is one call's worst case"          *)
OvershootOneCall ==
  faults = 0 => \A d \in Days : Bill(d) < Limit + MaxAmount
=============================================================================
