--------------------------- MODULE IdempotencyKey ---------------------------
(***************************************************************************)
(* One Idempotency-Key (backend/app/middleware/idempotency.py) and the     *)
(* handlers that use it: task creation, push and "make task".  The key is  *)
(* a row of Postgres, reserved by an INSERT before the work, answered by   *)
(* an UPDATE after it, deleted if the work fails, and purged when it is    *)
(* older than its time to live.  Each of these is a statement on the key   *)
(* alone: none says whose reservation it is about.                         *)
(*                                                                         *)
(* A handler is a client that sends its request up to MaxTries times, one  *)
(* at a time; a client that gives up on a request still running and sends  *)
(* it again is two handlers of the same body.  Time is left out: a row may *)
(* be purged at any moment.                                                *)
(***************************************************************************)
EXTENDS Naturals, FiniteSets

CONSTANTS
  Handlers,   \* requests under way, all with this key, endpoint and actor
  Bodies,     \* the hashes of request bodies
  Body,       \* the hash each handler comes with
  MaxTries    \* bound: times each handler is called

ASSUME BodyAssumption == Body \in [Handlers -> Bodies]
ASSUME TriesAssumption == MaxTries \in Nat

VARIABLES
  row,        \* the row of the key, if it is there
  pc,         \* where each handler is
  tries,      \* how many times each handler was called
  done,       \* history: the runs of the work that took effect, but for
  halfdone,   \* history: those that raised after they had taken effect
  replies,    \* history: the results sent, with the handler that sent them
  early       \* history: a row was purged while its work was going on

history == <<done, halfdone, replies, early>>
vars == <<row, pc, tries, history>>

(* A run of the work, which stands for its result.                         *)
Runs == [by : Handlers, try : 0..MaxTries]

Run(h) == [by |-> h, try |-> tries[h]]

NoRow == [status |-> "none"]

InProgress(hash) == [status |-> "in_progress", hash |-> hash]

Stored(hash, run) == [status |-> "stored", hash |-> hash, body |-> run]

Init ==
  /\ row = NoRow
  /\ pc = [h \in Handlers |-> "idle"]
  /\ tries = [h \in Handlers |-> 0]
  /\ done = {}
  /\ halfdone = {}
  /\ replies = {}
  /\ early = FALSE

-----------------------------------------------------------------------------

Goto(h, l) == pc' = [pc EXCEPT ![h] = l]

Reply(h, run) == replies' = replies \union {[to |-> h, run |-> run]}

(* Those between the reservation of the key and the end of the handler.    *)
Busy == {h \in Handlers : pc[h] \in {"working", "worked", "releasing"}}

(* A client sends its request.                                             *)
Send(h) ==
  /\ pc[h] = "idle"
  /\ tries[h] < MaxTries
  /\ tries' = [tries EXCEPT ![h] = @ + 1]
  /\ Goto(h, "reserving")
  /\ UNCHANGED <<row, history>>

(* Slip: the INSERT overwrites a row that is there.                        *)
ReserveAnew(h) ==
  /\ pc[h] = "reserving"
  /\ row' = InProgress(Body[h])
  /\ Goto(h, "working")
  /\ UNCHANGED <<tries, history>>

(* INSERT ... ON CONFLICT DO NOTHING, and its commit.                      *)
Reserve(h) ==
  /\ pc[h] = "reserving"
  /\ \/ /\ row = NoRow
        /\ row' = InProgress(Body[h])
        /\ Goto(h, "working")
     \/ /\ row # NoRow
        /\ Goto(h, "looking")
        /\ UNCHANGED row
  /\ UNCHANGED <<tries, history>>

(* Slip: the hash of the body is not compared.                             *)
LookByKey(h) ==
  /\ pc[h] = "looking"
  /\ Goto(h, IF row = NoRow THEN "reserving" ELSE "idle")
  /\ IF row.status = "stored" THEN Reply(h, row.body) ELSE UNCHANGED replies
  /\ UNCHANGED <<row, tries, done, halfdone, early>>

(* The row was there: read it.  It may be gone by now, and then all starts *)
(* again; of another body, or still in progress, and then the answer is    *)
(* 409; or hold the stored response.                                       *)
Look(h) ==
  /\ pc[h] = "looking"
  /\ Goto(h, IF row = NoRow THEN "reserving" ELSE "idle")
  /\ IF row.status = "stored" /\ row.hash = Body[h]
       THEN Reply(h, row.body)
       ELSE UNCHANGED replies
  /\ UNCHANGED <<row, tries, done, halfdone, early>>

(* The work of the endpoint takes effect: its row is committed.            *)
Work(h) ==
  /\ pc[h] = "working"
  /\ done' = done \union {Run(h)}
  /\ Goto(h, "worked")
  /\ UNCHANGED <<row, tries, halfdone, replies, early>>

(* The work raises, or is cancelled: before it takes effect, or after it,  *)
(* when the row it has made is read again and turned into the response.    *)
WorkFails(h) ==
  /\ pc[h] \in {"working", "worked"}
  /\ done' = done \ {Run(h)}
  /\ halfdone' = halfdone \union (done \intersect {Run(h)})
  /\ Goto(h, "releasing")
  /\ UNCHANGED <<row, tries, replies, early>>

(* store_response(): an UPDATE, which finds no row if it was purged.       *)
Store(h) ==
  /\ pc[h] = "worked"
  /\ row' = IF row = NoRow THEN NoRow ELSE Stored(row.hash, Run(h))
  /\ Reply(h, Run(h))
  /\ Goto(h, "idle")
  /\ UNCHANGED <<tries, done, halfdone, early>>

(* release_reservation(): a DELETE of a row in progress.                   *)
Release(h) ==
  /\ pc[h] = "releasing"
  /\ row' = IF row.status = "in_progress" THEN NoRow ELSE row
  /\ Goto(h, "idle")
  /\ UNCHANGED <<tries, history>>

(* Slip: a handler that ends early frees the key, whatever it has done.    *)
AbandonAndFree(h) ==
  /\ h \in Busy
  /\ Goto(h, "idle")
  /\ row' = NoRow
  /\ UNCHANGED <<tries, history>>

(* The process stops, or the statement of store_response() or of           *)
(* release_reservation() fails: the row stays in progress.                 *)
Abandon(h) ==
  /\ h \in Busy
  /\ Goto(h, "idle")
  /\ UNCHANGED <<row, tries, history>>

(* Slip: only answered keys are purged.                                    *)
PurgeStored ==
  /\ row.status = "stored"
  /\ row' = NoRow
  /\ done' = {}
  /\ halfdone' = {}
  /\ replies' = {}
  /\ UNCHANGED <<pc, tries, early>>

(* purge_expired_idempotency_keys() deletes the row, answered or not.      *)
(* What the clients were promised ends with it, but for the work that is   *)
(* still going on.                                                         *)
Purge ==
  /\ row # NoRow
  /\ row' = NoRow
  /\ done' = {}
  /\ halfdone' = {}
  /\ replies' = {}
  /\ early' = (early \/ Busy # {})
  /\ UNCHANGED <<pc, tries>>

Next ==
  \/ \E h \in Handlers :
       \/ Send(h) \/ Reserve(h) \/ Look(h) \/ Work(h) \/ WorkFails(h)
       \/ Store(h) \/ Release(h) \/ Abandon(h)
  \/ Purge

Spec == Init /\ [][Next]_vars

(* A handler that runs goes on, and the retention loop never stops.        *)
Fairness ==
  /\ \A h \in Handlers :
       WF_vars(Reserve(h) \/ Look(h) \/ Work(h) \/ WorkFails(h)
                 \/ Store(h) \/ Release(h))
  /\ WF_vars(Purge)

FairSpec == Spec /\ Fairness

-----------------------------------------------------------------------------

(* The values each variable may take.                                      *)
TypeOK ==
  /\ row \in {NoRow} \union {InProgress(b) : b \in Bodies}
               \union {Stored(b, r) : b \in Bodies, r \in Runs}
  /\ pc \in [Handlers -> {"idle", "reserving", "looking", "working",
                          "worked", "releasing"}]
  /\ tries \in [Handlers -> 0..MaxTries]
  /\ done \subseteq Runs
  /\ halfdone \subseteq Runs
  /\ replies \subseteq [to : Handlers, run : Runs]
  /\ early \in BOOLEAN

(***************************************************************************)
(* "Two identical requests arriving together" do the work once: as long as *)
(* no reservation was purged under a running handler, at most one handler  *)
(* works under the key, and the row is its own reservation.                *)
(***************************************************************************)
KeyIsHeld ==
  ~early => \A h \in Busy : Busy = {h} /\ row = InProgress(Body[h])

(***************************************************************************)
(* Until the key is purged the work of a request takes effect once, for    *)
(* any retries, crashes, lost answers and failed statements; but for runs  *)
(* that raise after their effect, whose key is freed.  Every reply is the  *)
(* result of the one that did not, for the same body, to whichever handler *)
(* it goes.                                                                *)
(***************************************************************************)
RunsOnce ==
  ~early => \A run \in done : done = {run}

RepliesAreReplays ==
  ~early => \A r \in replies :
              r.run \in done /\ Body[r.run.by] = Body[r.to]

(* A retry "gets back the original response instead of re-executing a real *)
(* side effect a second time".                                             *)
EffectOnce ==
  ~early => \A run \in done \union halfdone : done \union halfdone = {run}

(***************************************************************************)
(* A stored response "is honored before the retention loop purges it":     *)
(* nothing else replaces or deletes it.                                    *)
(***************************************************************************)
AnswerKept ==
  [][~early /\ row.status = "stored" => row' \in {row, NoRow}
       /\ (row' = NoRow => Purge)]_vars

(***************************************************************************)
(* A reservation never blocks its key for good: the handler ends it, or    *)
(* the retention loop does when the handler is gone.                       *)
(***************************************************************************)
KeyIsFreed == row.status = "in_progress" ~> row.status # "in_progress"
=============================================================================
