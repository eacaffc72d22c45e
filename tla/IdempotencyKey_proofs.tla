----------------------- MODULE IdempotencyKey_proofs ------------------------
(* Proofs of the safety of an Idempotency-Key.                             *)
EXTENDS IdempotencyKey, TLAPS

(***************************************************************************)
(* While no reservation was purged under a running handler, the row tells  *)
(* what has happened: nothing if there is none, at most one run and no     *)
(* reply while it is in progress, one run and its replays once stored.     *)
(***************************************************************************)
NothingYet == row = NoRow => done = {} /\ replies = {}

AtMostOneRun ==
  row.status = "in_progress" =>
    /\ replies = {}
    /\ \A run \in done : done = {run} /\ Body[run.by] = row.hash
    /\ \A h \in Handlers :
         /\ pc[h] \in {"working", "releasing"} => done = {}
         /\ pc[h] = "worked" => done = {Run(h)}

ItsReplays ==
  row.status = "stored" =>
    /\ done = {row.body}
    /\ Body[row.body.by] = row.hash
    /\ \A r \in replies : r.run = row.body /\ Body[r.to] = row.hash

RowTells == ~early => NothingYet /\ AtMostOneRun /\ ItsReplays

IInv == TypeOK /\ KeyIsHeld /\ RowTells

(* The three kinds of row differ by their status.                          *)
LEMMA RowKinds ==
  ASSUME TypeOK
  PROVE  \/ row = NoRow /\ row.status = "none"
         \/ /\ row.status = "in_progress"
            /\ row.hash \in Bodies
            /\ row = InProgress(row.hash)
         \/ /\ row.status = "stored"
            /\ row.hash \in Bodies
            /\ row.body \in Runs
            /\ row = Stored(row.hash, row.body)
BY DEF TypeOK, NoRow, InProgress, Stored

(* The values of the rows the actions write.                               *)
LEMMA RowValues ==
  /\ NoRow.status = "none"
  /\ \A b : InProgress(b).status = "in_progress" /\ InProgress(b).hash = b
  /\ \A b, r : /\ Stored(b, r).status = "stored"
               /\ Stored(b, r).hash = b
               /\ Stored(b, r).body = r
  /\ \A b : InProgress(b) # NoRow
  /\ \A b, r : Stored(b, r) # NoRow
<1>1. NoRow.status = "none"
  BY DEF NoRow
<1>2. \A b : InProgress(b).status = "in_progress" /\ InProgress(b).hash = b
  BY DEF InProgress
<1>3. \A b, r : /\ Stored(b, r).status = "stored"
                /\ Stored(b, r).hash = b
                /\ Stored(b, r).body = r
  BY DEF Stored
<1>4. QED
  BY <1>1, <1>2, <1>3

(* A run of the work is one.                                               *)
LEMMA RunType ==
  ASSUME TypeOK, NEW h \in Handlers
  PROVE  Run(h) \in Runs /\ Run(h).by = h
BY TriesAssumption DEF TypeOK, Run, Runs

(* Every step keeps the ranges.                                            *)
LEMMA TypeStep ==
  ASSUME TypeOK, [Next]_vars
  PROVE  TypeOK'
<1> USE BodyAssumption, TriesAssumption
<1>1. row' \in {NoRow} \union {InProgress(b) : b \in Bodies}
                 \union {Stored(b, r) : b \in Bodies, r \in Runs}
  <2>1. CASE \E h \in Handlers : Reserve(h)
    BY <2>1 DEF TypeOK, Reserve
  <2>2. CASE \E h \in Handlers : Store(h)
    BY <2>2, RowKinds, RowValues, RunType DEF TypeOK, Store
  <2>3. CASE row' \in {row, NoRow}
    BY <2>3 DEF TypeOK
  <2>4. QED
    BY <2>1, <2>2, <2>3 DEF Next, vars, history, Send, Look, Work, WorkFails,
                            Release, Abandon, Purge
<1>2. pc' \in [Handlers -> {"idle", "reserving", "looking", "working",
                            "worked", "releasing"}]
  BY DEF TypeOK, Next, vars, Goto, Send, Reserve, Look, Work, WorkFails,
         Store, Release, Abandon, Purge
<1>3. tries' \in [Handlers -> 0..MaxTries]
  BY DEF TypeOK, Next, vars, Send, Reserve, Look, Work, WorkFails, Store,
         Release, Abandon, Purge
<1>4. done' \subseteq Runs /\ halfdone' \subseteq Runs
  BY RunType DEF TypeOK, Next, vars, history, Send, Reserve, Look, Work,
                 WorkFails, Store, Release, Abandon, Purge
<1>5. replies' \subseteq [to : Handlers, run : Runs]
  <2>1. CASE \E h \in Handlers : Look(h)
    BY <2>1, RowKinds DEF TypeOK, Look, Reply
  <2>2. CASE \E h \in Handlers : Store(h)
    BY <2>2, RunType DEF TypeOK, Store, Reply
  <2>3. CASE replies' \in {replies, {}}
    BY <2>3 DEF TypeOK
  <2>4. QED
    BY <2>1, <2>2, <2>3 DEF Next, vars, history, Send, Reserve, Work,
                            WorkFails, Release, Abandon, Purge
<1>6. early' \in BOOLEAN
  <2>1. CASE Purge
    BY <2>1, Zenon DEF Purge
  <2>2. CASE UNCHANGED early
    BY <2>2 DEF TypeOK
  <2>3. QED
    BY <2>1, <2>2 DEF Next, vars, history, Send, Reserve, Look, Work,
                      WorkFails, Store, Release, Abandon
<1>7. QED
  BY <1>1, <1>2, <1>3, <1>4, <1>5, <1>6 DEF TypeOK

(* What a handler does keeps the row telling what has happened.            *)
LEMMA HandlerStep ==
  ASSUME IInv, ~early, NEW h \in Handlers,
         \/ Send(h) \/ Reserve(h) \/ Look(h) \/ Work(h) \/ WorkFails(h)
         \/ Store(h) \/ Release(h) \/ Abandon(h)
  PROVE  (KeyIsHeld /\ RowTells)'
<1> USE RowValues
<1> DEFINE others == Handlers \ {h}
<1>1. \A g \in others : pc'[g] = pc[g] /\ Run(g)' = Run(g)
  BY DEF IInv, TypeOK, Goto, Run, Send, Reserve, Look, Work, WorkFails, Store,
         Release, Abandon
<1>2. h \in Busy => Busy = {h} /\ row = InProgress(Body[h])
  BY DEF IInv, KeyIsHeld
<1>3. \A g \in Busy : Busy = {g} /\ row = InProgress(Body[g])
  BY DEF IInv, KeyIsHeld
<1>t. pc' \in [Handlers -> {"idle", "reserving", "looking", "working",
                            "worked", "releasing"}]
  BY TypeStep DEF IInv, Next, TypeOK
<1>4. CASE Send(h)
  BY <1>1, <1>2, <1>3, <1>4
     DEF IInv, TypeOK, Send, Goto, history, Busy, KeyIsHeld, RowTells,
         NothingYet, AtMostOneRun, ItsReplays
<1>5. CASE Reserve(h)
  BY <1>1, <1>2, <1>3, <1>5
     DEF IInv, TypeOK, Reserve, Goto, history, Busy, KeyIsHeld, RowTells,
         NothingYet, AtMostOneRun, ItsReplays
<1>6. CASE Look(h)
  BY <1>1, <1>2, <1>3, <1>6
     DEF IInv, TypeOK, Look, Goto, Reply, Busy, KeyIsHeld, RowTells,
         NothingYet, AtMostOneRun, ItsReplays
<1>7. CASE Work(h)
  BY <1>1, <1>2, <1>3, <1>7, RunType
     DEF IInv, TypeOK, Work, Goto, Run, Busy, KeyIsHeld, RowTells,
         NothingYet, AtMostOneRun, ItsReplays
<1>8. CASE WorkFails(h)
  BY <1>1, <1>2, <1>3, <1>8
     DEF IInv, TypeOK, WorkFails, Goto, history, Busy, KeyIsHeld, RowTells,
         NothingYet, AtMostOneRun, ItsReplays
<1>9. CASE Store(h)
  BY <1>1, <1>2, <1>3, <1>9, RunType
     DEF IInv, TypeOK, Store, Goto, Reply, Busy, KeyIsHeld, RowTells,
         NothingYet, AtMostOneRun, ItsReplays
<1>10. CASE Release(h)
  BY <1>1, <1>2, <1>3, <1>10
     DEF IInv, TypeOK, Release, Goto, history, Busy, KeyIsHeld, RowTells,
         NothingYet, AtMostOneRun, ItsReplays
<1>11. CASE Abandon(h)
  BY <1>1, <1>2, <1>3, <1>11
     DEF IInv, TypeOK, Abandon, Goto, history, Busy, KeyIsHeld, RowTells,
         NothingYet, AtMostOneRun, ItsReplays
<1>12. QED
  BY <1>4, <1>5, <1>6, <1>7, <1>8, <1>9, <1>10, <1>11

(* The invariant is inductive.                                             *)
LEMMA Inductive ==
  ASSUME IInv, [Next]_vars
  PROVE  IInv'
<1>1. TypeOK'
  BY TypeStep DEF IInv
<1>2. (KeyIsHeld /\ RowTells)'
  <2>1. CASE early'
    BY <2>1 DEF KeyIsHeld, RowTells
  <2>2. CASE UNCHANGED vars
    BY <2>2 DEF IInv, vars, history, KeyIsHeld, Busy, RowTells, NothingYet,
                AtMostOneRun, ItsReplays, Run
  <2>3. CASE Purge
    BY <2>3, RowValues DEF Purge, Busy, KeyIsHeld, RowTells, NothingYet,
                           AtMostOneRun, ItsReplays
  <2>4. ASSUME NEW h \in Handlers, ~early',
               \/ Send(h) \/ Reserve(h) \/ Look(h) \/ Work(h)
               \/ WorkFails(h) \/ Store(h) \/ Release(h) \/ Abandon(h)
        PROVE  (KeyIsHeld /\ RowTells)'
    <3>1. ~early
      BY <2>4 DEF history, Send, Reserve, Look, Work, WorkFails, Store,
                  Release, Abandon
    <3>2. QED
      BY <2>4, <3>1, HandlerStep
  <2>5. QED
    BY <2>1, <2>2, <2>3, <2>4 DEF Next
<1>3. QED
  BY <1>1, <1>2 DEF IInv

(* It holds at every moment.                                              *)
LEMMA Invariance == Spec => []IInv
<1>1. Init => IInv
  <2>1. Init => TypeOK
    <3>1. Init => row \in {NoRow} /\ early \in BOOLEAN
      BY DEF Init
    <3>2. Init => /\ pc \in [Handlers -> {"idle"}]
                  /\ tries \in [Handlers -> 0..MaxTries]
      BY TriesAssumption DEF Init
    <3>3. Init => /\ done \subseteq Runs /\ halfdone \subseteq Runs
                  /\ replies \subseteq [to : Handlers, run : Runs]
      BY DEF Init
    <3>4. QED
      BY <3>1, <3>2, <3>3 DEF TypeOK
  <2>2. Init => KeyIsHeld
    BY DEF Init, KeyIsHeld, Busy
  <2>3. Init => RowTells
    <3>1. Init => row.status = "none" /\ done = {} /\ replies = {}
      BY RowValues DEF Init
    <3>2. QED
      BY <3>1 DEF RowTells, NothingYet, AtMostOneRun, ItsReplays
  <2>4. QED
    BY <2>1, <2>2, <2>3 DEF IInv
<1>2. QED
  BY <1>1, Inductive, PTL DEF Spec

(* Every variable keeps its range, for every set of handlers.              *)
THEOREM TypeCorrect == Spec => []TypeOK
BY Invariance, PTL DEF IInv

(* Under one key at most one handler works at a time, and the row is its   *)
(* reservation, as long as none was purged under it.                       *)
THEOREM Exclusive == Spec => []KeyIsHeld
BY Invariance, PTL DEF IInv

(* Until its key is purged, the work of a request takes effect at most     *)
(* once, but for runs that raise after their effect.                       *)
THEOREM AtMostOnce == Spec => []RunsOnce
<1>1. IInv => RunsOnce
  BY RowKinds DEF IInv, RowTells, NothingYet, AtMostOneRun, ItsReplays,
                  RunsOnce
<1>2. QED
  BY Invariance, <1>1, PTL

(* Every reply is the result of that run, for the same body.               *)
THEOREM Replays == Spec => []RepliesAreReplays
<1>1. IInv => RepliesAreReplays
  BY RowKinds DEF IInv, RowTells, NothingYet, AtMostOneRun, ItsReplays,
                  RepliesAreReplays
<1>2. QED
  BY Invariance, <1>1, PTL

(* A stored answer stays until the retention loop purges it: whoever could *)
(* replace or delete it would be busy, and then the row is a reservation.  *)
THEOREM AnswerStays == Spec => AnswerKept
<1>1. IInv /\ [Next]_vars
        => [~early /\ row.status = "stored" => row' \in {row, NoRow}
              /\ (row' = NoRow => Purge)]_vars
  <2>. SUFFICES ASSUME IInv, Next, ~early, row.status = "stored"
                PROVE  row' \in {row, NoRow} /\ (row' = NoRow => Purge)
    OBVIOUS
  <2>1. row # NoRow /\ Busy = {}
    BY RowValues DEF IInv, KeyIsHeld
  <2>2. CASE Purge
    BY <2>2 DEF Purge
  <2>3. ASSUME NEW h \in Handlers,
               \/ Send(h) \/ Reserve(h) \/ Look(h) \/ Work(h)
               \/ WorkFails(h) \/ Store(h) \/ Release(h) \/ Abandon(h)
        PROVE  row' = row
    BY <2>1, <2>3 DEF Busy, Send, Reserve, Look, Work, WorkFails, Store, Release,
                      Abandon
  <2>4. QED
    BY <2>1, <2>2, <2>3 DEF Next
<1>2. QED
  BY <1>1, Invariance, PTL DEF Spec, AnswerKept
=============================================================================
