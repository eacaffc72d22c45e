-------------------------- MODULE AgentRuns_proofs --------------------------
(***************************************************************************)
(* One thread per run, and tasks blocked only when no agent works on them, *)
(* for any number of rows, processes and mishaps.  A run may be claimed by *)
(* a thread at work, by a thread on its way, and by a sweep that has found *)
(* it; the invariant is that a run outside the known overlaps has one      *)
(* claim at a time, and that a thread at work shows in its row.            *)
(***************************************************************************)
EXTENDS AgentRuns, TLAPS

Kinds == {"work", "start", "sweep"}

Claims(p, k, r) ==
  \/ k = "work" /\ working[p][r] > 0
  \/ k = "start" /\ starting[p][r] > 0
  \/ k = "sweep" /\ r \in sweep[p].look \cup sweep[p].gone

Claimed(r) == \E p \in Processes, k \in Kinds : Claims(p, k, r)

OneClaim(r) ==
  /\ \A p \in Processes :
       /\ working[p][r] <= 1 /\ starting[p][r] <= 1
       /\ r \notin sweep[p].look \cap sweep[p].gone
  /\ \A p, q \in Processes : \A k, l \in Kinds :
       Claims(p, k, r) /\ Claims(q, l, r) => p = q /\ k = l

Shown(r) == Live(r) => row[r] = "running" /\ beat[r] # "stale"

Excused == silent \cup crossed

OpenedFirst == \A r \in Runs : Claimed(r) => row[r] # "none"
Orderly == \A r \in Runs \ Excused : OneClaim(r) /\ Shown(r)
WritesIdle ==
  \A p \in Processes, r \in Runs :
    sweep[p].at = "write" /\ Live(r) => r \in Excused \cup late

Unbeaten == \A r \in Runs : row[r] = "none" => beat[r] = "never"

IInv == TypeOK /\ OpenedFirst /\ Unbeaten /\ Orderly /\ WritesIdle

LEMMA CountSet ==
  ASSUME NEW c \in Counts, NEW p \in Processes, NEW r \in Runs, NEW n \in Nat
  PROVE  [c EXCEPT ![p][r] = n] \in Counts
BY DEF Counts

(* The types of the variables, for every step.                             *)
LEMMA TypeInvariant == TypeOK /\ [Next]_vars => TypeOK'
<1> SUFFICES ASSUME TypeOK, [Next]_vars PROVE TypeOK'
  OBVIOUS
<1> USE DEF TypeOK, Counts, rowVars, threadVars, sweepVars, history, Mishap, Stage, Idle
<1>1. ASSUME NEW p \in Processes, NEW r \in Runs, New(p, r) PROVE TypeOK'
  BY <1>1 DEF New, TakenUp, Opened
<1>2. ASSUME NEW p \in Processes, NEW r \in Runs, Open(p, r) PROVE TypeOK'
  BY <1>2 DEF Open, Reopened, TakenUp
<1>3. ASSUME NEW p \in Processes, NEW r \in Runs, BadStart(p, r) PROVE TypeOK'
  BY <1>3 DEF BadStart
<1>4. ASSUME NEW p \in Processes, NEW r \in Runs, Heartbeat(p, r) PROVE TypeOK'
  BY <1>4 DEF Heartbeat
<1>5. ASSUME NEW p \in Processes, NEW r \in Runs, Finish(p, r) PROVE TypeOK'
  BY <1>5 DEF Finish
<1>6. ASSUME NEW r \in Runs, Silence(r) \/ Age(r) PROVE TypeOK'
  BY <1>6 DEF Silence, Age
<1>7. ASSUME NEW p \in Processes, Press(p) PROVE TypeOK'
  BY <1>7 DEF Press, Opened
<1>8. CASE Move
  BY <1>8 DEF Move
<1>9. ASSUME NEW p \in Processes, Crash(p) PROVE TypeOK'
  BY <1>9 DEF Crash, Released, Idle
<1>10. ASSUME NEW p \in Processes, TakeLock(p) PROVE TypeOK'
  BY <1>10 DEF TakeLock
<1>11. CASE LoseLock
  BY <1>11 DEF LoseLock
<1>12. ASSUME NEW p \in Processes, Select(p) PROVE TypeOK'
  BY <1>12 DEF Select
<1>13. ASSUME NEW p \in Processes, NEW r \in Runs, Try(p, r) PROVE TypeOK'
  <2>1. /\ sweep[p].look \in SUBSET Runs /\ sweep[p].gone \in SUBSET Runs
        /\ starting[p] \in [Runs -> Nat] /\ starting[p][r] + 1 \in Nat
    OBVIOUS
  <2>2. PICK gone \in SUBSET Runs :
          sweep' = [sweep EXCEPT ![p] = Stage("resume", sweep[p].look \ {r}, gone)]
    BY <1>13, <2>1 DEF Try
  <2>3. sweep' \in [Processes -> [at : {"idle", "resume", "block", "write"},
                                  look : SUBSET Runs, gone : SUBSET Runs]]
    BY <2>1, <2>2
  <2>4. starting' \in Counts
    <3>1. \/ starting' = starting
          \/ starting' = [starting EXCEPT ![p][r] = starting[p][r] + 1]
      BY <1>13 DEF Try
    <3>2. [starting EXCEPT ![p][r] = starting[p][r] + 1] \in Counts
      BY <2>1, CountSet
    <3>. QED
      BY <3>1, <3>2
  <2>. QED
    BY <1>13, <2>3, <2>4 DEF Try
<1>14. ASSUME NEW p \in Processes, FailRows(p) PROVE TypeOK'
  BY <1>14 DEF FailRows, Doomed, Idle
<1>15. ASSUME NEW p \in Processes, Check(p) \/ Block(p) PROVE TypeOK'
  BY <1>15 DEF Check, Block, Idle
<1>16. CASE UNCHANGED vars
  BY <1>16 DEF vars
<1>17. CASE Agents
  BY <1>1, <1>2, <1>3, <1>4, <1>5, <1>17 DEF Agents
<1>18. ASSUME NEW p \in Processes, SweepStep(p) PROVE TypeOK'
  BY <1>12, <1>13, <1>14, <1>15, <1>18 DEF SweepStep
<1>. QED
  <2>. HIDE DEF TypeOK
  <2>. QED
    BY <1>6, <1>7, <1>8, <1>9, <1>10, <1>11, <1>16, <1>17, <1>18 DEF Next, Time

(* A step that adds no claim keeps claims unique.                          *)
LEMMA NoNewClaim ==
  ASSUME IInv, TypeOK',
         \A p \in Processes, r \in Runs :
           /\ working'[p][r] <= working[p][r] /\ starting'[p][r] <= starting[p][r]
           /\ r \in sweep'[p].look => r \in sweep[p].look
           /\ r \in sweep'[p].gone => r \in sweep[p].gone,
         silent \subseteq silent', crossed \subseteq crossed',
         \A r \in Runs : row[r] # "none" => row'[r] # "none"
  PROVE  OpenedFirst' /\ \A r \in (Runs \ Excused)' : OneClaim(r)'
<1>1. /\ working \in Counts /\ starting \in Counts
      /\ working' \in Counts /\ starting' \in Counts
  BY DEF IInv, TypeOK
<1>2. ASSUME NEW p \in Processes, NEW r \in Runs, NEW k \in Kinds, Claims(p, k, r)'
      PROVE  Claims(p, k, r)
  BY <1>1, <1>2 DEF Claims, Counts
<1>3. OpenedFirst'
  BY <1>2 DEF IInv, OpenedFirst, Claimed
<1>4. ASSUME NEW r \in Runs, r \notin Excused' PROVE OneClaim(r)'
  <2>1. OneClaim(r)
    BY <1>4 DEF IInv, Orderly, Excused
  <2>2. ASSUME NEW p \in Processes
        PROVE  /\ working'[p][r] <= 1 /\ starting'[p][r] <= 1
               /\ r \notin sweep'[p].look \cap sweep'[p].gone
    BY <1>1, <2>1, SMTT(30) DEF OneClaim, Counts
  <2>3. \A p, q \in Processes : \A k, l \in Kinds :
          Claims(p, k, r)' /\ Claims(q, l, r)' => p = q /\ k = l
    BY <1>2, <2>1 DEF OneClaim
  <2>. QED
    BY <2>2, <2>3 DEF OneClaim
<1>. QED
  BY <1>3, <1>4

(* Actions that take claims away, or leave them.                           *)
LEMMA FewerClaims ==
  ASSUME IInv, TypeOK',
         \/ \E p \in Processes, r \in Runs :
              BadStart(p, r) \/ Heartbeat(p, r) \/ Finish(p, r)
         \/ Time \/ Move \/ LoseLock \/ UNCHANGED vars
         \/ \E p \in Processes :
              Crash(p) \/ TakeLock(p) \/ FailRows(p) \/ Check(p) \/ Block(p)
  PROVE  IInv'
<1>. USE DEF rowVars, threadVars, sweepVars, history, Mishap, Stage, Idle
<1>t. TypeOK
  BY DEF IInv
<1>. DEFINE Fewer ==
       /\ \A p \in Processes, r \in Runs :
            /\ working'[p][r] <= working[p][r] /\ starting'[p][r] <= starting[p][r]
            /\ r \in sweep'[p].look => r \in sweep[p].look
            /\ r \in sweep'[p].gone => r \in sweep[p].gone
       /\ silent \subseteq silent' /\ crossed \subseteq crossed' /\ late \subseteq late'
       /\ \A r \in Runs : row[r] # "none" => row'[r] # "none"
       /\ \A r \in Runs : row'[r] = "none" => beat'[r] = "never"
     Seen ==
       \A r \in Runs : r \notin Excused' /\ Live(r)' =>
         /\ row'[r] = "running" /\ beat'[r] # "stale"
         /\ r \notin late' => \A p \in Processes : sweep'[p].at # "write"
<1>k. \A r \in Runs : Live(r) =>
         /\ row[r] # "none"
         /\ r \notin Excused =>
              /\ row[r] = "running" /\ beat[r] # "stale"
              /\ ~Swept(r)
              /\ \A p \in Processes : working[p][r] <= 1
              /\ \A p, q \in Processes : working[p][r] > 0 /\ working[q][r] > 0 => p = q
  BY DEF IInv, OpenedFirst, Claimed, Orderly, OneClaim, Shown, Live, Swept, Claims, Kinds
<1>u. Unbeaten /\ WritesIdle
  BY DEF IInv
<1>1. ASSUME NEW p \in Processes, NEW r \in Runs, BadStart(p, r) PROVE Fewer /\ Seen
  BY <1>1, <1>t, <1>k, <1>u DEF BadStart, TypeOK, Counts, Live, Excused, Unbeaten, WritesIdle
<1>2. ASSUME NEW p \in Processes, NEW r \in Runs, Heartbeat(p, r) PROVE Fewer /\ Seen
  BY <1>2, <1>t, <1>k, <1>u DEF Heartbeat, TypeOK, Counts, Live, Excused, Unbeaten, WritesIdle
<1>3. ASSUME NEW p \in Processes, NEW r \in Runs, Finish(p, r) PROVE Fewer /\ Seen
  BY <1>3, <1>t, <1>k, <1>u DEF Finish, TypeOK, Counts, Live, Excused, Unbeaten, WritesIdle
<1>4. ASSUME NEW r \in Runs, Silence(r) \/ Age(r) PROVE Fewer /\ Seen
  BY <1>4, <1>t, <1>k, <1>u DEF Silence, Age, TypeOK, Counts, Live, Excused, Unbeaten, WritesIdle
<1>5. ASSUME Move \/ LoseLock \/ UNCHANGED vars PROVE Fewer /\ Seen
  BY <1>5, <1>t, <1>k, <1>u DEF Move, LoseLock, vars, TypeOK, Counts, Live, Excused, Unbeaten, WritesIdle
<1>6. ASSUME NEW p \in Processes, Crash(p) PROVE Fewer /\ Seen
  BY <1>6, <1>t, <1>k, <1>u DEF Crash, TypeOK, Counts, Live, Excused, Unbeaten, WritesIdle
<1>7. ASSUME NEW p \in Processes, TakeLock(p) PROVE Fewer /\ Seen
  BY <1>7, <1>t, <1>k, <1>u DEF TakeLock, TypeOK, Counts, Live, Excused, Unbeaten, WritesIdle
<1>8. ASSUME NEW p \in Processes, FailRows(p) PROVE Fewer /\ Seen
  BY <1>8, <1>t, <1>k, <1>u DEF FailRows, Doomed, Swept, TypeOK, Counts, Live, Excused, Unbeaten, WritesIdle
<1>9. ASSUME NEW p \in Processes, Check(p) PROVE Fewer /\ Seen
  BY <1>9, <1>t, <1>k, <1>u DEF Check, MayBlock, TypeOK, Counts, Live, Excused, Unbeaten, WritesIdle
<1>10. ASSUME NEW p \in Processes, Block(p) PROVE Fewer /\ Seen
  BY <1>10, <1>t, <1>k, <1>u DEF Block, TypeOK, Counts, Live, Excused, Unbeaten, WritesIdle
<1>11. Fewer /\ Seen
  <2>1. CASE Time
    BY <1>4, <2>1 DEF Time
  <2>. HIDE DEF Fewer, Seen
  <2>. QED
    BY <1>1, <1>2, <1>3, <1>5, <1>6, <1>7, <1>8, <1>9, <1>10, <2>1
<1>12. OpenedFirst' /\ \A r \in (Runs \ Excused)' : OneClaim(r)'
  BY <1>11, NoNewClaim
<1>. QED
  BY <1>11, <1>12 DEF IInv, Unbeaten, Orderly, Shown, WritesIdle, Excused

(* A new run has no claim before it has a row.                             *)
LEMMA NewClaims ==
  ASSUME IInv, TypeOK', NEW p \in Processes, NEW r \in Runs, New(p, r)
  PROVE  IInv'
<1>. USE DEF New, sweepVars, TakenUp
<1>t. TypeOK
  BY DEF IInv
<1>1. \A q \in Processes, k \in Kinds : ~Claims(q, k, r)
  BY DEF IInv, OpenedFirst, Claimed, Opened
<1>2. \A q \in Processes, s \in Runs \ {r} :
        working'[q][s] = working[q][s] /\ row'[s] = row[s]
  BY <1>t DEF TypeOK, Counts
<1>3. /\ row'[r] = "running" /\ beat'[r] = "never"
      /\ \A q \in Processes : working'[q][r] = IF q = p THEN 1 ELSE 0
  <2>1. \A q \in Processes : working[q][r] = 0
    BY <1>t, <1>1 DEF TypeOK, Counts, Claims, Kinds
  <2>2. beat[r] = "never"
    BY DEF IInv, Unbeaten, Opened
  <2>3. row'[r] = "running"
    BY <1>t DEF TypeOK
  <2>4. \A q \in Processes : working'[q][r] = IF q = p THEN 1 ELSE 0
    BY <1>t, <2>1 DEF TypeOK, Counts
  <2>. QED
    BY <2>2, <2>3, <2>4
<1>4. OpenedFirst' /\ Unbeaten'
  BY <1>t, <1>2, <1>3 DEF IInv, OpenedFirst, Unbeaten, Claimed, Claims, Kinds
<1>5. OneClaim(r)' /\ Shown(r)'
  <2>1. \A q \in Processes :
          starting'[q][r] = 0 /\ r \notin sweep'[q].look \cup sweep'[q].gone
    BY <1>t, <1>1 DEF TypeOK, Counts, Claims, Kinds
  <2>. QED
    BY <1>3, <2>1 DEF OneClaim, Shown, Claims, Kinds
<1>6. ASSUME NEW s \in Runs \ {r}, s \notin Excused' PROVE OneClaim(s)' /\ Shown(s)'
  BY <1>2, <1>6 DEF IInv, Orderly, OneClaim, Shown, Live, Claims, Excused
<1>7. WritesIdle'
  BY <1>2 DEF IInv, WritesIdle, Excused, Live
<1>. QED
  BY <1>4, <1>5, <1>6, <1>7 DEF IInv, Orderly

(* A thread that opens its row turns its claim into one at work.           *)
LEMMA OpenClaims ==
  ASSUME IInv, TypeOK', NEW p \in Processes, NEW r \in Runs, Open(p, r)
  PROVE  IInv'
<1>. USE DEF Open, Reopened, sweepVars, TakenUp
<1>t. TypeOK
  BY DEF IInv
<1>1. Claims(p, "start", r)
  BY DEF Claims
<1>2. \A q \in Processes, s \in Runs \ {r} :
        /\ working'[q][s] = working[q][s] /\ starting'[q][s] = starting[q][s]
        /\ row'[s] = row[s] /\ beat'[s] = beat[s]
  BY <1>t DEF TypeOK, Counts
<1>3. row'[r] = "running" /\ beat'[r] = "fresh"
  BY <1>t DEF TypeOK
<1>4. OpenedFirst' /\ Unbeaten'
  BY <1>t, <1>2, <1>3 DEF IInv, OpenedFirst, Unbeaten, Claimed, Claims, Kinds
<1>5. ASSUME r \notin Excused' PROVE OneClaim(r)' /\ Shown(r)'
  <2>1. OneClaim(r)
    BY <1>5 DEF IInv, Orderly, Excused
  <2>2. \A q \in Processes, k \in Kinds : Claims(q, k, r) => q = p /\ k = "start"
    BY <1>1, <2>1 DEF OneClaim, Kinds
  <2>3. /\ starting[p][r] = 1
        /\ \A q \in Processes : working[q][r] = 0 /\ (q # p => starting[q][r] = 0)
    BY <1>t, <2>1, <2>2 DEF TypeOK, Counts, OneClaim, Claims, Kinds
  <2>4. \A q \in Processes :
          /\ working'[q][r] = IF q = p THEN 1 ELSE 0
          /\ starting'[q][r] = 0
    BY <1>t, <2>3 DEF TypeOK, Counts
  <2>. QED
    BY <1>3, <2>2, <2>4 DEF OneClaim, Shown, Claims, Kinds
<1>6. ASSUME NEW s \in Runs \ {r}, s \notin Excused' PROVE OneClaim(s)' /\ Shown(s)'
  BY <1>2, <1>6 DEF IInv, Orderly, OneClaim, Shown, Live, Claims, Excused
<1>7. WritesIdle'
  BY <1>2 DEF IInv, WritesIdle, Excused, Live
<1>. QED
  BY <1>4, <1>5, <1>6, <1>7 DEF IInv, Orderly

(* A thread sent by a person claims a run nobody claims, or is excused.    *)
LEMMA PressClaims ==
  ASSUME IInv, TypeOK', NEW p \in Processes, Press(p)
  PROVE  IInv'
<1>. USE DEF rowVars, sweepVars
<1>t. TypeOK
  BY DEF IInv
<1>1. PICK r \in Opened :
        /\ starting' = [starting EXCEPT ![p][r] = @ + 1]
        /\ crossed' = IF Live(r) \/ Sent(r) \/ Swept(r) THEN crossed \cup {r} ELSE crossed
  BY DEF Press
<1>2. /\ r \in Runs /\ row[r] # "none"
      /\ UNCHANGED <<row, beat, working, sweep, silent, late>> /\ crossed \subseteq crossed'
  BY <1>1 DEF Opened, Press
<1>3. \A q \in Processes, s \in Runs \ {r} : starting'[q][s] = starting[q][s]
  BY <1>t, <1>1, <1>2 DEF TypeOK, Counts
<1>4. OpenedFirst' /\ Unbeaten' /\ WritesIdle'
  BY <1>2, <1>3 DEF IInv, OpenedFirst, Unbeaten, WritesIdle, Claimed, Claims, Kinds, Live, Excused
<1>5. ASSUME r \notin Excused' PROVE OneClaim(r)' /\ Shown(r)'
  <2>1. ~Live(r) /\ ~Sent(r) /\ ~Swept(r)
    BY <1>1, <1>5 DEF Excused
  <2>2. \A q \in Processes :
          /\ working'[q][r] = 0
          /\ starting'[q][r] = IF q = p THEN 1 ELSE 0
          /\ r \notin sweep'[q].look \cup sweep'[q].gone
    BY <1>t, <1>1, <1>2, <2>1 DEF TypeOK, Counts, Live, Sent, Swept
  <2>. QED
    BY <2>2 DEF OneClaim, Shown, Live, Claims, Kinds
<1>6. ASSUME NEW s \in Runs \ {r}, s \notin Excused' PROVE OneClaim(s)' /\ Shown(s)'
  BY <1>2, <1>3, <1>6 DEF IInv, Orderly, OneClaim, Shown, Live, Claims, Excused
<1>. QED
  BY <1>4, <1>5, <1>6 DEF IInv, Orderly

(* A sweep finds rows no thread refreshes: those on which no thread works. *)
LEMMA SelectClaims ==
  ASSUME IInv, TypeOK', NEW p \in Processes, Select(p)
  PROVE  IInv'
<1>. USE DEF rowVars, threadVars, Stage
<1>t. TypeOK
  BY DEF IInv
<1>. DEFINE found == {r \in Runs : Stale(r)}
<1>1. /\ sweep' = [sweep EXCEPT ![p] = Stage("resume", found, {})]
      /\ crossed' = crossed \cup {r \in found : Sent(r)} \cup {r \in found : Swept(r)}
      /\ UNCHANGED <<row, beat, starting, working, silent, late>>
  BY DEF Select
<1>2. \A q \in Processes : sweep'[q] = IF q = p THEN Stage("resume", found, {}) ELSE sweep[q]
  BY <1>t, <1>1 DEF TypeOK
<1>3. OpenedFirst' /\ Unbeaten' /\ WritesIdle'
  BY <1>1, <1>2 DEF IInv, OpenedFirst, Unbeaten, WritesIdle, Claimed, Claims, Kinds, Live,
                    Excused, Stale
<1>4. ASSUME NEW r \in found, r \notin Excused' PROVE OneClaim(r)' /\ Shown(r)'
  <2>1. r \in Runs /\ r \notin Excused /\ ~Sent(r) /\ ~Swept(r)
    BY <1>1, <1>4 DEF Excused
  <2>2. ~Live(r)
    BY <2>1 DEF IInv, Orderly, Shown, Stale
  <2>3. \A q \in Processes :
          /\ working'[q][r] = 0 /\ starting'[q][r] = 0
          /\ r \notin sweep'[q].gone
          /\ q # p => r \notin sweep'[q].look \cup sweep'[q].gone
    BY <1>t, <1>1, <1>2, <2>1, <2>2 DEF TypeOK, Counts, Live, Sent, Swept
  <2>. QED
    BY <2>3 DEF OneClaim, Shown, Live, Claims, Kinds
<1>5. ASSUME NEW r \in Runs \ found, r \notin Excused' PROVE OneClaim(r)' /\ Shown(r)'
  <2>1. OneClaim(r) /\ Shown(r)
    BY <1>1, <1>5 DEF IInv, Orderly, Excused
  <2>2. \A q \in Processes, k \in Kinds : Claims(q, k, r)' => Claims(q, k, r)
    BY <1>1, <1>2, <1>5 DEF Claims, Kinds
  <2>. QED
    BY <1>1, <2>1, <2>2 DEF OneClaim, Shown, Live
<1>. QED
  BY <1>3, <1>4, <1>5 DEF IInv, Orderly

(* The sweep hands its claim to the thread it sends, or keeps it.          *)
LEMMA TryClaims ==
  ASSUME IInv, TypeOK', NEW p \in Processes, NEW r \in Runs, Try(p, r)
  PROVE  IInv'
<1>. USE DEF rowVars, history, Stage
<1>t. TypeOK
  BY DEF IInv
<1>1. /\ r \in sweep[p].look
      /\ UNCHANGED <<row, beat, working, silent, crossed, late>>
  BY DEF Try
<1>2. \/ /\ sweep' = [sweep EXCEPT ![p] = Stage("resume", @.look \ {r}, @.gone \cup {r})]
         /\ starting' = starting
      \/ /\ sweep' = [sweep EXCEPT ![p] = Stage("resume", @.look \ {r}, @.gone)]
         /\ starting' = [starting EXCEPT ![p][r] = @ + 1]
  BY DEF Try
<1>3. Claims(p, "sweep", r)
  BY <1>1 DEF Claims
<1>4. \A q \in Processes, s \in Runs \ {r} :
        /\ starting'[q][s] = starting[q][s]
        /\ s \in sweep'[q].look => s \in sweep[q].look
        /\ s \in sweep'[q].gone => s \in sweep[q].gone
  <2>1. ASSUME NEW q \in Processes, NEW s \in Runs \ {r}
        PROVE  /\ s \in sweep'[q].look => s \in sweep[q].look
               /\ s \in sweep'[q].gone => s \in sweep[q].gone
    BY <1>t, <1>2 DEF TypeOK
  <2>2. \A q \in Processes, s \in Runs \ {r} : starting'[q][s] = starting[q][s]
    <3>1. \/ starting' = starting
          \/ starting' = [starting EXCEPT ![p][r] = starting[p][r] + 1]
      BY <1>2
    <3>2. starting \in [Processes -> [Runs -> Nat]]
      BY <1>t DEF TypeOK, Counts
    <3>. QED
      BY <3>1, <3>2
  <2>. QED
    BY <2>1, <2>2
<1>5. OpenedFirst' /\ Unbeaten'
  <2>1. row[r] # "none"
    BY <1>3 DEF IInv, OpenedFirst, Claimed, Kinds
  <2>. QED
    BY <1>1, <1>4, <2>1 DEF IInv, OpenedFirst, Unbeaten, Claimed, Claims, Kinds
<1>6. WritesIdle'
  <2>1. \A q \in Processes : sweep'[q].at = "write" => sweep[q].at = "write"
    BY <1>t, <1>2 DEF TypeOK
  <2>. QED
    BY <1>1, <2>1 DEF IInv, WritesIdle, Live, Excused
<1>7. ASSUME r \notin Excused' PROVE OneClaim(r)' /\ Shown(r)'
  <2>1. OneClaim(r) /\ Shown(r)
    BY <1>1, <1>7 DEF IInv, Orderly, Excused
  <2>2. \A q \in Processes, k \in Kinds : Claims(q, k, r) => q = p /\ k = "sweep"
    BY <1>3, <2>1 DEF OneClaim, Kinds
  <2>3. r \notin sweep[p].gone
    BY <1>1, <2>1 DEF OneClaim
  <2>4. \A q \in Processes :
          /\ working'[q][r] = 0 /\ starting[q][r] = 0
          /\ q # p => r \notin sweep[q].look \cup sweep[q].gone
    BY <1>t, <1>1, <2>2 DEF TypeOK, Counts, Claims, Kinds
  <2>5. \A q \in Processes : q # p => starting'[q][r] = 0 /\ sweep'[q] = sweep[q]
    BY <1>t, <1>2, <2>4 DEF TypeOK, Counts
  <2>6. r \notin sweep'[p].look
    BY <1>t, <1>2 DEF TypeOK
  <2>7. CASE starting' = starting
    BY <2>4, <2>5, <2>6, <2>7 DEF OneClaim, Shown, Live, Claims, Kinds
  <2>8. ASSUME sweep' = [sweep EXCEPT ![p] = Stage("resume", @.look \ {r}, @.gone)],
               starting' = [starting EXCEPT ![p][r] = @ + 1]
        PROVE  OneClaim(r)' /\ Shown(r)'
    <3>1. starting'[p][r] = 1
      BY <1>t, <2>4, <2>8 DEF TypeOK, Counts
    <3>2. r \notin sweep'[p].gone
      BY <1>t, <2>3, <2>8 DEF TypeOK
    <3>. QED
      BY <2>4, <2>5, <2>6, <3>1, <3>2 DEF OneClaim, Shown, Live, Claims, Kinds
  <2>. QED
    BY <1>2, <2>7, <2>8
<1>8. ASSUME NEW s \in Runs \ {r}, s \notin Excused' PROVE OneClaim(s)' /\ Shown(s)'
  BY <1>1, <1>4, <1>8 DEF IInv, Orderly, OneClaim, Shown, Live, Claims, Excused
<1>. QED
  BY <1>5, <1>6, <1>7, <1>8 DEF IInv, Orderly

-----------------------------------------------------------------------------
LEMMA Initially == Init => IInv
<1>1. Init => TypeOK
  BY DEF Init, TypeOK, Counts, Idle, Stage
<1>2. Init => \A p \in Processes, k \in Kinds, r \in Runs : ~Claims(p, k, r)
  BY DEF Init, Claims, Idle, Stage
<1>3. Init => \A p \in Processes, r \in Runs :
        working[p][r] = 0 /\ starting[p][r] = 0 /\ sweep[p] = Idle
  BY DEF Init
<1>. QED
  BY <1>1, <1>2, <1>3 DEF Init, IInv, OpenedFirst, Unbeaten, Orderly, WritesIdle, Claimed,
                          OneClaim, Shown, Live, Idle, Stage

LEMMA Inductive == IInv /\ [Next]_vars => IInv'
<1> SUFFICES ASSUME IInv, [Next]_vars PROVE IInv'
  OBVIOUS
<1>t. TypeOK'
  BY TypeInvariant DEF IInv
<1>1. CASE Agents
  BY <1>t, <1>1, NewClaims, OpenClaims, FewerClaims DEF Agents
<1>2. ASSUME NEW p \in Processes, Press(p) \/ Crash(p) \/ TakeLock(p) \/ SweepStep(p)
      PROVE  IInv'
  BY <1>t, <1>2, PressClaims, SelectClaims, TryClaims, FewerClaims DEF SweepStep
<1>3. CASE Time \/ Move \/ LoseLock \/ UNCHANGED vars
  BY <1>t, <1>3, FewerClaims
<1>. QED
  BY <1>1, <1>2, <1>3 DEF Next

LEMMA Invariant == Spec => []IInv
BY Initially, Inductive, PTL DEF Spec

(* A run outside the known overlaps never has two threads at work.         *)
THEOREM OneThread == Spec => []OneThreadPerRun
<1>1. IInv => OneThreadPerRun
  <2> SUFFICES ASSUME IInv, NEW r \in Runs, r \notin silent \cup crossed PROVE Alone(r)
    BY DEF OneThreadPerRun
  <2>1. OneClaim(r) /\ \A p \in Processes : working[p][r] \in Nat
    BY DEF IInv, Orderly, Excused, TypeOK, Counts
  <2>. QED
    BY <2>1 DEF Alone, OneClaim, Claims, Kinds
<1>. QED
  BY <1>1, Invariant, PTL

(* The sweep never blocks a task while an agent works on a run outside     *)
(* them that it had not taken up too late for the sweep to see.            *)
THEOREM BlocksIdle == Spec => BlocksIdleTask
<1>1. IInv /\ [Next]_vars =>
        [\A p \in Processes : Block(p) /\ task' # task =>
           \A r \in Runs : Live(r) => r \in silent \cup crossed \cup late]_vars
  BY DEF IInv, WritesIdle, Excused, Block
<1>. QED
  BY <1>1, Invariant, PTL DEF Spec, BlocksIdleTask
=============================================================================
