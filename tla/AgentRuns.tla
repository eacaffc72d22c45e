------------------------------ MODULE AgentRuns ------------------------------
(***************************************************************************)
(* The rows of agent_runs for one task (db/repository.py), the agent       *)
(* threads that open, refresh and close them (agents/base_graph.py), the   *)
(* sweep for rows whose thread is gone (fleet/failure_ladder.py), which    *)
(* resumes a run from its checkpoint or fails it and blocks the task,      *)
(* people who press Resume (api/activity.py), and the advisory lock that   *)
(* picks the process that sweeps (main.py).                                *)
(*                                                                         *)
(* What an agent does between its heartbeats is AgentLoop; the task's own  *)
(* status machine is TaskLifecycle: here others move the task at will.     *)
(* Alerts, the agent registry and the counts of a run are left out.        *)
(***************************************************************************)
EXTENDS Naturals, FiniteSets

CONSTANTS
  MaxRuns,       \* bound: rows, numbered by started_at
  Mixes,         \* which of them may be of an agent that accepts resume_trace_id
  Processes,     \* processes of the server
  Nobody,        \* the lock is free
  Window,        \* cross_run_loop_window
  MaxMishaps     \* bound: silences, presses of Resume, starts that raise, sweeps
                 \* that find a thread still starting, lost locks and crashes

Runs == 1..MaxRuns

ASSUME RunsAssumption == Mixes \subseteq SUBSET Runs /\ Window \in Nat \ {0} /\ MaxMishaps \in Nat
ASSUME NobodyAssumption == Nobody \notin Processes

VARIABLES
  resumable,  \* the runs of that agent; the others are of another one
  row,        \* AgentRun.status, or "none" before the row exists
  beat,       \* last_heartbeat_at: "never", or "fresh", "stale" by the threshold
  starting,   \* threads of a process that were sent to resume a run
  working,    \* threads of a process that work on a run
  task,       \* DevTask.status: "active" is planning, coding or testing
  holder,     \* who holds the advisory lock of the sweep
  loops,      \* the processes whose sweep loop runs
  sweep,      \* where the sweep of each process is
  silent,     \* history: runs that missed the threshold with a thread at work
  crossed,    \* history: runs that were sent a thread, or found by a sweep,
              \* while another was about to send them one
  late,       \* history: runs an agent took up after a sweep that blocks their
              \* task had looked
  mishaps     \* how many there were

rowVars == <<row, beat>>
threadVars == <<starting, working>>
sweepVars == <<holder, loops, sweep>>
history == <<silent, crossed, late, mishaps>>
vars == <<resumable, rowVars, threadVars, task, sweepVars, history>>

Stage(at, look, gone) == [at |-> at, look |-> look, gone |-> gone]
Idle == Stage("idle", {}, {})

Init ==
  /\ resumable \in Mixes
  /\ row = [r \in Runs |-> "none"]
  /\ beat = [r \in Runs |-> "never"]
  /\ starting = [p \in Processes |-> [r \in Runs |-> 0]]
  /\ working = starting
  /\ task = "active"
  /\ holder = Nobody
  /\ loops = {}
  /\ sweep = [p \in Processes |-> Idle]
  /\ silent = {}
  /\ crossed = {}
  /\ late = {}
  /\ mishaps = 0

Mishap ==
  /\ mishaps < MaxMishaps
  /\ mishaps' = mishaps + 1

Sent(r) == \E p \in Processes : starting[p][r] > 0
Live(r) == \E p \in Processes : working[p][r] > 0
Stale(r) == row[r] = "running" /\ beat[r] = "stale"

Opened == {r \in Runs : row[r] # "none"}

(* A sweep has found r and may yet resume or fail it.                      *)
Swept(r) == \E p \in Processes : r \in sweep[p].look \cup sweep[p].gone

TakenUp(r) ==
  late' = IF \E p \in Processes : sweep[p].at = "write" THEN late \cup {r} ELSE late

-----------------------------------------------------------------------------
(* Threads.                                                                *)

(* A new run: create_agent_run(), which leaves the heartbeat NULL.         *)
New(p, r) ==
  /\ r \notin Opened /\ 1..(r - 1) \subseteq Opened
  /\ row' = [row EXCEPT ![r] = "running"]
  /\ working' = [working EXCEPT ![p][r] = @ + 1]
  /\ TakenUp(r)
  /\ UNCHANGED <<resumable, beat, starting, task, sweepVars, silent, crossed, mishaps>>

(* Slip: a reopened row keeps the heartbeat of the thread that died.       *)
ReopenedStale(r) == row' = [row EXCEPT ![r] = "running"] /\ UNCHANGED beat
(* reopen_agent_run(), whatever the row says.                              *)
Reopened(r) ==
  /\ row' = [row EXCEPT ![r] = "running"]
  /\ beat' = [beat EXCEPT ![r] = "fresh"]

Open(p, r) ==
  /\ starting[p][r] > 0
  /\ starting' = [starting EXCEPT ![p][r] = @ - 1]
  /\ working' = [working EXCEPT ![p][r] = @ + 1]
  /\ Reopened(r)
  /\ TakenUp(r)
  /\ UNCHANGED <<resumable, task, sweepVars, silent, crossed, mishaps>>

(* It raises on its way there: logged, and the row stays as it is.         *)
BadStart(p, r) ==
  /\ starting[p][r] > 0
  /\ Mishap
  /\ starting' = [starting EXCEPT ![p][r] = @ - 1]
  /\ UNCHANGED <<resumable, rowVars, working, task, sweepVars, silent, crossed, late>>

(* Before a tool call, by id.                                              *)
Heartbeat(p, r) ==
  /\ working[p][r] > 0
  /\ beat[r] # "fresh"
  /\ beat' = [beat EXCEPT ![r] = "fresh"]
  /\ UNCHANGED <<resumable, row, threadVars, task, sweepVars, history>>

(* A call to the model, or a tool, takes longer than the threshold.        *)
Silence(r) ==
  /\ Live(r) /\ beat[r] = "fresh"
  /\ Mishap
  /\ beat' = [beat EXCEPT ![r] = "stale"]
  /\ silent' = silent \cup {r}
  /\ UNCHANGED <<resumable, row, threadVars, task, sweepVars, crossed, late>>

(* Time passes over a row no thread refreshes.                             *)
Age(r) ==
  /\ row[r] = "running" /\ beat[r] = "fresh" /\ ~Live(r)
  /\ beat' = [beat EXCEPT ![r] = "stale"]
  /\ UNCHANGED <<resumable, row, threadVars, task, sweepVars, history>>

(* finish_agent_run(), by id: a result, or an exception.                   *)
Finish(p, r) ==
  /\ working[p][r] > 0
  /\ working' = [working EXCEPT ![p][r] = @ - 1]
  /\ \E s \in {"completed", "failed"} : row' = [row EXCEPT ![r] = s]
  /\ UNCHANGED <<resumable, beat, starting, task, sweepVars, history>>

-----------------------------------------------------------------------------
(* People and the rest of the server.                                      *)

(* resume_task(): the latest run of the task, whatever its row says and    *)
(* whether or not a thread works on it; refused when the task has ended.   *)
Press(p) ==
  /\ task # "ended"
  /\ Mishap
  /\ \E r \in Opened \cap resumable :
       /\ \A q \in Opened : q <= r
       /\ starting' = [starting EXCEPT ![p][r] = @ + 1]
       /\ crossed' = IF Live(r) \/ Sent(r) \/ Swept(r) THEN crossed \cup {r} ELSE crossed
  /\ UNCHANGED <<resumable, rowVars, working, task, sweepVars, silent, late>>

(* Other requests and jobs move the task.                                  *)
Move ==
  /\ task # "ended"
  /\ task' \in {"active", "blocked", "ended"} \ {task}
  /\ UNCHANGED <<resumable, rowVars, threadVars, sweepVars, history>>

(* The lock goes with its connection.                                      *)
Released(p) == IF holder = p THEN Nobody ELSE holder

Crash(p) ==
  /\ Mishap
  /\ starting' = [starting EXCEPT ![p] = [r \in Runs |-> 0]]
  /\ working' = [working EXCEPT ![p] = [r \in Runs |-> 0]]
  /\ sweep' = [sweep EXCEPT ![p] = Idle]
  /\ loops' = loops \ {p}
  /\ holder' = Released(p)
  /\ UNCHANGED <<resumable, rowVars, task, silent, crossed, late>>

-----------------------------------------------------------------------------
(* The sweep.                                                              *)

(* _run_as_leader(): pg_try_advisory_lock(), then the loop.                *)
TakeLock(p) ==
  /\ holder = Nobody /\ p \notin loops
  /\ holder' = p
  /\ loops' = loops \cup {p}
  /\ UNCHANGED <<resumable, rowVars, threadVars, task, sweep, history>>

(* The connection drops; run_loop() is not told.                           *)
LoseLock ==
  /\ holder # Nobody
  /\ Mishap
  /\ holder' = Nobody
  /\ UNCHANGED <<resumable, rowVars, threadVars, task, loops, sweep, silent, crossed, late>>

Select(p) ==
  LET found == {r \in Runs : Stale(r)}
      meets == {r \in found : Sent(r)} IN
  /\ p \in loops /\ sweep[p].at = "idle" /\ found # {}
  /\ sweep' = [sweep EXCEPT ![p] = Stage("resume", found, {})]
  /\ IF meets = {} THEN UNCHANGED mishaps ELSE Mishap
  /\ crossed' = crossed \cup meets \cup {r \in found : Swept(r)}
  /\ UNCHANGED <<resumable, rowVars, threadVars, task, holder, loops, silent, late>>

(* _is_cross_run_looping(): the last other runs of this agent all failed.  *)
Looping(r) ==
  LET others == {x \in Opened \ {r} : x \in resumable <=> r \in resumable}
      last == {x \in others : Cardinality({y \in others : y > x}) < Window}
  IN Cardinality(others) >= Window /\ \A x \in last : row[x] = "failed"

Hopeless(r) == Looping(r) \/ r \notin resumable

(* One row: its agent is sent to its checkpoint, or it is to be failed.    *)
Try(p, r) ==
  /\ sweep[p].at = "resume" /\ r \in sweep[p].look
  /\ IF Hopeless(r)
     THEN /\ sweep' = [sweep EXCEPT ![p] = Stage("resume", @.look \ {r}, @.gone \cup {r})]
          /\ UNCHANGED starting
     ELSE /\ sweep' = [sweep EXCEPT ![p] = Stage("resume", @.look \ {r}, @.gone)]
          /\ starting' = [starting EXCEPT ![p][r] = @ + 1]
  /\ UNCHANGED <<resumable, rowVars, working, task, holder, loops, history>>

(* Slip: a run that loops is neither resumed nor failed.                   *)
DoomedUnlessLooping(p) == {r \in sweep[p].gone : ~Looping(r)}
Doomed(p) == sweep[p].gone

(* UPDATE ... WHERE id = ANY(:ids), then commit.                           *)
FailRows(p) ==
  /\ sweep[p].at = "resume" /\ sweep[p].look = {}
  /\ row' = [r \in Runs |-> IF r \in Doomed(p) THEN "failed" ELSE row[r]]
  /\ sweep' = [sweep EXCEPT ![p] =
                 IF Doomed(p) = {} THEN Idle ELSE Stage("block", {}, {})]
  /\ UNCHANGED <<resumable, beat, threadVars, task, holder, loops, history>>

(* Slip: a task is blocked for one lost run, whatever its other runs do.   *)
MayBlockAnyway == task = "active"
MayBlock == task = "active" /\ \A r \in Runs : row[r] # "running"

(* _block_tasks_of_orphans(): it reads the rows and the status, then moves *)
(* the task, unless someone else has meanwhile.                            *)
Check(p) ==
  /\ sweep[p].at = "block"
  /\ sweep' = [sweep EXCEPT ![p] = IF MayBlock THEN Stage("write", {}, {}) ELSE Idle]
  /\ UNCHANGED <<resumable, rowVars, threadVars, task, holder, loops, history>>

Block(p) ==
  /\ sweep[p].at = "write"
  /\ task' = IF task = "active" THEN "blocked" ELSE task
  /\ sweep' = [sweep EXCEPT ![p] = Idle]
  /\ UNCHANGED <<resumable, rowVars, threadVars, holder, loops, history>>

-----------------------------------------------------------------------------
Agents == \E p \in Processes, r \in Runs :
  New(p, r) \/ Open(p, r) \/ BadStart(p, r) \/ Heartbeat(p, r) \/ Finish(p, r)
Time == \E r \in Runs : Silence(r) \/ Age(r)
SweepStep(p) ==
  Select(p) \/ (\E r \in Runs : Try(p, r)) \/ FailRows(p) \/ Check(p) \/ Block(p)

Next ==
  \/ Agents
  \/ Time
  \/ Move
  \/ LoseLock
  \/ \E p \in Processes : Press(p) \/ Crash(p) \/ TakeLock(p) \/ SweepStep(p)

Spec == Init /\ [][Next]_vars

(* The loop sweeps every five minutes, some process retries the lock, a    *)
(* thread that was sent runs, and time passes. An agent may take for ever. *)
FairSpec ==
  /\ Spec
  /\ WF_vars(\E r \in Runs : Age(r))
  /\ WF_vars(\E p \in Processes, r \in Runs : Open(p, r))
  /\ WF_vars(\E p \in Processes : TakeLock(p))
  /\ \A p \in Processes : WF_vars(SweepStep(p))

-----------------------------------------------------------------------------
Counts == [Processes -> [Runs -> Nat]]

TypeOK ==
  /\ resumable \in Mixes
  /\ row \in [Runs -> {"none", "running", "completed", "failed"}]
  /\ beat \in [Runs -> {"never", "fresh", "stale"}]
  /\ starting \in Counts /\ working \in Counts
  /\ task \in {"active", "blocked", "ended"}
  /\ holder \in Processes \cup {Nobody} /\ loops \subseteq Processes
  /\ sweep \in [Processes -> [at : {"idle", "resume", "block", "write"},
                              look : SUBSET Runs, gone : SUBSET Runs]]
  /\ silent \subseteq Runs /\ crossed \subseteq Runs /\ late \subseteq Runs

Alone(r) ==
  \A p, q \in Processes :
    working[p][r] > 0 /\ working[q][r] > 0 => p = q /\ working[p][r] = 1

(* A checkpoint has one thread at work: crashes, restarts, a change of     *)
(* leader and sweeps that fail never give it a second. The only ways there *)
(* are a thread that was silent past the threshold, and a start that       *)
(* crossed another (a press on a run at work, a press and a sweep, a sweep *)
(* and one that follows before the thread has reopened its row, the sweeps *)
(* of two processes).                                                      *)
OneThreadPerRun ==
  \A r \in Runs : Alone(r) \/ r \in silent \cup crossed

(* The sweep blocks a task as orphaned only when no agent works on it, but *)
(* for runs in one of those two ways and one taken up after the sweep has  *)
(* looked.                                                                 *)
BlocksIdleTask ==
  [][\A p \in Processes : Block(p) /\ task' # task =>
       \A r \in Runs : Live(r) => r \in silent \cup crossed \cup late]_vars

(* A run whose thread is gone after a heartbeat does not stay "running"    *)
(* for ever: it ends as failed, or an agent works on it again.             *)
DeadRunsSettle ==
  \A r \in Runs :
    row[r] = "running" /\ ~Live(r) /\ beat[r] # "never"
      ~> row[r] # "running" \/ Live(r)

(* What the two would be without exceptions, and the code does not keep: a *)
(* run lost before its first tool call has no heartbeat to be stale.       *)
EveryDeadRunSettles ==
  \A r \in Runs :
    row[r] = "running" /\ ~Live(r) ~> row[r] # "running" \/ Live(r)
NeverTwoThreads == \A r \in Runs : Alone(r)
=============================================================================
