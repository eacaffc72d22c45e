# Formal model of the multi-agent company backend

The repository is a FastAPI server (`backend/app`) that takes tasks and epics
from people, lets language-model agents plan and code them, and asks people for
approval in between. This directory holds TLA+ models of the parts of it that
are hard to test (several requests and background jobs over the same rows,
cancellations, restarts, locks that expire), the TLC runs that check them, and
TLAPS proofs of the properties that matter most. Paths below are relative to
`backend/app`.

## 1. The system and its parts

| part | state it keeps | operations | what makes it correct |
|---|---|---|---|
| Task lifecycle (`api/tasks.py`, `api/agents.py`, `api/activity.py`, `db/models.py`, `db/repository.py`) | status, plan stage, diff of one task; approval rows; jobs in flight | run, restart, repeat, stop, cancel, resume, approve, complete, push, patch; planning, coding and pushing jobs | status only moves along `VALID_TRANSITIONS`; one approved plan is coded once; an active task has someone at work on it, or a known accident behind it |
| Approvals (`api/approvals.py`, `fleet/approval_gate.py`) | pending rows per thread | record, decide, supersede | a decision is applied once, to what was asked |
| Agent loop (`agents/base_graph.py`) | messages, tool uses that wait, verification flags, turns, the run's row | call the model, run a batch of tools, reflect, review a submission, replan, stop, resume from the checkpoint | requests the API accepts; no side effect twice; bounded calls; honest claims; it ends and settles its row |
| Agent runs (`db/repository.py`, `fleet/failure_ladder.py`, `api/activity.py`, `main.py`) | `agent_runs` rows with heartbeats, the advisory lock of the sweep | open, refresh, close, reopen; sweep, resume, fail, block the task | one thread per checkpoint; only dead tasks are blocked; dead runs settle |
| Subtask waves (`agents/manager.py`, `pipeline/dynamic_subtasks.py`, `pipeline/graph.py`) | the plan, the queue of waves, attempts, rows of subtasks, the index of one worktree | edit a plan, order it, dispatch a wave, develop, commit, check, retry, propose a step, halt | every step once, in order, apart from those that write its files; commits of its own changes; all accounted for, and no permit kept |
| Concurrency caps (`pipeline/concurrency.py`) | permits, heap of waiters | acquire, release, cancel, time out | no permit lost, no sleeper beside a free permit, order by priority |
| Circuit breaker (`fleet/circuit_breaker.py`) | state, failure count, opening time | allow, record | one trial per opening; recovers |
| Spend cap (`fleet/spend_guard.py`) | a total per process and one in Redis, per day | reserve, settle, withdraw | a call is let in below the cap; the ledger is the bill |
| Idempotency keys (`middleware/idempotency.py`) | one row per key | reserve, look up, store, release, purge | work of a key takes effect once; replies are replays |
| Epic manager (`agents/manager.py`, `api/epics.py`) | status of an epic, its child tasks, jobs | start, approve cost / plan / policy / result, reject; planning job, coding job | one job per epic; closed stays closed; no dead status |
| Epic file locks (`pipeline/file_locks.py`, `pipeline/conflict_guard.py`) | one row per file, with a time to live | reserve, renew, reap, release; read of other plans | no two epics code the same file |
| Job queue, dependency dispatch, tool approvals, event bus, chat, memory, authentication, projects, ... | see `PROJECT.json`, `components` | | not modelled, section 8 |

How they interact. A request handler reads rows, moves the status of the task
by compare-and-swap (`transition_task`), commits, and dispatches a job. The job
takes a slot (semaphore), calls agents (breaker, spend cap), and writes the
same rows. It stops where a person has to decide; the decision comes in by
another request, which starts the next job. The epic manager does the same one
level up: its child task carries the plan, its files are locked, and the plan
is run in waves of subtasks. Every agent of a job is one run of the agent loop
in a thread, with a row in `agent_runs`. Background loops (orphan sweep, purge
of keys) work on the same tables. Nothing but the database, Redis and one lock
per process orders these actors.

Where it is hard: handlers interleave between two commits; a job goes on after
its task was cancelled; a job raises or is cut off
half-way; the server stops and only the
tables remain; a cancellation meets a grant; results arrive after the state
they belong to is gone; a lock expires while people think. `PROJECT.json`,
`hazards`, lists these places by file and line, with the properties that watch
them, or the reason why none does. Section 8 ends with the smaller ones.

## 2. Modules

| module | what it is |
|---|---|
| `CircuitBreaker`, `MCCircuitBreaker` | the breaker, four callers for TLC |
| `StatusMachine` | what the status of a task promises to everybody who looks at it |
| `TaskLifecycle`, `MCTaskLifecycle`, `TaskLifecycle_proofs` | one task and every request, job and sweep on it; implements `StatusMachine`; six theorems |
| `AgentLoop`, `MCAgentLoop`, `AgentLoop_proofs` | one run of an agent, node by node, with its crashes and resumes; seven theorems |
| `AgentRuns`, `MCAgentRuns`, `AgentRuns_proofs` | the rows and threads of the runs of a task in several processes, and the sweep; two theorems |
| `SubtaskSchedule` | what the order of subtasks promises |
| `ManagerWaves`, `MCManagerWaves`, `ManagerWaves_proofs` | one run of a plan; implements `SubtaskSchedule`; eight theorems, and three about `SubtaskSchedule` itself |
| `BoundedGate` | what a cap promises: never more than `Capacity` inside |
| `PrioritySemaphore`, `MCPrioritySemaphore`, `PrioritySemaphore_proofs` | the semaphore at the grain of event-loop turns; implements `BoundedGate`; five theorems |
| `SpendGuard`, `MCSpendGuard` | the spend cap over processes and Redis |
| `LLMGuards_proofs` | the two guards in front of every provider call, `CircuitBreaker` and `SpendGuard`: four theorems about each |
| `IdempotencyKey`, `MCIdempotencyKey`, `IdempotencyKey_proofs` | one key; five theorems |
| `EpicFileLocks` | the lock table, and its operations as actions on it |
| `EpicManager`, `MCEpicManager`, `EpicManager_proofs` | epics, their jobs and requests; extends `EpicFileLocks`; seven theorems |

In every module a definition marked `Slip:` is a plausible mistake in the
definition it precedes. None is part of the specification; each is there so
that a property can be seen to fail when the code is wrong
(`PROJECT.json`, `mutants`).

### CircuitBreaker
`AllowClosed`, `AllowProbe`, `RecordSuccess`, `RecordFailure` are the methods,
each one step since it runs under the breaker's lock. The provider call between
`allow()` and its record is not: `inFlight` holds the callers in it, so late
reports of earlier calls meet every state. `Tick` is the clock, `Toggle` the
provider. `trials` is history: the calls admitted since the last opening. The
names that `SpendGuard` has too begin with `Breaker`, so that one module of
proofs extends both.

### TaskLifecycle
One task. `pc[p]` is where a request or job stands between two commits; the
label names the commit to come, so each disjunct is one commit of the handler
that "map" names, with its guard and all it writes. A request becomes the job it
dispatches, unless `dispatch_job()` refuses after the status is committed (503, its
progress could not be saved). Agents, git and LangGraph are external and return
any of the results the code tells apart.

Three things end a job in the middle. The wall clock of `dispatch_job()` cancels
it (`Cut`): no handler catches a `CancelledError`, so status and stage stay as
they are, and the agent may go on in its thread. `Crash` clears every process
and leaves the rows. A refused dispatch leaves the status that was committed
for the job. `strays` are the running `agent_runs` rows with no job behind them:
stale (a heartbeat that grows old), silent (none was ever written, so
`last_heartbeat_at < cutoff` never selects the row), or with a thread of its own
that goes on. `Sweep` selects stale ones, and either resumes them, in a thread
and with nobody to take its result, or fails them and looks at their task.
`dropped`, `unheld`, `freed`, `published`, `claimed` and `launched` are history:
an accident since the status became active, one since the plan was claimed, a
plan released by the resume of an older one, and which plan was resumed and
started. The job of a manager is a task of its own, without the clock.
Left out: who sends a request, texts, the abort flag (a stopped job may end
either way, which contains both of its values), and failing database calls.

### AgentLoop
`node` is the place in the graph of `build_agent_graph()`, and each action is a
node of it: `CallLLM` with any batch of tool uses (or none), then one tool use a
step (`RunTool`, `RefuseTool`) until `Due` is empty, `ReflectionNode`,
`AcceptSubmission` or `SendBack`, `ReplanNode`, and `Finish`, which settles the
row. With Groq or Gemini switched on `run_agent_graph()` runs a loop of its own
instead of the graph (`Adapter`, the profile `adapter`): it takes claims as they
come, asks no human and passes no gate, and it either raises, which fails the
row, or returns without settling the row. What its tools do is left out, and it
cannot be resumed. `messages` keeps what the API and the routers look at: the kind of a
message, the batch its tool uses belong to and how many it carries. `pending` is
the rest of a batch and `origin` the batch it came from: a crash in the middle of
a batch leaves that rest in the checkpoint, and the run that resumes still has it. `Condensed`
is the trim before a call; whether it is over budget is a choice. `drift` is
history of edits against `verified`, `StrayEdit` an edit that lands after its
ceiling gave it up. `Crash` may strike after a tool has run and before its
result is in the checkpoint; `Resume` goes on from the checkpoint with one more
user message, `StartOver` without one. One verification key stands for all keys
of a role. Strict submit schemas, tools that were not advertised and policy
denials are one refusal. The checkpoint is taken to be written when a node ends,
and a stop to be seen before the next call. The branch of `execute_tools()` for
a batch without tool uses is unreachable from the router and left out.

### AgentRuns
The runs of one task are numbered by their start; `working[p][r]` counts the
threads of process `p` at work on run `r`, `starting[p][r]` those that were sent
and have not reopened the row yet. `Open`, `Heartbeat`, `Finish` are the thread;
`Press` is a person's Resume; `Select`, `Try`, `FailRows`, `Check`, `Block` are
the sweep, one query or commit each; `TakeLock`, `LoseLock` the advisory lock:
a process that loses its connection goes on sweeping beside the new leader.
`Age` and `Silence` stand for time: a row without a thread grows stale, and one
with a thread may. `silent`, `crossed`, `late` are history of the overlaps the
properties name. Left out: writes of the database bridge that fail (the run goes
on untracked), the agent registry, `escalate()`, alerts, the figures of a run.

### SubtaskSchedule and ManagerWaves
`SubtaskSchedule` says which step may start when: not twice, after what it
depends on if the dependencies form an order, and beside nobody that writes its
files; a step without declared files is alone. In `ManagerWaves`, `Approve` is
the approval of a plan, which may remove steps and change the dependencies of
one, `Begin` reads the rows and computes `queue` (`Schedule`: `Layers`, then
`ClashFreeGroups`, or one by one without fanout), `NextWave` dispatches, and
each step of a wave goes through `TakeSlot`, `Develop`, `AddFiles`, `Commit`,
`QA`, `Review`, `Gates` with `Fail` as any failure; `EndWave` collects results,
`Integrate` takes in one proposal, `Return` answers. `staged` is the index of
the worktree: `git add` of one step and its commit are two steps under `lock`.
`git add` raises on an absolute path in what an agent submitted, `git commit`
when it takes longer than its limit, and nothing in `_dispatch_one_subtask()`
catches either (`Raise`): the run raises (phase `raised`), the steps that run
beside the one that raised go on on their own, and the permit of that step is
not released where the code releases it. It comes back when asyncio closes the
suspended generator, which needs the traceback to be collected first: `Collect`
may do this at any time and nothing says it must. A commit that timed out has
given up the lock while git is still at work: `LateCommit` ends it later, with
whatever is staged by then, or without success. A step that raised never ends in
the schedule. An agent-run slot that times out is a failure of the stage;
updates of rows are taken to succeed; a proposal's reservation of files is an
outcome (`EpicManager` has the reservation). The functions that order a plan
(`Resolved`, `Order`, `Placed`, `Ascending`, `Waves`) are recursive functions
over places in the list. Places change when steps are taken out, names do not:
`IdsOf`, `Befores` and `WritesOf` turn a list into what `SubtaskSchedule` says
of names, which is the refinement mapping. The mode of a connection-bound
session, which runs a wave one by one, is left out.

### PrioritySemaphore
The code between two awaits is one step. A waiting caller's future is granted or
cancelled before the caller runs again, and the states `granted`, `revoked`,
`cancelling` are those windows. `ahead` replaces the sequence numbers of the
heap by the order they define, so no counter has to be bounded.

### SpendGuard
`_add()` is two steps, the local counter under its lock and the Redis
increment; calls of two processes interleave between them. `Midnight` changes
the day under reservations, `Restart` loses the local counter, and each Redis
call may fail before or after the server has counted it. Money is whole units.
A reservation is an estimate and no bound: `estimate_worst_case()` counts four
characters as a token and leaves out the surcharge for writing a cache, so
`Settle` takes any cost. The bill is what the guard prices an answer at;
a call whose usage it never sees stays at its reservation. `spent`, `carried`,
`overrun` and `leaked` are history.

### IdempotencyKey
One row and its handlers. Each statement of the code is a step: `Reserve`
(INSERT .. ON CONFLICT), `Look` (SELECT after a conflict), `Work`, `WorkFails`,
`Store`, `Release`; `Abandon` is a crash or a failed statement at any of them;
`Purge` is the retention loop. Work takes effect when the handler commits it
(`create_task()` commits the row); what comes after may still raise, and then
the key is freed with the effect in place (`halfdone`).

### EpicFileLocks and EpicManager
`holder[f]` is the row of file `f`, `expired` the rows past their time. The
planning job is `Estimate`, `Plan`, `Check` (read of other plans), `Lock`
(reservation), `Review`; the coding job `Load`, `Code`, `Propose`, `Finish`,
`Release`; `Fail` is an exception at any step with what the launcher does about
it; requests are `Ask` (status read and accepted) and the action named after the
handler (status written), with `Close` the second half of a rejection. Two
commits in a row on the child task with nobody between them are one step. Left
out: agents' answers, prices (any estimate may need approval), policies (any
plan may be blocked), the epic slot (it only delays), and people acting on a
child task through the task API.

## 3. Runs

Each run states one question.

| run | question | bounds | result |
|---|---|---|---|
| `breaker` | does late news confuse the breaker, and does it recover? | 4 callers, threshold 2, cooldown 2 | passes |
| `lifecycle_safety` | can racing requests, jobs and refused dispatches break the hand-over of the task, code a plan twice, leave an active task alone? | 2 processes, 2 plans, routed and simple jobs | passes |
| `lifecycle_faults` | what is left of that when a job is cut off or the server dies, and does a task whose run died get blocked? | 2 processes, 1 plan, planning pipeline, 1 fault | passes |
| `semaphore` | are permits kept, given in order, to everybody urgent? | 5 callers of 4 kinds, cap 2 | passes |
| `spend_cap` | how far can the bill pass the cap, when calls cost more than was reserved? | 3 calls, 2 processes, cap 3, reserved 2, billed 0 or 3, 1 mishap | passes |
| `idempotency` | does a key take effect once, and never block for good? | 3 handlers, 2 bodies, 2 tries | passes |
| `epics` | do epics stay apart, hold locks while coding only, end, stay closed? | 2 epics, 2 files, 1 expiry, 1 restart | passes |
| `agent_loop` | does a run, stopped, crashed and resumed, stay within what the API, the turn limit and its own checks allow? | 4 tools, batches of 2, 2 turns, 1 resume, 3 cost modes and the other provider's loop | passes |
| `waves` | do the waves keep the schedule, commits apart, and return or raise, with steps that raise and commits that end late? | 3 plans of 2 or 3 steps, 1 proposal, 2 attempts | passes |
| `agent_runs` | can a checkpoint get two threads, or a task at work be blocked? | 2 runs, 2 processes, 2 mishaps | passes |
| `epic_lock_expires` | and if a lock expires while a plan waits? | 2 epics, 1 expiry | violated |
| `status_on_wrong_row` | is the status of a step in its own row? | as `waves`, 1 attempt | violated |

### Why these bounds
- *Two processes* in `TaskLifecycle`: every property is about a pair (two
  approvals, a restart beside a pipeline, a sweep beside a job); any number of
  them follow one another. `lifecycle_safety` has *two plans*, so that a resume
  of the first may end while the second is up. The theorems hold for any number
  of processes, plans and faults.
- *Modes*: the safety run starts routed and simple jobs, which between them
  reach every label that needs no fault; `lifecycle_faults` starts the planning
  pipeline, and has one job cut off or one crash.
- *Four callers* of the breaker: two to reach the threshold, one late, one
  trial. *Five* for the semaphore: two holders, and waiters of each rank with
  two of the same.
- *Cap 3, reserved 2, billed 0 or 3*: one call leaves the day below the cap and
  two pass it, by their reservations or by what they cost more; an answer that
  costs nothing lets the day fall back below it. *One mishap* separates
  midnight, restart and Redis error; the properties name which of them they tolerate.
- *Two epics, two files*: a conflict, a partial overlap, and a file to spare.
  One expiry and one restart; two plans, so that one is set aside for cost.
  *One user*: requests do not overlap each other, though they overlap all jobs.
  With two at once the read-then-write of `approve_epic_plan()` starts two jobs;
  `hazards` says so, and the affected properties say "one request at a time".
- *Agent loop*: two turns, batches of two: a submission may come first or last in
  its batch, a check before or after an edit, and a second batch may be cut
  short by the limit. One resume strikes at any node; one critique retry, one
  replan and one reflection each happen, and meet. Histories reach the length at
  which they are condensed. The theorems hold for any number of resumes, turns and
  tools, with one limit that is the code's own: after a resume in the middle of a
  batch `HazardousOnce` and `ClaimsAreFresh` rest on the API refusing a history
  with tool uses that have no result, and condensing, which keeps the last four
  messages, may drop them from the fourth resume on (`CutInSight`; section 5, 11).
- *Waves*: the plans have files that clash, a file in a folder that another step
  declares, a step that declares none (it runs alone), a dependency out of range
  and a chain; an edit may make a cycle. Two permits and three steps make
  somebody wait; two attempts make a retry; one proposal joins, is a duplicate, or goes
  too deep. Edits are one step's dependencies for each approval.
- *Agent runs*: two rows, since each property is about a thread and the rest of
  the task; two processes, since a change of leader needs two. `Mixes` makes both
  runs of one agent, or one of an agent that cannot be resumed. The window of
  failures is 1 (3 in the code), so that two rows fill it. Two mishaps of any
  kind: a crash of each process, a crash and a lost lock, a press twice. The
  theorems hold for any number of rows, processes and mishaps.
- `CHECK_DEADLOCK FALSE` where the system may stop: all requests answered and
  nothing asked, or the bound on tries, mishaps or plans reached.

### Fairness
Liveness is checked under weak fairness of what the runtime does by itself, and
of nothing a person does: an admitted provider call ends and some caller asks
again while the breaker is open (`breaker`); the sweep runs every five
minutes and to its end, and nothing is asked of jobs (`lifecycle_faults`); ready coroutines run
and slot bodies end (`semaphore`); running handlers go on and the purge keeps
coming (`idempotency`); jobs and accepted requests go on (`epics`); a node that
can run does (`agent_loop`); the stages of a subtask end and the manager goes on
(`waves`); the sweep loop repeats, the lock is tried again, a thread that was
sent starts and time passes, while an agent may take for ever (`agent_runs`).
All of these are threads or asyncio tasks of one live process whose calls have timeouts
(`llm_call_timeout_seconds`, `max_run_time_seconds`,
`job_wall_clock_timeout_seconds`).

## 4. What the passing runs show
- *Breaker*: an opening is followed by one trial however many earlier calls
  report, and a provider that stays up is used again.
- *Task*: however requests and jobs race, the status stays on its machine, even
  past cut-off jobs and crashes, and only coded tasks are completed. A plan
  starts one manager, unless the late resume of an older plan has put it back up
  for approval. An active task is being worked on or waits for its plan's
  approval, unless a dispatch was refused after the status was committed or a
  job was cut off or died: these three are where the code loses a task.
  Of the lost ones the sweep gets those with a run it fails, if no other row of
  the task is running. A claimed plan has a resume to settle it, unless that
  resume was cut off or died.
- *Semaphore*: no permit is lost in the window between grant and cancellation.
- *Spend cap*: a call is let in only while the bill of its day is below the cap,
  but for what answers being written down at that moment cost beyond their
  reservations and what midnight moved; so what passes the cap is the worst case
  of one call, and such excesses. Without Redis each process keeps to the same,
  on its own.
- *Idempotency*: the work of a key takes effect once until it is purged, but for
  runs that raise after their effect; replies are replays of the other.
- *Epics*: coded plans do not share files unless a lock expired where the
  conflict guard could not see the epic; ended epics hold no file unless a job
  raised; `halted` is reached from every failure; and no epic stays in a status
  that no request accepts while the server lives.
- *Agent loop*: condensing, reviewing, replanning and sending back keep tool uses
  with their results; neither a retry nor a resume repeats a side effect; a
  critique retry is the one thing that buys a call beyond `max_turns`; a failed
  quality gate reaches a human whatever else its batch held; a submission claims
  a check only if nothing was edited since (an edit given up as timed out may
  land later); and a run that does not die settles its row, unless it was the
  loop of another provider, which returns and leaves the row running.
- *Waves*: the two-level order (dependencies, then files) is kept through edits of
  the plan and steps that join; no commit takes in another step's edits, except
  what failed and timed-out commits left in the index, and except that a commit
  past its time limit may take those of the one step that has the lock by then.
  A run that returns has every step in the result and every permit back. A run
  that raises leaves the lock free once the steps beside have ended, and no
  permit is missing but those of steps that raised. Each run does one or the other.
- *Agent runs*: crashes, restarts, a change of leader and sweeps that fail never
  give a checkpoint a second thread, and the sweep blocks no task with an agent
  at work. The exceptions are named: a thread silent past the threshold, two
  starts that cross, a run taken up between the sweep's look and its write.

## 5. Disagreements between code and text
Two runs show one each, with TLC's trace as evidence.
1. `epic_lock_expires`: files are locked before the plan waits for approval;
   after four hours another epic takes them, and both code. The configuration
   says the time to live "only matters for an epic that stalls or crashes
   mid-coding" (`config.py:1924`).
2. `status_on_wrong_row`: subtasks and their rows are matched by place, "the only
   reliable link available" (`agents/manager.py:1661`). Rejecting a step at the
   approval of a plan takes it out of the list and not out of the table, so the
   status of each later step goes to the row before its own.

The modules state others, which no run checks. Name the definition as an
invariant or a property in a copy of the module's `.cfg` to see the trace.

3. `OrphanAlwaysBlocked` (`TaskLifecycle`, configuration of `lifecycle_faults`):
   the sweep leaves a task alone while another of its rows is running, and a row
   without a heartbeat is running for good; nor does a sweep come back to a task
   when it is stopped between its two commits. Either way the task stays active
   with nothing running, which `fleet/failure_ladder.py:283` says is over. A job
   cut off by the wall clock "will surface as failed via the existing
   orphan-recovery heartbeat sweep" (`pipeline/queue_adapter.py:359`) only if its
   agent had a heartbeat and its thread ended without settling the row.
4. `RestartIsAlone` (`TaskLifecycle`): "active statuses reliably signal that
   something is still running" (`api/tasks.py:619`). A rejected or cancelled task
   still has its job, and can be restarted beside it.
5. `PlanResumedOnce` (`TaskLifecycle`, configuration of `lifecycle_safety`): a
   late failing resume releases the claim of a newer plan, for the claim has no
   owner (`api/agents.py:354`). `OneLaunchPerPlan` names this exception.
6. `OvershootOneCall` (`SpendGuard`): "the most the cap can be exceeded by is one
   call's worst case" (`fleet/spend_guard.py:153`), but calls together may cost
   more than they reserved, and a call reserved before midnight UTC and settled
   after it lowers the next day's total.
7. `EveryDeadRunSettles` (`AgentRuns`, a property): a run that dies before its
   first tool call has no heartbeat, and `last_heartbeat_at < cutoff` is not true
   of NULL, so no sweep finds it, though run tracking "gives every real agent run
   orphan-recovery coverage" (`agents/base_graph.py:4084`).
8. `NeverTwoThreads` (`AgentRuns`): a press of Resume on a run at work starts a
   second thread on its checkpoint.
9. `ResumeReassesses` (`AgentLoop`): a run that died in a batch of tools is
   resumed with a user message behind tool uses that have no result
   (`agents/base_graph.py:4310`), a request the API refuses; the comment at 3915
   counts on the model to look again.
10. `DependenciesCompleted` (`ManagerWaves`): a blocked subtask does not hold back
    those that depend on it (`agents/manager.py:1776`), which the decomposer's
    prompt says complete first.
11. `NothingGoesOnBlindly` (`AgentLoop`, with `MaxResumes = 4`): resuming leaves
    `pending_tool_uses` in the checkpoint (`agents/base_graph.py:4310` adds a
    message and nothing else). Once condensing has dropped the unanswered tool
    uses from the request, a call succeeds, and what is left of the old batch is
    what the next pass runs: a tool with side effects runs again, which the
    comment at 3905 calls blindly continuing a tool call that was in flight.
12. `EffectOnce` (`IdempotencyKey`): a retry gets "the original created task
    instead" of a second one (`api/tasks.py:222`), but what follows the commit of
    `create_task()` may raise, and then the key is freed (`api/tasks.py:272`).
13. `RowSettles` (`AgentLoop`): the row of a run that ended does not "sit in
    'running' forever" (`agents/base_graph.py:4720`), but the loop for Groq and
    Gemini returns past that (`:4197`). It never writes a heartbeat, so no sweep
    selects its row either.
14. `NothingRaises` (`ManagerWaves`): "nothing in this loop raises past this
    function" (`agents/manager.py:558`), but `git_add()` refuses an absolute path
    and `git_commit()` a slow commit with exceptions that `:759` does not catch.
15. `CommitsOneByOne` (`ManagerWaves`): the lock "serializes" `git add` and
    `git commit` (`agents/manager.py:356`), but the time limit of a commit gives
    the lock up without stopping git (`services/git_service.py:478`).

Smaller ones, met while modelling and not stated: a run stopped by a budget or
by people counts as submitted, so its row says "completed"; a comment of the
router says that no call follows a submission, and one of
`request_clarification` that it ends the run, but the critique can send both
back; a submission followed by an edit in the same batch keeps its claim
(`ClaimsAreFresh` is about the moment of the submission); a request whose
dispatch is refused with "work cannot start" has committed the status of that
work before it (`api/tasks.py:540`, `:670`, `:867`).

## 6. What is proved
For every value of the constants, under the `ASSUME`s of the modules (finite
sets of callers or processes where they are counted, positive thresholds, plans
no longer than the model has room for). Each invariant, and each action property
and refinement, that a passing run checks has a theorem; the few that need an
assumption besides say so in their statement and in the table.

| theorem | of | argument |
|---|---|---|
| `BreakerTypes`, `OneTrial`, `ClosedMeansBelow`, `TrialReports` | `CircuitBreaker` | `BreakerInv`: a breaker that is not closed has counted its threshold, so a late failure cannot open it anew out of turn, and a half-open one has exactly one trial, still in flight |
| `SpendTypes`, `Overshoot`, `OutageOvershoot`, `Ledger` | `SpendGuard`, with answers of any cost | `IInv`: `Types`, `Shape` (what a call at each step knows of its amounts) and `Money`, which compares counters with bills: the Redis key covers the bill of all processes and what is still to be taken back, which is less than nothing for a call billed beyond its reservation (`Owing`), but for what midnight moved (`SharedCovers`), and is exactly that when nothing was lost (`SharedExact`); the counter of a process covers its own bill and what it holds (`LocalCovers`). `Overshoot` is about the step that lets a call in: it has read a total below the cap, and what that total lacks is owed by calls being settled (`OwedIsUnseen`). What a process has spent and may yet let in stays within one amount of its cap and its overruns (`BelowOwnCap`) |
| `TypeCorrect`, `OneLaunch`, `ClaimHeld`, `CompletedIsCoded`, `Refinement` | `TaskLifecycle`, with cut-off jobs and crashes | `IInv`: the type invariant, `ClaimHasHolder`, two facts of the program counters, `StageKnown` (a process past a look at the pipeline row knows there is one) and `DiffKnown` (past the coding step there is a diff), and `PlanOnce`: a plan that no older resume has released is in one place only, not put up, waiting for people, claimed by one resume, or launched once. `ResumeReleaseKeeps` is the step that takes plans out of this claim; no other does |
| `ActiveServed` | `TaskLifecycle`, if no PATCH sets an active status | `Served`: in an active status that nobody was `dropped` in, some process stands at a label from which every way on leads out of it (`Committed`, and `ForPlanning` while planning), or a plan is up, or claimed by a resume that was not cut off (`PlanStands`). `HandsOn` says when one step keeps this, and each step is one of a few shapes; a refused dispatch, `Cut` and `Crash` set `dropped` in the step that breaks it |
| `TypeCorrect`, `PermitsConserved`, `NoLostWakeUp`, `InOrder`, `Refinement` | `PrioritySemaphore` | `SemInv`: permits conserved, no sleeper beside a free permit, and `SleepersQueued`, that every waiting future is in the heap; without the last a release could find nobody to wake |
| `TypeCorrect`, `Exclusive`, `AtMostOnce`, `Replays`, `AnswerStays` | `IdempotencyKey` | `IInv`: one handler at most is busy and the row is its reservation, and `RowTells`: what the row says about runs that took effect (none before its handler has worked, one after) and about replies; runs that raise after their effect are set apart, and purges under a running handler (`early`) |
| `TypeCorrect` | `EpicManager` | any number of people, epics, files, jobs and restarts |
| `JobIsAlone`, `PlanLoads`, `CodersHold`, `Apart`, `NothingLeft`, `DecisionStands` | `EpicManager`, one request at a time (`OneUser`) | `InStep`: the status of an epic tells where its one job stands, although both are written without a condition. Around it: `ChildWaits` and `NotPlanned` (which child a plan is in), `PlanLocked` and `HeldWhile` (whose rows are held or lost in which status), and `UnseenAll`, `GuardedLate`, `GuardHolds` (what a guard that has read some of the other epics can still be wrong about). `PlansApart` needs all of them |
| `TypeCorrect`, `HistoryPaired`, `SideEffectsOnce`, `PaidCallsBounded`, `HumanAsked`, `ClaimsFresh` | `AgentLoop` | `IInv`, by what each part is about: `Shape` (the batch asked for, its rest and its results belong together), `Torn` (a rest without its message is in view of the API, which refuses it), `Fresh` (no use of the rest has run), `Counted` (each call is paid by a turn or a retry), `Flagged` (where a submission with a failed gate can stand without its flag), `Paired` (the history can be sent). `CondensedIsAccepted` is the lemma on the trim: a tail cut where no results begin stays a history the API takes |
| `NoEndlessLoop` | `AgentLoop` | each node makes a paid call, which `PaidCallsBounded` bounds, or has a lower `Place`, or shortens the batch |
| `OneThread`, `BlocksIdle` | `AgentRuns` | outside the named overlaps a run has one claim: its thread at work, or the one thread sent, or the sweep that found it; and a thread at work shows in its row as running with a fresh beat |
| `StartedOnce`, `NoSharedFiles`, `DependenciesFirst` | `SubtaskSchedule` | what the abstract schedule guarantees; with `Refinement` below they hold of the waves |
| `ScheduleArranges`, `JoinedOrder` | `ManagerWaves` | what the functions that order a plan compute, for lists of any length: each step in one group, groups that write apart, and in a plan in order no step before one it depends on; a step that joins loses no order |
| `CommitsOwnChanges` | `ManagerWaves` | the lock is held by the one step between `git add` and commit, so the index has its changes and what failed or timed-out commits left (`StagedStays`); a late commit finds the same in it, with the lock in other hands (`LateCommitKeeps`) |
| `TypeCorrect`, `Accounted`, `SomebodyGoesOn` | `ManagerWaves` | `RunInv`: names are unique and a new one is free (`Named`), nothing runs before `Begin` (`Unbegun`), steps that raised and late commits are there only in a run that raised (`Astray`), only steps of the wave are on their way and have no outcome yet (`OnTheirWay`), steps at work hold the permits (`PermitsCount`), and the queue holds, in order, every step that is neither over nor in the wave (`Queued`). So an empty queue means all accounted for; and when everybody waits for a permit or for the lock, the steps that hold them are in the wave and not waiting |
| `NoEndlessRun` | `ManagerWaves` | `ToGo` of a step counts what its attempts may still pass and propose; no step of the run makes one larger, and each makes one smaller, or ends a wave, settles a proposal, returns or raises. `ToGo` is a natural number (`FewProposals`) and there are finitely many, so this has an end |
| `Refinement` | `ManagerWaves` implements `SubtaskSchedule` | each step maps to a step by names or to a stutter: `NextWave` to `Start` (by `Queued`: the wave is new, apart and behind its dependencies), the last stage of a step to `End`, `Approve` to `Revise` (`KeepsNames`: taking steps out changes places and keeps what names depend on), `Integrate` to `Add` |

Theorems are in `*_proofs` modules; the property of each is the definition the
run checks, so TLC shows it on a small instance and TLAPS for all. Inductive
invariants were checked by TLC on the instances of the runs before they were
proved. `OneUser` is needed: `approve_epic_plan()` reads the status and writes it
later, and with two requests between the two an epic gets two jobs.

Two modules needed induction where the provers have none for an operator. Sums
of `SpendGuard` are compared by a smallest set of calls that would be a
counterexample (`SmallestSet`; `TotalShift`, `TotalMonotone`, `TotalCovers`), and
`SumIsTotal` shows that this sum is the fold that the properties use. The
recursive functions of `ManagerWaves` are shown to exist and to have a property
up to k by the least k that would not (`UpTo`, `CountExists`).

## 7. What is only model-checked
Liveness under fairness, which is out of the prover's reach: `Recovers`,
`OrphanBlocked`, `HighServed`, `KeyIsFreed`, `Settles`, `Terminates`, `Returns`,
`DeadRunsSettle`. Of `Returns` and `Terminates` the parts that are safety are
proved: in no state of a run does everybody wait (`SomebodyGoesOn`), and each
step lowers a measure that cannot fall for ever (`NoEndlessRun`, `NoEndlessLoop`);
that who can go on does is the fairness. `NeverStuck`, `ComesNearer` and
`EachNodeCounts`, which these theorems are about, were checked by TLC on the
instances of `waves` and `agent_loop` and are in no `.cfg`. The disagreements of
section 5 are traces of TLC.

## 8. What is not modelled
What agents answer and tools do to files, git, the web application,
authentication, memory and embeddings, metrics and scores, the policy match,
chat sessions, projects and settings, migrations: they are external (any
outcome), pure computation, single statements, or pages. The job queue (retries
are a loop in one coroutine), the dispatch of dependent tasks, the rows per
thread of tool approvals and the event bus have control of their own and are
not modelled; no modelled part depends on more of them than the models allow to
happen. `PROJECT.json`, `components`, says for each part what is left out and
why. By lines, the larger part of the repository is prompts, tool handlers,
settings and their tests, which hold no state that several actors share.

Smaller hazards that no property covers:
- a stop while a plan is claimed leaves the stage `resuming`, which neither door
  accepts (`api/agents.py:331`); properties about claims assume no crash;
- a stop between two agents of a pipeline, when no `agent_runs` row is open,
  leaves the task active and no sweep finds it (`api/agents.py:186`);
- a run resumed by the sweep has no job behind it: its result is discarded, and
  its task stays active with nothing running once that thread ends
  (`fleet/failure_ladder.py:409`, `:506`). `TaskLifecycle` has these threads
  (`strays`), and `ActiveIsServed` lets such a task pass for the fault before;
- a resume that raises each time is tried again by every sweep
  (`fleet/failure_ladder.py:515`);
- a press of Resume clears the stop that Cancel has just set
  (`api/activity.py:165`);
- a restart leaves the epics of its jobs in pending, planning, plan_approved or
  coding, and the guard refuses their files to other epics
  (`pipeline/conflict_guard.py:38`);
- `POST /push` runs whether or not the push was ever approved (`api/tasks.py:1294`);
- a clarification answered before the asking run has blocked its task is recorded
  and lost (`api/agents.py:896`);
- repeating a task clears the abort flag of its source (`api/tasks.py:745`);
- the dispatch loop moves a task to planning before it starts its job
  (`main.py:1165`);
- the reservation of a call about to be refused counts until it is withdrawn, so
  another may be refused for it (`fleet/spend_guard.py:220`);
- the bill of `SpendGuard` is what the guard prices: an answer without usage is
  settled at nothing (`fleet/spend_guard.py:294`), whatever it cost;
- a reservation of a key purged under its running handler lets a second run in
  (`early`, which the properties of `IdempotencyKey` except), and one key used
  for two endpoints' paths with empty bodies replays the first answer (`middleware/idempotency.py:94`);
- the failed-job sweep records a job and removes it from the registry afterwards:
  a stop in between records it twice (`pipeline/queue_adapter.py:502`), and
  `shutdown()` waits for jobs that do not end (`pipeline/queue_adapter.py:144`);
- proposed subtasks lock files without asking the conflict guard
  (`pipeline/dynamic_subtasks.py:148`);
- a late success of a call admitted before an opening closes the breaker before
  its cooldown (`fleet/circuit_breaker.py`, `record_success()`); no property
  says that it may not;
- when the launcher of an epic job cannot write `halted` after the job raised,
  the epic stays in its status (`api/epics.py:725`, `:768`); `Settles` takes
  that write to succeed;
- the calls of helper models (summaries, critiques, reflections) are not in
  `CallsBounded`, which counts those of the main loop;
- `finish_agent_run_sync()` may fail at the end of a run, and the row stays
  running (`agents/base_graph.py:4720`); the models take it to succeed;
- urgent callers can keep the others waiting (`pipeline/concurrency.py:107`),
  which the documentation intends.

## 9. Further work
In order: rows per thread of the approval gate with the agent that waits for
them; the job queue's attempts with threads that outlive them, which would give
`AgentRuns` its silent threads; the dispatch of dependent tasks. Proofs: measures
for the sweep of `AgentRuns` and the jobs of `EpicManager`, beside the safety
they have.
