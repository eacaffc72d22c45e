---------------------------- MODULE TaskLifecycle ----------------------------
(***************************************************************************)
(* The life of one task: its status (dev_tasks.status), its planning       *)
(* pipeline (pipeline_state.stage), the approvals that wait for a human,   *)
(* and every process that moves them: the request handlers of              *)
(* backend/app/api/{tasks,activity,approvals}.py and the background jobs   *)
(* of backend/app/api/agents.py that they dispatch.                        *)
(*                                                                         *)
(* A process is a request or a job; its program counter stands between two *)
(* database commits, so a step is one commit (or one call of an agent),    *)
(* and processes interleave between them.  A handler that dispatches a job *)
(* ends with its response, so its slot becomes the job.                    *)
(*                                                                         *)
(* Agents, git and the planning graph are external: each of their calls    *)
(* may return any of the results the code distinguishes.  Database calls   *)
(* succeed; a process that dies is the Crash action.                       *)
(***************************************************************************)
EXTENDS Naturals, FiniteSets

CONSTANTS
  Modes,          \* the jobs POST /run may start, by pipeline mode
  Procs,          \* slots for concurrent requests and background jobs
  PatchTargets,   \* the statuses a human sets by PATCH /api/tasks/{id}
  MaxPublished,   \* bound: plans published in one behaviour
  MaxFaults       \* bound: jobs cut off and crashes in one behaviour

VARIABLES
  status,      \* dev_tasks.status
  dropped,     \* history: while the status has been this active one, a
               \* dispatch was refused, or a job was cut off or died
  stage,       \* pipeline_state.stage, "none" while there is no row
  unheld,      \* history: while it has been "resuming", a holder was cut
               \* off or died
  hasDiff,     \* dev_tasks.diff is not NULL
  planPending, \* the newest approval row of thread task-{id} is pending
  pushRow,     \* the newest approval row of thread task-{id}-push
  question,    \* the agent whose clarification row is pending, or "none"
  pc,          \* where each process is
  yes,         \* the decision a resume or push process carries
  strays,      \* the running agent_runs rows of the task without a job
  faults,      \* number of jobs cut off and of crashes so far
  published,   \* history: plans put up for approval
  claimed,     \* history: which of them each resume has claimed
  launched,    \* history: manager runs started from each of them
  freed        \* history: those released by the resume of an older plan

taskVars  == <<status, dropped>>
stageVars == <<stage, unheld>>
rowVars   == <<planPending, pushRow, question>>
runVars   == <<strays, faults>>
planVars  == <<published, claimed, launched, freed>>
vars == <<taskVars, stageVars, hasDiff, rowVars, pc, yes, runVars,
          planVars>>

-----------------------------------------------------------------------------

SM == INSTANCE StatusMachine

ASSUME ProcsAssumption == IsFiniteSet(Procs)
ASSUME ModesAssumption == Modes \subseteq {"plan_start", "route", "simple_start"}
ASSUME PatchAssumption == PatchTargets \subseteq SM!Statuses

Stages == {"none", "pm", "awaiting_approval", "resuming", "done", "rejected",
           "dev_running", "dev_complete", "blocked"}

Rows == {"none", "pending", "decided"}

(* From the claim of a plan until the resume has written its result.       *)
Holding == {"resume_graph", "resume_record", "resume_stage", "resume_release"}

(* An agent_runs row of the task is running: throughout a simple-mode run, *)
(* and while one of its agents is at work in a pipeline.                   *)
OneRun  == {"simple_run", "coder_run", "coder_diff"}
SomeRun == {"plan_run", "manager_run"}

(* Places where an agent may be at work, in a thread of its own.           *)
AtWork == {"simple_run", "coder_run"} \union SomeRun

(* A row without a job: its process died after a heartbeat, or before the  *)
(* first one; or its thread goes on, cut off from its job or resumed by    *)
(* the sweep.  launch_planner and launch_coder never beat for their row.   *)
Strays == {"stale", "silent", "thread"}

(* Where a job may stand under the wall clock of dispatch_job().  What the *)
(* inbox starts after its response runs without the clock; the model does  *)
(* not tell those jobs from the others, and lets all of them be cut off.   *)
Clocked == Holding \union OneRun \union
  {"plan_start", "plan_run", "plan_publish", "plan_record",
   "stop_stage", "stop_task", "fail_stage", "fail_task",
   "resume_claim", "resume_task",
   "route", "route_blocked", "simple_start", "simple_review", "simple_blocked",
   "coder_start", "coder_blocked", "coder_testing", "coder_review",
   "record_push", "push_run", "push_complete"}

(* The manager is a task of its own, and runs without the clock.           *)
Managing ==
  {"manager_start", "manager_coding", "manager_run", "manager_diff",
   "manager_stage", "manager_testing", "manager_review"}

Asked ==
  {"run_unmet", "restart_planning", "approve_coding", "complete_task",
   "decide_plan", "decide_push", "answer_planner", "answer_coder"}

PCs == Clocked \union Managing \union Asked
         \union {"idle", "sweep_task", "sweep_blocked"}

Init ==
  /\ status = "pending" /\ dropped = FALSE
  /\ stage = "none" /\ unheld = FALSE
  /\ hasDiff = FALSE
  /\ planPending = FALSE
  /\ pushRow = "none"
  /\ question = "none"
  /\ pc = [p \in Procs |-> "idle"]
  /\ yes = [p \in Procs |-> FALSE]
  /\ strays = {}
  /\ faults = 0
  /\ published = 0
  /\ claimed = [p \in Procs |-> 0]
  /\ launched = [n \in 1..MaxPublished |-> 0]
  /\ freed = {}

Goto(p, l) == pc' = [pc EXCEPT ![p] = l]

Carry(p, b) == yes' = [yes EXCEPT ![p] = b]

(***************************************************************************)
(* transition_task(): one UPDATE ... WHERE status IN (sources of new).     *)
(* Either it matches and the process goes on, or the process gets a        *)
(* TransitionError.                                                        *)
(***************************************************************************)
CanTransition(new) == status \in SM!Sources(new)

(* Slip: the update does not look at the status it overwrites.           *)
TransitionUnchecked(new) == status' = new

Transition(new) ==
  /\ CanTransition(new)
  /\ status' = new

TransitionOr(p, new, onSuccess, onError) ==
  \/ Transition(new) /\ dropped' = FALSE /\ Goto(p, onSuccess)
  \/ ~CanTransition(new) /\ UNCHANGED taskVars /\ Goto(p, onError)

(* A step of process p that is one transition and nothing else.            *)
Moves(p, at, new, onSuccess, onError) ==
  /\ pc[p] = at
  /\ TransitionOr(p, new, onSuccess, onError)
  /\ UNCHANGED <<stageVars, hasDiff, rowVars, yes, runVars, planVars>>

(* A request that moves the status and then dispatches a job: by then the  *)
(* status is committed, and dispatch_job() may refuse with a 503.          *)
Starts(p, at, new, jobs) ==
  /\ pc[p] = at
  /\ Transition(new)
  /\ \/ dropped' = FALSE /\ \E job \in jobs : Goto(p, job)
     \/ dropped' = TRUE /\ Goto(p, "idle")
  /\ UNCHANGED <<stageVars, hasDiff, rowVars, yes, runVars, planVars>>

StageIs(new) == stage' = new /\ unheld' = FALSE

(* A step of process p that writes the pipeline stage and nothing else.    *)
SetStage(p, at, new, next) ==
  /\ pc[p] = at
  /\ StageIs(new)
  /\ Goto(p, next)
  /\ UNCHANGED <<taskVars, hasDiff, rowVars, yes, runVars, planVars>>

(* A step of process p that only waits for the outside world.              *)
Calls(p, at, outcomes) ==
  /\ pc[p] = at
  /\ \E next \in outcomes : Goto(p, next)
  /\ UNCHANGED <<taskVars, stageVars, hasDiff, rowVars, yes, runVars, planVars>>

-----------------------------------------------------------------------------
(* Requests.  A handler that reads, awaits and then writes is two steps.   *)

(* POST /tasks/{id}/run: the statuses it accepts are the sources of        *)
(* "planning", so the compare-and-set decides alone.  The mode picks the   *)
(* full pipeline, the router or the single planner.                        *)
Run(p) == Starts(p, "idle", "planning", Modes)

(* The same request while a task it depends on is not completed: it reads  *)
(* the status, looks the dependencies up, and blocks the task.             *)
RunUnmetRead(p) ==
  /\ status \in {"pending", "rejected"}
  /\ Calls(p, "idle", {"run_unmet"})

RunUnmet(p) == Moves(p, "run_unmet", "blocked", "idle", "idle")

(* POST /restart: its own compare-and-set back to pending, then planning.  *)
RestartReset(p) ==
  /\ pc[p] = "idle"
  /\ status \notin SM!Active
  /\ status' = "pending" /\ dropped' = FALSE
  /\ Goto(p, "restart_planning")
  /\ UNCHANGED <<stageVars, hasDiff, rowVars, yes, runVars, planVars>>

RestartPlanning(p) ==
  \/ Starts(p, "restart_planning", "planning", {"plan_start"})
  \/ ~CanTransition("planning") /\ Calls(p, "restart_planning", {"idle"})

(* POST /approve of a simple-mode plan, and POST /complete: each reads     *)
(* status and diff, then moves the task.                                   *)
ReadReview(p, withDiff, next) ==
  /\ status = "ready_for_review"
  /\ hasDiff = withDiff
  /\ Calls(p, "idle", {next})

ApproveRead(p) == ReadReview(p, FALSE, "approve_coding")

ApproveCoding(p) ==
  \/ Starts(p, "approve_coding", "coding", {"coder_start"})
  \/ ~CanTransition("coding") /\ Calls(p, "approve_coding", {"idle"})

(* Slip: POST /complete does not look at the diff.                       *)
CompleteReadUnchecked(p) ==
  status = "ready_for_review" /\ Calls(p, "idle", {"complete_task"})

CompleteRead(p) == ReadReview(p, TRUE, "complete_task")

CompleteTask(p) == Moves(p, "complete_task", "completed", "idle", "idle")

(* POST /reject, POST /cancel and PATCH /tasks/{id}: one compare-and-set,  *)
(* whoever may be working on the task.                                     *)
RequestMove(new) ==
  /\ Transition(new) /\ dropped' = FALSE
  /\ UNCHANGED <<stageVars, hasDiff, rowVars, pc, yes, runVars, planVars>>

Reject == RequestMove("rejected")

Cancel == RequestMove("cancelled")

PatchStatus == \E new \in PatchTargets : RequestMove(new)

(* A decision on something that was seen to be pending, not yet recorded.  *)
Decide(p) ==
  /\ pc[p] = "idle"
  /\ \E approved \in BOOLEAN : Carry(p, approved)
  /\ UNCHANGED <<taskVars, stageVars, hasDiff, rowVars, runVars, planVars>>

(* POST /pipeline/approve and /pipeline/reject: read the stage, dispatch   *)
(* the resume.  A dispatch refused here and in PushRequest changes nothing.*)
PipelineDecide(p) ==
  stage = "awaiting_approval" /\ Decide(p) /\ Goto(p, "resume_claim")

(* POST /approvals/{thread}/approve and /reject: read the newest row, then *)
(* record the decision where the row is still pending.  What it starts     *)
(* runs after the response, without the wall clock.                        *)
DecidePlanRead(p) ==
  planPending /\ Decide(p) /\ Goto(p, "decide_plan")

DecidePlan(p) ==
  /\ pc[p] = "decide_plan"
  /\ IF planPending
       THEN planPending' = FALSE /\ Goto(p, "resume_claim")
       ELSE UNCHANGED planPending /\ Goto(p, "idle")
  /\ Carry(p, yes[p] /\ planPending)
  /\ UNCHANGED <<taskVars, stageVars, hasDiff, pushRow, question, runVars, planVars>>

DecidePushRead(p) ==
  pushRow = "pending" /\ Decide(p) /\ Goto(p, "decide_push")

DecidePush(p) ==
  /\ pc[p] = "decide_push"
  /\ IF pushRow = "pending"
       THEN pushRow' = "decided" /\ Goto(p, "push_run")
       ELSE UNCHANGED pushRow /\ Goto(p, "idle")
  /\ Carry(p, yes[p] /\ pushRow = "pending")
  /\ UNCHANGED <<taskVars, stageVars, hasDiff, planPending, question, runVars, planVars>>

(* POST /tasks/{id}/push: any task that was given a branch is pushed.      *)
PushRequest(p) ==
  /\ pc[p] = "idle"
  /\ pushRow # "none"
  /\ Goto(p, "push_run")
  /\ Carry(p, TRUE)
  /\ UNCHANGED <<taskVars, stageVars, hasDiff, rowVars, runVars, planVars>>

(* The answer to a clarification question: the row is decided, and unless  *)
(* the human declined, the agent that asked is started again if the status *)
(* allows it.                                                              *)
Answer(p) ==
  /\ pc[p] = "idle"
  /\ question # "none"
  /\ question' = "none"
  /\ \E answered \in BOOLEAN :
       Goto(p, IF ~answered THEN "idle"
               ELSE IF question = "coder" THEN "answer_coder"
               ELSE "answer_planner")
  /\ UNCHANGED <<taskVars, stageVars, hasDiff, planPending, pushRow, yes, runVars,
                 planVars>>

AnswerPlanner(p) == Moves(p, "answer_planner", "planning", "simple_start", "idle")

AnswerCoder(p) == Moves(p, "answer_coder", "coding", "coder_start", "idle")

Request(p) ==
  \/ Run(p) \/ RunUnmetRead(p) \/ RestartReset(p) \/ ApproveRead(p)
  \/ CompleteRead(p) \/ PipelineDecide(p) \/ DecidePlanRead(p)
  \/ DecidePushRead(p) \/ PushRequest(p) \/ Answer(p)

Respond(p) ==
  \/ RunUnmet(p) \/ RestartPlanning(p) \/ ApproveCoding(p) \/ CompleteTask(p)
  \/ DecidePlan(p) \/ DecidePush(p) \/ AnswerPlanner(p) \/ AnswerCoder(p)

-----------------------------------------------------------------------------
(* launch_planning_pipeline: PM, Architect, Decomposer, then a human.      *)

PlanStart(p) == SetStage(p, "plan_start", "pm", "plan_run")

(* The planning graph returns a plan, returns "blocked", or raises.  The   *)
(* bound lets it succeed only MaxPublished times.                          *)
Publishing == {p \in Procs : pc[p] = "plan_publish"}

PlanRun(p) ==
  \/ Calls(p, "plan_run", {"stop_stage", "fail_stage"})
  \/ /\ published + Cardinality(Publishing) < MaxPublished
     /\ Calls(p, "plan_run", {"plan_publish"})

(* The plan is published; then save_subtasks may raise.                    *)
PlanPublish(p) ==
  /\ pc[p] = "plan_publish"
  /\ StageIs("awaiting_approval")
  /\ published' = published + 1
  /\ \E next \in {"plan_record", "fail_stage"} : Goto(p, next)
  /\ UNCHANGED <<taskVars, hasDiff, rowVars, yes, runVars, claimed, launched,
                 freed>>

(* A failure to record the approval row is only logged.                    *)
PlanRecord(p) ==
  /\ pc[p] = "plan_record"
  /\ planPending' \in {TRUE, planPending}
  /\ Goto(p, "idle")
  /\ UNCHANGED <<taskVars, stageVars, hasDiff, pushRow, question, yes, runVars,
                 planVars>>

(* Both pipelines stop a blocked run with a stage write and a transition;  *)
(* whatever raises, the transition included, ends in the except branch,    *)
(* which does the same again and gives up when it cannot.                  *)
StopStage(p) == SetStage(p, "stop_stage", "blocked", "stop_task")

StopTask(p) == Moves(p, "stop_task", "blocked", "idle", "fail_stage")

FailStage(p) == SetStage(p, "fail_stage", "blocked", "fail_task")

(* Slip: the except branch only logs (before audit H-1).                 *)
FailTaskLogs(p) == Calls(p, "fail_task", {"idle"})

FailTask(p) == Moves(p, "fail_task", "blocked", "idle", "idle")

Planning(p) ==
  \/ PlanStart(p) \/ PlanRun(p) \/ PlanPublish(p) \/ PlanRecord(p)
  \/ StopStage(p) \/ StopTask(p) \/ FailStage(p) \/ FailTask(p)

-----------------------------------------------------------------------------
(* resume_planning_pipeline: claim the plan, resume the graph, move on.    *)

(* Slip: whoever comes resumes the plan.                                 *)
ResumeClaimUnchecked(p) ==
  /\ pc[p] = "resume_claim"
  /\ StageIs("resuming")
  /\ claimed' = [claimed EXCEPT ![p] = published]
  /\ Goto(p, "resume_graph")
  /\ UNCHANGED <<taskVars, hasDiff, rowVars, yes, runVars, published, launched,
                 freed>>

(* Of two decisions on one plan, the first to get here claims it and the   *)
(* second finds nothing to claim.  A task without a pipeline row would go  *)
(* on unclaimed.                                                           *)
ResumeClaim(p) ==
  /\ pc[p] = "resume_claim"
  /\ \/ /\ stage \in {"awaiting_approval", "none"}
        /\ IF stage = "none" THEN UNCHANGED stageVars ELSE StageIs("resuming")
        /\ claimed' = [claimed EXCEPT ![p] = published]
        /\ Goto(p, "resume_graph")
        /\ UNCHANGED yes
     \/ /\ stage \notin {"awaiting_approval", "none"}
        /\ Goto(p, "idle")
        /\ Carry(p, FALSE)
        /\ UNCHANGED <<stageVars, claimed>>
  /\ UNCHANGED <<taskVars, hasDiff, rowVars, runVars, published, launched, freed>>

ResumeGraph(p) == Calls(p, "resume_graph", {"resume_record", "resume_release"})

ResumeRecord(p) ==
  /\ pc[p] = "resume_record"
  /\ planPending' \in {FALSE, planPending}
  /\ Goto(p, "resume_stage")
  /\ UNCHANGED <<taskVars, stageVars, hasDiff, pushRow, question, yes, runVars,
                 planVars>>

(* An approval counts only if the graph says the plan is done.             *)
ResumeStage(p) ==
  /\ pc[p] = "resume_stage"
  /\ \E done \in BOOLEAN :
       /\ done => yes[p]
       /\ StageIs(IF done THEN "done" ELSE "rejected")
       /\ Carry(p, done)
  /\ Goto(p, "resume_task")
  /\ UNCHANGED <<taskVars, hasDiff, rowVars, runVars, planVars>>

(* An approved plan starts the manager in the same slot.                   *)
ResumeTask(p) ==
  LET new == IF yes[p] THEN "ready_for_review" ELSE "rejected"
      next == IF yes[p] THEN "manager_start" ELSE "idle"
  IN /\ pc[p] = "resume_task"
     /\ TransitionOr(p, new, next, "resume_release")
     /\ IF CanTransition(new)
          THEN /\ IF yes[p] THEN launched' = [launched EXCEPT ![claimed[p]] = @ + 1]
                         ELSE UNCHANGED launched
               /\ claimed' = [claimed EXCEPT ![p] = 0]
          ELSE UNCHANGED <<launched, claimed>>
     /\ Carry(p, FALSE)
     /\ UNCHANGED <<stageVars, hasDiff, rowVars, runVars, published, freed>>

(* Slip: the claim is not put back.                                      *)
ResumeReleaseNothing(p) ==
  /\ pc[p] = "resume_release"
  /\ claimed' = [claimed EXCEPT ![p] = 0]
  /\ Goto(p, "idle")
  /\ Carry(p, FALSE)
  /\ UNCHANGED <<taskVars, stageVars, hasDiff, rowVars, runVars, published,
                 launched, freed>>

(* _release_claim: nothing, unless the stage still says resuming, whoever  *)
(* it was that claimed the plan.                                           *)
ResumeRelease(p) ==
  /\ pc[p] = "resume_release"
  /\ \/ /\ stage = "resuming"
        /\ StageIs("awaiting_approval")
        /\ freed' = IF claimed[p] = published THEN freed
                    ELSE freed \union {published}
     \/ stage # "resuming" /\ UNCHANGED <<stageVars, freed>>
  /\ claimed' = [claimed EXCEPT ![p] = 0]
  /\ Goto(p, "idle")
  /\ Carry(p, FALSE)
  /\ UNCHANGED <<taskVars, hasDiff, rowVars, runVars, published, launched>>

Resume(p) ==
  \/ ResumeClaim(p) \/ ResumeGraph(p) \/ ResumeRecord(p) \/ ResumeStage(p)
  \/ ResumeTask(p) \/ ResumeRelease(p)

-----------------------------------------------------------------------------
(* launch_manager: every subtask through Dev, QA and Review.               *)

(* create_worktree may raise.                                              *)
ManagerStart(p) ==
  \/ SetStage(p, "manager_start", "dev_running", "manager_coding")
  \/ Calls(p, "manager_start", {"fail_stage"})

ManagerCoding(p) ==
  Moves(p, "manager_coding", "coding", "manager_run", "fail_stage")

ManagerRun(p) ==
  Calls(p, "manager_run", {"manager_diff", "stop_stage", "fail_stage"})

SaveDiff(p, at, next) ==
  /\ pc[p] = at
  /\ hasDiff' = TRUE
  /\ Goto(p, next)
  /\ UNCHANGED <<taskVars, stageVars, rowVars, yes, runVars, planVars>>

ManagerDiff(p) == SaveDiff(p, "manager_diff", "manager_stage")

ManagerStage(p) ==
  SetStage(p, "manager_stage", "dev_complete", "manager_testing")

ManagerTesting(p) ==
  Moves(p, "manager_testing", "testing", "manager_review", "fail_stage")

ManagerReview(p) ==
  Moves(p, "manager_review", "ready_for_review", "record_push", "fail_stage")

(* Recorded only where the repository is known; a failure is only logged.  *)
RecordPush(p) ==
  /\ pc[p] = "record_push"
  /\ pushRow' \in {"pending", pushRow}
  /\ Goto(p, "idle")
  /\ UNCHANGED <<taskVars, stageVars, hasDiff, planPending, question, yes, runVars,
                 planVars>>

Manager(p) ==
  \/ ManagerStart(p) \/ ManagerCoding(p) \/ ManagerRun(p) \/ ManagerDiff(p)
  \/ ManagerStage(p) \/ ManagerTesting(p) \/ ManagerReview(p) \/ RecordPush(p)

-----------------------------------------------------------------------------
(* Simple mode: launch_router, launch_planner and launch_coder.            *)

(* The router runs no planning agent: it hands a large task to the full    *)
(* pipeline and moves any other to review, or blocks it.                   *)
Route(p) ==
  \/ Moves(p, "route", "ready_for_review", "idle", "route_blocked")
  \/ Calls(p, "route", {"plan_start", "route_blocked"})

RouteBlocked(p) == Moves(p, "route_blocked", "blocked", "idle", "idle")

(* The start of a run records it in agent_runs.                            *)
SimpleStart(p) == Calls(p, "simple_start", {"simple_run"})

SimpleRun(p) == Calls(p, "simple_run", {"simple_review", "simple_blocked"})

(* The planner asks the human a question, which ends its run as an error.  *)
SimpleAsk(p) ==
  /\ pc[p] = "simple_run"
  /\ question' = "planner"
  /\ Goto(p, "simple_blocked")
  /\ UNCHANGED <<taskVars, stageVars, hasDiff, planPending, pushRow, yes, runVars,
                 planVars>>

SimpleReview(p) == Moves(p, "simple_review", "ready_for_review", "idle", "idle")

SimpleBlocked(p) == Moves(p, "simple_blocked", "blocked", "idle", "idle")

CoderStart(p) == Calls(p, "coder_start", {"coder_run"})

(* The executors return, report an error, or anything on the way raises.   *)
CoderRun(p) == Calls(p, "coder_run", {"coder_diff", "coder_blocked", "fail_task"})

CoderAsk(p) ==
  /\ pc[p] = "coder_run"
  /\ question' = "coder"
  /\ Goto(p, "coder_blocked")
  /\ UNCHANGED <<taskVars, stageVars, hasDiff, planPending, pushRow, yes, runVars,
                 planVars>>

CoderBlocked(p) == Moves(p, "coder_blocked", "blocked", "idle", "fail_task")

CoderDiff(p) == SaveDiff(p, "coder_diff", "coder_testing")

CoderTesting(p) == Moves(p, "coder_testing", "testing", "coder_review", "fail_task")

CoderReview(p) ==
  Moves(p, "coder_review", "ready_for_review", "record_push", "fail_task")

Simple(p) ==
  \/ Route(p) \/ RouteBlocked(p) \/ SimpleStart(p) \/ SimpleRun(p)
  \/ SimpleAsk(p) \/ SimpleReview(p) \/ SimpleBlocked(p) \/ CoderStart(p)
  \/ CoderRun(p) \/ CoderAsk(p) \/ CoderBlocked(p) \/ CoderDiff(p)
  \/ CoderTesting(p) \/ CoderReview(p)

-----------------------------------------------------------------------------
(* dispatch_git_push_decision: the push succeeds or not.                   *)

PushRun(p) ==
  /\ pc[p] = "push_run"
  /\ \E pushed \in BOOLEAN :
       /\ pushed => yes[p]
       /\ Goto(p, IF pushed THEN "push_complete" ELSE "idle")
  /\ Carry(p, FALSE)
  /\ UNCHANGED <<taskVars, stageVars, hasDiff, rowVars, runVars, planVars>>

PushComplete(p) == Moves(p, "push_complete", "completed", "idle", "idle")

Push(p) == PushRun(p) \/ PushComplete(p)

Job(p) ==
  Planning(p) \/ Resume(p) \/ Manager(p) \/ Simple(p) \/ Push(p)

-----------------------------------------------------------------------------
(* Jobs that are cut off, crashes, and the sweep of what they left behind. *)

Runs(kinds) == \E p \in Procs : pc[p] \in kinds

(* The wall clock cancels the job where it stands.  No handler catches a   *)
(* CancelledError, and none puts anything back; an agent that is at work   *)
(* goes on in its thread, its row with it.                                 *)
Cut(p) ==
  /\ faults < MaxFaults
  /\ faults' = faults + 1
  /\ pc[p] \in Clocked
  /\ Goto(p, "idle")
  /\ dropped' = (status \in SM!Active)
  /\ unheld' = (stage = "resuming" /\ (unheld \/ pc[p] \in Holding))
  /\ \E thread \in SUBSET {"thread"} :
       /\ thread # {} => pc[p] \in AtWork
       /\ strays' = strays \union thread
                     \union (IF pc[p] \in OneRun THEN {"silent"} ELSE {})
  /\ Carry(p, FALSE)
  /\ claimed' = [claimed EXCEPT ![p] = 0]
  /\ UNCHANGED <<status, stage, hasDiff, rowVars, published, launched,
                 freed>>

(* The last of the threads that go on ends, and settles its row itself; a  *)
(* question it would ask is left out.                                      *)
StrayEnds ==
  /\ "thread" \in strays
  /\ strays' = strays \ {"thread"}
  /\ UNCHANGED <<taskVars, stageVars, hasDiff, rowVars, pc, yes, faults,
                 planVars>>

(* The server dies.  Its open rows stay marked running; between two agents *)
(* of a pipeline there is none.                                            *)
Crash ==
  /\ faults < MaxFaults
  /\ faults' = faults + 1
  /\ \E left \in SUBSET {"stale", "silent"} :
       /\ Runs(OneRun) => "silent" \in left
       /\ "stale" \in left => (Runs(AtWork) \/ "thread" \in strays)
       /\ left # {} => (Runs(OneRun \union SomeRun) \/ "thread" \in strays)
       /\ "thread" \in strays => left # {}
       /\ strays' = (strays \ {"thread"}) \union left
  /\ dropped' = (status \in SM!Active)
  /\ unheld' = (stage = "resuming" /\ (unheld \/ Runs(Holding)))
  /\ pc' = [p \in Procs |-> "idle"]
  /\ yes' = [p \in Procs |-> FALSE]
  /\ claimed' = [p \in Procs |-> 0]
  /\ UNCHANGED <<status, stage, hasDiff, rowVars, published, launched, freed>>

(* reconcile_orphaned_runs selects the rows with an old heartbeat, and so  *)
(* none without one.  It resumes some of them, each in a new thread, and   *)
(* fails the others; only the task of a failed one is looked at.           *)
Sweep(p) ==
  /\ pc[p] = "idle"
  /\ "stale" \in strays
  /\ \E resumed \in SUBSET {"thread"}, next \in {"idle", "sweep_task"} :
       /\ resumed # {} \/ next = "sweep_task"
       /\ strays' = (strays \ {"stale"}) \union resumed
       /\ Goto(p, next)
  /\ UNCHANGED <<taskVars, stageVars, hasDiff, rowVars, yes, faults, planVars>>

(* It then looks at that task: any other row of it still running, or a     *)
(* status that is not active, and the task is left alone.                  *)
SweepTask(p) ==
  LET row == Runs(OneRun) \/ strays # {}
      next == CASE row -> {"idle"}
                [] status \notin SM!Active -> {"idle"}
                [] Runs(SomeRun) -> {"idle", "sweep_blocked"}
                [] OTHER -> {"sweep_blocked"}
  IN Calls(p, "sweep_task", next)

(* Slip: the runs are marked failed and their task is left alone.        *)
SweepBlockedNothing(p) == Calls(p, "sweep_blocked", {"idle"})

SweepBlocked(p) == Moves(p, "sweep_blocked", "blocked", "idle", "idle")

Sweeping(p) == Sweep(p) \/ SweepTask(p) \/ SweepBlocked(p)

-----------------------------------------------------------------------------

Step(p) == Request(p) \/ Respond(p) \/ Job(p) \/ Cut(p) \/ Sweeping(p)

Next ==
  \/ Reject \/ Cancel \/ PatchStatus \/ StrayEnds \/ Crash
  \/ \E p \in Procs : Step(p)

Spec == Init /\ [][Next]_vars

(* The sweep runs every five minutes, and to its end.  Nothing makes a     *)
(* human send a request, and nothing is asked of the jobs.                 *)
Fairness == \A p \in Procs : WF_vars(Sweeping(p))

FairSpec == Spec /\ Fairness

-----------------------------------------------------------------------------
(* Properties.                                                             *)

TypeOK ==
  /\ status \in SM!Statuses /\ dropped \in BOOLEAN
  /\ stage \in Stages /\ unheld \in BOOLEAN
  /\ hasDiff \in BOOLEAN
  /\ planPending \in BOOLEAN
  /\ pushRow \in Rows
  /\ question \in {"none", "planner", "coder"}
  /\ pc \in [Procs -> PCs]
  /\ yes \in [Procs -> BOOLEAN]
  /\ strays \subseteq Strays
  /\ faults \in Nat
  /\ published \in Nat
  /\ claimed \in [Procs -> Nat]
  /\ launched \in [1..MaxPublished -> Nat]
  /\ freed \subseteq Nat

(* However requests and jobs race, the status moves along                  *)
(* VALID_TRANSITIONS, or is reset by a restart while nobody works.         *)
StatusMoves == SM!Spec

(* However the two ways to approve race, a plan starts one manager at most *)
(* (ORCH-04-107), unless a late resume of an older plan put it back up for *)
(* approval: _release_claim looks at the word "resuming" only.             *)
OneLaunchPerPlan ==
  \A n \in 1..MaxPublished : launched[n] > 1 => n \in freed

(* A claimed plan has a resume that will give it a result or put it back   *)
(* up for approval, unless that resume was cut off or died.                *)
ClaimHasHolder ==
  (stage = "resuming" /\ ~unheld) => Runs(Holding)

Busy == {p \in Procs : pc[p] # "idle"}

(* The processes at work on the task itself.                               *)
Working == {p \in Busy : pc[p] \notin {"sweep_task", "sweep_blocked"}}

(* A task that is planning, coding or testing is being worked on, or it is *)
(* planning and its plan waits for a human; unless, since it came to that  *)
(* status, a dispatch was refused or a job of it was cut off or died.      *)
ActiveIsServed ==
  (status \in SM!Active /\ ~dropped /\ Busy = {})
    => (status = "planning" /\ stage = "awaiting_approval")

(* A task whose run the sweep fails does not stay active with nobody at    *)
(* work on it (crash drill, audit 13), unless another row of it has no     *)
(* heartbeat to grow old, or a further fault stops the sweep half-way.     *)
OrphanBlocked ==
  (strays = {"stale"} /\ Working = {} /\ faults = MaxFaults)
    ~> (status \notin SM!Active \/ Working # {} \/ "thread" \in strays)

(* A task is completed, by hand or by a push, only once it has been coded. *)
CompletedHasDiff == (status = "completed") => hasDiff

-----------------------------------------------------------------------------
(* What the documentation says, and the code does not do.                  *)

(* The task of a run that the sweep finds dead does not stay active with   *)
(* nothing running (failure_ladder.py, _block_tasks_of_orphans).           *)
OrphanAlwaysBlocked ==
  ("stale" \in strays /\ Working = {})
    ~> (status \notin SM!Active \/ Working # {} \/ "thread" \in strays)

(* The active statuses reliably signal that something is still running, so *)
(* a task is never restarted beside a pipeline that is at work on it.      *)
RestartIsAlone ==
  [][(\E p \in Procs : pc[p] = "idle" /\ pc'[p] = "restart_planning")
       => ~Runs(SomeRun \union {"coder_run"})]_vars

(* Two approvals never resume the same plan.                               *)
Resuming == {p \in Procs : pc[p] \in Holding \union {"resume_task"}}

PlanResumedOnce ==
  \A p, q \in Resuming : p # q => claimed[p] # claimed[q]
=============================================================================
