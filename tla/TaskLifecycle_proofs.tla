------------------------ MODULE TaskLifecycle_proofs ------------------------
(* TLAPS proofs about TaskLifecycle, for any finite number of concurrent   *)
(* requests and jobs, any modes and any bounds.                            *)
EXTENDS TaskLifecycle, FiniteSetTheorems, TLAPS

USE ProcsAssumption, ModesAssumption, PatchAssumption

(* A plan is being resumed; its holders are in Holding.                    *)
Claims == Holding \union {"resume_task"}

(* A process that is here knows that the task has a pipeline row, or that  *)
(* the task has been coded.                                                *)
Staged == {"decide_plan", "resume_claim", "plan_record"}
Coded  == {"complete_task", "manager_stage", "manager_testing",
           "manager_review", "coder_testing", "coder_review", "record_push",
           "decide_push", "push_run", "push_complete"}

(***************************************************************************)
(* The inductive invariant: a claimed plan has its holder; what a process  *)
(* between two steps still knows from the first one (the stage never       *)
(* returns to "none", and the diff is never cleared); and, of a plan that  *)
(* no older resume has released, that it is in one place only: not put up, *)
(* waiting for people, claimed by one resume, or launched once.            *)
(***************************************************************************)
StageKnown ==
  stage = "none" => ~planPending /\ ~Runs(Staged)

DiffKnown ==
  ~hasDiff => /\ pushRow = "none"
              /\ ~Runs(Coded)
              /\ status = "completed" => "completed" \in PatchTargets

Waits(n) == stage = "awaiting_approval" /\ n = published

PlanOnce ==
  /\ \A n \in 1..MaxPublished : n > published => launched[n] = 0
  /\ \A p \in Resuming : claimed[p] <= published
  /\ \A p, q \in Resuming :
       p # q /\ claimed[p] = claimed[q] => claimed[p] \in freed
  /\ \A p \in Resuming : claimed[p] \notin freed =>
       /\ ~Waits(claimed[p])
       /\ claimed[p] \in 1..MaxPublished => launched[claimed[p]] = 0
  /\ \A n \in 1..MaxPublished : n \notin freed =>
       launched[n] = 0 \/ (launched[n] = 1 /\ ~Waits(n))

IInv ==
  /\ TypeOK
  /\ PlanOnce
  /\ ClaimHasHolder
  /\ StageKnown
  /\ DiffKnown

(* A step that puts no plan up, claims none and launches none.             *)
LEMMA PlanOnceKeeps ==
  ASSUME PlanOnce, Resuming' \subseteq Resuming,
         \A p \in Resuming' : claimed'[p] = claimed[p],
         stage' = "awaiting_approval" => stage' = stage,
         UNCHANGED <<published, launched, freed>>
  PROVE  PlanOnce'
  BY DEF PlanOnce, Waits

LEMMA ResumingAway ==
  ASSUME TypeOK, NEW p \in Procs, NEW l, Goto(p, l),
     l \in Claims => pc[p] \in Claims
  PROVE  Resuming' \subseteq Resuming
  BY DEF Resuming, Goto, Claims, TypeOK

(***************************************************************************)
(* Most steps move one process between two places that claim nothing.      *)
(* Such a step keeps the invariant if it does not put a plan up for        *)
(* approval or claim one, and if the place it leads to knows nothing new.  *)
(***************************************************************************)
Quiet(p, l) ==
  /\ Goto(p, l)
  /\ pc[p] \notin Claims /\ l \notin Claims
  /\ l \in Staged => stage # "none"
  /\ l \in Coded => hasDiff
  /\ UNCHANGED planVars

LEMMA QuietKeeps ==
  ASSUME IInv, NEW p \in Procs, NEW l \in PCs, Quiet(p, l),
         \/ stage' = stage /\ unheld' = unheld
         \/ stage' \notin {"none", "awaiting_approval", "resuming"},
         stage' = "none" => planPending' = planPending,
         hasDiff => hasDiff',
         ~hasDiff' => pushRow' = pushRow,
         ~hasDiff' /\ status' = "completed" => status = "completed",
         TypeOK'
  PROVE  IInv'
<1> USE DEF IInv
<1>1. PlanOnce'
  BY PlanOnceKeeps, ResumingAway DEF Quiet, planVars
<1>2. ClaimHasHolder'
  BY DEF ClaimHasHolder, Runs, Quiet, Goto, TypeOK, Claims
<1>3. StageKnown'
  BY DEF StageKnown, Runs, Quiet, Goto, TypeOK
<1>4. DiffKnown'
  BY DEF DiffKnown, Runs, Quiet, Goto, TypeOK
<1> QED
  BY <1>1, <1>2, <1>3, <1>4

(* The places a quiet step may lead to without knowing anything.           *)
Plain == PCs \ (Claims \union Staged \union Coded)

LEMMA PlainPlaces ==
  Plain = {"idle", "run_unmet", "restart_planning", "approve_coding",
           "answer_planner", "answer_coder",
           "route", "route_blocked", "simple_start", "simple_run",
           "simple_review", "simple_blocked", "plan_start", "plan_run",
           "plan_publish", "stop_stage", "stop_task", "fail_stage",
           "fail_task", "manager_start", "manager_coding", "manager_run",
           "manager_diff", "coder_start", "coder_run", "coder_blocked",
           "coder_diff", "sweep_task", "sweep_blocked"}
  BY DEF Plain, PCs, Claims, Staged, Coded, Holding, OneRun, SomeRun, Clocked,
     Managing, Asked

LEMMA AtPlaces == Plain \union Coded \union Staged \subseteq PCs \ Claims
  BY DEF Plain, Coded, Staged, PCs, Claims, Holding, OneRun, SomeRun, Clocked,
     Managing, Asked

LEMMA MovesKeeps ==
  ASSUME IInv, NEW p \in Procs, NEW at \in PCs \ Claims,
         NEW new \in SM!Statuses, NEW a \in Plain \union Coded, NEW b \in Plain,
         Moves(p, at, new, a, b),
         a \in Coded \/ new = "completed" => hasDiff
  PROVE  IInv'
<1>1. PICK l \in {a, b} : Goto(p, l)
  BY DEF Moves, TransitionOr
<1>2. l \in PCs
  BY AtPlaces
<1>3. TypeOK'
  BY <1>1, <1>2
     DEF Moves, TransitionOr, Transition, Goto, TypeOK, IInv, runVars,
         planVars, taskVars, stageVars, rowVars
<1>4. PICK m \in {a, b} : Quiet(p, m)
  BY DEF Moves, TransitionOr, Quiet, Plain, Coded, Claims, Staged, Holding
<1>5. m \in PCs
  BY AtPlaces
<1>6. /\ stage' = stage /\ unheld' = unheld
      /\ planPending' = planPending
      /\ pushRow' = pushRow
      /\ hasDiff' = hasDiff
  BY DEF Moves, stageVars, rowVars
<1>7. status' = "completed" => status = "completed" \/ new = "completed"
  BY DEF Moves, TransitionOr, Transition, taskVars
<1> QED
  BY <1>3, <1>4, <1>5, <1>6, <1>7, QuietKeeps

LEMMA StartsKeeps ==
  ASSUME IInv, NEW p \in Procs, NEW at \in PCs \ Claims,
         NEW new \in SM!Statuses \ {"completed"},
         NEW jobs \in SUBSET Plain, Starts(p, at, new, jobs)
  PROVE  IInv'
<1>1. PICK l \in jobs \union {"idle"} : Goto(p, l)
  BY DEF Starts
<1>2. l \in Plain /\ l \in PCs
  BY PlainPlaces DEF Plain
<1>3. TypeOK'
  BY <1>1, <1>2
     DEF Starts, Transition, Goto, TypeOK, IInv, runVars, planVars, stageVars,
         rowVars
<1>4. Quiet(p, l)
  BY <1>1, <1>2 DEF Starts, Quiet, Plain, Claims, Staged, Coded, Holding
<1>5. /\ stage' = stage /\ unheld' = unheld
      /\ planPending' = planPending
      /\ pushRow' = pushRow
      /\ hasDiff' = hasDiff
      /\ status' # "completed"
  BY DEF Starts, Transition, stageVars, rowVars
<1> QED
  BY <1>2, <1>3, <1>4, <1>5, QuietKeeps

LEMMA SetStageKeeps ==
  ASSUME IInv, NEW p \in Procs, NEW at \in PCs \ Claims,
         NEW new \in Stages \ {"none", "awaiting_approval", "resuming"},
         NEW next \in Plain \union Coded, SetStage(p, at, new, next),
         next \in Coded => hasDiff
  PROVE  IInv'
<1>1. TypeOK'
  BY AtPlaces
     DEF SetStage, StageIs, Goto, TypeOK, IInv, runVars, planVars, taskVars,
         rowVars
<1>2. Quiet(p, next) /\ next \in PCs
  BY AtPlaces DEF SetStage, Quiet, Plain, Coded, Claims, Staged, Holding
<1>3. /\ stage' \notin {"none", "awaiting_approval", "resuming"}
      /\ status' = status
      /\ pushRow' = pushRow
      /\ hasDiff' = hasDiff
  BY DEF SetStage, StageIs, taskVars, rowVars
<1> QED
  BY <1>1, <1>2, <1>3, QuietKeeps

LEMMA CallsKeeps ==
  ASSUME IInv, NEW p \in Procs, NEW at \in PCs \ Claims,
         NEW outcomes \in SUBSET (Plain \union Coded), Calls(p, at, outcomes),
         outcomes \in SUBSET Plain \/ hasDiff
  PROVE  IInv'
<1>1. PICK next \in outcomes : Goto(p, next)
  BY DEF Calls
<1>2. TypeOK'
  BY <1>1, AtPlaces
     DEF Calls, Goto, TypeOK, IInv, runVars, planVars, taskVars, stageVars,
         rowVars
<1>3. Quiet(p, next) /\ next \in PCs
  BY <1>1, AtPlaces DEF Calls, Quiet, Plain, Coded, Claims, Staged, Holding
<1>4. /\ status' = status
      /\ stage' = stage /\ unheld' = unheld
      /\ planPending' = planPending
      /\ pushRow' = pushRow
      /\ hasDiff' = hasDiff
  BY DEF Calls, taskVars, stageVars, rowVars
<1> QED
  BY <1>2, <1>3, <1>4, QuietKeeps

(* What a step does to the place and to the decision of one process.       *)
LEMMA PlaceTyped ==
  ASSUME TypeOK, NEW p \in Procs, NEW l \in PCs, Goto(p, l)
  PROVE  pc' \in [Procs -> PCs]
  BY DEF TypeOK, Goto

LEMMA DecisionTyped ==
  ASSUME TypeOK, NEW p \in Procs, NEW b \in BOOLEAN, Carry(p, b)
  PROVE  yes' \in [Procs -> BOOLEAN]
  BY DEF TypeOK, Carry

LEMMA SomePlaces ==
  {"idle", "resume_claim", "push_run", "restart_planning", "plan_record",
   "fail_stage", "manager_start", "resume_release"} \subseteq PCs
  BY DEF PCs, Clocked, Managing, Asked, Holding

(* A process at a place of Coded knows that the task has a diff.           *)
LEMMA CodedHasDiff ==
  ASSUME IInv, NEW p \in Procs, pc[p] \in Coded
  PROVE  hasDiff
  BY DEF IInv, DiffKnown, Runs

LEMMA PushRowHasDiff == IInv /\ pushRow # "none" => hasDiff
  BY DEF IInv, DiffKnown

-----------------------------------------------------------------------------
(* The invariant holds initially, and each group of actions keeps it.      *)

LEMMA InvInit == Init => IInv
<1> SUFFICES ASSUME Init PROVE IInv
  OBVIOUS
<1>1. Resuming = {}
  BY DEF Init, Resuming, Holding
<1>2. PlanOnce
  BY <1>1 DEF Init, PlanOnce
<1>3. TypeOK
  BY DEF Init, TypeOK, Stages, Rows, PCs, SM!Statuses, Clocked, Managing, Asked
<1>4. ClaimHasHolder /\ StageKnown /\ DiffKnown
  BY DEF Init, ClaimHasHolder, StageKnown, DiffKnown, Runs, Staged, Coded
<1> QED
  BY <1>2, <1>3, <1>4 DEF IInv

LEMMA SaveDiffKeeps ==
  ASSUME IInv, NEW p \in Procs, NEW at \in PCs \ Claims,
         NEW next \in Plain \union Coded, SaveDiff(p, at, next)
  PROVE  IInv'
<1>1. TypeOK'
  BY DEF SaveDiff, Goto, TypeOK, IInv, runVars, planVars, taskVars, stageVars,
     rowVars, Plain, Coded, PCs, Clocked, Managing, Asked
<1>2. /\ hasDiff' = TRUE /\ stage' = stage /\ unheld' = unheld
      /\ planPending' = planPending
  BY DEF SaveDiff, taskVars, stageVars, rowVars
<1>3. /\ Goto(p, next) /\ next \in PCs
      /\ pc[p] \notin Claims /\ next \notin Claims \union Staged
      /\ UNCHANGED planVars /\ unheld' = unheld
  BY DEF SaveDiff, stageVars, Plain, Coded, Claims, Staged, Holding, runVars,
     PCs, Clocked, Managing, Asked
<1>4. PlanOnce'
  BY <1>2, <1>3, PlanOnceKeeps, ResumingAway DEF IInv, planVars
<1>5. ClaimHasHolder' /\ StageKnown' /\ DiffKnown'
  BY <1>2, <1>3
     DEF IInv, TypeOK, ClaimHasHolder, StageKnown, DiffKnown, Runs, Goto,
         Claims
<1> QED
  BY <1>1, <1>4, <1>5 DEF IInv

LEMMA SimpleKeeps ==
  ASSUME IInv, NEW p \in Procs, Simple(p)
  PROVE  IInv'
<1>1. CASE Route(p)
  BY <1>1, MovesKeeps, CallsKeeps, PlainPlaces, AtPlaces
     DEF Route, SM!Statuses, Coded
<1>2. CASE RouteBlocked(p)
  BY <1>2, MovesKeeps, PlainPlaces, AtPlaces
     DEF RouteBlocked, SM!Statuses, Coded
<1>3. CASE SimpleStart(p)
  BY <1>3, CallsKeeps, PlainPlaces, AtPlaces DEF SimpleStart, Coded
<1>4. CASE SimpleRun(p)
  BY <1>4, CallsKeeps, PlainPlaces, AtPlaces DEF SimpleRun, Coded
<1>5. CASE SimpleAsk(p)
  <2>1. TypeOK'
    BY <1>5
       DEF IInv, TypeOK, SimpleAsk, PCs, Goto, Carry, taskVars, stageVars,
           rowVars, runVars, planVars, Clocked, Managing, Asked
  <2>2. PICK l \in {"simple_blocked"} : Quiet(p, l)
    BY <1>5
       DEF IInv, SimpleAsk, Quiet, runVars, planVars, Claims, Holding, Staged,
           Coded, StageKnown
  <2>3. /\ status' = status /\ stage' = stage /\ unheld' = unheld
        /\ hasDiff' = hasDiff /\ pushRow' = pushRow /\ planPending' = planPending
    BY <1>5 DEF SimpleAsk, taskVars, stageVars, rowVars
  <2> QED
    BY <2>1, <2>2, <2>3, PlainPlaces, AtPlaces, QuietKeeps DEF Staged, Coded
<1>6. CASE SimpleReview(p)
  BY <1>6, MovesKeeps, PlainPlaces, AtPlaces
     DEF SimpleReview, SM!Statuses, Coded
<1>7. CASE SimpleBlocked(p)
  BY <1>7, MovesKeeps, PlainPlaces, AtPlaces
     DEF SimpleBlocked, SM!Statuses, Coded
<1>8. CASE CoderStart(p)
  BY <1>8, CallsKeeps, PlainPlaces, AtPlaces DEF CoderStart, Coded
<1>9. CASE CoderRun(p)
  BY <1>9, CallsKeeps, PlainPlaces, AtPlaces DEF CoderRun, Coded
<1>10. CASE CoderAsk(p)
  <2>1. TypeOK'
    BY <1>10
       DEF IInv, TypeOK, CoderAsk, PCs, Goto, Carry, taskVars, stageVars,
           rowVars, runVars, planVars, Clocked, Managing, Asked
  <2>2. PICK l \in {"coder_blocked"} : Quiet(p, l)
    BY <1>10
       DEF IInv, CoderAsk, Quiet, runVars, planVars, Claims, Holding, Staged,
           Coded, StageKnown
  <2>3. /\ status' = status /\ stage' = stage /\ unheld' = unheld
        /\ hasDiff' = hasDiff /\ pushRow' = pushRow /\ planPending' = planPending
    BY <1>10 DEF CoderAsk, taskVars, stageVars, rowVars
  <2> QED
    BY <2>1, <2>2, <2>3, PlainPlaces, AtPlaces, QuietKeeps DEF Staged, Coded
<1>11. CASE CoderBlocked(p)
  BY <1>11, MovesKeeps, PlainPlaces, AtPlaces
     DEF CoderBlocked, SM!Statuses, Coded
<1>12. CASE CoderDiff(p)
  BY <1>12, SaveDiffKeeps, PlainPlaces, AtPlaces DEF CoderDiff, Coded
<1>13. CASE CoderTesting(p)
  BY <1>13, MovesKeeps, PlainPlaces, AtPlaces, CodedHasDiff
     DEF CoderTesting, SM!Statuses, Coded, Moves
<1>14. CASE CoderReview(p)
  BY <1>14, MovesKeeps, PlainPlaces, AtPlaces, CodedHasDiff
     DEF CoderReview, SM!Statuses, Coded, Moves
<1> QED
    BY <1>1, <1>2, <1>3, <1>4, <1>5, <1>6, <1>7, <1>8, <1>9, <1>10, <1>11,
     <1>12, <1>13, <1>14 DEF Simple

LEMMA RespondKeeps ==
  ASSUME IInv, NEW p \in Procs, Respond(p)
  PROVE  IInv'
<1>1. CASE RunUnmet(p)
  BY <1>1, MovesKeeps, PlainPlaces, AtPlaces DEF RunUnmet, SM!Statuses, Coded
<1>2. CASE RestartPlanning(p)
  BY <1>2, StartsKeeps, CallsKeeps, PlainPlaces, AtPlaces
     DEF RestartPlanning, SM!Statuses
<1>3. CASE ApproveCoding(p)
  BY <1>3, StartsKeeps, CallsKeeps, PlainPlaces, AtPlaces
     DEF ApproveCoding, SM!Statuses
<1>4. CASE CompleteTask(p)
  BY <1>4, MovesKeeps, PlainPlaces, AtPlaces, CodedHasDiff
     DEF CompleteTask, SM!Statuses, Coded, Moves
<1>5. CASE DecidePlan(p)
  <2>1. TypeOK'
    <3>1. TypeOK
      BY DEF IInv
    <3>2. PICK l \in {"resume_claim", "idle"} : Goto(p, l)
      BY <1>5 DEF DecidePlan
    <3>3. pc' \in [Procs -> PCs]
      BY <3>1, <3>2, PlaceTyped, SomePlaces
    <3>4. yes' \in [Procs -> BOOLEAN]
      <4>1. (yes[p] /\ planPending) \in BOOLEAN
        OBVIOUS
      <4> QED
        BY <3>1, <4>1, <1>5, DecisionTyped DEF DecidePlan
    <3>5. planPending' \in BOOLEAN
      BY <3>1, <1>5 DEF DecidePlan, TypeOK
    <3> QED
      BY <3>1, <3>3, <3>4, <3>5, <1>5
         DEF DecidePlan, TypeOK, taskVars, stageVars, runVars, planVars
  <2>2. PICK l \in {"resume_claim", "idle"} : Quiet(p, l)
    BY <1>5
       DEF IInv, TypeOK, DecidePlan, IInv, StageKnown, Runs, Staged, Quiet,
           runVars, planVars, Claims, Holding, Staged, Coded, StageKnown, Runs
  <2>3. /\ status' = status /\ stage' = stage /\ unheld' = unheld
        /\ hasDiff' = hasDiff /\ pushRow' = pushRow
        /\ stage # "none"
    BY <1>5
       DEF DecidePlan, IInv, StageKnown, Runs, Staged, taskVars, stageVars,
           rowVars, Transition
  <2> QED
    BY <2>1, <2>2, <2>3, PlainPlaces, AtPlaces, QuietKeeps
       DEF Staged, Coded, PCs, Clocked, Managing, Asked
<1>6. CASE DecidePush(p)
  <2>1. TypeOK'
    BY <1>6
       DEF IInv, TypeOK, DecidePush, DiffKnown, Runs, Coded, PCs, Goto, Carry,
           taskVars, stageVars, rowVars, runVars, planVars, Rows, Stages,
           SM!Statuses, Clocked, Managing, Asked
  <2>2. PICK l \in {"push_run", "idle"} : Quiet(p, l)
    BY <1>6
       DEF IInv, TypeOK, DecidePush, IInv, DiffKnown, Runs, Coded, Quiet,
           runVars, planVars, Claims, Holding, Staged, Coded, StageKnown, Runs
  <2>3. /\ status' = status /\ stage' = stage /\ unheld' = unheld
        /\ hasDiff' = hasDiff 
        /\ planPending' = planPending /\ hasDiff
    BY <1>6
       DEF DecidePush, IInv, DiffKnown, Runs, Coded, taskVars, stageVars,
           rowVars, Transition
  <2> QED
    BY <2>1, <2>2, <2>3, PlainPlaces, AtPlaces, QuietKeeps
       DEF Staged, Coded, PCs, Clocked, Managing, Asked
<1>7. CASE AnswerPlanner(p)
  BY <1>7, MovesKeeps, PlainPlaces, AtPlaces
     DEF AnswerPlanner, SM!Statuses, Coded
<1>8. CASE AnswerCoder(p)
  BY <1>8, MovesKeeps, PlainPlaces, AtPlaces
     DEF AnswerCoder, SM!Statuses, Coded
<1> QED
  BY <1>1, <1>2, <1>3, <1>4, <1>5, <1>6, <1>7, <1>8 DEF Respond

LEMMA RequestKeeps ==
  ASSUME IInv, NEW p \in Procs, Request(p)
  PROVE  IInv'
<1>1. CASE Run(p)
  <2>1. Modes \in SUBSET Plain
    BY PlainPlaces
  <2> QED
    BY <1>1, <2>1, StartsKeeps, PlainPlaces, AtPlaces DEF Run, SM!Statuses
<1>2. CASE RunUnmetRead(p)
  BY <1>2, CallsKeeps, PlainPlaces, AtPlaces DEF RunUnmetRead, Coded
<1>3. CASE RestartReset(p)
  <2>1. TypeOK'
    BY <1>3
       DEF IInv, TypeOK, RestartReset, PCs, Goto, Carry, taskVars, stageVars,
           rowVars, runVars, planVars, Rows, Stages, SM!Statuses, Clocked,
           Managing, Asked
  <2>2. PICK l \in {"restart_planning"} : Quiet(p, l)
    BY <1>3
       DEF IInv, TypeOK, RestartReset, Quiet, runVars, planVars, Claims,
           Holding, Staged, Coded, StageKnown, Runs
  <2>3. /\ status' = "pending" /\ stage' = stage /\ unheld' = unheld
        /\ hasDiff' = hasDiff /\ pushRow' = pushRow
        /\ planPending' = planPending
    BY <1>3 DEF RestartReset, taskVars, stageVars, rowVars, Transition
  <2> QED
    BY <2>1, <2>2, <2>3, PlainPlaces, AtPlaces, QuietKeeps
       DEF Staged, Coded, PCs, Clocked, Managing, Asked
<1>4. CASE ApproveRead(p)
  BY <1>4, CallsKeeps, PlainPlaces, AtPlaces DEF ApproveRead, Coded, ReadReview
<1>5. CASE CompleteRead(p)
  BY <1>5, CallsKeeps, PlainPlaces, AtPlaces
     DEF CompleteRead, Coded, ReadReview
<1>6. CASE PipelineDecide(p)
  <2>1. TypeOK'
    BY <1>6
       DEF IInv, TypeOK, PipelineDecide, Decide, PCs, Goto, Carry, taskVars,
           stageVars, rowVars, runVars, planVars, Rows, Stages, SM!Statuses,
           Clocked, Managing, Asked
  <2>2. PICK l \in {"resume_claim"} : Quiet(p, l)
    BY <1>6
       DEF IInv, TypeOK, PipelineDecide, Decide, Quiet, runVars, planVars,
           Claims, Holding, Staged, Coded, StageKnown, Runs
  <2>3. /\ status' = status /\ stage' = stage /\ unheld' = unheld
        /\ hasDiff' = hasDiff /\ pushRow' = pushRow
        /\ planPending' = planPending
    BY <1>6
       DEF PipelineDecide, Decide, taskVars, stageVars, rowVars, Transition
  <2> QED
    BY <2>1, <2>2, <2>3, PlainPlaces, AtPlaces, QuietKeeps
       DEF Staged, Coded, PCs, Clocked, Managing, Asked
<1>7. CASE DecidePlanRead(p)
  <2>1. TypeOK'
    BY <1>7
       DEF IInv, TypeOK, DecidePlanRead, Decide, PCs, Goto, Carry, taskVars,
           stageVars, rowVars, runVars, planVars, Rows, Stages, SM!Statuses,
           Clocked, Managing, Asked
  <2>2. PICK l \in {"decide_plan"} : Quiet(p, l)
    BY <1>7
       DEF IInv, TypeOK, DecidePlanRead, Decide, Quiet, runVars, planVars,
           Claims, Holding, Staged, Coded, StageKnown, Runs
  <2>3. /\ status' = status /\ stage' = stage /\ unheld' = unheld
        /\ hasDiff' = hasDiff /\ pushRow' = pushRow
        /\ planPending' = planPending
    BY <1>7
       DEF DecidePlanRead, Decide, taskVars, stageVars, rowVars, Transition
  <2> QED
    BY <2>1, <2>2, <2>3, PlainPlaces, AtPlaces, QuietKeeps
       DEF Staged, Coded, PCs, Clocked, Managing, Asked
<1>8. CASE DecidePushRead(p)
  <2>1. TypeOK'
    BY <1>8
       DEF IInv, TypeOK, DecidePushRead, Decide, PCs, Goto, Carry, taskVars,
           stageVars, rowVars, runVars, planVars, Rows, Stages, SM!Statuses,
           Clocked, Managing, Asked
  <2>2. PICK l \in {"decide_push"} : Quiet(p, l)
    BY <1>8, PushRowHasDiff
       DEF IInv, TypeOK, DecidePushRead, Decide, Quiet, runVars, planVars,
           Claims, Holding, Staged, Coded, StageKnown, Runs
  <2>3. /\ status' = status /\ stage' = stage /\ unheld' = unheld
        /\ hasDiff' = hasDiff /\ pushRow' = pushRow
        /\ planPending' = planPending
    BY <1>8
       DEF DecidePushRead, Decide, taskVars, stageVars, rowVars, Transition
  <2> QED
    BY <2>1, <2>2, <2>3, PlainPlaces, AtPlaces, QuietKeeps
       DEF Staged, Coded, PCs, Clocked, Managing, Asked
<1>9. CASE PushRequest(p)
  <2>1. TypeOK'
    BY <1>9
       DEF IInv, TypeOK, PushRequest, PCs, Goto, Carry, taskVars, stageVars,
           rowVars, runVars, planVars, Rows, Stages, SM!Statuses, Clocked,
           Managing, Asked
  <2>2. PICK l \in {"push_run"} : Quiet(p, l)
    BY <1>9, PushRowHasDiff
       DEF IInv, TypeOK, PushRequest, Quiet, runVars, planVars, Claims,
           Holding, Staged, Coded, StageKnown, Runs
  <2>3. /\ status' = status /\ stage' = stage /\ unheld' = unheld
        /\ hasDiff' = hasDiff /\ pushRow' = pushRow
        /\ planPending' = planPending
    BY <1>9 DEF PushRequest, taskVars, stageVars, rowVars, Transition
  <2> QED
    BY <2>1, <2>2, <2>3, PlainPlaces, AtPlaces, QuietKeeps
       DEF Staged, Coded, PCs, Clocked, Managing, Asked
<1>10. CASE Answer(p)
  <2>1. TypeOK'
    BY <1>10
       DEF IInv, TypeOK, Answer, PCs, Goto, Carry, taskVars, stageVars,
           rowVars, runVars, planVars, Rows, Stages, SM!Statuses, Clocked,
           Managing, Asked
  <2>2. PICK l \in {"answer_coder", "answer_planner", "idle"} : Quiet(p, l)
    BY <1>10
       DEF IInv, TypeOK, Answer, Quiet, runVars, planVars, Claims, Holding,
           Staged, Coded, StageKnown, Runs
  <2>3. /\ status' = status /\ stage' = stage /\ unheld' = unheld
        /\ hasDiff' = hasDiff /\ pushRow' = pushRow
        /\ planPending' = planPending
    BY <1>10 DEF Answer, taskVars, stageVars, rowVars, Transition
  <2> QED
    BY <2>1, <2>2, <2>3, PlainPlaces, AtPlaces, QuietKeeps
       DEF Staged, Coded, PCs, Clocked, Managing, Asked
<1> QED
  BY <1>1, <1>2, <1>3, <1>4, <1>5, <1>6, <1>7, <1>8, <1>9, <1>10 DEF Request

LEMMA PushKeeps ==
  ASSUME IInv, NEW p \in Procs, Push(p)
  PROVE  IInv'
<1>1. CASE PushRun(p)
  <2>1. TypeOK'
    BY <1>1
       DEF IInv, TypeOK, PushRun, PCs, Goto, Carry, taskVars, stageVars,
           rowVars, runVars, planVars, Rows, Stages, SM!Statuses, Clocked,
           Managing, Asked
  <2>2. PICK l \in {"push_complete", "idle"} : Quiet(p, l)
    BY <1>1, CodedHasDiff
       DEF IInv, TypeOK, PushRun, Quiet, runVars, planVars, Claims, Holding,
           Staged, Coded, StageKnown, Runs
  <2>3. /\ status' = status /\ stage' = stage /\ unheld' = unheld
        /\ hasDiff' = hasDiff /\ pushRow' = pushRow
        /\ planPending' = planPending
    BY <1>1 DEF PushRun, taskVars, stageVars, rowVars, Transition
  <2> QED
    BY <2>1, <2>2, <2>3, PlainPlaces, AtPlaces, QuietKeeps
       DEF Staged, Coded, PCs, Clocked, Managing, Asked
<1>2. CASE PushComplete(p)
  BY <1>2, MovesKeeps, PlainPlaces, AtPlaces, CodedHasDiff
     DEF PushComplete, SM!Statuses, Coded, Moves
<1> QED
  BY <1>1, <1>2 DEF Push

LEMMA ManagerKeeps ==
  ASSUME IInv, NEW p \in Procs, Manager(p)
  PROVE  IInv'
<1>1. CASE ManagerStart(p)
  BY <1>1, SetStageKeeps, CallsKeeps, PlainPlaces, AtPlaces
     DEF ManagerStart, Stages, Coded
<1>2. CASE ManagerCoding(p)
  BY <1>2, MovesKeeps, PlainPlaces, AtPlaces
     DEF ManagerCoding, SM!Statuses, Coded
<1>3. CASE ManagerRun(p)
  BY <1>3, CallsKeeps, PlainPlaces, AtPlaces DEF ManagerRun, Coded
<1>4. CASE ManagerDiff(p)
  BY <1>4, SaveDiffKeeps, PlainPlaces, AtPlaces DEF ManagerDiff, Coded
<1>5. CASE ManagerStage(p)
  BY <1>5, SetStageKeeps, PlainPlaces, AtPlaces, CodedHasDiff
     DEF ManagerStage, Stages, Coded, SetStage
<1>6. CASE ManagerTesting(p)
  BY <1>6, MovesKeeps, PlainPlaces, AtPlaces, CodedHasDiff
     DEF ManagerTesting, SM!Statuses, Coded, Moves
<1>7. CASE ManagerReview(p)
  BY <1>7, MovesKeeps, PlainPlaces, AtPlaces, CodedHasDiff
     DEF ManagerReview, SM!Statuses, Coded, Moves
<1>8. CASE RecordPush(p)
  <2>1. TypeOK'
    BY <1>8
       DEF IInv, TypeOK, RecordPush, DiffKnown, Runs, Coded, PCs, Goto, Carry,
           taskVars, stageVars, rowVars, runVars, planVars, Rows, Stages,
           SM!Statuses, Clocked, Managing, Asked
  <2>2. PICK l \in {"idle"} : Quiet(p, l)
    BY <1>8
       DEF IInv, TypeOK, RecordPush, IInv, DiffKnown, Runs, Coded, Quiet,
           runVars, planVars, Claims, Holding, Staged, Coded, StageKnown, Runs
  <2>3. /\ status' = status /\ stage' = stage /\ unheld' = unheld
        /\ hasDiff' = hasDiff 
        /\ planPending' = planPending /\ hasDiff
    BY <1>8
       DEF RecordPush, IInv, DiffKnown, Runs, Coded, taskVars, stageVars,
           rowVars, Transition
  <2> QED
    BY <2>1, <2>2, <2>3, PlainPlaces, AtPlaces, QuietKeeps
       DEF Staged, Coded, PCs, Clocked, Managing, Asked
<1> QED
  BY <1>1, <1>2, <1>3, <1>4, <1>5, <1>6, <1>7, <1>8 DEF Manager

LEMMA PlanningKeeps ==
  ASSUME IInv, NEW p \in Procs, Planning(p)
  PROVE  IInv'
<1>1. CASE PlanStart(p)
  BY <1>1, SetStageKeeps, PlainPlaces, AtPlaces DEF PlanStart, Stages, Coded
<1>2. CASE PlanRun(p)
  BY <1>2, CallsKeeps, PlainPlaces, AtPlaces DEF PlanRun, Coded
<1>3. CASE PlanPublish(p)
  <2>1. PICK l \in {"plan_record", "fail_stage"} : Goto(p, l)
    BY <1>3 DEF PlanPublish
  <2>2. /\ pc[p] = "plan_publish" /\ stage' = "awaiting_approval"
        /\ published' = published + 1
        /\ UNCHANGED <<status, hasDiff, planPending, pushRow, claimed, launched,
                       freed>>
    BY <1>3 DEF PlanPublish, StageIs, taskVars, rowVars
  <2>3. TypeOK'
    <3>1. TypeOK
      BY DEF IInv
    <3>2. pc' \in [Procs -> PCs]
      BY <2>1, <3>1, PlaceTyped, SomePlaces
    <3>3. unheld' = FALSE
      BY <1>3 DEF PlanPublish, StageIs
    <3>4. stage' \in Stages /\ published' \in Nat
      BY <2>2, <3>1 DEF TypeOK, Stages
    <3> QED
      BY <1>3, <2>2, <3>1, <3>2, <3>3, <3>4
         DEF TypeOK, PlanPublish, taskVars, rowVars, runVars
  <2>4. PlanOnce'
    <3>1. Resuming' \subseteq Resuming
      BY <2>1, <2>2, ResumingAway DEF IInv, Claims, Holding
    <3>2. \A q \in Resuming : claimed[q] \in Nat
      BY DEF IInv, TypeOK, Resuming
    <3> QED
      BY <2>2, <3>1, <3>2 DEF IInv, TypeOK, PlanOnce, Waits
  <2>5. ClaimHasHolder' /\ StageKnown'
    BY <2>2 DEF ClaimHasHolder, StageKnown
  <2>6. DiffKnown'
    BY <2>1, <2>2 DEF IInv, TypeOK, DiffKnown, Runs, Goto, Coded
  <2> QED
    BY <2>3, <2>4, <2>5, <2>6 DEF IInv
<1>4. CASE PlanRecord(p)
  <2>1. TypeOK'
    <3>1. TypeOK
      BY DEF IInv
    <3>2. pc' \in [Procs -> PCs]
      BY <3>1, <1>4, PlaceTyped, SomePlaces DEF PlanRecord
    <3>3. planPending' \in BOOLEAN
      BY <3>1, <1>4 DEF PlanRecord, TypeOK
    <3> QED
      BY <3>1, <3>2, <3>3, <1>4
         DEF PlanRecord, TypeOK, taskVars, stageVars, runVars, planVars
  <2>2. PICK l \in {"idle"} : Quiet(p, l)
    BY <1>4
       DEF IInv, TypeOK, PlanRecord, IInv, StageKnown, Runs, Staged, Quiet,
           runVars, planVars, Claims, Holding, Staged, Coded, StageKnown, Runs
  <2>3. /\ status' = status /\ stage' = stage /\ unheld' = unheld
        /\ hasDiff' = hasDiff /\ pushRow' = pushRow
        /\ stage # "none"
    BY <1>4
       DEF PlanRecord, IInv, StageKnown, Runs, Staged, taskVars, stageVars,
           rowVars, Transition
  <2> QED
    BY <2>1, <2>2, <2>3, PlainPlaces, AtPlaces, QuietKeeps
       DEF Staged, Coded, PCs, Clocked, Managing, Asked
<1>5. CASE StopStage(p)
  BY <1>5, SetStageKeeps, PlainPlaces, AtPlaces DEF StopStage, Stages, Coded
<1>6. CASE StopTask(p)
  BY <1>6, MovesKeeps, PlainPlaces, AtPlaces DEF StopTask, SM!Statuses, Coded
<1>7. CASE FailStage(p)
  BY <1>7, SetStageKeeps, PlainPlaces, AtPlaces DEF FailStage, Stages, Coded
<1>8. CASE FailTask(p)
  BY <1>8, MovesKeeps, PlainPlaces, AtPlaces DEF FailTask, SM!Statuses, Coded
<1> QED
  BY <1>1, <1>2, <1>3, <1>4, <1>5, <1>6, <1>7, <1>8 DEF Planning

(* A step inside a resume that does not write the stage.                   *)
LEMMA ResumeQuietKeeps ==
  ASSUME IInv, NEW p \in Procs, NEW l \in Claims,
         Goto(p, l), pc[p] \in Claims, pc[p] \in Holding => l \in Holding,
         UNCHANGED <<status, stage, unheld, hasDiff, pushRow, planVars>>,
         stage = "none" => planPending' = planPending,
         TypeOK'
  PROVE  IInv'
<1>1. PlanOnce'
  BY PlanOnceKeeps, ResumingAway DEF IInv, planVars
<1>2. ClaimHasHolder'
  BY DEF IInv, TypeOK, ClaimHasHolder, Runs, Goto
<1>3. StageKnown' /\ DiffKnown'
  BY DEF IInv, TypeOK, StageKnown, DiffKnown, Runs, Goto, Staged, Coded,
     Claims, Holding
<1> QED
  BY <1>1, <1>2, <1>3 DEF IInv

LEMMA ResumePlaces == {"resume_claim"} \union Claims \subseteq PCs
  BY DEF Claims, PCs, Clocked, Managing, Asked

LEMMA ResumeClaimKeeps ==
  ASSUME IInv, NEW p \in Procs, ResumeClaim(p)
  PROVE  IInv'
<1>1. /\ pc[p] = "resume_claim" /\ stage # "none"
      /\ UNCHANGED <<status, dropped, hasDiff, planPending, pushRow, question,
                     strays, faults, published, launched, freed>>
  BY DEF IInv, StageKnown, Runs, Staged, ResumeClaim, taskVars, rowVars,
     runVars
<1>2. CASE stage = "awaiting_approval"
  <2>1. /\ Goto(p, "resume_graph") /\ stage' = "resuming" /\ unheld' = FALSE
        /\ claimed' = [claimed EXCEPT ![p] = published] /\ yes' = yes
    BY <1>2 DEF ResumeClaim, StageIs
  <2>2. TypeOK'
    BY <1>1, <2>1, ResumePlaces DEF IInv, TypeOK, Goto, Claims, Holding, Stages
  <2>3. PlanOnce'
    <3>1. /\ Resuming' = Resuming \union {p} /\ p \notin Resuming
          /\ claimed'[p] = published
          /\ \A q \in Resuming : claimed'[q] = claimed[q] /\ claimed[q] \in Nat
      BY <1>1, <2>1 DEF IInv, TypeOK, Resuming, Goto, Holding
    <3>2. published \notin freed =>
            /\ \A q \in Resuming : claimed[q] # published
            /\ published \in 1..MaxPublished => launched[published] = 0
      BY <1>2 DEF IInv, PlanOnce, Waits
    <3>3. \A n : ~Waits(n)'
      BY <2>1 DEF Waits
    <3>4. PlanOnce
      BY DEF IInv
    <3>5. published \in Nat
      BY DEF IInv, TypeOK
    <3>6. \A q \in Resuming' : claimed'[q] <= published'
      BY <1>1, <3>1, <3>4, <3>5 DEF PlanOnce
    <3>7. ASSUME NEW q \in Resuming', NEW r \in Resuming', q # r,
                 claimed'[q] = claimed'[r]
          PROVE  claimed'[q] \in freed'
      BY <1>1, <3>1, <3>2, <3>4, <3>7 DEF PlanOnce
    <3>8. ASSUME NEW q \in Resuming', claimed'[q] \notin freed',
                 claimed'[q] \in 1..MaxPublished
          PROVE  launched'[claimed'[q]] = 0
      BY <1>1, <3>1, <3>2, <3>4, <3>8 DEF PlanOnce
    <3>9. \A n \in 1..MaxPublished :
            /\ n > published' => launched'[n] = 0
            /\ n \notin freed' => launched'[n] \in {0, 1}
      BY <1>1, <3>4 DEF PlanOnce
    <3> QED
      BY <3>3, <3>6, <3>7, <3>8, <3>9 DEF PlanOnce
  <2>4. ClaimHasHolder'
    BY <2>1 DEF IInv, TypeOK, ClaimHasHolder, Runs, Goto, Holding
  <2>5. StageKnown' /\ DiffKnown'
    BY <1>1, <2>1 DEF IInv, TypeOK, StageKnown, DiffKnown, Runs, Goto, Coded
  <2> QED
    BY <2>2, <2>3, <2>4, <2>5 DEF IInv
<1>3. CASE stage # "awaiting_approval"
  <2>1. /\ Goto(p, "idle") /\ Carry(p, FALSE)
        /\ UNCHANGED <<stage, unheld, claimed>>
    BY <1>1, <1>3 DEF ResumeClaim, stageVars
  <2>2. TypeOK'
    BY <1>1, <2>1 DEF IInv, TypeOK, Goto, Carry, PCs, Clocked, Managing, Asked
  <2>3. Quiet(p, "idle")
    BY <1>1, <2>1 DEF Quiet, Claims, Holding, Staged, Coded, planVars
  <2> QED
    BY <1>1, <2>1, <2>2, <2>3, QuietKeeps DEF PCs, Clocked, Managing, Asked
<1> QED
  BY <1>2, <1>3

LEMMA ResumeTaskKeeps ==
  ASSUME IInv, NEW p \in Procs, ResumeTask(p)
  PROVE  IInv'
<1>1. TypeOK'
  <2>1. TypeOK
    BY DEF IInv
  <2>2. PICK l \in {"manager_start", "idle", "resume_release"} : Goto(p, l)
    BY DEF ResumeTask, TransitionOr
  <2>3. pc' \in [Procs -> PCs]
    BY <2>1, <2>2, PlaceTyped, SomePlaces
  <2>4. yes' \in [Procs -> BOOLEAN]
    BY <2>1, DecisionTyped DEF ResumeTask
  <2>5. status' \in SM!Statuses /\ dropped' \in BOOLEAN
    BY <2>1
       DEF TypeOK, ResumeTask, TransitionOr, Transition, SM!Statuses, taskVars
  <2>6. /\ launched' \in [1..MaxPublished -> Nat]
        /\ claimed' \in [Procs -> Nat]
    BY <2>1 DEF TypeOK, ResumeTask
  <2> QED
    BY <2>1, <2>3, <2>4, <2>5, <2>6
       DEF ResumeTask, TypeOK, stageVars, rowVars, runVars
<1>2. /\ pc[p] = "resume_task"
      /\ status' \in {status, "ready_for_review", "rejected"}
      /\ UNCHANGED <<stage, unheld, hasDiff, planPending, pushRow, published,
                     freed>>
  BY DEF ResumeTask, TransitionOr, Transition, taskVars, stageVars, rowVars,
     runVars
<1>3. CASE CanTransition(IF yes[p] THEN "ready_for_review" ELSE "rejected")
  <2>1. PICK l \in {"manager_start", "idle"} : Goto(p, l)
    BY <1>3 DEF ResumeTask, TransitionOr
  <2>2. /\ Resuming' = Resuming \ {p} /\ p \in Resuming
        /\ \A q \in Resuming' : claimed'[q] = claimed[q]
    BY <1>2, <1>3, <2>1 DEF IInv, TypeOK, ResumeTask, Resuming, Goto, Holding
  <2>3. PlanOnce'
    <3>1. CASE UNCHANGED launched
      BY <1>2, <2>2, <3>1, PlanOnceKeeps DEF IInv
    <3>2. CASE launched' = [launched EXCEPT ![claimed[p]] = @ + 1]
      <4> DEFINE n == claimed[p]
      <4>1. \A m \in 1..MaxPublished :
              launched'[m] = IF m = n THEN launched[m] + 1 ELSE launched[m]
        BY <3>2 DEF IInv, TypeOK
      <4>2. PlanOnce /\ published \in Nat /\ n \in Nat
        BY DEF IInv, TypeOK
      <4>3. ~(n > published)
        BY <2>2, <4>2 DEF PlanOnce
      <4>4. n \notin freed =>
              /\ \A q \in Resuming' : claimed[q] # n
              /\ ~Waits(n)
              /\ n \in 1..MaxPublished => launched[n] = 0
        BY <2>2, <4>2 DEF PlanOnce
      <4>5. \A m : Waits(m)' <=> Waits(m)
        BY <1>2 DEF Waits
      <4>6. \A m \in 1..MaxPublished : m > published' => launched'[m] = 0
        BY <1>2, <4>1, <4>2, <4>3 DEF PlanOnce
      <4>7. \A q \in Resuming' : claimed'[q] <= published'
        BY <1>2, <2>2, <4>2 DEF PlanOnce
      <4>8. \A q, r \in Resuming' :
              q # r /\ claimed'[q] = claimed'[r] => claimed'[q] \in freed'
        BY <1>2, <2>2, <4>2 DEF PlanOnce
      <4>9. \A q \in Resuming' : claimed'[q] \notin freed' =>
              /\ ~Waits(claimed'[q])
              /\ claimed'[q] \in 1..MaxPublished => launched'[claimed'[q]] = 0
        BY <1>2, <2>2, <4>1, <4>2, <4>4 DEF PlanOnce
      <4>10. \A m \in 1..MaxPublished : m \notin freed' =>
               launched'[m] = 0 \/ (launched'[m] = 1 /\ ~Waits(m))
        BY <1>2, <4>1, <4>2, <4>4 DEF PlanOnce
      <4> QED
        BY <4>5, <4>6, <4>7, <4>8, <4>9, <4>10 DEF PlanOnce
    <3> QED
      BY <1>3, <3>1, <3>2 DEF ResumeTask
  <2>4. ClaimHasHolder'
    BY <1>2, <2>1 DEF IInv, TypeOK, ClaimHasHolder, Runs, Goto, Holding
  <2>5. StageKnown' /\ DiffKnown'
    BY <1>2, <2>1
       DEF IInv, TypeOK, StageKnown, DiffKnown, Runs, Goto, Staged, Coded
  <2> QED
    BY <1>1, <2>3, <2>4, <2>5 DEF IInv
<1>4. CASE ~CanTransition(IF yes[p] THEN "ready_for_review" ELSE "rejected")
  <2>1. Goto(p, "resume_release") /\ UNCHANGED <<status, planVars>>
    BY <1>4 DEF ResumeTask, TransitionOr, Transition, taskVars, planVars
  <2> QED
    BY <1>1, <1>2, <2>1, ResumeQuietKeeps DEF Claims, Holding
<1> QED
  BY <1>3, <1>4

LEMMA ResumeReleaseKeeps ==
  ASSUME IInv, NEW p \in Procs, ResumeRelease(p)
  PROVE  IInv'
<1>1. /\ pc[p] = "resume_release" /\ Goto(p, "idle")
      /\ claimed' = [claimed EXCEPT ![p] = 0] /\ Carry(p, FALSE)
      /\ UNCHANGED <<status, dropped, hasDiff, planPending, pushRow, question,
                     strays, faults, published, launched>>
  BY DEF ResumeRelease, taskVars, rowVars, runVars
<1>2. /\ Resuming' = Resuming \ {p} /\ p \in Resuming
      /\ \A q \in Resuming' : claimed'[q] = claimed[q]
  BY <1>1 DEF IInv, TypeOK, Resuming, Goto, Holding
<1>3. StageKnown' /\ DiffKnown'
  <2>1. stage' = "none" <=> stage = "none"
    BY DEF ResumeRelease, StageIs, stageVars
  <2> QED
    BY <1>1, <2>1
       DEF IInv, TypeOK, StageKnown, DiffKnown, Runs, Goto, Staged, Coded
<1>4. CASE stage # "resuming"
  <2>1. UNCHANGED <<stage, unheld, freed>>
    BY <1>4 DEF ResumeRelease, stageVars
  <2>2. TypeOK'
    BY <1>1, <2>1 DEF IInv, TypeOK, Goto, Carry, PCs, Clocked, Managing, Asked
  <2>3. PlanOnce'
    BY <1>1, <1>2, <2>1, PlanOnceKeeps DEF IInv
  <2>4. ClaimHasHolder'
    BY <1>4, <2>1 DEF ClaimHasHolder
  <2> QED
    BY <1>3, <2>2, <2>3, <2>4 DEF IInv
<1>5. CASE stage = "resuming"
  <2>1. /\ stage' = "awaiting_approval" /\ unheld' = FALSE
        /\ freed' = IF claimed[p] = published THEN freed
                    ELSE freed \union {published}
    BY <1>5 DEF ResumeRelease, StageIs
  <2>2. TypeOK'
    BY <1>1, <2>1
       DEF IInv, TypeOK, Goto, Carry, PCs, Stages, Clocked, Managing, Asked
  <2>3. PlanOnce'
    <3>1. PlanOnce
      BY DEF IInv
    <3>2. published \notin freed' =>
            /\ published \notin freed
            /\ \A q \in Resuming' : claimed[q] # published
            /\ published \in 1..MaxPublished => launched[published] = 0
      BY <1>2, <2>1, <3>1 DEF PlanOnce
    <3>3. \A n : Waits(n)' <=> n = published
      BY <1>1, <2>1 DEF Waits
    <3>4. freed \subseteq freed'
      BY <2>1
    <3> QED
      BY <1>1, <1>2, <3>1, <3>2, <3>3, <3>4 DEF PlanOnce
  <2>4. ClaimHasHolder'
    BY <2>1 DEF ClaimHasHolder
  <2> QED
    BY <1>3, <2>2, <2>3, <2>4 DEF IInv
<1> QED
  BY <1>4, <1>5

LEMMA ResumeKeeps ==
  ASSUME IInv, NEW p \in Procs, Resume(p)
  PROVE  IInv'
<1>1. CASE ResumeGraph(p)
  <2>1. PICK l \in {"resume_record", "resume_release"} : Goto(p, l)
    BY <1>1 DEF ResumeGraph, Calls
  <2>2. TypeOK'
    BY <1>1, <2>1, ResumePlaces
       DEF IInv, TypeOK, ResumeGraph, Calls, Claims, Holding, Goto, taskVars,
           stageVars, rowVars, runVars, planVars
  <2> QED
    BY <1>1, <2>1, <2>2, ResumeQuietKeeps
       DEF ResumeGraph, Calls, Claims, Holding, taskVars, stageVars, rowVars
<1>2. CASE ResumeRecord(p)
  <2>1. Goto(p, "resume_stage") /\ pc[p] = "resume_record"
    BY <1>2 DEF ResumeRecord
  <2>2. TypeOK'
    BY <1>2, ResumePlaces
       DEF IInv, TypeOK, ResumeRecord, Claims, Holding, Goto, taskVars,
           stageVars, runVars, planVars
  <2>3. /\ UNCHANGED <<status, stage, unheld, hasDiff, pushRow, planVars>>
        /\ stage = "none" => planPending' = planPending
    BY <1>2 DEF IInv, TypeOK, StageKnown, ResumeRecord, taskVars, stageVars
  <2> QED
    BY <2>1, <2>2, <2>3, ResumeQuietKeeps DEF Claims, Holding
<1>3. CASE ResumeStage(p)
  <2>1. TypeOK'
    BY <1>3, ResumePlaces
       DEF IInv, TypeOK, ResumeStage, StageIs, Claims, Stages, Goto, Carry,
           taskVars, rowVars, runVars, planVars
  <2>2. /\ Goto(p, "resume_task") /\ pc[p] = "resume_stage"
        /\ stage' \in {"done", "rejected"}
        /\ UNCHANGED <<status, hasDiff, planPending, pushRow, planVars>>
    BY <1>3 DEF ResumeStage, StageIs, taskVars, rowVars
  <2>3. PlanOnce'
    BY <2>2, PlanOnceKeeps, ResumingAway DEF IInv, planVars, Claims, Holding
  <2>4. ClaimHasHolder' /\ StageKnown'
    BY <2>2 DEF ClaimHasHolder, StageKnown
  <2>5. DiffKnown'
    BY <2>2 DEF IInv, TypeOK, DiffKnown, Runs, Goto, Coded
  <2> QED
    BY <2>1, <2>3, <2>4, <2>5 DEF IInv
<1> QED
  BY <1>1, <1>2, <1>3, ResumeClaimKeeps, ResumeTaskKeeps, ResumeReleaseKeeps
     DEF Resume

(* The steps that move no process: a request that only moves the status,   *)
(* and the end of a thread.                                                *)
LEMMA RequestMoveKeeps ==
  ASSUME IInv, NEW new \in SM!Statuses, RequestMove(new),
         new = "completed" => "completed" \in PatchTargets
  PROVE  IInv'
<1>1. /\ status' = new /\ dropped' = FALSE
      /\ UNCHANGED <<stage, unheld, hasDiff, planPending, pushRow, question, pc,
                     yes, strays, faults, published, claimed, launched, freed>>
  BY DEF RequestMove, Transition, stageVars, rowVars, runVars, planVars
<1>2. Resuming' = Resuming
  BY <1>1 DEF Resuming
<1>3. TypeOK'
  BY <1>1 DEF IInv, TypeOK
<1>4. PlanOnce'
  BY <1>1, <1>2, PlanOnceKeeps DEF IInv
<1> QED
  BY <1>1, <1>3, <1>4 DEF IInv, ClaimHasHolder, StageKnown, DiffKnown, Runs

LEMMA StrayEndsKeeps ==
  ASSUME IInv, StrayEnds
  PROVE  IInv'
<1>1. /\ strays' \subseteq strays
      /\ UNCHANGED <<status, dropped, stage, unheld, hasDiff, planPending,
                     pushRow, question, pc, yes, faults, published, claimed, launched,
                     freed>>
  BY DEF StrayEnds, taskVars, stageVars, rowVars, planVars
<1>2. Resuming' = Resuming
  BY <1>1 DEF Resuming
<1>3. TypeOK'
  BY <1>1 DEF IInv, TypeOK
<1>4. PlanOnce'
  BY <1>1, <1>2, PlanOnceKeeps DEF IInv
<1> QED
  BY <1>1, <1>3, <1>4 DEF IInv, ClaimHasHolder, StageKnown, DiffKnown, Runs

(* A job that is cut off, and a crash: who held the claim is remembered.   *)
LEMMA CutKeeps ==
  ASSUME IInv, NEW p \in Procs, Cut(p)
  PROVE  IInv'
<1>1. /\ Goto(p, "idle") /\ Carry(p, FALSE)
      /\ claimed' = [claimed EXCEPT ![p] = 0] /\ faults' = faults + 1
      /\ unheld' = (stage = "resuming" /\ (unheld \/ pc[p] \in Holding))
      /\ UNCHANGED <<status, stage, hasDiff, planPending, pushRow, question,
                     published, launched, freed>>
  BY Zenon DEF Cut, rowVars
<1>2. TypeOK'
  <2>1. strays' \subseteq Strays
    BY DEF Cut, IInv, TypeOK, Strays
  <2>2. pc' \in [Procs -> PCs] /\ yes' \in [Procs -> BOOLEAN]
    BY <1>1, PlaceTyped, DecisionTyped, SomePlaces DEF IInv
  <2>3. dropped' = (status \in SM!Active)
    BY DEF Cut
  <2>4. dropped' \in BOOLEAN
    BY <2>3
  <2>5. unheld' \in BOOLEAN
    BY <1>1
  <2>6. claimed' \in [Procs -> Nat] /\ faults' \in Nat
    BY <1>1 DEF IInv, TypeOK
  <2>7. UNCHANGED <<status, stage, hasDiff, planPending, pushRow, question,
                    published, launched, freed>>
    BY <1>1
  <2> QED
    BY <2>1, <2>2, <2>4, <2>5, <2>6, <2>7 DEF IInv, TypeOK
<1>3. PlanOnce'
  <2>1. \A q \in Resuming' : q \in Resuming /\ claimed'[q] = claimed[q]
    BY <1>1 DEF IInv, TypeOK, Resuming, Goto, Holding
  <2> QED
    BY <1>1, <2>1, PlanOnceKeeps DEF IInv
<1>4. ClaimHasHolder'
  BY <1>1 DEF IInv, TypeOK, ClaimHasHolder, Runs, Goto
<1>5. StageKnown' /\ DiffKnown'
  BY <1>1 DEF IInv, TypeOK, StageKnown, DiffKnown, Runs, Goto, Staged, Coded
<1> QED
  BY <1>2, <1>3, <1>4, <1>5 DEF IInv

LEMMA CrashKeeps ==
  ASSUME IInv, Crash
  PROVE  IInv'
<1>1. /\ pc' = [p \in Procs |-> "idle"] /\ yes' = [p \in Procs |-> FALSE]
      /\ claimed' = [p \in Procs |-> 0] /\ faults' = faults + 1
      /\ dropped' \in BOOLEAN /\ strays' \subseteq Strays
      /\ unheld' = (stage = "resuming" /\ (unheld \/ Runs(Holding)))
      /\ UNCHANGED <<status, stage, hasDiff, planPending, pushRow, question,
                     published, launched, freed>>
  BY DEF Crash, rowVars, IInv, TypeOK, Strays
<1>2. TypeOK'
  BY <1>1 DEF IInv, TypeOK, PCs, Clocked, Managing, Asked
<1>3. PlanOnce'
  <2>1. Resuming' = {}
    BY <1>1 DEF Resuming, Holding
  <2> QED
    BY <1>1, <2>1, PlanOnceKeeps DEF IInv
<1>4. ClaimHasHolder'
  BY <1>1 DEF IInv, ClaimHasHolder
<1>5. StageKnown' /\ DiffKnown'
  BY <1>1 DEF IInv, StageKnown, DiffKnown, Runs, Staged, Coded
<1> QED
  BY <1>2, <1>3, <1>4, <1>5 DEF IInv

LEMMA SweepKeeps ==
  ASSUME IInv, NEW p \in Procs, Sweep(p)
  PROVE  IInv'
<1>1. PICK l \in {"idle", "sweep_task"} : Goto(p, l)
  BY DEF Sweep
<1>2. /\ pc[p] = "idle" /\ strays' \subseteq Strays
      /\ UNCHANGED <<status, dropped, stage, unheld, hasDiff, planPending,
       pushRow,
                     question, yes, faults, planVars>>
  BY DEF Sweep, IInv, TypeOK, Strays, taskVars, stageVars, rowVars
<1>3. TypeOK'
  BY <1>1, <1>2 DEF IInv, TypeOK, Goto, PCs, planVars, Clocked, Managing, Asked
<1>4. Quiet(p, l)
  BY <1>1, <1>2 DEF Quiet, Claims, Holding, Staged, Coded
<1> QED
  BY <1>2, <1>3, <1>4, QuietKeeps DEF PCs, Clocked, Managing, Asked

LEMMA SweepTaskKeeps ==
  ASSUME IInv, NEW p \in Procs, SweepTask(p)
  PROVE  IInv'
<1>1. PICK outcomes \in SUBSET {"idle", "sweep_blocked"} :
        Calls(p, "sweep_task", outcomes)
  BY DEF SweepTask
<1> QED
  BY <1>1, CallsKeeps, PlainPlaces, AtPlaces

-----------------------------------------------------------------------------
LEMMA InvNext ==
  ASSUME IInv, [Next]_vars
  PROVE  IInv'
<1>1. CASE Reject
  BY <1>1, RequestMoveKeeps DEF Reject, SM!Statuses
<1>2. CASE Cancel
  BY <1>2, RequestMoveKeeps DEF Cancel, SM!Statuses
<1>3. CASE PatchStatus
  BY <1>3, RequestMoveKeeps DEF PatchStatus
<1>4. CASE StrayEnds \/ Crash
  BY <1>4, StrayEndsKeeps, CrashKeeps
<1>5. ASSUME NEW p \in Procs, Step(p) PROVE IInv'
  <2>1. CASE Job(p)
    BY <2>1, PlanningKeeps, ResumeKeeps, ManagerKeeps, SimpleKeeps, PushKeeps
       DEF Job
  <2>2. CASE SweepBlocked(p)
    BY <2>2, MovesKeeps, PlainPlaces, AtPlaces
       DEF SweepBlocked, SM!Statuses, Coded
  <2> QED
    BY <1>5, <2>1, <2>2, RequestKeeps, RespondKeeps, CutKeeps, SweepKeeps,
       SweepTaskKeeps DEF Step, Sweeping
<1>6. CASE UNCHANGED vars
  <2>1. UNCHANGED <<status, dropped, stage, unheld, hasDiff, planPending,
                    pushRow, question, pc, yes, strays, faults, published, claimed,
                    launched, freed>>
    BY <1>6 DEF vars, taskVars, stageVars, rowVars, runVars, planVars
  <2>2. Resuming' = Resuming
    BY <2>1 DEF Resuming
  <2>3. PlanOnce'
    BY <2>1, <2>2, PlanOnceKeeps DEF IInv
  <2>4. TypeOK'
    BY <2>1 DEF IInv, TypeOK
  <2> QED
    BY <2>1, <2>3, <2>4 DEF IInv, ClaimHasHolder, StageKnown, DiffKnown, Runs
<1> QED
  BY <1>1, <1>2, <1>3, <1>4, <1>5, <1>6 DEF Next

LEMMA Invariance == Spec => []IInv
  BY InvInit, InvNext, PTL DEF Spec

(* Every variable keeps its range.                                         *)
THEOREM TypeCorrect == Spec => []TypeOK
<1>1. IInv => TypeOK
  BY DEF IInv
<1> QED
  BY <1>1, Invariance, PTL

(* However many approvals race for a plan, by whichever door, whatever is  *)
(* cut off and whenever the server dies, a plan is started a second time   *)
(* only if the resume of an older plan had put it back up for approval     *)
(* (resume_planning_pipeline).                                             *)
THEOREM OneLaunch == Spec => []OneLaunchPerPlan
<1>1. IInv => OneLaunchPerPlan
  BY DEF IInv, PlanOnce, OneLaunchPerPlan
<1> QED
  BY <1>1, Invariance, PTL

(* A plan whose stage is resuming has a resume that still has to write its *)
(* result or release it, unless that resume was cut off or died.           *)
THEOREM ClaimHeld == Spec => []ClaimHasHolder
<1>1. IInv => ClaimHasHolder
  BY DEF IInv
<1> QED
  BY <1>1, Invariance, PTL

(* Only a task that has been coded is ever completed (POST /complete, and  *)
(* the push that completes it), unless a human sets the status by PATCH.   *)
THEOREM CompletedIsCoded ==
  ASSUME "completed" \notin PatchTargets
  PROVE  Spec => []CompletedHasDiff
<1>1. IInv => CompletedHasDiff
  BY DEF IInv, DiffKnown, CompletedHasDiff
<1> QED
  BY <1>1, Invariance, PTL

-----------------------------------------------------------------------------
(* TaskLifecycle implements StatusMachine.                                 *)

StatusStep == SM!Next \/ UNCHANGED status

LEMMA MoveIsStep ==
  ASSUME NEW new \in SM!Statuses, Transition(new)
  PROVE  StatusStep
  BY DEF Transition, CanTransition, StatusStep, SM!Next, SM!Move

LEMMA MovesIsStep ==
  ASSUME NEW new \in SM!Statuses, NEW p, NEW l, NEW m,
         TransitionOr(p, new, l, m)
  PROVE  StatusStep
  BY MoveIsStep DEF TransitionOr, StatusStep, taskVars

LEMMA StartsIsStep ==
  ASSUME NEW new \in SM!Statuses, NEW p, NEW at, NEW jobs,
         Starts(p, at, new, jobs)
  PROVE  StatusStep
  BY MoveIsStep DEF Starts

LEMMA StepIsStatusStep ==
  ASSUME TypeOK, NEW p \in Procs, Step(p)
  PROVE  StatusStep
<1>1. CASE Run(p)
  BY <1>1, StartsIsStep DEF Run, SM!Statuses
<1>2. CASE RestartReset(p)
  BY <1>2 DEF TypeOK, RestartReset, StatusStep, SM!Next, SM!Reset
<1>3. CASE Request(p) /\ ~Run(p) /\ ~RestartReset(p)
  BY <1>3
     DEF Request, RunUnmetRead, ApproveRead, CompleteRead, ReadReview,
         PipelineDecide, DecidePlanRead, DecidePushRead, Decide, PushRequest,
         Answer, Calls, StatusStep, taskVars
<1>4. CASE Respond(p)
  BY <1>4, MovesIsStep, StartsIsStep
     DEF Respond, RunUnmet, RestartPlanning, ApproveCoding, CompleteTask,
         DecidePlan, DecidePush, AnswerPlanner, AnswerCoder, Moves, Calls,
         StatusStep, taskVars, SM!Statuses
<1>5. CASE Planning(p)
  BY <1>5, MovesIsStep
     DEF Planning, PlanStart, PlanRun, PlanPublish, PlanRecord, StopStage,
         StopTask, FailStage, FailTask, Moves, SetStage, Calls, StatusStep,
         taskVars, SM!Statuses
<1>6. CASE Resume(p)
  <2>1. CASE ResumeTask(p)
    BY <2>1, MovesIsStep DEF ResumeTask, SM!Statuses
  <2> QED
    BY <1>6, <2>1
       DEF Resume, ResumeClaim, ResumeGraph, ResumeRecord, ResumeStage,
           ResumeRelease, Calls, StatusStep, taskVars
<1>7. CASE Manager(p)
  BY <1>7, MovesIsStep
     DEF Manager, ManagerStart, ManagerCoding, ManagerRun, ManagerDiff,
         ManagerStage, ManagerTesting, ManagerReview, RecordPush, SaveDiff,
         Moves, SetStage, Calls, StatusStep, taskVars, SM!Statuses
<1>8. CASE Simple(p)
  BY <1>8, MovesIsStep
     DEF Simple, Route, RouteBlocked, SimpleStart, SimpleRun, SimpleAsk,
         SimpleReview, SimpleBlocked, CoderStart, CoderRun, CoderAsk,
         CoderBlocked, CoderDiff, CoderTesting, CoderReview, SaveDiff, Moves,
         Calls, StatusStep, taskVars, SM!Statuses
<1>9. CASE Push(p)
  BY <1>9, MovesIsStep
     DEF Push, PushRun, PushComplete, Moves, StatusStep, taskVars, SM!Statuses
<1>10. CASE Cut(p) \/ Sweeping(p)
  BY <1>10, MovesIsStep
     DEF Cut, Sweeping, Sweep, SweepTask, SweepBlocked, Moves, Calls,
         StatusStep, taskVars, SM!Statuses
<1> QED
  BY <1>1, <1>2, <1>3, <1>4, <1>5, <1>6, <1>7, <1>8, <1>9, <1>10 DEF Step, Job

(* Whatever requests and jobs interleave, the status moves along           *)
(* VALID_TRANSITIONS or is reset by a restart from an inactive status.     *)
THEOREM Refinement == Spec => StatusMoves
<1>1. Init => SM!Init
  BY DEF Init, SM!Init
<1>2. TypeOK /\ [Next]_vars => [SM!Next]_status
  <2> SUFFICES ASSUME TypeOK, [Next]_vars PROVE StatusStep
    BY DEF StatusStep
  <2>1. CASE Reject \/ Cancel \/ PatchStatus
    <3>1. PICK new \in SM!Statuses : RequestMove(new)
      BY <2>1 DEF Reject, Cancel, PatchStatus, SM!Statuses
    <3> QED
      BY <3>1, MoveIsStep DEF RequestMove
  <2>2. CASE StrayEnds \/ Crash
    BY <2>2 DEF StrayEnds, Crash, StatusStep, taskVars
  <2>3. ASSUME NEW p \in Procs, Step(p) PROVE StatusStep
    BY <2>3, StepIsStatusStep
  <2>4. CASE UNCHANGED vars
    BY <2>4 DEF vars, taskVars, StatusStep
  <2> QED
    BY <2>1, <2>2, <2>3, <2>4 DEF Next
<1> QED
  BY <1>1, <1>2, TypeCorrect, PTL DEF Spec, StatusMoves, SM!Spec

-----------------------------------------------------------------------------
(***************************************************************************)
(* Who serves an active task.  Nobody need once it has been dropped;       *)
(* before, some process has a way to go that ends with another status, or  *)
(* the plan waits for people or for the resume that claimed it.  The label *)
(* says which processes have such a way: from Committed every way on leads *)
(* out of the active statuses, from ForPlanning the ways of a task that is *)
(* planning do, or put a plan up.                                          *)
(***************************************************************************)
Committed ==
  {"run_unmet", "route_blocked", "simple_blocked", "stop_stage", "stop_task",
   "fail_stage", "fail_task", "manager_start", "manager_coding",
   "manager_run", "manager_diff", "manager_stage", "manager_testing",
   "manager_review", "coder_start", "coder_run", "coder_blocked",
   "coder_diff", "coder_testing", "coder_review"}

ForPlanning ==
  {"route", "simple_start", "simple_run", "simple_review", "plan_start",
   "plan_run", "plan_publish", "resume_record", "resume_stage",
   "resume_task"}

Serves(l, s) == l \in Committed \/ (s = "planning" /\ l \in ForPlanning)

PlanStands == stage = "awaiting_approval" \/ (stage = "resuming" /\ ~unheld)

Served ==
  ~dropped /\ status \in SM!Active =>
    \/ \E p \in Procs : Serves(pc[p], status)
    \/ status = "planning" /\ PlanStands

(* Where an active status may go.                                          *)
LEMMA ActiveMoves ==
  /\ SM!Active \subseteq SM!Sources("blocked")
  /\ SM!Active \intersect SM!Sources("ready_for_review") = {"planning",
     "testing"}
  /\ SM!Active \intersect SM!Sources("rejected") = {"planning"}
  /\ SM!Active \intersect SM!Sources("testing") = {"coding"}
  /\ SM!Active \intersect SM!Sources("coding") = {}
  /\ SM!Active \intersect SM!Sources("planning") = {}
  BY DEF SM!Active, SM!Sources, SM!Valid, SM!Statuses

(***************************************************************************)
(* A step keeps the task served if the process that takes it serves it     *)
(* afterwards, or puts a plan up, whenever it has made the task active,    *)
(* was the one to serve it, or took the plan away.                         *)
(***************************************************************************)
HandsOn(p, l) ==
  /\ status' \in SM!Active /\ ~dropped'
  /\ \/ status' # status \/ dropped
     \/ Serves(pc[p], status)
     \/ status = "planning" /\ PlanStands /\ ~PlanStands'
  => Serves(l, status') \/ (status' = "planning" /\ PlanStands')

LEMMA HandedOn ==
  ASSUME TypeOK, Served, NEW p \in Procs, NEW l, Goto(p, l), HandsOn(p, l)
  PROVE  Served'
<1> SUFFICES ASSUME ~dropped', status' \in SM!Active
             PROVE  \/ \E q \in Procs : Serves(pc'[q], status')
                    \/ status' = "planning" /\ PlanStands'
  BY DEF Served
<1>1. pc'[p] = l /\ \A q \in Procs \ {p} : pc'[q] = pc[q]
  BY DEF Goto, TypeOK
<1>2. CASE status' # status \/ dropped
  BY <1>1, <1>2 DEF HandsOn
<1>3. CASE status' = status /\ ~dropped
  <2>1. CASE status = "planning" /\ PlanStands
    BY <1>1, <1>3, <2>1 DEF HandsOn
  <2>2. CASE ~(status = "planning" /\ PlanStands)
    <3>1. PICK q \in Procs : Serves(pc[q], status)
      BY <1>3, <2>2 DEF Served
    <3> QED
      BY <1>1, <1>3, <3>1 DEF HandsOn
  <2> QED
    BY <2>1, <2>2
<1> QED
  BY <1>2, <1>3

(* The shapes of a step.                                                   *)
LEMMA MovesServe ==
  ASSUME TypeOK, Served, NEW p \in Procs, NEW at, NEW new \in SM!Statuses,
         NEW a, NEW b, Moves(p, at, new, a, b),
         new \in SM!Active => Serves(a, new),
         \A s \in SM!Active \ SM!Sources(new) : Serves(at, s) => Serves(b, s)
  PROVE  Served'
<1>1. stage' = stage /\ unheld' = unheld /\ pc[p] = at
  BY DEF Moves, stageVars
<1>2. CASE Transition(new) /\ Goto(p, a)
  <2>1. HandsOn(p, a)
    BY <1>1, <1>2 DEF HandsOn, Transition, PlanStands
  <2> QED
    BY <1>2, <2>1, HandedOn
<1>3. CASE ~CanTransition(new) /\ UNCHANGED taskVars /\ Goto(p, b)
  <2>1. HandsOn(p, b)
    BY <1>1, <1>3 DEF HandsOn, CanTransition, PlanStands, taskVars
  <2> QED
    BY <1>3, <2>1, HandedOn
<1> QED
  BY <1>2, <1>3 DEF Moves, TransitionOr

LEMMA StartsServe ==
  ASSUME TypeOK, Served, NEW p \in Procs, NEW at, NEW new, NEW jobs,
         Starts(p, at, new, jobs), \A l \in jobs : Serves(l, new)
  PROVE  Served'
<1>1. CASE dropped'
  BY <1>1 DEF Served
<1>2. CASE ~dropped'
  <2>1. PICK l \in jobs : Goto(p, l)
    BY <1>2 DEF Starts
  <2>2. HandsOn(p, l)
    BY <2>1 DEF Starts, Transition, HandsOn
  <2> QED
    BY <2>1, <2>2, HandedOn
<1> QED
  BY <1>1, <1>2

LEMMA SetStageServes ==
  ASSUME TypeOK, Served, NEW p \in Procs, NEW at, NEW new, NEW next,
         SetStage(p, at, new, next), Serves(next, "planning"),
         \A s \in SM!Active : Serves(at, s) => Serves(next, s)
  PROVE  Served'
<1>1. HandsOn(p, next)
  BY DEF SetStage, HandsOn, taskVars
<1> QED
  BY <1>1, HandedOn DEF SetStage

(* A step that leaves the status and the stage alone.                      *)
LEMMA AsideServes ==
  ASSUME TypeOK, Served, NEW p \in Procs, NEW l, Goto(p, l),
         UNCHANGED <<taskVars, stageVars>>,
         \A s \in SM!Active : Serves(pc[p], s) => Serves(l, s)
  PROVE  Served'
<1>1. HandsOn(p, l)
  BY DEF HandsOn, PlanStands, taskVars, stageVars
<1> QED
  BY <1>1, HandedOn

LEMMA CallsServe ==
  ASSUME TypeOK, Served, NEW p \in Procs, NEW at, NEW outcomes,
         Calls(p, at, outcomes),
         \A l \in outcomes, s \in SM!Active : Serves(at, s) => Serves(l, s)
  PROVE  Served'
<1>1. PICK l \in outcomes : Goto(p, l)
  BY DEF Calls
<1> QED
  BY <1>1, AsideServes DEF Calls

LEMMA RequestServes ==
  ASSUME TypeOK, Served, NEW p \in Procs, Request(p)
  PROVE  Served'
<1> USE DEF Serves, Committed, ForPlanning
<1>1. CASE Run(p)
  BY <1>1, StartsServe DEF Run
<1>2. CASE RestartReset(p)
  <2>1. Goto(p, "restart_planning") /\ HandsOn(p, "restart_planning")
    BY <1>2 DEF RestartReset, HandsOn, SM!Active
  <2> QED
    BY <1>2, <2>1, HandedOn DEF RestartReset
<1>3. CASE RunUnmetRead(p) \/ ApproveRead(p) \/ CompleteRead(p)
  <2>1. pc[p] = "idle" /\ \E l : Goto(p, l)
    BY <1>3 DEF RunUnmetRead, ApproveRead, CompleteRead, ReadReview, Calls
  <2> QED
    BY <1>3, <2>1, AsideServes
       DEF RunUnmetRead, ApproveRead, CompleteRead, ReadReview, Calls
<1>4. CASE PipelineDecide(p) \/ DecidePlanRead(p) \/ DecidePushRead(p)
  <2>1. pc[p] = "idle" /\ \E l : Goto(p, l)
    BY <1>4 DEF PipelineDecide, DecidePlanRead, DecidePushRead, Decide
  <2> QED
    BY <1>4, <2>1, AsideServes
       DEF PipelineDecide, DecidePlanRead, DecidePushRead, Decide
<1>5. CASE PushRequest(p) \/ Answer(p)
  <2>1. pc[p] = "idle" /\ \E l : Goto(p, l)
    BY <1>5 DEF PushRequest, Answer
  <2> QED
    BY <1>5, <2>1, AsideServes DEF PushRequest, Answer
<1> QED
  BY <1>1, <1>2, <1>3, <1>4, <1>5 DEF Request

LEMMA RespondServes ==
  ASSUME TypeOK, Served, NEW p \in Procs, Respond(p)
  PROVE  Served'
<1> USE DEF Serves, Committed, ForPlanning
<1> "blocked" \in SM!Statuses /\ "planning" \in SM!Statuses
      /\ "coding" \in SM!Statuses /\ "completed" \in SM!Statuses
      /\ "completed" \notin SM!Active
  BY DEF SM!Statuses, SM!Active
<1>1. CASE RunUnmet(p)
  BY <1>1, MovesServe, ActiveMoves DEF RunUnmet, SM!Active
<1>2. CASE RestartPlanning(p)
  BY <1>2, StartsServe, CallsServe DEF RestartPlanning
<1>3. CASE ApproveCoding(p)
  BY <1>3, StartsServe, CallsServe DEF ApproveCoding
<1>4. CASE CompleteTask(p)
  BY <1>4, MovesServe DEF CompleteTask
<1>5. CASE AnswerPlanner(p)
  BY <1>5, MovesServe DEF AnswerPlanner
<1>6. CASE AnswerCoder(p)
  BY <1>6, MovesServe DEF AnswerCoder
<1>7. CASE DecidePlan(p) \/ DecidePush(p)
  <2>1. pc[p] \in {"decide_plan", "decide_push"} /\ \E l : Goto(p, l)
    BY <1>7 DEF DecidePlan, DecidePush
  <2> QED
    BY <1>7, <2>1, AsideServes DEF DecidePlan, DecidePush
<1> QED
  BY <1>1, <1>2, <1>3, <1>4, <1>5, <1>6, <1>7 DEF Respond

LEMMA PlanningServes ==
  ASSUME TypeOK, Served, NEW p \in Procs, Planning(p)
  PROVE  Served'
<1> USE DEF Serves, Committed, ForPlanning
<1> "blocked" \in SM!Statuses /\ "blocked" \notin SM!Active
  BY DEF SM!Statuses, SM!Active
<1>1. CASE PlanStart(p)
  BY <1>1, SetStageServes DEF PlanStart
<1>2. CASE PlanRun(p)
  BY <1>2, CallsServe DEF PlanRun
<1>3. CASE PlanPublish(p)
  <2>1. PICK l \in {"plan_record", "fail_stage"} : Goto(p, l)
    BY <1>3 DEF PlanPublish
  <2>2. HandsOn(p, l)
    BY <1>3 DEF PlanPublish, StageIs, HandsOn, PlanStands, taskVars
  <2> QED
    BY <1>3, <2>1, <2>2, HandedOn DEF PlanPublish
<1>4. CASE PlanRecord(p)
  BY <1>4, AsideServes DEF PlanRecord
<1>5. CASE StopStage(p)
  BY <1>5, SetStageServes DEF StopStage
<1>6. CASE StopTask(p)
  BY <1>6, MovesServe DEF StopTask
<1>7. CASE FailStage(p)
  BY <1>7, SetStageServes DEF FailStage
<1>8. CASE FailTask(p)
  BY <1>8, MovesServe, ActiveMoves DEF FailTask
<1> QED
  BY <1>1, <1>2, <1>3, <1>4, <1>5, <1>6, <1>7, <1>8 DEF Planning

LEMMA ResumeServes ==
  ASSUME TypeOK, Served, NEW p \in Procs, Resume(p)
  PROVE  Served'
<1> USE DEF Serves, Committed, ForPlanning
<1>1. CASE ResumeClaim(p)
  <2>1. PICK l \in {"resume_graph", "idle"} : Goto(p, l)
    BY <1>1 DEF ResumeClaim
  <2>2. PlanStands => PlanStands'
    BY <1>1 DEF ResumeClaim, StageIs, PlanStands, stageVars
  <2>3. HandsOn(p, l)
    BY <1>1, <2>2 DEF ResumeClaim, HandsOn, taskVars
  <2> QED
    BY <1>1, <2>1, <2>3, HandedOn DEF ResumeClaim
<1>2. CASE ResumeGraph(p)
  BY <1>2, CallsServe DEF ResumeGraph
<1>3. CASE ResumeRecord(p)
  BY <1>3, AsideServes DEF ResumeRecord
<1>4. CASE ResumeStage(p)
  <2>1. Goto(p, "resume_task") /\ HandsOn(p, "resume_task")
    BY <1>4 DEF ResumeStage, HandsOn, taskVars
  <2> QED
    BY <1>4, <2>1, HandedOn DEF ResumeStage
<1>5. CASE ResumeTask(p)
  <2> DEFINE new == IF yes[p] THEN "ready_for_review" ELSE "rejected"
  <2>1. "planning" \in SM!Sources(new) /\ new \notin SM!Active
    BY ActiveMoves DEF SM!Active
  <2>2. PICK l \in {"manager_start", "idle", "resume_release"} :
          /\ Goto(p, l)
          /\ Transition(new) \/ (~CanTransition(new) /\ UNCHANGED taskVars)
    BY <1>5 DEF ResumeTask, TransitionOr
  <2>3. HandsOn(p, l)
    BY <1>5, <2>1, <2>2
       DEF ResumeTask, HandsOn, Transition, CanTransition, PlanStands,
           taskVars, stageVars
  <2> QED
    BY <1>5, <2>2, <2>3, HandedOn DEF ResumeTask
<1>6. CASE ResumeRelease(p)
  <2>1. Goto(p, "idle") /\ (PlanStands => PlanStands')
    BY <1>6 DEF ResumeRelease, StageIs, PlanStands, stageVars
  <2>2. HandsOn(p, "idle")
    BY <1>6, <2>1 DEF ResumeRelease, HandsOn, taskVars
  <2> QED
    BY <1>6, <2>1, <2>2, HandedOn DEF ResumeRelease
<1> QED
  BY <1>1, <1>2, <1>3, <1>4, <1>5, <1>6 DEF Resume

LEMMA ManagerServes ==
  ASSUME TypeOK, Served, NEW p \in Procs, Manager(p)
  PROVE  Served'
<1> USE DEF Serves, Committed, ForPlanning
<1> "coding" \in SM!Statuses /\ "testing" \in SM!Statuses
      /\ "ready_for_review" \in SM!Statuses
      /\ "ready_for_review" \notin SM!Active
  BY DEF SM!Statuses, SM!Active
<1>1. CASE ManagerStart(p)
  BY <1>1, SetStageServes, CallsServe DEF ManagerStart
<1>2. CASE ManagerCoding(p)
  BY <1>2, MovesServe DEF ManagerCoding
<1>3. CASE ManagerRun(p)
  BY <1>3, CallsServe DEF ManagerRun
<1>4. CASE ManagerDiff(p)
  BY <1>4, AsideServes DEF ManagerDiff, SaveDiff
<1>5. CASE ManagerStage(p)
  BY <1>5, SetStageServes DEF ManagerStage
<1>6. CASE ManagerTesting(p)
  BY <1>6, MovesServe DEF ManagerTesting
<1>7. CASE ManagerReview(p)
  BY <1>7, MovesServe DEF ManagerReview
<1>8. CASE RecordPush(p)
  BY <1>8, AsideServes DEF RecordPush
<1> QED
  BY <1>1, <1>2, <1>3, <1>4, <1>5, <1>6, <1>7, <1>8 DEF Manager

LEMMA SimpleServes ==
  ASSUME TypeOK, Served, NEW p \in Procs, Simple(p)
  PROVE  Served'
<1> USE DEF Serves, Committed, ForPlanning
<1> "blocked" \in SM!Statuses /\ "testing" \in SM!Statuses
      /\ "ready_for_review" \in SM!Statuses /\ "blocked" \notin SM!Active
      /\ "ready_for_review" \notin SM!Active
  BY DEF SM!Statuses, SM!Active
<1>1. CASE Route(p)
  BY <1>1, MovesServe, CallsServe DEF Route
<1>2. CASE RouteBlocked(p)
  BY <1>2, MovesServe, ActiveMoves DEF RouteBlocked
<1>3. CASE SimpleStart(p)
  BY <1>3, CallsServe DEF SimpleStart
<1>4. CASE SimpleRun(p)
  BY <1>4, CallsServe DEF SimpleRun
<1>5. CASE SimpleAsk(p)
  BY <1>5, AsideServes DEF SimpleAsk
<1>6. CASE SimpleReview(p)
  <2>1. "planning" \in SM!Sources("ready_for_review")
    BY ActiveMoves
  <2> QED
    BY <1>6, <2>1, MovesServe DEF SimpleReview
<1>7. CASE SimpleBlocked(p)
  BY <1>7, MovesServe, ActiveMoves DEF SimpleBlocked
<1>8. CASE CoderStart(p)
  BY <1>8, CallsServe DEF CoderStart
<1>9. CASE CoderRun(p)
  BY <1>9, CallsServe DEF CoderRun
<1>10. CASE CoderAsk(p)
  BY <1>10, AsideServes DEF CoderAsk
<1>11. CASE CoderBlocked(p)
  BY <1>11, MovesServe DEF CoderBlocked
<1>12. CASE CoderDiff(p)
  BY <1>12, AsideServes DEF CoderDiff, SaveDiff
<1>13. CASE CoderTesting(p)
  BY <1>13, MovesServe DEF CoderTesting
<1>14. CASE CoderReview(p)
  BY <1>14, MovesServe DEF CoderReview
<1> QED
  BY <1>1, <1>2, <1>3, <1>4, <1>5, <1>6, <1>7, <1>8, <1>9, <1>10, <1>11,
     <1>12, <1>13, <1>14 DEF Simple

(* A push and a sweep serve nobody; they leave the task alone or take it   *)
(* out of its active status.  A job that is cut off drops it.              *)
LEMMA OthersServe ==
  ASSUME TypeOK, Served, NEW p \in Procs,
         Push(p) \/ Cut(p) \/ Sweeping(p)
  PROVE  Served'
<1> USE DEF Serves, Committed, ForPlanning
<1> "blocked" \in SM!Statuses /\ "completed" \in SM!Statuses
      /\ "blocked" \notin SM!Active /\ "completed" \notin SM!Active
  BY DEF SM!Statuses, SM!Active
<1>1. CASE PushComplete(p)
  BY <1>1, MovesServe DEF PushComplete
<1>2. CASE SweepBlocked(p)
  BY <1>2, MovesServe DEF SweepBlocked
<1>3. CASE PushRun(p)
  BY <1>3, AsideServes DEF PushRun
<1>4. CASE Sweep(p)
  BY <1>4, AsideServes DEF Sweep
<1>5. CASE SweepTask(p)
  BY <1>5, CallsServe DEF SweepTask
<1>6. CASE Cut(p)
  BY <1>6 DEF Cut, Served
<1> QED
  BY <1>1, <1>2, <1>3, <1>4, <1>5, <1>6 DEF Push, Sweeping

LEMMA ServedNext ==
  ASSUME PatchTargets \intersect SM!Active = {}, TypeOK, Served, [Next]_vars
  PROVE  Served'
<1>1. CASE Reject \/ Cancel \/ PatchStatus
  <2>1. PICK new \in SM!Statuses \ SM!Active : RequestMove(new)
    BY <1>1 DEF Reject, Cancel, PatchStatus, SM!Statuses, SM!Active
  <2> QED
    BY <2>1 DEF RequestMove, Transition, Served
<1>2. CASE StrayEnds \/ Crash
  BY <1>2 DEF StrayEnds, Crash, Served, PlanStands, taskVars, stageVars
<1>3. ASSUME NEW p \in Procs, Step(p) PROVE Served'
  BY <1>3, RequestServes, RespondServes, PlanningServes, ResumeServes,
     ManagerServes, SimpleServes, OthersServe DEF Step, Job
<1>4. CASE UNCHANGED vars
  BY <1>4 DEF vars, taskVars, stageVars, Served, PlanStands
<1> QED
  BY <1>1, <1>2, <1>3, <1>4 DEF Next

(* However requests interleave with jobs and jobs with each other, a task  *)
(* that is planning, coding or testing has someone at work or a plan that  *)
(* waits for people, unless since then a dispatch was refused or a job was *)
(* cut off or died, if nobody sets such a status by PATCH.                 *)
THEOREM ActiveServed ==
  ASSUME PatchTargets \intersect SM!Active = {}
  PROVE  Spec => []ActiveIsServed
<1>1. Init => Served
  BY DEF Init, Served, SM!Active
<1>2. TypeOK /\ Served /\ [Next]_vars => Served'
  BY ServedNext
<1>3. Served /\ ClaimHasHolder => ActiveIsServed
  BY DEF Served, ClaimHasHolder, ActiveIsServed, Busy, Runs, PlanStands,
     Serves, Committed, ForPlanning, Holding
<1> QED
  BY <1>1, <1>2, <1>3, TypeCorrect, ClaimHeld, PTL DEF Spec
=============================================================================
