---------------------------- MODULE EpicManager -----------------------------
(***************************************************************************)
(* The life of epics: the manager's two jobs (backend/app/agents/          *)
(* manager.py), one that plans an epic and stops for approval, one that    *)
(* codes the approved plan; the requests of people (backend/app/api/       *)
(* epics.py), each of which reads the status of the epic and writes        *)
(* another; and the locks on the files of plans (EpicFileLocks).           *)
(*                                                                         *)
(* The status of an epic is written without a condition by both jobs and   *)
(* by most requests.  Its child tasks change by compare-and-swap.  Left    *)
(* out: what the agents write, costs (any estimate may need approval),     *)
(* policies (any plan may be blocked), the wait for the epic slot, which   *)
(* only takes behaviours away, and people acting on a child task through   *)
(* the task API.                                                           *)
(***************************************************************************)
EXTENDS EpicFileLocks, Naturals, Sequences

CONSTANTS
  Plans,        \* sets of files a plan, or a proposal, may want
  Users,        \* requests people have under way at a time
  Jobs,         \* bound: jobs running at a time
  MaxPlans,     \* bound: child tasks of an epic
  MaxLapses,    \* bound: rows that expire
  MaxCrashes    \* bound: restarts of the server

ASSUME PlansAssumption == Plans \subseteq SUBSET Files
ASSUME BoundsAssumption == {MaxPlans, MaxLapses, MaxCrashes} \subseteq Nat

VARIABLES
  status,     \* Epic.status
  planned,    \* the files of the plans saved on its child tasks
  children,   \* the status of its child tasks, oldest first
  job,        \* what each job is doing
  request,    \* what each person's request is doing
  crashes,    \* number of restarts so far
  lost,       \* history: rows reaped while their epic was not done, and
              \* whether the conflict guard still covered the file
  failed      \* history: the epics that had a job that raised

history == <<crashes, lost, failed>>
vars == <<locks, status, planned, children, job, request, history>>

NoJob == [at |-> "none"]
NoRequest == [at |-> "none"]

Init ==
  /\ LocksInit
  /\ status = [e \in Epics |-> "proposed"]
  /\ planned = [e \in Epics |-> {}]
  /\ children = [e \in Epics |-> <<>>]
  /\ job = [j \in Jobs |-> NoJob]
  /\ request = [u \in Users |-> NoRequest]
  /\ crashes = 0
  /\ lost = {}
  /\ failed = {}

-----------------------------------------------------------------------------

SetStatus(e, s) == status' = [status EXCEPT ![e] = s]

At(j, place) == job[j].at = place

GoOn(j, place) == job' = [job EXCEPT ![j].at = place]

EndJob(j) == job' = [job EXCEPT ![j] = NoJob]

(* asyncio.create_task().                                                  *)
Launch(e, place) ==
  \E j \in Jobs :
    /\ At(j, "none")
    /\ job' = [job EXCEPT ![j] = [at |-> place, epic |-> e, files |-> {},
                                  child |-> 0, ok |-> FALSE, unseen |-> {}]]

(* _epic_child(): the newest child task that is not cancelled, or 0.       *)
NewestChild(e) ==
  LET live == {i \in DOMAIN children[e] : children[e][i] # "cancelled"}
  IN IF live = {} THEN 0 ELSE CHOOSE i \in live : \A k \in live : k <= i

(* transition_task(): moves a child that is in one of the states from.     *)
MoveChild(e, i, from, to) ==
  children' = IF i # 0 /\ children[e][i] \in from
                THEN [children EXCEPT ![e][i] = to]
                ELSE children

(* The statuses in which check_file_conflicts() takes an epic for active.  *)
Active == {"planning", "coding", "ready_for_review"}

(* Slip: the guard looks at plans that are not coded yet.                  *)
GuardPlanning(e, fs) ==
  \E o \in Epics \ {e} :
    status[o] \in Active \ {"coding"} /\ planned[o] \intersect fs # {}

(* check_file_conflicts(): a plan of another active epic has a file of fs. *)
GuardConflict(e, fs) ==
  \E o \in Epics \ {e} : status[o] \in Active /\ planned[o] \intersect fs # {}

(* The conflict guard protects file f of the epic that holds it: it sees   *)
(* the epic's plan, and every reservation under way looked when it did.    *)
Guarded(f) ==
  /\ status[holder[f]] \in Active
  /\ f \in planned[holder[f]]
  /\ \A k \in Jobs :
       At(k, "reserving") /\ f \in job[k].files => holder[f] \notin job[k].unseen

(* A reservation for epic e, with the history of what others lose by it.   *)
Reserve(e, fs) ==
  /\ ReserveFiles(e, fs)
  /\ lost' = lost \union {<<holder[f], f, Guarded(f)>> :
                            f \in {g \in expired : holder'[g] # holder[g]}}

-----------------------------------------------------------------------------
(* People.                                                                 *)

(* create_epic() and start_epic(): an epic starts once.                    *)
Start(e) ==
  /\ status[e] = "proposed"
  /\ SetStatus(e, "pending")
  /\ Launch(e, "estimating")
  /\ UNCHANGED <<locks, planned, children, request, history>>

(* Slip: a plan can be approved again while its job is being launched.     *)
AcceptedAgain ==
  [approve_cost |-> {"pending_cost_approval"},
   approve_plan |-> {"pending_plan_approval", "plan_approved"},
   approve_policy |-> {"pending_policy_approval"},
   approve |-> {"ready_for_review", "pending_cost_approval"},
   reject |-> {"ready_for_review", "pending_cost_approval", "halted",
               "pending_plan_approval", "pending_policy_approval"}]

(* Slip: an epic can be rejected while it is being coded.                  *)
AcceptedCoding ==
  [approve_cost |-> {"pending_cost_approval"},
   approve_plan |-> {"pending_plan_approval"},
   approve_policy |-> {"pending_policy_approval"},
   approve |-> {"ready_for_review", "pending_cost_approval"},
   reject |-> {"ready_for_review", "pending_cost_approval", "halted",
               "coding", "pending_plan_approval", "pending_policy_approval"}]

(* The statuses in which each request is accepted.                         *)
Accepted ==
  [approve_cost |-> {"pending_cost_approval"},
   approve_plan |-> {"pending_plan_approval"},
   approve_policy |-> {"pending_policy_approval"},
   approve |-> {"ready_for_review", "pending_cost_approval"},
   reject |-> {"ready_for_review", "pending_cost_approval", "halted",
               "pending_plan_approval", "pending_policy_approval"}]

(* A request finds the epic in a status it accepts.                        *)
Ask(u, e) ==
  /\ request[u].at = "none"
  /\ \E kind \in DOMAIN Accepted :
       /\ status[e] \in Accepted[kind]
       /\ request' = [request EXCEPT
                        ![u] = [at |-> "answer", epic |-> e, kind |-> kind]]
  /\ UNCHANGED <<locks, status, planned, children, job, history>>

Done(u) == request' = [request EXCEPT ![u] = NoRequest]

Answering(u, kind) == request[u].at = "answer" /\ request[u].kind = kind

(* approve_epic_cost(): the planning job starts again.                     *)
ApproveCost(u) ==
  /\ Answering(u, "approve_cost")
  /\ SetStatus(request[u].epic, "pending")
  /\ Launch(request[u].epic, "estimating")
  /\ Done(u)
  /\ UNCHANGED <<locks, planned, children, history>>

(* approve_epic_plan(): the coding job starts.                             *)
ApprovePlan(u) ==
  /\ Answering(u, "approve_plan")
  /\ SetStatus(request[u].epic, "plan_approved")
  /\ Launch(request[u].epic, "loading")
  /\ Done(u)
  /\ UNCHANGED <<locks, planned, children, history>>

(* record_policy_approval() of the last blocking policy.                   *)
ApprovePolicy(u) ==
  /\ Answering(u, "approve_policy")
  /\ SetStatus(request[u].epic, "pending_plan_approval")
  /\ Done(u)
  /\ UNCHANGED <<locks, planned, children, job, history>>

(* approve_epic().                                                         *)
Approve(u) ==
  /\ Answering(u, "approve")
  /\ SetStatus(request[u].epic, "approved")
  /\ Done(u)
  /\ UNCHANGED <<locks, planned, children, job, history>>

(* reject_epic() and reject_epic_plan(), up to their first commit.         *)
Reject(u) ==
  /\ Answering(u, "reject")
  /\ SetStatus(request[u].epic, "rejected")
  /\ request' = [request EXCEPT ![u].at = "close"]
  /\ UNCHANGED <<locks, planned, children, job, history>>

(* The rest of them: _close_epic_child().                                  *)
Close(u) ==
  LET e == request[u].epic
  IN /\ request[u].at = "close"
     /\ ReleaseFiles(e)
     /\ MoveChild(e, NewestChild(e), {"planning", "ready_for_review"}, "rejected")
     /\ Done(u)
     /\ UNCHANGED <<status, planned, job, history>>

-----------------------------------------------------------------------------
(* The planning job: _run_epic_manager_body().                             *)

(* _resource_check_node() and _cost_estimate_node() either stop the epic,  *)
(* or let _planning_node() mark it and create its child task.              *)
Estimate(j) ==
  LET e == job[j].epic
  IN /\ At(j, "estimating")
     /\ \/ /\ \E s \in {"halted", "pending_cost_approval"} : SetStatus(e, s)
           /\ EndJob(j)
           /\ UNCHANGED children
        \/ /\ Len(children[e]) < MaxPlans
           /\ SetStatus(e, "planning")
           /\ children' = [children EXCEPT ![e] = Append(@, "planning")]
           /\ job' = [job EXCEPT ![j].at = "planning",
                                 ![j].child = Len(children[e]) + 1]
     /\ UNCHANGED <<locks, planned, request, history>>

(* Slip: the child task is set aside with every plan.                      *)
PlanSetAside(j) ==
  LET e == job[j].epic
  IN /\ At(j, "planning")
     /\ MoveChild(e, job[j].child,
                  {"planning", "ready_for_review", "coding"}, "cancelled")
     /\ \/ /\ \E fs \in Plans :
                job' = [job EXCEPT ![j].at = "checking", ![j].files = fs]
           /\ UNCHANGED status
        \/ SetStatus(e, "pending_cost_approval") /\ EndJob(j)
     /\ UNCHANGED <<locks, planned, request, history>>

(* The rest of _planning_node(): a plan, or one that costs too much.       *)
Plan(j) ==
  LET e == job[j].epic
  IN /\ At(j, "planning")
     /\ \/ /\ \E fs \in Plans :
                job' = [job EXCEPT ![j].at = "checking", ![j].files = fs]
           /\ UNCHANGED <<status, children>>
        \/ /\ MoveChild(e, job[j].child,
                        {"planning", "ready_for_review", "coding"}, "cancelled")
           /\ SetStatus(e, "pending_cost_approval")
           /\ EndJob(j)
     /\ UNCHANGED <<locks, planned, request, history>>

(* _conflict_check_node() reads the plans of the other epics first.        *)
Check(j) ==
  LET e == job[j].epic
      fs == job[j].files
  IN /\ At(j, "checking")
     /\ IF GuardConflict(e, fs)
          THEN SetStatus(e, "halted") /\ EndJob(j)
          ELSE /\ job' = [job EXCEPT
                            ![j].at = "reserving",
                            ![j].unseen = {o \in Epics \ {e} :
                                             \/ status[o] \notin Active
                                             \/ planned[o] \intersect fs = {}}]
               /\ UNCHANGED status
     /\ UNCHANGED <<locks, planned, children, request, history>>

(* Then it reserves the files.  The rows are committed with the subtasks   *)
(* that _plan_review_node() saves.                                         *)
Lock(j) ==
  LET e == job[j].epic
      fs == job[j].files
  IN /\ At(j, "reserving")
     /\ Reserve(e, fs)
     /\ IF Taken(e, fs)
          THEN SetStatus(e, "halted") /\ EndJob(j)
          ELSE /\ job' = [job EXCEPT ![j].at = "reviewing", ![j].unseen = {}]
               /\ UNCHANGED status
     /\ UNCHANGED <<planned, children, request, crashes, failed>>

(* _plan_review_node(): the plan is saved and waits for people.            *)
Review(j) ==
  LET e == job[j].epic
  IN /\ At(j, "reviewing")
     /\ planned' = [planned EXCEPT ![e] = @ \union job[j].files]
     /\ \E s \in {"pending_policy_approval", "pending_plan_approval"} :
          SetStatus(e, s)
     /\ EndJob(j)
     /\ UNCHANGED <<locks, children, request, history>>

-----------------------------------------------------------------------------
(* The coding job: run_epic_after_plan_approval().                         *)

(* Slip: a job that raises leaves its epic as it is.                       *)
RaiseSilently(j, unfinished) ==
  /\ failed' = failed \union {job[j].epic}
  /\ EndJob(j)
  /\ UNCHANGED status

(* A step of a job raises: its launcher marks the epic halted, if it is    *)
(* still in a status of that job.                                          *)
Raise(j, unfinished) ==
  LET e == job[j].epic
  IN /\ status' = IF status[e] \in unfinished
                    THEN [status EXCEPT ![e] = "halted"] ELSE status
     /\ failed' = failed \union {e}
     /\ EndJob(j)

OfCoding == {"plan_approved", "coding"}

(* The saved plan is loaded and its child task moves to coding, which is   *)
(* refused for a child that no longer waits for its approval.              *)
Load(j) ==
  LET e == job[j].epic
      child == NewestChild(e)
  IN /\ At(j, "loading")
     /\ IF child # 0 /\ children[e][child] = "planning"
          THEN /\ MoveChild(e, child, {"planning"}, "coding")
               /\ job' = [job EXCEPT ![j].at = "loaded", ![j].child = child,
                                     ![j].files = planned[e]]
               /\ UNCHANGED <<status, failed>>
          ELSE Raise(j, OfCoding) /\ UNCHANGED children
     /\ UNCHANGED <<locks, planned, request, crashes, lost>>

(* _coding_node() begins.                                                  *)
Code(j) ==
  /\ At(j, "loaded")
  /\ SetStatus(job[j].epic, "coding")
  /\ GoOn(j, "coding")
  /\ UNCHANGED <<locks, planned, children, request, history>>

(* A subtask proposes another one: the files of it that the epic does not  *)
(* hold are reserved, or the proposal is dropped.                          *)
Propose(j) ==
  LET e == job[j].epic
  IN /\ At(j, "coding")
     /\ \E fs \in Plans :
          LET more == {f \in fs : holder[f] # e}
          IN /\ more # {}
             /\ Reserve(e, more)
             /\ job' = IF Taken(e, more)
                         THEN job ELSE [job EXCEPT ![j].files = @ \union fs]
     /\ UNCHANGED <<status, planned, children, request, crashes, failed>>

(* The subtasks are done, well or not: _finalize_node(), first commit.     *)
Finish(j) ==
  LET e == job[j].epic
  IN /\ At(j, "coding")
     /\ \E ok \in BOOLEAN :
          /\ SetStatus(e, IF ok THEN "ready_for_review" ELSE "halted")
          /\ job' = [job EXCEPT ![j].at = "releasing", ![j].ok = ok]
     /\ UNCHANGED <<locks, planned, children, request, history>>

(* The rest of it: the files are released and the child task settled.      *)
Release(j) ==
  LET e == job[j].epic
  IN /\ At(j, "releasing")
     /\ ReleaseFiles(e)
     /\ IF job[j].ok
          THEN MoveChild(e, job[j].child, {"coding"}, "ready_for_review")
          ELSE MoveChild(e, job[j].child,
                         {"planning", "ready_for_review", "coding"}, "blocked")
     /\ EndJob(j)
     /\ UNCHANGED <<status, planned, request, history>>

(* Any step of a job may raise.                                            *)
Fail(j) ==
  /\ ~At(j, "none")
  /\ IF job[j].at \in {"estimating", "planning", "checking",
                    "reserving", "reviewing"}
       THEN Raise(j, {"pending", "planning", "coding"})
       ELSE Raise(j, OfCoding)
  /\ UNCHANGED <<locks, planned, children, request, crashes, lost>>

-----------------------------------------------------------------------------

(* The server stops: jobs and requests are gone, and nothing resumes them. *)
Crash ==
  /\ crashes < MaxCrashes
  /\ crashes' = crashes + 1
  /\ job' = [j \in Jobs |-> NoJob]
  /\ request' = [u \in Users |-> NoRequest]
  /\ UNCHANGED <<locks, status, planned, children, lost, failed>>

(* A row passes its time.                                                  *)
Lapse(f) ==
  /\ Cardinality(expired) + Cardinality(lost) < MaxLapses
  /\ Expire(f)
  /\ UNCHANGED <<status, planned, children, job, request, history>>

Respond(u) ==
  ApproveCost(u) \/ ApprovePlan(u) \/ ApprovePolicy(u) \/ Approve(u)
    \/ Reject(u) \/ Close(u)

JobStep(j) ==
  Estimate(j) \/ Plan(j) \/ Check(j) \/ Lock(j) \/ Review(j)
    \/ Load(j) \/ Code(j) \/ Finish(j) \/ Release(j)

Next ==
  \/ \E e \in Epics : Start(e)
  \/ \E u \in Users, e \in Epics : Ask(u, e)
  \/ \E u \in Users : Respond(u)
  \/ \E j \in Jobs : JobStep(j) \/ Propose(j) \/ Fail(j)
  \/ Crash
  \/ \E f \in Files : Lapse(f)

Spec == Init /\ [][Next]_vars

(* Jobs and accepted requests go on; nobody has to ask for anything.       *)
FairSpec ==
  /\ Spec
  /\ \A j \in Jobs : WF_vars(JobStep(j))
  /\ \A u \in Users : WF_vars(Respond(u))

-----------------------------------------------------------------------------

Statuses == {"proposed", "pending", "planning", "pending_cost_approval",
             "pending_policy_approval", "pending_plan_approval",
             "plan_approved", "coding", "ready_for_review", "approved",
             "rejected", "halted"}

ChildStatuses == {"planning", "ready_for_review", "coding", "blocked",
                  "rejected", "cancelled"}

Places == {"estimating", "planning", "checking", "reserving", "reviewing",
           "loading", "loaded", "coding", "releasing"}

(* The values each variable may take.                                      *)
TypeOK ==
  /\ LocksTypeOK
  /\ status \in [Epics -> Statuses]
  /\ planned \in [Epics -> SUBSET Files]
  /\ children \in [Epics -> Seq(ChildStatuses)]
  /\ \A e \in Epics : Len(children[e]) <= MaxPlans
  /\ job \in [Jobs -> {NoJob} \union
                [at : Places, epic : Epics, files : SUBSET Files,
                 child : 0..MaxPlans, ok : BOOLEAN,
                 unseen : SUBSET Epics]]
  /\ request \in [Users -> {NoRequest} \union
                    [at : {"answer", "close"}, epic : Epics,
                     kind : DOMAIN Accepted]]
  /\ crashes \in 0..MaxCrashes
  /\ lost \subseteq Epics \X Files \X BOOLEAN
  /\ failed \subseteq Epics

JobsOf(e) == {j \in Jobs : ~At(j, "none") /\ job[j].epic = e}

Coders == {j \in Jobs : job[j].at \in {"loaded", "coding"}}

(***************************************************************************)
(* The files of a coding job are locked by its epic, those of the plan and *)
(* those of accepted proposals, but for rows that have expired.            *)
(***************************************************************************)
CoderHoldsFiles ==
  \A j \in Coders : \A f \in job[j].files :
    \/ holder[f] = job[j].epic
    \/ \E guarded \in BOOLEAN : <<job[j].epic, f, guarded>> \in lost

(***************************************************************************)
(* "Duplicate work prevented": two epics never code plans that share a     *)
(* file.  The lock and the guard together see to it: where a row expires   *)
(* while its epic is active, the guard still refuses the file to others.   *)
(* The exception is a row that expires while its epic waits for approval.  *)
(***************************************************************************)
Unguarded(e) == {f \in Files : <<e, f, FALSE>> \in lost}

PlansApart ==
  \A j, k \in Coders :
    job[j].epic # job[k].epic =>
      planned[job[j].epic] \intersect planned[job[k].epic]
        \subseteq Unguarded(job[j].epic) \union Unguarded(job[k].epic)

(* Two epics never code plans that share a file.                           *)
PlansAlwaysApart ==
  \A j, k \in Coders :
    job[j].epic # job[k].epic =>
      planned[job[j].epic] \intersect planned[job[k].epic] = {}

(***************************************************************************)
(* An epic with nothing under way that waits for nobody's plan approval    *)
(* has no file locked, unless a job of it raised or the server stopped.    *)
(***************************************************************************)
DoneHoldsNothing ==
  \A e \in Epics :
    /\ status[e] \in {"pending_cost_approval", "ready_for_review",
                      "approved", "rejected", "halted"}
    /\ JobsOf(e) = {}
    /\ \A u \in Users : request[u].at = "close" => request[u].epic # e
    /\ e \notin failed
    /\ crashes = 0
    => Held(e) = {}

(***************************************************************************)
(* With one request at a time, an epic has one job at most, and it has one *)
(* exactly while its status says so.                                       *)
(***************************************************************************)
OneJob ==
  \A e \in Epics :
    /\ \A j, k \in JobsOf(e) : j = k
    /\ status[e] \in {"pending", "planning", "plan_approved", "coding"}
         /\ crashes = 0 => JobsOf(e) # {}

(***************************************************************************)
(* With one request at a time, a plan that is approved can be coded: its   *)
(* child task still waits for the approval, whatever plans were set aside  *)
(* before it.                                                              *)
(***************************************************************************)
ApprovedPlanLoads ==
  \A j \in Jobs :
    At(j, "loading") =>
      LET e == job[j].epic
      IN NewestChild(e) # 0 /\ children[e][NewestChild(e)] = "planning"

(* With one request at a time, an epic that people have closed stays so.   *)
ClosedStaysClosed ==
  [][\A e \in Epics :
       status[e] \in {"approved", "rejected"} => status'[e] = status[e]]_vars

(***************************************************************************)
(* An epic does not stay in a status no request accepts, unless the server *)
(* stops.                                                                  *)
(***************************************************************************)
Settles ==
  \A e \in Epics :
    status[e] \in {"pending", "planning", "plan_approved", "coding"}
      ~> \/ crashes > 0
         \/ status[e] \notin {"pending", "planning", "plan_approved", "coding"}
=============================================================================
