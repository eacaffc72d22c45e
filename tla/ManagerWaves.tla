---------------------------- MODULE ManagerWaves ----------------------------
(***************************************************************************)
(* run_manager() of agents/manager.py with the edits people make to a plan *)
(* before it (pipeline/graph.py) and the steps agents propose meanwhile    *)
(* (pipeline/dynamic_subtasks.py): the waves of subtasks, the way of each  *)
(* through development, commit, QA, review and gates with its retries, the *)
(* halt after too many failures, and the rows of the subtasks table.       *)
(*                                                                         *)
(* Subtasks are numbered from 1; depends_on holds any integers. What the   *)
(* agents do, the global cap on agent runs and its time limit are outcomes *)
(* of a stage; updates of rows are taken to succeed.                       *)
(***************************************************************************)
EXTENDS Integers, Sequences, FiniteSets

CONSTANTS
  Plans,            \* plans: sequences of [files, deps]
  Files,
  Inside,           \* pairs <<x, y>>: path x lies in folder y
  Offers,           \* what agents may propose: a set of [title, files]
  Edits,            \* dependencies a person may give a step
  Fanouts,          \* values of enable_subtask_fanout
  SubtaskCap,       \* permits of the epic's subtask semaphore
  MaxRetries,       \* manager_max_subtask_retries
  MaxFailures,      \* manager_max_epic_failures
  MaxDynamic,       \* dynamic_subtask_max_per_epic
  MaxDepth,         \* dynamic_subtask_max_depth
  MaxProposals,     \* bound: proposals of one subtask
  OldRows,          \* bound: rows an earlier plan of the task left behind
  MaxSteps          \* bound: steps of a plan and those that join it

ASSUME PlansAssumption ==
  /\ Plans \subseteq Seq([files : SUBSET Files, deps : SUBSET Int])
  /\ Offers \subseteq [title : Int, files : SUBSET Files]
ASSUME BoundAssumption ==
  /\ SubtaskCap \in Nat \ {0} /\ MaxRetries \in Nat \ {0}
  /\ MaxFailures \in Nat \ {0} /\ MaxDynamic \in Nat /\ MaxDepth \in Nat
  /\ OldRows \in Nat /\ MaxProposals \in Nat /\ MaxSteps \in Nat
  /\ \A p \in Plans : Len(p) + MaxDynamic <= MaxSteps

VARIABLES
  phase,       \* the plan is in review, is approved, its run is on, has
               \* returned, or has raised
  fanout,
  steps,       \* the list subtasks
  rows,        \* rows of the subtasks table for this task, by id
  known,       \* how many of them were read before the first wave
  queue,       \* wave_queue
  wave,        \* the subtasks of the current wave
  pc,          \* where each subtask is
  attempt,     \* the attempt it is at
  outcome,     \* its status in the results
  proposed,    \* local_proposals of each subtask
  inbox,       \* wave_proposals that remain to be integrated
  status,      \* overall_status
  permits,     \* free permits of the subtask semaphore
  lock,        \* the subtask that holds git_commit_lock
  staged,      \* subtasks with changes in the index of the worktree
  left,        \* subtasks whose commit failed or timed out
  late         \* subtasks whose timed-out git commit is still at work

planVars == <<steps, rows, known>>
waveVars == <<queue, wave, inbox, status>>
stepVars == <<pc, attempt, outcome, proposed, permits>>
gitVars  == <<lock, staged, left, late>>
vars == <<phase, fanout, planVars, waveVars, stepVars, gitVars>>

Idx == 1..MaxSteps
Steps == 1..Len(steps)
Nobody == 0

Stages == {"idle", "dispatch", "dev", "add", "commit", "qa", "review", "gates",
           "done", "raised", "gone"}

-----------------------------------------------------------------------------
(* The order of a plan.                                                    *)

Valid(s, i) == {d \in s[i].deps : d \in 1..Len(s) /\ d # i}
Malformed(s) == \E i \in 1..Len(s) : s[i].deps # Valid(s, i)

(* What Kahn's algorithm has resolved after k rounds.                      *)
Resolved(s) ==
  LET R[k \in 0..Len(s)] ==
        IF k = 0 THEN {}
        ELSE LET before == R[k - 1]
             IN {i \in 1..Len(s) : Valid(s, i) \subseteq before}
  IN R

Ordered(s) == ~Malformed(s) /\ Resolved(s)[Len(s)] = 1..Len(s)

(* The members of S, a set of places in a list of n, in the list's order.  *)
Ascending(n, S) ==
  LET A[k \in 0..n] ==
        IF k = 0 THEN <<>> ELSE IF k \in S THEN Append(A[k - 1], k) ELSE A[k - 1]
  IN A[n]

Singles(seq) == [k \in 1..Len(seq) |-> {seq[k]}]
InListOrder(s) == [k \in 1..Len(s) |-> k]

(* _topological_subtask_order(): the smallest ready subtask first.         *)
Order(s) ==
  LET First[k \in 0..Len(s)] ==
        IF k = 0 THEN <<>>
        ELSE LET before == First[k - 1]
                 done == {before[m] : m \in 1..(k - 1)}
                 ready == {i \in 1..Len(s) \ done : Valid(s, i) \subseteq done}
             IN Append(before, CHOOSE i \in ready : \A j \in ready : i <= j)
  IN IF Ordered(s) THEN First[Len(s)] ELSE InListOrder(s)

Overlaps(a, b) ==
  \E x \in a, y \in b : x = y \/ <<x, y>> \in Inside \/ <<y, x>> \in Inside

Writes(s, group) == UNION {s[i].files : i \in group}

(* Slip: as if a step without files could run beside any other.            *)
JoinsAny(s, group, i) ==
  ~Overlaps(s[i].files, Writes(s, group))
Joins(s, group, i) ==
  /\ s[i].files # {} /\ Writes(s, group) # {}
  /\ ~Overlaps(s[i].files, Writes(s, group))

(* _clash_free_groups(): each goes to the first group it can join.         *)
Placed(s, groups, i) ==
  LET fits == {k \in 1..Len(groups) : Joins(s, groups[k], i)} IN
  IF fits = {} THEN Append(groups, {i})
  ELSE [groups EXCEPT ![CHOOSE k \in fits : \A m \in fits : k <= m] = @ \cup {i}]

ClashFreeGroups(s, layer) ==
  LET G[k \in 0..Len(s)] ==
        IF k = 0 THEN <<>>
        ELSE IF k \in layer THEN Placed(s, G[k - 1], k) ELSE G[k - 1]
  IN G[Len(s)]

Layers(s) ==
  [k \in 1..Len(s) |-> Resolved(s)[k] \ Resolved(s)[k - 1]]

(* _topological_subtask_waves().                                           *)
Waves(s) ==
  LET W[k \in 0..Len(s)] ==
        IF k = 0 THEN <<>> ELSE W[k - 1] \o ClashFreeGroups(s, Layers(s)[k])
  IN IF Ordered(s) THEN W[Len(s)] ELSE Singles(InListOrder(s))

Schedule(s) == IF fanout THEN Waves(s) ELSE Singles(Order(s))

-----------------------------------------------------------------------------
Step(id, title, files, deps, depth) ==
  [id |-> id, title |-> title, files |-> files, deps |-> deps, depth |-> depth]

Row(id, st) == [id |-> id, status |-> st]

(* A plan is up for review. Its rows follow those of the plans the task    *)
(* had before.                                                             *)
Init ==
  /\ phase = "review"
  /\ fanout \in Fanouts
  /\ \E p \in Plans, old \in 0..OldRows :
       /\ steps = [i \in 1..Len(p) |-> Step(i, i, p[i].files, p[i].deps, 0)]
       /\ rows = [i \in 1..(old + Len(p)) |->
                    IF i <= old THEN Row(Nobody, "completed")
                    ELSE Row(i - old, "pending")]
  /\ known = 0
  /\ queue = <<>> /\ wave = {} /\ inbox = <<>> /\ status = "completed"
  /\ pc = [i \in Idx |-> "idle"] /\ attempt = [i \in Idx |-> 0]
  /\ outcome = [i \in Idx |-> "none"] /\ proposed = [i \in Idx |-> <<>>]
  /\ permits = SubtaskCap
  /\ lock = Nobody /\ staged = {} /\ left = {} /\ late = {}

(* What apply_subtask_edits() makes of a plan: the steps of R are taken out *)
(* and the others, whose places change, name what they depend on anew.     *)
Without(s, R) ==
  LET kept == Ascending(Len(s), (1..Len(s)) \ R)
      place(d) == CHOOSE k \in 1..Len(kept) : kept[k] = d
  IN [k \in 1..Len(kept) |->
        [s[kept[k]] EXCEPT !.deps = {place(d) : d \in @ \cap ((1..Len(s)) \ R)}]]

(* A person gives step i other dependencies (i = 0: none), rejects the     *)
(* steps of R, which no other may need, and approves the plan.             *)
Approve(i, deps, R) ==
  LET edited == IF i = 0 THEN steps ELSE [steps EXCEPT ![i].deps = deps] IN
  /\ phase = "review"
  /\ i # 0 => i \in Steps /\ deps \subseteq Steps \ {i}
  /\ R \subseteq Steps
  /\ \A j \in Steps \ R : edited[j].deps \cap R = {}
  /\ steps' = IF R = {} THEN edited ELSE Without(edited, R)
  /\ Ordered(steps) => Ordered(steps')
  /\ phase' = "approved"
  /\ UNCHANGED <<fanout, rows, known, waveVars, stepVars, gitVars>>

(* run_manager() is called.                                                *)
Begin ==
  /\ phase = "approved"
  /\ phase' = "running"
  /\ known' = Len(rows)
  /\ queue' = Schedule(steps)
  /\ UNCHANGED <<fanout, steps, rows, wave, inbox, status, stepVars, gitVars>>

Free == wave = {} /\ inbox = <<>>

NextWave ==
  /\ phase = "running" /\ Free /\ queue # <<>>
  /\ wave' = Head(queue)
  /\ queue' = Tail(queue)
  /\ pc' = [i \in Idx |-> IF i \in wave' THEN "dispatch" ELSE pc[i]]
  /\ UNCHANGED <<phase, fanout, planVars, inbox, status, attempt, outcome,
                 proposed, permits, gitVars>>

-----------------------------------------------------------------------------
(* _dispatch_one_subtask().                                                *)

At(i, stage) == pc[i] = stage

GoTo(i, stage) == pc' = [pc EXCEPT ![i] = stage]

(* No healthy agent takes it, or the epic's permits stay taken too long:   *)
(* blocked before anything is written.                                     *)
TurnAway(i) ==
  /\ At(i, "dispatch")
  /\ GoTo(i, "done")
  /\ outcome' = [outcome EXCEPT ![i] = "blocked"]
  /\ UNCHANGED <<phase, fanout, planVars, waveVars, attempt, proposed, permits,
                 gitVars>>

TakeSlot(i) ==
  /\ At(i, "dispatch") /\ permits > 0
  /\ permits' = permits - 1
  /\ GoTo(i, "dev")
  /\ attempt' = [attempt EXCEPT ![i] = 1]
  /\ UNCHANGED <<phase, fanout, planVars, waveVars, outcome, proposed, gitVars>>

(* The permit is given back and the row at the subtask's place is updated. *)
Settle(i, o) ==
  /\ GoTo(i, "done")
  /\ outcome' = [outcome EXCEPT ![i] = o]
  /\ permits' = permits + 1
  /\ rows' = IF i <= known THEN [rows EXCEPT ![i].status = o] ELSE rows
  /\ attempt' = [attempt EXCEPT ![i] = 0]

Retry(i) ==
  IF attempt[i] < MaxRetries
  THEN /\ GoTo(i, "dev")
       /\ attempt' = [attempt EXCEPT ![i] = @ + 1]
       /\ UNCHANGED <<outcome, permits, rows>>
  ELSE Settle(i, "blocked")

(* A stage fails: the agent errs, an import cannot be resolved, tests      *)
(* fail, the reviewer or a gate objects, or no agent run is free in time.  *)
Fail(i) ==
  /\ pc[i] \in {"dev", "qa", "review", "gates"}
  /\ Retry(i)
  /\ UNCHANGED <<phase, fanout, steps, known, waveVars, proposed, gitVars>>

(* The developing agent proposes another step.                             *)
Propose(i, p) ==
  /\ At(i, "dev") /\ Len(proposed[i]) < MaxProposals
  /\ proposed' = [proposed EXCEPT ![i] = Append(@, [parent |-> i, step |-> p])]
  /\ UNCHANGED <<phase, fanout, planVars, waveVars, pc, attempt, outcome,
                 permits, gitVars>>

(* It is done, with files to commit or without.                            *)
Develop(i) ==
  /\ At(i, "dev")
  /\ \/ GoTo(i, "add") \/ GoTo(i, "qa")
  /\ UNCHANGED <<phase, fanout, planVars, waveVars, attempt, outcome, proposed,
                 permits, gitVars>>

(* An exception passes _dispatch_one_subtask() and, through await or        *)
(* gather(), run_manager(): the permit is not given back, nothing is        *)
(* recorded, and the steps beside it go on by themselves.                   *)
Raise(i) == GoTo(i, "raised") /\ phase' = "raised"

(* Slip: as if the commits of a wave were not one at a time.               *)
AddFilesAtOnce(i) ==
  /\ At(i, "add")
  /\ \/ /\ staged' = staged \cup {i}
        /\ lock' = i
        /\ GoTo(i, "commit") /\ UNCHANGED phase
     \/ GoTo(i, "qa") /\ UNCHANGED <<phase, lock, staged>>
     \/ Raise(i) /\ UNCHANGED <<lock, staged>>
  /\ UNCHANGED <<fanout, planVars, waveVars, attempt, outcome, proposed, permits,
                 left, late>>
(* git add under the commit lock. When it fails there is no commit; for an *)
(* absolute path it raises.                                                *)
AddFiles(i) ==
  /\ At(i, "add") /\ lock = Nobody
  /\ \/ /\ staged' = staged \cup {i}
        /\ lock' = i
        /\ GoTo(i, "commit") /\ UNCHANGED phase
     \/ GoTo(i, "qa") /\ UNCHANGED <<phase, lock, staged>>
     \/ Raise(i) /\ UNCHANGED <<lock, staged>>
  /\ UNCHANGED <<fanout, planVars, waveVars, attempt, outcome, proposed, permits,
                 left, late>>

(* Slip: as if the lock were kept when a commit fails.                     *)
CommitKeepsLock(i) ==
  /\ At(i, "commit")
  /\ \/ /\ staged' = {} /\ left' = left \ staged /\ lock' = Nobody
        /\ GoTo(i, "qa") /\ UNCHANGED <<phase, late>>
     \/ /\ left' = left \cup {i}
        /\ GoTo(i, "qa") /\ UNCHANGED <<phase, staged, lock, late>>
     \/ /\ left' = left \cup {i} /\ late' = late \cup {i} /\ lock' = Nobody
        /\ Raise(i) /\ UNCHANGED staged
  /\ UNCHANGED <<fanout, planVars, waveVars, attempt, outcome, proposed, permits>>
(* git commit takes whatever is staged; a failure is logged. After 30      *)
(* seconds it raises and frees the lock, and git is still at work.         *)
Commit(i) ==
  /\ At(i, "commit")
  /\ \/ /\ staged' = {} /\ left' = left \ staged
        /\ GoTo(i, "qa") /\ UNCHANGED <<phase, late>>
     \/ /\ left' = left \cup {i}
        /\ GoTo(i, "qa") /\ UNCHANGED <<phase, staged, late>>
     \/ /\ left' = left \cup {i} /\ late' = late \cup {i}
        /\ Raise(i) /\ UNCHANGED staged
  /\ lock' = Nobody
  /\ UNCHANGED <<fanout, planVars, waveVars, attempt, outcome, proposed, permits>>

(* A commit that timed out ends after all: it takes what is staged by now, *)
(* or fails.                                                               *)
LateCommit(i) ==
  /\ i \in late
  /\ late' = late \ {i}
  /\ \/ staged' = {} /\ left' = left \ staged
     \/ UNCHANGED <<staged, left>>
  /\ UNCHANGED <<phase, fanout, planVars, waveVars, stepVars, lock>>

(* The suspended subtask_slot() of a step that raised is collected at last,*)
(* and asyncio closes it, which gives the permit back.                     *)
Collect(i) ==
  /\ At(i, "raised")
  /\ GoTo(i, "gone")
  /\ permits' = permits + 1
  /\ UNCHANGED <<phase, fanout, planVars, waveVars, attempt, outcome, proposed,
                 gitVars>>

Pass(i, here, next) ==
  /\ At(i, here)
  /\ GoTo(i, next)
  /\ UNCHANGED <<phase, fanout, planVars, waveVars, attempt, outcome, proposed,
                 permits, gitVars>>

QA(i) == Pass(i, "qa", "review")
Review(i) == Pass(i, "review", "gates")

Gates(i) ==
  /\ At(i, "gates")
  /\ Settle(i, "completed")
  /\ UNCHANGED <<phase, fanout, steps, known, waveVars, proposed, gitVars>>

-----------------------------------------------------------------------------
(* The end of a wave.                                                      *)

Blocked == {i \in Steps : outcome[i] = "blocked"}
Dispatched == {i \in Steps : outcome[i] # "none"}

Proposals(w) ==
  LET P[k \in 0..Len(steps)] ==
        IF k = 0 THEN <<>>
        ELSE IF k \in w THEN P[k - 1] \o proposed[k] ELSE P[k - 1]
  IN P[Len(steps)]

(* Slip: as if a wave's result were that of its last step.                 *)
ResultOfLast(w) ==
  IF outcome[CHOOSE i \in w : \A j \in w : j <= i] = "blocked"
  THEN "blocked" ELSE status
ResultOf(w) ==
  IF \E i \in w : outcome[i] = "blocked" THEN "blocked" ELSE status

(* The wave is recorded. Too many failures halt the run, and what its last *)
(* wave proposed is dropped.                                               *)
EndWave ==
  /\ phase = "running" /\ wave # {}
  /\ \A i \in wave : At(i, "done")
  /\ wave' = {}
  /\ proposed' = [i \in Idx |-> <<>>]
  /\ IF Cardinality(Blocked) >= MaxFailures
     THEN phase' = "returned" /\ status' = "halted" /\ UNCHANGED inbox
     ELSE status' = ResultOf(wave) /\ inbox' = Proposals(wave) /\ UNCHANGED phase
  /\ UNCHANGED <<fanout, planVars, queue, pc, attempt, outcome, permits, gitVars>>

Dynamic == {i \in Steps : steps[i].depth > 0}

(* validate_and_build_subtask(): number, depth and no duplicate.           *)
Admissible(p) ==
  /\ Cardinality(Dynamic) < MaxDynamic
  /\ steps[p.parent].depth + 1 <= MaxDepth
  /\ \A i \in Steps : /\ p.step.title # steps[i].title
                      /\ p.step.files # {} => p.step.files # steps[i].files

Remaining(s) ==
  LET all == Schedule(s)
      more == Ascending(Len(all), {k \in 1..Len(all) : all[k] \ Dispatched # {}})
  IN [k \in 1..Len(more) |-> all[more[k]] \ Dispatched]

NewId == 1 + Cardinality({r \in DOMAIN rows : rows[r].id # Nobody})

Joined(p) ==
  Append(steps, Step(NewId, p.step.title, p.step.files, {p.parent},
                     steps[p.parent].depth + 1))

(* integrate_proposals(), one proposal: rejected when it is not admissible,*)
(* another epic holds one of its files or its row cannot be written.       *)
Integrate ==
  /\ phase = "running" /\ wave = {} /\ inbox # <<>>
  /\ inbox' = Tail(inbox)
  /\ \/ UNCHANGED <<steps, rows, queue>>
     \/ /\ Admissible(Head(inbox))
        /\ steps' = Joined(Head(inbox))
        /\ rows' = Append(rows, Row(NewId, "pending"))
        /\ queue' = Remaining(steps')
  /\ UNCHANGED <<phase, fanout, known, wave, status, stepVars, gitVars>>

Return ==
  /\ phase = "running" /\ Free /\ queue = <<>>
  /\ phase' = "returned"
  /\ UNCHANGED <<fanout, planVars, waveVars, stepVars, gitVars>>

-----------------------------------------------------------------------------
Work(i) ==
  \/ TurnAway(i) \/ TakeSlot(i) \/ Fail(i) \/ Develop(i)
  \/ AddFiles(i) \/ Commit(i) \/ QA(i) \/ Review(i) \/ Gates(i)

Manage == NextWave \/ EndWave \/ Integrate \/ Return

Next ==
  \/ \E i \in Idx \cup {0}, d \in Edits, R \in SUBSET Steps : Approve(i, d, R)
  \/ Begin \/ Manage
  \/ \E i \in Idx : Work(i) \/ LateCommit(i) \/ Collect(i)
  \/ \E i \in Idx, p \in Offers : Propose(i, p)

Spec == Init /\ [][Next]_vars

(* Agents end: their turns are counted and their calls have time limits.   *)
FairSpec ==
  Spec /\ WF_vars(Manage) /\ \A i \in Idx : WF_vars(Work(i))
-----------------------------------------------------------------------------
TypeOK ==
  /\ phase \in {"review", "approved", "running", "returned", "raised"}
  /\ steps \in Seq([id : Idx, title : Int, files : SUBSET Files,
                    deps : SUBSET Int, depth : 0..MaxDepth])
  /\ Len(steps) <= MaxSteps
  /\ rows \in Seq([id : Idx \cup {Nobody},
                   status : {"pending", "completed", "blocked"}])
  /\ known \in 0..(OldRows + MaxSteps)
  /\ queue \in Seq(SUBSET Steps) /\ wave \subseteq Steps
  /\ pc \in [Idx -> Stages]
  /\ attempt \in [Idx -> 0..MaxRetries]
  /\ outcome \in [Idx -> {"none", "completed", "blocked"}]
  /\ status \in {"completed", "blocked", "halted"}
  /\ permits \in 0..SubtaskCap
  /\ lock \in Idx \cup {Nobody}
  /\ staged \subseteq Idx /\ left \subseteq Idx /\ late \subseteq Idx

(* What run_manager() returns answers for every step, those that joined    *)
(* included: unless it halted, each has ended, and it reports "completed"  *)
(* just when none of them is blocked; no permit of the epic stays taken.   *)
(* When it raises instead, and the steps that ran beside the one that      *)
(* raised have ended too, only steps that raised keep a permit, and the    *)
(* commit lock is free.                                                    *)
AllAccounted ==
  /\ phase = "returned" =>
       /\ permits = SubtaskCap /\ lock = Nobody
       /\ status # "halted" =>
            /\ \A i \in Steps : outcome[i] # "none"
            /\ (status = "completed") <=> (Blocked = {})
  /\ phase = "raised" /\ (\A i \in wave : pc[i] \in {"done", "raised", "gone"}) =>
       /\ permits + Cardinality({i \in wave : At(i, "raised")}) = SubtaskCap
       /\ lock = Nobody

(* Nobody waits for everybody: whenever a run is on, its manager can go on *)
(* or a step of the wave can, without waiting for a permit's time limit or *)
(* for a commit lock that is taken.                                        *)
NeverStuck ==
  phase = "running" =>
    \/ Free
    \/ wave = {} /\ inbox # <<>>
    \/ wave # {} /\ \A i \in wave : At(i, "done")
    \/ \E i \in wave : /\ ~At(i, "idle") /\ ~At(i, "done")
                       /\ At(i, "dispatch") => permits > 0
                       /\ At(i, "add") => lock = Nobody

(* A commit carries the changes of the step that makes it, and such as a   *)
(* commit that failed left staged; never those of a step beside it. Only a *)
(* commit that timed out, which no longer has the lock, may take those of  *)
(* the one step that has it by then.                                       *)
CommitsApart ==
  [][ staged # {} /\ staged' = {} =>
        /\ staged \subseteq {lock} \cup left
        /\ late' = late => \E i \in Idx : At(i, "commit") /\ lock = i ]_vars

(* The run of a plan returns or raises, whatever its agents do and propose.*)
Returns == phase = "running" ~> phase \in {"returned", "raised"}

(* A comment of _dispatch_one_subtask() says that nothing in its loop      *)
(* raises past it. It does not hold, and no run checks it: a patch that    *)
(* names an absolute path makes git_add() raise, and a slow git commit     *)
(* makes git_commit() raise.                                               *)
NothingRaises == phase # "raised"

(* Its docstring says that git_commit_lock keeps the commits of a wave     *)
(* from racing each other. Nor does this hold: after a commit has timed    *)
(* out, another step has the lock beside it.                               *)
CommitsOneByOne == late # {} => lock = Nobody

(* How much of its way a step has before it, in steps of this model: what  *)
(* each attempt may still pass, the attempts and the proposals left.       *)
StagesLeft ==
  [dev |-> 6, add |-> 5, commit |-> 4, qa |-> 3, review |-> 2, gates |-> 1]
Longest == 6 * MaxRetries + MaxProposals
ToGo(i) ==
  CASE At(i, "idle") -> Longest + 2
    [] At(i, "dispatch") -> Longest + 1
    [] pc[i] \in {"done", "raised", "gone"} -> 0
    [] OTHER -> 6 * (MaxRetries - attempt[i]) + StagesLeft[pc[i]]
                  + (MaxProposals - Len(proposed[i]))

(* A run that is on comes nearer to its end with everything that happens:  *)
(* no step's way gets longer, and one gets shorter or, where none does, a  *)
(* wave ends, a proposal is settled or the run returns. Steps that join    *)
(* were among those to come. So there is no endless run.                   *)
ComesNearer ==
  [][ phase = "running" =>
        /\ \A i \in Idx : ToGo(i)' <= ToGo(i)
        /\ \/ \E i \in Idx : ToGo(i)' < ToGo(i)
           \/ wave # {} /\ wave' = {}
           \/ wave = {} /\ wave' = {} /\ Len(inbox') < Len(inbox)
           \/ phase' \in {"returned", "raised"} ]_vars

(* A plan by the names of its steps, whose places change.                  *)
IdsOf(s, S) == {s[i].id : i \in S}
Place(s, id) == CHOOSE i \in 1..Len(s) : s[i].id = id
Befores(s) == [id \in IdsOf(s, 1..Len(s)) |-> IdsOf(s, Valid(s, Place(s, id)))]
WritesOf(s) == [id \in IdsOf(s, 1..Len(s)) |-> s[Place(s, id)].files]

Begun == phase \in {"running", "returned", "raised"}
RunningIds == IdsOf(steps, {i \in Steps : pc[i] \notin {"idle", "done"}})
EndedIds == IdsOf(steps, {i \in Steps : pc[i] = "done"})
Clashing == {xy \in Files \X Files : Overlaps({xy[1]}, {xy[2]})}

(* The waves keep the promises of SubtaskSchedule: no step twice, none     *)
(* before those it depends on, none beside one that writes the same files, *)
(* through edits of the plan and steps that join. A step that raised never *)
(* ends.                                                                   *)
Schedules == INSTANCE SubtaskSchedule WITH
  Ids     <- Idx,
  Clashes <- Clashing,
  before  <- Befores(steps),
  writes  <- WritesOf(steps),
  ordered <- Ordered(steps),
  begun   <- Begun,
  running <- RunningIds,
  ended   <- EndedIds

KeepsSchedule == Schedules!Spec

(* The prompt of the decomposer says that the steps a step depends on      *)
(* complete before it starts.                                              *)
DependenciesCompleted ==
  \A i \in wave : Ordered(steps) /\ At(i, "dev") =>
    \A d \in Valid(steps, i) : outcome[d] = "completed"

(* A comment of run_manager() says that the place of a subtask in the list *)
(* is a reliable link to its row: the status of a step that has completed  *)
(* is in the row that was inserted for that step.                          *)
StatusOnOwnRow ==
  \A i \in Steps : outcome[i] = "completed" =>
    \E r \in DOMAIN rows : rows[r] = Row(steps[i].id, "completed")
=============================================================================
