----------------------------- MODULE AgentLoop ------------------------------
(***************************************************************************)
(* One agent run: the LangGraph graph of agents/base_graph.py that every   *)
(* worker agent goes through, from run_agent_graph() to the row it leaves  *)
(* in agent_runs, with stops, crashes and resumes from the checkpoint.     *)
(*                                                                         *)
(* Messages are records of what the API and the routers look at: their     *)
(* kind, the tool-use batch they belong to and how many tool uses they     *)
(* carry or answer. One verification key stands for a role's keys. Text,   *)
(* tokens, prompts and activity events are left out. A node's result is    *)
(* taken to be in the checkpoint when the node ends.  With USE_GROQ or     *)
(* USE_GEMINI there is no graph and no checkpoint: the loop of base.py     *)
(* runs instead, as one step, and what its tools do is left out.           *)
(***************************************************************************)
EXTENDS Naturals, Sequences, FiniteSets

CONSTANTS
  Tools,              \* the tools advertised to the agent
  Submits,            \* its submit_* tools
  Clarifies,          \* request_clarification
  Checks,             \* VerificationConfig.set_by
  Edits,              \* VerificationConfig.reset_by
  Guarded,            \* VerificationConfig.blocking_until
  Hazardous,          \* tools with a permission in _RETRY_EXCLUDED_PERMISSIONS
  Profiles,           \* what a run may be: the graph with a set of optional
                      \* nodes, or {"adapter"}, the loop of another provider
  Forces,             \* FALSE for a model with a thinking budget
  HumanApproval,      \* human_approval_required
  MaxTurns, MaxBatch, MaxAttempts,
  MaxCritiqueRetries, MaxReplans,
  ReflectionLimit, CritiqueLimit, BlockedLimit,   \* replanning_*_threshold
  MaxResumes          \* bound: resumes of one run

Optional == {"planning", "memory", "reflection", "critique", "replanning"}

ASSUME ToolAssumption ==
  /\ Submits \subseteq Tools /\ Clarifies \subseteq Tools
  /\ Checks \subseteq Tools /\ Edits \subseteq Tools
  /\ Guarded \subseteq Tools
  /\ Hazardous \subseteq Tools /\ Edits \subseteq Hazardous
  /\ Submits \cap (Clarifies \cup Edits) = {}
  /\ Clarifies \cap Edits = {}

ASSUME LimitAssumption ==
  /\ MaxTurns \in Nat \ {0} /\ MaxBatch \in Nat \ {0}
  /\ MaxAttempts \in Nat \ {0}
  /\ MaxCritiqueRetries \in Nat /\ MaxReplans \in Nat /\ MaxResumes \in Nat
  /\ ReflectionLimit \in Nat /\ CritiqueLimit \in Nat /\ BlockedLimit \in Nat
  /\ Profiles \subseteq SUBSET Optional \union {{"adapter"}}
  /\ Forces \in BOOLEAN /\ HumanApproval \in BOOLEAN

VARIABLES
  node,       \* the graph's position, or how the run stands outside it
  profile,    \* the optional nodes this run was built with, or {"adapter"}
  messages,   \* state["messages"]
  asked,      \* the tool uses in messages[-1]
  pending,    \* state["pending_tool_uses"]
  origin,     \* the batch whose uses pending and the buffer belong to
  buffered,   \* the length of state["tool_results_buffer"]
  turns,
  submitted,
  status,     \* state["status"]
  verified,   \* state["verification"]
  result,     \* state["result"]: what it claims, and whether it asks for a human
  approval,   \* state["requires_human_approval"]
  batchApproval,
  selfReview, unsatisfied, confident,
  retries,    \* state["critique_retries"]
  gaps,       \* critique_result names an unmet criterion
  replans,
  abort,      \* the task's stop flag
  row,        \* status of the agent_runs row
  resumes,    \* how often the run was started again
  calls,      \* main LLM calls since the run was last started
  batches,    \* tool-use batches asked for so far
  ran,        \* <<batch, position>> of the unanswered uses handed to a handler
  twice,      \* a hazardous tool use reached its handler twice
  drift,      \* what changed the files since the last successful check
  stray,      \* a timed-out edit still runs in its thread
  cut         \* some resume found a tool use without its result

control  == <<node, profile>>
history  == <<messages, asked>>
batch    == <<pending, origin, buffered, batchApproval>>
outcome  == <<submitted, status, result, approval>>
counters == <<turns, retries, gaps, replans>>
review   == <<selfReview, unsatisfied, confident>>
outside  == <<abort, row, resumes, cut>>
ghosts   == <<calls, batches>>
effects  == <<verified, ran, twice, drift, stray>>
vars == <<control, history, batch, outcome, counters, review, outside,
          ghosts, effects>>

-----------------------------------------------------------------------------
(* The conversation.                                                       *)

User == [kind |-> "user", batch |-> 0, size |-> 0]
Text == [kind |-> "text", batch |-> 0, size |-> 0]
Uses(b, n) == [kind |-> "uses", batch |-> b, size |-> n]
Results(b, n) == [kind |-> "results", batch |-> b, size |-> n]

Message == [kind : {"user", "text", "uses", "results"}, batch : Nat,
            size : Nat]

(* What the Messages API takes: the conversation opens with a user         *)
(* message, and tool uses and their results are neighbours.                *)
Accepted(h) ==
  /\ h # <<>>
  /\ h[1].kind = "user"
  /\ \A i \in 1..Len(h) :
       /\ h[i].kind = "uses" =>
            /\ i + 1 \in 1..Len(h)
            /\ h[i + 1] = Results(h[i].batch, h[i].size)
       /\ h[i].kind = "results" =>
            /\ i - 1 \in 1..Len(h)
            /\ h[i - 1] = Uses(h[i].batch, h[i].size)

(* Where the kept tail of a condensed conversation may open: before its    *)
(* last four messages, walked back off tool results, else forward.         *)
Opens(h, i) == h[i].kind # "results"
Back(h) == {i \in 3..(Len(h) - 3) : Opens(h, i)}
Forward(h) == {i \in (Len(h) - 3)..Len(h) : Opens(h, i)}
(* Slip: as a careless cut would: the last four messages, whatever they    *)
(* are.                                                                    *)
IsLastFour(h, c) == c = Len(h) - 3
IsTail(h, c) ==
  \/ c \in Back(h) /\ \A i \in Back(h) : i <= c
  \/ Back(h) = {} /\ c \in Forward(h) /\ \A i \in Forward(h) : c <= i

(* The possible requests of one call: the history itself, or, above the    *)
(* token budget, its head, a summary and the tail.                         *)
Condensed(h, c) == <<h[1], User>> \o SubSeq(h, c, Len(h))
Requests(h) ==
  {h} \cup {Condensed(h, c) : c \in {d \in 3..Len(h) : Len(h) > 4 /\ IsTail(h, d)}}

(* What the reviewer is shown while tool uses are still to be executed.    *)
ReviewHistory(h) ==
  IF h[Len(h)].kind = "uses"
  THEN Append(h, Results(h[Len(h)].batch, h[Len(h)].size))
  ELSE h

-----------------------------------------------------------------------------
Nodes == {"adapter", "planner_node", "memory_hook_node", "call_llm",
          "reflection_node", "execute_tools", "critique_node", "replan_node"}
Ended == {"END"}                        \* the graph has returned
Stopped == {"finished", "raised", "dead"}  \* no thread runs the graph

NoResult == [claim |-> FALSE, review |-> FALSE]

EntryPoint ==
  IF "adapter" \in profile THEN "adapter"
  ELSE IF "planning" \in profile THEN "planner_node"
  ELSE IF "memory" \in profile THEN "memory_hook_node" ELSE "call_llm"

Init ==
  /\ profile \in Profiles
  /\ node = EntryPoint
  /\ messages = <<User>> /\ asked = <<>>
  /\ pending = <<>> /\ origin = 0 /\ buffered = 0 /\ batchApproval = FALSE
  /\ turns = 0 /\ retries = 0 /\ gaps = FALSE /\ replans = 0
  /\ submitted = FALSE /\ status = "running" /\ result = NoResult
  /\ approval = FALSE /\ verified = FALSE
  /\ selfReview = FALSE /\ unsatisfied = 0 /\ confident = TRUE
  /\ abort = FALSE /\ row = "running" /\ resumes = 0 /\ cut = FALSE
  /\ calls = 0 /\ batches = 0
  /\ ran = {} /\ twice = FALSE /\ drift = "none" /\ stray = FALSE

-----------------------------------------------------------------------------
(* The loop of another provider, of at most max_turns calls, whose answer  *)
(* is returned at once: nobody settles the row.  It raises into the code   *)
(* that does.  It takes what a submission claims as it is.                 *)
Adapter ==
  /\ node = "adapter"
  /\ \E n \in 0..MaxTurns : calls' = calls + n
  /\ \/ /\ node' = "finished"
        /\ submitted' \in BOOLEAN
        /\ status' = IF submitted' THEN "completed" ELSE "blocked"
        /\ result' \in IF submitted' THEN [claim : BOOLEAN, review : {FALSE}]
                       ELSE {NoResult}
        /\ UNCHANGED row
     \/ /\ node' = "raised"
        /\ row' = "failed"
        /\ UNCHANGED <<submitted, status, result>>
  /\ UNCHANGED <<profile, history, batch, approval, counters, review, abort,
                 resumes, cut, batches, effects>>

(* The plan and its confidence; a failed planning call is not fatal.       *)
PlannerNode ==
  /\ node = "planner_node"
  /\ confident' \in BOOLEAN
  /\ node' = IF "memory" \in profile THEN "memory_hook_node" ELSE "call_llm"
  /\ status' = "running"
  /\ UNCHANGED <<profile, history, batch, submitted, result, approval,
                 counters, selfReview, unsatisfied, outside, ghosts, effects>>

(* Lessons and repository context go to the system prompt.                 *)
MemoryHookNode ==
  /\ node = "memory_hook_node"
  /\ node' = "call_llm"
  /\ UNCHANGED <<profile, history, batch, outcome, counters, review, outside,
                 ghosts, effects>>

(* call_llm() returns without a call: stopped by the user, or out of its   *)
(* token budget, of the daily spend or of the model's window.              *)
StopBeforeCall ==
  /\ node = "call_llm"
  /\ status' = IF abort THEN "stopped" ELSE "blocked"
  /\ submitted' = TRUE
  /\ node' = "END"
  /\ UNCHANGED <<profile, history, batch, result, approval, counters, review,
                 outside, ghosts, effects>>

(* The call raises: the API refuses the conversation, or is out of reach.  *)
(* run_agent_graph() keeps the checkpoint and fails the row.               *)
CallFails ==
  /\ node = "call_llm" /\ ~abort
  /\ node' = "raised"
  /\ row' = "failed"
  /\ calls' = calls + 1
  /\ UNCHANGED <<profile, history, batch, outcome, counters, review, abort,
                 resumes, cut, batches, effects>>

(* On the last allowed turn the only submit tool is forced.                *)
Forced ==
  Forces /\ turns + 1 >= MaxTurns /\ Cardinality(Submits) = 1

Batches ==
  UNION {[1..n -> IF Forced THEN Submits ELSE Tools] : n \in 1..MaxBatch}

HasSubmit(b) == \E i \in 1..Len(b) : b[i] \in Submits

AfterCall(b) ==
  IF turns >= MaxTurns THEN IF HasSubmit(b) THEN "execute_tools" ELSE "END"
  ELSE IF "reflection" \in profile THEN "reflection_node" ELSE "execute_tools"

(* The call succeeds with tool uses, or with text alone, which ends the    *)
(* run whatever max_stalls says.                                           *)
CallLLM ==
  /\ node = "call_llm" /\ ~abort
  /\ \E request \in Requests(messages) : Accepted(request)
  /\ calls' = calls + 1
  /\ \/ /\ ~Forced
        /\ messages' = Append(messages, Text)
        /\ node' = "END"
        /\ UNCHANGED <<asked, batches>>
     \/ \E b \in Batches :
          /\ batches' = batches + 1
          /\ messages' = Append(messages, Uses(batches + 1, Len(b)))
          /\ asked' = b
          /\ node' = AfterCall(b)
  /\ UNCHANGED <<profile, batch, outcome, counters, review, outside, effects>>

(* A second opinion on the tool uses about to run. Its note waits for      *)
(* execute_tools; a failed or refused review is dropped.                   *)
ReflectionNode ==
  /\ node = "reflection_node"
  /\ node' = "execute_tools"
  /\ \/ /\ Accepted(ReviewHistory(messages))
        /\ selfReview' = TRUE
        /\ unsatisfied' = unsatisfied + 1
     \/ UNCHANGED <<selfReview, unsatisfied>>
  /\ UNCHANGED <<profile, history, batch, outcome, counters, confident,
                 outside, ghosts, effects>>

-----------------------------------------------------------------------------
(* execute_tools: one tool use per step of the graph.                      *)

Due == IF pending # <<>> THEN pending ELSE asked
UseId == <<IF pending # <<>> THEN origin ELSE messages[Len(messages)].batch,
           buffered + 1>>

LoopBack == IF "replanning" \in profile THEN "replan_node" ELSE "call_llm"
(* Slip: as if critique and rejected submissions had no limit on turns.    *)
AfterBatchOnAndOn(sub, t) ==
  IF sub THEN IF "critique" \in profile THEN "critique_node" ELSE "END"
  ELSE LoopBack
AfterBatch(sub, t) ==
  IF sub THEN IF "critique" \in profile THEN "critique_node" ELSE "END"
  ELSE IF t >= MaxTurns THEN "END" ELSE LoopBack

(* Slip: as if only the last use of a batch decided about the human.       *)
AnswerLast(sub, needsHuman, used) ==
  /\ submitted' = sub
  /\ IF Len(Due) > 1
     THEN /\ pending' = Tail(Due)
          /\ origin' = UseId[1]
          /\ buffered' = buffered + 1
          /\ ran' = used
          /\ UNCHANGED <<node, messages, asked, turns, approval, selfReview,
                         batchApproval>>
     ELSE /\ pending' = <<>> /\ origin' = 0 /\ buffered' = 0
          /\ batchApproval' = FALSE
          /\ messages' = Append(messages, Results(UseId[1], buffered + 1))
          /\ asked' = <<>>
          /\ turns' = turns + 1
          /\ approval' = (needsHuman /\ sub)
          /\ selfReview' = FALSE
          /\ ran' = {}
          /\ node' = AfterBatch(sub, turns + 1)

(* The use is answered; the answers go back in one message, the            *)
(* reviewer's note after them, when the batch is drained.                  *)
Answer(sub, needsHuman, used) ==
  LET human == batchApproval \/ (needsHuman /\ sub) IN
  /\ submitted' = sub
  /\ IF Len(Due) > 1
     THEN /\ pending' = Tail(Due)
          /\ origin' = UseId[1]
          /\ buffered' = buffered + 1
          /\ batchApproval' = human
          /\ ran' = used
          /\ UNCHANGED <<node, messages, asked, turns, approval, selfReview>>
     ELSE /\ pending' = <<>> /\ origin' = 0 /\ buffered' = 0
          /\ batchApproval' = FALSE
          /\ messages' = Append(messages, Results(UseId[1], buffered + 1))
          /\ asked' = <<>>
          /\ turns' = turns + 1
          /\ approval' = human
          /\ selfReview' = FALSE
          /\ ran' = {}
          /\ node' = AfterBatch(sub, turns + 1)

(* A use the policy denies, a guarded tool before its check, an            *)
(* unadvertised name, or a strict submission that does not match: no       *)
(* handler runs.                                                           *)
RefuseTool ==
  /\ node = "execute_tools"
  /\ Answer(submitted, HumanApproval, ran)
  /\ UNCHANGED <<profile, status, result, retries, gaps, replans, unsatisfied,
                 confident, outside, ghosts, verified, twice, drift, stray>>

MayRun(t) == t \in Guarded => verified

(* The handler starts, n times when an attempt of a harmless tool is       *)
(* retried.                                                                *)
Start(t, n) ==
  /\ n \in 1..(IF t \in Hazardous THEN 1 ELSE MaxAttempts)
  /\ twice' = (twice \/ (t \in Hazardous /\ (n > 1 \/ UseId \in ran)))

(* Slip: as if a failed edit left the files as they were.                  *)
VerifyOnSuccess(t, ok, late) ==
  /\ verified' = IF ok /\ t \in Edits THEN FALSE
                 ELSE verified \/ (ok /\ t \in Checks)
  /\ drift' = IF t \in Edits THEN "edited"
              ELSE IF ok /\ t \in Checks THEN "none" ELSE drift
  /\ stray' = (stray \/ late)

(* Checks set the verification flag when they succeed; edits clear it      *)
(* whether they succeed or not. A timed-out edit goes on in its thread.    *)
Verify(t, ok, late) ==
  /\ verified' = IF t \in Edits THEN FALSE ELSE verified \/ (ok /\ t \in Checks)
  /\ drift' = IF t \in Edits THEN "edited"
              ELSE IF ok /\ t \in Checks THEN "none" ELSE drift
  /\ stray' = (stray \/ late)

(* A submission takes over the verified flag, whatever the model claimed,  *)
(* and asks for a human when its quality gate fails; a question to the     *)
(* user ends the run the same way.                                         *)
Collect(t, gate) ==
  IF t \in Submits
  THEN result' = [result EXCEPT !.claim = verified',
                                !.review = HumanApproval \/ ~gate]
  ELSE IF t \in Clarifies
  THEN result' = [result EXCEPT !.review = TRUE]
  ELSE UNCHANGED result

RunTool ==
  /\ node = "execute_tools"
  /\ LET t == Head(Due) IN
     /\ MayRun(t)
     /\ \E ok, gate, late \in BOOLEAN, n \in 1..MaxAttempts :
          /\ late => ~ok /\ t \in Edits
          /\ ~gate => t \in Submits
          /\ Start(t, n)
          /\ Verify(t, ok, late)
          /\ Collect(t, gate)
          /\ Answer(submitted \/ t \in Submits \cup Clarifies,
                    HumanApproval \/ ~gate \/ t \in Clarifies,
                    ran \cup {UseId})
  /\ UNCHANGED <<profile, status, retries, gaps, replans, unsatisfied,
                 confident, outside, ghosts>>

(* The thread of a timed-out edit finishes after all.                      *)
StrayEdit ==
  /\ stray
  /\ stray' = FALSE
  /\ drift' = IF drift = "none" THEN "late" ELSE drift
  /\ UNCHANGED <<control, history, batch, outcome, counters, review, outside,
                 ghosts, verified, ran, twice>>

-----------------------------------------------------------------------------
(* The submission is scored once: accepted, accepted because the review    *)
(* failed or its retries are used up, or sent back.                        *)
AcceptSubmission ==
  /\ node = "critique_node"
  /\ gaps' \in {gaps} \cup (IF Accepted(messages) THEN BOOLEAN ELSE {})
  /\ gaps' /\ ~gaps => retries >= MaxCritiqueRetries
  /\ node' = "END"
  /\ UNCHANGED <<profile, history, batch, outcome, turns, retries, replans,
                 review, outside, ghosts, effects>>

(* The critique finds gaps: the submission is taken back and the loop goes *)
(* on, as often as the retry budget allows.                                *)
SendBack ==
  /\ node = "critique_node"
  /\ Accepted(messages)
  /\ retries < MaxCritiqueRetries
  /\ messages' = Append(messages, User)
  /\ submitted' = FALSE
  /\ retries' = retries + 1
  /\ gaps' \in BOOLEAN
  /\ node' = LoopBack
  /\ UNCHANGED <<profile, asked, batch, status, result, approval, turns,
                 replans, review, outside, ghosts, effects>>

ShouldReplan ==
  /\ replans < MaxReplans
  /\ \/ unsatisfied >= ReflectionLimit
     \/ retries >= CritiqueLimit /\ gaps
     \/ ~confident
     \/ turns >= BlockedLimit /\ ~verified

ReplanNode ==
  /\ node = "replan_node"
  /\ node' = "call_llm"
  /\ IF ShouldReplan
     THEN /\ messages' = Append(messages, User)
          /\ replans' = replans + 1
          /\ confident' \in BOOLEAN
     ELSE UNCHANGED <<messages, replans, confident>>
  /\ UNCHANGED <<profile, asked, batch, outcome, turns, retries, gaps,
                 selfReview, unsatisfied, outside, ghosts, effects>>

-----------------------------------------------------------------------------
(* Slip: as if a run that submitted nothing were left to somebody else.    *)
FinishSubmitted ==
  /\ node = "END"
  /\ node' = "finished"
  /\ row' = IF submitted THEN "completed" ELSE row
  /\ UNCHANGED <<profile, history, batch, outcome, counters, review, abort,
                 resumes, cut, ghosts, effects>>

(* The graph has returned: the row is completed when something was         *)
(* submitted, else failed.                                                 *)
Finish ==
  /\ node = "END"
  /\ node' = "finished"
  /\ row' = IF submitted THEN "completed" ELSE "failed"
  /\ UNCHANGED <<profile, history, batch, outcome, counters, review, abort,
                 resumes, cut, ghosts, effects>>

(* POST /api/tasks/{id}/stop.                                              *)
Stop ==
  /\ ~abort /\ node \notin Stopped
  /\ abort' = TRUE
  /\ UNCHANGED <<control, history, batch, outcome, counters, review, row,
                 resumes, cut, ghosts, effects>>

(* The process dies between two nodes, or in a handler whose result is     *)
(* then never recorded. Its threads die with it.                           *)
Crash ==
  /\ node \notin Stopped /\ resumes < MaxResumes
  /\ node' = "dead"
  /\ stray' = FALSE
  /\ \/ /\ drift' = IF stray /\ drift = "none" THEN "late" ELSE drift
        /\ UNCHANGED <<ran, twice>>
     \/ /\ node = "execute_tools"
        /\ MayRun(Head(Due))
        /\ Start(Head(Due), 1)
        /\ ran' = ran \cup {UseId}
        /\ drift' = IF Head(Due) \in Edits THEN "edited" ELSE drift
  /\ UNCHANGED <<profile, history, batch, outcome, counters, review, outside,
                 ghosts, verified>>

(* Slip: as a bare continuation would: on at the node that was             *)
(* interrupted.                                                            *)
ResumeInPlace ==
  /\ node = "dead" /\ resumes < MaxResumes
  /\ node' = IF asked # <<>> THEN "execute_tools" ELSE EntryPoint
  /\ row' = "running"
  /\ resumes' = resumes + 1
  /\ calls' = 0
  /\ UNCHANGED <<profile, history, batch, outcome, counters, review, abort,
                 cut, batches, effects>>

(* The run is started again under its thread id, by the orphan sweep after *)
(* a crash or by a user: the checkpoint with one more user message, at the *)
(* entry point, in the same row.                                           *)
Resume ==
  /\ node \in Stopped /\ resumes < MaxResumes
  /\ "adapter" \notin profile
  /\ node' = EntryPoint
  /\ messages' = Append(messages, User)
  /\ asked' = <<>>
  /\ submitted' = FALSE /\ status' = "running" /\ approval' = FALSE
  /\ batchApproval' = FALSE
  /\ row' = "running"
  /\ abort' \in IF node = "dead" THEN {abort, FALSE} ELSE {FALSE}
  /\ resumes' = resumes + 1
  /\ cut' = (cut \/ messages[Len(messages)].kind = "uses")
  /\ calls' = 0
  /\ UNCHANGED <<profile, pending, origin, buffered, result, counters, review,
                 batches, effects>>

(* The checkpoint is gone with the process that kept it, or there was      *)
(* none: a new run under the old thread id.                                *)
StartOver ==
  /\ node \in Stopped /\ resumes < MaxResumes
  /\ node' = EntryPoint
  /\ messages' = <<User>> /\ asked' = <<>>
  /\ pending' = <<>> /\ origin' = 0 /\ buffered' = 0 /\ batchApproval' = FALSE
  /\ turns' = 0 /\ retries' = 0 /\ gaps' = FALSE /\ replans' = 0
  /\ submitted' = FALSE /\ status' = "running" /\ result' = NoResult
  /\ approval' = FALSE /\ verified' = FALSE
  /\ selfReview' = FALSE /\ unsatisfied' = 0 /\ confident' = TRUE
  /\ row' = "running"
  /\ abort' \in IF node = "dead" THEN {abort, FALSE} ELSE {FALSE}
  /\ resumes' = resumes + 1
  /\ calls' = 0
  /\ cut' = FALSE
  /\ UNCHANGED <<profile, batches, ran, twice, drift, stray>>

-----------------------------------------------------------------------------
GraphStep ==
  \/ Adapter \/ PlannerNode \/ MemoryHookNode
  \/ StopBeforeCall \/ CallFails \/ CallLLM
  \/ ReflectionNode \/ RefuseTool \/ RunTool
  \/ AcceptSubmission \/ SendBack \/ ReplanNode \/ Finish

Next == GraphStep \/ StrayEdit \/ Stop \/ Crash \/ Resume \/ StartOver

Spec == Init /\ [][Next]_vars

(* A node that can run does run: every call it waits for has a time limit, *)
(* the HTTP clients' or the tool's ceiling.                                *)
FairSpec == Spec /\ WF_vars(GraphStep)
-----------------------------------------------------------------------------
TypeOK ==
  /\ node \in Nodes \cup Ended \cup Stopped
  /\ profile \in Profiles
  /\ messages \in Seq(Message) /\ asked \in Seq(Tools)
  /\ pending \in Seq(Tools) /\ origin \in Nat /\ buffered \in Nat
  /\ batchApproval \in BOOLEAN
  /\ turns \in Nat /\ retries \in 0..MaxCritiqueRetries /\ gaps \in BOOLEAN
  /\ replans \in 0..MaxReplans
  /\ submitted \in BOOLEAN /\ status \in {"running", "stopped", "blocked", "completed"}
  /\ result \in [claim : BOOLEAN, review : BOOLEAN]
  /\ approval \in BOOLEAN /\ verified \in BOOLEAN
  /\ selfReview \in BOOLEAN /\ unsatisfied \in Nat /\ confident \in BOOLEAN
  /\ abort \in BOOLEAN /\ row \in {"running", "completed", "failed"}
  /\ resumes \in 0..MaxResumes /\ cut \in BOOLEAN
  /\ calls \in Nat /\ batches \in Nat
  /\ ran \subseteq Nat \X Nat /\ twice \in BOOLEAN
  /\ drift \in {"none", "late", "edited"} /\ stray \in BOOLEAN

(* Whatever was condensed, reviewed, replanned or sent back, the API is    *)
(* never handed a tool use without its result, unless the run was resumed  *)
(* in the middle of a batch.                                               *)
RequestsPaired ==
  ~cut =>
    /\ node = "call_llm" => \A h \in Requests(messages) : Accepted(h)
    /\ node = "reflection_node" => Accepted(ReviewHistory(messages))
    /\ node = "critique_node" => Accepted(messages)

(* A resume in the middle of a batch leaves tool uses without results in   *)
(* the conversation, which the API refuses, and keeps what remains of the  *)
(* batch. Condensing keeps the last four messages, and every resume adds   *)
(* one: until the fourth the cut is in whatever the API is sent.           *)
CutInSight == resumes <= 3

(* A tool with side effects runs once for each time the model asked for    *)
(* it: no retry, no second pass over a batch and no resume repeats it.     *)
HazardousOnce == CutInSight => ~twice

(* max_turns bounds the paid calls of a run: each critique retry may add   *)
(* one, and nothing else does.                                             *)
CallsBounded == calls <= MaxTurns + MaxCritiqueRetries

(* A submission whose quality gate asked for a human leaves the run        *)
(* flagged for one, whatever else its batch held.                          *)
ApprovalRaised ==
  node \in {"END", "finished"} /\ submitted /\ status = "running"
    => (result.review => approval)

(* A result claims its check only if no edit was started since the check   *)
(* succeeded; an edit given up as timed out may still land later.          *)
ClaimsAreFresh ==
  [][RunTool /\ Head(Due) \in Submits /\ CutInSight
       => (result'.claim => drift' # "edited")]_vars

(* A started run comes to an end, and leaves a settled row unless its      *)
(* process died, or it was the loop of another provider that returned.     *)
Unsettled == node = "finished" /\ "adapter" \in profile

Terminates == []<>(node = "dead" \/ row # "running" \/ Unsettled)

(* The row of a run that ended does not "sit in running forever".          *)
RowSettles == []<>(node = "dead" \/ row # "running")

(* How many nodes may follow before the next call, or before the end.      *)
Place ==
  CASE node = "adapter" -> 9
    [] node = "planner_node" -> 8 [] node = "memory_hook_node" -> 7
    [] node = "reflection_node" -> 6 [] node = "execute_tools" -> 5
    [] node = "critique_node" -> 4 [] node = "replan_node" -> 3
    [] node = "call_llm" -> 2 [] node = "END" -> 1 [] OTHER -> 0

(* Every node that runs makes a paid call, of which CallsBounded leaves so *)
(* many, or comes nearer to the next call or to the end: planning, review, *)
(* refused tools, critique and replanning are no loops of their own.       *)
EachNodeCounts ==
  [][ GraphStep =>
        \/ calls' > calls
        \/ calls' = calls /\ Place' < Place
        \/ calls' = calls /\ Place' = Place /\ Len(Due)' < Len(Due) ]_vars

(* Started again after a crash, the run can go on: the claim of the        *)
(* comment that resuming lets the model look again before it acts.         *)
ResumeReassesses ==
  node = "call_llm" => \A h \in Requests(messages) : Accepted(h)

(* However often the run was started again: the comment says it is a       *)
(* hazard to go on blindly with the tool call that was in flight.          *)
NothingGoesOnBlindly == ~twice
=============================================================================
