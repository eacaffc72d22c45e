-------------------------- MODULE AgentLoop_proofs --------------------------
(* Proofs about one agent run.                                             *)
EXTENDS AgentLoop, SequenceTheorems, TLAPS

Last == messages[Len(messages)]

(* A call of the model comes next, tool uses wait, the graph is over.      *)
Pre == {"adapter", "planner_node", "memory_hook_node", "call_llm",
        "replan_node"}
Asking == {"reflection_node", "execute_tools"}

(***************************************************************************)
(* asked is what the last message asks for, and only where a batch is at   *)
(* work or was given up; pending and the buffer belong to one batch.       *)
(***************************************************************************)
Shape ==
  /\ messages # <<>>
  /\ Last.kind = "uses" <=> asked # <<>>
  /\ asked # <<>> => Last = Uses(batches, Len(asked)) /\ batches > 0
  /\ node \in Asking => asked # <<>>
  /\ node \in Pre \cup {"critique_node", "raised"} => asked = <<>>
  /\ node \in {"critique_node", "replan_node"} => pending = <<>>
  /\ pending = <<>> => origin = 0 /\ buffered = 0
  /\ pending # <<>> => origin \in 1..batches

(***************************************************************************)
(* What a stop in the middle of a batch leaves behind: a rest of the batch *)
(* in the checkpoint, or a check that no longer covers the files. Either   *)
(* goes with tool uses that have no result, near the end of the            *)
(* conversation.                                                           *)
(***************************************************************************)
Outdated == verified /\ drift = "edited"

Exposed ==
  /\ cut /\ node \notin {"critique_node", "replan_node"} \cup Asking
  /\ \E k \in 1..(Len(messages) - 1) :
       /\ messages[k].kind = "uses" /\ messages[k + 1].kind = "user"
       /\ Len(messages) - k <= resumes

Torn ==
  ~cut \/ CutInSight =>
    /\ asked # <<>> /\ pending # <<>> =>
         origin = batches /\ buffered + Len(pending) = Len(asked)
    /\ asked = <<>> /\ (pending # <<>> \/ Outdated) => Exposed
    /\ asked # <<>> /\ node # "dead" => ~Outdated
    /\ asked # <<>> /\ pending # <<>> => node \in {"execute_tools", "dead"}

(* No use of the batch that is left to run has been handed to a handler.   *)
Fresh ==
  /\ \A u \in ran : u[1] \in 1..batches
  /\ CutInSight =>
       /\ ~twice
       /\ node \in Asking => \A u \in ran : u[1] = batches => u[2] <= buffered

(* A call that has not been made is paid for by a turn or by a retry.      *)
Counted ==
  /\ node = "adapter" => calls = 0
  /\ node \in Pre => calls < MaxTurns + retries /\ calls <= turns
  /\ node \in Asking => calls <= turns + 1
  /\ node = "critique_node" => calls <= turns
  /\ calls <= MaxTurns + retries

Flagged ==
  /\ submitted => node \in {"execute_tools", "critique_node", "END", "finished", "dead"}
  /\ submitted /\ result.review =>
       /\ node = "execute_tools" => batchApproval
       /\ node = "critique_node" => approval
       /\ node \in {"END", "finished"} /\ status = "running" => approval

(* Uses without their results are the last message, or the run was cut.    *)
Paired == ~cut => Accepted(ReviewHistory(messages))

IInv == TypeOK /\ Shape /\ Torn /\ Fresh /\ Counted /\ Flagged /\ Paired
-----------------------------------------------------------------------------
(* Groups of variables are always expanded.                                *)
USE DEF control, history, batch, outcome, counters, review, outside, ghosts,
        effects

(* The type invariant in parts: where the run is and its lists, its        *)
(* numbers, and its flags.                                                 *)
ListsTyped ==
  /\ node \in Nodes \cup Ended \cup Stopped /\ profile \in Profiles
  /\ messages \in Seq(Message) /\ asked \in Seq(Tools) /\ pending \in Seq(Tools)

NumbersTyped ==
  /\ origin \in Nat /\ buffered \in Nat /\ turns \in Nat
  /\ retries \in 0..MaxCritiqueRetries /\ replans \in 0..MaxReplans
  /\ unsatisfied \in Nat /\ resumes \in 0..MaxResumes
  /\ calls \in Nat /\ batches \in Nat /\ ran \subseteq Nat \X Nat

FlagsTyped ==
  /\ batchApproval \in BOOLEAN /\ gaps \in BOOLEAN /\ submitted \in BOOLEAN
  /\ status \in {"running", "stopped", "blocked", "completed"}
  /\ result \in [claim : BOOLEAN, review : BOOLEAN]
  /\ approval \in BOOLEAN /\ verified \in BOOLEAN /\ selfReview \in BOOLEAN
  /\ confident \in BOOLEAN /\ abort \in BOOLEAN
  /\ row \in {"running", "completed", "failed"}
  /\ cut \in BOOLEAN /\ twice \in BOOLEAN
  /\ drift \in {"none", "late", "edited"} /\ stray \in BOOLEAN

LEMMA TypeParts == TypeOK <=> ListsTyped /\ NumbersTyped /\ FlagsTyped
BY DEF TypeOK, ListsTyped, NumbersTyped, FlagsTyped

LEMMA MessageKinds ==
  /\ User \in Message /\ Text \in Message
  /\ \A b, n \in Nat : Uses(b, n) \in Message /\ Results(b, n) \in Message
BY DEF User, Text, Uses, Results, Message

LEMMA Appended ==
  ASSUME TypeOK, NEW m \in Message, messages' = Append(messages, m)
  PROVE  /\ messages' \in Seq(Message) /\ messages' # <<>>
         /\ Len(messages') = Len(messages) + 1
         /\ Last' = m
         /\ \A i \in 1..Len(messages) : messages'[i] = messages[i]
BY AppendProperties DEF TypeOK, Last

LEMMA LastIsOne ==
  ASSUME TypeOK, messages # <<>>
  PROVE  Last \in Message /\ Len(messages) \in Nat \ {0}
BY DEF TypeOK, Last

(* The tool uses that are due, where tools run.                            *)
LEMMA DueType ==
  ASSUME TypeOK, Shape, node = "execute_tools"
  PROVE  /\ Due \in Seq(Tools) /\ Due # <<>> /\ Head(Due) \in Tools
         /\ Tail(Due) \in Seq(Tools) /\ Len(Due) \in Nat \ {0}
         /\ Len(Tail(Due)) = Len(Due) - 1 /\ (Len(Due) > 1 \/ Len(Due) = 1)
         /\ UseId[1] \in Nat /\ UseId[2] = buffered + 1 /\ UseId \in Nat \X Nat
<1>1. Due \in Seq(Tools) /\ Due # <<>>
  BY DEF Due, TypeOK, Shape, Asking
<1>2. messages[Len(messages)].batch \in Nat
  BY LastIsOne DEF Shape, Last, Message
<1>3. origin \in Nat /\ buffered \in Nat
  BY DEF TypeOK
<1>4. UseId[1] \in Nat /\ UseId[2] = buffered + 1 /\ UseId \in Nat \X Nat
  BY <1>2, <1>3 DEF UseId
<1>5. /\ Head(Due) \in Tools /\ Tail(Due) \in Seq(Tools)
      /\ Len(Due) \in Nat \ {0} /\ Len(Tail(Due)) = Len(Due) - 1
  BY <1>1
<1>6. Len(Due) > 1 \/ Len(Due) = 1
  <2> DEFINE n == Len(Due)
  <2>1. n \in Nat \ {0}
    BY <1>5
  <2> HIDE DEF n
  <2>2. n > 1 \/ n = 1
    BY <2>1
  <2>. QED
    BY <2>2 DEF n
<1>. QED
  BY <1>1, <1>4, <1>5, <1>6

LEMMA BatchesType ==
  ASSUME NEW b \in Batches
  PROVE  b \in Seq(Tools) /\ b # <<>> /\ Len(b) \in 1..MaxBatch
<1>1. PICK n \in 1..MaxBatch : b \in [1..n -> IF Forced THEN Submits ELSE Tools]
  BY DEF Batches
<1>2. n \in Nat /\ n >= 1 /\ b \in [1..n -> Tools]
  BY <1>1, ToolAssumption, LimitAssumption
<1>. QED
  BY <1>2

-----------------------------------------------------------------------------
LEMMA EntryIsPre == EntryPoint \in Pre /\ EntryPoint # "replan_node"
BY DEF EntryPoint, Pre

LEMMA LoopBackIsPre == LoopBack \in {"replan_node", "call_llm"}
BY DEF LoopBack

LEMMA AnswerType ==
  ASSUME TypeOK, Shape, node = "execute_tools",
         NEW sub \in BOOLEAN, NEW human \in BOOLEAN,
         NEW used \in SUBSET (Nat \X Nat), Answer(sub, human, used)
  PROVE  /\ node' \in Nodes \cup Ended
         /\ messages' \in Seq(Message) /\ asked' \in Seq(Tools)
         /\ pending' \in Seq(Tools) /\ origin' \in Nat /\ buffered' \in Nat
         /\ batchApproval' \in BOOLEAN /\ turns' \in Nat /\ submitted' \in BOOLEAN
         /\ approval' \in BOOLEAN /\ selfReview' \in BOOLEAN
         /\ ran' \in SUBSET (Nat \X Nat)
<1>1. CASE Len(Due) > 1
  <2>1. /\ node' \in Nodes \cup Ended /\ messages' \in Seq(Message)
        /\ asked' \in Seq(Tools) /\ pending' \in Seq(Tools)
    BY <1>1, DueType DEF Answer, TypeOK, Nodes
  <2>2. origin' \in Nat /\ buffered' \in Nat /\ turns' \in Nat
    BY <1>1, DueType DEF Answer, TypeOK
  <2>3. batchApproval' \in BOOLEAN
    BY <1>1 DEF Answer, TypeOK
  <2>4. approval' \in BOOLEAN /\ selfReview' \in BOOLEAN
    BY <1>1 DEF Answer, TypeOK
  <2>. QED
    BY <1>1, <2>1, <2>2, <2>3, <2>4 DEF Answer
<1>2. CASE ~(Len(Due) > 1)
  <2>1. Results(UseId[1], buffered + 1) \in Message
    BY DueType, MessageKinds DEF TypeOK
  <2>2. messages' \in Seq(Message)
    BY <1>2, <2>1, Appended DEF Answer
  <2>3. AfterBatch(sub, turns + 1) \in Nodes \cup Ended
    BY LoopBackIsPre DEF AfterBatch, Nodes, Ended
  <2>4. /\ node' \in Nodes \cup Ended /\ asked' = <<>> /\ pending' = <<>>
        /\ origin' = 0 /\ buffered' = 0 /\ turns' = turns + 1
        /\ batchApproval' = FALSE /\ selfReview' = FALSE /\ ran' = {}
    BY <1>2, <2>3 DEF Answer
  <2>5. approval' \in BOOLEAN
    BY <1>2 DEF Answer, TypeOK
  <2>6. turns' \in Nat
    BY <2>4 DEF TypeOK
  <2>7. submitted' \in BOOLEAN /\ batchApproval' \in BOOLEAN /\ selfReview' \in BOOLEAN
    BY <2>4 DEF Answer
  <2>8. asked' \in Seq(Tools) /\ pending' \in Seq(Tools) /\ ran' \in SUBSET (Nat \X Nat)
    BY <2>4
  <2>. QED
    BY <2>2, <2>4, <2>5, <2>6, <2>7, <2>8
<1>. QED
  BY <1>1, <1>2

(* A use that runs is answered; so is one that is refused.                 *)
LEMMA RunAnswers ==
  ASSUME TypeOK, Shape, RunTool
  PROVE  \E sub \in BOOLEAN, human \in BOOLEAN, used \in SUBSET (Nat \X Nat) :
           Answer(sub, human, used)
<1>1. PICK gate \in BOOLEAN :
        Answer(submitted \/ Head(Due) \in Submits \cup Clarifies,
               HumanApproval \/ ~gate \/ Head(Due) \in Clarifies,
               ran \cup {UseId})
  BY DEF RunTool
<1>2. ran \cup {UseId} \in SUBSET (Nat \X Nat)
  BY DueType DEF RunTool, TypeOK
<1>3. /\ (submitted \/ Head(Due) \in Submits \cup Clarifies) \in BOOLEAN
      /\ (HumanApproval \/ ~gate \/ Head(Due) \in Clarifies) \in BOOLEAN
  OBVIOUS
<1>. QED
  BY <1>1, <1>2, <1>3

LEMMA InitType == Init => TypeOK
<1> SUFFICES ASSUME Init PROVE TypeOK
  OBVIOUS
<1>1. ListsTyped
  BY EntryIsPre, MessageKinds DEF Init, ListsTyped, Pre, Nodes
<1>2. NumbersTyped
  BY LimitAssumption DEF Init, NumbersTyped
<1>3. FlagsTyped
  BY DEF Init, FlagsTyped, NoResult
<1>. QED
  BY <1>1, <1>2, <1>3, TypeParts

LEMMA ListsKeep ==
  ASSUME TypeOK, Shape, Next
  PROVE  ListsTyped'
<1> USE TypeParts DEF ListsTyped
<1>1. CASE PlannerNode \/ MemoryHookNode \/ ReflectionNode
  BY <1>1 DEF PlannerNode, MemoryHookNode, ReflectionNode, Nodes
<1>2. CASE StopBeforeCall \/ CallFails \/ AcceptSubmission \/ Finish
  BY <1>2 DEF StopBeforeCall, CallFails, AcceptSubmission, Finish, Ended, Stopped
<1>3. CASE CallLLM
  <2>1. CASE messages' = Append(messages, Text) /\ node' = "END" /\ UNCHANGED asked
    BY <1>3, <2>1, Appended, MessageKinds DEF CallLLM, Ended
  <2>2. ASSUME NEW b \in Batches,
               messages' = Append(messages, Uses(batches + 1, Len(b))),
               asked' = b, node' = AfterCall(b)
        PROVE  ListsTyped'
    <3>1. b \in Seq(Tools)
      BY BatchesType
    <3>2. Uses(batches + 1, Len(b)) \in Message
      BY <3>1, MessageKinds DEF NumbersTyped
    <3>3. node' \in Nodes \cup Ended
      BY <2>2 DEF AfterCall, Nodes, Ended
    <3>. QED
      BY <1>3, <2>2, <3>1, <3>2, <3>3, Appended DEF CallLLM
  <2>. QED
    BY <1>3, <2>1, <2>2 DEF CallLLM
<1>4. CASE RefuseTool
  <2>1. ran \in SUBSET (Nat \X Nat) /\ submitted \in BOOLEAN /\ HumanApproval \in BOOLEAN
    BY LimitAssumption DEF NumbersTyped, FlagsTyped
  <2>. QED
    BY <1>4, <2>1, AnswerType DEF RefuseTool
<1>5. CASE RunTool
  <2>1. PICK sub \in BOOLEAN, human \in BOOLEAN, used \in SUBSET (Nat \X Nat) :
          Answer(sub, human, used)
    BY <1>5, RunAnswers
  <2>. QED
    BY <1>5, <2>1, AnswerType DEF RunTool
<1>6. CASE SendBack \/ ReplanNode
  BY <1>6, Appended, MessageKinds, LoopBackIsPre DEF SendBack, ReplanNode, Nodes
<1>7. CASE StrayEdit \/ Stop
  BY <1>7 DEF StrayEdit, Stop
<1>8. CASE Crash
  BY <1>8 DEF Crash, Stopped
<1>9. CASE Resume
  BY <1>9, Appended, MessageKinds, EntryIsPre DEF Resume, Pre, Nodes
<1>10. CASE StartOver
  BY <1>10, MessageKinds, EntryIsPre DEF StartOver, Pre, Nodes
<1>11. CASE Adapter
  BY <1>11 DEF Adapter, Stopped
<1>. QED
  BY <1>11, <1>1, <1>2, <1>3, <1>4, <1>5, <1>6, <1>7, <1>8, <1>9, <1>10 DEF Next, GraphStep

LEMMA NumbersKeep ==
  ASSUME TypeOK, Shape, Next
  PROVE  NumbersTyped'
<1> USE TypeParts, LimitAssumption DEF NumbersTyped
<1>1. CASE PlannerNode \/ MemoryHookNode \/ ReflectionNode
  BY <1>1 DEF PlannerNode, MemoryHookNode, ReflectionNode
<1>2. CASE StopBeforeCall \/ AcceptSubmission \/ Finish
  BY <1>2 DEF StopBeforeCall, AcceptSubmission, Finish
<1>3. CASE CallFails \/ CallLLM
  <2>1. calls' \in Nat /\ batches' \in Nat
    BY <1>3, SMTT(30) DEF CallFails, CallLLM
  <2>. QED
    BY <1>3, <2>1 DEF CallFails, CallLLM
<1>4. CASE RefuseTool
  <2>1. ran \in SUBSET (Nat \X Nat) /\ submitted \in BOOLEAN /\ HumanApproval \in BOOLEAN
    BY DEF FlagsTyped
  <2>. QED
    BY <1>4, <2>1, AnswerType DEF RefuseTool
<1>5. CASE RunTool
  <2>1. PICK sub \in BOOLEAN, human \in BOOLEAN, used \in SUBSET (Nat \X Nat) :
          Answer(sub, human, used)
    BY <1>5, RunAnswers
  <2>. QED
    BY <1>5, <2>1, AnswerType DEF RunTool
<1>6. CASE SendBack
  <2>1. retries' \in 0..MaxCritiqueRetries
    BY <1>6 DEF SendBack
  <2>. QED
    BY <1>6, <2>1 DEF SendBack
<1>7. CASE ReplanNode
  <2>1. replans' \in 0..MaxReplans
    BY <1>7, SMTT(30) DEF ReplanNode, ShouldReplan
  <2>. QED
    BY <1>7, <2>1 DEF ReplanNode
<1>8. CASE StrayEdit \/ Stop
  BY <1>8 DEF StrayEdit, Stop
<1>9. CASE Crash
  <2>1. ran' \subseteq Nat \X Nat
    BY <1>9, DueType DEF Crash
  <2>. QED
    BY <1>9, <2>1 DEF Crash
<1>10. CASE Resume
  <2>1. resumes' \in 0..MaxResumes
    BY <1>10 DEF Resume
  <2>. QED
    BY <1>10, <2>1 DEF Resume
<1>11. CASE StartOver
  <2>1. resumes' \in 0..MaxResumes
    BY <1>11 DEF StartOver
  <2>. QED
    BY <1>11, <2>1 DEF StartOver
<1>12. CASE Adapter
  <2>1. calls' \in Nat
    BY <1>12 DEF Adapter
  <2>. QED
    BY <1>12, <2>1 DEF Adapter
<1>. QED
  BY <1>12, <1>1, <1>2, <1>4, <1>5, <1>6, <1>8, <1>9, <1>10, <1>3, <1>7,
     <1>11 DEF Next, GraphStep

LEMMA FlagsKeep ==
  ASSUME TypeOK, Shape, Next
  PROVE  FlagsTyped'
<1> USE TypeParts DEF FlagsTyped
<1>1. CASE PlannerNode \/ MemoryHookNode
  BY <1>1 DEF PlannerNode, MemoryHookNode
<1>2. CASE ReflectionNode
  <2>1. selfReview' \in BOOLEAN
    BY <1>2 DEF ReflectionNode
  <2>. QED
    BY <1>2, <2>1 DEF ReflectionNode
<1>3. CASE StopBeforeCall
  BY <1>3 DEF StopBeforeCall
<1>4. CASE CallFails \/ CallLLM
  BY <1>4 DEF CallFails, CallLLM
<1>5. CASE RefuseTool
  <2>1. ran \in SUBSET (Nat \X Nat) /\ submitted \in BOOLEAN /\ HumanApproval \in BOOLEAN
    BY LimitAssumption DEF NumbersTyped
  <2>. QED
    BY <1>5, <2>1, AnswerType DEF RefuseTool
<1>6. CASE RunTool
  <2>1. PICK sub \in BOOLEAN, human \in BOOLEAN, used \in SUBSET (Nat \X Nat) :
          Answer(sub, human, used)
    BY <1>6, RunAnswers
  <2>2. PICK ok \in BOOLEAN, gate \in BOOLEAN, late \in BOOLEAN, n \in 1..MaxAttempts :
          /\ Start(Head(Due), n) /\ Verify(Head(Due), ok, late)
          /\ Collect(Head(Due), gate)
    BY <1>6 DEF RunTool
  <2>3. /\ twice' \in BOOLEAN /\ verified' \in BOOLEAN /\ stray' \in BOOLEAN
        /\ drift' \in {"none", "late", "edited"}
    BY <2>2 DEF Start, Verify
  <2>4. result' \in [claim : BOOLEAN, review : BOOLEAN]
    BY <2>2, <2>3 DEF Collect
  <2>. QED
    BY <1>6, <2>1, <2>3, <2>4, AnswerType DEF RunTool
<1>7. CASE AcceptSubmission \/ SendBack
  <2>1. submitted' \in BOOLEAN /\ gaps' \in BOOLEAN
    BY <1>7 DEF AcceptSubmission, SendBack
  <2>. QED
    BY <1>7, <2>1 DEF AcceptSubmission, SendBack
<1>8. CASE ReplanNode
  BY <1>8 DEF ReplanNode
<1>9. CASE Finish
  BY <1>9 DEF Finish
<1>10. CASE StrayEdit
  <2>1. drift' \in {"none", "late", "edited"} /\ stray' \in BOOLEAN
    BY <1>10 DEF StrayEdit
  <2>. QED
    BY <1>10, <2>1 DEF StrayEdit
<1>11. CASE Stop
  BY <1>11 DEF Stop
<1>12. CASE Crash
  <2>1. drift' \in {"none", "late", "edited"} /\ stray' \in BOOLEAN
    BY <1>12 DEF Crash
  <2>2. twice' \in BOOLEAN
    BY <1>12 DEF Crash, Start
  <2>. QED
    BY <1>12, <2>1, <2>2 DEF Crash
<1>13. CASE Resume
  BY <1>13 DEF Resume
<1>14. CASE StartOver
  BY <1>14 DEF StartOver, NoResult
<1>15. CASE Adapter
  <2>1. submitted' \in BOOLEAN
    BY <1>15 DEF Adapter
  <2>2. status' \in {"running", "stopped", "blocked", "completed"}
    BY <1>15 DEF Adapter
  <2>3. result' \in [claim : BOOLEAN, review : BOOLEAN]
    <3>1. NoResult \in [claim : BOOLEAN, review : BOOLEAN]
      BY DEF NoResult
    <3>2. [claim : BOOLEAN, review : {FALSE}] \subseteq [claim : BOOLEAN, review : BOOLEAN]
      OBVIOUS
    <3>3. result' \in [claim : BOOLEAN, review : {FALSE}] \union {NoResult, result}
      BY <1>15 DEF Adapter
    <3>. QED
      BY <3>1, <3>2, <3>3
  <2>4. row' \in {"running", "completed", "failed"}
    BY <1>15 DEF Adapter
  <2>. QED
    BY <1>15, <2>1, <2>2, <2>3, <2>4 DEF Adapter
<1>. QED
  BY <1>15, <1>1, <1>2, <1>3, <1>4, <1>5, <1>6, <1>7, <1>8, <1>9, <1>10, <1>11, <1>12,
     <1>13, <1>14 DEF Next, GraphStep

LEMMA TypeKeeps ==
  ASSUME TypeOK, Shape, [Next]_vars
  PROVE  TypeOK'
<1>1. CASE Next
  <2>1. ListsTyped' /\ NumbersTyped' /\ FlagsTyped'
    BY <1>1, ListsKeep, NumbersKeep, FlagsKeep
  <2>. QED
    BY <2>1 DEF TypeOK, ListsTyped, NumbersTyped, FlagsTyped
<1>2. CASE UNCHANGED vars
  BY <1>2 DEF vars, TypeOK
<1>. QED
  BY <1>1, <1>2

-----------------------------------------------------------------------------
(* A step that leaves the conversation and the batch as they are.          *)
LEMMA MoveKeepsShape ==
  ASSUME Shape, UNCHANGED <<messages, asked, pending, origin, buffered, batches>>,
         node' \in Asking => node \in Asking,
         node' \in Pre \cup {"critique_node", "raised"} =>
           node \in Pre \cup {"critique_node", "raised"},
         node' \notin {"critique_node", "replan_node"} \/ node' = node
  PROVE  Shape'
BY DEF Shape, Last

(* What an answer makes of the batch: the rest stays due, or the batch is  *)
(* drained and its answers are the last message.                           *)
LEMMA AnswerMoves ==
  ASSUME TypeOK, Shape, node = "execute_tools", UNCHANGED batches,
         NEW sub, NEW human, NEW used, Answer(sub, human, used)
  PROVE  \/ /\ Len(Due) > 1 /\ UNCHANGED <<node, messages, asked, turns, approval>>
            /\ pending' = Tail(Due) /\ pending' # <<>>
            /\ Len(pending') = Len(Due) - 1
            /\ origin' = UseId[1] /\ origin' \in 1..batches
            /\ buffered' = buffered + 1 /\ ran' = used
         \/ /\ Len(Due) = 1 /\ asked' = <<>> /\ pending' = <<>>
            /\ origin' = 0 /\ buffered' = 0 /\ ran' = {} /\ turns' = turns + 1
            /\ messages' = Append(messages, Results(UseId[1], buffered + 1))
            /\ Results(UseId[1], buffered + 1) \in Message
            /\ node' = AfterBatch(sub, turns + 1)
            /\ node' \in {"critique_node", "END", "replan_node", "call_llm"}
<1>1. UseId[1] \in 1..batches
  BY LastIsOne DEF UseId, Shape, Asking, Last, Uses, TypeOK
<1>2. Len(Due) > 1 => Tail(Due) # <<>> /\ Len(Tail(Due)) = Len(Due) - 1
  <2>1. Len(Due) \in Nat /\ Len(Tail(Due)) = Len(Due) - 1
    BY DueType
  <2>2. Tail(Due) = <<>> => Len(Tail(Due)) = 0
    BY EmptySeq, Zenon
  <2>. QED
    BY <2>1, <2>2
<1>3. Results(UseId[1], buffered + 1) \in Message
  BY DueType, MessageKinds DEF TypeOK
<1>4. AfterBatch(sub, turns + 1) \in {"critique_node", "END", "replan_node", "call_llm"}
  BY LoopBackIsPre DEF AfterBatch
<1>5. CASE Len(Due) > 1
  <2>1. /\ UNCHANGED <<node, messages, asked, turns>> /\ approval' = approval
        /\ pending' = Tail(Due) /\ origin' = UseId[1] /\ buffered' = buffered + 1
        /\ ran' = used
    BY <1>5 DEF Answer
  <2>2. pending' # <<>> /\ Len(pending') = Len(Due) - 1 /\ origin' \in 1..batches
    BY <1>1, <1>2, <1>5, <2>1
  <2>. QED
    BY <1>5, <2>1, <2>2
<1>6. CASE ~(Len(Due) > 1)
  <2>1. Len(Due) = 1
    BY <1>6, DueType, Zenon
  <2>. QED
    BY <1>3, <1>4, <1>6, <2>1 DEF Answer
<1>. QED
  BY <1>5, <1>6

LEMMA AnswerKeepsShape ==
  ASSUME TypeOK, Shape, node = "execute_tools", UNCHANGED batches,
         NEW sub, NEW human, NEW used, Answer(sub, human, used)
  PROVE  Shape'
<1>1. CASE Len(Due) > 1 /\ UNCHANGED <<node, messages, asked>>
           /\ pending' # <<>> /\ origin' \in 1..batches
  BY <1>1 DEF Shape, Last
<1>2. CASE /\ asked' = <<>> /\ pending' = <<>> /\ origin' = 0 /\ buffered' = 0
           /\ messages' = Append(messages, Results(UseId[1], buffered + 1))
           /\ Results(UseId[1], buffered + 1) \in Message
           /\ node' \in {"critique_node", "END", "replan_node", "call_llm"}
  BY <1>2, Appended DEF Shape, Results, Asking
<1>. QED
  BY <1>1, <1>2, AnswerMoves

LEMMA InitShape == Init => Shape
BY EntryIsPre DEF Init, Shape, Last, User, Pre, Asking

LEMMA ShapeKeeps ==
  ASSUME TypeOK, Shape, [Next]_vars
  PROVE  Shape'
<1>1. CASE PlannerNode \/ MemoryHookNode \/ ReflectionNode \/ AcceptSubmission
  BY <1>1, MoveKeepsShape DEF PlannerNode, MemoryHookNode, ReflectionNode,
     AcceptSubmission, Pre, Asking
<1>2. CASE StopBeforeCall \/ CallFails \/ Finish
  BY <1>2, MoveKeepsShape DEF StopBeforeCall, CallFails, Finish, Pre, Asking
<1>3. CASE StrayEdit \/ Stop \/ Crash \/ UNCHANGED vars
  BY <1>3, MoveKeepsShape DEF StrayEdit, Stop, Crash, vars, Pre, Asking
<1>4. CASE CallLLM
  <2>1. asked = <<>> /\ UNCHANGED batch
    BY <1>4 DEF CallLLM, Shape, Pre
  <2>2. CASE messages' = Append(messages, Text) /\ node' = "END" /\ UNCHANGED <<asked, batches>>
    BY <2>1, <2>2, Appended, MessageKinds DEF Shape, Text, Asking, Pre
  <2>3. ASSUME NEW b \in Batches,
               batches' = batches + 1,
               messages' = Append(messages, Uses(batches + 1, Len(b))),
               asked' = b, node' = AfterCall(b)
        PROVE  Shape'
    <3>1. b # <<>> /\ Len(b) \in Nat /\ batches \in Nat
      BY BatchesType DEF TypeOK
    <3>2. Uses(batches + 1, Len(b)) \in Message
      BY <3>1, MessageKinds
    <3>3. node' \in Asking \cup Ended
      BY <2>3 DEF AfterCall, Asking, Ended
    <3>4. Last' = Uses(batches', Len(asked')) /\ messages' # <<>>
      BY <2>3, <3>2, Appended
    <3>. QED
      BY <2>1, <2>3, <3>1, <3>3, <3>4 DEF Shape, Uses, Asking, Ended, Pre
  <2>. QED
    BY <1>4, <2>2, <2>3 DEF CallLLM
<1>5. CASE RefuseTool \/ RunTool
  BY <1>5, AnswerKeepsShape DEF RefuseTool, RunTool
<1>6. CASE SendBack \/ ReplanNode
  <2>1. asked = <<>> /\ pending = <<>> /\ UNCHANGED <<asked, batch, batches>>
    BY <1>6 DEF SendBack, ReplanNode, Shape, Pre
  <2>2. messages' = Append(messages, User) \/ UNCHANGED messages
    BY <1>6 DEF SendBack, ReplanNode
  <2>3. messages' # <<>> /\ Last'.kind # "uses"
    BY <2>1, <2>2, Appended, MessageKinds DEF Shape, User, Last
  <2>4. node' \in Pre
    BY <1>6, LoopBackIsPre DEF SendBack, ReplanNode, Pre
  <2>. QED
    BY <2>1, <2>3, <2>4 DEF Shape, Asking, Pre
<1>7. CASE Resume
  <2>1. messages' # <<>> /\ Last'.kind # "uses"
    BY <1>7, Appended, MessageKinds DEF Resume, User
  <2>2. asked' = <<>> /\ UNCHANGED <<pending, origin, buffered, batches>>
    BY <1>7 DEF Resume
  <2>3. node' \in Pre \ {"replan_node"}
    BY <1>7, EntryIsPre DEF Resume
  <2>. QED
    BY <2>1, <2>2, <2>3 DEF Shape, Asking, Pre
<1>8. CASE StartOver
  BY <1>8, EntryIsPre DEF StartOver, Shape, Last, User, Pre, Asking
<1>9. CASE Adapter
  BY <1>9, MoveKeepsShape DEF Adapter, Pre, Asking
<1>. QED
  BY <1>9, <1>1, <1>2, <1>3, <1>4, <1>5, <1>6, <1>7, <1>8 DEF Next, GraphStep

-----------------------------------------------------------------------------
(* Paid calls.                                                             *)
LEMMA InitCounted == Init => Counted
BY EntryIsPre, LimitAssumption DEF Init, Counted, Pre, Asking

LEMMA AnswerKeepsCounted ==
  ASSUME TypeOK, Shape, Counted, node = "execute_tools",
         UNCHANGED <<batches, calls, retries>>,
         NEW sub, NEW human, NEW used, Answer(sub, human, used)
  PROVE  Counted'
<1>1. calls \in Nat /\ turns \in Nat /\ calls <= turns + 1 /\ retries \in Nat
      /\ MaxTurns \in Nat
  BY LimitAssumption DEF TypeOK, Counted, Asking
<1>2. CASE UNCHANGED <<node, turns>>
  BY <1>1, <1>2 DEF Counted, Asking, Pre
<1>3. CASE turns' = turns + 1 /\ node' = AfterBatch(sub, turns + 1)
           /\ node' \in {"critique_node", "END", "replan_node", "call_llm"}
  <2>1. node' \in Pre => turns + 1 < MaxTurns
    BY <1>1, <1>3 DEF AfterBatch, Pre
  <2>. QED
    BY <1>1, <1>3, <2>1 DEF Counted, Asking, Pre
<1>. QED
  BY <1>2, <1>3, AnswerMoves

LEMMA CountedKeeps ==
  ASSUME TypeOK, Shape, Counted, [Next]_vars
  PROVE  Counted'
<1>1. calls \in Nat /\ turns \in Nat /\ retries \in Nat /\ MaxTurns \in Nat \ {0}
  BY LimitAssumption DEF TypeOK
<1>2. CASE PlannerNode \/ MemoryHookNode \/ ReflectionNode \/ AcceptSubmission
  BY <1>1, <1>2 DEF PlannerNode, MemoryHookNode, ReflectionNode, AcceptSubmission,
     Counted, Pre, Asking
<1>3. CASE StopBeforeCall \/ Finish \/ StrayEdit \/ Stop \/ Crash \/ UNCHANGED vars
  BY <1>1, <1>3 DEF StopBeforeCall, Finish, StrayEdit, Stop, Crash, vars,
     Counted, Pre, Asking
<1>4. CASE CallFails
  BY <1>1, <1>4 DEF CallFails, Counted, Pre, Asking
<1>5. CASE CallLLM
  <2>1. node' \in Asking \cup Ended
    BY <1>5 DEF CallLLM, AfterCall, Asking, Ended
  <2>. QED
    BY <1>1, <1>5, <2>1 DEF CallLLM, Counted, Pre, Asking, Ended
<1>6. CASE RefuseTool \/ RunTool
  BY <1>6, AnswerKeepsCounted DEF RefuseTool, RunTool
<1>7. CASE SendBack
  BY <1>1, <1>7, LoopBackIsPre DEF SendBack, Counted, Pre, Asking
<1>8. CASE ReplanNode
  BY <1>1, <1>8 DEF ReplanNode, Counted, Pre, Asking
<1>9. CASE Resume \/ StartOver
  <2>1. /\ calls' = 0 /\ (turns' = 0 \/ turns' = turns)
        /\ (retries' = 0 \/ retries' = retries)
    BY <1>9 DEF Resume, StartOver
  <2>2. node' \in Pre
    BY <1>9, EntryIsPre DEF Resume, StartOver
  <2>3. /\ calls' < MaxTurns + retries' /\ calls' <= turns'
        /\ calls' <= MaxTurns + retries'
    BY <1>1, <2>1
  <2>4. node' \notin Asking \cup {"critique_node"}
    BY <2>2 DEF Pre, Asking
  <2>. QED
    BY <2>1, <2>3, <2>4 DEF Counted, Pre, Asking
<1>10. CASE Adapter
  <2>1. calls = 0 /\ UNCHANGED <<turns, retries>> /\ node' \in {"finished", "raised"}
    BY <1>10 DEF Adapter, Counted
  <2>2. PICK n \in 0..MaxTurns : calls' = calls + n
    BY <1>10 DEF Adapter
  <2>3. calls' = n /\ n \in Nat /\ n <= MaxTurns
    BY <1>1, <2>1, <2>2
  <2>. QED
    BY <1>1, <2>1, <2>3 DEF Counted, Pre, Asking
<1>. QED
  BY <1>10, <1>2, <1>3, <1>4, <1>5, <1>6, <1>7, <1>8, <1>9 DEF Next, GraphStep

-----------------------------------------------------------------------------
(* The flag for a human.                                                   *)
LEMMA InitFlagged == Init => Flagged
BY DEF Init, Flagged

LEMMA MoveKeepsFlagged ==
  ASSUME Flagged, UNCHANGED <<submitted, result, approval, batchApproval, status>>,
         \/ node' = node
         \/ node' \in {"END", "finished"} /\ node \in {"critique_node", "END"}
         \/ node' = "dead"
         \/ ~submitted
  PROVE  Flagged'
BY DEF Flagged

LEMMA AnswerKeepsFlagged ==
  ASSUME TypeOK, Shape, Flagged, node = "execute_tools", UNCHANGED <<batches, status>>,
         NEW sub \in BOOLEAN, NEW needs \in BOOLEAN, NEW used, Answer(sub, needs, used),
         sub /\ result'.review => batchApproval \/ needs
  PROVE  Flagged'
<1>1. CASE node' = node /\ Len(Due) > 1
  <2>1. submitted' = sub /\ batchApproval' = (batchApproval \/ (needs /\ sub))
    BY <1>1 DEF Answer
  <2>. QED
    BY <1>1, <2>1 DEF Flagged
<1>2. CASE node' = AfterBatch(sub, turns + 1)
           /\ node' \in {"critique_node", "END", "replan_node", "call_llm"}
           /\ Len(Due) = 1
  <2>1. submitted' = sub /\ approval' = (batchApproval \/ (needs /\ sub))
    BY <1>2 DEF Answer
  <2>2. sub => node' \in {"critique_node", "END"}
    BY <1>2 DEF AfterBatch
  <2>. QED
    BY <1>2, <2>1, <2>2 DEF Flagged
<1>. QED
  BY <1>1, <1>2, AnswerMoves

LEMMA FlaggedKeeps ==
  ASSUME TypeOK, Shape, Flagged, [Next]_vars
  PROVE  Flagged'
<1>1. CASE PlannerNode \/ MemoryHookNode \/ ReflectionNode
  BY <1>1 DEF PlannerNode, MemoryHookNode, ReflectionNode, Flagged
<1>2. CASE StopBeforeCall
  BY <1>2 DEF StopBeforeCall, Flagged
<1>3. CASE CallFails \/ CallLLM
  <2>1. ~submitted /\ UNCHANGED <<submitted, result, approval, batchApproval, status>>
    BY <1>3 DEF CallFails, CallLLM, Flagged
  <2>. QED
    BY <2>1, MoveKeepsFlagged
<1>4. CASE RefuseTool
  <2>1. submitted /\ result'.review => batchApproval
    BY <1>4 DEF RefuseTool, Flagged
  <2>2. submitted \in BOOLEAN /\ HumanApproval \in BOOLEAN
    BY LimitAssumption DEF TypeOK
  <2>. QED
    BY <1>4, <2>1, <2>2, AnswerKeepsFlagged DEF RefuseTool
<1>5. CASE RunTool
  <2>1. PICK gate \in BOOLEAN :
          /\ Collect(Head(Due), gate)
          /\ Answer(submitted \/ Head(Due) \in Submits \cup Clarifies,
                    HumanApproval \/ ~gate \/ Head(Due) \in Clarifies,
                    ran \cup {UseId})
    BY <1>5 DEF RunTool
  <2> DEFINE sub == submitted \/ Head(Due) \in Submits \cup Clarifies
             needs == HumanApproval \/ ~gate \/ Head(Due) \in Clarifies
  <2>2. sub \in BOOLEAN /\ needs \in BOOLEAN
    OBVIOUS
  <2>3. sub /\ result'.review => batchApproval \/ needs
    <3>1. CASE Head(Due) \in Submits
      BY <2>1, <3>1 DEF Collect, TypeOK
    <3>2. CASE Head(Due) \in Clarifies
      BY <3>2
    <3>3. CASE Head(Due) \notin Submits \cup Clarifies
      BY <1>5, <2>1, <3>3 DEF RunTool, Collect, Flagged
    <3>. QED
      BY <3>1, <3>2, <3>3
  <2>4. Answer(sub, needs, ran \cup {UseId})
    BY <2>1
  <2> HIDE DEF sub, needs
  <2>. QED
    BY <1>5, <2>2, <2>3, <2>4, AnswerKeepsFlagged DEF RunTool
<1>6. CASE AcceptSubmission \/ Finish
  BY <1>6, MoveKeepsFlagged DEF AcceptSubmission, Finish
<1>7. CASE SendBack
  BY <1>7 DEF SendBack, Flagged
<1>8. CASE ReplanNode
  BY <1>8 DEF ReplanNode, Flagged
<1>9. CASE StrayEdit \/ Stop \/ Crash \/ UNCHANGED vars
  BY <1>9, MoveKeepsFlagged DEF StrayEdit, Stop, Crash, vars
<1>10. CASE Resume \/ StartOver
  BY <1>10 DEF Resume, StartOver, Flagged
<1>11. CASE Adapter
  <2>1. CASE node' = "finished" /\ (submitted' => ~result'.review)
    BY <2>1 DEF Flagged
  <2>2. CASE node' = "raised" /\ UNCHANGED submitted
    <3>1. ~submitted
      BY <1>11 DEF Adapter, Flagged
    <3>. QED
      BY <2>2, <3>1 DEF Flagged
  <2>. QED
    BY <1>11, <2>1, <2>2 DEF Adapter
<1>. QED
  BY <1>11, <1>1, <1>2, <1>3, <1>4, <1>5, <1>6, <1>7, <1>8, <1>9, <1>10 DEF Next, GraphStep

-----------------------------------------------------------------------------
(* Which use runs.                                                         *)
LEMMA UseIdIs ==
  ASSUME TypeOK, Shape, node = "execute_tools"
  PROVE  /\ UseId[1] \in 1..batches /\ UseId[2] = buffered + 1
         /\ asked # <<>> /\ (Torn /\ (~cut \/ CutInSight) =>
              UseId[1] = batches /\ buffered + Len(Due) = Len(asked))
<1>1. asked # <<>> /\ Last = Uses(batches, Len(asked)) /\ batches \in Nat \ {0}
  BY DEF Shape, Asking, TypeOK
<1>2. UseId[2] = buffered + 1
  BY DEF UseId
<1>3. CASE pending = <<>>
  <2>1. UseId[1] = batches /\ buffered = 0 /\ Due = asked
    BY <1>1, <1>3 DEF UseId, Last, Uses, Shape, Due
  <2>. QED
    BY <1>1, <1>2, <2>1 DEF TypeOK
<1>4. CASE pending # <<>>
  <2>1. UseId[1] = origin /\ origin \in 1..batches /\ Due = pending
    BY <1>4 DEF UseId, Shape, Due
  <2>2. Torn /\ (~cut \/ CutInSight) =>
          origin = batches /\ buffered + Len(pending) = Len(asked)
    BY <1>1, <1>4 DEF Torn
  <2>. QED
    BY <1>1, <1>2, <2>1, <2>2
<1>. QED
  BY <1>3, <1>4

LEMMA InitFresh == Init => Fresh
BY DEF Init, Fresh

(* No use that is due has reached its handler before.                      *)
LEMMA DueIsNew ==
  ASSUME TypeOK, Shape, Torn, Fresh, CutInSight, node = "execute_tools"
  PROVE  UseId \notin ran
<1>1. UseId[1] = batches /\ UseId[2] = buffered + 1
  BY UseIdIs
<1>2. \A u \in ran : u[1] = batches => u[2] <= buffered
  BY DEF Fresh, Asking
<1>3. buffered \in Nat
  BY DEF TypeOK
<1>4. ~(buffered + 1 <= buffered)
  BY <1>3
<1>. QED
  BY <1>1, <1>2, <1>4

(* A step that starts no handler and asks for no tools.                    *)
LEMMA MoveKeepsFresh ==
  ASSUME Fresh, UNCHANGED <<batches, ran, twice>>,
         CutInSight' => CutInSight,
         node' \in Asking => node \in Asking /\ buffered' = buffered
  PROVE  Fresh'
BY DEF Fresh, Asking

LEMMA AnswerKeepsFresh ==
  ASSUME TypeOK, Shape, Torn, Fresh, node = "execute_tools",
         UNCHANGED <<batches, resumes>>, CutInSight => ~twice',
         NEW sub, NEW human, NEW used \in {ran, ran \cup {UseId}},
         Answer(sub, human, used)
  PROVE  Fresh'
<1>1. CutInSight' <=> CutInSight
  BY DEF CutInSight
<1>2. CASE ran' = {} /\ node' \in {"critique_node", "END", "replan_node", "call_llm"}
  BY <1>1, <1>2 DEF Fresh, Asking
<1>3. CASE ran' = used /\ buffered' = buffered + 1
  <2>1. \A u \in ran' : u \in ran \/ u = UseId
    BY <1>3
  <2>2. \A u \in ran' : u[1] \in 1..batches
    BY <2>1, UseIdIs DEF Fresh
  <2>3. buffered \in Nat /\ \A u \in ran : u[2] \in Nat
    BY DEF TypeOK
  <2>4. ASSUME CutInSight, NEW u \in ran', u[1] = batches
        PROVE  u[2] <= buffered + 1
    <3>1. CASE u = UseId
      BY <2>3, <3>1, UseIdIs
    <3>2. CASE u \in ran
      <4>1. u[2] <= buffered
        BY <2>4, <3>2 DEF Fresh, Asking
      <4>. QED
        BY <2>3, <3>2, <4>1
    <3>. QED
      BY <2>1, <3>1, <3>2
  <2>. QED
    BY <1>1, <1>3, <2>2, <2>4 DEF Fresh
<1>. QED
  BY <1>2, <1>3, AnswerMoves

LEMMA FreshKeeps ==
  ASSUME TypeOK, Shape, Torn, Fresh, [Next]_vars
  PROVE  Fresh'
<1>1. CASE PlannerNode \/ MemoryHookNode \/ ReflectionNode \/ AcceptSubmission
  BY <1>1, MoveKeepsFresh DEF PlannerNode, MemoryHookNode, ReflectionNode,
     AcceptSubmission, Asking, CutInSight
<1>2. CASE StopBeforeCall \/ CallFails \/ Finish
  BY <1>2, MoveKeepsFresh DEF StopBeforeCall, CallFails, Finish, Asking, CutInSight
<1>3. CASE StrayEdit \/ Stop \/ UNCHANGED vars
  BY <1>3, MoveKeepsFresh DEF StrayEdit, Stop, vars, CutInSight
<1>4. CASE CallLLM
  <2>1. UNCHANGED <<ran, twice, resumes>> /\ batches' \in {batches, batches + 1}
    BY <1>4 DEF CallLLM
  <2>2. CASE batches' = batches
    BY <1>4, <2>1, <2>2, MoveKeepsFresh DEF CallLLM, Asking, CutInSight, TypeOK
  <2>3. CASE batches' = batches + 1
    <3>1. \A u \in ran' : u[1] \in 1..batches' /\ u[1] # batches'
      BY <2>1, <2>3 DEF Fresh, TypeOK
    <3>. QED
      BY <2>1, <3>1 DEF Fresh, CutInSight
  <2>. QED
    BY <2>1, <2>2, <2>3
<1>5. CASE RefuseTool
  <2>1. node = "execute_tools" /\ UNCHANGED <<batches, resumes, twice>>
        /\ Answer(submitted, HumanApproval, ran)
    BY <1>5 DEF RefuseTool
  <2>. QED
    BY <2>1, AnswerKeepsFresh DEF Fresh
<1>6. CASE RunTool
  <2>1. node = "execute_tools" /\ UNCHANGED <<batches, resumes>>
    BY <1>6 DEF RunTool
  <2>2. PICK gate \in BOOLEAN, n \in 1..MaxAttempts :
          /\ Start(Head(Due), n)
          /\ Answer(submitted \/ Head(Due) \in Submits \cup Clarifies,
                    HumanApproval \/ ~gate \/ Head(Due) \in Clarifies,
                    ran \cup {UseId})
    BY <1>6 DEF RunTool
  <2>3. ASSUME CutInSight PROVE ~twice'
    <3>1. ~twice /\ UseId \notin ran
      BY <2>1, <2>3, DueIsNew DEF Fresh
    <3>2. Head(Due) \in Hazardous => ~(n > 1)
      BY <2>2 DEF Start
    <3>. QED
      BY <2>2, <3>1, <3>2 DEF Start
  <2>. QED
    BY <2>1, <2>2, <2>3, AnswerKeepsFresh
<1>7. CASE SendBack \/ ReplanNode
  BY <1>7, LoopBackIsPre, MoveKeepsFresh DEF SendBack, ReplanNode, Asking, CutInSight
<1>8. CASE Crash
  <2>1. node' = "dead" /\ UNCHANGED <<batches, resumes>>
    BY <1>8 DEF Crash
  <2>2. CASE UNCHANGED <<ran, twice>>
    BY <2>1, <2>2, MoveKeepsFresh DEF Asking, CutInSight
  <2>3. CASE node = "execute_tools" /\ Start(Head(Due), 1) /\ ran' = ran \cup {UseId}
    <3>1. \A u \in ran' : u[1] \in 1..batches
      BY <2>3, UseIdIs DEF Fresh
    <3>2. CutInSight => ~twice /\ UseId \notin ran /\ ~(1 > 1)
      BY <2>3, DueIsNew DEF Fresh
    <3>3. CutInSight => ~twice'
      BY <2>3, <3>2, Zenon DEF Start
    <3>4. CutInSight' <=> CutInSight
      BY <2>1 DEF CutInSight
    <3>5. node' \notin Asking
      BY <2>1 DEF Asking
    <3>. QED
      BY <2>1, <3>1, <3>4, <3>5, <3>3 DEF Fresh, Asking
  <2>. QED
    BY <1>8, <2>2, <2>3 DEF Crash
<1>9. CASE Resume \/ StartOver
  <2>1. resumes \in Nat
    BY LimitAssumption DEF TypeOK
  <2>2. resumes' = resumes + 1 /\ resumes \in Nat
    BY <1>9, <2>1 DEF Resume, StartOver
  <2>3. CutInSight' => CutInSight
    BY <2>2 DEF CutInSight
  <2>. QED
    BY <1>9, <2>3, EntryIsPre, MoveKeepsFresh DEF Resume, StartOver, Pre, Asking
<1>10. CASE Adapter
  BY <1>10, MoveKeepsFresh DEF Adapter, Asking, CutInSight
<1>. QED
  BY <1>10, <1>1, <1>2, <1>3, <1>4, <1>5, <1>6, <1>7, <1>8, <1>9 DEF Next, GraphStep

-----------------------------------------------------------------------------
(* Conversations.                                                          *)

(* A condensed conversation is its head, a summary and its tail.           *)
LEMMA CondensedAt ==
  ASSUME NEW h \in Seq(Message), NEW c \in 3..Len(h)
  PROVE  /\ Len(Condensed(h, c)) = Len(h) - c + 3
         /\ Condensed(h, c)[1] = h[1] /\ Condensed(h, c)[2] = User
         /\ \A i \in 3..Len(Condensed(h, c)) :
              Condensed(h, c)[i] = h[i + c - 3] /\ i + c - 3 \in c..Len(h)
<1> DEFINE tail == SubSeq(h, c, Len(h))
           head == <<h[1], User>>
<1>1. Len(h) \in Nat /\ c \in Nat /\ h[1] \in Message /\ User \in Message
  BY MessageKinds
<1>2. /\ tail \in Seq(Message) /\ Len(tail) = Len(h) - c + 1
      /\ \A j \in 1..(Len(h) - c + 1) : tail[j] = h[c + j - 1]
  BY <1>1, SubSeqProperties
<1>3. head \in Seq(Message) /\ Len(head) = 2 /\ head[1] = h[1] /\ head[2] = User
  BY <1>1
<1> HIDE DEF tail, head
<1>4. /\ Len(head \o tail) = Len(head) + Len(tail)
      /\ \A i \in 1..(Len(head) + Len(tail)) :
           (head \o tail)[i] = IF i <= Len(head) THEN head[i] ELSE tail[i - Len(head)]
  BY <1>2, <1>3, ConcatProperties
<1>5. /\ Len(head \o tail) = 2 + Len(tail)
      /\ \A i \in 1..(2 + Len(tail)) :
           (head \o tail)[i] = IF i <= 2 THEN head[i] ELSE tail[i - 2]
  BY <1>3, <1>4
<1>6. Condensed(h, c) = head \o tail
  BY DEF Condensed, head, tail
<1>7. Len(Condensed(h, c)) = Len(h) - c + 3
  BY <1>1, <1>2, <1>5, <1>6
<1>8. Condensed(h, c)[1] = h[1] /\ Condensed(h, c)[2] = User
  BY <1>1, <1>2, <1>3, <1>5, <1>6
<1>9. ASSUME NEW i \in 3..Len(Condensed(h, c))
      PROVE  Condensed(h, c)[i] = h[i + c - 3] /\ i + c - 3 \in c..Len(h)
  <2>1. i \in Nat /\ i >= 3 /\ i <= Len(h) - c + 3
    BY <1>1, <1>7
  <2>2. Condensed(h, c)[i] = tail[i - 2] /\ i - 2 \in 1..(Len(h) - c + 1)
    BY <1>1, <1>2, <1>5, <1>6, <2>1
  <2>3. c + (i - 2) - 1 = i + c - 3 /\ i + c - 3 \in c..Len(h)
    BY <1>1, <2>1
  <2>. QED
    BY <1>2, <2>2, <2>3
<1>. QED
  BY <1>7, <1>8, <1>9

LEMMA UnansweredIsRefused ==
  ASSUME NEW h, NEW k \in 1..Len(h), h[k].kind = "uses", h[k + 1].kind # "results"
  PROVE  ~Accepted(h)
<1>1. Results(h[k].batch, h[k].size).kind = "results"
  BY DEF Results
<1>. QED
  BY <1>1 DEF Accepted

(* A cut among the last four messages is in everything the API is sent.    *)
LEMMA ExposedIsRefused ==
  ASSUME TypeOK, Exposed, CutInSight, NEW request \in Requests(messages)
  PROVE  ~Accepted(request)
<1> DEFINE n == Len(messages)
<1>1. n \in Nat /\ resumes \in Nat
  BY LimitAssumption DEF TypeOK
<1>2. PICK k \in 1..(n - 1) : /\ messages[k].kind = "uses"
                              /\ messages[k + 1].kind = "user"
                              /\ n - k <= resumes
  BY DEF Exposed
<1>3. k \in Nat /\ k >= 1 /\ k + 1 <= n /\ k >= n - 3
  BY <1>1, <1>2 DEF CutInSight
<1>4. CASE request = messages
  <2>1. k \in 1..Len(request) /\ request[k].kind = "uses"
        /\ request[k + 1].kind # "results"
    BY <1>1, <1>2, <1>3, <1>4
  <2>. QED
    BY <2>1, UnansweredIsRefused
<1>5. ASSUME NEW c \in 3..n, IsTail(messages, c), request = Condensed(messages, c)
      PROVE  ~Accepted(request)
  <2>1. Opens(messages, k) /\ k \in (n - 3)..n
    BY <1>1, <1>2, <1>3 DEF Opens
  <2>2. c <= k
    <3>1. CASE c \in Back(messages)
      BY <1>1, <1>3, <3>1 DEF Back
    <3>2. CASE \A i \in Forward(messages) : c <= i
      BY <2>1, <3>2 DEF Forward
    <3>. QED
      BY <1>5, <3>1, <3>2 DEF IsTail
  <2> DEFINE j == k - c + 3
  <2>3. messages \in Seq(Message) /\ c \in Nat
    BY <1>1 DEF TypeOK
  <2>4. /\ Len(request) = n - c + 3
        /\ \A i \in 3..Len(request) : request[i] = messages[i + c - 3]
    BY <1>5, <2>3, CondensedAt
  <2> HIDE DEF n
  <2>5. /\ j \in 3..Len(request) /\ j + 1 \in 3..Len(request)
        /\ j + c - 3 = k /\ (j + 1) + c - 3 = k + 1 /\ Len(request) \in Nat
    <3>1. c >= 3 /\ c <= n
      BY <1>1, <1>5
    <3>2. j \in Nat /\ 3 <= j /\ j + 1 <= n - c + 3
      BY <1>1, <1>3, <2>2, <2>3, <3>1
    <3>3. j + c - 3 = k /\ (j + 1) + c - 3 = k + 1
      BY <1>3, <2>3
    <3>. QED
      BY <1>1, <2>3, <2>4, <3>1, <3>2, <3>3, SMTT(30)
  <2> HIDE DEF j
  <2>6. request[j] = messages[k] /\ request[j + 1] = messages[k + 1]
    BY <2>5, <2>4
  <2>7. j \in 1..Len(request)
    BY <2>5
  <2>8. request[j].kind = "uses" /\ request[j + 1].kind # "results"
    BY <1>2, <2>6
  <2>. QED
    BY <2>7, <2>8, UnansweredIsRefused
<1>. QED
  BY <1>4, <1>5 DEF Requests

-----------------------------------------------------------------------------
(* What a stop in the middle of a batch leaves behind.                     *)
LEMMA InitTorn == Init => Torn
BY DEF Init, Torn, Outdated

(* A step that leaves the batch and the last check alone.                  *)
LEMMA MoveKeepsTorn ==
  ASSUME Torn, UNCHANGED <<batches, asked, pending, origin, buffered, cut, resumes>>,
         Outdated' => Outdated,
         asked # <<>> /\ node' # "dead" => node # "dead",
         asked # <<>> /\ pending # <<>> /\ node \in {"execute_tools", "dead"} =>
           node' \in {"execute_tools", "dead"},
         Exposed => Exposed'
  PROVE  Torn'
BY DEF Torn, CutInSight

LEMMA MoveKeepsExposed ==
  ASSUME Exposed, UNCHANGED <<messages, cut, resumes>>,
         node' \notin {"critique_node", "replan_node"} \cup Asking
  PROVE  Exposed'
BY DEF Exposed, Asking

LEMMA AnswerKeepsTorn ==
  ASSUME TypeOK, Shape, Torn, node = "execute_tools",
         UNCHANGED <<batches, cut, resumes>>,
         Outdated' => Outdated,
         NEW sub, NEW human, NEW used, Answer(sub, human, used)
  PROVE  Torn'
<1>1. asked # <<>> /\ (~cut \/ CutInSight => ~Outdated)
  BY UseIdIs DEF Torn
<1>2. CASE asked' = <<>> /\ pending' = <<>>
  BY <1>1, <1>2 DEF Torn, CutInSight
<1>3. CASE /\ UNCHANGED <<node, asked>> /\ Len(pending') = Len(Due) - 1
           /\ origin' = UseId[1] /\ buffered' = buffered + 1
  <2>1. ASSUME ~cut \/ CutInSight
        PROVE  origin' = batches /\ buffered' + Len(pending') = Len(asked)
    <3>1. UseId[1] = batches /\ buffered + Len(Due) = Len(asked)
      BY <2>1, UseIdIs
    <3>2. buffered \in Nat /\ Len(Due) \in Nat
      BY DueType DEF TypeOK
    <3>. QED
      BY <1>3, <3>1, <3>2
  <2>. QED
    BY <1>1, <1>3, <2>1 DEF Torn, CutInSight
<1>. QED
  BY <1>2, <1>3, AnswerMoves

LEMMA TornKeeps ==
  ASSUME TypeOK, Shape, Torn, [Next]_vars
  PROVE  Torn'
<1>1. CASE PlannerNode \/ MemoryHookNode
  <2>1. Exposed => Exposed'
    BY <1>1, MoveKeepsExposed DEF PlannerNode, MemoryHookNode, Asking
  <2>. QED
    BY <1>1, <2>1, MoveKeepsTorn DEF PlannerNode, MemoryHookNode, Outdated
<1>2. CASE StopBeforeCall \/ CallFails \/ Finish \/ StrayEdit \/ Stop \/ UNCHANGED vars
  <2>1. Exposed => Exposed'
    BY <1>2, MoveKeepsExposed DEF StopBeforeCall, CallFails, Finish, StrayEdit, Stop,
       vars, Asking, Exposed
  <2>2. Outdated' => Outdated
    BY <1>2 DEF StopBeforeCall, CallFails, Finish, StrayEdit, Stop, vars, Outdated
  <2>. QED
    BY <1>2, <2>1, <2>2, MoveKeepsTorn DEF StopBeforeCall, CallFails, Finish, StrayEdit,
       Stop, vars
<1>3. CASE ReflectionNode
  <2>1. Exposed => Exposed'
    BY <1>3 DEF ReflectionNode, Exposed, Asking
  <2>. QED
    BY <1>3, <2>1, MoveKeepsTorn DEF ReflectionNode, Outdated
<1>4. CASE CallLLM
  <2>1. asked = <<>> /\ UNCHANGED <<pending, origin, buffered, cut, resumes, verified, drift>>
        /\ node = "call_llm"
    BY <1>4 DEF CallLLM, Shape, Pre
  <2>2. (~cut \/ CutInSight) => pending = <<>> /\ ~Outdated
    BY <1>4, <2>1, ExposedIsRefused DEF CallLLM, Torn, Exposed
  <2>. QED
    BY <2>1, <2>2 DEF Torn, CutInSight, Outdated
<1>5. CASE RefuseTool
  <2>1. node = "execute_tools" /\ UNCHANGED <<batches, cut, resumes, verified, drift>>
        /\ Answer(submitted, HumanApproval, ran)
    BY <1>5 DEF RefuseTool
  <2>. QED
    BY <2>1, AnswerKeepsTorn DEF Outdated
<1>6. CASE RunTool
  <2>1. node = "execute_tools" /\ UNCHANGED <<batches, cut, resumes>>
    BY <1>6 DEF RunTool
  <2>2. PICK ok, gate, late \in BOOLEAN :
          /\ Verify(Head(Due), ok, late)
          /\ Answer(submitted \/ Head(Due) \in Submits \cup Clarifies,
                    HumanApproval \/ ~gate \/ Head(Due) \in Clarifies,
                    ran \cup {UseId})
    BY <1>6 DEF RunTool
  <2>3. Outdated' => Outdated
    BY <2>2 DEF Verify, Outdated
  <2>. QED
    BY <2>1, <2>2, <2>3, AnswerKeepsTorn
<1>7. CASE AcceptSubmission \/ SendBack \/ ReplanNode
  <2>1. /\ node \in {"critique_node", "replan_node"}
        /\ UNCHANGED <<asked, pending, verified, drift, cut, resumes>>
    BY <1>7 DEF AcceptSubmission, SendBack, ReplanNode
  <2>2. asked = <<>> /\ pending = <<>> /\ ~Exposed
    BY <2>1 DEF Shape, Pre, Exposed
  <2>. QED
    BY <2>1, <2>2 DEF Torn, CutInSight, Outdated
<1>8. CASE Crash
  <2>1. node' = "dead" /\ UNCHANGED <<messages, asked, pending, origin, buffered,
                                      batches, cut, resumes, verified>>
    BY <1>8 DEF Crash
  <2>2. Exposed => Exposed'
    BY <2>1, MoveKeepsExposed DEF Asking
  <2>3. asked = <<>> => (Outdated' => Outdated)
    BY <1>8 DEF Crash, Outdated, Shape, Asking
  <2>. QED
    BY <2>1, <2>2, <2>3 DEF Torn, CutInSight
<1>9. CASE Resume
  <2>1. /\ asked' = <<>> /\ resumes' = resumes + 1 /\ resumes \in Nat
        /\ UNCHANGED <<pending, verified, drift>>
        /\ messages' = Append(messages, User)
        /\ cut' = (cut \/ messages[Len(messages)].kind = "uses")
    BY <1>9, LimitAssumption DEF Resume, TypeOK
  <2>2. node' \notin {"critique_node", "replan_node"} \cup Asking
    BY <1>9, EntryIsPre DEF Resume, Pre, Asking
  <2>3. /\ Len(messages') = Len(messages) + 1 /\ Len(messages) \in Nat \ {0}
        /\ messages'[Len(messages) + 1] = User
        /\ \A i \in 1..Len(messages) : messages'[i] = messages[i]
    BY <2>1, Appended, MessageKinds, LastIsOne DEF Shape, Last
  <2>4. CASE asked # <<>>
    <3>1. messages[Len(messages)].kind = "uses"
      BY <2>4 DEF Shape, Last
    <3>2. cut' /\ resumes' = resumes + 1 /\ Len(messages') = Len(messages) + 1
      BY <2>1, <2>3, <3>1
    <3> DEFINE n == Len(messages)
    <3>3. n \in Nat \ {0} /\ Len(messages') = n + 1
      BY <2>3
    <3> HIDE DEF n
    <3>4. n \in 1..(Len(messages') - 1) /\ Len(messages') - n <= resumes'
      BY <2>1, <3>2, <3>3
    <3>5. cut' /\ Len(messages) \in 1..(Len(messages') - 1)
          /\ Len(messages') - Len(messages) <= resumes'
      BY <3>2, <3>4 DEF n
    <3>6. messages'[Len(messages)].kind = "uses"
          /\ messages'[Len(messages) + 1].kind = "user"
      BY <2>3, <3>1 DEF User
    <3>7. Exposed'
      BY <2>2, <3>5, <3>6 DEF Exposed, Asking
    <3>. QED
      BY <2>1, <3>7 DEF Torn
  <2>5. CASE asked = <<>>
    <3>1. ASSUME Exposed PROVE Exposed'
      <4>1. PICK k \in 1..(Len(messages) - 1) :
              /\ messages[k].kind = "uses" /\ messages[k + 1].kind = "user"
              /\ Len(messages) - k <= resumes
        BY <3>1 DEF Exposed
      <4>2. k \in 1..(Len(messages') - 1) /\ Len(messages') - k <= resumes'
        BY <2>1, <2>3, <4>1
      <4>3. messages'[k].kind = "uses" /\ messages'[k + 1].kind = "user"
        BY <2>3, <4>1
      <4>. QED
        BY <2>1, <2>2, <3>1, <4>2, <4>3 DEF Exposed, Asking
    <3>2. resumes' <= 3 => resumes <= 3
      BY <2>1
    <3>3. (~cut' => ~cut) /\ (CutInSight' => CutInSight)
      BY <2>1, <3>2 DEF CutInSight
    <3>. QED
      BY <2>1, <2>5, <3>1, <3>3 DEF Torn, Outdated
  <2>. QED
    BY <2>4, <2>5
<1>10. CASE StartOver
  BY <1>10 DEF StartOver, Torn, Outdated
<1>11. CASE Adapter
  <2>1. Exposed => Exposed'
    BY <1>11, MoveKeepsExposed DEF Adapter, Asking
  <2>. QED
    BY <1>11, <2>1, MoveKeepsTorn DEF Adapter, Outdated
<1>. QED
  BY <1>11, <1>1, <1>2, <1>3, <1>4, <1>5, <1>6, <1>7, <1>8, <1>9, <1>10 DEF Next, GraphStep

-----------------------------------------------------------------------------
(* What the API takes.                                                     *)

LEMMA LastIsNotOpen ==
  ASSUME NEW h \in Seq(Message), Accepted(h)
  PROVE  h[Len(h)].kind # "uses" /\ ReviewHistory(h) = h
<1>1. Len(h) \in Nat \ {0} /\ Len(h) + 1 \notin 1..Len(h)
  BY DEF Accepted
<1>. QED
  BY <1>1 DEF Accepted, ReviewHistory

(* One more message, neither tool uses nor results.                        *)
LEMMA PlainIsAccepted ==
  ASSUME NEW h \in Seq(Message), Accepted(h), NEW m \in {User, Text}
  PROVE  Accepted(Append(h, m)) /\ ReviewHistory(Append(h, m)) = Append(h, m)
<1> DEFINE g == Append(h, m)
<1>1. Len(h) \in Nat \ {0}
  BY DEF Accepted
<1>2. /\ g \in Seq(Message) /\ Len(g) = Len(h) + 1 /\ g[Len(h) + 1] = m
      /\ \A i \in 1..Len(h) : g[i] = h[i]
  BY MessageKinds, AppendProperties
<1>3. m.kind # "uses" /\ m.kind # "results"
  BY DEF User, Text
<1> HIDE DEF g
<1>4. g # <<>> /\ g[1].kind = "user"
  BY <1>1, <1>2 DEF Accepted
<1>5. ASSUME NEW i \in 1..Len(g), g[i].kind = "uses"
      PROVE  i + 1 \in 1..Len(g) /\ g[i + 1] = Results(g[i].batch, g[i].size)
  <2>1. i \in 1..Len(h) /\ g[i] = h[i]
    BY <1>1, <1>2, <1>3, <1>5
  <2>2. i + 1 \in 1..Len(h) /\ h[i + 1] = Results(h[i].batch, h[i].size)
    BY <1>5, <2>1 DEF Accepted
  <2>. QED
    BY <1>1, <1>2, <2>1, <2>2
<1>6. ASSUME NEW i \in 1..Len(g), g[i].kind = "results"
      PROVE  i - 1 \in 1..Len(g) /\ g[i - 1] = Uses(g[i].batch, g[i].size)
  <2>1. i \in 1..Len(h) /\ g[i] = h[i]
    BY <1>1, <1>2, <1>3, <1>6
  <2>2. i - 1 \in 1..Len(h) /\ h[i - 1] = Uses(h[i].batch, h[i].size)
    BY <1>6, <2>1 DEF Accepted
  <2>. QED
    BY <1>1, <1>2, <2>1, <2>2
<1>7. Accepted(g)
  BY <1>4, <1>5, <1>6 DEF Accepted
<1>8. ReviewHistory(g) = g
  BY <1>2, <1>7, LastIsNotOpen
<1>. QED
  BY <1>7, <1>8 DEF g

(* A batch and its answers.                                                *)
LEMMA BatchIsAccepted ==
  ASSUME NEW h \in Seq(Message), Accepted(h), NEW b \in Nat, NEW n \in Nat
  PROVE  Accepted(ReviewHistory(Append(h, Uses(b, n))))
<1> DEFINE f == Append(h, Uses(b, n))
           g == Append(f, Results(b, n))
<1>1. Len(h) \in Nat \ {0} /\ h[Len(h)].kind # "uses"
  BY LastIsNotOpen DEF Accepted
<1>2. /\ f \in Seq(Message) /\ Len(f) = Len(h) + 1 /\ f[Len(h) + 1] = Uses(b, n)
      /\ \A i \in 1..Len(h) : f[i] = h[i]
  BY MessageKinds, AppendProperties
<1> HIDE DEF f
<1>3. Results(b, n) \in Message
  BY MessageKinds
<1>4. /\ g \in Seq(Message) /\ Len(g) = Len(f) + 1 /\ g[Len(f) + 1] = Results(b, n)
      /\ \A i \in 1..Len(f) : g[i] = f[i]
  BY <1>2, <1>3, AppendProperties
<1>5. /\ Uses(b, n).kind = "uses" /\ Uses(b, n).batch = b /\ Uses(b, n).size = n
      /\ Results(b, n).kind = "results" /\ Results(b, n).batch = b
      /\ Results(b, n).size = n
  BY DEF Uses, Results
<1>6. ReviewHistory(f) = g
  BY <1>2, <1>5 DEF ReviewHistory
<1> HIDE DEF g
<1>7. /\ Len(g) = Len(h) + 2 /\ g[Len(h) + 1] = Uses(b, n)
      /\ g[Len(h) + 2] = Results(b, n)
      /\ \A i \in 1..Len(h) : g[i] = h[i]
  <2>1. Len(f) + 1 = Len(h) + 2 /\ Len(h) + 1 \in 1..Len(f)
    BY <1>1, <1>2
  <2>2. \A i \in 1..Len(h) : i \in 1..Len(f)
    BY <1>1, <1>2
  <2>. QED
    BY <1>2, <1>4, <2>1, <2>2
<1>8. g # <<>> /\ g[1].kind = "user"
  BY <1>1, <1>4, <1>7 DEF Accepted
<1>9. ASSUME NEW i \in 1..Len(g), g[i].kind = "uses"
      PROVE  i + 1 \in 1..Len(g) /\ g[i + 1] = Results(g[i].batch, g[i].size)
  <2>1. CASE i \in 1..Len(h)
    <3>1. i + 1 \in 1..Len(h) /\ h[i + 1] = Results(h[i].batch, h[i].size)
      BY <1>7, <1>9, <2>1 DEF Accepted
    <3>. QED
      BY <1>1, <1>7, <2>1, <3>1
  <2>2. CASE i = Len(h) + 1
    BY <1>1, <1>5, <1>7, <2>2
  <2>3. CASE i = Len(h) + 2
    BY <1>5, <1>7, <1>9, <2>3
  <2>. QED
    BY <1>1, <1>7, <2>1, <2>2, <2>3
<1>10. ASSUME NEW i \in 1..Len(g), g[i].kind = "results"
      PROVE  i - 1 \in 1..Len(g) /\ g[i - 1] = Uses(g[i].batch, g[i].size)
  <2>1. CASE i \in 1..Len(h)
    <3>1. i - 1 \in 1..Len(h) /\ h[i - 1] = Uses(h[i].batch, h[i].size)
      BY <1>7, <1>10, <2>1 DEF Accepted
    <3>. QED
      BY <1>1, <1>7, <2>1, <3>1
  <2>2. CASE i = Len(h) + 1
    BY <1>5, <1>7, <1>10, <2>2
  <2>3. CASE i = Len(h) + 2
    BY <1>1, <1>5, <1>7, <2>3
  <2>. QED
    BY <1>1, <1>7, <2>1, <2>2, <2>3
<1>. QED
  BY <1>6, <1>8, <1>9, <1>10 DEF Accepted, f

(* Condensing keeps uses and results together: the tail does not open on   *)
(* results, and nothing is taken out of it.                                *)
LEMMA CondensedIsAccepted ==
  ASSUME NEW h \in Seq(Message), Accepted(h), NEW c \in 3..Len(h), IsTail(h, c)
  PROVE  Accepted(Condensed(h, c))
<1> DEFINE g == Condensed(h, c)
           n == Len(h)
<1>1. n \in Nat /\ c \in Nat /\ 3 <= c /\ c <= n
  OBVIOUS
<1>2. /\ Len(g) = n - c + 3 /\ g[1] = h[1] /\ g[2] = User
      /\ \A i \in 3..Len(g) : g[i] = h[i + c - 3] /\ i + c - 3 \in c..n
  BY CondensedAt
<1>3. h[c].kind # "results"
  BY DEF IsTail, Back, Forward, Opens
<1>4. h[1].kind = "user" /\ User.kind = "user"
  BY DEF Accepted, User
<1> HIDE DEF g, n
<1>5. Len(g) \in Nat /\ Len(g) >= 3
  BY <1>1, <1>2
<1>6. \A i \in 1..Len(g) : i = 1 \/ i = 2 \/ i \in 3..Len(g)
  BY <1>5
<1>7. ASSUME NEW i \in 1..Len(g), g[i].kind = "uses"
      PROVE  i + 1 \in 1..Len(g) /\ g[i + 1] = Results(g[i].batch, g[i].size)
  <2>1. i \in 3..Len(g) /\ g[i] = h[i + c - 3] /\ i + c - 3 \in c..n
    BY <1>2, <1>4, <1>6, <1>7
  <2> DEFINE k == i + c - 3
  <2>2. k \in 1..n /\ k \in Nat /\ i \in Nat
    BY <1>1, <2>1
  <2>3. k + 1 \in 1..n /\ h[k + 1] = Results(h[k].batch, h[k].size)
    BY <1>7, <2>1, <2>2 DEF Accepted, n
  <2>4. i + 1 \in 3..Len(g) /\ (i + 1) + c - 3 = k + 1
    BY <1>1, <1>2, <2>1, <2>2, <2>3
  <2>5. g[i + 1] = h[(i + 1) + c - 3]
    BY <1>2, <2>4
  <2>6. i + 1 \in 1..Len(g)
    BY <1>5, <2>2, <2>4
  <2>. QED
    BY <2>1, <2>3, <2>4, <2>5, <2>6
<1>8. ASSUME NEW i \in 1..Len(g), g[i].kind = "results"
      PROVE  i - 1 \in 1..Len(g) /\ g[i - 1] = Uses(g[i].batch, g[i].size)
  <2>1. i \in 3..Len(g) /\ g[i] = h[i + c - 3] /\ i + c - 3 \in c..n
    BY <1>2, <1>4, <1>6, <1>8
  <2> DEFINE k == i + c - 3
  <2>2. k \in 1..n /\ k \in Nat /\ i \in Nat /\ k >= c
    BY <1>1, <2>1
  <2>3. k - 1 \in 1..n /\ h[k - 1] = Uses(h[k].batch, h[k].size)
    BY <1>8, <2>1, <2>2 DEF Accepted, n
  <2>4. k # c
    BY <1>3, <1>8, <2>1
  <2>5. i - 1 \in 3..Len(g) /\ (i - 1) + c - 3 = k - 1
    BY <1>1, <1>2, <2>1, <2>2, <2>4, SMTT(30)
  <2>6. g[i - 1] = h[(i - 1) + c - 3]
    BY <1>2, <2>5
  <2>7. i - 1 \in 1..Len(g)
    BY <1>5, <2>2, <2>5
  <2>. QED
    BY <2>1, <2>3, <2>5, <2>6, <2>7
<1>9. g # <<>> /\ g[1].kind = "user"
  <2>1. g # <<>>
    BY <1>5, EmptySeq
  <2>. QED
    BY <1>2, <1>4, <2>1
<1>. QED
  BY <1>7, <1>8, <1>9 DEF Accepted, g

LEMMA InitPaired == Init => Paired
<1> SUFFICES ASSUME Init PROVE Accepted(ReviewHistory(messages))
  BY DEF Paired
<1>1. messages = <<User>> /\ Len(messages) = 1 /\ messages[1] = User
  BY DEF Init
<1>. QED
  BY <1>1 DEF ReviewHistory, Accepted, User

LEMMA AnswerKeepsPaired ==
  ASSUME TypeOK, Shape, Torn, Paired, node = "execute_tools", UNCHANGED <<batches, cut>>,
         NEW sub, NEW human, NEW used, Answer(sub, human, used)
  PROVE  Paired'
<1> SUFFICES ASSUME ~cut PROVE Accepted(ReviewHistory(messages'))
  BY DEF Paired, ReviewHistory
<1>1. CASE UNCHANGED messages
  BY <1>1 DEF Paired
<1>2. CASE /\ Len(Due) = 1
           /\ messages' = Append(messages, Results(UseId[1], buffered + 1))
  <2>1. UseId[1] = batches /\ buffered + 1 = Len(asked) /\ asked # <<>>
    BY <1>2, UseIdIs
  <2>2. Last = Uses(batches, Len(asked))
    BY <2>1 DEF Shape
  <2>3. /\ Last.kind = "uses" /\ Last.batch = UseId[1]
        /\ Last.size = buffered + 1
    BY <2>1, <2>2 DEF Uses
  <2>4. messages' = ReviewHistory(messages)
    BY <1>2, <2>3 DEF ReviewHistory, Last
  <2>5. UseId[1] \in Nat /\ buffered + 1 \in Nat
    BY UseIdIs DEF TypeOK
  <2>6. Accepted(messages') /\ messages' \in Seq(Message)
    BY <1>2, <2>4, <2>5, Appended, MessageKinds DEF Paired
  <2>. QED
    BY <2>6, LastIsNotOpen
<1>. QED
  BY <1>1, <1>2, AnswerMoves

LEMMA PairedKeeps ==
  ASSUME TypeOK, Shape, Torn, Paired, [Next]_vars
  PROVE  Paired'
<1>1. ASSUME ~cut, asked = <<>> PROVE Accepted(messages) /\ messages \in Seq(Message)
  BY <1>1 DEF Paired, ReviewHistory, Shape, Last, TypeOK
<1>2. CASE UNCHANGED <<messages, cut>>
  BY <1>2 DEF Paired, ReviewHistory
<1>3. CASE CallLLM
  <2>1. asked = <<>> /\ cut' = cut
    BY <1>3 DEF CallLLM, Shape, Pre
  <2>2. CASE messages' = Append(messages, Text)
    BY <1>1, <2>1, <2>2, PlainIsAccepted DEF Paired
  <2>3. ASSUME NEW b \in Batches, messages' = Append(messages, Uses(batches + 1, Len(b)))
        PROVE  Paired'
    <3>1. batches + 1 \in Nat /\ Len(b) \in Nat
      BY BatchesType DEF TypeOK
    <3>. QED
      BY <1>1, <2>1, <2>3, <3>1, BatchIsAccepted DEF Paired
  <2>. QED
    BY <1>3, <2>2, <2>3 DEF CallLLM
<1>4. CASE RefuseTool \/ RunTool
  BY <1>4, AnswerKeepsPaired DEF RefuseTool, RunTool
<1>5. CASE messages' = Append(messages, User) /\ asked = <<>> /\ cut' = cut
  BY <1>1, <1>5, PlainIsAccepted DEF Paired
<1>6. CASE SendBack \/ ReplanNode
  <2>1. asked = <<>> /\ cut' = cut
    BY <1>6 DEF SendBack, ReplanNode, Shape, Pre
  <2>2. messages' = Append(messages, User) \/ messages' = messages
    BY <1>6 DEF SendBack, ReplanNode
  <2>. QED
    BY <1>2, <1>5, <2>1, <2>2
<1>7. CASE Resume
  <2>1. messages' = Append(messages, User) /\ (~cut' => ~cut /\ Last.kind # "uses")
    BY <1>7 DEF Resume, Last
  <2>2. ~cut' => asked = <<>> /\ ~cut
    BY <2>1 DEF Shape
  <2>. QED
    BY <1>1, <2>1, <2>2, PlainIsAccepted DEF Paired
<1>8. CASE StartOver
  <2>1. messages' = <<User>> /\ Len(messages') = 1 /\ messages'[1] = User
    BY <1>8 DEF StartOver
  <2>. QED
    BY <2>1 DEF Paired, ReviewHistory, Accepted, User
<1>9. CASE PlannerNode \/ MemoryHookNode \/ StopBeforeCall \/ CallFails
  BY <1>2, <1>9 DEF PlannerNode, MemoryHookNode, StopBeforeCall, CallFails
<1>10. CASE ReflectionNode \/ AcceptSubmission \/ Finish
  BY <1>2, <1>10 DEF ReflectionNode, AcceptSubmission, Finish
<1>11. CASE StrayEdit \/ Stop \/ Crash \/ UNCHANGED vars
  BY <1>2, <1>11 DEF StrayEdit, Stop, Crash, vars
<1>12. CASE Adapter
  BY <1>2, <1>12 DEF Adapter
<1>. QED
  BY <1>12, <1>3, <1>4, <1>6, <1>7, <1>8, <1>9, <1>10, <1>11 DEF Next, GraphStep

-----------------------------------------------------------------------------
LEMMA InitInductive == Init => IInv
BY InitType, InitShape, InitTorn, InitFresh, InitCounted, InitFlagged, InitPaired DEF IInv

LEMMA Inductive == IInv /\ [Next]_vars => IInv'
BY TypeKeeps, ShapeKeeps, TornKeeps, FreshKeeps, CountedKeeps, FlaggedKeeps,
   PairedKeeps DEF IInv

LEMMA Invariance == Spec => []IInv
BY InitInductive, Inductive, PTL DEF Spec

(* The run, its conversation, its counters and its flags stay what the     *)
(* code's state dictionary and its agent_runs row can hold.                *)
THEOREM TypeCorrect == Spec => []TypeOK
<1>1. IInv => TypeOK
  BY DEF IInv
<1>. QED
  BY <1>1, Invariance, PTL

(* However a conversation is condensed, reviewed, replanned, sent back or  *)
(* resumed between two batches, the Messages API is handed every tool use  *)
(* together with its result.                                               *)
THEOREM HistoryPaired == Spec => []RequestsPaired
<1>1. IInv => RequestsPaired
  <2> SUFFICES ASSUME IInv, ~cut PROVE RequestsPaired
    BY DEF RequestsPaired
  <2>1. messages \in Seq(Message) /\ Accepted(ReviewHistory(messages))
    BY DEF IInv, TypeOK, Paired
  <2>2. node \in {"call_llm", "critique_node"} => Accepted(messages)
    BY <2>1 DEF IInv, Shape, Pre, ReviewHistory, Last
  <2>3. ASSUME node = "call_llm", NEW h \in Requests(messages) PROVE Accepted(h)
    BY <2>1, <2>2, <2>3, CondensedIsAccepted DEF Requests
  <2>. QED
    BY <2>1, <2>2, <2>3 DEF RequestsPaired
<1>. QED
  BY <1>1, Invariance, PTL

(* Neither a retry, nor a second pass over a batch, nor one of the first   *)
(* three resumes hands a tool use with side effects to its handler again.  *)
THEOREM SideEffectsOnce == Spec => []HazardousOnce
<1>1. IInv => HazardousOnce
  BY DEF IInv, Fresh, HazardousOnce
<1>. QED
  BY <1>1, Invariance, PTL

(* A run pays for at most max_turns calls and one more for each critique   *)
(* retry, whatever is rejected, replanned or reflected on.                 *)
THEOREM PaidCallsBounded == Spec => []CallsBounded
<1>1. IInv => CallsBounded
  <2> SUFFICES ASSUME IInv PROVE CallsBounded
    OBVIOUS
  <2>1. calls \in Nat /\ retries \in Nat /\ retries <= MaxCritiqueRetries
        /\ MaxTurns \in Nat /\ MaxCritiqueRetries \in Nat
    BY LimitAssumption DEF IInv, TypeOK
  <2>. QED
    BY <2>1 DEF IInv, Counted, CallsBounded
<1>. QED
  BY <1>1, Invariance, PTL

(* A failed quality gate or a question to the user is never lost in a      *)
(* batch: the ended run asks for a human.                                  *)
THEOREM HumanAsked == Spec => []ApprovalRaised
<1>1. IInv => ApprovalRaised
  BY DEF IInv, Flagged, ApprovalRaised
<1>. QED
  BY <1>1, Invariance, PTL

(* No submission claims a check that an edit started after it has made     *)
(* stale, until a fourth resume.                                           *)
THEOREM ClaimsFresh == Spec => ClaimsAreFresh
<1>1. IInv /\ [Next]_vars =>
        [RunTool /\ Head(Due) \in Submits /\ CutInSight
           => (result'.claim => drift' # "edited")]_vars
  <2> SUFFICES ASSUME IInv, RunTool, Head(Due) \in Submits, CutInSight
               PROVE  result'.claim => drift' # "edited"
    OBVIOUS
  <2>1. PICK ok \in BOOLEAN, gate \in BOOLEAN, late \in BOOLEAN :
          Verify(Head(Due), ok, late) /\ Collect(Head(Due), gate)
    BY DEF RunTool
  <2>2. ~Outdated
    BY DEF IInv, RunTool, Torn, Shape, Asking
  <2>3. result'.claim = verified'
    BY <2>1 DEF Collect, IInv, TypeOK
  <2>4. Head(Due) \notin Edits
    BY ToolAssumption
  <2>5. verified' => drift' # "edited"
    BY <2>1, <2>2, <2>4 DEF Verify, Outdated
  <2>. QED
    BY <2>3, <2>5
<1>. QED
  BY <1>1, Invariance, PTL DEF Spec, ClaimsAreFresh

-----------------------------------------------------------------------------
(***************************************************************************)
(* The loop has an end.                                                    *)
(***************************************************************************)
(* Where each node stands.                                                 *)
LEMMA PlaceIs ==
  /\ node = "adapter" => Place = 9
  /\ node = "planner_node" => Place = 8
  /\ node = "memory_hook_node" => Place = 7
  /\ node = "reflection_node" => Place = 6
  /\ node = "execute_tools" => Place = 5
  /\ node = "critique_node" => Place = 4
  /\ node = "replan_node" => Place = 3
  /\ node = "call_llm" => Place = 2
  /\ node = "END" => Place = 1
  /\ node = "finished" => Place = 0
  /\ node = "raised" => Place = 0
BY DEF Place

LEMMA PlaceNext ==
  /\ node' = "planner_node" => Place' = 8
  /\ node' = "memory_hook_node" => Place' = 7
  /\ node' = "reflection_node" => Place' = 6
  /\ node' = "execute_tools" => Place' = 5
  /\ node' = "critique_node" => Place' = 4
  /\ node' = "replan_node" => Place' = 3
  /\ node' = "call_llm" => Place' = 2
  /\ node' = "END" => Place' = 1
  /\ node' = "finished" => Place' = 0
  /\ node' = "raised" => Place' = 0
BY DEF Place

LEMMA AnswerCounts ==
  ASSUME TypeOK, Shape, node = "execute_tools", UNCHANGED batches,
         NEW sub, NEW human, NEW used, Answer(sub, human, used)
  PROVE  \/ Place' < Place
         \/ Place' = Place /\ Len(Due)' < Len(Due)
<1>1. Place = 5
  BY PlaceIs
<1>2. CASE node' = "execute_tools" /\ pending' # <<>> /\ Len(pending') = Len(Due) - 1
  <2>1. Place' = 5
    BY <1>2, PlaceNext
  <2>2. Due' = pending'
    BY <1>2 DEF Due
  <2>3. Len(Due) \in Nat
    BY DueType
  <2>4. Len(Due)' = Len(Due) - 1
    BY <1>2, <2>2
  <2>. QED
    BY <1>1, <2>1, <2>3, <2>4
<1>3. CASE node' \in {"critique_node", "END", "replan_node", "call_llm"}
  <2>1. Place' \in {4, 3, 2, 1}
    BY <1>3, PlaceNext
  <2>. QED
    BY <1>1, <2>1
<1>. QED
  BY <1>2, <1>3, AnswerMoves

(* A run goes through no more nodes than its paid calls allow, of which    *)
(* PaidCallsBounded bounds the number: between two of them each node lies  *)
(* behind the one before it, and a batch gets shorter with each tool use.  *)
THEOREM NoEndlessLoop == Spec => EachNodeCounts
<1> DEFINE Counts ==
      \/ calls' > calls
      \/ calls' = calls /\ Place' < Place
      \/ calls' = calls /\ Place' = Place /\ Len(Due)' < Len(Due)
<1>1. ASSUME IInv, GraphStep PROVE Counts
  <2>1. TypeOK /\ Shape /\ calls \in Nat
    BY <1>1 DEF IInv, TypeOK
  <2>2. CASE PlannerNode
    <3>1. node = "planner_node" /\ node' \in {"memory_hook_node", "call_llm"} /\ calls' = calls
      BY <2>2 DEF PlannerNode
    <3>. QED
      BY <3>1, PlaceIs, PlaceNext
  <2>3. CASE MemoryHookNode
    <3>1. node = "memory_hook_node" /\ node' = "call_llm" /\ calls' = calls
      BY <2>3 DEF MemoryHookNode
    <3>. QED
      BY <3>1, PlaceIs, PlaceNext
  <2>4. CASE StopBeforeCall
    <3>1. node = "call_llm" /\ node' = "END" /\ calls' = calls
      BY <2>4 DEF StopBeforeCall
    <3>. QED
      BY <3>1, PlaceIs, PlaceNext
  <2>5. CASE CallFails \/ CallLLM
    <3>1. calls' = calls + 1
      BY <2>5 DEF CallFails, CallLLM
    <3>. QED
      BY <2>1, <3>1
  <2>6. CASE ReflectionNode
    <3>1. node = "reflection_node" /\ node' = "execute_tools" /\ calls' = calls
      BY <2>6 DEF ReflectionNode
    <3>. QED
      BY <3>1, PlaceIs, PlaceNext
  <2>7. CASE RefuseTool
    <3>1. /\ node = "execute_tools" /\ calls' = calls /\ batches' = batches
          /\ Answer(submitted, HumanApproval, ran)
      BY <2>7 DEF RefuseTool
    <3>. QED
      BY <2>1, <3>1, AnswerCounts
  <2>8. CASE RunTool
    <3>1. node = "execute_tools" /\ calls' = calls /\ batches' = batches
      BY <2>8 DEF RunTool
    <3>. QED
      BY <2>1, <2>8, <3>1, RunAnswers, AnswerCounts
  <2>9. CASE AcceptSubmission
    <3>1. node = "critique_node" /\ node' = "END" /\ calls' = calls
      BY <2>9 DEF AcceptSubmission
    <3>. QED
      BY <3>1, PlaceIs, PlaceNext
  <2>10. CASE SendBack
    <3>1. node = "critique_node" /\ node' \in {"replan_node", "call_llm"} /\ calls' = calls
      BY <2>10, LoopBackIsPre DEF SendBack
    <3>. QED
      BY <3>1, PlaceIs, PlaceNext
  <2>11. CASE ReplanNode
    <3>1. node = "replan_node" /\ node' = "call_llm" /\ calls' = calls
      BY <2>11 DEF ReplanNode
    <3>. QED
      BY <3>1, PlaceIs, PlaceNext
  <2>12. CASE Finish
    <3>1. node = "END" /\ node' = "finished" /\ calls' = calls
      BY <2>12 DEF Finish
    <3>. QED
      BY <3>1, PlaceIs, PlaceNext
  <2>13. CASE Adapter
    <3>1. PICK n \in 0..MaxTurns : calls' = calls + n
      BY <2>13 DEF Adapter
    <3>2. node = "adapter" /\ node' \in {"finished", "raised"}
      BY <2>13 DEF Adapter
    <3>3. Place' < Place
      BY <3>2, PlaceIs, PlaceNext
    <3>4. n \in Nat
      BY LimitAssumption
    <3>. QED
      BY <2>1, <3>1, <3>3, <3>4
  <2>. QED
    BY <1>1, <2>2, <2>3, <2>4, <2>5, <2>6, <2>7, <2>8, <2>9, <2>10, <2>11, <2>12,
       <2>13 DEF GraphStep
<1>2. IInv /\ [Next]_vars => [GraphStep => Counts]_vars
  BY <1>1
<1>. QED
  BY <1>2, Invariance, PTL DEF Spec, EachNodeCounts
=============================================================================
