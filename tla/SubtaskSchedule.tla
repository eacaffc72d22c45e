-------------------------- MODULE SubtaskSchedule ---------------------------
(***************************************************************************)
(* What run_manager() promises about the order of a plan's steps: people   *)
(* may revise or remove steps before work begins; then every step runs at  *)
(* most once, after the steps it depends on, and never beside a step that  *)
(* writes the same files. A plan whose dependencies are in no order keeps  *)
(* all of this but the order. Steps proposed by steps that have ended join *)
(* the plan while nothing runs.                                            *)
(***************************************************************************)
EXTENDS Naturals, FiniteSets

CONSTANTS
  Ids,          \* names of steps
  Files,        \* the paths they declare
  Clashes       \* pairs of paths that cannot be written at once

VARIABLES
  before,       \* for each step of the plan, the steps it depends on
  writes,       \* the paths each step declares
  ordered,      \* the dependencies form an order
  begun,        \* work has begun
  running, ended

vars == <<before, writes, ordered, begun, running, ended>>

Known == DOMAIN before

Dependencies == UNION {[S -> SUBSET Ids] : S \in SUBSET Ids}

Apart(i, j) ==
  /\ writes[i] # {} /\ writes[j] # {}
  /\ \A x \in writes[i], y \in writes[j] :
       <<x, y>> \notin Clashes /\ <<y, x>> \notin Clashes

Init ==
  /\ before \in Dependencies
  /\ writes \in [DOMAIN before -> SUBSET Files]
  /\ ordered \in BOOLEAN
  /\ begun = FALSE
  /\ running = {} /\ ended = {}

(* A person gives step i other dependencies and takes out the steps of R,  *)
(* which none of the others depends on; the others keep their own.         *)
Revise(i, R) ==
  /\ ~begun
  /\ DOMAIN before' = Known \ R
  /\ before' \in [Known \ R -> SUBSET Ids]
  /\ writes' = [j \in Known \ R |-> writes[j]]
  /\ \A j \in Known \ (R \cup {i}) : before'[j] = before[j] /\ before[j] \cap R = {}
  /\ ordered => ordered'
  /\ ordered' \in BOOLEAN
  /\ UNCHANGED <<begun, running, ended>>

Begin ==
  /\ ~begun
  /\ begun' = TRUE
  /\ UNCHANGED <<before, writes, ordered, running, ended>>

Start(S) ==
  /\ begun
  /\ running' = running \cup S
  /\ S # {} /\ S \subseteq Known \ (running \cup ended)
  /\ ordered => \A i \in S : before[i] \subseteq ended
  /\ \A i, j \in S \cup running : i # j => Apart(i, j)
  /\ UNCHANGED <<before, writes, ordered, begun, ended>>

End(i) ==
  /\ i \in running
  /\ running' = running \ {i}
  /\ ended' = ended \cup {i}
  /\ UNCHANGED <<before, writes, ordered, begun>>

(* A proposal joins, after the step that made it; an order is not lost.    *)
Add(i) ==
  /\ begun /\ running = {}
  /\ i \in Ids \ Known
  /\ \E parent \in ended :
       /\ before' \in [Known \cup {i} -> SUBSET Ids]
       /\ before'[i] = {parent}
       /\ ordered => ordered' /\ \A j \in Known : before'[j] = before[j]
  /\ ordered' \in BOOLEAN
  /\ writes' \in [Known \cup {i} -> SUBSET Files]
  /\ \A j \in Known : writes'[j] = writes[j]
  /\ UNCHANGED <<begun, running, ended>>

Next ==
  \/ \E i \in Ids, R \in SUBSET Ids : Revise(i, R)
  \/ \E S \in SUBSET Ids : Start(S)
  \/ \E i \in Ids : End(i) \/ Add(i)
  \/ Begin

Spec == Init /\ [][Next]_vars
-----------------------------------------------------------------------------
TypeOK ==
  /\ before \in Dependencies
  /\ writes \in [Known -> SUBSET Files]
  /\ ordered \in BOOLEAN /\ begun \in BOOLEAN
  /\ running \subseteq Known /\ ended \subseteq Known
  /\ ~begun => running = {} /\ ended = {}

(* No step that runs has ended before: none is started twice.              *)
Once == running \cap ended = {}

(* Steps at work at the same time write apart.                             *)
WritersApart == \A i, j \in running : i # j => Apart(i, j)

(* Whatever runs, the steps it depends on have ended.                      *)
InOrder == ordered => \A i \in running : before[i] \subseteq ended
=============================================================================
