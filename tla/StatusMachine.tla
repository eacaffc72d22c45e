---------------------------- MODULE StatusMachine ----------------------------
(***************************************************************************)
(* What the status of one task (dev_tasks.status) promises to everybody    *)
(* who looks at it, whoever moves it: VALID_TRANSITIONS of                 *)
(* backend/app/db/models.py, and POST /restart, which may take any task    *)
(* that is not being worked on back to pending.                            *)
(***************************************************************************)
EXTENDS FiniteSets

VARIABLE status

Statuses == {"pending", "planning", "ready_for_review", "coding", "testing",
             "rejected", "blocked", "completed", "failed", "cancelled"}

Valid ==
  [s \in Statuses |->
     CASE s = "pending"  -> {"planning", "blocked", "failed", "cancelled"}
       [] s = "planning" -> {"ready_for_review", "blocked", "rejected",
                             "failed", "cancelled"}
       [] s = "ready_for_review" -> {"coding", "blocked", "rejected", "failed",
                                     "completed", "cancelled"}
       [] s = "coding"   -> {"testing", "blocked", "failed", "cancelled"}
       [] s = "testing"  -> {"ready_for_review", "blocked", "failed",
                             "cancelled"}
       [] s = "rejected" -> {"planning", "blocked", "cancelled"}
       [] s = "blocked"  -> {"planning", "coding", "failed", "cancelled"}
       [] OTHER -> {}]

(* The statuses transition_task(new) may start from. *)
Sources(new) == {s \in Statuses : new \in Valid[s]}

(* _ACTIVE_STATUSES of restart_task. *)
Active == {"planning", "coding", "testing"}

Terminal == {s \in Statuses : Valid[s] = {}}

Init == status = "pending"

Move(new) ==
  /\ status \in Sources(new)
  /\ status' = new

Reset ==
  /\ status \in Statuses \ Active
  /\ status' = "pending"

Next == Reset \/ \E new \in Statuses : Move(new)

Spec == Init /\ [][Next]_status
=============================================================================
