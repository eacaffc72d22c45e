--------------------------- MODULE EpicFileLocks ----------------------------
(***************************************************************************)
(* The files epics hold (backend/app/pipeline/file_locks.py): a table with *)
(* one row per locked file, UNIQUE on its path.  A row names its epic and  *)
(* expires; it is taken by a reservation of all the files of a plan or of  *)
(* none, and deleted by a release of its epic, or by the next reservation  *)
(* of any epic once it has expired.                                        *)
(*                                                                         *)
(* A reservation is one transaction here.  The rows it inserts are seen by *)
(* nobody before its commit; a reservation that meets them waits for it.   *)
(***************************************************************************)
EXTENDS FiniteSets

CONSTANTS
  Epics,
  Files,      \* repository paths, normalized
  NoEpic      \* the holder of a file that has no row

ASSUME NoEpicAssumption == NoEpic \notin Epics

VARIABLES
  holder,     \* the epic of each file's row
  expired     \* the files whose row is past expires_at

locks == <<holder, expired>>

LocksTypeOK ==
  /\ holder \in [Files -> Epics \union {NoEpic}]
  /\ expired \subseteq {f \in Files : holder[f] # NoEpic}

LocksInit ==
  /\ holder = [f \in Files |-> NoEpic]
  /\ expired = {}

Held(e) == {f \in Files : holder[f] = e}

-----------------------------------------------------------------------------

(* DELETE of the rows past their time, the caller's own included.          *)
Reaped == [f \in Files |-> IF f \in expired THEN NoEpic ELSE holder[f]]

(* Some file of fs is held by another epic.                                *)
Taken(e, fs) == \E f \in fs : Reaped[f] \notin {e, NoEpic}

(* Slip: the files that are free are kept when another one is taken.       *)
ReserveSome(e, fs) ==
  IF fs = {}
    THEN UNCHANGED locks
    ELSE /\ holder' = [f \in Files |-> IF f \in fs /\ Reaped[f] = NoEpic
                                         THEN e ELSE Reaped[f]]
         /\ expired' = {}

(* reserve_epic_files(): reap, renew the rows of the epic, and insert the  *)
(* missing ones, unless one of them is taken: the savepoint then undoes    *)
(* the inserts, and only those.                                            *)
ReserveFiles(e, fs) ==
  IF fs = {}
    THEN UNCHANGED locks
    ELSE /\ holder' = [f \in Files |-> IF f \in fs /\ ~Taken(e, fs)
                                         THEN e ELSE Reaped[f]]
         /\ expired' = {}

(* Slip: the rows of every epic are deleted.                               *)
ReleaseAll(e) ==
  /\ holder' = [f \in Files |-> NoEpic]
  /\ expired' = {}

(* release_epic_files().                                                   *)
ReleaseFiles(e) ==
  /\ holder' = [f \in Files |-> IF holder[f] = e THEN NoEpic ELSE holder[f]]
  /\ expired' = expired \ Held(e)

(* epic_file_lock_ttl_seconds have passed since the row was written.       *)
Expire(f) ==
  /\ holder[f] # NoEpic
  /\ expired' = expired \union {f}
  /\ UNCHANGED holder
=============================================================================
