------------------------- MODULE EpicManager_proofs -------------------------
(***************************************************************************)
(* Proofs about EpicManager, for any number of epics, files, jobs and      *)
(* restarts, and one request at a time (OneUser): api/epics.py reads the   *)
(* status of an epic and writes it later, so two requests at once can      *)
(* start two jobs, and nothing below would hold.                           *)
(*                                                                         *)
(* The argument rests on the status of an epic telling where its one job   *)
(* stands (StatusFits, OnlyJob), though both are written without a         *)
(* condition.  The rest are facts about rows and plans for each status.    *)
(***************************************************************************)
EXTENDS EpicManager, SequenceTheorems, WellFoundedInduction, TLAPS

OneUser == \A u, v \in Users : u = v

Busy(j) == ~At(j, "none")

PlanPlaces == {"planning", "checking", "reserving", "reviewing"}

Waiting == {"pending_policy_approval", "pending_plan_approval"}

(* The statuses of an epic that has a plan it is going to code.            *)
Planned == Waiting \union OfCoding

(* The status of an epic while its job stands at a place.                  *)
Fits(place, s) ==
  /\ place = "estimating" => s = "pending"
  /\ place \in PlanPlaces => s = "planning"
  /\ place \in {"loading", "loaded"} => s = "plan_approved"
  /\ place = "coding" => s = "coding"
  /\ place = "releasing" =>
       s \in {"ready_for_review", "halted", "approved", "rejected"}

StatusFits ==
  \A j \in Jobs : Busy(j) => Fits(job[j].at, status[job[j].epic])

(* The statuses in which a job has to be at work.                          *)
AtWork == {"pending", "planning"} \union OfCoding

OnlyJob ==
  \A j, k \in Jobs : Busy(j) /\ Busy(k) /\ job[j].epic = job[k].epic => j = k

(* An epic whose status says so has a job, before the first restart.       *)
Served ==
  \A e \in Epics :
    status[e] \in AtWork /\ crashes = 0
      => \E j \in Jobs : Busy(j) /\ job[j].epic = e

(* The status a request has read is not written by anybody else.           *)
RequestFits ==
  \A u \in Users :
    /\ request[u].at = "answer" =>
         status[request[u].epic] \in Accepted[request[u].kind]
    /\ request[u].at = "close" => status[request[u].epic] = "rejected"

LastPlans(e) ==
  children[e] # <<>> /\ children[e][Len(children[e])] = "planning"

(* The newest child task waits until its plan is loaded.                   *)
ChildWaits ==
  /\ \A e \in Epics : status[e] \in Waiting => LastPlans(e)
  /\ \A j \in Jobs :
       job[j].at \in PlanPlaces \union {"loading"} => LastPlans(job[j].epic)

(* A plan is saved once.                                                   *)
NotPlanned ==
  \A e \in Epics :
    status[e] \in {"proposed", "pending", "planning", "pending_cost_approval"}
      => planned[e] = {}

HeldOrLost(e, f) ==
  holder[f] = e \/ \E guarded \in BOOLEAN : <<e, f, guarded>> \in lost

(* Reserved files are held from the reservation to the end of the coding.  *)
PlanLocked ==
  /\ \A e \in Epics :
       status[e] \in Planned => \A f \in planned[e] : HeldOrLost(e, f)
  /\ \A j \in Jobs :
       job[j].at \in {"reviewing", "loaded", "coding"} =>
         \A f \in job[j].files : HeldOrLost(job[j].epic, f)

(* A reservation follows a look at the plans that met no other epic's.     *)
UnseenAll ==
  \A j \in Jobs : At(j, "reserving") => job[j].unseen = Epics \ {job[j].epic}

(* Epic e is past the look at the plans of others, with f in its plan.     *)
Claims(e, f) ==
  \/ status[e] \in Planned /\ f \in planned[e]
  \/ \E j \in Jobs :
       /\ job[j].at \in {"reserving", "reviewing"}
       /\ job[j].epic = e
       /\ f \in job[j].files

(* A row is lost under the eyes of the guard only after the plan is coded, *)
GuardedLate ==
  \A e \in Epics, f \in Files :
    <<e, f, TRUE>> \in lost =>
      status[e] \in {"coding", "ready_for_review", "approved", "rejected",
                     "halted"}

(* and then nobody else gets as far as claiming the file.                  *)
GuardHolds ==
  \A e, o \in Epics, f \in Files :
    /\ e # o
    /\ status[e] = "coding"
    /\ f \in planned[e]
    /\ <<e, f, TRUE>> \in lost
    /\ Claims(o, f)
    => <<e, f, FALSE>> \in lost \/ <<o, f, FALSE>> \in lost

(* Who may hold a file.                                                    *)
HeldWhile ==
  \A e \in Epics, f \in Files :
    holder[f] = e =>
      \/ e \in failed \/ crashes # 0
      \/ status[e] \in Planned
      \/ \E j \in Jobs :
           job[j].at \in {"reviewing", "releasing"} /\ job[j].epic = e
      \/ \E u \in Users : request[u].at = "close" /\ request[u].epic = e

InStep == StatusFits /\ OnlyJob /\ Served /\ RequestFits

IInv ==
  /\ TypeOK /\ InStep
  /\ ChildWaits /\ NotPlanned /\ PlanLocked
  /\ UnseenAll /\ GuardedLate /\ GuardHolds
  /\ HeldWhile

-----------------------------------------------------------------------------

JobRecords == [at : Places, epic : Epics, files : SUBSET Files,
               child : 0..MaxPlans, ok : BOOLEAN, unseen : SUBSET Epics]

RequestRecords == [at : {"answer", "close"}, epic : Epics,
                   kind : DOMAIN Accepted]

(* A job that is busy has all its fields, and so has a request.            *)
LEMMA Fields ==
  ASSUME TypeOK
  PROVE  /\ \A j \in Jobs : Busy(j) => job[j] \in JobRecords
         /\ \A j \in Jobs : ~Busy(j) => job[j] = NoJob
         /\ \A u \in Users : request[u].at # "none" => request[u] \in RequestRecords
         /\ \A u \in Users : request[u].at = "none" => request[u] = NoRequest
BY SMTT(30) DEF TypeOK, Busy, At, NoJob, NoRequest, JobRecords, RequestRecords, Places

(* A launch takes a free place and leaves the other jobs alone.            *)
LEMMA Launched ==
  ASSUME TypeOK, NEW e \in Epics, NEW place \in Places, Launch(e, place)
  PROVE  \E j \in Jobs :
           /\ ~Busy(j)
           /\ job' = [job EXCEPT ![j] = [at |-> place, epic |-> e, files |-> {},
                                child |-> 0, ok |-> FALSE, unseen |-> {}]]
           /\ job'[j] \in JobRecords
<1>1. PICK j \in Jobs :
        /\ At(j, "none")
        /\ job' = [job EXCEPT ![j] = [at |-> place, epic |-> e, files |-> {},
                                     child |-> 0, ok |-> FALSE, unseen |-> {}]]
  BY DEF Launch
<1>2. job'[j] = [at |-> place, epic |-> e, files |-> {},
                 child |-> 0, ok |-> FALSE, unseen |-> {}]
  BY <1>1 DEF TypeOK
<1>3. job'[j] \in JobRecords
  BY <1>2, BoundsAssumption DEF JobRecords
<1>. QED
  BY <1>1, <1>3 DEF Busy

(* A set of naturals that is not empty has a least one,                    *)
LEMMA LeastNatural ==
  ASSUME NEW T \in SUBSET Nat, T # {}
  PROVE  \E x \in T : \A y \in T : x <= y
<1> DEFINE R == {ss \in Nat \X Nat : ss[1] < ss[2]}
<1>1. IsWellFoundedOn(R, Nat)
  BY NatLessThanWellFounded DEF OpToRel
<1>2. PICK x \in T : \A y \in T : ~ (<<y, x>> \in R)
  <2> HIDE DEF R
  <2>. QED
    BY <1>1, WFMin
<1>3. \A y \in T : ~ (y < x)
  BY <1>2
<1>. QED
  BY <1>3

(* and a bounded one a greatest.                                           *)
LEMMA GreatestNatural ==
  ASSUME NEW n \in Nat, NEW T \in SUBSET (1..n), T # {}
  PROVE  \E i \in T : \A k \in T : k <= i
<1> DEFINE back == {n - i : i \in T}
<1>1. \A i \in T : i \in Nat /\ n - i \in Nat
  OBVIOUS
<1>2. back \in SUBSET Nat /\ back # {}
  BY <1>1
<1>3. PICK b \in back : \A c \in back : b <= c
  BY <1>2, LeastNatural
<1>4. PICK i \in T : b = n - i
  BY <1>3
<1>5. ASSUME NEW k \in T PROVE k <= i
  <2>1. n - k \in back
    OBVIOUS
  <2>2. n - i <= n - k
    BY <1>3, <1>4, <2>1
  <2>. QED
    BY <1>1, <2>2
<1>. QED
  BY <1>5

(* The newest child task is one of the epic's, if it has a live one.       *)
LEMMA NewestChildType ==
  ASSUME TypeOK, NEW e \in Epics
  PROVE  NewestChild(e) \in 0..MaxPlans
<1> DEFINE live == {i \in DOMAIN children[e] : children[e][i] # "cancelled"}
           n == Len(children[e])
<1>1. n \in Nat /\ n <= MaxPlans /\ live \in SUBSET (1..n) /\ MaxPlans \in Nat
  BY BoundsAssumption DEF TypeOK
<1>2. CASE live = {}
  BY <1>1, <1>2 DEF NewestChild
<1>3. CASE live # {}
  <2>1. PICK i \in live : \A k \in live : k <= i
    BY <1>1, <1>3, GreatestNatural
  <2>2. NewestChild(e) \in live
    BY <1>3, <2>1 DEF NewestChild
  <2>. QED
    BY <1>1, <2>2
<1>. QED
  BY <1>2, <1>3

(* A child task that moves leaves the children of a type.                  *)
LEMMA MoveChildType ==
  ASSUME children \in [Epics -> Seq(ChildStatuses)],
         \A e \in Epics : Len(children[e]) <= MaxPlans,
         NEW e \in Epics, NEW i, NEW from, NEW to \in ChildStatuses,
         MoveChild(e, i, from, to)
  PROVE  /\ children' \in [Epics -> Seq(ChildStatuses)]
         /\ \A o \in Epics : Len(children'[o]) = Len(children[o])
         /\ \A o \in Epics \ {e} : children'[o] = children[o]
<1>1. CASE children' = children
  BY <1>1
<1>2. CASE children' = [children EXCEPT ![e][i] = to]
  <2>1. CASE i \in 1..Len(children[e])
    <3>1. /\ [children[e] EXCEPT ![i] = to] \in Seq(ChildStatuses)
          /\ Len([children[e] EXCEPT ![i] = to]) = Len(children[e])
      BY <2>1, ExceptSeq
    <3>. QED
      BY <1>2, <3>1
  <2>2. CASE i \notin 1..Len(children[e])
    <3>1. [children[e] EXCEPT ![i] = to] = children[e]
      BY <2>2
    <3>. QED
      BY <1>2, <3>1
  <2>. QED
    BY <2>1, <2>2
<1>. QED
  BY <1>1, <1>2 DEF MoveChild

-----------------------------------------------------------------------------
(* The locks.                                                              *)

(* The locks keep their type.                                              *)
LEMMA LocksType ==
  ASSUME LocksTypeOK, NEW e \in Epics, NEW fs,
         ReserveFiles(e, fs) \/ ReleaseFiles(e) \/ UNCHANGED locks
  PROVE  LocksTypeOK'
BY NoEpicAssumption
   DEF LocksTypeOK, ReserveFiles, ReleaseFiles, Reaped, Taken, Held, locks

(* What a reservation takes away is recorded with its epic.                *)
LEMMA LostType ==
  ASSUME TypeOK, NEW e \in Epics, NEW fs, Reserve(e, fs)
  PROVE  lost' \subseteq Epics \X Files \X BOOLEAN
<1>1. \A f \in expired : f \in Files /\ holder[f] \in Epics
  BY DEF TypeOK, LocksTypeOK
<1>2. \A f \in expired : Guarded(f) \in BOOLEAN
  BY DEF Guarded
<1>. QED
  BY <1>1, <1>2 DEF TypeOK, Reserve

(* A row of an epic goes to another only past its time, and is then lost.  *)
LEMMA ReserveKeeps ==
  ASSUME TypeOK, NEW e \in Epics, NEW fs, Reserve(e, fs)
  PROVE  /\ lost \subseteq lost'
         /\ \A o \in Epics, f \in Files :
              HeldOrLost(o, f) => HeldOrLost(o, f)'
<1>1. lost \subseteq lost'
  BY DEF Reserve
<1>2. ASSUME NEW o \in Epics, NEW f \in Files, HeldOrLost(o, f)
      PROVE  HeldOrLost(o, f)'
  <2>1. CASE holder[f] # o
    BY <1>1, <1>2, <2>1 DEF HeldOrLost
  <2>2. CASE holder[f] = o /\ holder'[f] # o
    <3>1. fs # {}
      BY <2>2 DEF Reserve, ReserveFiles, locks
    <3>2. f \in expired
      BY <2>2, <3>1, NoEpicAssumption
         DEF Reserve, ReserveFiles, Reaped, Taken
    <3>3. <<o, f, Guarded(f)>> \in lost'
      BY <2>2, <3>2 DEF Reserve
    <3>4. Guarded(f) \in BOOLEAN
      BY DEF Guarded
    <3>. QED
      BY <3>3, <3>4 DEF HeldOrLost
  <2>3. CASE holder'[f] = o
    BY <2>3 DEF HeldOrLost
  <2>. QED
    BY <2>1, <2>2, <2>3
<1>. QED
  BY <1>1, <1>2

(* A reservation that is not refused holds its files.                      *)
LEMMA ReserveTakes ==
  ASSUME TypeOK, NEW e \in Epics, NEW fs \in SUBSET Files,
         Reserve(e, fs), ~Taken(e, fs)
  PROVE  \A f \in fs : holder'[f] = e
BY DEF Reserve, ReserveFiles

(* Nobody else holds more after a reservation, and nobody at all after one *)
(* that is refused.                                                        *)
LEMMA ReserveGives ==
  ASSUME TypeOK, NEW e \in Epics, NEW fs \in SUBSET Files, Reserve(e, fs),
         NEW o \in Epics, NEW f \in Files, holder'[f] = o, holder[f] # o
  PROVE  o = e /\ ~Taken(e, fs)
BY NoEpicAssumption DEF Reserve, ReserveFiles, Reaped, locks

(* A release takes the rows of its epic only, all of them.                 *)
LEMMA ReleaseKeeps ==
  ASSUME TypeOK, NEW e \in Epics, ReleaseFiles(e), lost' = lost
  PROVE  /\ \A f \in Files : holder'[f] # e
         /\ \A o \in Epics \ {e}, f \in Files :
              HeldOrLost(o, f) => HeldOrLost(o, f)'
         /\ \A o \in Epics, f \in Files : holder'[f] = o => holder[f] = o
BY NoEpicAssumption DEF TypeOK, LocksTypeOK, ReleaseFiles, HeldOrLost

-----------------------------------------------------------------------------
(* Types.                                                                  *)

(* What is left to show once the steps of a job keep its record's type.    *)
LEMMA JobType ==
  ASSUME TypeOK, NEW j \in Jobs, NEW r \in {NoJob} \union JobRecords,
         job' = [job EXCEPT ![j] = r]
  PROVE  job' \in [Jobs -> {NoJob} \union JobRecords]
BY DEF TypeOK, JobRecords

(* Every step keeps the values of the variables.                           *)
LEMMA TypeInvariant == TypeOK /\ [Next]_vars => TypeOK'
<1> SUFFICES ASSUME TypeOK, [Next]_vars PROVE TypeOK'
  OBVIOUS
<1>a. TypeOK <=> /\ LocksTypeOK
                 /\ status \in [Epics -> Statuses]
                 /\ planned \in [Epics -> SUBSET Files]
                 /\ children \in [Epics -> Seq(ChildStatuses)]
                 /\ \A e \in Epics : Len(children[e]) <= MaxPlans
                 /\ job \in [Jobs -> {NoJob} \union JobRecords]
                 /\ request \in [Users -> {NoRequest} \union RequestRecords]
                 /\ crashes \in 0..MaxCrashes
                 /\ lost \subseteq Epics \X Files \X BOOLEAN
                 /\ failed \subseteq Epics
  BY DEF TypeOK, JobRecords, RequestRecords
<1> USE DEF history, SetStatus, Done, EndJob
<1>1. ASSUME NEW e \in Epics, Start(e) PROVE TypeOK'
  <2>1. PICK j \in Jobs, r \in JobRecords : job' = [job EXCEPT ![j] = r]
    <3>1. Launch(e, "estimating")
      BY <1>1 DEF Start
    <3>. QED
      BY <3>1, Launched, <1>a DEF Places
  <2>. QED
    BY <1>1, <1>a, <2>1, LocksType DEF Start, TypeOK, Statuses, JobRecords
<1>2. ASSUME NEW u \in Users, NEW e \in Epics, Ask(u, e) PROVE TypeOK'
  BY <1>2, LocksType DEF Ask, TypeOK
<1>3. ASSUME NEW u \in Users, Respond(u) PROVE TypeOK'
  <2>1. /\ request[u] \in RequestRecords
        /\ request[u].epic \in Epics
    BY <1>3, Fields DEF Respond, ApproveCost, ApprovePlan, ApprovePolicy,
         Approve, Reject, Close, Answering, RequestRecords
  <2>2. CASE ApproveCost(u) \/ ApprovePlan(u)
    <3>1. PICK j \in Jobs, r \in JobRecords : job' = [job EXCEPT ![j] = r]
      BY <2>1, <2>2, Launched DEF ApproveCost, ApprovePlan, Places
    <3>2. /\ job' \in [Jobs -> {NoJob} \union JobRecords]
          /\ status' \in [Epics -> Statuses]
          /\ request' \in [Users -> {NoRequest} \union RequestRecords]
      BY <2>1, <2>2, <3>1, <1>a DEF ApproveCost, ApprovePlan, Statuses
    <3>. QED
      BY <2>1, <2>2, <3>2, LocksType
         DEF ApproveCost, ApprovePlan, TypeOK, RequestRecords, JobRecords
  <2>3. CASE ApprovePolicy(u) \/ Approve(u)
    <3>1. /\ status' \in [Epics -> Statuses]
          /\ request' \in [Users -> {NoRequest} \union RequestRecords]
      BY <2>1, <2>3, <1>a DEF ApprovePolicy, Approve, Statuses
    <3>. QED
      BY <2>1, <2>3, <3>1, LocksType
         DEF ApprovePolicy, Approve, TypeOK, RequestRecords
  <2>4. CASE Reject(u)
    <3>1. /\ status' \in [Epics -> Statuses]
          /\ request' \in [Users -> {NoRequest} \union RequestRecords]
      <4>1. [request[u] EXCEPT !.at = "close"] \in RequestRecords
        BY <2>1 DEF RequestRecords
      <4>. QED
        BY <2>1, <2>4, <4>1, <1>a DEF Reject, Statuses
    <3>. QED
      BY <2>1, <2>4, <3>1, LocksType DEF Reject, TypeOK, RequestRecords
  <2>5. CASE Close(u)
    <3>1. /\ children' \in [Epics -> Seq(ChildStatuses)]
          /\ \A e \in Epics : Len(children'[e]) <= MaxPlans
      BY <2>1, <2>5, MoveChildType DEF Close, TypeOK, ChildStatuses
    <3>. QED
      BY <2>1, <2>5, <3>1, LocksType DEF Close, TypeOK
  <2>. QED
    BY <1>3, <2>2, <2>3, <2>4, <2>5 DEF Respond
<1>4. ASSUME NEW j \in Jobs, JobStep(j) \/ Propose(j) \/ Fail(j) PROVE TypeOK'
  <2>1. /\ job[j] \in JobRecords
        /\ job[j].epic \in Epics /\ job[j].files \in SUBSET Files
    BY <1>4, Fields DEF JobStep, Estimate, Plan, Check, Lock, Review, Load,
         Code, Propose, Finish, Release, Fail, Busy, At, JobRecords
  <2>2. \A s \in Statuses : SetStatus(job[j].epic, s) =>
          status' \in [Epics -> Statuses]
    BY <2>1 DEF TypeOK
  <2>3. \A r \in {NoJob} \union JobRecords :
          job' = [job EXCEPT ![j] = r] =>
            job' \in [Jobs -> {NoJob} \union JobRecords]
    BY JobType
  <2>4. CASE Estimate(j)
    <3>1. CASE job' = [job EXCEPT ![j] = NoJob] /\ UNCHANGED children
      BY <2>1, <2>2, <2>3, <2>4, <3>1, <1>a, LocksType
         DEF Estimate, TypeOK, JobRecords, Statuses
    <3>2. CASE /\ Len(children[job[j].epic]) < MaxPlans
               /\ SetStatus(job[j].epic, "planning")
               /\ children' = [children EXCEPT
                                 ![job[j].epic] = Append(@, "planning")]
               /\ job' = [job EXCEPT
                             ![j].at = "planning",
                             ![j].child = Len(children[job[j].epic]) + 1]
      <4>1. /\ children' \in [Epics -> Seq(ChildStatuses)]
            /\ \A e \in Epics : Len(children'[e]) <= MaxPlans
        BY <2>1, <3>2, BoundsAssumption, AppendProperties
           DEF TypeOK, ChildStatuses
      <4>2. job' \in [Jobs -> {NoJob} \union JobRecords]
        <5>1. Len(children[job[j].epic]) + 1 \in 0..MaxPlans
          BY <2>1, <3>2, BoundsAssumption DEF TypeOK
        <5>2. [job[j] EXCEPT !.at = "planning",
                             !.child = Len(children[job[j].epic]) + 1]
                \in JobRecords
          BY <2>1, <5>1 DEF JobRecords, Places
        <5>. QED
          BY <3>2, <5>2, <1>a
      <4>. QED
        BY <2>1, <2>2, <2>4, <3>2, <4>1, <4>2, <1>a, LocksType
           DEF Estimate, TypeOK, JobRecords, Statuses
    <3>. QED
      BY <2>4, <3>1, <3>2 DEF Estimate
  <2>5. CASE Plan(j)
    <3>1. /\ children' \in [Epics -> Seq(ChildStatuses)]
          /\ \A e \in Epics : Len(children'[e]) <= MaxPlans
      BY <2>1, <2>5, MoveChildType DEF Plan, TypeOK, ChildStatuses
    <3>2. job' \in [Jobs -> {NoJob} \union JobRecords]
      <4>1. \A fs \in Plans : [job[j] EXCEPT !.at = "checking", !.files = fs]
                                \in JobRecords
        BY <2>1, PlansAssumption DEF JobRecords, Places
      <4>2. \/ EndJob(j)
            \/ \E fs \in Plans :
                 job' = [job EXCEPT ![j] =
                           [job[j] EXCEPT !.at = "checking", !.files = fs]]
        BY <2>5, <1>a DEF Plan
      <4>. QED
        BY <2>3, <4>1, <4>2
    <3>. QED
      BY <2>1, <2>2, <2>5, <3>1, <3>2, <1>a, LocksType
         DEF Plan, TypeOK, JobRecords, Statuses
  <2>6. CASE Check(j)
    <3>1. \A U \in SUBSET Epics :
            [job[j] EXCEPT !.at = "reserving", !.unseen = U] \in JobRecords
      BY <2>1 DEF JobRecords, Places
    <3>2. job' \in [Jobs -> {NoJob} \union JobRecords]
      <4>1. \/ EndJob(j)
            \/ \E U \in SUBSET Epics :
                 job' = [job EXCEPT ![j] =
                           [job[j] EXCEPT !.at = "reserving", !.unseen = U]]
        BY <2>6, <1>a DEF Check
      <4>. QED
        BY <2>3, <3>1, <4>1
    <3>. QED
      BY <2>1, <2>2, <2>6, <3>2, <1>a, LocksType
         DEF Check, TypeOK, JobRecords, Statuses
  <2>7. CASE Lock(j)
    <3>1. [job[j] EXCEPT !.at = "reviewing", !.unseen = {}] \in JobRecords
      BY <2>1 DEF JobRecords, Places
    <3>2. job' \in [Jobs -> {NoJob} \union JobRecords]
      <4>1. \/ EndJob(j)
            \/ job' = [job EXCEPT ![j] =
                         [job[j] EXCEPT !.at = "reviewing", !.unseen = {}]]
        BY <2>7, <1>a DEF Lock
      <4>. QED
        BY <2>3, <3>1, <4>1
    <3>3. /\ LocksTypeOK' /\ lost' \subseteq Epics \X Files \X BOOLEAN
      BY <2>1, <2>7, LostType, LocksType DEF Lock, Reserve, TypeOK
    <3>. QED
      BY <2>1, <2>2, <2>7, <3>2, <3>3, <1>a
         DEF Lock, TypeOK, JobRecords, Statuses
  <2>8. CASE Review(j)
    BY <2>1, <2>2, <2>8, <2>3, LocksType
       DEF Review, TypeOK, JobRecords, Statuses
  <2>9. CASE Load(j)
    <3>1. CASE Raise(j, OfCoding) /\ UNCHANGED children
      BY <2>1, <2>3, <2>9, <3>1, LocksType
         DEF Load, Raise, TypeOK, JobRecords, Statuses
    <3>2. CASE /\ NewestChild(job[j].epic) \in 0..MaxPlans
               /\ MoveChild(job[j].epic, NewestChild(job[j].epic),
                            {"planning"}, "coding")
               /\ job' = [job EXCEPT ![j].at = "loaded",
                                     ![j].child = NewestChild(job[j].epic),
                                     ![j].files = planned[job[j].epic]]
               /\ UNCHANGED <<status, failed>>
      <4>1. /\ children' \in [Epics -> Seq(ChildStatuses)]
            /\ \A e \in Epics : Len(children'[e]) <= MaxPlans
        BY <2>1, <3>2, MoveChildType DEF TypeOK, ChildStatuses
      <4>2. [job[j] EXCEPT !.at = "loaded",
                           !.child = NewestChild(job[j].epic),
                           !.files = planned[job[j].epic]] \in JobRecords
        BY <2>1, <3>2 DEF TypeOK, JobRecords, Places
      <4>3. job' \in [Jobs -> {NoJob} \union JobRecords]
        BY <2>3, <3>2, <4>2, <1>a
      <4>. QED
        BY <2>1, <2>9, <3>2, <4>1, <4>3, LocksType
           DEF Load, TypeOK, JobRecords
    <3>. QED
      BY <2>1, <2>9, <3>1, <3>2, NewestChildType DEF Load, TypeOK
  <2>10. CASE Code(j)
    <3>1. [job[j] EXCEPT !.at = "coding"] \in JobRecords
      BY <2>1 DEF JobRecords, Places
    <3>. QED
      BY <2>1, <2>2, <2>3, <2>10, <3>1, <1>a, LocksType
         DEF Code, GoOn, TypeOK, JobRecords, Statuses
  <2>11. CASE Propose(j)
    <3>1. PICK fs \in Plans : 
            /\ Reserve(job[j].epic, {f \in fs : holder[f] # job[j].epic})
            /\ \/ job' = job
               \/ job' = [job EXCEPT ![j].files = @ \union fs]
      BY <2>11 DEF Propose
    <3>2. [job[j] EXCEPT !.files = @ \union fs] \in JobRecords
      BY <2>1, PlansAssumption DEF JobRecords
    <3>3. job' \in [Jobs -> {NoJob} \union JobRecords]
      BY <2>3, <3>1, <3>2, <1>a
    <3>4. /\ LocksTypeOK' /\ lost' \subseteq Epics \X Files \X BOOLEAN
      BY <2>1, <3>1, LostType, LocksType DEF Reserve, TypeOK
    <3>. QED
      BY <2>11, <3>3, <3>4 DEF Propose, TypeOK, JobRecords
  <2>12. CASE Finish(j)
    <3>1. \A ok \in BOOLEAN :
            [job[j] EXCEPT !.at = "releasing", !.ok = ok] \in JobRecords
      BY <2>1 DEF JobRecords, Places
    <3>2. job' \in [Jobs -> {NoJob} \union JobRecords]
      BY <2>3, <2>12, <3>1, <1>a DEF Finish
    <3>. QED
      BY <2>1, <2>12, <3>2, LocksType
         DEF Finish, TypeOK, JobRecords, Statuses
  <2>13. CASE Release(j)
    <3>1. /\ children' \in [Epics -> Seq(ChildStatuses)]
          /\ \A e \in Epics : Len(children'[e]) <= MaxPlans
      BY <2>1, <2>13, MoveChildType DEF Release, TypeOK, ChildStatuses
    <3>. QED
      BY <2>1, <2>3, <2>13, <3>1, LocksType
         DEF Release, TypeOK, JobRecords, Statuses
  <2>14. CASE Fail(j)
    BY <2>1, <2>3, <2>14, LocksType
       DEF Fail, Raise, TypeOK, JobRecords, Statuses
  <2>. QED
    BY <1>4, <2>4, <2>5, <2>6, <2>7, <2>8, <2>9, <2>10, <2>11, <2>12,
       <2>13, <2>14 DEF JobStep
<1>5. CASE Crash
  <2>1. crashes' \in 0..MaxCrashes
    BY <1>5, BoundsAssumption DEF Crash, TypeOK
  <2>2. LocksTypeOK'
    BY <1>5 DEF Crash, TypeOK, LocksTypeOK, locks
  <2>. QED
    BY <1>5, <2>1, <2>2 DEF Crash, TypeOK
<1>6. ASSUME NEW f \in Files, Lapse(f) PROVE TypeOK'
  BY <1>6 DEF Lapse, Expire, TypeOK, LocksTypeOK
<1>7. CASE UNCHANGED vars
  BY <1>7 DEF vars, locks, LocksTypeOK, TypeOK
<1>. QED
  BY <1>1, <1>2, <1>3, <1>4, <1>5, <1>6, <1>7 DEF Next

(* The newest child task, when the last one waits.                         *)
LEMMA NewestPlans ==
  ASSUME TypeOK, NEW e \in Epics, LastPlans(e)
  PROVE  NewestChild(e) = Len(children[e]) /\ NewestChild(e) # 0
<1> DEFINE live == {i \in DOMAIN children[e] : children[e][i] # "cancelled"}
           n == Len(children[e])
<1>1. n \in Nat /\ live \in SUBSET (1..n) /\ n \in live
  BY DEF TypeOK, LastPlans
<1>2. NewestChild(e) = CHOOSE i \in live : \A k \in live : k <= i
  BY <1>1 DEF NewestChild
<1>3. \A k \in live : k <= n
  BY <1>1
<1>4. \A i \in live : (\A k \in live : k <= i) => i = n
  BY <1>1, <1>3
<1>. QED
  BY <1>1, <1>2, <1>3, <1>4

-----------------------------------------------------------------------------
(* The status of an epic and its job go together.                          *)

(* A proposal leaves its job where it is.                                  *)
LEMMA ProposeStays ==
  ASSUME TypeOK, NEW j \in Jobs, Propose(j)
  PROVE  job'[j].at = "coding"
<1>1. job[j] \in JobRecords /\ job[j].at = "coding" /\ DOMAIN job = Jobs
  BY Fields DEF Propose, Busy, At, TypeOK
<1>2. PICK fs : \/ job' = job
                \/ job' = [job EXCEPT ![j].files = @ \union fs]
  BY DEF Propose
<1>. QED
  BY <1>1, <1>2 DEF JobRecords

(* What any step of job j does: it ends and leaves its epic to people, or  *)
(* goes on with the status its new place asks for.                         *)
Works(j) ==
  LET e == job[j].epic
  IN /\ Busy(j) /\ e \in Epics
     /\ \A k \in Jobs \ {j} : job'[k] = job[k]
     /\ \A o \in Epics \ {e} : status'[o] = status[o] /\ planned'[o] = planned[o]
     /\ UNCHANGED <<request, crashes>>
     /\ \/ job'[j] = NoJob /\ status'[e] \notin AtWork
        \/ /\ job'[j].at \in Places /\ job'[j].epic = e
           /\ Fits(job'[j].at, status'[e])
     /\ status'[e] # status[e] => status[e] \in AtWork

(* Every step of a job is one of those.                                    *)
LEMMA JobWorks ==
  ASSUME TypeOK, TypeOK', InStep, NEW j \in Jobs,
         JobStep(j) \/ Propose(j) \/ Fail(j)
  PROVE  Works(j)
<1> DEFINE e == job[j].epic
<1>1. Busy(j) /\ job[j] \in JobRecords /\ e \in Epics
  BY Fields DEF JobStep, Estimate, Plan, Check, Lock, Review, Load,
       Code, Propose, Finish, Release, Fail, Busy, At, JobRecords
<1>2. /\ status \in [Epics -> Statuses] /\ planned \in [Epics -> SUBSET Files]
      /\ DOMAIN job = Jobs
  BY DEF TypeOK
<1>3. Fits(job[j].at, status[e])
  BY <1>1 DEF InStep, StatusFits
<1> USE DEF history, SetStatus, EndJob, Busy, At, Fits, PlanPlaces, AtWork,
            OfCoding, JobRecords, Places
<1>4. CASE Estimate(j)
  BY <1>1, <1>2, <1>3, <1>4 DEF Works, Estimate
<1>5. CASE Plan(j)
  BY <1>1, <1>2, <1>3, <1>5 DEF Works, Plan
<1>6. CASE Check(j)
  BY <1>1, <1>2, <1>3, <1>6 DEF Works, Check
<1>7. CASE Lock(j)
  BY <1>1, <1>2, <1>3, <1>7 DEF Works, Lock
<1>8. CASE Review(j)
  BY <1>1, <1>2, <1>3, <1>8 DEF Works, Review
<1>9. CASE Load(j)
  BY <1>1, <1>2, <1>3, <1>9 DEF Works, Load, Raise
<1>10. CASE Code(j)
  BY <1>1, <1>2, <1>3, <1>10 DEF Works, Code, GoOn
<1>11. CASE Propose(j)
  BY <1>1, <1>2, <1>3, <1>11 DEF Works, Propose
<1>12. CASE Finish(j)
  BY <1>1, <1>2, <1>3, <1>12 DEF Works, Finish
<1>13. CASE Release(j)
  BY <1>1, <1>2, <1>3, <1>13 DEF Works, Release
<1>14. CASE Fail(j)
  BY <1>1, <1>2, <1>3, <1>14 DEF Works, Fail, Raise
<1>. QED
  BY <1>4, <1>5, <1>6, <1>7, <1>8, <1>9, <1>10, <1>11, <1>12, <1>13,
     <1>14 DEF JobStep

(* What a request does that launches a job for epic e.                     *)
Starts(e, j, place) ==
  /\ e \in Epics
  /\ ~Busy(j) /\ job'[j] \in JobRecords
  /\ job'[j].at = place /\ job'[j].epic = e
  /\ \A k \in Jobs \ {j} : job'[k] = job[k]
  /\ \A o \in Epics \ {e} : status'[o] = status[o]
  /\ \/ /\ place = "estimating"
        /\ status[e] \in {"proposed", "pending_cost_approval"}
     \/ /\ place = "loading"
        /\ status[e] = "pending_plan_approval"
  /\ Fits(place, status'[e])
  /\ UNCHANGED <<locks, planned, children, history>>
  /\ \A u \in Users : request'[u].at # "none" =>
       request'[u] = request[u] /\ request[u].epic # e
  /\ \A u \in Users : request[u].at = "close" => request'[u] = request[u]

(* A start and two of the approvals do that.                               *)
LEMMA RequestStarts ==
  ASSUME OneUser, TypeOK, TypeOK', InStep,
         \/ \E e \in Epics : Start(e)
         \/ \E u \in Users : ApproveCost(u) \/ ApprovePlan(u)
  PROVE  \E e \in Epics, j \in Jobs, place \in {"estimating", "loading"} :
           Starts(e, j, place)
<1> USE DEF SetStatus, Done
<1>0. \A u \in Users : request[u].at # "none" =>
         /\ request[u].at \in {"answer", "close"}
         /\ request[u].epic \in Epics /\ request[u].kind \in DOMAIN Accepted
  BY Fields DEF RequestRecords
<1>1. ASSUME NEW e \in Epics, Start(e)
      PROVE  \E j \in Jobs : Starts(e, j, "estimating")
  <2>1. PICK j \in Jobs :
          /\ ~Busy(j)
          /\ job' = [job EXCEPT ![j] = [at |-> "estimating", epic |-> e,
                     files |-> {}, child |-> 0, ok |-> FALSE, unseen |-> {}]]
          /\ job'[j] \in JobRecords
    BY <1>1, Launched DEF Start, Places
  <2>2. /\ job'[j].at = "estimating" /\ job'[j].epic = e
        /\ \A k \in Jobs \ {j} : job'[k] = job[k]
    BY <2>1 DEF TypeOK
  <2>3. /\ status[e] = "proposed" /\ status'[e] = "pending"
        /\ \A o \in Epics \ {e} : status'[o] = status[o]
        /\ UNCHANGED <<locks, planned, children, history, request>>
    BY <1>1 DEF Start, TypeOK
  <2>4. \A u \in Users : request[u].at # "none" => request[u].epic # e
    BY <1>0, <2>3 DEF InStep, RequestFits, Accepted
  <2>. QED
    BY <2>1, <2>2, <2>3, <2>4 DEF Starts, Fits, PlanPlaces
<1>2. ASSUME NEW u \in Users, NEW place \in {"estimating", "loading"},
             \/ ApproveCost(u) /\ place = "estimating"
             \/ ApprovePlan(u) /\ place = "loading"
      PROVE  \E e \in Epics, j \in Jobs : Starts(e, j, place)
  <2> DEFINE e == request[u].epic
  <2>1. /\ e \in Epics /\ request[u].at = "answer"
        /\ place = "estimating" => status[e] = "pending_cost_approval"
        /\ place = "loading" => status[e] = "pending_plan_approval"
    BY <1>0, <1>2
       DEF ApproveCost, ApprovePlan, Answering, InStep, RequestFits, Accepted
  <2>2. PICK j \in Jobs :
          /\ ~Busy(j)
          /\ job' = [job EXCEPT ![j] = [at |-> place, epic |-> e,
                     files |-> {}, child |-> 0, ok |-> FALSE, unseen |-> {}]]
          /\ job'[j] \in JobRecords
    BY <1>2, <2>1, Launched, SMTT(30) DEF ApproveCost, ApprovePlan, Places
  <2>3. /\ job'[j].at = place /\ job'[j].epic = e
        /\ \A k \in Jobs \ {j} : job'[k] = job[k]
    BY <2>2 DEF TypeOK
  <2>4. /\ place = "estimating" => status'[e] = "pending"
        /\ place = "loading" => status'[e] = "plan_approved"
        /\ \A o \in Epics \ {e} : status'[o] = status[o]
        /\ UNCHANGED <<locks, planned, children, history>>
    BY <1>2, <2>1 DEF ApproveCost, ApprovePlan, TypeOK
  <2>5. \A v \in Users : request[v].at = "answer" /\ request'[v].at = "none"
    BY <1>2, <2>1 DEF OneUser, ApproveCost, ApprovePlan, NoRequest, TypeOK
  <2>. QED
    BY <2>1, <2>2, <2>3, <2>4, <2>5 DEF Starts, Fits, PlanPlaces
<1>. QED
  BY <1>1, <1>2

(* What a request does that launches nothing.                              *)
Answers(u) ==
  LET e == request[u].epic
  IN /\ e \in Epics
     /\ \A o \in Epics \ {e} :
          status'[o] = status[o] /\ children'[o] = children[o]
     /\ UNCHANGED <<job, planned, history>>
     /\ \A v \in Users : request[v].epic = e
     /\ \/ /\ status[e] = "pending_policy_approval"
           /\ status'[e] = "pending_plan_approval"
           /\ UNCHANGED <<locks, children>>
           /\ \A v \in Users : request'[v].at = "none"
        \/ /\ status[e] \in {"ready_for_review", "pending_cost_approval"}
           /\ status'[e] = "approved"
           /\ UNCHANGED <<locks, children>>
           /\ \A v \in Users : request'[v].at = "none"
        \/ /\ status[e] \in Accepted["reject"]
           /\ status'[e] = "rejected"
           /\ UNCHANGED <<locks, children>>
           /\ \A v \in Users : request'[v].at = "close" /\ request'[v].epic = e
        \/ /\ status[e] = "rejected" /\ status' = status
           /\ ReleaseFiles(e)
           /\ \A v \in Users : request'[v].at = "none"

(* The other requests do that.                                             *)
LEMMA RequestAnswers ==
  ASSUME OneUser, TypeOK, InStep, NEW u \in Users,
         ApprovePolicy(u) \/ Approve(u) \/ Reject(u) \/ Close(u)
  PROVE  Answers(u)
<1> DEFINE e == request[u].epic
<1>1. request[u] \in RequestRecords /\ e \in Epics
  BY Fields DEF RequestRecords, ApprovePolicy, Approve, Reject, Close, Answering
<1>2. /\ request[u].at = "answer" => status[e] \in Accepted[request[u].kind]
      /\ request[u].at = "close" => status[e] = "rejected"
  BY DEF InStep, RequestFits
<1>3. /\ status \in [Epics -> Statuses] /\ DOMAIN request = Users
      /\ \A v \in Users : v = u
  BY DEF TypeOK, OneUser
<1> USE DEF SetStatus, Done, NoRequest, Answering, Accepted, RequestRecords
<1>4. CASE ApprovePolicy(u)
  BY <1>1, <1>2, <1>3, <1>4 DEF Answers, ApprovePolicy
<1>5. CASE Approve(u)
  BY <1>1, <1>2, <1>3, <1>5 DEF Answers, Approve
<1>6. CASE Reject(u)
  BY <1>1, <1>2, <1>3, <1>6 DEF Answers, Reject
<1>7. CASE Close(u)
  <2>1. \A o \in Epics \ {e} : children'[o] = children[o]
    BY <1>1, <1>7, MoveChildType DEF Close, TypeOK, ChildStatuses
  <2>. QED
    BY <1>1, <1>2, <1>3, <1>7, <2>1 DEF Answers, Close
<1>. QED
  BY <1>4, <1>5, <1>6, <1>7

(* What is left: a request arrives, the server stops, a row passes its     *)
(* time, or nothing happens.                                               *)
Idles ==
  /\ UNCHANGED <<status, planned, children, lost, failed, holder>>
  /\ job' = job \/ (crashes' > 0 /\ \A j \in Jobs : ~Busy(j)')
  /\ crashes' >= crashes
  /\ \A u \in Users :
       \/ request'[u] = request[u] /\ crashes' = crashes
       \/ request'[u].at = "none" /\ crashes' > 0
       \/ /\ request[u].at = "none" /\ request'[u].at = "answer"
          /\ request'[u].epic \in Epics
          /\ request'[u].kind \in DOMAIN Accepted
          /\ status[request'[u].epic] \in Accepted[request'[u].kind]

(* The remaining steps do that.                                            *)
LEMMA OthersIdle ==
  ASSUME TypeOK,
         \/ \E u \in Users, e \in Epics : Ask(u, e)
         \/ Crash
         \/ \E f \in Files : Lapse(f)
         \/ UNCHANGED vars
  PROVE  Idles
<1>0. crashes \in Nat /\ DOMAIN request = Users
  BY BoundsAssumption DEF TypeOK
<1>1. ASSUME NEW u \in Users, NEW e \in Epics, Ask(u, e) PROVE Idles
  BY <1>0, <1>1 DEF Ask, Idles, locks, history
<1>2. CASE Crash
  BY <1>0, <1>2 DEF Crash, Idles, locks, Busy, At, NoJob, NoRequest
<1>3. ASSUME NEW f \in Files, Lapse(f) PROVE Idles
  BY <1>0, <1>3 DEF Lapse, Expire, Idles, history
<1>4. CASE UNCHANGED vars
  BY <1>0, <1>4 DEF vars, locks, history, Idles
<1>. QED
  BY <1>1, <1>2, <1>3, <1>4

(* Every step is one of these.                                             *)
LEMMA StepKinds ==
  ASSUME OneUser, TypeOK, TypeOK', InStep, [Next]_vars
  PROVE  \/ \E e \in Epics, j \in Jobs, place \in {"estimating", "loading"} :
              Starts(e, j, place)
         \/ \E u \in Users : Answers(u)
         \/ \E j \in Jobs : Works(j) /\ (JobStep(j) \/ Propose(j) \/ Fail(j))
         \/ Idles
BY RequestStarts, RequestAnswers, JobWorks, OthersIdle DEF Next, Respond

(* An epic and its job stay in step.                                       *)
LEMMA StaysInStep ==
  ASSUME OneUser, TypeOK, TypeOK', InStep, [Next]_vars
  PROVE  InStep'
<1> USE DEF InStep
<1>0. /\ \A j \in Jobs : Busy(j) => job[j].epic \in Epics /\ job[j].at \in Places
      /\ \A u \in Users : request[u].at # "none" =>
           /\ request[u].epic \in Epics /\ request[u].at \in {"answer", "close"}
           /\ request[u].kind \in DOMAIN Accepted
      /\ crashes \in Nat
  BY Fields, BoundsAssumption DEF JobRecords, RequestRecords, TypeOK
<1>1. ASSUME NEW e \in Epics, NEW j \in Jobs,
             NEW place \in {"estimating", "loading"},
             Starts(e, j, place)
      PROVE  InStep'
  <2>1. \A k \in Jobs : Busy(k) => job[k].epic # e
    BY <1>0, <1>1
       DEF StatusFits, Starts, Fits, PlanPlaces, Places, Busy, At
  <2>2. StatusFits'
    BY <1>0, <1>1, <2>1 DEF StatusFits, Starts, Busy, At
  <2>3. OnlyJob'
    BY <1>0, <1>1, <2>1 DEF OnlyJob, Starts, Busy, At
  <2>4. Served'
    BY <1>0, <1>1, <2>1 DEF Served, Starts, Busy, At, history
  <2>5. RequestFits'
    BY <1>0, <1>1 DEF RequestFits, Starts
  <2>. QED
    BY <2>2, <2>3, <2>4, <2>5
<1>2. ASSUME NEW u \in Users, Answers(u) PROVE InStep'
  <2>1. StatusFits'
    BY <1>0, <1>2
       DEF StatusFits, Answers, Fits, PlanPlaces, Places, Busy, At, Accepted
  <2>2. OnlyJob'
    BY <1>2 DEF OnlyJob, Answers, Busy, At
  <2>3. Served'
    BY <1>2 DEF Served, Answers, Busy, At, history, AtWork, OfCoding
  <2>4. RequestFits'
    BY <1>0, <1>2 DEF RequestFits, Answers
  <2>. QED
    BY <2>1, <2>2, <2>3, <2>4
<1>3. ASSUME NEW j \in Jobs, Works(j) PROVE InStep'
  <2> DEFINE e == job[j].epic
  <2>1. \A k \in Jobs \ {j} : Busy(k) => job[k].epic # e
    BY <1>3 DEF OnlyJob, Works
  <2>2. StatusFits'
    BY <1>0, <1>3, <2>1 DEF StatusFits, Works, Busy, At, NoJob
  <2>3. OnlyJob'
    BY <1>0, <1>3, <2>1 DEF OnlyJob, Works, Busy, At, NoJob
  <2>4. Served'
    <3>1. ASSUME NEW o \in Epics, status'[o] \in AtWork, crashes' = 0
          PROVE  \E k \in Jobs : Busy(k)' /\ job'[k].epic = o
      <4>1. CASE o = e
        BY <1>3, <3>1, <4>1 DEF Works, Busy, At, Places
      <4>2. CASE o # e
        BY <1>3, <3>1, <4>2 DEF Served, Works, Busy, At
      <4>. QED
        BY <4>1, <4>2
    <3>. QED
      BY <3>1 DEF Served
  <2>5. RequestFits'
    BY <1>0, <1>3
       DEF RequestFits, Works, AtWork, OfCoding, Accepted
  <2>. QED
    BY <2>2, <2>3, <2>4, <2>5
<1>4. CASE Idles
  BY <1>0, <1>4 DEF Idles, StatusFits, OnlyJob, Served, RequestFits, Busy, At
<1>. QED
  BY <1>1, <1>2, <1>3, <1>4, StepKinds

-----------------------------------------------------------------------------
(* Children and plans.                                                     *)

(* A new child task is the last one.                                       *)
LEMMA LastAppended ==
  ASSUME NEW s \in Seq(ChildStatuses)
  PROVE  LET t == Append(s, "planning") IN t # <<>> /\ t[Len(t)] = "planning"
<1>1. "planning" \in ChildStatuses
  BY DEF ChildStatuses
<1>. QED
  BY <1>1, AppendProperties

(* The child task waits until the plan is loaded.                          *)
LEMMA StaysWaiting ==
  ASSUME OneUser, TypeOK, TypeOK', InStep, ChildWaits, [Next]_vars
  PROVE  ChildWaits'
<1>0. /\ \A j \in Jobs : Busy(j) => job[j] \in JobRecords
      /\ \A j \in Jobs : Busy(j) => Fits(job[j].at, status[job[j].epic])
      /\ children \in [Epics -> Seq(ChildStatuses)]
  BY Fields DEF InStep, StatusFits, TypeOK
<1> DEFINE Waits(place) == place \in PlanPlaces \union {"loading"}
<1> USE DEF Waiting
<1>1. ASSUME NEW e \in Epics, NEW k \in Jobs,
             NEW place \in {"estimating", "loading"},
             Starts(e, k, place)
      PROVE  ChildWaits'
  BY <1>1 DEF ChildWaits, LastPlans, Starts, PlanPlaces, Fits
<1>2. ASSUME NEW u \in Users, Answers(u) PROVE ChildWaits'
  <2> DEFINE e == request[u].epic
  <2>1. ASSUME NEW k \in Jobs, Waits(job'[k].at)
        PROVE  job'[k] = job[k] /\ Busy(k) /\ job[k].epic # e
    BY <1>0, <1>2, <2>1
       DEF Answers, Fits, PlanPlaces, Busy, At, Accepted
  <2>2. ASSUME NEW o \in Epics, status'[o] \in Waiting
        PROVE  status[o] \in Waiting /\ children'[o] = children[o]
    BY <1>2, <2>2 DEF Answers
  <2>3. \A o \in Epics \ {e} : children'[o] = children[o]
    BY <1>2 DEF Answers
  <2>. QED
    BY <1>0, <2>1, <2>2, <2>3 DEF ChildWaits, LastPlans, JobRecords
<1>3. ASSUME NEW j \in Jobs, Works(j), JobStep(j) \/ Propose(j) \/ Fail(j)
      PROVE  ChildWaits'
  <2>e. PICK e \in Epics : e = job[j].epic
    BY <1>3 DEF Works
  <2> DEFINE Later == \/ job'[j] = NoJob /\ status'[e] \notin Waiting
                      \/ ~Waits(job'[j].at) /\ status'[e] \notin Waiting
  <2>0. /\ Busy(j) /\ e = job[j].epic
        /\ status \in [Epics -> Statuses] /\ DOMAIN job = Jobs
    BY <1>3, <2>e DEF Works, TypeOK
  <2>1. \A o \in Epics \ {e} : children'[o] = children[o]
    <3>1. \A i, from, to : MoveChild(e, i, from, to) /\ to \in ChildStatuses =>
            \A o \in Epics \ {e} : children'[o] = children[o]
      BY <2>0, MoveChildType DEF TypeOK
    <3>2. CASE Plan(j) \/ Release(j) \/ Load(j)
      BY <2>0, <3>1, <3>2 DEF Plan, Release, Load, ChildStatuses
    <3>3. CASE Estimate(j)
      BY <1>0, <2>0, <3>3 DEF Estimate
    <3>. QED
      BY <1>3, <3>2, <3>3
         DEF JobStep, Check, Lock, Review, Code, Finish, Propose, Fail
  <2>2. \/ Later
        \/ LastPlans(e)'
    <3> USE DEF SetStatus, EndJob
    <3>1. CASE Estimate(j)
      <4>1. CASE children'[e] = Append(children[e], "planning")
        BY <1>0, <2>0, <4>1, LastAppended DEF LastPlans
      <4>2. CASE EndJob(j) /\ status'[e] \in {"halted", "pending_cost_approval"}
        BY <2>0, <4>2
      <4>. QED
        BY <1>0, <2>0, <3>1, <4>1, <4>2 DEF Estimate
    <3>2. CASE Plan(j)
      <4>1. CASE children' = children
        BY <2>0, <3>2, <4>1 DEF Plan, ChildWaits, LastPlans, PlanPlaces, At
      <4>2. CASE EndJob(j) /\ status'[e] = "pending_cost_approval"
        BY <2>0, <4>2
      <4>. QED
        BY <2>0, <3>2, <4>1, <4>2 DEF Plan
    <3>3. CASE Check(j) \/ Lock(j) \/ Review(j)
      BY <2>0, <3>3
         DEF Check, Lock, Review, ChildWaits, LastPlans, PlanPlaces, At
    <3>4. CASE Load(j)
      <4>1. status[e] = "plan_approved"
        BY <1>0, <2>0, <3>4 DEF Load, Fits, At
      <4>2. job'[j] = NoJob \/ job'[j].at = "loaded"
        BY <1>0, <2>0, <3>4 DEF Load, Raise, JobRecords
      <4>3. status'[e] \in {"plan_approved", "halted"}
        BY <2>0, <3>4, <4>1 DEF Load, Raise
      <4>. QED
        BY <4>2, <4>3 DEF PlanPlaces
    <3>5. CASE Code(j) \/ Finish(j) \/ Propose(j)
      <4>1. job'[j].at \in {"coding", "releasing"}
        <5>1. CASE Code(j) \/ Finish(j)
          BY <1>0, <2>0, <5>1 DEF Code, GoOn, Finish, JobRecords
        <5>2. CASE Propose(j)
          BY <5>2, ProposeStays
        <5>. QED
          BY <3>5, <5>1, <5>2
      <4>2. status'[e] \in {"coding", "ready_for_review", "halted"}
        BY <1>0, <2>0, <3>5 DEF Code, Finish, Propose, At, Fits
      <4>. QED
        BY <4>1, <4>2 DEF PlanPlaces
    <3>6. CASE Release(j) \/ Fail(j)
      <4>1. job'[j] = NoJob
        BY <2>0, <3>6 DEF Release, Fail, Raise
      <4>2. status'[e] \notin Waiting
        BY <1>0, <2>0, <3>6
           DEF Release, Fail, Raise, Fits, At, Busy, PlanPlaces, OfCoding,
               JobRecords, Places
      <4>. QED
        BY <4>1, <4>2
    <3>. QED
      BY <1>3, <3>1, <3>2, <3>3, <3>4, <3>5, <3>6 DEF JobStep
  <2>3. \A k \in Jobs \ {j} : Busy(k) => job[k].epic # e
    BY <1>3, <2>e DEF InStep, OnlyJob, Works
  <2>4. \A k \in Jobs \ {j} : Waits(job'[k].at) => LastPlans(job[k].epic)'
    BY <1>0, <1>3, <2>1, <2>3
       DEF Works, ChildWaits, LastPlans, Busy, At, PlanPlaces, JobRecords
  <2>5. Waits(job'[j].at) => LastPlans(job[j].epic)'
    BY <1>3, <2>e, <2>2 DEF Works, NoJob, PlanPlaces
  <2>6. \A o \in Epics : status'[o] \in Waiting => LastPlans(o)'
    BY <1>3, <2>e, <2>1, <2>2 DEF Works, ChildWaits, LastPlans
  <2>. QED
    BY <2>4, <2>5, <2>6 DEF ChildWaits
<1>4. CASE Idles
  BY <1>4 DEF Idles, ChildWaits, LastPlans, Busy, At, PlanPlaces
<1>. QED
  BY <1>1, <1>2, <1>3, <1>4, StepKinds

(* Nothing is saved before the plan is reviewed.                           *)
LEMMA StaysNotPlanned ==
  ASSUME OneUser, TypeOK, TypeOK', InStep, NotPlanned, [Next]_vars
  PROVE  NotPlanned'
<1> DEFINE Early == {"proposed", "pending", "planning", "pending_cost_approval"}
<1>1. ASSUME NEW e \in Epics, NEW k \in Jobs,
             NEW place \in {"estimating", "loading"},
             Starts(e, k, place)
      PROVE  NotPlanned'
  BY <1>1 DEF NotPlanned, Starts, Fits, PlanPlaces
<1>2. ASSUME NEW u \in Users, Answers(u) PROVE NotPlanned'
  BY <1>2 DEF NotPlanned, Answers
<1>3. ASSUME NEW j \in Jobs, Works(j), JobStep(j) \/ Propose(j) \/ Fail(j)
      PROVE  NotPlanned'
  <2> DEFINE e == job[j].epic
  <2>0. /\ e \in Epics /\ Fits(job[j].at, status[e])
        /\ status \in [Epics -> Statuses]
    BY <1>3 DEF Works, InStep, StatusFits, TypeOK
  <2>1. status'[e] \in Early => status[e] \in Early /\ planned' = planned
    <3> USE DEF SetStatus, EndJob, Fits, At, PlanPlaces, OfCoding
    <3>1. CASE Estimate(j) \/ Plan(j) \/ Check(j) \/ Lock(j)
      BY <2>0, <3>1 DEF Estimate, Plan, Check, Lock
    <3>2. CASE Review(j)
      BY <2>0, <3>2 DEF Review
    <3>3. CASE Load(j) \/ Fail(j)
      BY <2>0, <3>3 DEF Load, Fail, Raise
    <3>4. CASE Code(j) \/ Finish(j) \/ Propose(j) \/ Release(j)
      BY <2>0, <3>4 DEF Code, Finish, Propose, Release
    <3>. QED
      BY <1>3, <3>1, <3>2, <3>3, <3>4 DEF JobStep
  <2>. QED
    BY <1>3, <2>0, <2>1 DEF NotPlanned, Works
<1>4. CASE Idles
  BY <1>4 DEF Idles, NotPlanned
<1>. QED
  BY <1>1, <1>2, <1>3, <1>4, StepKinds

-----------------------------------------------------------------------------
(* Locks.                                                                  *)

(* What a step of job j does with the locks.                               *)
LEMMA JobLocks ==
  ASSUME TypeOK, NEW j \in Jobs, NEW e \in Epics, e = job[j].epic,
         JobStep(j) \/ Propose(j) \/ Fail(j)
  PROVE  \/ UNCHANGED <<holder, expired, lost>>
         \/ /\ Lock(j) \/ Propose(j)
            /\ \E fs \in SUBSET Files : Reserve(e, fs)
         \/ At(j, "releasing") /\ ReleaseFiles(e) /\ lost' = lost
<1>1. Busy(j) => job[j].files \in SUBSET Files
  BY Fields DEF JobRecords
<1>2. CASE Lock(j)
  BY <1>1, <1>2 DEF Lock, Busy, At
<1>3. CASE Propose(j)
  <2>1. \A fs \in Plans : {f \in fs : holder[f] # e} \in SUBSET Files
    BY PlansAssumption
  <2>. QED
    BY <1>3, <2>1 DEF Propose
<1>. QED
  BY <1>2, <1>3
     DEF JobStep, Estimate, Plan, Check, Review, Load, Code, Finish, Release,
         Fail, locks, history

(* What is reserved stays locked, but for lost rows.                       *)
LEMMA StaysLocked ==
  ASSUME OneUser, TypeOK, TypeOK', InStep, NotPlanned, PlanLocked, [Next]_vars
  PROVE  PlanLocked'
<1>0. /\ \A j \in Jobs : Busy(j) => job[j] \in JobRecords
      /\ \A j \in Jobs : Busy(j) => Fits(job[j].at, status[job[j].epic])
  BY Fields DEF InStep, StatusFits
<1> DEFINE Holding(place) == place \in {"reviewing", "loaded", "coding"}
<1>1. ASSUME NEW e \in Epics, NEW k \in Jobs,
             NEW place \in {"estimating", "loading"},
             Starts(e, k, place)
      PROVE  PlanLocked'
  <2>1. \A o \in Epics, f \in Files : HeldOrLost(o, f) => HeldOrLost(o, f)'
    BY <1>1 DEF Starts, HeldOrLost, locks, history
  <2>2. \A o \in Epics : status'[o] \in Planned => status[o] \in Planned
    BY <1>1 DEF Starts, Fits, PlanPlaces, Planned, Waiting, OfCoding
  <2>3. \A i \in Jobs : Holding(job'[i].at) => job'[i] = job[i] /\ Busy(i)
    BY <1>1 DEF Starts, Busy, At
  <2>4. planned' = planned /\ planned \in [Epics -> SUBSET Files]
    BY <1>1 DEF Starts, TypeOK
  <2>5. \A o \in Epics :
          status'[o] \in Planned => \A f \in planned'[o] : HeldOrLost(o, f)'
    BY <2>1, <2>2, <2>4 DEF PlanLocked
  <2>6. \A i \in Jobs : Holding(job'[i].at) =>
          \A f \in job'[i].files : HeldOrLost(job[i].epic, f)'
    BY <1>0, <2>1, <2>3 DEF PlanLocked, JobRecords, HeldOrLost
  <2>. QED
    BY <2>5, <2>6 DEF PlanLocked
<1>2. ASSUME NEW u \in Users, Answers(u) PROVE PlanLocked'
  <2>e. PICK e \in Epics : e = request[u].epic
    BY <1>2 DEF Answers
  <2>1. \A o \in Epics, f \in Files :
          o # e \/ status[e] # "rejected" =>
            (HeldOrLost(o, f) => HeldOrLost(o, f)')
    BY <1>2, <2>e, ReleaseKeeps DEF Answers, HeldOrLost, locks, history, Accepted
  <2>2. \A o \in Epics : status'[o] \in Planned => status[o] \in Planned
    BY <1>2, <2>e DEF Answers, Planned, Waiting, OfCoding
  <2>3. \A i \in Jobs : Holding(job'[i].at) =>
          /\ job'[i] = job[i] /\ Busy(i) /\ job[i] \in JobRecords
          /\ job[i].epic # e \/ status[e] # "rejected"
    BY <1>0, <1>2 DEF Answers, Fits, Busy, At, PlanPlaces
  <2>4. planned' = planned /\ planned \in [Epics -> SUBSET Files]
    BY <1>2 DEF Answers, TypeOK
  <2>5. \A o \in Epics :
          status'[o] \in Planned => \A f \in planned'[o] : HeldOrLost(o, f)'
    BY <2>1, <2>2, <2>4 DEF PlanLocked, Planned, Waiting, OfCoding
  <2>6. \A i \in Jobs : Holding(job'[i].at) =>
          \A f \in job'[i].files : HeldOrLost(job[i].epic, f)'
    BY <2>1, <2>3 DEF PlanLocked, JobRecords, HeldOrLost
  <2>. QED
    BY <2>5, <2>6 DEF PlanLocked
<1>3. ASSUME NEW j \in Jobs, Works(j), JobStep(j) \/ Propose(j) \/ Fail(j)
      PROVE  PlanLocked'
  <2>e. PICK e \in Epics : e = job[j].epic
    BY <1>3 DEF Works
  <2>0. /\ Busy(j) /\ job[j] \in JobRecords /\ Fits(job[j].at, status[e])
        /\ status \in [Epics -> Statuses] /\ DOMAIN job = Jobs
        /\ planned \in [Epics -> SUBSET Files]
    BY <1>0, <1>3, <2>e DEF Works, TypeOK
  <2>1. \A o \in Epics, f \in Files :
          o # e \/ ~At(j, "releasing") =>
            (HeldOrLost(o, f) => HeldOrLost(o, f)')
    <3>1. CASE UNCHANGED <<holder, expired, lost>>
      BY <3>1 DEF HeldOrLost
    <3>2. CASE \E fs \in SUBSET Files : Reserve(e, fs)
      BY <3>2, ReserveKeeps
    <3>3. CASE At(j, "releasing") /\ ReleaseFiles(e) /\ lost' = lost
      BY <3>3, ReleaseKeeps
    <3>. QED
      BY <1>3, <2>e, <3>1, <3>2, <3>3, JobLocks
  <2>2. ASSUME status'[e] \in Planned, NEW f \in planned'[e]
        PROVE  HeldOrLost(e, f)'
    <3> USE DEF SetStatus, EndJob, At, Fits, PlanPlaces, Planned, Waiting, OfCoding
    <3>1. CASE Review(j)
      <4>1. planned[e] = {} /\ f \in job[j].files /\ f \in Files
        BY <2>0, <2>2, <2>e, <3>1 DEF Review, NotPlanned, JobRecords
      <4>2. HeldOrLost(e, f)
        BY <2>0, <2>e, <3>1, <4>1 DEF Review, PlanLocked
      <4>. QED
        BY <2>1, <3>1, <4>1, <4>2 DEF Review
    <3>2. CASE ~Review(j)
      <4>1. status[e] \in Planned /\ planned' = planned /\ ~At(j, "releasing")
        <5>1. CASE Estimate(j) \/ Plan(j) \/ Check(j) \/ Lock(j)
          BY <2>0, <2>2, <2>e, <5>1 DEF Estimate, Plan, Check, Lock
        <5>2. CASE Load(j) \/ Fail(j)
          BY <2>0, <2>2, <2>e, <5>2 DEF Load, Fail, Raise
        <5>3. CASE Code(j) \/ Finish(j) \/ Propose(j) \/ Release(j)
          BY <2>0, <2>2, <2>e, <5>3 DEF Code, Finish, Propose, Release
        <5>. QED
          BY <1>3, <3>2, <5>1, <5>2, <5>3 DEF JobStep
      <4>2. f \in planned[e] /\ f \in Files
        BY <2>0, <2>2, <4>1
      <4>. QED
        BY <2>1, <4>1, <4>2 DEF PlanLocked
    <3>. QED
      BY <3>1, <3>2
  <2>3. ASSUME Holding(job'[j].at), NEW f \in job'[j].files
        PROVE  HeldOrLost(e, f)'
    <3> USE DEF SetStatus, EndJob, At
    <3>1. CASE Lock(j)
      <4>1. Reserve(e, job[j].files) /\ ~Taken(e, job[j].files)
        BY <2>0, <2>3, <2>e, <3>1 DEF Lock, NoJob
      <4>2. job[j].files \in SUBSET Files /\ f \in job[j].files
        BY <2>0, <2>3, <2>e, <3>1, <4>1 DEF Lock, JobRecords
      <4>. QED
        BY <4>1, <4>2, ReserveTakes DEF HeldOrLost
    <3>2. CASE Load(j)
      <4>1. f \in planned[e] /\ f \in Files /\ status[e] \in Planned
        BY <2>0, <2>3, <2>e, <3>2
           DEF Load, Raise, NoJob, JobRecords, Fits, Planned, OfCoding
      <4>. QED
        BY <2>1, <3>2, <4>1 DEF PlanLocked, Load
    <3>3. CASE Code(j)
      BY <2>0, <2>1, <2>3, <2>e, <3>3 DEF Code, GoOn, PlanLocked, JobRecords
    <3>4. CASE Propose(j)
      <4>1. PICK fs \in Plans :
              /\ Reserve(e, {g \in fs : holder[g] # e})
              /\ job' = IF Taken(e, {g \in fs : holder[g] # e})
                          THEN job ELSE [job EXCEPT ![j].files = @ \union fs]
        BY <2>e, <3>4 DEF Propose
      <4>2. fs \in SUBSET Files
        BY PlansAssumption
      <4>3. CASE f \in job[j].files
        BY <2>0, <2>1, <2>e, <3>4, <4>3 DEF Propose, PlanLocked, JobRecords
      <4>4. CASE f \notin job[j].files
        <5>1. f \in fs /\ ~Taken(e, {g \in fs : holder[g] # e})
          BY <2>0, <2>3, <4>1, <4>4 DEF JobRecords
        <5>2. CASE holder[f] = e
          BY <2>1, <3>4, <4>2, <5>1, <5>2 DEF HeldOrLost, Propose
        <5>3. CASE holder[f] # e
          BY <4>1, <4>2, <5>1, <5>3, ReserveTakes DEF HeldOrLost
        <5>. QED
          BY <5>2, <5>3
      <4>. QED
        BY <4>3, <4>4
    <3>5. CASE Estimate(j) \/ Plan(j) \/ Check(j)
      BY <2>0, <2>3, <3>5 DEF Estimate, Plan, Check, NoJob, JobRecords
    <3>6. CASE Review(j) \/ Finish(j) \/ Release(j) \/ Fail(j)
      BY <2>0, <2>3, <3>6
         DEF Review, Finish, Release, Fail, Raise, NoJob, JobRecords
    <3>. QED
      BY <1>3, <3>1, <3>2, <3>3, <3>4, <3>5, <3>6 DEF JobStep
  <2>4. \A o \in Epics :
          status'[o] \in Planned => \A f \in planned'[o] : HeldOrLost(o, f)'
    BY <1>3, <2>0, <2>1, <2>2, <2>e DEF Works, PlanLocked
  <2>5. \A i \in Jobs : Holding(job'[i].at) =>
          \A f \in job'[i].files : HeldOrLost(job[i].epic, f)'
    <3>1. \A i \in Jobs \ {j} :
            /\ job'[i] = job[i]
            /\ Holding(job[i].at) => Busy(i) /\ job[i].epic # e
      BY <1>3, <2>e DEF Works, InStep, OnlyJob, Busy, At
    <3>2. \A i \in Jobs \ {j} : Holding(job'[i].at) =>
            \A f \in job'[i].files : HeldOrLost(job[i].epic, f)'
      BY <1>0, <2>1, <3>1 DEF PlanLocked, JobRecords, HeldOrLost
    <3>3. Holding(job'[j].at) => job'[j].epic = e
      BY <1>3, <2>e DEF Works, NoJob
    <3>. QED
      BY <2>3, <3>2, <3>3 DEF HeldOrLost
  <2>. QED
    BY <2>4, <2>5 DEF PlanLocked
<1>4. CASE Idles
  BY <1>4 DEF Idles, PlanLocked, HeldOrLost, Busy, At
<1>. QED
  BY <1>1, <1>2, <1>3, <1>4, StepKinds

(* A look that met no other plan has seen none.                            *)
LEMMA StaysUnseen ==
  ASSUME OneUser, TypeOK, TypeOK', InStep, UnseenAll, [Next]_vars
  PROVE  UnseenAll'
<1>1. ASSUME NEW e \in Epics, NEW k \in Jobs,
             NEW place \in {"estimating", "loading"},
             Starts(e, k, place)
      PROVE  UnseenAll'
  BY <1>1 DEF Starts, UnseenAll, At
<1>2. ASSUME NEW u \in Users, Answers(u) PROVE UnseenAll'
  BY <1>2 DEF Answers, UnseenAll, At
<1>3. ASSUME NEW j \in Jobs, Works(j), JobStep(j) \/ Propose(j) \/ Fail(j)
      PROVE  UnseenAll'
  <2>e. PICK e \in Epics : e = job[j].epic
    BY <1>3 DEF Works
  <2>0. job[j] \in JobRecords /\ DOMAIN job = Jobs
    BY <1>3, Fields DEF Works, TypeOK
  <2>1. At(j, "reserving")' =>
          /\ job'[j].epic = e
          /\ job'[j].unseen = Epics \ {e}
    <3> USE DEF At, EndJob
    <3>1. CASE Check(j)
      <4>1. CASE GuardConflict(e, job[j].files)
        BY <2>0, <2>e, <3>1, <4>1 DEF Check, NoJob
      <4>2. CASE ~GuardConflict(e, job[j].files)
        BY <2>0, <2>e, <3>1, <4>2 DEF Check, JobRecords, GuardConflict
      <4>. QED
        BY <4>1, <4>2
    <3>2. CASE Estimate(j) \/ Plan(j) \/ Lock(j)
      BY <2>0, <3>2 DEF Estimate, Plan, Lock, NoJob, JobRecords
    <3>3. CASE Load(j) \/ Code(j) \/ Propose(j)
      BY <2>0, <3>3, ProposeStays DEF Load, Raise, Code, GoOn, NoJob, JobRecords
    <3>4. CASE Review(j) \/ Finish(j) \/ Release(j) \/ Fail(j)
      BY <2>0, <3>4
         DEF Review, Finish, Release, Fail, Raise, NoJob, JobRecords
    <3>. QED
      BY <1>3, <3>1, <3>2, <3>3, <3>4 DEF JobStep
  <2>. QED
    BY <1>3, <2>1 DEF Works, UnseenAll, At
<1>4. CASE Idles
  BY <1>4 DEF Idles, UnseenAll, Busy, At
<1>. QED
  BY <1>1, <1>2, <1>3, <1>4, StepKinds

Coded == {"coding", "ready_for_review", "approved", "rejected", "halted"}

(* An epic that has been coded is not planned again.                       *)
LEMMA StaysCoded ==
  ASSUME OneUser, TypeOK, TypeOK', InStep, [Next]_vars,
         NEW e \in Epics, status[e] \in Coded
  PROVE  status'[e] \in Coded
<1>1. ASSUME NEW o \in Epics, NEW k \in Jobs,
             NEW place \in {"estimating", "loading"},
             Starts(o, k, place)
      PROVE  status'[e] \in Coded
  BY <1>1 DEF Starts, Coded
<1>2. ASSUME NEW u \in Users, Answers(u) PROVE status'[e] \in Coded
  BY <1>2 DEF Answers, Coded
<1>3. ASSUME NEW j \in Jobs, Works(j), JobStep(j) \/ Propose(j) \/ Fail(j)
      PROVE  status'[e] \in Coded
  <2>1. CASE job[j].epic # e
    BY <1>3, <2>1 DEF Works
  <2>2. CASE job[j].epic = e
    <3>1. Fits(job[j].at, status[e]) /\ status \in [Epics -> Statuses]
      BY <1>3, <2>2 DEF Works, InStep, StatusFits, TypeOK
    <3> USE DEF SetStatus, Fits, At, PlanPlaces, Coded
    <3>2. CASE Estimate(j) \/ Plan(j) \/ Check(j) \/ Lock(j)
      BY <2>2, <3>1, <3>2 DEF Estimate, Plan, Check, Lock
    <3>3. CASE Review(j) \/ Load(j) \/ Fail(j)
      BY <2>2, <3>1, <3>3 DEF Review, Load, Fail, Raise
    <3>4. CASE Code(j) \/ Finish(j) \/ Propose(j) \/ Release(j)
      BY <2>2, <3>1, <3>4 DEF Code, Finish, Propose, Release
    <3>. QED
      BY <1>3, <3>2, <3>3, <3>4 DEF JobStep
  <2>. QED
    BY <2>1, <2>2
<1>4. CASE Idles
  BY <1>4 DEF Idles
<1>. QED
  BY <1>1, <1>2, <1>3, <1>4, StepKinds

(* The rows a step loses.                                                  *)
LEMMA LostInStep ==
  ASSUME OneUser, TypeOK, TypeOK', InStep, [Next]_vars,
         NEW e \in Epics, NEW f \in Files, <<e, f, TRUE>> \in lost',
         <<e, f, TRUE>> \notin lost
  PROVE  /\ holder[f] = e /\ Guarded(f)
         /\ status' = status \/ status[e] # "planning" => status'[e] = status[e]
<1>1. PICK j \in Jobs : Works(j) /\ (JobStep(j) \/ Propose(j) \/ Fail(j))
  BY StepKinds DEF Starts, Answers, Idles, history
<1>2. PICK o \in Epics : o = job[j].epic
  BY <1>1 DEF Works
<1>3. /\ Lock(j) \/ Propose(j)
      /\ \E fs \in SUBSET Files : Reserve(o, fs)
  BY <1>1, <1>2, JobLocks
<1>4. PICK g \in expired : <<e, f, TRUE>> = <<holder[g], g, Guarded(g)>>
  BY <1>3 DEF Reserve
<1>5. holder[f] = e /\ Guarded(f)
  <2>1. g = f /\ holder[g] = e /\ Guarded(g) = TRUE
    BY <1>4
  <2>2. Guarded(g) \in BOOLEAN
    BY DEF Guarded
  <2>. QED
    BY <2>1, <2>2
<1>6. Fits(job[j].at, status[o])
  BY <1>1, <1>2 DEF Works, InStep, StatusFits
<1>. QED
  BY <1>1, <1>2, <1>3, <1>5, <1>6
     DEF Lock, Propose, Works, Fits, PlanPlaces, At

(* A row lost under the guard is one of a coded plan.                      *)
LEMMA StaysLate ==
  ASSUME OneUser, TypeOK, TypeOK', InStep, NotPlanned, GuardedLate, [Next]_vars
  PROVE  GuardedLate'
<1>1. ASSUME NEW e \in Epics, NEW f \in Files, <<e, f, TRUE>> \in lost'
      PROVE  status'[e] \in Coded
  <2>1. CASE <<e, f, TRUE>> \in lost
    BY <2>1, StaysCoded DEF GuardedLate, Coded
  <2>2. CASE <<e, f, TRUE>> \notin lost
    <3>1. holder[f] = e /\ Guarded(f)
      BY <1>1, <2>2, LostInStep
    <3>2. status[e] \in Coded
      BY <3>1 DEF Guarded, Active, NotPlanned, Coded
    <3>. QED
      BY <3>2, StaysCoded
  <2>. QED
    BY <2>1, <2>2
<1>. QED
  BY <1>1 DEF GuardedLate, Coded

(* Only the look at the plans of others makes a claim, and it finds a      *)
(* coded plan that has the file.                                           *)
LEMMA NewClaim ==
  ASSUME OneUser, TypeOK, TypeOK', InStep, NotPlanned, [Next]_vars,
         NEW o \in Epics, NEW f \in Files, Claims(o, f)', ~Claims(o, f)
  PROVE  /\ \A e \in Epics \ {o} : status[e] = "coding" => f \notin planned[e]
         /\ UNCHANGED <<lost, planned>>
         /\ \A e \in Epics \ {o} : status'[e] = status[e]
<1>0. \A j \in Jobs : Busy(j) => job[j] \in JobRecords
  BY Fields
<1> DEFINE Booking(place) == place \in {"reserving", "reviewing"}
<1>1. ASSUME NEW e \in Epics, NEW k \in Jobs,
             NEW place \in {"estimating", "loading"},
             Starts(e, k, place)
      PROVE  FALSE
  <2>1. status'[o] \in Planned => status[o] \in Planned
    BY <1>1 DEF Starts, Fits, PlanPlaces, Planned, Waiting, OfCoding
  <2>2. \A i \in Jobs : Booking(job'[i].at) => job'[i] = job[i]
    BY <1>1 DEF Starts
  <2>3. planned' = planned
    BY <1>1 DEF Starts
  <2>. QED
    BY <2>1, <2>2, <2>3 DEF Claims
<1>2. ASSUME NEW u \in Users, Answers(u) PROVE FALSE
  BY <1>2 DEF Answers, Claims, Planned, Waiting, OfCoding
<1>3. ASSUME NEW j \in Jobs, Works(j), JobStep(j) \/ Propose(j) \/ Fail(j),
             ~Check(j)
      PROVE  FALSE
  <2>e. PICK e \in Epics : e = job[j].epic
    BY <1>3 DEF Works
  <2>0. /\ Busy(j) /\ job[j] \in JobRecords /\ Fits(job[j].at, status[e])
        /\ status \in [Epics -> Statuses] /\ DOMAIN job = Jobs
        /\ planned \in [Epics -> SUBSET Files]
    BY <1>0, <1>3, <2>e DEF Works, TypeOK, InStep, StatusFits
  <2>1. o = e
    BY <1>3, <2>e DEF Works, Claims, NoJob
  <2>2. Booking(job'[j].at) => Booking(job[j].at) /\ job'[j].files = job[j].files
    <3> USE DEF At, EndJob
    <3>1. CASE Estimate(j) \/ Plan(j) \/ Lock(j)
      BY <2>0, <3>1 DEF Estimate, Plan, Lock, NoJob, JobRecords
    <3>2. CASE Load(j) \/ Code(j) \/ Propose(j)
      BY <2>0, <3>2, ProposeStays DEF Load, Raise, Code, GoOn, NoJob, JobRecords
    <3>3. CASE Review(j) \/ Finish(j) \/ Release(j) \/ Fail(j)
      BY <2>0, <3>3
         DEF Review, Finish, Release, Fail, Raise, NoJob, JobRecords
    <3>. QED
      BY <1>3, <3>1, <3>2, <3>3 DEF JobStep
  <2>3. status'[e] \in Planned /\ f \in planned'[e] => Claims(e, f)
    <3> USE DEF SetStatus, At, Fits, PlanPlaces, Planned, Waiting, OfCoding
    <3>1. CASE Estimate(j) \/ Plan(j) \/ Lock(j)
      BY <2>0, <2>e, <3>1 DEF Estimate, Plan, Lock, Claims
    <3>2. CASE Review(j)
      BY <2>0, <2>e, <3>2 DEF Review, Claims, NotPlanned
    <3>3. CASE Load(j) \/ Fail(j)
      BY <2>0, <2>e, <3>3 DEF Load, Fail, Raise, Claims
    <3>4. CASE Code(j) \/ Finish(j) \/ Propose(j) \/ Release(j)
      BY <2>0, <2>e, <3>4 DEF Code, Finish, Propose, Release, Claims
    <3>. QED
      BY <1>3, <3>1, <3>2, <3>3, <3>4 DEF JobStep
  <2>. QED
    BY <1>3, <2>1, <2>2, <2>3, <2>e DEF Works, Claims
<1>4. ASSUME Idles PROVE FALSE
  BY <1>4 DEF Idles, Claims, Busy, At
<1>5. PICK j \in Jobs : Works(j) /\ Check(j)
  BY <1>1, <1>2, <1>3, <1>4, StepKinds
<1>6. PICK e \in Epics : e = job[j].epic
  BY <1>5 DEF Works
<1>7. UNCHANGED <<lost, planned>>
  BY <1>5 DEF Check, history
<1>8. o = e
  BY <1>5, <1>6, <1>7 DEF Works, Claims, NoJob
<1>9. f \in job[j].files /\ ~GuardConflict(e, job[j].files)
  <2>0. /\ job[j] \in JobRecords /\ status[e] = "planning"
        /\ status \in [Epics -> Statuses] /\ DOMAIN job = Jobs
    BY <1>0, <1>5, <1>6
       DEF Check, Works, TypeOK, InStep, StatusFits, Fits, At, Busy, PlanPlaces
  <2>1. status'[e] \notin Planned
    BY <1>5, <1>6, <2>0
       DEF Check, SetStatus, Planned, Waiting, OfCoding
  <2>2. PICK i \in Jobs : /\ Booking(job'[i].at) /\ job'[i].epic = o
                          /\ f \in job'[i].files
    BY <2>1, <1>8 DEF Claims
  <2>3. i = j
    BY <1>5, <2>2 DEF Works, Claims
  <2>. QED
    BY <1>5, <1>6, <2>0, <2>2, <2>3 DEF Check, EndJob, NoJob, JobRecords
<1>. QED
  BY <1>5, <1>6, <1>7, <1>8, <1>9 DEF Works, GuardConflict, Active

(* Coding begins with an approved plan, which is not saved anew.           *)
LEMMA CodingBefore ==
  ASSUME OneUser, TypeOK, TypeOK', InStep, [Next]_vars,
         NEW e \in Epics, status'[e] = "coding"
  PROVE  /\ status[e] \in {"plan_approved", "coding"}
         /\ planned'[e] = planned[e]
<1>1. ASSUME NEW o \in Epics, NEW k \in Jobs,
             NEW place \in {"estimating", "loading"},
             Starts(o, k, place)
      PROVE  status[e] = "coding" /\ planned' = planned
  BY <1>1 DEF Starts, Fits, PlanPlaces
<1>2. ASSUME NEW u \in Users, Answers(u)
      PROVE  status[e] = "coding" /\ planned' = planned
  BY <1>2 DEF Answers
<1>3. ASSUME NEW j \in Jobs, Works(j), JobStep(j) \/ Propose(j) \/ Fail(j)
      PROVE  status[e] \in {"plan_approved", "coding"} /\ planned'[e] = planned[e]
  <2>1. CASE job[j].epic # e
    BY <1>3, <2>1 DEF Works
  <2>2. CASE job[j].epic = e
    <3>1. Fits(job[j].at, status[e]) /\ status \in [Epics -> Statuses]
      BY <1>3, <2>2 DEF Works, InStep, StatusFits, TypeOK
    <3> USE DEF SetStatus, Fits, At, PlanPlaces
    <3>2. CASE Estimate(j) \/ Plan(j) \/ Check(j) \/ Lock(j)
      BY <2>2, <3>1, <3>2 DEF Estimate, Plan, Check, Lock
    <3>3. CASE Review(j) \/ Load(j) \/ Fail(j)
      BY <2>2, <3>1, <3>3 DEF Review, Load, Fail, Raise, OfCoding
    <3>4. CASE Code(j) \/ Finish(j) \/ Propose(j) \/ Release(j)
      BY <2>2, <3>1, <3>4 DEF Code, Finish, Propose, Release
    <3>. QED
      BY <1>3, <3>2, <3>3, <3>4 DEF JobStep
  <2>. QED
    BY <2>1, <2>2
<1>4. CASE Idles
  BY <1>4 DEF Idles
<1>. QED
  BY <1>1, <1>2, <1>3, <1>4, StepKinds

(* The record of lost rows grows.                                          *)
LEMMA LostStays ==
  ASSUME OneUser, TypeOK, TypeOK', InStep, [Next]_vars
  PROVE  lost \subseteq lost'
<1>1. ASSUME NEW j \in Jobs, Works(j), JobStep(j) \/ Propose(j) \/ Fail(j)
      PROVE  lost \subseteq lost'
  <2>1. PICK o \in Epics : o = job[j].epic
    BY <1>1 DEF Works
  <2>. QED
    BY <1>1, <2>1, JobLocks, ReserveKeeps
<1>. QED
  BY <1>1, StepKinds DEF Starts, Answers, Idles, history

(* Nobody gets past the guard to a file of a plan being coded.             *)
LEMMA StaysGuarded ==
  ASSUME OneUser, TypeOK, TypeOK', InStep, NotPlanned, PlanLocked, UnseenAll,
         GuardedLate, GuardHolds, [Next]_vars
  PROVE  GuardHolds'
<1> SUFFICES ASSUME NEW e \in Epics, NEW o \in Epics, NEW f \in Files,
                    e # o, status'[e] = "coding", f \in planned'[e],
                    <<e, f, TRUE>> \in lost', Claims(o, f)'
             PROVE  <<e, f, FALSE>> \in lost' \/ <<o, f, FALSE>> \in lost'
  BY DEF GuardHolds
<1>1. status[e] = "coding" /\ f \in planned[e]
  <2>1. CASE <<e, f, TRUE>> \in lost
    BY <2>1, CodingBefore DEF GuardedLate
  <2>2. CASE <<e, f, TRUE>> \notin lost
    BY <2>2, LostInStep, CodingBefore DEF Guarded, Active
  <2>. QED
    BY <2>1, <2>2
<1>2. Claims(o, f)
  BY <1>1, NewClaim
<1>3. CASE <<e, f, TRUE>> \in lost
  BY <1>1, <1>2, <1>3, LostStays DEF GuardHolds
<1>4. CASE <<e, f, TRUE>> \notin lost
  <2>1. holder[f] = e /\ Guarded(f)
    BY <1>4, LostInStep
  <2>2. CASE status[o] \in Planned /\ f \in planned[o]
    <3>1. PICK guarded \in BOOLEAN : <<o, f, guarded>> \in lost
      BY <2>1, <2>2 DEF PlanLocked, HeldOrLost
    <3>2. CASE guarded
      <4>1. status[o] = "coding"
        BY <2>2, <3>1, <3>2 DEF GuardedLate, Planned, Waiting, OfCoding
      <4>2. Claims(e, f)
        BY <1>1 DEF Claims, Planned, OfCoding
      <4>. QED
        BY <2>2, <3>1, <3>2, <4>1, <4>2, LostStays DEF GuardHolds
    <3>3. CASE ~guarded
      BY <3>1, <3>3, LostStays
    <3>. QED
      BY <3>2, <3>3
  <2>3. ASSUME NEW j \in Jobs, job[j].at \in {"reserving", "reviewing"},
               job[j].epic = o, f \in job[j].files
        PROVE  <<o, f, FALSE>> \in lost
    <3>1. CASE At(j, "reserving")
      BY <2>1, <2>3, <3>1 DEF Guarded, UnseenAll
    <3>2. CASE At(j, "reviewing")
      <4>1. status[o] = "planning"
        BY <2>3, <3>2 DEF InStep, StatusFits, Fits, Busy, At, PlanPlaces
      <4>2. PICK guarded \in BOOLEAN : <<o, f, guarded>> \in lost
        BY <2>1, <2>3, <3>2 DEF PlanLocked, HeldOrLost, At
      <4>. QED
        BY <4>1, <4>2 DEF GuardedLate
    <3>. QED
      BY <2>3, <3>1, <3>2 DEF At
  <2>. QED
    BY <1>2, <2>2, <2>3, LostStays DEF Claims
<1>. QED
  BY <1>3, <1>4

(* A file is held by an epic under way, or by one that had an accident.    *)
LEMMA StaysHeld ==
  ASSUME OneUser, TypeOK, TypeOK', InStep, HeldWhile, [Next]_vars
  PROVE  HeldWhile'
<1>0. /\ \A j \in Jobs : Busy(j) => job[j] \in JobRecords
      /\ \A j \in Jobs : Busy(j) => Fits(job[j].at, status[job[j].epic])
      /\ crashes \in Nat
  BY Fields, BoundsAssumption DEF InStep, StatusFits, TypeOK
<1>1. ASSUME NEW e \in Epics, NEW k \in Jobs,
             NEW place \in {"estimating", "loading"},
             Starts(e, k, place)
      PROVE  HeldWhile'
  <2>1. \A o \in Epics : status[o] \in Planned => status'[o] \in Planned
    BY <1>1 DEF Starts, Fits, PlanPlaces, Planned, Waiting, OfCoding
  <2>2. \A i \in Jobs : job[i].at \in {"reviewing", "releasing"} =>
          job'[i] = job[i]
    BY <1>1 DEF Starts, Busy, At
  <2>3. \A u \in Users : request[u].at = "close" => request'[u] = request[u]
    BY <1>1 DEF Starts
  <2>. QED
    BY <1>1, <2>1, <2>2, <2>3 DEF HeldWhile, Starts, locks, history
<1>2. ASSUME NEW u \in Users, Answers(u) PROVE HeldWhile'
  <2>e. PICK e \in Epics : e = request[u].epic
    BY <1>2 DEF Answers
  <2>1. \A v \in Users : request[v].at = "close" =>
          request[v].epic = e /\ status[e] = "rejected"
    BY <1>2, <2>e DEF Answers, InStep, RequestFits
  <2>2. ASSUME NEW o \in Epics, NEW f \in Files, holder'[f] = o, o # e
        PROVE  /\ holder[f] = o /\ status'[o] = status[o]
               /\ \A v \in Users : request[v].at = "close" => request[v].epic # o
    BY <1>2, <2>1, <2>2, <2>e, ReleaseKeeps DEF Answers, locks, history
  <2>3. ASSUME NEW f \in Files, holder'[f] = e
        PROVE  /\ holder[f] = e /\ status[e] # "rejected"
               /\ \/ status'[e] \in Planned
                  \/ status[e] \notin Planned
                  \/ request'[u].at = "close" /\ request'[u].epic = e
    <3>1. ~ ReleaseFiles(e)
      BY <1>2, <2>3, ReleaseKeeps DEF Answers, history
    <3>. QED
      BY <1>2, <2>3, <2>e, <3>1
         DEF Answers, locks, Planned, Waiting, OfCoding, Accepted
  <2>4. UNCHANGED <<job, failed, crashes>>
    BY <1>2 DEF Answers, history
  <2>5. ASSUME NEW o \in Epics, NEW f \in Files, holder'[f] = o
        PROVE  \/ o \in failed' \/ crashes' # 0
               \/ status'[o] \in Planned
               \/ \E i \in Jobs : /\ job'[i].at \in {"reviewing", "releasing"}
                                  /\ job'[i].epic = o
               \/ \E v \in Users : request'[v].at = "close" /\ request'[v].epic = o
    <3>1. CASE o = e
      BY <2>1, <2>3, <2>4, <2>5, <3>1 DEF HeldWhile
    <3>2. CASE o # e
      BY <2>2, <2>4, <2>5, <3>2 DEF HeldWhile
    <3>. QED
      BY <3>1, <3>2
  <2>. QED
    BY <2>5 DEF HeldWhile
<1>3. ASSUME NEW j \in Jobs, Works(j), JobStep(j) \/ Propose(j) \/ Fail(j)
      PROVE  HeldWhile'
  <2>e. PICK e \in Epics : e = job[j].epic
    BY <1>3 DEF Works
  <2>0. /\ Busy(j) /\ job[j] \in JobRecords /\ Fits(job[j].at, status[e])
        /\ status \in [Epics -> Statuses] /\ DOMAIN job = Jobs
        /\ request' = request /\ crashes' = crashes
    BY <1>0, <1>3, <2>e DEF Works, TypeOK
  <2>1. failed \subseteq failed'
    BY <1>3 DEF JobStep, Estimate, Plan, Check, Lock, Review, Load, Code,
         Propose, Finish, Release, Fail, Raise, history
  <2>2. ASSUME NEW o \in Epics, NEW f \in Files, holder'[f] = o, holder[f] # o
        PROVE  o = e /\ ((Lock(j) /\ ~Taken(e, job[j].files)) \/ Propose(j))
    BY <1>3, <2>0, <2>2, <2>e, JobLocks, ReserveGives, ReleaseKeeps
       DEF Lock, JobRecords
  <2>3. ASSUME NEW o \in Epics, NEW f \in Files, holder'[f] = o, o # e
        PROVE  /\ holder[f] = o /\ status'[o] = status[o]
               /\ \A i \in Jobs : Busy(i) /\ job[i].epic = o => job'[i] = job[i]
    BY <1>3, <2>2, <2>3, <2>e DEF Works
  <2>4. ASSUME NEW f \in Files, holder'[f] = e
        PROVE  \/ e \in failed'
               \/ status'[e] \in Planned
               \/ job'[j].at \in {"reviewing", "releasing"} /\ job'[j].epic = e
               \/ /\ holder[f] = e /\ status[e] \notin Planned
                  /\ ~At(j, "reviewing") /\ ~At(j, "releasing")
    <3> USE DEF SetStatus, EndJob, At, Fits, PlanPlaces, Planned, Waiting,
                OfCoding
    <3>1. CASE Estimate(j) \/ Plan(j) \/ Check(j)
      BY <2>0, <2>4, <2>e, <3>1 DEF Estimate, Plan, Check, locks
    <3>2. CASE Lock(j)
      <4>1. CASE Taken(e, job[j].files)
        BY <2>0, <2>2, <2>4, <2>e, <3>2, <4>1 DEF Lock, Propose
      <4>2. CASE ~Taken(e, job[j].files)
        <5>1. job' = [job EXCEPT ![j].at = "reviewing", ![j].unseen = {}]
          BY <2>e, <3>2, <4>2 DEF Lock
        <5>. QED
          BY <2>0, <2>e, <5>1 DEF JobRecords
      <4>. QED
        BY <4>1, <4>2
    <3>3. CASE Review(j)
      BY <2>0, <2>e, <3>3 DEF Review
    <3>4. CASE Load(j) \/ Fail(j)
      BY <2>0, <2>e, <3>4 DEF Load, Fail, Raise
    <3>5. CASE Code(j) \/ Propose(j)
      BY <2>0, <2>e, <3>5 DEF Code, Propose
    <3>6. CASE Finish(j)
      BY <2>0, <2>e, <3>6 DEF Finish, JobRecords
    <3>7. CASE Release(j)
      BY <2>4, <2>e, <3>7, NoEpicAssumption DEF Release, ReleaseFiles, TypeOK
    <3>. QED
      BY <1>3, <3>1, <3>2, <3>3, <3>4, <3>5, <3>6, <3>7 DEF JobStep
  <2>5. \A i \in Jobs : Busy(i) /\ job[i].epic = e => i = j
    BY <1>3, <2>e DEF Works, InStep, OnlyJob
  <2>6. ASSUME NEW o \in Epics, NEW f \in Files, holder'[f] = o, o # e
        PROVE  \/ o \in failed' \/ crashes' # 0
               \/ status'[o] \in Planned
               \/ \E i \in Jobs : /\ job'[i].at \in {"reviewing", "releasing"}
                                  /\ job'[i].epic = o
               \/ \E u \in Users : request'[u].at = "close" /\ request'[u].epic = o
    BY <2>0, <2>1, <2>3, <2>6 DEF HeldWhile, Busy, At
  <2>7. ASSUME NEW f \in Files, holder'[f] = e
        PROVE  \/ e \in failed' \/ crashes' # 0
               \/ status'[e] \in Planned
               \/ \E i \in Jobs : /\ job'[i].at \in {"reviewing", "releasing"}
                                  /\ job'[i].epic = e
               \/ \E u \in Users : request'[u].at = "close" /\ request'[u].epic = e
    BY <2>0, <2>1, <2>4, <2>5, <2>7, <2>e DEF HeldWhile, Busy, At
  <2>. QED
    BY <2>6, <2>7 DEF HeldWhile
<1>4. CASE Idles
  BY <1>0, <1>4 DEF Idles, HeldWhile
<1>. QED
  BY <1>1, <1>2, <1>3, <1>4, StepKinds

-----------------------------------------------------------------------------
(* The theorems.                                                           *)

(* The invariant holds at the start,                                       *)
LEMMA InitIInv == Init => IInv
<1> SUFFICES ASSUME Init PROVE IInv
  OBVIOUS
<1>1. TypeOK
  BY BoundsAssumption, NoEpicAssumption
     DEF Init, LocksInit, TypeOK, LocksTypeOK, Statuses, NoJob, NoRequest
<1>2. /\ \A j \in Jobs : job[j].at = "none"
      /\ \A u \in Users : request[u].at = "none"
      /\ \A e \in Epics : status[e] = "proposed" /\ planned[e] = {}
      /\ \A f \in Files : holder[f] = NoEpic
      /\ lost = {}
  BY DEF Init, LocksInit, NoJob, NoRequest
<1>3. InStep
  BY <1>2 DEF InStep, StatusFits, OnlyJob, Served, RequestFits, Busy, At,
       AtWork, OfCoding
<1>4. ChildWaits /\ NotPlanned /\ PlanLocked
  BY <1>2 DEF ChildWaits, NotPlanned, PlanLocked, Waiting, Planned, OfCoding,
       PlanPlaces
<1>5. UnseenAll /\ GuardedLate /\ GuardHolds
  BY <1>2 DEF UnseenAll, GuardedLate, GuardHolds, At
<1>6. HeldWhile
  BY <1>2, NoEpicAssumption DEF HeldWhile
<1>. QED
  BY <1>1, <1>3, <1>4, <1>5, <1>6 DEF IInv

(* and every step keeps it,                                                *)
LEMMA NextIInv == ASSUME OneUser, IInv, [Next]_vars PROVE IInv'
<1>1. TypeOK'
  BY TypeInvariant DEF IInv
<1>2. InStep'
  BY <1>1, StaysInStep DEF IInv
<1>3. ChildWaits' /\ NotPlanned' /\ PlanLocked'
  BY <1>1, StaysWaiting, StaysNotPlanned, StaysLocked DEF IInv
<1>4. UnseenAll' /\ GuardedLate' /\ GuardHolds'
  BY <1>1, StaysUnseen, StaysLate, StaysGuarded DEF IInv
<1>5. HeldWhile'
  BY <1>1, StaysHeld DEF IInv
<1>. QED
  BY <1>1, <1>2, <1>3, <1>4, <1>5 DEF IInv

(* so it always holds.                                                     *)
LEMMA Inductive == ASSUME OneUser PROVE Spec => []IInv
<1>1. Init => IInv
  BY InitIInv
<1>2. IInv /\ [Next]_vars => IInv'
  BY NextIInv
<1>. QED
  BY <1>1, <1>2, PTL DEF Spec

(* The variables keep to their values, with any number of users.           *)
THEOREM TypeCorrect == Spec => []TypeOK
<1>1. Init => TypeOK
  BY InitIInv DEF IInv
<1>. QED
  BY <1>1, TypeInvariant, PTL DEF Spec

(* The launchers of api/epics.py never start a second job for an epic, and *)
(* an epic whose status says that it is being worked on has its job.       *)
THEOREM JobIsAlone == ASSUME OneUser PROVE Spec => []OneJob
<1>1. IInv => OneJob
  BY DEF IInv, InStep, OnlyJob, Served, OneJob, JobsOf, AtWork, OfCoding, Busy
<1>. QED
  BY <1>1, Inductive, PTL

(* An approved plan is never refused by run_epic_after_plan_approval()     *)
(* for its child task.                                                     *)
THEOREM PlanLoads == ASSUME OneUser PROVE Spec => []ApprovedPlanLoads
<1>1. ASSUME IInv PROVE ApprovedPlanLoads
  <2>1. ASSUME NEW j \in Jobs, At(j, "loading")
        PROVE  /\ NewestChild(job[j].epic) # 0
               /\ children[job[j].epic][NewestChild(job[j].epic)] = "planning"
    <3>1. job[j].epic \in Epics /\ LastPlans(job[j].epic)
      BY <1>1, <2>1, Fields DEF IInv, ChildWaits, Busy, At, JobRecords
    <3>. QED
      BY <1>1, <3>1, NewestPlans DEF IInv, LastPlans
  <2>. QED
    BY <2>1 DEF ApprovedPlanLoads
<1>. QED
  BY <1>1, Inductive, PTL

(* The files a job codes are locked by its epic, unless rows expired.      *)
THEOREM CodersHold == ASSUME OneUser PROVE Spec => []CoderHoldsFiles
<1>1. IInv => CoderHoldsFiles
  BY DEF IInv, PlanLocked, HeldOrLost, CoderHoldsFiles, Coders
<1>. QED
  BY <1>1, Inductive, PTL

(* Two epics code plans with a common file only after a row expired where  *)
(* check_file_conflicts() did not look.                                    *)
THEOREM Apart == ASSUME OneUser PROVE Spec => []PlansApart
<1>1. ASSUME IInv PROVE PlansApart
  <2>1. ASSUME NEW j \in Coders
        PROVE  /\ job[j].epic \in Epics /\ planned[job[j].epic] \subseteq Files
               /\ status[job[j].epic] \in OfCoding
               /\ At(j, "coding") => status[job[j].epic] = "coding"
    BY <1>1, <2>1, Fields
       DEF IInv, TypeOK, InStep, StatusFits, Fits, Coders, Busy, At,
           JobRecords, OfCoding
  <2>2. ASSUME NEW e \in Epics, NEW o \in Epics, NEW f \in Files, e # o,
               status[e] \in OfCoding, status[o] \in OfCoding,
               f \in planned[e], f \in planned[o], holder[f] # e
        PROVE  f \in Unguarded(e) \union Unguarded(o)
    <3>1. PICK guarded \in BOOLEAN : <<e, f, guarded>> \in lost
      BY <1>1, <2>2 DEF IInv, PlanLocked, HeldOrLost, Planned
    <3>2. CASE guarded
      <4>1. status[e] = "coding"
        BY <1>1, <2>2, <3>1, <3>2 DEF IInv, GuardedLate, OfCoding
      <4>2. Claims(o, f)
        BY <2>2 DEF Claims, Planned
      <4>. QED
        BY <1>1, <2>2, <3>1, <3>2, <4>1, <4>2 DEF IInv, GuardHolds, Unguarded
    <3>3. CASE ~guarded
      BY <3>1, <3>3 DEF Unguarded
    <3>. QED
      BY <3>2, <3>3
  <2>3. ASSUME NEW j \in Coders, NEW k \in Coders, job[j].epic # job[k].epic,
               NEW f \in planned[job[j].epic] \intersect planned[job[k].epic]
        PROVE  f \in Unguarded(job[j].epic) \union Unguarded(job[k].epic)
    <3>1. CASE holder[f] # job[j].epic
      BY <2>1, <2>2, <2>3, <3>1
    <3>2. CASE holder[f] # job[k].epic
      BY <2>1, <2>2, <2>3, <3>2
    <3>. QED
      BY <2>3, <3>1, <3>2
  <2>. QED
    BY <2>3 DEF PlansApart
<1>. QED
  BY <1>1, Inductive, PTL

(* An epic that is through leaves no file locked.                          *)
THEOREM NothingLeft == ASSUME OneUser PROVE Spec => []DoneHoldsNothing
<1>1. ASSUME IInv PROVE DoneHoldsNothing
  BY <1>1 DEF IInv, HeldWhile, DoneHoldsNothing, Held, JobsOf, At, Planned,
       Waiting, OfCoding
<1>. QED
  BY <1>1, Inductive, PTL

(* No job overwrites what people have decided, though it writes the status *)
(* without a condition.                                                    *)
THEOREM DecisionStands == ASSUME OneUser PROVE Spec => ClosedStaysClosed
<1> DEFINE Stays == \A e \in Epics :
             status[e] \in {"approved", "rejected"} => status'[e] = status[e]
<1>1. ASSUME IInv, TypeOK', [Next]_vars PROVE Stays
  <2>0. InStep
    BY <1>1 DEF IInv
  <2>1. ASSUME NEW e \in Epics, NEW k \in Jobs,
               NEW place \in {"estimating", "loading"}, Starts(e, k, place)
        PROVE  Stays
    BY <2>1 DEF Starts
  <2>2. ASSUME NEW u \in Users, Answers(u) PROVE Stays
    BY <2>2 DEF Answers, Accepted
  <2>3. ASSUME NEW j \in Jobs, Works(j) PROVE Stays
    BY <2>3 DEF Works, AtWork, OfCoding
  <2>4. CASE Idles
    BY <2>4 DEF Idles
  <2>. QED
    BY <1>1, <2>0, <2>1, <2>2, <2>3, <2>4, StepKinds DEF IInv
<1>2. IInv /\ IInv' /\ [Next]_vars => [Stays]_vars
  BY <1>1 DEF IInv
<1>. QED
  BY <1>2, Inductive, PTL DEF Spec, ClosedStaysClosed
=============================================================================
