------------------------ MODULE ManagerWaves_proofs -------------------------
(***************************************************************************)
(* Proofs about the waves of a plan, in five parts: what SubtaskSchedule   *)
(* promises; the commits of subtasks that run side by side; what the waves *)
(* of a plan and its edits are, and the invariant of a run; that the way   *)
(* of a run gets shorter; and that it implements SubtaskSchedule.          *)
(***************************************************************************)
EXTENDS ManagerWaves, FiniteSetTheorems, NaturalsInduction, WellFoundedInduction,
        TLAPS

(* The schedule of any plan, apart from the manager that carries it out.   *)
CONSTANTS Ids, Clashes
VARIABLES before, writes, ordered, begun, running, ended

Plan == INSTANCE SubtaskSchedule

PlanInv == Plan!TypeOK /\ Plan!Once /\ Plan!WritersApart /\ Plan!InOrder

LEMMA PlanInitHolds == Plan!Init => PlanInv
BY DEF Plan!Init, PlanInv, Plan!TypeOK, Plan!Once, Plan!WritersApart,
   Plan!InOrder, Plan!Known, Plan!Dependencies

(* What is known of the plan's dependencies has this form.                 *)
LEMMA PlanKnownAre ==
  ASSUME before \in Plan!Dependencies
  PROVE  Plan!Known \subseteq Ids /\ before \in [Plan!Known -> SUBSET Ids]
BY DEF Plan!Dependencies, Plan!Known

LEMMA PlanFormed ==
  ASSUME NEW S \in SUBSET Ids, NEW f \in [S -> SUBSET Ids]
  PROVE  f \in Plan!Dependencies /\ DOMAIN f = S
BY DEF Plan!Dependencies

LEMMA PlanReviseKeeps ==
  ASSUME PlanInv, NEW i \in Ids, NEW R \in SUBSET Ids, Plan!Revise(i, R)
  PROVE  PlanInv'
<1>1. running' = {} /\ ended' = {} /\ begun' = FALSE
  BY DEF PlanInv, Plan!TypeOK, Plan!Revise
<1>2. before' \in Plan!Dependencies /\ Plan!Known' = Plan!Known \ R
  BY PlanKnownAre, PlanFormed DEF PlanInv, Plan!TypeOK, Plan!Revise, Plan!Known
<1>3. Plan!TypeOK'
  BY <1>1, <1>2 DEF PlanInv, Plan!TypeOK, Plan!Revise
<1>4. QED
  BY <1>1, <1>3 DEF PlanInv, Plan!Once, Plan!WritersApart, Plan!InOrder

LEMMA PlanStartKeeps ==
  ASSUME PlanInv, NEW S \in SUBSET Ids, Plan!Start(S)
  PROVE  PlanInv'
<1>1. Plan!TypeOK'
  BY DEF PlanInv, Plan!TypeOK, Plan!Start, Plan!Known
<1>2. Plan!Once'
  BY DEF PlanInv, Plan!Once, Plan!Start
<1>3. Plan!WritersApart'
  BY DEF PlanInv, Plan!WritersApart, Plan!Start, Plan!Apart
<1>4. Plan!InOrder'
  BY DEF PlanInv, Plan!InOrder, Plan!Start
<1>5. QED
  BY <1>1, <1>2, <1>3, <1>4 DEF PlanInv

LEMMA PlanEndKeeps ==
  ASSUME PlanInv, NEW i \in Ids, Plan!End(i)
  PROVE  PlanInv'
<1>1. Plan!TypeOK'
  BY DEF PlanInv, Plan!TypeOK, Plan!End, Plan!Known
<1>2. Plan!Once'
  BY DEF PlanInv, Plan!Once, Plan!End
<1>3. Plan!WritersApart'
  BY DEF PlanInv, Plan!WritersApart, Plan!End, Plan!Apart
<1>4. Plan!InOrder'
  BY DEF PlanInv, Plan!InOrder, Plan!End
<1>5. QED
  BY <1>1, <1>2, <1>3, <1>4 DEF PlanInv

LEMMA PlanAddKeeps ==
  ASSUME PlanInv, NEW i \in Ids, Plan!Add(i)
  PROVE  PlanInv'
<1>1. PICK parent \in ended :
        /\ before' \in [Plan!Known \cup {i} -> SUBSET Ids]
        /\ before'[i] = {parent}
  BY DEF Plan!Add
<1>2. before' \in Plan!Dependencies /\ Plan!Known' = Plan!Known \cup {i}
  BY <1>1, PlanKnownAre, PlanFormed DEF PlanInv, Plan!TypeOK, Plan!Known
<1>3. Plan!TypeOK'
  BY <1>2 DEF PlanInv, Plan!TypeOK, Plan!Add
<1>4. QED
  BY <1>3 DEF PlanInv, Plan!Once, Plan!WritersApart, Plan!InOrder, Plan!Add

LEMMA PlanStepKeeps == PlanInv /\ [Plan!Next]_(Plan!vars) => PlanInv'
<1> SUFFICES ASSUME PlanInv, [Plan!Next]_(Plan!vars) PROVE PlanInv'
  OBVIOUS
<1>1. CASE \E i \in Ids, R \in SUBSET Ids : Plan!Revise(i, R)
  BY <1>1, PlanReviseKeeps
<1>2. CASE \E S \in SUBSET Ids : Plan!Start(S)
  BY <1>2, PlanStartKeeps
<1>3. CASE \E i \in Ids : Plan!End(i) \/ Plan!Add(i)
  BY <1>3, PlanEndKeeps, PlanAddKeeps
<1>4. CASE Plan!Begin
  BY <1>4
     DEF PlanInv, Plan!TypeOK, Plan!Once, Plan!WritersApart, Plan!InOrder,
         Plan!Apart, Plan!Known, Plan!Begin
<1>5. CASE UNCHANGED Plan!vars
  BY <1>5
     DEF PlanInv, Plan!TypeOK, Plan!Once, Plan!WritersApart, Plan!InOrder,
         Plan!Apart, Plan!Known, Plan!vars
<1>6. QED
  BY <1>1, <1>2, <1>3, <1>4, <1>5 DEF Plan!Next

LEMMA PlanInvariance == Plan!Spec => []PlanInv
BY PlanInitHolds, PlanStepKeeps, PTL DEF Plan!Spec

(* Whatever the plan, its edits and the steps that join it, no step runs   *)
(* after it has ended.                                                     *)
THEOREM StartedOnce == Plan!Spec => []Plan!Once
<1>1. PlanInv => Plan!Once
  BY DEF PlanInv
<1>2. QED
  BY <1>1, PlanInvariance, PTL

(* Steps that run together never declare clashing files, and none of them  *)
(* is one that declares no files.                                          *)
THEOREM NoSharedFiles == Plan!Spec => []Plan!WritersApart
<1>1. PlanInv => Plan!WritersApart
  BY DEF PlanInv
<1>2. QED
  BY <1>1, PlanInvariance, PTL

(* When the dependencies form an order, a step runs after those it depends *)
(* on, through the steps that join meanwhile.                              *)
THEOREM DependenciesFirst == Plan!Spec => []Plan!InOrder
<1>1. PlanInv => Plan!InOrder
  BY DEF PlanInv
<1>2. QED
  BY <1>1, PlanInvariance, PTL
-----------------------------------------------------------------------------

(***************************************************************************)
(* The subtask that commits is the one that holds git_commit_lock, and the *)
(* index of the worktree holds its changes and those of failed commits.    *)
(***************************************************************************)
HolderCommits == \A i \in Idx : At(i, "commit") => lock = i

IndexIsOwned ==
  /\ lock = Nobody => staged \subseteq left
  /\ lock # Nobody => staged \subseteq left \cup {lock}

IInv == pc \in [Idx -> Stages] /\ HolderCommits /\ IndexIsOwned

LEMMA NobodyIsNoIndex == Nobody \notin Idx
BY DEF Nobody, Idx

LEMMA InitHolds == Init => IInv
BY DEF Init, IInv, Stages, HolderCommits, IndexIsOwned, At

(* A step that leaves git alone and moves a subtask to a stage that is not *)
(* the commit.                                                             *)
LEMMA MoveKeeps ==
  ASSUME IInv, UNCHANGED gitVars, pc' \in [Idx -> Stages],
         \A i \in Idx : pc'[i] = "commit" => pc[i] = "commit"
  PROVE  IInv'
BY DEF IInv, HolderCommits, IndexIsOwned, At, gitVars

LEMMA GoToKeeps ==
  ASSUME IInv, UNCHANGED gitVars, NEW i \in Idx, NEW stage \in Stages \ {"commit"},
         GoTo(i, stage)
  PROVE  IInv'
BY MoveKeeps DEF IInv, GoTo

LEMMA RetryKeeps ==
  ASSUME IInv, UNCHANGED gitVars, NEW i \in Idx, Retry(i)
  PROVE  IInv'
BY GoToKeeps DEF Retry, Settle, Stages

LEMMA AddFilesKeeps ==
  ASSUME IInv, NEW i \in Idx, AddFiles(i)
  PROVE  IInv'
<1>1. CASE staged' = staged \cup {i} /\ lock' = i /\ GoTo(i, "commit")
  <2>1. pc' \in [Idx -> Stages]
    BY <1>1 DEF IInv, GoTo, Stages
  <2>2. HolderCommits'
    BY <1>1, NobodyIsNoIndex DEF IInv, HolderCommits, At, AddFiles, GoTo
  <2>3. IndexIsOwned'
    BY <1>1, NobodyIsNoIndex DEF IInv, IndexIsOwned, AddFiles
  <2>4. QED
    BY <2>1, <2>2, <2>3 DEF IInv
<1>2. CASE UNCHANGED <<lock, staged>> /\ (GoTo(i, "qa") \/ Raise(i))
  BY <1>2, GoToKeeps DEF AddFiles, Raise, gitVars, Stages
<1>3. QED
  BY <1>1, <1>2 DEF AddFiles

LEMMA CommitKeeps ==
  ASSUME IInv, NEW i \in Idx, Commit(i)
  PROVE  IInv'
<1>1. lock = i /\ lock # Nobody /\ staged \subseteq left \cup {i}
  BY NobodyIsNoIndex DEF IInv, HolderCommits, IndexIsOwned, Commit
<1>2. /\ pc' \in [Idx -> Stages]
      /\ pc' = [pc EXCEPT ![i] = "qa"] \/ pc' = [pc EXCEPT ![i] = "raised"]
  BY DEF IInv, Commit, Raise, GoTo, Stages
<1>3. HolderCommits'
  BY <1>1, <1>2 DEF IInv, HolderCommits, At
<1>4. IndexIsOwned'
  BY <1>1 DEF Commit, IndexIsOwned
<1>5. QED
  BY <1>2, <1>3, <1>4 DEF IInv

LEMMA LateCommitKeeps ==
  ASSUME IInv, NEW i \in Idx, LateCommit(i)
  PROVE  IInv'
<1>1. pc' = pc /\ lock' = lock
  BY DEF LateCommit, stepVars
<1>2. IndexIsOwned'
  BY <1>1 DEF IInv, IndexIsOwned, LateCommit
<1>3. QED
  BY <1>1, <1>2 DEF IInv, HolderCommits, At

LEMMA WorkKeeps ==
  ASSUME IInv, NEW i \in Idx, Work(i)
  PROVE  IInv'
<1>1. CASE TurnAway(i)
  BY <1>1, GoToKeeps DEF TurnAway, Stages
<1>2. CASE TakeSlot(i)
  BY <1>2, GoToKeeps DEF TakeSlot, Stages
<1>3. CASE Fail(i)
  BY <1>3, RetryKeeps DEF Fail
<1>4. CASE Develop(i)
  BY <1>4, GoToKeeps DEF Develop, Stages
<1>5. CASE QA(i) \/ Review(i)
  BY <1>5, GoToKeeps DEF QA, Review, Pass, Stages
<1>6. CASE Gates(i)
  BY <1>6, GoToKeeps DEF Gates, Settle, Stages
<1>7. QED
  BY <1>1, <1>2, <1>3, <1>4, <1>5, <1>6, AddFilesKeeps, CommitKeeps DEF Work

LEMMA ManageKeeps ==
  ASSUME IInv, Manage
  PROVE  IInv'
<1>1. CASE NextWave
  <2>1. /\ pc' \in [Idx -> Stages]
        /\ \A i \in Idx : pc'[i] = "commit" => pc[i] = "commit"
    BY <1>1 DEF IInv, NextWave, Stages
  <2>2. QED
    BY <1>1, <2>1, MoveKeeps DEF NextWave
<1>2. CASE EndWave
  BY <1>2, MoveKeeps DEF EndWave, IInv
<1>3. CASE Integrate \/ Return
  BY <1>3, MoveKeeps DEF Integrate, Return, stepVars, IInv
<1>4. QED
  BY <1>1, <1>2, <1>3 DEF Manage

LEMMA StepKeeps == IInv /\ [Next]_vars => IInv'
<1> SUFFICES ASSUME IInv, [Next]_vars PROVE IInv'
  OBVIOUS
<1>1. CASE \E i \in Idx \cup {0}, d \in Edits, R \in SUBSET Steps : Approve(i, d, R)
  BY <1>1, MoveKeeps DEF Approve, stepVars, IInv
<1>2. CASE Begin
  BY <1>2, MoveKeeps DEF Begin, stepVars, IInv
<1>3. CASE \E i \in Idx : \E p \in Offers : Propose(i, p)
  BY <1>3, MoveKeeps DEF Propose, IInv
<1>4. CASE \E i \in Idx : Collect(i)
  BY <1>4, GoToKeeps DEF Collect, Stages
<1>5. CASE UNCHANGED vars
  BY <1>5, MoveKeeps DEF vars, stepVars, IInv
<1>6. QED
  BY <1>1, <1>2, <1>3, <1>4, <1>5, WorkKeeps, LateCommitKeeps, ManageKeeps
     DEF Next

LEMMA Invariance == Spec => []IInv
BY InitHolds, StepKeeps, PTL DEF Spec

(* The index is emptied by the commit of the step that holds the lock, or  *)
(* by one that timed out.                                                  *)
Takes ==
  staged # {} /\ staged' = {} =>
    /\ staged \subseteq {lock} \cup left
    /\ late' = late => \E i \in Idx : At(i, "commit") /\ lock = i

LEMMA StagedStays ==
  ASSUME [Next]_vars, \A i \in Idx : ~AddFiles(i) /\ ~Commit(i) /\ ~LateCommit(i)
  PROVE  staged' = staged
<1>1. CASE \E i \in Idx : Work(i)
  BY <1>1
     DEF Work, TurnAway, TakeSlot, Fail, Develop, QA, Review, Pass, Gates,
         gitVars
<1>2. CASE Manage
  BY <1>2 DEF Manage, NextWave, EndWave, Integrate, Return, gitVars
<1>3. CASE Begin \/ \E i \in Idx \cup {0}, d \in Edits, R \in SUBSET Steps : Approve(i, d, R)
  BY <1>3 DEF Begin, Approve, gitVars
<1>4. CASE \E i \in Idx : Collect(i) \/ (\E p \in Offers : Propose(i, p))
  BY <1>4 DEF Collect, Propose, gitVars
<1>5. CASE UNCHANGED vars
  BY <1>5 DEF vars, gitVars
<1>6. QED
  BY <1>1, <1>2, <1>3, <1>4, <1>5 DEF Next

(* For any plan and any number of subtasks that run side by side, a commit *)
(* carries the changes of the subtask that makes it and what failed or     *)
(* timed-out commits left in the index, and nothing of a subtask beside    *)
(* it; only a commit that has timed out may carry those of the one subtask *)
(* that has the commit lock by then.                                       *)
THEOREM CommitsOwnChanges == Spec => CommitsApart
<1>1. IInv /\ [Next]_vars => [Takes]_vars
  <2> SUFFICES ASSUME IInv, [Next]_vars PROVE Takes
    OBVIOUS
  <2>1. staged \subseteq {lock} \cup left
    BY DEF IInv, IndexIsOwned
  <2>2. ASSUME NEW i \in Idx, AddFiles(i) PROVE staged' # {} \/ staged' = staged
    BY <2>2 DEF AddFiles
  <2>3. ASSUME NEW i \in Idx, Commit(i) PROVE At(i, "commit") /\ lock = i
    BY <2>3 DEF Commit, IInv, HolderCommits
  <2>4. ASSUME NEW i \in Idx, LateCommit(i) PROVE late' # late
    BY <2>4 DEF LateCommit
  <2>5. QED
    BY <2>1, <2>2, <2>3, <2>4, StagedStays DEF Takes
<1>2. [][Takes]_vars <=> CommitsApart
  BY DEF Takes, CommitsApart
<1>3. QED
  BY <1>1, <1>2, Invariance, PTL DEF Spec
-----------------------------------------------------------------------------
(* A set of naturals that is not empty has a least one.                    *)
LEMMA LeastNatural ==
  ASSUME NEW T \in SUBSET Nat, T # {}
  PROVE  \E x \in T : \A y \in T : x <= y
<1> DEFINE R == {ss \in Nat \X Nat : ss[1] < ss[2]}
<1>1. IsWellFoundedOn(R, Nat)
  BY NatLessThanWellFounded DEF OpToRel
<1>2. PICK x \in T : \A y \in T : ~ (<<y, x>> \in R)
  <2> HIDE DEF R
  <2>. QED
    BY <1>1, WFMin
<1>3. \A y \in T : ~ (y < x)
  BY <1>2
<1>. QED
  BY <1>3

(* What holds of 0 and passes from each number to the next holds up to n.  *)
LEMMA UpTo ==
  ASSUME NEW n \in Nat, NEW S, 0 \in S,
         \A k \in 1..n : k - 1 \in S => k \in S
  PROVE  \A k \in 0..n : k \in S
<1> SUFFICES ASSUME NEW k \in 0..n, k \notin S PROVE FALSE
  OBVIOUS
<1> DEFINE T == {m \in 0..n : m \notin S}
<1>1. PICK x \in T : \A y \in T : x <= y
  <2>1. T \in SUBSET Nat /\ T # {}
    OBVIOUS
  <2>2. QED
    BY <2>1, LeastNatural
<1>2. x \in 1..n /\ x - 1 \in 0..n
  OBVIOUS
<1>3. x - 1 \in S
  BY <1>1, <1>2
<1>. QED
  BY <1>2, <1>3

(* f counts up from base by the steps of h, through the sets of X.         *)
Counts(n, base, h, f) ==
  f = [k \in 0..n |-> IF k = 0 THEN base ELSE h[k][f[k - 1]]]

Within(n, X, f) == \A k \in 0..n : f[k] \in X[k]

LEMMA CountExists ==
  ASSUME NEW n \in Nat, NEW X, NEW base, NEW h, base \in X[0],
         \A k \in 1..n : \A x \in X[k - 1] : h[k][x] \in X[k]
  PROVE  \E f : Counts(n, base, h, f) /\ Within(n, X, f)
<1> DEFINE S == {m \in 0..n : \E f : Counts(m, base, h, f) /\ Within(m, X, f)}
<1>1. 0 \in S
  <2> DEFINE f == [k \in 0..0 |-> base]
  <2>1. Counts(0, base, h, f) /\ Within(0, X, f)
    BY DEF Counts, Within
  <2>. QED
    BY <2>1
<1>2. ASSUME NEW m \in 1..n, m - 1 \in S PROVE m \in S
  <2>1. PICK g : Counts(m - 1, base, h, g) /\ Within(m - 1, X, g)
    BY <1>2
  <2> DEFINE f == [k \in 0..m |-> IF k = m THEN h[m][g[m - 1]] ELSE g[k]]
  <2>2. \A k \in 0..(m - 1) : g[k] = IF k = 0 THEN base ELSE h[k][g[k - 1]]
    BY <2>1 DEF Counts
  <2>3. \A k \in 0..(m - 1) : f[k] = g[k]
    OBVIOUS
  <2>4. \A k \in 0..m : f[k] = IF k = 0 THEN base ELSE h[k][f[k - 1]]
    <3> TAKE k \in 0..m
    <3>1. CASE k = m
      BY <3>1, <2>3
    <3>2. CASE k # m
      <4>1. k \in 0..(m - 1) /\ (k # 0 => k - 1 \in 0..(m - 1))
        BY <3>2
      <4>. QED
        BY <2>2, <2>3, <4>1
    <3>. QED
      BY <3>1, <3>2
  <2>5. \A k \in 0..m : f[k] \in X[k]
    <3> TAKE k \in 0..m
    <3>1. CASE k = m
      <4>1. g[m - 1] \in X[m - 1]
        BY <2>1 DEF Within
      <4>. QED
        BY <3>1, <4>1
    <3>2. CASE k # m
      <4>1. k \in 0..(m - 1)
        BY <3>2
      <4>. QED
        BY <2>1, <2>3, <4>1 DEF Within
    <3>. QED
      BY <3>1, <3>2
  <2>6. Counts(m, base, h, f)
    <3> DEFINE F == [k \in 0..m |-> IF k = 0 THEN base ELSE h[k][f[k - 1]]]
    <3>1. \A k \in 0..m : f[k] = F[k]
      BY <2>4
    <3>2. f = F
      BY <3>1
    <3>. QED
      BY <3>2 DEF Counts
  <2>. QED
    BY <2>5, <2>6 DEF Within
<1>. HIDE DEF S
<1>3. n \in S
  BY <1>1, <1>2, UpTo
<1>. QED
  BY <1>3 DEF S

-----------------------------------------------------------------------------
(* Ascending lists.                                                        *)

(* q lists the set S in ascending order.                                   *)
Lists(q, S) ==
  /\ q \in Seq(S)
  /\ \A i \in S : \E m \in 1..Len(q) : q[m] = i
  /\ \A a, b \in 1..Len(q) : a < b => q[a] < q[b]

UpToPlace(S, k) == {i \in S : i <= k}

LEMMA UpToPlaceIs ==
  ASSUME NEW n \in Nat, NEW S \in SUBSET (1..n)
  PROVE  /\ UpToPlace(S, n) = S
         /\ \A k \in 1..n : UpToPlace(S, k) = UpToPlace(S, k - 1) \cup (S \cap {k})
         /\ UpToPlace(S, 0) = {}
         /\ \A k \in 1..n : /\ UpToPlace(S, k - 1) \in SUBSET Nat
                            /\ \A i \in UpToPlace(S, k - 1) : i < k
<1>1. \A i \in S : i \in Int /\ i <= n /\ i > 0
  OBVIOUS
<1>2. UpToPlace(S, n) = S
  BY <1>1 DEF UpToPlace
<1>3. ASSUME NEW k \in 1..n
      PROVE  UpToPlace(S, k) = UpToPlace(S, k - 1) \cup (S \cap {k})
  <2>1. \A i \in S : i <= k <=> i <= k - 1 \/ i = k
    BY <1>1
  <2>. QED
    BY <2>1 DEF UpToPlace
<1>4. UpToPlace(S, 0) = {}
  <2>1. \A i \in S : ~ (i <= 0)
    BY <1>1
  <2>. QED
    BY <2>1 DEF UpToPlace
<1>5. ASSUME NEW k \in 1..n
      PROVE  /\ UpToPlace(S, k - 1) \in SUBSET Nat
             /\ \A i \in UpToPlace(S, k - 1) : i < k
  <2>1. \A i \in S : i \in Nat /\ (i <= k - 1 => i < k)
    BY <1>1
  <2>. QED
    BY <2>1 DEF UpToPlace
<1>. QED
  BY <1>2, <1>3, <1>4, <1>5

LEMMA AppendLists ==
  ASSUME NEW S \in SUBSET Nat, NEW i \in Nat, \A j \in S : j < i,
         NEW q, Lists(q, S)
  PROVE  Lists(Append(q, i), S \cup {i}) /\ Len(Append(q, i)) = Len(q) + 1
<1> DEFINE r == Append(q, i)
<1>1. /\ q \in Seq(S \cup {i}) /\ Len(q) \in Nat
      /\ r \in Seq(S \cup {i}) /\ Len(r) = Len(q) + 1
      /\ \A m \in 1..Len(q) : r[m] = q[m] /\ q[m] \in S
      /\ r[Len(q) + 1] = i
  BY DEF Lists
<1>2. \A j \in S \cup {i} : \E m \in 1..Len(r) : r[m] = j
  <2> SUFFICES ASSUME NEW j \in S \cup {i} PROVE \E m \in 1..Len(r) : r[m] = j
    OBVIOUS
  <2>1. CASE j = i
    BY <1>1, <2>1
  <2>2. CASE j # i
    <3>1. PICK m \in 1..Len(q) : q[m] = j
      BY <2>2 DEF Lists
    <3>. QED
      BY <1>1, <3>1
  <2>. QED
    BY <2>1, <2>2
<1>3. \A a, b \in 1..Len(r) : a < b => r[a] < r[b]
  <2> TAKE a, b \in 1..Len(r)
  <2> HAVE a < b
  <2>1. a \in 1..Len(q)
    BY <1>1
  <2>2. CASE b \in 1..Len(q)
    BY <1>1, <2>1, <2>2 DEF Lists
  <2>3. CASE b = Len(q) + 1
    BY <1>1, <2>1, <2>3
  <2>. QED
    BY <1>1, <2>2, <2>3
<1>. QED
  BY <1>1, <1>2, <1>3 DEF Lists

LEMMA AscendingLists ==
  ASSUME NEW n \in Nat, NEW S \in SUBSET (1..n)
  PROVE  Lists(Ascending(n, S), S) /\ Len(Ascending(n, S)) <= n
<1> DEFINE next(q, k) == IF k \in S THEN Append(q, k) ELSE q
           X == [k \in 0..n |-> {q \in Seq(S) : Lists(q, UpToPlace(S, k)) /\ Len(q) <= k}]
           h == [k \in 1..n |-> [q \in X[k - 1] |-> next(q, k)]]
           A == CHOOSE f : f = [k \in 0..n |-> IF k = 0 THEN <<>> ELSE next(f[k - 1], k)]
<1>1. <<>> \in X[0]
  BY DEF Lists, UpToPlace
<1>2. \A k \in 1..n : \A q \in X[k - 1] : next(q, k) \in X[k]
  <2> TAKE k \in 1..n
  <2> TAKE q \in X[k - 1]
  <2>1. CASE k \in S
    <3>1. UpToPlace(S, k) = UpToPlace(S, k - 1) \cup {k}
      BY <2>1, UpToPlaceIs
    <3>2. /\ \A j \in UpToPlace(S, k - 1) : j < k
          /\ UpToPlace(S, k - 1) \in SUBSET Nat
      BY UpToPlaceIs
    <3>3. Lists(q, UpToPlace(S, k - 1)) /\ Len(q) <= k - 1 /\ q \in Seq(S)
      OBVIOUS
    <3>4. Lists(Append(q, k), UpToPlace(S, k)) /\ Len(Append(q, k)) = Len(q) + 1
      BY <3>1, <3>2, <3>3, AppendLists
    <3>5. Append(q, k) \in Seq(S) /\ Len(q) \in Nat
      BY <2>1, <3>3
    <3>. QED
      BY <2>1, <3>3, <3>4, <3>5
  <2>2. CASE k \notin S
    <3>1. UpToPlace(S, k) = UpToPlace(S, k - 1)
      BY <2>2, UpToPlaceIs
    <3>. QED
      BY <2>2, <3>1
  <2>. QED
    BY <2>1, <2>2
<1>3. \A k \in 1..n : \A q \in X[k - 1] : h[k][q] = next(q, k)
  OBVIOUS
<1>. HIDE DEF X, h, next
<1>4. PICK f : f = [k \in 0..n |-> IF k = 0 THEN <<>> ELSE next(f[k - 1], k)]
  <2>1. PICK f : Counts(n, <<>>, h, f) /\ Within(n, X, f)
    BY <1>1, <1>2, <1>3, CountExists
  <2>2. \A k \in 0..n : k # 0 => k \in 1..n /\ k - 1 \in 0..n
    OBVIOUS
  <2>3. \A k \in 0..n : k # 0 => h[k][f[k - 1]] = next(f[k - 1], k)
    BY <1>3, <2>1, <2>2 DEF Within
  <2>4. [k \in 0..n |-> IF k = 0 THEN <<>> ELSE h[k][f[k - 1]]]
          = [k \in 0..n |-> IF k = 0 THEN <<>> ELSE next(f[k - 1], k)]
    BY <2>3
  <2>. QED
    BY <2>1, <2>4 DEF Counts
<1>5. A = [k \in 0..n |-> IF k = 0 THEN <<>> ELSE next(A[k - 1], k)]
  BY <1>4
<1>. HIDE DEF A
<1>6. A[0] = <<>> /\ \A k \in 1..n : A[k] = next(A[k - 1], k)
  <2>1. 0 \in 0..n /\ \A k \in 1..n : k \in 0..n /\ k # 0
    OBVIOUS
  <2>. QED
    BY <1>5, <2>1
<1>7. \A k \in 0..n : A[k] \in X[k]
  <2> DEFINE T == {k \in 0..n : A[k] \in X[k]}
  <2>1. 0 \in 0..n
    OBVIOUS
  <2>2. 0 \in T
    BY <1>1, <1>6, <2>1
  <2>3. \A k \in 1..n : k - 1 \in T => k \in T
    BY <1>2, <1>6
  <2>4. \A k \in 0..n : k \in T
    <3> HIDE DEF T
    <3>. QED
      BY <2>2, <2>3, UpTo
  <2>. QED
    BY <2>4
<1>8. Ascending(n, S) = A[n]
  BY DEF Ascending, A, next
<1>9. UpToPlace(S, n) = S
  BY UpToPlaceIs
<1>. QED
  <2>1. n \in 0..n
    OBVIOUS
  <2>. QED
    BY <1>7, <1>8, <1>9, <2>1 DEF X

-----------------------------------------------------------------------------
(* Groups of steps.                                                        *)

FilesApart(s, i, j) ==
  s[i].files # {} /\ s[j].files # {} /\ ~Overlaps(s[i].files, s[j].files)

(* g divides the steps of L into groups that write apart.                  *)
Arranges(s, g, L) ==
  /\ g \in Seq(SUBSET L)
  /\ \A k \in 1..Len(g) : g[k] # {}
  /\ \A i \in L : \E k \in 1..Len(g) : i \in g[k]
  /\ \A k, m \in 1..Len(g) : \A i \in L : i \in g[k] /\ i \in g[m] => k = m
  /\ \A k \in 1..Len(g) : \A i, j \in g[k] : i # j => FilesApart(s, i, j)

LEMMA ApartBothWays ==
  ASSUME NEW s, NEW i, NEW j, FilesApart(s, i, j)
  PROVE  FilesApart(s, j, i)
BY DEF FilesApart, Overlaps

LEMMA EmptyArranges ==
  ASSUME NEW s
  PROVE  Arranges(s, <<>>, {})
BY DEF Arranges

(* A step that joins a group writes apart from each of its members.        *)
LEMMA JoinsApart ==
  ASSUME NEW s, NEW group, NEW i, Joins(s, group, i),
         \A j, m \in group : j # m => FilesApart(s, j, m)
  PROVE  \A j \in group : FilesApart(s, j, i) /\ FilesApart(s, i, j)
<1>1. PICK m \in group : s[m].files # {}
  BY DEF Joins, Writes
<1>2. ASSUME NEW j \in group PROVE FilesApart(s, i, j)
  <2>1. s[j].files # {}
    BY <1>1 DEF FilesApart
  <2>2. ~Overlaps(s[i].files, s[j].files)
    BY DEF Joins, Writes, Overlaps
  <2>. QED
    BY <2>1, <2>2 DEF Joins, FilesApart
<1>. QED
  BY <1>2, ApartBothWays

LEMMA AppendArranges ==
  ASSUME NEW s, NEW L, NEW i, i \notin L, NEW g, Arranges(s, g, L)
  PROVE  Arranges(s, Append(g, {i}), L \cup {i})
<1> DEFINE r == Append(g, {i})
           M == L \cup {i}
<1>1. /\ g \in Seq(SUBSET M) /\ Len(g) \in Nat /\ {i} \in SUBSET M
      /\ \A k \in 1..Len(g) : g[k] \subseteq L
  BY DEF Arranges
<1>2. /\ r \in Seq(SUBSET M) /\ Len(r) = Len(g) + 1
      /\ \A k \in 1..Len(g) : r[k] = g[k]
      /\ r[Len(g) + 1] = {i}
  BY <1>1
<1>3. \A k \in 1..Len(r) : k \in 1..Len(g) \/ k = Len(g) + 1
  BY <1>1, <1>2
<1>. HIDE DEF r
<1>4. \A k \in 1..Len(r) : r[k] # {}
  BY <1>2, <1>3 DEF Arranges
<1>5. ASSUME NEW j \in M PROVE \E k \in 1..Len(r) : j \in r[k]
  <2>1. CASE j = i
    BY <1>1, <1>2, <2>1
  <2>2. CASE j # i
    <3>1. PICK k \in 1..Len(g) : j \in g[k]
      BY <2>2 DEF Arranges
    <3>. QED
      BY <1>1, <1>2, <3>1
  <2>. QED
    BY <2>1, <2>2
<1>6. ASSUME NEW k \in 1..Len(r), NEW m \in 1..Len(r), NEW j \in M, j \in r[k], j \in r[m]
      PROVE  k = m
  <2>1. CASE j = i
    BY <1>1, <1>2, <1>3, <1>6, <2>1
  <2>2. CASE j # i
    BY <1>2, <1>3, <1>6, <2>2 DEF Arranges
  <2>. QED
    BY <2>1, <2>2
<1>7. ASSUME NEW k \in 1..Len(r), NEW j \in r[k], NEW m \in r[k], j # m
      PROVE  FilesApart(s, j, m)
  BY <1>2, <1>3, <1>7 DEF Arranges
<1>. QED
  BY <1>2, <1>4, <1>5, <1>6, <1>7 DEF Arranges, r

LEMMA JoinArranges ==
  ASSUME NEW s, NEW L, NEW i, i \notin L, NEW g, Arranges(s, g, L),
         NEW n \in 1..Len(g), Joins(s, g[n], i),
         NEW r, r = [g EXCEPT ![n] = @ \cup {i}]
  PROVE  Arranges(s, r, L \cup {i})
<1> DEFINE M == L \cup {i}
<1>1. /\ g \in Seq(SUBSET M) /\ Len(g) \in Nat
      /\ \A k \in 1..Len(g) : g[k] \subseteq L
  BY DEF Arranges
<1>2. /\ r \in Seq(SUBSET M) /\ Len(r) = Len(g)
      /\ \A k \in 1..Len(g) : r[k] = IF k = n THEN g[n] \cup {i} ELSE g[k]
  BY <1>1
<1>3. \A k \in 1..Len(r) : r[k] # {}
  BY <1>2 DEF Arranges
<1>4. ASSUME NEW j \in M PROVE \E k \in 1..Len(r) : j \in r[k]
  <2>1. CASE j = i
    BY <1>1, <1>2, <2>1
  <2>2. CASE j # i
    <3>1. PICK k \in 1..Len(g) : j \in g[k]
      BY <2>2 DEF Arranges
    <3>. QED
      BY <1>1, <1>2, <3>1
  <2>. QED
    BY <2>1, <2>2
<1>5. ASSUME NEW k \in 1..Len(r), NEW m \in 1..Len(r), NEW j \in M, j \in r[k], j \in r[m]
      PROVE  k = m
  <2>1. CASE j = i
    BY <1>1, <1>2, <1>5, <2>1
  <2>2. CASE j # i
    BY <1>2, <1>5, <2>2 DEF Arranges
  <2>. QED
    BY <2>1, <2>2
<1>6. ASSUME NEW k \in 1..Len(r), NEW j \in r[k], NEW m \in r[k], j # m
      PROVE  FilesApart(s, j, m)
  <2>1. \A a, b \in g[n] : a # b => FilesApart(s, a, b)
    BY DEF Arranges
  <2>2. \A a \in g[n] : FilesApart(s, a, i) /\ FilesApart(s, i, a)
    BY <2>1, JoinsApart
  <2>3. CASE k = n
    BY <1>2, <1>6, <2>1, <2>2, <2>3
  <2>4. CASE k # n
    BY <1>2, <1>6, <2>4 DEF Arranges
  <2>. QED
    BY <2>3, <2>4
<1>. QED
  BY <1>2, <1>3, <1>4, <1>5, <1>6 DEF Arranges

LEMMA PlacedArranges ==
  ASSUME NEW s, NEW L, NEW i, i \notin L, NEW g, Arranges(s, g, L)
  PROVE  Arranges(s, Placed(s, g, i), L \cup {i})
<1> DEFINE fits == {k \in 1..Len(g) : Joins(s, g[k], i)}
<1>1. CASE fits = {}
  BY <1>1, AppendArranges DEF Placed
<1>2. CASE fits # {}
  <2> DEFINE n == CHOOSE k \in fits : \A m \in fits : k <= m
  <2>1. fits \in SUBSET Nat
    OBVIOUS
  <2>2. \E k \in fits : \A m \in fits : k <= m
    <3> HIDE DEF fits
    <3>. QED
      BY <1>2, <2>1, LeastNatural
  <2>3. n \in fits
    <3> HIDE DEF fits
    <3>. QED
      BY <2>2
  <2>4. Placed(s, g, i) = [g EXCEPT ![n] = @ \cup {i}]
    BY <1>2 DEF Placed
  <2>5. n \in 1..Len(g) /\ Joins(s, g[n], i)
    <3> HIDE DEF n
    <3>. QED
      BY <2>3
  <2>. QED
    <3> HIDE DEF n
    <3>. QED
      BY <2>4, <2>5, JoinArranges
<1>. QED
  BY <1>1, <1>2

LEMMA GroupsArrange ==
  ASSUME NEW s, Len(s) \in Nat, NEW layer \in SUBSET (1..Len(s))
  PROVE  Arranges(s, ClashFreeGroups(s, layer), layer)
<1> DEFINE n == Len(s)
           next(q, k) == IF k \in layer THEN Placed(s, q, k) ELSE q
           X == [k \in 0..n |-> {q \in Seq(SUBSET UpToPlace(layer, k)) :
                                   Arranges(s, q, UpToPlace(layer, k))}]
           h == [k \in 1..n |-> [q \in X[k - 1] |-> next(q, k)]]
           G == CHOOSE f : f = [k \in 0..n |-> IF k = 0 THEN <<>> ELSE next(f[k - 1], k)]
<1>1. <<>> \in X[0]
  <2>1. UpToPlace(layer, 0) = {}
    BY UpToPlaceIs
  <2>2. Arranges(s, <<>>, {})
    BY EmptyArranges
  <2>3. Arranges(s, <<>>, UpToPlace(layer, 0))
    BY <2>1, <2>2
  <2>4. 0 \in 0..n
    OBVIOUS
  <2>. QED
    BY <2>3, <2>4
<1>2. \A k \in 1..n : \A q \in X[k - 1] : next(q, k) \in X[k]
  <2> TAKE k \in 1..n
  <2> TAKE q \in X[k - 1]
  <2>1. Arranges(s, q, UpToPlace(layer, k - 1))
    OBVIOUS
  <2>2. UpToPlace(layer, k) = UpToPlace(layer, k - 1) \cup (layer \cap {k})
    BY UpToPlaceIs
  <2>3. Arranges(s, next(q, k), UpToPlace(layer, k))
    <3>1. CASE k \in layer
      <4>1. k \notin UpToPlace(layer, k - 1)
        BY DEF UpToPlace
      <4>2. UpToPlace(layer, k) = UpToPlace(layer, k - 1) \cup {k}
        BY <3>1, <2>2
      <4> HIDE DEF X
      <4>. QED
        BY <2>1, <3>1, <4>1, <4>2, PlacedArranges
    <3>2. CASE k \notin layer
      BY <2>1, <2>2, <3>2
    <3>. QED
      BY <3>1, <3>2
  <2>4. next(q, k) \in Seq(SUBSET UpToPlace(layer, k))
    BY <2>3 DEF Arranges
  <2>. QED
    <3> HIDE DEF next
    <3>. QED
      BY <2>3, <2>4
<1>3. \A k \in 1..n : \A q \in X[k - 1] : h[k][q] = next(q, k)
  OBVIOUS
<1>. HIDE DEF X, h, next
<1>4. PICK f : f = [k \in 0..n |-> IF k = 0 THEN <<>> ELSE next(f[k - 1], k)]
  <2>1. PICK f : Counts(n, <<>>, h, f) /\ Within(n, X, f)
    BY <1>1, <1>2, <1>3, CountExists
  <2>2. \A k \in 0..n : k # 0 => k \in 1..n /\ k - 1 \in 0..n
    OBVIOUS
  <2>3. \A k \in 0..n : k # 0 => h[k][f[k - 1]] = next(f[k - 1], k)
    BY <1>3, <2>1, <2>2 DEF Within
  <2>4. [k \in 0..n |-> IF k = 0 THEN <<>> ELSE h[k][f[k - 1]]]
          = [k \in 0..n |-> IF k = 0 THEN <<>> ELSE next(f[k - 1], k)]
    BY <2>3
  <2>. QED
    BY <2>1, <2>4 DEF Counts
<1>5. G = [k \in 0..n |-> IF k = 0 THEN <<>> ELSE next(G[k - 1], k)]
  BY <1>4
<1>. HIDE DEF G
<1>6. G[0] = <<>> /\ \A k \in 1..n : G[k] = next(G[k - 1], k)
  <2>1. 0 \in 0..n /\ \A k \in 1..n : k \in 0..n /\ k # 0
    OBVIOUS
  <2>. QED
    BY <1>5, <2>1
<1>7. \A k \in 0..n : G[k] \in X[k]
  <2> DEFINE T == {k \in 0..n : G[k] \in X[k]}
  <2>1. 0 \in 0..n
    OBVIOUS
  <2>2. 0 \in T
    BY <1>1, <1>6, <2>1
  <2>3. \A k \in 1..n : k - 1 \in T => k \in T
    BY <1>2, <1>6
  <2>4. \A k \in 0..n : k \in T
    <3> HIDE DEF T
    <3>. QED
      BY <2>2, <2>3, UpTo
  <2>. QED
    BY <2>4
<1>8. ClashFreeGroups(s, layer) = G[n]
  BY DEF ClashFreeGroups, G, next
<1>9. UpToPlace(layer, n) = layer
  BY UpToPlaceIs
<1>. QED
  <2>1. n \in 0..n
    OBVIOUS
  <2>. QED
    BY <1>7, <1>8, <1>9, <2>1 DEF X

LEMMA ConcatArranges ==
  ASSUME NEW s, NEW L, NEW M, L \cap M = {},
         NEW g, Arranges(s, g, L), NEW h, Arranges(s, h, M)
  PROVE  Arranges(s, g \o h, L \cup M)
<1> DEFINE r == g \o h
           N == L \cup M
<1>1. /\ g \in Seq(SUBSET N) /\ h \in Seq(SUBSET N)
      /\ Len(g) \in Nat /\ Len(h) \in Nat
      /\ \A k \in 1..Len(g) : g[k] \subseteq L
      /\ \A k \in 1..Len(h) : h[k] \subseteq M
  BY DEF Arranges
<1>2. /\ r \in Seq(SUBSET N) /\ Len(r) = Len(g) + Len(h)
      /\ \A k \in 1..Len(r) : r[k] = IF k <= Len(g) THEN g[k] ELSE h[k - Len(g)]
  BY <1>1
<1>3. \A k \in 1..Len(r) : k \in 1..Len(g) \/ (k - Len(g) \in 1..Len(h) /\ ~ (k <= Len(g)))
  BY <1>1, <1>2
<1>4. /\ \A k \in 1..Len(g) : k \in 1..Len(r) /\ r[k] = g[k]
      /\ \A k \in 1..Len(h) : Len(g) + k \in 1..Len(r) /\ r[Len(g) + k] = h[k]
  <2>1. \A k \in 1..Len(h) : Len(g) + k \in 1..Len(r) /\ ~ (Len(g) + k <= Len(g))
                             /\ Len(g) + k - Len(g) = k
    BY <1>1, <1>2
  <2>. QED
    BY <1>1, <1>2, <2>1
<1>. HIDE DEF r
<1>5. \A k \in 1..Len(r) : r[k] # {}
  BY <1>2, <1>3 DEF Arranges
<1>6. ASSUME NEW j \in N PROVE \E k \in 1..Len(r) : j \in r[k]
  <2>1. CASE j \in L
    BY <1>4, <2>1 DEF Arranges
  <2>2. CASE j \in M
    BY <1>4, <2>2 DEF Arranges
  <2>. QED
    BY <2>1, <2>2
<1>7. ASSUME NEW k \in 1..Len(r), NEW m \in 1..Len(r), NEW j \in N, j \in r[k], j \in r[m]
      PROVE  k = m
  <2>1. CASE j \in L
    <3>1. k \in 1..Len(g) /\ m \in 1..Len(g)
      BY <1>1, <1>2, <1>3, <1>7, <2>1
    <3>. QED
      BY <1>4, <1>7, <2>1, <3>1 DEF Arranges
  <2>2. CASE j \in M
    <3>1. ~ (k \in 1..Len(g)) /\ ~ (m \in 1..Len(g))
      BY <1>1, <1>4, <1>7, <2>2
    <3>2. /\ k - Len(g) \in 1..Len(h) /\ m - Len(g) \in 1..Len(h)
          /\ r[k] = h[k - Len(g)] /\ r[m] = h[m - Len(g)]
      BY <1>2, <1>3, <3>1
    <3>3. k - Len(g) = m - Len(g)
      BY <1>7, <2>2, <3>2 DEF Arranges
    <3>. QED
      BY <1>1, <1>2, <3>3
  <2>. QED
    BY <2>1, <2>2
<1>8. ASSUME NEW k \in 1..Len(r), NEW j \in r[k], NEW m \in r[k], j # m
      PROVE  FilesApart(s, j, m)
  <2>1. CASE k \in 1..Len(g)
    BY <1>4, <1>8, <2>1 DEF Arranges
  <2>2. CASE ~ (k \in 1..Len(g))
    <3>1. k - Len(g) \in 1..Len(h) /\ r[k] = h[k - Len(g)]
      BY <1>2, <1>3, <2>2
    <3>. QED
      BY <1>8, <3>1 DEF Arranges
  <2>. QED
    BY <2>1, <2>2
<1>. QED
  BY <1>2, <1>5, <1>6, <1>7, <1>8 DEF Arranges, r

(* Every step that one of a group depends on is in D or an earlier group.  *)
Follows(s, g, D) ==
  \A k \in 1..Len(g) : \A i \in g[k] : \A d \in Valid(s, i) :
    d \in D \/ \E m \in 1..(k - 1) : d \in g[m]

LEMMA ConcatFollows ==
  ASSUME NEW s, NEW L, NEW M,
         NEW g, Arranges(s, g, L), NEW h, Arranges(s, h, M),
         Follows(s, g, {}), \A i \in M : Valid(s, i) \subseteq L
  PROVE  Follows(s, g \o h, {})
<1> DEFINE r == g \o h
           N == L \cup M
<1>1. /\ g \in Seq(SUBSET N) /\ h \in Seq(SUBSET N)
      /\ Len(g) \in Nat /\ Len(h) \in Nat
      /\ \A k \in 1..Len(h) : h[k] \subseteq M
  BY DEF Arranges
<1>2. /\ Len(r) = Len(g) + Len(h)
      /\ \A k \in 1..Len(r) : r[k] = IF k <= Len(g) THEN g[k] ELSE h[k - Len(g)]
  BY <1>1
<1>. HIDE DEF r
<1>3. ASSUME NEW k \in 1..Len(r), NEW i \in r[k], NEW d \in Valid(s, i)
      PROVE  \E m \in 1..(k - 1) : d \in r[m]
  <2>1. CASE k <= Len(g)
    <3>1. k \in 1..Len(g) /\ i \in g[k]
      BY <1>1, <1>2, <2>1
    <3>2. PICK m \in 1..(k - 1) : d \in g[m]
      BY <3>1 DEF Follows
    <3>3. m \in 1..Len(r) /\ m <= Len(g)
      BY <1>1, <1>2, <3>1
    <3>. QED
      BY <1>2, <3>2, <3>3
  <2>2. CASE ~ (k <= Len(g))
    <3>1. k - Len(g) \in 1..Len(h) /\ i \in h[k - Len(g)]
      BY <1>1, <1>2, <2>2
    <3>2. d \in L
      BY <1>1, <3>1
    <3>3. PICK m \in 1..Len(g) : d \in g[m]
      BY <3>2 DEF Arranges
    <3>4. m \in 1..Len(r) /\ m <= Len(g) /\ m \in 1..(k - 1)
      BY <1>1, <1>2, <2>2
    <3>. QED
      BY <1>2, <3>3, <3>4
  <2>. QED
    BY <2>1, <2>2
<1>. QED
  BY <1>3 DEF Follows, r

-----------------------------------------------------------------------------
(* Layers of a plan.                                                       *)

LEMMA ResolvedIs ==
  ASSUME NEW s, Len(s) \in Nat
  PROVE  /\ Resolved(s)[0] = {}
         /\ \A k \in 1..Len(s) :
              Resolved(s)[k] = {i \in 1..Len(s) : Valid(s, i) \subseteq Resolved(s)[k - 1]}
         /\ \A k \in 0..Len(s) : Resolved(s)[k] \in SUBSET (1..Len(s))
<1> DEFINE n == Len(s)
           next(q, k) == {i \in 1..n : Valid(s, i) \subseteq q}
           X == [k \in 0..n |-> SUBSET (1..n)]
           h == [k \in 1..n |-> [q \in X[k - 1] |-> next(q, k)]]
           R == CHOOSE f : f = [k \in 0..n |-> IF k = 0 THEN {} ELSE next(f[k - 1], k)]
<1>1. {} \in X[0]
  OBVIOUS
<1>2. \A k \in 1..n : \A q \in X[k - 1] : next(q, k) \in X[k]
  OBVIOUS
<1>3. \A k \in 1..n : \A q \in X[k - 1] : h[k][q] = next(q, k)
  OBVIOUS
<1>. HIDE DEF X, h, next
<1>4. PICK f : f = [k \in 0..n |-> IF k = 0 THEN {} ELSE next(f[k - 1], k)]
  <2>1. PICK f : Counts(n, {}, h, f) /\ Within(n, X, f)
    BY <1>1, <1>2, <1>3, CountExists
  <2>2. \A k \in 0..n : k # 0 => k \in 1..n /\ k - 1 \in 0..n
    OBVIOUS
  <2>3. \A k \in 0..n : k # 0 => h[k][f[k - 1]] = next(f[k - 1], k)
    BY <1>3, <2>1, <2>2 DEF Within
  <2>4. [k \in 0..n |-> IF k = 0 THEN {} ELSE h[k][f[k - 1]]]
          = [k \in 0..n |-> IF k = 0 THEN {} ELSE next(f[k - 1], k)]
    BY <2>3
  <2>. QED
    BY <2>1, <2>4 DEF Counts
<1>5. R = [k \in 0..n |-> IF k = 0 THEN {} ELSE next(R[k - 1], k)]
  BY <1>4
<1>. HIDE DEF R
<1>6. R[0] = {} /\ \A k \in 1..n : R[k] = next(R[k - 1], k)
  <2>1. 0 \in 0..n /\ \A k \in 1..n : k \in 0..n /\ k # 0
    OBVIOUS
  <2>. QED
    BY <1>5, <2>1
<1>7. \A k \in 0..n : R[k] \in X[k]
  <2> DEFINE T == {k \in 0..n : R[k] \in X[k]}
  <2>1. 0 \in 0..n
    OBVIOUS
  <2>2. 0 \in T
    BY <1>1, <1>6, <2>1
  <2>3. \A k \in 1..n : k - 1 \in T => k \in T
    BY <1>2, <1>6
  <2>4. \A k \in 0..n : k \in T
    <3> HIDE DEF T
    <3>. QED
      BY <2>2, <2>3, UpTo
  <2>. QED
    BY <2>4
<1>8. Resolved(s) = R
  BY DEF Resolved, R, next
<1>. QED
  BY <1>6, <1>7, <1>8 DEF X, next

LEMMA ResolvedGrows ==
  ASSUME NEW s, Len(s) \in Nat
  PROVE  \A k \in 0..Len(s) : \A m \in 0..k : Resolved(s)[m] \subseteq Resolved(s)[k]
<1> DEFINE n == Len(s)
           R == Resolved(s)
           Step1(k) == k # 0 => R[k - 1] \subseteq R[k]
           S == {k \in 0..n : Step1(k)}
           T == {k \in 0..n : \A m \in 0..k : R[m] \subseteq R[k]}
<1>1. /\ R[0] = {}
      /\ \A k \in 1..n : R[k] = {i \in 1..n : Valid(s, i) \subseteq R[k - 1]}
      /\ \A k \in 0..n : R[k] \in SUBSET (1..n)
  BY ResolvedIs
<1>2. 0 \in 0..n /\ n \in Nat
  OBVIOUS
<1>. HIDE DEF R, n
<1>3. \A k \in 0..n : Step1(k)
  <2>1. 0 \in S
    BY <1>2
  <2>2. ASSUME NEW k \in 1..n, k - 1 \in S PROVE k \in S
    <3>1. CASE k = 1
      BY <1>1, <1>2, <3>1
    <3>2. CASE k # 1
      <4>1. k - 1 \in 1..n /\ k - 1 # 0 /\ k \in 0..n
        BY <1>2, <3>2
      <4>2. R[k - 1 - 1] \subseteq R[k - 1]
        BY <2>2, <4>1
      <4>3. R[k - 1] \subseteq R[k]
        BY <1>1, <4>1, <4>2
      <4>. QED
        BY <4>1, <4>3
    <3>. QED
      BY <3>1, <3>2
  <2>3. \A k \in 0..n : k \in S
    <3> HIDE DEF S
    <3>. QED
      BY <1>2, <2>1, <2>2, UpTo
  <2>. QED
    BY <2>3
<1>4. \A k \in 0..n : k \in T
  <2>1. 0 \in T
    BY <1>2
  <2>2. ASSUME NEW k \in 1..n, k - 1 \in T PROVE k \in T
    <3>1. k \in 0..n /\ k # 0 /\ R[k - 1] \subseteq R[k]
      BY <1>3
    <3>2. ASSUME NEW m \in 0..k PROVE R[m] \subseteq R[k]
      <4>1. m \in 0..(k - 1) \/ m = k
        OBVIOUS
      <4>. QED
        BY <2>2, <3>1, <4>1
    <3>. QED
      BY <3>1, <3>2
  <2>3. \A k \in 0..n : k \in T
    <3> HIDE DEF T
    <3>. QED
      BY <1>2, <2>1, <2>2, UpTo
  <2>. QED
    BY <2>3
<1>. QED
  BY <1>4 DEF R, n

(* _topological_subtask_waves() of a plan in order.                        *)
LEMMA WavesArrange ==
  ASSUME NEW s, Len(s) \in Nat, Ordered(s)
  PROVE  Arranges(s, Waves(s), 1..Len(s)) /\ Follows(s, Waves(s), {})
<1> DEFINE n == Len(s)
           R == Resolved(s)
           next(q, k) == q \o ClashFreeGroups(s, Layers(s)[k])
           X == [k \in 0..n |-> {q \in Seq(SUBSET (1..n)) :
                                   Arranges(s, q, R[k]) /\ Follows(s, q, {})}]
           h == [k \in 1..n |-> [q \in X[k - 1] |-> next(q, k)]]
           W == CHOOSE f : f = [k \in 0..n |-> IF k = 0 THEN <<>> ELSE next(f[k - 1], k)]
<1>1. /\ R[0] = {}
      /\ \A k \in 1..n : R[k] = {i \in 1..n : Valid(s, i) \subseteq R[k - 1]}
      /\ \A k \in 0..n : R[k] \in SUBSET (1..n)
  BY ResolvedIs
<1>2. <<>> \in X[0]
  <2>1. Arranges(s, <<>>, {}) /\ 0 \in 0..n
    BY EmptyArranges
  <2>2. Arranges(s, <<>>, R[0])
    BY <1>1, <2>1
  <2>3. Follows(s, <<>>, {})
    BY DEF Follows
  <2>. QED
    BY <2>1, <2>2, <2>3
<1>3. \A k \in 1..n : \A q \in X[k - 1] : next(q, k) \in X[k]
  <2> TAKE k \in 1..n
  <2> TAKE q \in X[k - 1]
  <2> DEFINE new == R[k] \ R[k - 1]
             g == ClashFreeGroups(s, new)
  <2>1. Arranges(s, q, R[k - 1]) /\ Follows(s, q, {})
    OBVIOUS
  <2>2. k \in 0..n /\ k - 1 \in 0..k /\ k - 1 \in 0..n
    OBVIOUS
  <2>3. R[k - 1] \subseteq R[k] /\ R[k] \in SUBSET (1..n)
    <3> HIDE DEF X
    <3>1. R[k - 1] \subseteq R[k]
      BY <2>2, ResolvedGrows
    <3>. QED
      BY <1>1, <2>2, <3>1
  <2>4. Layers(s)[k] = new
    BY DEF Layers
  <2>. HIDE DEF X, R
  <2>5. Arranges(s, g, new)
    BY <2>3, GroupsArrange
  <2>6. Arranges(s, q \o g, R[k - 1] \cup new)
    <3>1. R[k - 1] \cap new = {}
      OBVIOUS
    <3> HIDE DEF new, g
    <3>. QED
      BY <2>1, <2>5, <3>1, ConcatArranges
  <2>7. R[k - 1] \cup new = R[k]
    BY <2>3
  <2>8. Follows(s, q \o g, {})
    <3>1. \A i \in new : Valid(s, i) \subseteq R[k - 1]
      BY <1>1
    <3> HIDE DEF new, g
    <3>. QED
      BY <2>1, <2>5, <3>1, ConcatFollows
  <2>9. Arranges(s, next(q, k), R[k]) /\ Follows(s, next(q, k), {})
    BY <2>4, <2>6, <2>7, <2>8
  <2>10. next(q, k) \in Seq(SUBSET (1..n))
    <3> HIDE DEF next
    <3>1. next(q, k) \in Seq(SUBSET R[k])
      BY <2>9 DEF Arranges
    <3>. QED
      BY <2>3, <3>1
  <2> HIDE DEF next
  <2>. QED
    BY <2>2, <2>9, <2>10 DEF X
<1>4. \A k \in 1..n : \A q \in X[k - 1] : h[k][q] = next(q, k)
  OBVIOUS
<1>. HIDE DEF X, h, next
<1>5. PICK f : f = [k \in 0..n |-> IF k = 0 THEN <<>> ELSE next(f[k - 1], k)]
  <2>1. PICK f : Counts(n, <<>>, h, f) /\ Within(n, X, f)
    BY <1>2, <1>3, <1>4, CountExists
  <2>2. \A k \in 0..n : k # 0 => k \in 1..n /\ k - 1 \in 0..n
    OBVIOUS
  <2>3. \A k \in 0..n : k # 0 => h[k][f[k - 1]] = next(f[k - 1], k)
    BY <1>4, <2>1, <2>2 DEF Within
  <2>4. [k \in 0..n |-> IF k = 0 THEN <<>> ELSE h[k][f[k - 1]]]
          = [k \in 0..n |-> IF k = 0 THEN <<>> ELSE next(f[k - 1], k)]
    BY <2>3
  <2>. QED
    BY <2>1, <2>4 DEF Counts
<1>6. W = [k \in 0..n |-> IF k = 0 THEN <<>> ELSE next(W[k - 1], k)]
  BY <1>5
<1>. HIDE DEF W
<1>7. W[0] = <<>> /\ \A k \in 1..n : W[k] = next(W[k - 1], k)
  <2>1. 0 \in 0..n /\ \A k \in 1..n : k \in 0..n /\ k # 0
    OBVIOUS
  <2>. QED
    BY <1>6, <2>1
<1>8. \A k \in 0..n : W[k] \in X[k]
  <2> DEFINE T == {k \in 0..n : W[k] \in X[k]}
  <2>1. 0 \in 0..n
    OBVIOUS
  <2>2. 0 \in T
    BY <1>2, <1>7, <2>1
  <2>3. \A k \in 1..n : k - 1 \in T => k \in T
    BY <1>3, <1>7
  <2>4. \A k \in 0..n : k \in T
    <3> HIDE DEF T
    <3>. QED
      BY <2>2, <2>3, UpTo
  <2>. QED
    BY <2>4
<1>9. Waves(s) = W[n]
  BY DEF Waves, W, next
<1>10. n \in 0..n /\ R[n] = 1..n
  BY DEF Ordered
<1>. QED
  BY <1>8, <1>9, <1>10 DEF X

-----------------------------------------------------------------------------
(* One step after the other.                                               *)

Once(q) == \A a, b \in 1..Len(q) : q[a] = q[b] => a = b

Members(q) == {q[m] : m \in 1..Len(q)}

(* q has each step behind those it depends on.                             *)
Chained(s, q) ==
  \A m \in 1..Len(q) : \A d \in Valid(s, q[m]) : \E l \in 1..(m - 1) : q[l] = d

LEMMA SinglesArrange ==
  ASSUME NEW s, NEW n \in Nat, NEW q \in Seq(1..n), Once(q), Members(q) = 1..n
  PROVE  /\ Arranges(s, Singles(q), 1..n)
         /\ Chained(s, q) => Follows(s, Singles(q), {})
<1> DEFINE r == Singles(q)
<1>1. /\ Len(q) \in Nat
      /\ \A k \in 1..Len(q) : q[k] \in 1..n
      /\ r \in Seq(SUBSET (1..n)) /\ Len(r) = Len(q)
      /\ \A k \in 1..Len(q) : r[k] = {q[k]}
  BY DEF Singles
<1>. HIDE DEF r
<1>2. Arranges(s, r, 1..n)
  <2>1. \A k \in 1..Len(r) : r[k] # {}
    BY <1>1
  <2>2. \A i \in 1..n : \E k \in 1..Len(r) : i \in r[k]
    BY <1>1 DEF Members
  <2>3. \A k, m \in 1..Len(r) : \A i \in 1..n : i \in r[k] /\ i \in r[m] => k = m
    BY <1>1 DEF Once
  <2>4. \A k \in 1..Len(r) : \A i, j \in r[k] : i # j => FilesApart(s, i, j)
    BY <1>1
  <2>. QED
    BY <1>1, <2>1, <2>2, <2>3, <2>4 DEF Arranges
<1>3. ASSUME Chained(s, q) PROVE Follows(s, r, {})
  <2> SUFFICES ASSUME NEW k \in 1..Len(r), NEW i \in r[k], NEW d \in Valid(s, i)
               PROVE  \E m \in 1..(k - 1) : d \in r[m]
    BY DEF Follows
  <2>1. i = q[k] /\ k \in 1..Len(q)
    BY <1>1
  <2>2. PICK l \in 1..(k - 1) : q[l] = d
    BY <1>3, <2>1 DEF Chained
  <2>3. l \in 1..Len(q)
    BY <1>1, <2>1
  <2>. QED
    BY <1>1, <2>2, <2>3
<1>. QED
  BY <1>2, <1>3 DEF r

LEMMA InListOrderIs ==
  ASSUME NEW s, Len(s) \in Nat
  PROVE  /\ InListOrder(s) \in Seq(1..Len(s))
         /\ Once(InListOrder(s))
         /\ Members(InListOrder(s)) = 1..Len(s)
<1> DEFINE q == InListOrder(s)
<1>1. /\ q \in Seq(1..Len(s)) /\ Len(q) = Len(s)
      /\ \A k \in 1..Len(s) : q[k] = k
  BY DEF InListOrder
<1>. HIDE DEF q
<1>2. Once(q)
  BY <1>1 DEF Once
<1>3. Members(q) = 1..Len(s)
  BY <1>1 DEF Members
<1>. QED
  BY <1>1, <1>2, <1>3 DEF q

(* As long as a step is missing, one is ready.                             *)
LEMMA OneIsReady ==
  ASSUME NEW s, Len(s) \in Nat, Ordered(s),
         NEW done \in SUBSET (1..Len(s)), done # 1..Len(s)
  PROVE  \E i \in 1..Len(s) \ done :
           /\ Valid(s, i) \subseteq done
           /\ \A j \in 1..Len(s) \ done : Valid(s, j) \subseteq done => i <= j
<1> DEFINE n == Len(s)
           R == Resolved(s)
           T == {k \in 0..n : ~ (R[k] \subseteq done)}
           ready == {i \in 1..n \ done : Valid(s, i) \subseteq done}
<1>1. /\ R[0] = {}
      /\ \A k \in 1..n : R[k] = {i \in 1..n : Valid(s, i) \subseteq R[k - 1]}
  BY ResolvedIs
<1>2. n \in 0..n /\ R[n] = 1..n
  BY DEF Ordered
<1>3. n \in T
  BY <1>2
<1>4. PICK k \in T : \A m \in T : k <= m
  <2>1. T \in SUBSET Nat
    OBVIOUS
  <2> HIDE DEF T
  <2>. QED
    BY <1>3, <2>1, LeastNatural
<1>5. k # 0
  BY <1>1
<1>6. k \in 1..n /\ k - 1 \in 0..n
  BY <1>5
<1>7. R[k - 1] \subseteq done
  BY <1>4, <1>6
<1>8. PICK i \in R[k] : i \notin done
  OBVIOUS
<1>9. i \in ready
  BY <1>1, <1>6, <1>7, <1>8
<1>10. ready \in SUBSET Nat
  OBVIOUS
<1>11. PICK x \in ready : \A y \in ready : x <= y
  <2> HIDE DEF ready
  <2>. QED
    BY <1>9, <1>10, LeastNatural
<1>. QED
  BY <1>11

(* A list of k steps of s, each once and behind those it depends on.       *)
Begins(s, q, k) ==
  /\ q \in Seq(1..Len(s)) /\ Len(q) = k
  /\ Once(q) /\ Chained(s, q)
  /\ IsFiniteSet(Members(q)) /\ Cardinality(Members(q)) = k

LEMMA IntervalSize ==
  ASSUME NEW n \in Nat
  PROVE  IsFiniteSet(1..n) /\ Cardinality(1..n) = n
<1>1. Cardinality(1..n) = IF 1 > n THEN 0 ELSE n - 1 + 1
  BY FS_Interval
<1>. QED
  BY <1>1, FS_Interval

LEMMA MembersIn ==
  ASSUME NEW S, NEW q \in Seq(S)
  PROVE  Members(q) \in SUBSET S
<1>1. \A m \in 1..Len(q) : q[m] \in S
  OBVIOUS
<1>. QED
  BY <1>1 DEF Members

LEMMA AppendBegins ==
  ASSUME NEW s, Len(s) \in Nat, NEW k \in Nat, NEW q, Begins(s, q, k),
         NEW i \in 1..Len(s), i \notin Members(q), Valid(s, i) \subseteq Members(q)
  PROVE  Begins(s, Append(q, i), k + 1)
<1> DEFINE r == Append(q, i)
<1>1. /\ q \in Seq(1..Len(s)) /\ Len(q) = k
      /\ r \in Seq(1..Len(s)) /\ Len(r) = k + 1
      /\ \A m \in 1..k : r[m] = q[m]
      /\ r[k + 1] = i
  BY DEF Begins
<1>. HIDE DEF r
<1>2. Once(r)
  <2>1. \A a \in 1..k : q[a] # i
    BY <1>1 DEF Members
  <2>2. \A a \in 1..(k + 1) : a \in 1..k \/ a = k + 1
    OBVIOUS
  <2>. QED
    BY <1>1, <2>1, <2>2 DEF Once, Begins
<1>3. Chained(s, r)
  <2> SUFFICES ASSUME NEW m \in 1..Len(r), NEW d \in Valid(s, r[m])
               PROVE  \E l \in 1..(m - 1) : r[l] = d
    BY DEF Chained
  <2>1. CASE m = k + 1
    <3>1. PICK l \in 1..Len(q) : q[l] = d
      BY <1>1, <2>1 DEF Members
    <3>. QED
      BY <1>1, <2>1, <3>1
  <2>2. CASE m # k + 1
    <3>1. m \in 1..Len(q) /\ r[m] = q[m]
      BY <1>1, <2>2
    <3>2. PICK l \in 1..(m - 1) : q[l] = d
      BY <3>1 DEF Begins, Chained
    <3>3. l \in 1..k
      BY <1>1, <3>1
    <3>. QED
      BY <1>1, <3>2, <3>3
  <2>. QED
    BY <2>1, <2>2
<1>4. Members(r) = Members(q) \cup {i}
  <2>1. \A m \in 1..(k + 1) : m \in 1..k \/ m = k + 1
    OBVIOUS
  <2>2. k + 1 \in 1..(k + 1) /\ \A m \in 1..k : m \in 1..(k + 1)
    OBVIOUS
  <2>3. Len(q) = k /\ Len(r) = k + 1 /\ r[k + 1] = i /\ \A m \in 1..k : r[m] = q[m]
    BY <1>1
  <2>4. \A m \in 1..(k + 1) : r[m] \in Members(q) \cup {i}
    BY <2>1, <2>3 DEF Members
  <2>5. i \in Members(r) /\ \A m \in 1..k : q[m] \in Members(r)
    BY <2>2, <2>3 DEF Members
  <2>. QED
    BY <2>3, <2>4, <2>5 DEF Members
<1>5. IsFiniteSet(Members(r)) /\ Cardinality(Members(r)) = k + 1
  <2>1. IsFiniteSet(Members(q)) /\ Cardinality(Members(q)) = k
    BY DEF Begins
  <2>. QED
    BY <1>4, <2>1, FS_AddElement
<1>. QED
  BY <1>1, <1>2, <1>3, <1>5 DEF Begins, r

(* _topological_subtask_order() of a plan in order.                        *)
LEMMA OrderIs ==
  ASSUME NEW s, Len(s) \in Nat, Ordered(s)
  PROVE  /\ Order(s) \in Seq(1..Len(s)) /\ Once(Order(s)) /\ Chained(s, Order(s))
         /\ Members(Order(s)) = 1..Len(s)
<1> DEFINE n == Len(s)
           done(q, k) == {q[m] : m \in 1..(k - 1)}
           ready(q, k) == {i \in 1..n \ done(q, k) : Valid(s, i) \subseteq done(q, k)}
           least(q, k) == CHOOSE i \in ready(q, k) : \A j \in ready(q, k) : i <= j
           next(q, k) == Append(q, least(q, k))
           X == [k \in 0..n |-> {q \in Seq(1..n) : Begins(s, q, k)}]
           h == [k \in 1..n |-> [q \in X[k - 1] |-> next(q, k)]]
           A == CHOOSE f : f = [k \in 0..n |-> IF k = 0 THEN <<>> ELSE next(f[k - 1], k)]
<1>1. <<>> \in X[0]
  <2>1. Members(<<>>) = {}
    BY DEF Members
  <2>2. Begins(s, <<>>, 0)
    BY <2>1, FS_EmptySet DEF Begins, Once, Chained
  <2>3. 0 \in 0..n
    OBVIOUS
  <2>. QED
    BY <2>2, <2>3
<1>2. \A k \in 1..n : \A q \in X[k - 1] : next(q, k) \in X[k]
  <2> TAKE k \in 1..n
  <2> TAKE q \in X[k - 1]
  <2>1. k \in 0..n /\ k - 1 \in 0..n /\ k - 1 \in Nat /\ k - 1 + 1 = k
    OBVIOUS
  <2>2. Begins(s, q, k - 1)
    BY <2>1
  <2>. HIDE DEF X
  <2>3. Members(q) = done(q, k) /\ Members(q) \in SUBSET (1..n)
    BY <2>2 DEF Members, Begins
  <2>4. done(q, k) # 1..n
    <3>1. Cardinality(Members(q)) = k - 1
      BY <2>2 DEF Begins
    <3>2. Cardinality(1..n) = n /\ n # k - 1
      BY IntervalSize
    <3> HIDE DEF done
    <3>. QED
      BY <2>3, <3>1, <3>2
  <2>5. \E i \in ready(q, k) : \A j \in ready(q, k) : i <= j
    <3>1. done(q, k) \in SUBSET (1..n)
      BY <2>3
    <3>. HIDE DEF done
    <3>2. PICK i \in 1..n \ done(q, k) :
            /\ Valid(s, i) \subseteq done(q, k)
            /\ \A j \in 1..n \ done(q, k) : Valid(s, j) \subseteq done(q, k) => i <= j
      BY <2>4, <3>1, OneIsReady
    <3>. QED
      BY <3>2
  <2>6. least(q, k) \in ready(q, k)
    <3> HIDE DEF ready
    <3>. QED
      BY <2>5
  <2>7. least(q, k) \in 1..n /\ least(q, k) \notin Members(q)
        /\ Valid(s, least(q, k)) \subseteq Members(q)
    <3> HIDE DEF least
    <3>. QED
      BY <2>3, <2>6
  <2>8. Begins(s, next(q, k), k)
    <3> HIDE DEF least
    <3>. QED
      BY <2>1, <2>2, <2>7, AppendBegins
  <2>. HIDE DEF next
  <2>. QED
    BY <2>1, <2>8 DEF X, Begins
<1>3. \A k \in 1..n : \A q \in X[k - 1] : h[k][q] = next(q, k)
  OBVIOUS
<1>. HIDE DEF X, h, next
<1>4. PICK f : f = [k \in 0..n |-> IF k = 0 THEN <<>> ELSE next(f[k - 1], k)]
  <2>1. PICK f : Counts(n, <<>>, h, f) /\ Within(n, X, f)
    BY <1>1, <1>2, <1>3, CountExists
  <2>2. \A k \in 0..n : k # 0 => k \in 1..n /\ k - 1 \in 0..n
    OBVIOUS
  <2>3. \A k \in 0..n : k # 0 => h[k][f[k - 1]] = next(f[k - 1], k)
    BY <1>3, <2>1, <2>2 DEF Within
  <2>4. [k \in 0..n |-> IF k = 0 THEN <<>> ELSE h[k][f[k - 1]]]
          = [k \in 0..n |-> IF k = 0 THEN <<>> ELSE next(f[k - 1], k)]
    BY <2>3
  <2>. QED
    BY <2>1, <2>4 DEF Counts
<1>5. A = [k \in 0..n |-> IF k = 0 THEN <<>> ELSE next(A[k - 1], k)]
  BY <1>4
<1>. HIDE DEF A
<1>6. A[0] = <<>> /\ \A k \in 1..n : A[k] = next(A[k - 1], k)
  <2>1. 0 \in 0..n /\ \A k \in 1..n : k \in 0..n /\ k # 0
    OBVIOUS
  <2>. QED
    BY <1>5, <2>1
<1>7. \A k \in 0..n : A[k] \in X[k]
  <2> DEFINE T == {k \in 0..n : A[k] \in X[k]}
  <2>1. 0 \in 0..n
    OBVIOUS
  <2>2. 0 \in T
    BY <1>1, <1>6, <2>1
  <2>3. \A k \in 1..n : k - 1 \in T => k \in T
    BY <1>2, <1>6
  <2>4. \A k \in 0..n : k \in T
    <3> HIDE DEF T
    <3>. QED
      BY <2>2, <2>3, UpTo
  <2>. QED
    BY <2>4
<1>8. Order(s) = A[n]
  BY DEF Order, A, next
<1>9. Begins(s, A[n], n)
  <2>1. n \in 0..n
    OBVIOUS
  <2>. QED
    BY <1>7, <2>1 DEF X
<1>10. Members(A[n]) = 1..n
  <2>1. Members(A[n]) \in SUBSET (1..n)
    BY <1>9, MembersIn DEF Begins
  <2>2. IsFiniteSet(1..n) /\ Cardinality(1..n) = n
    BY IntervalSize
  <2>. QED
    BY <1>9, <2>1, <2>2, FS_Subset DEF Begins
<1>. QED
  BY <1>8, <1>9, <1>10 DEF Begins

(* Whatever the plan, its schedule has each of its steps once, in groups   *)
(* whose steps write apart, and a plan in order has them behind those they *)
(* depend on: what the functions that order subtasks compute for any list. *)
THEOREM ScheduleArranges ==
  ASSUME NEW s, Len(s) \in Nat
  PROVE  /\ Arranges(s, Schedule(s), 1..Len(s))
         /\ Ordered(s) => Follows(s, Schedule(s), {})
<1>1. CASE ~Ordered(s)
  <2>1. Schedule(s) = Singles(InListOrder(s))
    BY <1>1 DEF Schedule, Waves, Order
  <2>. QED
    BY <1>1, <2>1, InListOrderIs, SinglesArrange
<1>2. CASE Ordered(s) /\ fanout
  BY <1>2, WavesArrange DEF Schedule
<1>3. CASE Ordered(s) /\ ~fanout
  <2>1. Schedule(s) = Singles(Order(s))
    BY <1>3 DEF Schedule
  <2>. QED
    BY <1>3, <2>1, OrderIs, SinglesArrange
<1>. QED
  BY <1>1, <1>2, <1>3

(* What is left of a schedule when the steps of Dispatched are taken out.  *)
LEMMA RemainingArranges ==
  ASSUME NEW s, Len(s) \in Nat
  PROVE  /\ Arranges(s, Remaining(s), (1..Len(s)) \ Dispatched)
         /\ Ordered(s) => Follows(s, Remaining(s), Dispatched)
<1> DEFINE D == Dispatched
           L == (1..Len(s)) \ D
           all == Schedule(s)
           K == {k \in 1..Len(all) : all[k] \ D # {}}
           more == Ascending(Len(all), K)
           r == Remaining(s)
<1>1. Arranges(s, all, 1..Len(s)) /\ (Ordered(s) => Follows(s, all, {}))
  BY ScheduleArranges
<1>2. /\ Len(all) \in Nat
      /\ \A k \in 1..Len(all) : all[k] \in SUBSET (1..Len(s))
  BY <1>1 DEF Arranges
<1>3. r = [k \in 1..Len(more) |-> all[more[k]] \ D]
  BY DEF Remaining
<1>. HIDE DEF r, all, D
<1>4. Lists(more, K)
  BY <1>2, AscendingLists
<1>. HIDE DEF more
<1>5. /\ Len(more) \in Nat
      /\ \A k \in 1..Len(more) : more[k] \in 1..Len(all) /\ all[more[k]] \ D # {}
      /\ \A a, b \in 1..Len(more) : a < b => more[a] < more[b]
      /\ \A i \in K : \E m \in 1..Len(more) : more[m] = i
  BY <1>4 DEF Lists
<1>6. /\ r \in Seq(SUBSET L) /\ Len(r) = Len(more)
      /\ \A k \in 1..Len(more) : r[k] = all[more[k]] \ D
  BY <1>2, <1>3, <1>5
<1>7. \A a, b \in 1..Len(more) : more[a] = more[b] => a = b
  BY <1>2, <1>5
<1>8. ASSUME NEW i \in L, NEW k \in 1..Len(all), i \in all[k]
      PROVE  \E m \in 1..Len(more) : more[m] = k /\ i \in r[m]
  BY <1>5, <1>6, <1>8
<1>9. Arranges(s, r, L)
  <2>1. \A k \in 1..Len(r) : r[k] # {}
    BY <1>5, <1>6
  <2>2. ASSUME NEW i \in L PROVE \E k \in 1..Len(r) : i \in r[k]
    <3>1. PICK k \in 1..Len(all) : i \in all[k]
      BY <1>1 DEF Arranges
    <3>. QED
      BY <1>6, <1>8, <3>1
  <2>3. ASSUME NEW k \in 1..Len(r), NEW m \in 1..Len(r), NEW i \in L, i \in r[k], i \in r[m]
        PROVE  k = m
    <3>1. i \in all[more[k]] /\ i \in all[more[m]] /\ i \in 1..Len(s)
      BY <1>6, <2>3
    <3>2. more[k] = more[m]
      BY <1>1, <1>5, <1>6, <3>1 DEF Arranges
    <3>. QED
      BY <1>6, <1>7, <3>2
  <2>4. ASSUME NEW k \in 1..Len(r), NEW i \in r[k], NEW j \in r[k], i # j
        PROVE  FilesApart(s, i, j)
    <3>1. i \in all[more[k]] /\ j \in all[more[k]]
      BY <1>6
    <3>. QED
      BY <1>1, <1>5, <1>6, <2>4, <3>1 DEF Arranges
  <2>. QED
    BY <1>6, <2>1, <2>2, <2>3, <2>4 DEF Arranges
<1>10. ASSUME Ordered(s) PROVE Follows(s, r, D)
  <2> SUFFICES ASSUME NEW k \in 1..Len(r), NEW i \in r[k], NEW d \in Valid(s, i), d \notin D
               PROVE  \E m \in 1..(k - 1) : d \in r[m]
    BY DEF Follows
  <2>1. k \in 1..Len(more) /\ i \in all[more[k]] /\ more[k] \in 1..Len(all)
    BY <1>5, <1>6
  <2>2. PICK m \in 1..(more[k] - 1) : d \in all[m]
    BY <1>1, <1>10, <2>1 DEF Follows
  <2>3. d \in L /\ m \in 1..Len(all) /\ m < more[k]
    BY <1>2, <2>1, <2>2 DEF Valid
  <2>4. PICK l \in 1..Len(more) : more[l] = m /\ d \in r[l]
    BY <1>8, <2>2, <2>3
  <2>5. l < k
    <3>1. ~ (k < l) /\ k # l
      BY <1>5, <2>1, <2>3, <2>4
    <3>. QED
      BY <2>1, <3>1
  <2>. QED
    BY <2>4, <2>5
<1>. QED
  BY <1>9, <1>10 DEF r, D

(* The proposals of a wave are those its steps have made.                  *)
LEMMA ProposalsIn ==
  ASSUME NEW S, Len(steps) \in Nat, NEW w, \A k \in w : proposed[k] \in Seq(S)
  PROVE  Proposals(w) \in Seq(S)
<1> DEFINE n == Len(steps)
           next(q, k) == IF k \in w THEN q \o proposed[k] ELSE q
           X == [k \in 0..n |-> Seq(S)]
           h == [k \in 1..n |-> [q \in X[k - 1] |-> next(q, k)]]
           P == CHOOSE f : f = [k \in 0..n |-> IF k = 0 THEN <<>> ELSE next(f[k - 1], k)]
<1>1. <<>> \in X[0]
  OBVIOUS
<1>2. \A k \in 1..n : \A q \in X[k - 1] : next(q, k) \in X[k]
  <2> TAKE k \in 1..n
  <2> TAKE q \in X[k - 1]
  <2>1. k \in 0..n /\ k - 1 \in 0..n
    OBVIOUS
  <2>2. q \in Seq(S)
    BY <2>1
  <2>. HIDE DEF X
  <2>3. next(q, k) \in Seq(S)
    BY <2>2
  <2>. HIDE DEF next
  <2>. QED
    BY <2>1, <2>3 DEF X
<1>3. \A k \in 1..n : \A q \in X[k - 1] : h[k][q] = next(q, k)
  OBVIOUS
<1>. HIDE DEF X, h, next
<1>4. PICK f : f = [k \in 0..n |-> IF k = 0 THEN <<>> ELSE next(f[k - 1], k)]
  <2>1. PICK f : Counts(n, <<>>, h, f) /\ Within(n, X, f)
    BY <1>1, <1>2, <1>3, CountExists
  <2>2. \A k \in 0..n : k # 0 => k \in 1..n /\ k - 1 \in 0..n
    OBVIOUS
  <2>3. \A k \in 0..n : k # 0 => h[k][f[k - 1]] = next(f[k - 1], k)
    BY <1>3, <2>1, <2>2 DEF Within
  <2>4. [k \in 0..n |-> IF k = 0 THEN <<>> ELSE h[k][f[k - 1]]]
          = [k \in 0..n |-> IF k = 0 THEN <<>> ELSE next(f[k - 1], k)]
    BY <2>3
  <2>. QED
    BY <2>1, <2>4 DEF Counts
<1>5. P = [k \in 0..n |-> IF k = 0 THEN <<>> ELSE next(P[k - 1], k)]
  BY <1>4
<1>. HIDE DEF P
<1>6. P[0] = <<>> /\ \A k \in 1..n : P[k] = next(P[k - 1], k)
  <2>1. 0 \in 0..n /\ \A k \in 1..n : k \in 0..n /\ k # 0
    OBVIOUS
  <2>. QED
    BY <1>5, <2>1
<1>7. \A k \in 0..n : P[k] \in X[k]
  <2> DEFINE T == {k \in 0..n : P[k] \in X[k]}
  <2>1. 0 \in 0..n
    OBVIOUS
  <2>2. 0 \in T
    BY <1>1, <1>6, <2>1
  <2>3. \A k \in 1..n : k - 1 \in T => k \in T
    BY <1>2, <1>6
  <2>4. \A k \in 0..n : k \in T
    <3> HIDE DEF T
    <3>. QED
      BY <2>2, <2>3, UpTo
  <2>. QED
    BY <2>4
<1>8. Proposals(w) = P[n]
  BY DEF Proposals, P, next
<1>. QED
  <2>1. n \in 0..n
    OBVIOUS
  <2>. QED
    BY <1>7, <1>8, <2>1 DEF X

-----------------------------------------------------------------------------
(* Edits of a plan.                                                        *)

Take(s, R, kept) ==
  [k \in 1..Len(kept) |->
     [s[kept[k]] EXCEPT !.deps = {m \in 1..Len(kept) : kept[m] \in @}]]

(* The steps that stay keep their order, and name the new places of those  *)
(* they depend on.                                                         *)
LEMMA WithoutIs ==
  ASSUME NEW s, Len(s) \in Nat, NEW R
  PROVE  \E kept : /\ Lists(kept, (1..Len(s)) \ R) /\ Len(kept) <= Len(s)
                   /\ Without(s, R) = Take(s, R, kept)
<1> DEFINE S == (1..Len(s)) \ R
           kept == Ascending(Len(s), S)
           place(d) == CHOOSE k \in 1..Len(kept) : kept[k] = d
           new(k) == {place(d) : d \in s[kept[k]].deps \cap S}
<1>1. Lists(kept, S) /\ Len(kept) <= Len(s)
  BY AscendingLists
<1>2. Without(s, R) = [k \in 1..Len(kept) |-> [s[kept[k]] EXCEPT !.deps = new(k)]]
  BY DEF Without
<1>. HIDE DEF kept
<1>3. /\ \A k \in 1..Len(kept) : kept[k] \in S
      /\ \A d \in S : \E k \in 1..Len(kept) : kept[k] = d
      /\ Len(kept) \in Nat
      /\ \A a, b \in 1..Len(kept) : a < b => kept[a] < kept[b]
  BY <1>1 DEF Lists
<1>4. \A a, b \in 1..Len(kept) : kept[a] = kept[b] => a = b
  BY <1>3
<1>5. ASSUME NEW d \in S PROVE place(d) \in 1..Len(kept) /\ kept[place(d)] = d
  BY <1>3
<1>. HIDE DEF place
<1>6. ASSUME NEW k \in 1..Len(kept)
      PROVE  new(k) = {m \in 1..Len(kept) : kept[m] \in s[kept[k]].deps}
  <2>1. \A m \in 1..Len(kept) : place(kept[m]) = m
    BY <1>3, <1>4, <1>5
  <2>. HIDE DEF S
  <2>2. ASSUME NEW m \in new(k)
        PROVE  m \in 1..Len(kept) /\ kept[m] \in s[kept[k]].deps
    BY <1>5
  <2>3. ASSUME NEW m \in 1..Len(kept), kept[m] \in s[kept[k]].deps PROVE m \in new(k)
    BY <1>3, <2>1, <2>3
  <2>. QED
    BY <2>2, <2>3
<1>. HIDE DEF new
<1>7. Without(s, R) = Take(s, R, kept)
  BY <1>2, <1>6 DEF Take
<1>. QED
  BY <1>1, <1>7

(* A proposed step joins behind the one it depends on: a plan in order     *)
(* stays in order, and no other step's dependencies change.                *)
THEOREM JoinedOrder ==
  ASSUME NEW s, Len(s) \in Nat, NEW p \in 1..Len(s), NEW t, Len(t) = Len(s) + 1,
         \A i \in 1..Len(s) : t[i] = s[i], t[Len(s) + 1].deps = {p}
  PROVE  /\ Valid(t, Len(s) + 1) = {p}
         /\ Ordered(s) => /\ Ordered(t)
                           /\ \A i \in 1..Len(s) : Valid(t, i) = Valid(s, i)
<1> DEFINE n == Len(s)
<1>1. /\ n \in Nat /\ Len(t) = n + 1
      /\ \A i \in 1..n : t[i] = s[i]
      /\ t[n + 1].deps = {p}
  OBVIOUS
<1>. HIDE DEF n
<1>2. Valid(t, n + 1) = {p}
  <2>1. p \in 1..(n + 1) /\ p # n + 1
    BY <1>1 DEF n
  <2>. QED
    BY <1>1, <2>1 DEF Valid
<1>3. ASSUME Ordered(s) PROVE Ordered(t) /\ \A i \in 1..n : Valid(t, i) = Valid(s, i)
  <2>1. \A i \in 1..n : s[i].deps = Valid(s, i)
    BY <1>3 DEF Ordered, Malformed, n
  <2>2. ASSUME NEW i \in 1..n PROVE Valid(t, i) = Valid(s, i)
    <3>1. \A d \in s[i].deps : d \in 1..n /\ d # i
      BY <2>1 DEF Valid, n
    <3>2. \A d \in s[i].deps : d \in 1..(n + 1)
      BY <1>1, <3>1
    <3>. QED
      BY <1>1, <3>1, <3>2 DEF Valid, n
  <2>3. \A i \in 1..(n + 1) : i \in 1..n \/ i = n + 1
    BY <1>1
  <2>4. ~Malformed(t)
    <3>1. ASSUME NEW i \in 1..(n + 1) PROVE t[i].deps = Valid(t, i)
      BY <1>1, <1>2, <2>1, <2>2, <2>3
    <3>. QED
      BY <1>1, <3>1 DEF Malformed
  <2>5. /\ Resolved(s)[0] = {} /\ Resolved(t)[0] = {}
        /\ \A k \in 1..n : Resolved(s)[k] = {i \in 1..n : Valid(s, i) \subseteq Resolved(s)[k - 1]}
        /\ \A k \in 1..(n + 1) :
             Resolved(t)[k] = {i \in 1..(n + 1) : Valid(t, i) \subseteq Resolved(t)[k - 1]}
    <3>1. /\ Resolved(s)[0] = {}
          /\ \A k \in 1..n : Resolved(s)[k] = {i \in 1..n : Valid(s, i) \subseteq Resolved(s)[k - 1]}
      BY <1>1, ResolvedIs DEF n
    <3>2. /\ Resolved(t)[0] = {}
          /\ \A k \in 1..Len(t) :
               Resolved(t)[k] = {i \in 1..Len(t) : Valid(t, i) \subseteq Resolved(t)[k - 1]}
      BY <1>1, ResolvedIs
    <3>. QED
      BY <1>1, <3>1, <3>2
  <2>6. \A k \in 0..n : Resolved(s)[k] \subseteq Resolved(t)[k]
    <3> DEFINE T == {k \in 0..n : Resolved(s)[k] \subseteq Resolved(t)[k]}
    <3>1. 0 \in T
      BY <1>1, <2>5
    <3>2. ASSUME NEW k \in 1..n, k - 1 \in T PROVE k \in T
      <4>1. k \in 1..(n + 1) /\ k \in 0..n /\ \A i \in 1..n : i \in 1..(n + 1)
        BY <1>1
      <4>2. Resolved(s)[k] \subseteq Resolved(t)[k]
        BY <2>2, <2>5, <3>2, <4>1
      <4>. QED
        BY <4>1, <4>2
    <3>3. \A k \in 0..n : k \in T
      <4> HIDE DEF T
      <4>. QED
        BY <1>1, <3>1, <3>2, UpTo
    <3>. QED
      BY <3>3
  <2>7. 1..n \subseteq Resolved(t)[n]
    BY <1>1, <1>3, <2>6 DEF Ordered, n
  <2>8. Resolved(t)[n + 1] = 1..(n + 1)
    <3>1. n + 1 \in 1..(n + 1) /\ n + 1 - 1 = n
      BY <1>1
    <3>2. \A i \in 1..(n + 1) : Valid(t, i) \subseteq 1..n
      BY <1>2, <2>2, <2>3 DEF Valid, n
    <3>3. Resolved(t)[n + 1] = {i \in 1..(n + 1) : Valid(t, i) \subseteq Resolved(t)[n]}
      BY <1>1, <2>5, <3>1
    <3>. QED
      BY <2>7, <3>2, <3>3
  <2>. QED
    BY <1>1, <2>2, <2>4, <2>8 DEF Ordered
<1>. QED
  BY <1>2, <1>3 DEF n

(***************************************************************************)
(* The run of a plan: its steps and their names, where each step is, what  *)
(* the queue still holds and what the run reports.                         *)
(***************************************************************************)
StepType ==
  [id : Idx, title : Int, files : SUBSET Files, deps : SUBSET Int, depth : 0..MaxDepth]

RowType ==
  [id : Idx \cup {Nobody}, status : {"pending", "completed", "blocked"}]

Numbered == {r \in DOMAIN rows : rows[r].id # Nobody}
AtWork == {i \in Idx : pc[i] \notin {"idle", "dispatch", "done", "gone"}}
Ended == {i \in Steps : pc[i] = "done"}

(* No two steps have one name, a new one is free, and the steps that may   *)
(* still join have room.                                                   *)
Named ==
  /\ \A i \in Steps : steps[i].id < NewId
  /\ \A i, j \in Steps : steps[i].id = steps[j].id => i = j
  /\ NewId - 1 + MaxDynamic <= MaxSteps + Cardinality(Dynamic)
  /\ Len(steps) + MaxDynamic <= MaxSteps + Cardinality(Dynamic)

(* Before its run a plan is all a person has seen.                         *)
Unbegun ==
  phase \in {"review", "approved"} =>
    /\ \A i \in Steps : steps[i].depth = 0
    /\ Len(rows) <= OldRows + MaxSteps
    /\ \A i \in Idx : pc[i] = "idle"
    /\ wave = {} /\ inbox = <<>> /\ queue = <<>> /\ status = "completed"

(* Only the steps of the wave are on their way; those that have ended have *)
(* an outcome, and those at work, or raised, hold the permits.             *)
OnTheirWay ==
  /\ \A i \in Idx : proposed[i] \in Seq([parent : {i}, step : Offers])
  /\ inbox \in Seq([parent : Ended, step : Offers])
  /\ \A i \in wave : pc[i] # "idle"
  /\ \A i \in Idx \ wave : pc[i] \in {"idle", "done"}
  /\ \A i \in Idx : pc[i] = "done" <=> outcome[i] # "none"
  /\ \A i \in Idx \ Steps : pc[i] = "idle"
  /\ lock # Nobody => pc[lock] = "commit"

PermitsCount == permits + Cardinality(AtWork) = SubtaskCap

(* The queue holds every step that is neither over nor in the wave.        *)
Queued ==
  phase = "running" =>
    /\ Arranges(steps, queue, Steps \ (Dispatched \cup wave))
    /\ Ordered(steps) => Follows(steps, queue, Dispatched \cup wave)
    /\ status \in {"completed", "blocked"}
    /\ status = "blocked" <=> Blocked \ wave # {}

Over ==
  phase = "returned" =>
    /\ wave = {}
    /\ status # "halted" => /\ Steps \subseteq Dispatched
                            /\ status = "completed" <=> Blocked = {}

(* When a step has raised, or a commit timed out, the run has raised.      *)
Astray ==
  /\ \A i \in Idx : pc[i] \in {"raised", "gone"} => phase = "raised"
  /\ late # {} => phase = "raised"

RunInv ==
  /\ TypeOK /\ proposed \in [Idx -> Seq([parent : Idx, step : Offers])]
  /\ Named /\ Unbegun /\ OnTheirWay /\ PermitsCount /\ Queued /\ Over
  /\ Astray

(* What is known of a list whose elements are in S.                        *)
LEMMA ListIn ==
  ASSUME NEW S, NEW q \in Seq(S)
  PROVE  /\ Len(q) \in Nat /\ DOMAIN q = 1..Len(q)
         /\ \A k \in 1..Len(q) : q[k] \in S
OBVIOUS

LEMMA ListGrows ==
  ASSUME NEW S, NEW q \in Seq(S), NEW e \in S, NEW r, r = Append(q, e)
  PROVE  /\ r \in Seq(S) /\ Len(r) = Len(q) + 1
         /\ \A k \in 1..Len(q) : r[k] = q[k]
         /\ r[Len(q) + 1] = e
OBVIOUS

LEMMA ListHead ==
  ASSUME NEW S, NEW q \in Seq(S), q # <<>>
  PROVE  /\ Head(q) \in S /\ Tail(q) \in Seq(S)
         /\ Len(q) \in Nat /\ Len(q) > 0
         /\ Len(Tail(q)) = Len(q) - 1
         /\ Head(q) = q[1]
         /\ \A k \in 1..(Len(q) - 1) : Tail(q)[k] = q[k + 1]
OBVIOUS

LEMMA ListOver ==
  ASSUME NEW S, NEW T, S \subseteq T, NEW q \in Seq(S)
  PROVE  q \in Seq(T)
OBVIOUS

LEMMA NewIdIs == NewId = 1 + Cardinality(Numbered)
BY DEF NewId, Numbered

LEMMA RunInitHolds == Init => RunInv
<1> SUFFICES ASSUME Init PROVE RunInv
  OBVIOUS
<1>1. PICK p \in Plans, old \in 0..OldRows :
        /\ steps = [i \in 1..Len(p) |-> Step(i, i, p[i].files, p[i].deps, 0)]
        /\ rows = [i \in 1..(old + Len(p)) |->
                    IF i <= old THEN Row(Nobody, "completed")
                    ELSE Row(i - old, "pending")]
  BY DEF Init
<1> DEFINE n == Len(p)
<1>2. /\ p \in Seq([files : SUBSET Files, deps : SUBSET Int])
      /\ n \in Nat /\ old \in Nat /\ OldRows \in Nat /\ MaxSteps \in Nat /\ MaxDynamic \in Nat
      /\ MaxDepth \in Nat /\ SubtaskCap \in Nat /\ MaxRetries \in Nat
      /\ n + MaxDynamic <= MaxSteps
  <2>1. p \in Seq([files : SUBSET Files, deps : SUBSET Int])
    BY PlansAssumption
  <2>2. n \in Nat
    BY <2>1, ListIn
  <2>3. n + MaxDynamic <= MaxSteps /\ OldRows \in Nat
    BY BoundAssumption
  <2>4. old \in Nat
    BY <2>3
  <2>5. /\ MaxSteps \in Nat /\ MaxDynamic \in Nat
        /\ MaxDepth \in Nat /\ SubtaskCap \in Nat /\ MaxRetries \in Nat
    BY BoundAssumption
  <2>. QED
    BY <2>1, <2>2, <2>3, <2>4, <2>5
<1>3. \A i \in 1..n : p[i] \in [files : SUBSET Files, deps : SUBSET Int]
  BY <1>2, ListIn
<1>. HIDE DEF n
<1>4. /\ Len(steps) = n /\ Steps = 1..n /\ DOMAIN steps = 1..n
      /\ \A i \in 1..n : /\ steps[i].id = i /\ steps[i].depth = 0
                         /\ steps[i] \in StepType
  <2>1. Len(steps) = n /\ DOMAIN steps = 1..n
    BY <1>1, <1>2 DEF n
  <2>2. ASSUME NEW i \in 1..n
        PROVE  steps[i].id = i /\ steps[i].depth = 0 /\ steps[i] \in StepType
    <3>1. i \in Idx /\ i \in Int /\ 0 \in 0..MaxDepth
      BY <1>2 DEF Idx
    <3>2. steps[i] = Step(i, i, p[i].files, p[i].deps, 0)
      BY <1>1 DEF n
    <3>. QED
      BY <1>3, <3>1, <3>2 DEF Step, StepType
  <2>. QED
    BY <2>1, <2>2 DEF Steps
<1>5. steps \in Seq(StepType)
  BY <1>1, <1>2, <1>4 DEF n
<1>6. /\ Len(rows) = old + n /\ DOMAIN rows = 1..(old + n)
      /\ \A r \in 1..(old + n) : rows[r] \in RowType /\ (rows[r].id # Nobody <=> r > old)
  <2>1. Len(rows) = old + n /\ DOMAIN rows = 1..(old + n)
    BY <1>1, <1>2 DEF n
  <2>2. ASSUME NEW r \in 1..(old + n)
        PROVE  rows[r] \in RowType /\ (rows[r].id # Nobody <=> r > old)
    <3>1. r <= old \/ (r - old \in Idx /\ r - old # Nobody)
      BY <1>2 DEF Idx, Nobody
    <3>2. rows[r] = IF r <= old THEN Row(Nobody, "completed") ELSE Row(r - old, "pending")
      BY <1>1 DEF n
    <3>. QED
      BY <1>2, <3>1, <3>2 DEF Row, RowType
  <2>. QED
    BY <2>1, <2>2
<1>7. rows \in Seq(RowType)
  BY <1>1, <1>2, <1>6 DEF n
<1>8. NewId = n + 1
  <2>1. Numbered = (old + 1)..(old + n)
    BY <1>2, <1>6 DEF Numbered
  <2>2. Cardinality((old + 1)..(old + n)) = n
    BY <1>2, FS_Interval
  <2>. QED
    BY <1>2, <2>1, <2>2, NewIdIs
<1>9. Cardinality(Dynamic) = 0
  <2>1. Dynamic = {}
    BY <1>4 DEF Dynamic
  <2>. QED
    BY <2>1, FS_EmptySet
<1>10. Cardinality(AtWork) = 0
  <2>1. AtWork = {}
    BY DEF Init, AtWork
  <2>. QED
    BY <2>1, FS_EmptySet
<1>11. TypeOK
  <2>1. queue \in Seq(SUBSET Steps) /\ wave \subseteq Steps /\ 0 \in 0..MaxRetries
        /\ known \in 0..(OldRows + MaxSteps) /\ permits \in 0..SubtaskCap
    BY <1>2 DEF Init
  <2>2. Len(steps) <= MaxSteps
    BY <1>2, <1>4
  <2>. QED
    BY <1>5, <1>7, <2>1, <2>2
       DEF Init, TypeOK, StepType, RowType, Stages, Nobody
<1>12. Named
  BY <1>2, <1>4, <1>8, <1>9 DEF Named
<1>13. Unbegun
  <2>1. \A i \in Steps : steps[i].depth = 0
    BY <1>4
  <2>2. old + n <= OldRows + MaxSteps
    BY <1>2
  <2>3. Len(rows) <= OldRows + MaxSteps
    BY <1>6, <2>2
  <2>4. \A i \in Idx : pc[i] = "idle"
    BY DEF Init
  <2>5. wave = {} /\ inbox = <<>> /\ queue = <<>> /\ status = "completed"
    BY DEF Init
  <2>. QED
    BY <2>1, <2>3, <2>4, <2>5 DEF Unbegun
<1>14. OnTheirWay
  BY DEF Init, OnTheirWay
<1>15. PermitsCount
  BY <1>2, <1>10 DEF Init, PermitsCount
<1>16. Queued /\ Over /\ Astray
  BY DEF Init, Queued, Over, Astray
<1>17. proposed \in [Idx -> Seq([parent : Idx, step : Offers])]
  BY DEF Init
<1>. QED
  BY <1>11, <1>12, <1>13, <1>14, <1>15, <1>16, <1>17 DEF RunInv

(* kept lists the steps of a plan s that stay in the plan t, which has     *)
(* them in that order, as they were but for what step i depends on.        *)
Keeps(s, t, kept, i, R) ==
  /\ Lists(kept, (1..Len(s)) \ R)
  /\ Len(t) = Len(kept) /\ Len(kept) <= Len(s)
  /\ \A k \in 1..Len(kept) :
       /\ t[k].id = s[kept[k]].id /\ t[k].files = s[kept[k]].files
       /\ t[k].depth = s[kept[k]].depth
       /\ kept[k] # i =>
            /\ Valid(t, k) = {m \in 1..Len(kept) : kept[m] \in Valid(s, kept[k])}
            /\ Valid(s, kept[k]) \cap R = {}

LEMMA ListsApart ==
  ASSUME NEW S \in SUBSET Nat, NEW q, Lists(q, S)
  PROVE  /\ Len(q) \in Nat /\ q \in Seq(S)
         /\ \A a, b \in 1..Len(q) : q[a] = q[b] <=> a = b
<1>1. Len(q) \in Nat /\ \A k \in 1..Len(q) : q[k] \in S
  BY DEF Lists
<1>2. ASSUME NEW a \in 1..Len(q), NEW b \in 1..Len(q), q[a] = q[b] PROVE a = b
  <2>1. a < b => q[a] < q[b]
    BY DEF Lists
  <2>2. b < a => q[b] < q[a]
    BY DEF Lists
  <2>3. q[a] \in Nat /\ q[b] \in Nat
    BY <1>1
  <2>. QED
    BY <1>1, <1>2, <2>1, <2>2, <2>3
<1>. QED
  BY <1>1, <1>2 DEF Lists

LEMMA TakeKeeps ==
  ASSUME NEW s \in Seq(StepType), NEW R, NEW i,
         NEW e \in Seq(StepType), Len(e) = Len(s),
         \A k \in 1..Len(s) : /\ e[k].id = s[k].id /\ e[k].files = s[k].files
                              /\ e[k].depth = s[k].depth
                              /\ k # i => e[k].deps = s[k].deps,
         \A k \in (1..Len(s)) \ R : e[k].deps \cap R = {},
         NEW t, t = Without(e, R)
  PROVE  t \in Seq(StepType) /\ \E kept : Keeps(s, t, kept, i, R)
<1> DEFINE n == Len(s)
           S == (1..n) \ R
<1>1. n \in Nat /\ \A k \in 1..n : s[k] \in StepType /\ e[k] \in StepType
  BY ListIn
<1>2. PICK kept : Lists(kept, S) /\ Len(kept) <= n /\ Without(e, R) = Take(e, R, kept)
  <2>1. \E kept : /\ Lists(kept, (1..Len(e)) \ R) /\ Len(kept) <= Len(e)
                  /\ Without(e, R) = Take(e, R, kept)
    BY <1>1, WithoutIs
  <2>. QED
    BY <2>1
<1>3. /\ Len(kept) \in Nat /\ \A k \in 1..Len(kept) : kept[k] \in S
      /\ \A a, b \in 1..Len(kept) : kept[a] = kept[b] <=> a = b
  <2>1. S \in SUBSET Nat /\ Lists(kept, S)
    BY <1>1, <1>2
  <2>. HIDE DEF S
  <2>2. /\ Len(kept) \in Nat /\ kept \in Seq(S)
        /\ \A a, b \in 1..Len(kept) : kept[a] = kept[b] <=> a = b
    BY <2>1, ListsApart
  <2>. QED
    BY <2>2
<1> DEFINE deps(k) == {m \in 1..Len(kept) : kept[m] \in e[kept[k]].deps}
<1>4. t = [k \in 1..Len(kept) |-> [e[kept[k]] EXCEPT !.deps = deps(k)]]
  BY <1>2 DEF Take
<1>5. ASSUME NEW k \in 1..Len(kept)
      PROVE  /\ t[k] \in StepType
             /\ t[k].id = s[kept[k]].id /\ t[k].files = s[kept[k]].files
             /\ t[k].depth = s[kept[k]].depth /\ t[k].deps = deps(k)
  <2>1. kept[k] \in 1..n /\ e[kept[k]] \in StepType
    BY <1>1, <1>3
  <2>2. deps(k) \in SUBSET Int
    BY <1>3
  <2>3. t[k] = [e[kept[k]] EXCEPT !.deps = deps(k)]
    BY <1>4
  <2>. HIDE DEF deps
  <2>. QED
    BY <2>1, <2>2, <2>3 DEF StepType
<1>6. Len(t) = Len(kept)
  BY <1>3, <1>4
<1>7. t \in Seq(StepType)
  <2>. HIDE DEF deps
  <2>1. \A k \in 1..Len(kept) : t[k] \in StepType
    BY <1>5
  <2>2. t = [k \in 1..Len(kept) |-> t[k]]
    BY <1>4
  <2>. QED
    BY <1>3, <2>1, <2>2
<1>8. ASSUME NEW k \in 1..Len(kept), kept[k] # i
      PROVE  /\ Valid(t, k) = {m \in 1..Len(kept) : kept[m] \in Valid(s, kept[k])}
             /\ Valid(s, kept[k]) \cap R = {}
  <2>1. kept[k] \in S /\ e[kept[k]].deps = s[kept[k]].deps /\ s[kept[k]].deps \cap R = {}
    BY <1>3, <1>8
  <2>2. ASSUME NEW m \in 1..Len(kept) PROVE m \in Valid(t, k) <=> kept[m] \in Valid(s, kept[k])
    <3>1. m \in Valid(t, k) <=> kept[m] \in s[kept[k]].deps /\ m # k
      BY <1>5, <1>6, <2>1 DEF Valid
    <3>2. kept[m] \in 1..n /\ (kept[m] # kept[k] <=> m # k)
      BY <1>3
    <3>. QED
      BY <3>1, <3>2 DEF Valid
  <2>3. Valid(t, k) \subseteq 1..Len(kept)
    BY <1>6 DEF Valid
  <2>4. Valid(s, kept[k]) \cap R = {}
    BY <2>1 DEF Valid
  <2>. QED
    BY <2>2, <2>3, <2>4
<1>9. Keeps(s, t, kept, i, R)
  BY <1>2, <1>5, <1>6, <1>8 DEF Keeps
<1>. QED
  BY <1>7, <1>9

LEMMA ApproveIs ==
  ASSUME RunInv, NEW i \in Idx \cup {0}, NEW deps, NEW R \in SUBSET Steps,
         Approve(i, deps, R)
  PROVE  /\ steps' \in Seq(StepType)
         /\ \E kept : Keeps(steps, steps', kept, i, R)
<1> DEFINE n == Len(steps)
           edited == IF i = 0 THEN steps ELSE [steps EXCEPT ![i].deps = deps]
<1>1. steps \in Seq(StepType)
  BY DEF RunInv, TypeOK, StepType
<1>2. n \in Nat /\ Steps = 1..n /\ \A k \in 1..n : steps[k] \in StepType
  BY <1>1, ListIn DEF Steps
<1>3. i # 0 => i \in Steps /\ deps \subseteq Steps \ {i}
  BY DEF Approve
<1>4. /\ edited \in Seq(StepType) /\ Len(edited) = n
      /\ \A k \in 1..n : /\ edited[k].id = steps[k].id /\ edited[k].files = steps[k].files
                         /\ edited[k].depth = steps[k].depth
                         /\ k # i => edited[k].deps = steps[k].deps
  <2>1. CASE i = 0
    BY <1>1, <1>2, <2>1
  <2>2. CASE i # 0
    <3>1. deps \in SUBSET Int
      BY <1>2, <1>3, <2>2
    <3>2. edited = [steps EXCEPT ![i] = [steps[i] EXCEPT !.deps = deps]]
      BY <2>2
    <3>3. i \in 1..n /\ [steps[i] EXCEPT !.deps = deps] \in StepType
      BY <1>2, <1>3, <2>2, <3>1 DEF StepType
    <3>. DEFINE new == [steps[i] EXCEPT !.deps = deps]
    <3>4. new.id = steps[i].id /\ new.files = steps[i].files /\ new.depth = steps[i].depth
      BY <1>2, <3>3 DEF StepType
    <3>5. edited = [steps EXCEPT ![i] = new] /\ new \in StepType
      BY <3>2, <3>3
    <3>. HIDE DEF new, edited
    <3>. QED
      BY <1>1, <1>2, <3>3, <3>4, <3>5
  <2>. QED
    BY <2>1, <2>2
<1>5. \A k \in Steps \ R : edited[k].deps \cap R = {}
  BY DEF Approve
<1>6. steps' = IF R = {} THEN edited ELSE Without(edited, R)
  BY DEF Approve
<1>. HIDE DEF edited, n
<1>7. CASE R # {}
  <2>1. steps' = Without(edited, R)
    BY <1>6, <1>7
  <2>. QED
    BY <1>1, <1>2, <1>4, <1>5, <2>1, TakeKeeps DEF n
<1>8. CASE R = {}
  <2> DEFINE kept == [k \in 1..n |-> k]
  <2>1. Lists(kept, 1..n) /\ Len(kept) = n /\ \A k \in 1..n : kept[k] = k
    BY <1>2 DEF Lists
  <2>2. steps' = edited
    BY <1>6, <1>8
  <2>. HIDE DEF kept
  <2>3. ASSUME NEW k \in 1..n, k # i
        PROVE  Valid(edited, k) = {m \in 1..n : kept[m] \in Valid(steps, kept[k])}
    BY <1>4, <2>1, <2>3 DEF Valid, n
  <2>4. Keeps(steps, edited, kept, i, R)
    BY <1>4, <1>8, <2>1, <2>3 DEF Keeps, n
  <2>. QED
    BY <1>4, <2>2, <2>4
<1>. QED
  BY <1>7, <1>8

LEMMA ApproveKeepsRun ==
  ASSUME RunInv, NEW i \in Idx \cup {0}, NEW deps, NEW R \in SUBSET Steps,
         Approve(i, deps, R)
  PROVE  RunInv'
<1>1. PICK kept : Keeps(steps, steps', kept, i, R)
  BY ApproveIs
<1>2. /\ phase = "review" /\ phase' = "approved"
      /\ UNCHANGED <<fanout, rows, known, queue, wave, inbox, status, pc, attempt, outcome,
                     proposed, permits, lock, staged, left, late>>
  BY DEF Approve, waveVars, stepVars, gitVars
<1>3. /\ \A k \in Steps : steps[k].depth = 0
      /\ \A k \in Idx : pc[k] = "idle"
      /\ wave = {} /\ inbox = <<>> /\ queue = <<>> /\ status = "completed"
  BY <1>2 DEF RunInv, Unbegun
<1>4. steps' \in Seq(StepType) /\ Len(steps) \in Nat
  BY ApproveIs, ListIn DEF RunInv, TypeOK, StepType
<1>5. /\ Len(kept) \in Nat /\ \A k \in 1..Len(kept) : kept[k] \in Steps
      /\ \A a, b \in 1..Len(kept) : kept[a] = kept[b] <=> a = b
  <2>1. (1..Len(steps)) \ R \in SUBSET Nat
    BY <1>4
  <2>2. Lists(kept, (1..Len(steps)) \ R)
    BY <1>1 DEF Keeps
  <2>3. /\ Len(kept) \in Nat /\ kept \in Seq((1..Len(steps)) \ R)
        /\ \A a, b \in 1..Len(kept) : kept[a] = kept[b] <=> a = b
    BY <2>1, <2>2, ListsApart
  <2>. QED
    BY <2>3 DEF Steps
<1>6. /\ Len(steps') = Len(kept) /\ Len(kept) <= Len(steps) /\ Steps' = 1..Len(kept)
      /\ \A k \in 1..Len(kept) : /\ steps'[k].id = steps[kept[k]].id
                                 /\ steps'[k].depth = steps[kept[k]].depth
  BY <1>1 DEF Keeps, Steps
<1>7. NewId' = NewId
  BY <1>2 DEF NewId
<1>8. Dynamic = {} /\ Dynamic' = {}
  <2>1. \A k \in 1..Len(kept) : steps'[k].depth = 0
    BY <1>3, <1>5, <1>6
  <2>. QED
    BY <1>3, <1>6, <2>1 DEF Dynamic
<1>9. TypeOK'
  <2>1. Len(steps') <= MaxSteps
    BY <1>4, <1>5, <1>6, BoundAssumption DEF RunInv, TypeOK
  <2>2. queue' \in Seq(SUBSET Steps') /\ wave' \subseteq Steps'
    BY <1>2, <1>3
  <2>. QED
    BY <1>2, <1>4, <2>1, <2>2 DEF RunInv, TypeOK, StepType
<1>10. Named'
  <2>1. \A k \in Steps' : steps'[k].id < NewId'
    BY <1>5, <1>6, <1>7 DEF RunInv, Named
  <2>2. \A j, k \in Steps' : steps'[j].id = steps'[k].id => j = k
    BY <1>5, <1>6 DEF RunInv, Named
  <2>3. /\ NewId - 1 + MaxDynamic <= MaxSteps + Cardinality(Dynamic)
        /\ Len(steps) + MaxDynamic <= MaxSteps + Cardinality(Dynamic)
    BY DEF RunInv, Named
  <2>4. Cardinality(Dynamic) = 0 /\ Cardinality(Dynamic') = 0
    BY <1>8, FS_EmptySet
  <2>5. Len(steps') + MaxDynamic <= MaxSteps + 0
    BY <1>4, <1>5, <1>6, <2>3, <2>4, BoundAssumption
  <2>6. NewId' - 1 + MaxDynamic <= MaxSteps + Cardinality(Dynamic')
    BY <1>7, <2>3, <2>4
  <2>. QED
    BY <2>1, <2>2, <2>4, <2>5, <2>6 DEF Named
<1>11. Unbegun'
  <2>1. \A k \in Steps' : steps'[k].depth = 0
    BY <1>3, <1>5, <1>6
  <2>2. Len(rows') <= OldRows + MaxSteps
    BY <1>2 DEF RunInv, Unbegun
  <2>. QED
    BY <1>2, <1>3, <2>1, <2>2 DEF Unbegun
<1>12. OnTheirWay'
  <2>1. inbox' \in Seq([parent : Ended', step : Offers])
    BY <1>2, <1>3
  <2>. QED
    BY <1>2, <1>3, <2>1 DEF RunInv, OnTheirWay
<1>13. PermitsCount'
  BY <1>2 DEF RunInv, PermitsCount, AtWork
<1>14. Queued' /\ Over' /\ Astray'
  BY <1>2, <1>3 DEF RunInv, Queued, Over, Astray
<1>. QED
  BY <1>2, <1>9, <1>10, <1>11, <1>12, <1>13, <1>14 DEF RunInv

LEMMA BeginKeepsRun ==
  ASSUME RunInv, Begin
  PROVE  RunInv'
<1>1. /\ phase = "approved" /\ phase' = "running" /\ known' = Len(rows)
      /\ queue' = Schedule(steps)
      /\ UNCHANGED <<fanout, steps, rows, wave, inbox, status, pc, attempt, outcome,
                     proposed, permits, lock, staged, left, late>>
  BY DEF Begin, stepVars, gitVars
<1>2. /\ \A i \in Idx : pc[i] = "idle"
      /\ Len(rows) <= OldRows + MaxSteps
      /\ wave = {} /\ inbox = <<>> /\ queue = <<>> /\ status = "completed"
  BY <1>1 DEF RunInv, Unbegun
<1>3. Len(steps) \in Nat /\ Len(rows) \in Nat /\ Len(steps) <= MaxSteps /\ Steps \subseteq Idx
  <2>1. steps \in Seq(StepType) /\ rows \in Seq(RowType) /\ Len(steps) <= MaxSteps
    BY DEF RunInv, TypeOK, StepType, RowType
  <2>2. Len(steps) \in Nat /\ Len(rows) \in Nat
    BY <2>1, ListIn
  <2>. QED
    BY <2>1, <2>2, BoundAssumption DEF Steps, Idx
<1>4. Dispatched = {} /\ Blocked = {}
  <2>1. \A i \in Idx : outcome[i] = "none"
    BY <1>2 DEF RunInv, OnTheirWay
  <2>. QED
    BY <1>3, <2>1 DEF Dispatched, Blocked
<1>5. /\ Steps' = Steps /\ Dispatched' = Dispatched /\ Blocked' = Blocked
      /\ Ended' = Ended /\ NewId' = NewId /\ Dynamic' = Dynamic /\ AtWork' = AtWork
  BY <1>1 DEF Steps, Dispatched, Blocked, Ended, NewId, Dynamic, AtWork
<1>6. Arranges(steps, queue', Steps) /\ (Ordered(steps) => Follows(steps, queue', {}))
  BY <1>1, <1>3, ScheduleArranges DEF Steps
<1>7. TypeOK'
  <2>1. queue' \in Seq(SUBSET Steps')
    BY <1>5, <1>6 DEF Arranges
  <2>2. known' \in 0..(OldRows + MaxSteps)
    BY <1>1, <1>2, <1>3, BoundAssumption
  <2>. QED
    BY <1>1, <1>5, <2>1, <2>2 DEF RunInv, TypeOK
<1>8. Queued'
  <2>1. Steps' \ (Dispatched' \cup wave') = Steps /\ Dispatched' \cup wave' = {}
    BY <1>1, <1>2, <1>4, <1>5
  <2>2. Arranges(steps', queue', Steps' \ (Dispatched' \cup wave'))
    BY <1>1, <1>6, <2>1
  <2>3. Ordered(steps') => Follows(steps', queue', Dispatched' \cup wave')
    BY <1>1, <1>6, <2>1
  <2>. QED
    BY <1>1, <1>2, <1>4, <1>5, <2>2, <2>3 DEF Queued
<1>9. Named' /\ Unbegun' /\ Over' /\ Astray'
  BY <1>1, <1>2, <1>5 DEF RunInv, Named, Unbegun, Over, Astray
<1>10. OnTheirWay' /\ PermitsCount'
  BY <1>1, <1>5 DEF RunInv, OnTheirWay, PermitsCount
<1>. QED
  BY <1>1, <1>7, <1>8, <1>9, <1>10 DEF RunInv

(* Before a wave nothing is on its way.                                    *)
LEMMA NextWaveIs ==
  ASSUME RunInv, NextWave
  PROVE  /\ wave' # {} /\ wave' \subseteq Steps \ Dispatched
         /\ \A i, j \in wave' : i # j => FilesApart(steps, i, j)
         /\ Ordered(steps) => \A i \in wave' : Valid(steps, i) \subseteq Dispatched
         /\ Arranges(steps, queue', Steps \ (Dispatched \cup wave'))
         /\ Ordered(steps) => Follows(steps, queue', Dispatched \cup wave')
<1> DEFINE L == Steps \ Dispatched
           M == Steps \ (Dispatched \cup wave')
           n == Len(queue)
<1>1. /\ phase = "running" /\ wave = {} /\ queue # <<>>
      /\ wave' = Head(queue) /\ queue' = Tail(queue)
  BY DEF NextWave, Free
<1>2. Arranges(steps, queue, L) /\ (Ordered(steps) => Follows(steps, queue, Dispatched))
  <2>1. Dispatched \cup wave = Dispatched
    BY <1>1
  <2>. QED
    BY <1>1, <2>1 DEF RunInv, Queued
<1>3. /\ n \in Nat /\ n > 0 /\ 1 \in 1..n
      /\ \A k \in 1..n : queue[k] \subseteq L
      /\ wave' = queue[1]
      /\ Len(queue') = n - 1
      /\ \A k \in 1..(n - 1) : k + 1 \in 1..n /\ queue'[k] = queue[k + 1]
      /\ queue' \in Seq(SUBSET L)
  <2>1. queue \in Seq(SUBSET L)
    BY <1>2 DEF Arranges
  <2>. HIDE DEF L
  <2>2. /\ n \in Nat /\ n > 0 /\ Head(queue) = queue[1]
        /\ Len(Tail(queue)) = n - 1 /\ Tail(queue) \in Seq(SUBSET L)
        /\ \A k \in 1..(n - 1) : Tail(queue)[k] = queue[k + 1]
    BY <1>1, <2>1, ListHead
  <2>3. \A k \in 1..n : queue[k] \in SUBSET L
    BY <2>1, ListIn
  <2>. QED
    BY <1>1, <2>2, <2>3
<1>4. /\ \A k \in 1..n : queue[k] # {}
      /\ \A i \in L : \E k \in 1..n : i \in queue[k]
      /\ \A k, m \in 1..n : \A i \in L : i \in queue[k] /\ i \in queue[m] => k = m
      /\ \A k \in 1..n : \A i, j \in queue[k] : i # j => FilesApart(steps, i, j)
  BY <1>2 DEF Arranges
<1>. HIDE DEF n
<1>5. \A k \in 1..n : k = 1 \/ (k - 1 \in 1..(n - 1) /\ queue'[k - 1] = queue[k])
  BY <1>3
<1>6. \A k \in 1..(n - 1) : queue'[k] \subseteq M
  <2> TAKE k \in 1..(n - 1)
  <2>1. k + 1 \in 1..n /\ k + 1 # 1 /\ queue'[k] = queue[k + 1]
    BY <1>3
  <2>2. ASSUME NEW i \in queue'[k] PROVE i \notin wave'
    BY <1>3, <1>4, <2>1
  <2>. QED
    BY <1>3, <2>1, <2>2
<1>7. Arranges(steps, queue', M)
  <2>1. queue' \in Seq(SUBSET M)
    <3>1. queue' = [k \in 1..(n - 1) |-> queue'[k]]
      BY <1>3
    <3>. HIDE DEF M
    <3>. QED
      BY <1>3, <1>6, <3>1
  <2>2. \A k \in 1..Len(queue') : queue'[k] # {}
    BY <1>3, <1>4
  <2>3. ASSUME NEW i \in M PROVE \E k \in 1..Len(queue') : i \in queue'[k]
    <3>1. PICK k \in 1..n : i \in queue[k]
      BY <1>4
    <3>2. k # 1
      BY <1>3, <3>1
    <3>. QED
      BY <1>3, <1>5, <3>1, <3>2
  <2>4. ASSUME NEW k \in 1..Len(queue'), NEW m \in 1..Len(queue'), NEW i \in M,
               i \in queue'[k], i \in queue'[m]
        PROVE  k = m
    <3>1. k + 1 = m + 1
      BY <1>3, <1>4, <2>4
    <3>. QED
      BY <1>3, <3>1
  <2>5. \A k \in 1..Len(queue') : \A i, j \in queue'[k] : i # j => FilesApart(steps, i, j)
    BY <1>3, <1>4
  <2>. HIDE DEF M
  <2>. QED
    BY <2>1, <2>2, <2>3, <2>4, <2>5 DEF Arranges
<1>8. ASSUME Ordered(steps)
      PROVE  /\ \A i \in wave' : Valid(steps, i) \subseteq Dispatched
             /\ Follows(steps, queue', Dispatched \cup wave')
  <2>1. \A k \in 1..n : \A i \in queue[k] : \A d \in Valid(steps, i) :
          d \in Dispatched \/ \E m \in 1..(k - 1) : d \in queue[m]
    BY <1>2, <1>8 DEF Follows, n
  <2>2. \A i \in wave' : Valid(steps, i) \subseteq Dispatched
    BY <1>3, <2>1
  <2>3. ASSUME NEW k \in 1..(n - 1), NEW i \in queue'[k], NEW d \in Valid(steps, i)
        PROVE  d \in Dispatched \cup wave' \/ \E m \in 1..(k - 1) : d \in queue'[m]
    <3>1. k + 1 \in 1..n /\ i \in queue[k + 1] /\ (k + 1) - 1 = k
      BY <1>3
    <3>2. CASE d \in Dispatched
      BY <3>2
    <3>3. CASE \E m \in 1..k : d \in queue[m]
      <4>1. PICK m \in 1..k : d \in queue[m]
        BY <3>3
      <4>2. CASE m = 1
        BY <1>3, <4>1, <4>2
      <4>3. CASE m # 1
        <5>1. m - 1 \in 1..(k - 1) /\ m - 1 \in 1..(n - 1) /\ (m - 1) + 1 = m
          BY <1>3, <4>3
        <5>2. queue'[m - 1] = queue[m]
          BY <1>3, <5>1
        <5>. QED
          BY <4>1, <5>1, <5>2
      <4>. QED
        BY <4>2, <4>3
    <3>. QED
      BY <2>1, <3>1, <3>2, <3>3
  <2>. QED
    BY <1>3, <2>2, <2>3 DEF Follows
<1>. QED
  BY <1>3, <1>4, <1>7, <1>8

LEMMA NextWaveKeepsRun ==
  ASSUME RunInv, NextWave
  PROVE  RunInv'
<1>1. /\ phase = "running" /\ wave = {} /\ inbox = <<>>
      /\ pc' = [i \in Idx |-> IF i \in wave' THEN "dispatch" ELSE pc[i]]
      /\ UNCHANGED <<phase, fanout, steps, rows, known, inbox, status, attempt, outcome,
                     proposed, permits, lock, staged, left, late>>
  BY DEF NextWave, Free, planVars, gitVars
<1>2. /\ wave' \subseteq Steps \ Dispatched
      /\ Arranges(steps, queue', Steps \ (Dispatched \cup wave'))
      /\ Ordered(steps) => Follows(steps, queue', Dispatched \cup wave')
  BY NextWaveIs
<1>3. /\ Steps' = Steps /\ Dispatched' = Dispatched /\ Blocked' = Blocked
      /\ NewId' = NewId /\ Dynamic' = Dynamic
  BY <1>1 DEF Steps, Dispatched, Blocked, NewId, Dynamic
<1>4. /\ \A i \in Idx : pc[i] \in {"idle", "done"}
      /\ \A i \in Idx : pc[i] = "done" <=> outcome[i] # "none"
      /\ \A i \in Idx \ Steps : pc[i] = "idle"
      /\ lock # Nobody => pc[lock] = "commit"
  BY <1>1 DEF RunInv, OnTheirWay
<1>5. \A i \in wave' : outcome[i] = "none"
  BY <1>2 DEF Dispatched
<1>6. AtWork' = AtWork
  BY <1>1, <1>4 DEF AtWork
<1>7. Ended' = Ended /\ Steps \subseteq Idx
  <2>1. Steps \subseteq Idx
    <3>1. steps \in Seq(StepType) /\ Len(steps) <= MaxSteps
      BY DEF RunInv, TypeOK, StepType
    <3>2. Len(steps) \in Nat
      BY <3>1, ListIn
    <3>. QED
      BY <3>1, <3>2, BoundAssumption DEF Steps, Idx
  <2>. QED
    BY <1>1, <1>3, <1>4, <1>5, <2>1 DEF Ended
<1>8. TypeOK'
  <2>1. queue' \in Seq(SUBSET Steps')
    <3>1. queue' \in Seq(SUBSET (Steps \ (Dispatched \cup wave')))
      BY <1>2 DEF Arranges
    <3>2. SUBSET (Steps \ (Dispatched \cup wave')) \subseteq SUBSET Steps
      OBVIOUS
    <3>3. queue' \in Seq(SUBSET Steps)
      BY <3>1, <3>2, ListOver
    <3>. QED
      BY <1>3, <3>3
  <2>2. pc' \in [Idx -> Stages]
    BY <1>1 DEF RunInv, TypeOK, Stages
  <2>3. wave' \subseteq Steps'
    BY <1>2, <1>3
  <2>. QED
    BY <1>1, <1>3, <2>1, <2>2, <2>3 DEF RunInv, TypeOK
<1>9. OnTheirWay'
  <2>1. inbox' \in Seq([parent : Ended', step : Offers])
    BY <1>1
  <2>2. lock' # Nobody => pc'[lock'] = "commit"
    <3>1. lock \in Idx \cup {Nobody}
      BY DEF RunInv, TypeOK
    <3>2. lock = Nobody
      BY <1>4, <3>1
    <3>. QED
      BY <1>1, <3>2
  <2>3. \A i \in Idx : pc'[i] = "done" <=> outcome'[i] # "none"
    BY <1>1, <1>4, <1>5
  <2>4. \A i \in Idx \ Steps' : pc'[i] = "idle"
    BY <1>1, <1>2, <1>3, <1>4
  <2>5. \A i \in wave' : pc'[i] # "idle"
    BY <1>1, <1>2, <1>7
  <2>6. \A i \in Idx \ wave' : pc'[i] \in {"idle", "done"}
    BY <1>1, <1>4
  <2>. QED
    BY <1>1, <2>1, <2>2, <2>3, <2>4, <2>5, <2>6 DEF RunInv, OnTheirWay
<1>10. Queued'
  <2>1. status \in {"completed", "blocked"} /\ (status = "blocked" <=> Blocked \ wave # {})
    BY <1>1 DEF RunInv, Queued
  <2>2. Blocked \ wave' = Blocked \ wave
    BY <1>1, <1>5 DEF Blocked
  <2>. QED
    BY <1>1, <1>2, <1>3, <2>1, <2>2 DEF Queued
<1>11. Named' /\ Unbegun' /\ Over' /\ PermitsCount'
  BY <1>1, <1>3, <1>6 DEF RunInv, Named, Unbegun, Over, PermitsCount
<1>12. Astray'
  BY <1>1 DEF RunInv, Astray
<1>. QED
  BY <1>1, <1>8, <1>9, <1>10, <1>11, <1>12 DEF RunInv

LEMMA PlacesAre ==
  ASSUME RunInv
  PROVE  /\ steps \in Seq(StepType) /\ Len(steps) \in Nat /\ Len(steps) <= MaxSteps
         /\ \A i \in Steps : steps[i] \in StepType
         /\ Steps = 1..Len(steps) /\ Steps \subseteq Idx /\ Nobody \notin Idx
<1>1. steps \in Seq(StepType) /\ Len(steps) <= MaxSteps
  BY DEF RunInv, TypeOK, StepType
<1>2. Len(steps) \in Nat /\ \A i \in Steps : steps[i] \in StepType
  BY <1>1, ListIn DEF Steps
<1>. QED
  BY <1>1, <1>2, BoundAssumption DEF Steps, Idx, Nobody

LEMMA EndWaveKeepsRun ==
  ASSUME RunInv, EndWave
  PROVE  RunInv'
<1>1. /\ phase = "running" /\ \A i \in wave : pc[i] = "done"
      /\ wave' = {} /\ proposed' = [i \in Idx |-> <<>>]
      /\ \/ phase' = "returned" /\ status' = "halted" /\ inbox' = inbox
         \/ status' = ResultOf(wave) /\ inbox' = Proposals(wave) /\ phase' = phase
      /\ UNCHANGED <<fanout, steps, rows, known, queue, pc, attempt, outcome, permits,
                     lock, staged, left, late>>
  BY DEF EndWave, At, planVars, gitVars
<1>2. /\ Steps' = Steps /\ Dispatched' = Dispatched /\ Blocked' = Blocked
      /\ NewId' = NewId /\ Dynamic' = Dynamic /\ AtWork' = AtWork /\ Ended' = Ended
  BY <1>1 DEF Steps, Dispatched, Blocked, NewId, Dynamic, AtWork, Ended
<1>3. /\ Len(steps) \in Nat /\ Steps \subseteq Idx /\ wave \subseteq Steps
      /\ wave \subseteq Idx
  BY PlacesAre DEF RunInv, TypeOK
<1>4. wave \subseteq Dispatched /\ wave \subseteq Ended
  BY <1>1, <1>3 DEF RunInv, OnTheirWay, Dispatched, Ended
<1>5. status \in {"completed", "blocked"} /\ (status = "blocked" <=> Blocked \ wave # {})
  BY <1>1 DEF RunInv, Queued
<1>6. ResultOf(wave) \in {"completed", "blocked"} /\ (ResultOf(wave) = "blocked" <=> Blocked # {})
  <2>1. \A i \in wave : outcome[i] = "blocked" <=> i \in Blocked
    BY <1>3 DEF Blocked
  <2>. QED
    BY <1>5, <2>1 DEF ResultOf
<1>7. inbox' \in Seq([parent : Ended', step : Offers])
  <2>1. CASE inbox' = inbox
    BY <1>2, <2>1 DEF RunInv, OnTheirWay
  <2>2. CASE inbox' = Proposals(wave)
    <3> DEFINE S == [parent : Ended, step : Offers]
    <3>1. ASSUME NEW k \in wave PROVE proposed[k] \in Seq(S)
      <4>1. proposed[k] \in Seq([parent : {k}, step : Offers])
        BY <1>3 DEF RunInv, OnTheirWay
      <4>2. [parent : {k}, step : Offers] \subseteq S
        BY <1>4
      <4>. HIDE DEF S
      <4>. QED
        BY <4>1, <4>2, ListOver
    <3>2. Proposals(wave) \in Seq(S)
      <4>. HIDE DEF S
      <4>. QED
        BY <1>3, <3>1, ProposalsIn
    <3>. QED
      BY <1>2, <2>2, <3>2
  <2>. QED
    BY <1>1, <2>1, <2>2
<1>8. TypeOK'
  <2>1. status' \in {"completed", "blocked", "halted"}
    BY <1>1, <1>6
  <2>2. phase' \in {"review", "approved", "running", "returned", "raised"}
    BY <1>1
  <2>. QED
    BY <1>1, <1>2, <2>1, <2>2 DEF RunInv, TypeOK
<1>9. OnTheirWay'
  <2>1. \A i \in Idx : proposed'[i] = <<>>
    BY <1>1
  <2>2. \A i \in Idx : pc[i] \in {"idle", "done"}
    BY <1>1 DEF RunInv, OnTheirWay
  <2>. QED
    BY <1>1, <1>2, <1>7, <2>1, <2>2 DEF RunInv, OnTheirWay
<1>10. Queued'
  <2>1. CASE phase' = "returned"
    BY <2>1 DEF Queued
  <2>2. CASE phase' = phase /\ status' = ResultOf(wave)
    <3>1. Dispatched' \cup wave' = Dispatched \cup wave
      BY <1>1, <1>2, <1>4
    <3>2. Blocked' \ wave' = Blocked
      BY <1>1, <1>2
    <3>3. /\ Arranges(steps, queue, Steps \ (Dispatched \cup wave))
          /\ Ordered(steps) => Follows(steps, queue, Dispatched \cup wave)
      BY <1>1 DEF RunInv, Queued
    <3>. QED
      BY <1>1, <1>2, <1>6, <2>2, <3>1, <3>2, <3>3 DEF Queued
  <2>. QED
    BY <1>1, <2>1, <2>2
<1>11. Named' /\ Unbegun' /\ Over' /\ PermitsCount' /\ Astray'
  BY <1>1, <1>2 DEF RunInv, Named, Unbegun, Over, PermitsCount, Astray
<1>12. proposed' \in [Idx -> Seq([parent : Idx, step : Offers])]
  BY <1>1
<1>. QED
  BY <1>8, <1>9, <1>10, <1>11, <1>12 DEF RunInv

LEMMA ReturnKeepsRun ==
  ASSUME RunInv, Return
  PROVE  RunInv'
<1>1. /\ phase = "running" /\ wave = {} /\ queue = <<>> /\ phase' = "returned"
      /\ UNCHANGED <<fanout, steps, rows, known, queue, wave, inbox, status, pc, attempt,
                     outcome, proposed, permits, lock, staged, left, late>>
  BY DEF Return, Free, planVars, waveVars, stepVars, gitVars
<1>2. /\ Steps' = Steps /\ Dispatched' = Dispatched /\ Blocked' = Blocked
      /\ NewId' = NewId /\ Dynamic' = Dynamic /\ AtWork' = AtWork /\ Ended' = Ended
  BY <1>1 DEF Steps, Dispatched, Blocked, NewId, Dynamic, AtWork, Ended
<1>3. Steps \subseteq Dispatched
  <2>1. Arranges(steps, queue, Steps \ (Dispatched \cup wave))
    BY <1>1 DEF RunInv, Queued
  <2>2. Len(queue) = 0
    BY <1>1
  <2>. QED
    BY <1>1, <2>1, <2>2 DEF Arranges
<1>4. Over'
  <2>1. status \in {"completed", "blocked"} /\ (status = "blocked" <=> Blocked \ wave # {})
    BY <1>1 DEF RunInv, Queued
  <2>. QED
    BY <1>1, <1>2, <1>3, <2>1 DEF Over
<1>5. TypeOK'
  BY <1>1, <1>2 DEF RunInv, TypeOK
<1>6. Named' /\ Unbegun' /\ OnTheirWay' /\ PermitsCount' /\ Queued' /\ Astray'
  BY <1>1, <1>2
     DEF RunInv, Named, Unbegun, OnTheirWay, PermitsCount, Queued, Astray
<1>. QED
  BY <1>1, <1>4, <1>5, <1>6 DEF RunInv

(* A step that joins is new, behind one that has ended.                    *)
LEMMA JoiningIs ==
  ASSUME RunInv, Integrate, steps' # steps
  PROVE  \E parent \in Ended :
           /\ steps' \in Seq(StepType) /\ Len(steps') = Len(steps) + 1
           /\ \A i \in Steps : steps'[i] = steps[i]
           /\ steps'[Len(steps) + 1].id = NewId /\ steps'[Len(steps) + 1].deps = {parent}
           /\ steps'[Len(steps) + 1].depth > 0
           /\ NewId \in Idx /\ Len(steps) + 1 \in Idx /\ Cardinality(Dynamic) < MaxDynamic
           /\ rows' = Append(rows, Row(NewId, "pending"))
           /\ queue' = Remaining(steps')
<1> DEFINE p == Head(inbox)
           new == Step(NewId, p.step.title, p.step.files, {p.parent},
                       steps[p.parent].depth + 1)
<1>1. /\ inbox # <<>> /\ Admissible(p) /\ steps' = Append(steps, new)
      /\ rows' = Append(rows, Row(NewId, "pending")) /\ queue' = Remaining(steps')
  BY DEF Integrate, Joined
<1>2. p \in [parent : Ended, step : Offers]
  <2>1. inbox \in Seq([parent : Ended, step : Offers])
    BY DEF RunInv, OnTheirWay
  <2>. QED
    BY <1>1, <2>1, ListHead
<1>3. p.parent \in Ended /\ p.parent \in Steps /\ p.step \in [title : Int, files : SUBSET Files]
  BY <1>2, PlansAssumption DEF Ended
<1>4. /\ steps[p.parent].depth + 1 \in 0..MaxDepth /\ steps[p.parent].depth + 1 > 0
      /\ Cardinality(Dynamic) < MaxDynamic
  <2>1. steps[p.parent].depth \in 0..MaxDepth
    BY <1>3, PlacesAre DEF StepType
  <2>2. steps[p.parent].depth + 1 <= MaxDepth /\ Cardinality(Dynamic) < MaxDynamic
    BY <1>1 DEF Admissible
  <2>. QED
    BY <2>1, <2>2, BoundAssumption
<1>5. NewId \in Idx /\ Len(steps) + 1 \in Idx
  <2>1. IsFiniteSet(Numbered) /\ IsFiniteSet(Dynamic)
    <3>1. Len(rows) \in Nat /\ DOMAIN rows = 1..Len(rows)
      BY ListIn DEF RunInv, TypeOK
    <3>2. IsFiniteSet(1..Len(rows)) /\ IsFiniteSet(1..Len(steps))
      BY <3>1, PlacesAre, IntervalSize
    <3>3. Numbered \subseteq 1..Len(rows) /\ Dynamic \subseteq 1..Len(steps)
      BY <3>1 DEF Numbered, Dynamic, Steps
    <3>. QED
      BY <3>2, <3>3, FS_Subset
  <2>2. Cardinality(Numbered) \in Nat /\ Cardinality(Dynamic) \in Nat
    BY <2>1, FS_CardinalityType
  <2>3. NewId = 1 + Cardinality(Numbered)
    BY NewIdIs
  <2>4. /\ NewId - 1 + MaxDynamic <= MaxSteps + Cardinality(Dynamic)
        /\ Len(steps) + MaxDynamic <= MaxSteps + Cardinality(Dynamic)
    BY DEF RunInv, Named
  <2>5. Len(steps) \in Nat
    BY PlacesAre
  <2>6. MaxDynamic \in Nat /\ MaxSteps \in Nat
    BY BoundAssumption
  <2>. QED
    BY <1>4, <2>2, <2>3, <2>4, <2>5, <2>6 DEF Idx
<1>6. /\ new \in StepType /\ new.id = NewId /\ new.deps = {p.parent} /\ new.depth > 0
  <2>1. p.parent \in Int
    BY <1>3, PlacesAre
  <2>. QED
    BY <1>3, <1>4, <1>5, <2>1 DEF Step, StepType
<1>7. /\ steps' \in Seq(StepType) /\ Len(steps') = Len(steps) + 1
      /\ \A i \in Steps : steps'[i] = steps[i]
      /\ steps'[Len(steps) + 1] = new
  <2>1. steps \in Seq(StepType)
    BY PlacesAre
  <2>. HIDE DEF new
  <2>. QED
    BY <1>1, <1>6, <2>1, ListGrows DEF Steps
<1>. QED
  BY <1>1, <1>3, <1>4, <1>5, <1>6, <1>7

LEMMA IntegrateKeepsRun ==
  ASSUME RunInv, Integrate
  PROVE  RunInv'
<1>1. /\ phase = "running" /\ wave = {} /\ inbox # <<>> /\ inbox' = Tail(inbox)
      /\ UNCHANGED <<phase, fanout, known, wave, status, pc, attempt, outcome, proposed,
                     permits, lock, staged, left, late>>
      /\ UNCHANGED <<steps, rows, queue>> \/ rows' = Append(rows, Row(NewId, "pending"))
  BY DEF Integrate, stepVars, gitVars
<1>2. inbox' \in Seq([parent : Ended, step : Offers])
  <2>1. inbox \in Seq([parent : Ended, step : Offers])
    BY DEF RunInv, OnTheirWay
  <2>. QED
    BY <1>1, <2>1, ListHead
<1>3. CASE UNCHANGED <<steps, rows, queue>>
  <2>1. /\ Steps' = Steps /\ Dispatched' = Dispatched /\ Blocked' = Blocked
        /\ NewId' = NewId /\ Dynamic' = Dynamic /\ AtWork' = AtWork /\ Ended' = Ended
    BY <1>1, <1>3 DEF Steps, Dispatched, Blocked, NewId, Dynamic, AtWork, Ended
  <2>2. TypeOK'
    BY <1>1, <1>3, <2>1 DEF RunInv, TypeOK
  <2>3. Named' /\ Unbegun' /\ OnTheirWay' /\ PermitsCount'
    BY <1>1, <1>2, <1>3, <2>1
       DEF RunInv, Named, Unbegun, OnTheirWay, PermitsCount
  <2>4. Queued' /\ Over' /\ Astray'
    BY <1>1, <1>3, <2>1 DEF RunInv, Queued, Over, Astray
  <2>. QED
    BY <1>1, <2>2, <2>3, <2>4 DEF RunInv
<1>4. CASE steps' # steps
  <2> DEFINE n == Len(steps)
  <2>1. PICK parent \in Ended :
          /\ steps' \in Seq(StepType) /\ Len(steps') = Len(steps) + 1
          /\ \A i \in Steps : steps'[i] = steps[i]
          /\ steps'[Len(steps) + 1].id = NewId /\ steps'[Len(steps) + 1].deps = {parent}
          /\ steps'[Len(steps) + 1].depth > 0
          /\ NewId \in Idx /\ Len(steps) + 1 \in Idx /\ Cardinality(Dynamic) < MaxDynamic
          /\ rows' = Append(rows, Row(NewId, "pending"))
          /\ queue' = Remaining(steps')
    BY <1>4, JoiningIs
  <2>2. /\ n \in Nat /\ Steps = 1..n /\ Steps' = 1..(n + 1) /\ Steps \subseteq Idx
        /\ n <= MaxSteps /\ MaxSteps \in Nat
        /\ Steps' \subseteq Idx /\ Steps' = Steps \cup {n + 1} /\ n + 1 \notin Steps
        /\ parent \in Steps
    <3>1. n \in Nat /\ n <= MaxSteps /\ Steps \subseteq Idx /\ Steps = 1..n
      BY PlacesAre
    <3>2. Steps' = 1..(n + 1)
      BY <2>1 DEF Steps
    <3>3. MaxSteps \in Nat
      BY BoundAssumption
    <3>4. 1..(n + 1) = 1..n \cup {n + 1} /\ n + 1 \notin 1..n
      BY <3>1
    <3>. QED
      BY <2>1, <3>1, <3>2, <3>3, <3>4 DEF Ended
  <2>3. pc[n + 1] = "idle" /\ outcome[n + 1] = "none"
    BY <2>1, <2>2 DEF RunInv, OnTheirWay
  <2>4. Dispatched' = Dispatched /\ Blocked' = Blocked /\ AtWork' = AtWork /\ Ended' = Ended
    <3>1. \A i \in Steps' : i \in Steps \/ i = n + 1
      BY <2>2
    <3>2. Dispatched' = {i \in Steps' : outcome[i] # "none"}
      BY <1>1 DEF Dispatched
    <3>3. Blocked' = {i \in Steps' : outcome[i] = "blocked"}
      BY <1>1 DEF Blocked
    <3>4. Ended' = {i \in Steps' : pc[i] = "done"}
      BY <1>1 DEF Ended
    <3>. QED
      BY <1>1, <2>2, <2>3, <3>1, <3>2, <3>3, <3>4
         DEF Dispatched, Blocked, AtWork, Ended
  <2>5. /\ rows' \in Seq(RowType) /\ rows \in Seq(RowType) /\ Len(rows) \in Nat
        /\ Len(rows') = Len(rows) + 1
        /\ \A r \in 1..Len(rows) : rows'[r] = rows[r]
        /\ rows'[Len(rows) + 1].id = NewId
    <3>1. rows \in Seq(RowType) /\ Row(NewId, "pending") \in RowType
          /\ Row(NewId, "pending").id = NewId
      BY <2>1 DEF RunInv, TypeOK, RowType, Row
    <3>2. rows' = Append(rows, Row(NewId, "pending"))
      BY <2>1
    <3>. HIDE DEF n
    <3>. QED
      BY <3>1, <3>2, ListIn, ListGrows
  <2>6. NewId' = NewId + 1 /\ NewId \in Nat
    <3>1. /\ Numbered' = Numbered \cup {Len(rows) + 1} /\ Len(rows) + 1 \notin Numbered
          /\ Numbered \subseteq 1..Len(rows)
      <4>1. DOMAIN rows = 1..Len(rows) /\ DOMAIN rows' = 1..(Len(rows) + 1)
        BY <2>5
      <4>2. NewId # Nobody
        BY <2>1, PlacesAre
      <4>3. \A r \in 1..(Len(rows) + 1) : r \in 1..Len(rows) \/ r = Len(rows) + 1
        BY <2>5
      <4>4. \A r \in 1..Len(rows) : r \in 1..(Len(rows) + 1) /\ r # Len(rows) + 1
        BY <2>5
      <4>5. Len(rows) + 1 \in 1..(Len(rows) + 1)
        BY <2>5
      <4>. QED
        BY <2>5, <4>1, <4>2, <4>3, <4>4, <4>5 DEF Numbered
    <3>2. IsFiniteSet(Numbered)
      BY <2>5, <3>1, IntervalSize, FS_Subset
    <3>3. Cardinality(Numbered') = Cardinality(Numbered) + 1 /\ Cardinality(Numbered) \in Nat
      BY <3>1, <3>2, FS_AddElement, FS_CardinalityType
    <3>4. NewId = 1 + Cardinality(Numbered) /\ NewId' = 1 + Cardinality(Numbered')
      BY DEF NewId, Numbered
    <3>. QED
      BY <3>3, <3>4
  <2>7. Cardinality(Dynamic') = Cardinality(Dynamic) + 1 /\ Cardinality(Dynamic) \in Nat
    <3>1. Dynamic' = Dynamic \cup {n + 1} /\ n + 1 \notin Dynamic /\ Dynamic \subseteq 1..n
      BY <2>1, <2>2 DEF Dynamic
    <3>2. IsFiniteSet(Dynamic)
      BY <2>2, <3>1, IntervalSize, FS_Subset
    <3>. QED
      BY <3>1, <3>2, FS_AddElement, FS_CardinalityType
  <2>8. Named'
    <3>1. \A i \in Steps : steps[i].id < NewId /\ steps[i].id \in Nat
      <4>1. \A i \in Steps : steps[i].id < NewId
        BY DEF RunInv, Named
      <4>2. \A i \in Steps : steps[i].id \in Idx
        BY PlacesAre DEF StepType
      <4>3. \A x \in Idx : x \in Nat
        BY DEF Idx
      <4>. QED
        BY <4>1, <4>2, <4>3
    <3>2. \A i \in Steps' : steps'[i].id < NewId'
      BY <2>1, <2>2, <2>6, <3>1
    <3>3. \A i, j \in Steps' : steps'[i].id = steps'[j].id => i = j
      <4>1. \A i \in Steps : steps'[i].id < NewId /\ steps'[i].id \in Nat
        BY <2>1, <3>1
      <4>2. \A i, j \in Steps : steps'[i].id = steps'[j].id => i = j
        BY <2>1 DEF RunInv, Named
      <4>3. \A i \in Steps : steps'[i].id # NewId
        BY <2>6, <4>1
      <4>. QED
        BY <2>1, <2>2, <4>2, <4>3
    <3>4. /\ NewId - 1 + MaxDynamic <= MaxSteps + Cardinality(Dynamic)
          /\ n + MaxDynamic <= MaxSteps + Cardinality(Dynamic)
      BY DEF RunInv, Named
    <3>5. MaxDynamic \in Nat
      BY BoundAssumption
    <3>6. /\ NewId' - 1 + MaxDynamic <= MaxSteps + Cardinality(Dynamic')
          /\ Len(steps') + MaxDynamic <= MaxSteps + Cardinality(Dynamic')
      BY <2>1, <2>2, <2>6, <2>7, <3>4, <3>5, SMTT(30)
    <3>. QED
      BY <3>2, <3>3, <3>6 DEF Named
  <2>9. Arranges(steps', queue', Steps' \ Dispatched)
        /\ (Ordered(steps') => Follows(steps', queue', Dispatched))
    <3>1. Len(steps') \in Nat /\ Steps' = 1..Len(steps')
      BY <2>1, <2>2
    <3>. QED
      BY <2>1, <3>1, RemainingArranges
  <2>10. Queued'
    <3>1. Dispatched' \cup wave' = Dispatched
      BY <1>1, <2>4
    <3>2. status \in {"completed", "blocked"} /\ (status = "blocked" <=> Blocked \ wave # {})
      BY <1>1 DEF RunInv, Queued
    <3>. QED
      BY <1>1, <2>4, <2>9, <3>1, <3>2 DEF Queued
  <2>11. TypeOK'
    <3>1. queue' \in Seq(SUBSET Steps')
      <4>1. queue' \in Seq(SUBSET (Steps' \ Dispatched))
        BY <2>9 DEF Arranges
      <4>2. SUBSET (Steps' \ Dispatched) \subseteq SUBSET (Steps')
        OBVIOUS
      <4>. QED
        BY <4>1, <4>2, ListOver
    <3>2. Len(steps') <= MaxSteps
      BY <2>1, <2>2 DEF Idx
    <3>. QED
      BY <1>1, <2>1, <2>5, <3>1, <3>2 DEF RunInv, TypeOK, StepType, RowType
  <2>12. OnTheirWay'
    <3>1. \A i \in Idx \ Steps' : pc'[i] = "idle"
      BY <1>1, <2>2 DEF RunInv, OnTheirWay
    <3>2. inbox' \in Seq([parent : Ended', step : Offers])
      BY <1>2, <2>4
    <3>. QED
      BY <1>1, <3>1, <3>2 DEF RunInv, OnTheirWay
  <2>13. Unbegun' /\ Over' /\ PermitsCount' /\ Astray'
    BY <1>1, <2>4 DEF RunInv, Unbegun, Over, PermitsCount, Astray
  <2>. QED
    BY <1>1, <2>8, <2>10, <2>11, <2>12, <2>13 DEF RunInv
<1>5. steps' # steps \/ UNCHANGED <<steps, rows, queue>>
  <2>1. ASSUME steps' = Joined(Head(inbox)) PROVE steps' # steps
    <3>1. Len(steps') = Len(steps) + 1
      BY <2>1, PlacesAre DEF Joined
    <3>. QED
      BY <3>1, PlacesAre
  <2>. QED
    BY <2>1 DEF Integrate
<1>. QED
  BY <1>3, <1>4, <1>5

(* A step that is on its way is one of the wave of a run, or of one that   *)
(* has raised.                                                             *)
LEMMA BusyIs ==
  ASSUME RunInv, NEW i \in Idx, pc[i] \notin {"idle", "done"}
  PROVE  /\ phase \in {"running", "raised"} /\ i \in wave /\ i \in Steps
         /\ outcome[i] = "none"
<1>1. i \in wave /\ outcome[i] = "none"
  BY DEF RunInv, OnTheirWay
<1>2. i \in Steps
  BY <1>1 DEF RunInv, TypeOK
<1>. QED
  BY <1>1, <1>2 DEF RunInv, TypeOK, Unbegun, Over

LEMMA AtWorkIs == AtWork \subseteq Idx /\ IsFiniteSet(AtWork) /\ Cardinality(AtWork) \in Nat
<1>1. AtWork \subseteq Idx
  BY DEF AtWork
<1>2. IsFiniteSet(Idx)
  BY BoundAssumption, IntervalSize DEF Idx
<1>. QED
  BY <1>1, <1>2, FS_Subset, FS_CardinalityType

(* Step i goes from one stage to another on its way.                       *)
LEMMA MoveKeepsRun ==
  ASSUME RunInv, NEW i \in Idx, NEW stage \in Stages \ {"idle", "done"},
         pc[i] \notin {"idle", "done"}, pc' = [pc EXCEPT ![i] = stage],
         UNCHANGED <<fanout, planVars, waveVars, outcome, proposed>>,
         attempt' \in [Idx -> 0..MaxRetries], lock' \in Idx \cup {Nobody},
         staged' \subseteq Idx, left' \subseteq Idx, late' \subseteq Idx,
         permits' \in 0..SubtaskCap, PermitsCount',
         phase' \in {phase, "raised"},
         stage \in {"raised", "gone"} \/ late' # late => phase' = "raised",
         lock' # Nobody => pc'[lock'] = "commit"
  PROVE  RunInv'
<1>1. UNCHANGED <<fanout, steps, rows, known, queue, wave, inbox, status, outcome,
                  proposed>>
  BY DEF planVars, waveVars
<1>2. pc \in [Idx -> Stages]
  BY DEF RunInv, TypeOK
<1>3. pc' \in [Idx -> Stages] /\ \A j \in Idx : j # i => pc'[j] = pc[j]
  BY <1>2
<1>4. phase \in {"running", "raised"} /\ i \in wave /\ i \in Steps /\ outcome[i] = "none"
  BY BusyIs
<1>5. pc'[i] \notin {"idle", "done"}
  BY <1>2
<1>6. /\ Steps' = Steps /\ Dispatched' = Dispatched /\ Blocked' = Blocked
      /\ NewId' = NewId /\ Dynamic' = Dynamic
  BY <1>1 DEF Steps, Dispatched, Blocked, NewId, Dynamic
<1>7. Ended' = Ended
  <2>1. Steps \subseteq Idx
    BY PlacesAre
  <2>2. \A j \in Idx : pc'[j] = "done" <=> pc[j] = "done"
    BY <1>3, <1>5
  <2>. QED
    BY <1>6, <2>1, <2>2 DEF Ended
<1>8. TypeOK'
  BY <1>1, <1>3, <1>6 DEF RunInv, TypeOK
<1>9. OnTheirWay'
  <2>1. \A j \in wave : pc'[j] # "idle"
    <3>1. wave \subseteq Idx
      BY PlacesAre DEF RunInv, TypeOK
    <3>. QED
      BY <1>3, <1>5, <3>1 DEF RunInv, OnTheirWay
  <2>2. \A j \in Idx \ wave : pc'[j] \in {"idle", "done"}
    BY <1>3, <1>4 DEF RunInv, OnTheirWay
  <2>3. \A j \in Idx : pc'[j] = "done" <=> outcome'[j] # "none"
    BY <1>1, <1>3, <1>4, <1>5 DEF RunInv, OnTheirWay
  <2>4. \A j \in Idx \ Steps : pc'[j] = "idle"
    BY <1>3, <1>4 DEF RunInv, OnTheirWay
  <2>5. inbox' \in Seq([parent : Ended', step : Offers])
    BY <1>1, <1>7 DEF RunInv, OnTheirWay
  <2>6. \A j \in Idx : proposed'[j] \in Seq([parent : {j}, step : Offers])
    BY <1>1 DEF RunInv, OnTheirWay
  <2>. QED
    BY <1>1, <1>6, <2>1, <2>2, <2>3, <2>4, <2>5, <2>6 DEF OnTheirWay
<1>10. Queued'
  BY <1>1, <1>6 DEF RunInv, Queued
<1>11. Astray'
  BY <1>2, <1>3 DEF RunInv, Astray
<1>12. Named' /\ Unbegun' /\ Over'
  BY <1>1, <1>4, <1>6 DEF RunInv, Named, Unbegun, Over
<1>. QED
  BY <1>1, <1>8, <1>9, <1>10, <1>12, <1>11 DEF RunInv

(* Step i ends with an outcome.                                            *)
LEMMA EndKeepsRun ==
  ASSUME RunInv, NEW i \in Idx, NEW o \in {"completed", "blocked"},
         pc[i] \notin {"idle", "done"}, lock # i, pc' = [pc EXCEPT ![i] = "done"],
         outcome' = [outcome EXCEPT ![i] = o],
         UNCHANGED <<phase, fanout, steps, known, waveVars, proposed, gitVars>>,
         rows' = rows \/ rows' = [rows EXCEPT ![i].status = o],
         attempt' \in [Idx -> 0..MaxRetries],
         permits' \in 0..SubtaskCap, PermitsCount'
  PROVE  RunInv'
<1>1. UNCHANGED <<phase, fanout, steps, known, queue, wave, inbox, status, proposed,
                  lock, staged, left, late>>
  BY DEF waveVars, gitVars
<1>2. /\ pc \in [Idx -> Stages] /\ outcome \in [Idx -> {"none", "completed", "blocked"}]
      /\ rows \in Seq(RowType)
  BY DEF RunInv, TypeOK, RowType
<1>3. /\ pc' \in [Idx -> Stages] /\ pc'[i] = "done" /\ \A j \in Idx : j # i => pc'[j] = pc[j]
      /\ outcome' \in [Idx -> {"none", "completed", "blocked"}] /\ outcome'[i] = o
      /\ \A j \in Idx : j # i => outcome'[j] = outcome[j]
  BY <1>2 DEF Stages
<1>4. phase \in {"running", "raised"} /\ i \in wave /\ i \in Steps /\ outcome[i] = "none"
  BY BusyIs
<1>5. Steps' = Steps /\ Dynamic' = Dynamic /\ Steps \subseteq Idx
  BY <1>1, PlacesAre DEF Steps, Dynamic
<1>6. Dispatched' = Dispatched \cup {i}
  BY <1>3, <1>4, <1>5 DEF Dispatched
<1>7. Blocked' \ wave = Blocked \ wave
  BY <1>3, <1>4, <1>5 DEF Blocked
<1>8. Ended \subseteq Ended'
  BY <1>3, <1>5 DEF Ended
<1>9. rows' \in Seq(RowType) /\ NewId' = NewId
  <2>1. CASE rows' = rows
    BY <1>2, <2>1 DEF NewId
  <2>2. CASE rows' # rows
    <3>1. rows' = [rows EXCEPT ![i].status = o]
      BY <2>2
    <3>2. Len(rows) \in Nat /\ DOMAIN rows = 1..Len(rows)
      BY <1>2, ListIn
    <3>3. DOMAIN rows' = DOMAIN rows
      BY <3>1
    <3>4. i \in DOMAIN rows
      <4>1. i \notin DOMAIN rows => rows' = rows
        BY <1>2, <3>1
      <4>. QED
        BY <2>2, <4>1
    <3>. DEFINE new == [rows[i] EXCEPT !.status = o]
    <3>5. rows[i] \in RowType
      BY <1>2, <3>2, <3>4, ListIn
    <3>6. new \in RowType /\ new.id = rows[i].id
      BY <3>5 DEF RowType
    <3>7. rows' = [rows EXCEPT ![i] = new]
      BY <3>1, <3>4
    <3>. HIDE DEF new
    <3>8. rows' \in Seq(RowType) /\ \A r \in DOMAIN rows : rows'[r].id = rows[r].id
      BY <1>2, <3>2, <3>4, <3>6, <3>7
    <3>. QED
      BY <3>3, <3>8 DEF NewId
  <2>. QED
    BY <2>1, <2>2
<1>10. TypeOK'
  BY <1>1, <1>3, <1>5, <1>9 DEF RunInv, TypeOK, RowType
<1>11. OnTheirWay'
  <2>1. \A j \in wave : pc'[j] # "idle"
    <3>1. wave \subseteq Idx
      BY PlacesAre DEF RunInv, TypeOK
    <3>. QED
      BY <1>3, <3>1 DEF RunInv, OnTheirWay
  <2>2. \A j \in Idx \ wave : pc'[j] \in {"idle", "done"}
    BY <1>3, <1>4 DEF RunInv, OnTheirWay
  <2>3. \A j \in Idx : pc'[j] = "done" <=> outcome'[j] # "none"
    BY <1>3 DEF RunInv, OnTheirWay
  <2>4. \A j \in Idx \ Steps : pc'[j] = "idle"
    BY <1>3, <1>4 DEF RunInv, OnTheirWay
  <2>5. inbox' \in Seq([parent : Ended', step : Offers])
    <3>1. inbox \in Seq([parent : Ended, step : Offers])
      BY DEF RunInv, OnTheirWay
    <3> DEFINE earlier == [parent : Ended, step : Offers]
               later == [parent : Ended', step : Offers]
    <3>2. earlier \subseteq later
      BY <1>8
    <3>3. inbox \in Seq(earlier) /\ inbox' = inbox
      BY <1>1, <3>1
    <3>. HIDE DEF earlier, later
    <3>4. inbox' \in Seq(later)
      BY <3>2, <3>3, ListOver
    <3>. QED
      BY <3>4 DEF later
  <2>6. \A j \in Idx : proposed'[j] \in Seq([parent : {j}, step : Offers])
    BY <1>1 DEF RunInv, OnTheirWay
  <2>7. lock' # Nobody => pc'[lock'] = "commit"
    <3>1. lock \in Idx \cup {Nobody} /\ (lock # Nobody => pc[lock] = "commit")
      BY DEF RunInv, TypeOK, OnTheirWay
    <3>. QED
      BY <1>1, <1>3, <3>1
  <2>. QED
    BY <1>1, <1>5, <2>1, <2>2, <2>3, <2>4, <2>5, <2>6, <2>7 DEF OnTheirWay
<1>12. Queued'
  <2>1. Dispatched' \cup wave' = Dispatched \cup wave
    BY <1>1, <1>4, <1>6
  <2>. QED
    BY <1>1, <1>5, <1>7, <2>1 DEF RunInv, Queued
<1>13. Named'
  BY <1>1, <1>5, <1>9 DEF RunInv, Named
<1>14. Unbegun' /\ Over' /\ Astray'
  BY <1>1, <1>3, <1>4 DEF RunInv, Unbegun, Over, Astray
<1>. QED
  BY <1>1, <1>10, <1>11, <1>12, <1>13, <1>14 DEF RunInv

(* The permits of the steps at work, when step i goes on.                  *)
LEMMA PermitsKept ==
  ASSUME RunInv, NEW i \in Idx, NEW stage \in Stages \ {"idle", "dispatch", "done", "gone"},
         i \in AtWork, pc' = [pc EXCEPT ![i] = stage], permits' = permits
  PROVE  permits' \in 0..SubtaskCap /\ PermitsCount'
<1>1. pc \in [Idx -> Stages] /\ permits \in 0..SubtaskCap
  BY DEF RunInv, TypeOK
<1>2. AtWork' = AtWork
  BY <1>1 DEF AtWork
<1>. QED
  BY <1>1, <1>2 DEF RunInv, PermitsCount

LEMMA PermitTaken ==
  ASSUME RunInv, NEW i \in Idx, pc[i] = "dispatch", permits > 0,
         pc' = [pc EXCEPT ![i] = "dev"], permits' = permits - 1
  PROVE  permits' \in 0..SubtaskCap /\ PermitsCount'
<1>1. pc \in [Idx -> Stages] /\ permits \in 0..SubtaskCap
  BY DEF RunInv, TypeOK
<1>2. AtWork' = AtWork \cup {i} /\ i \notin AtWork
  BY <1>1 DEF AtWork
<1>3. Cardinality(AtWork') = Cardinality(AtWork) + 1 /\ Cardinality(AtWork) \in Nat
  BY <1>2, AtWorkIs, FS_AddElement
<1>. QED
  BY <1>1, <1>3, BoundAssumption DEF RunInv, PermitsCount

LEMMA PermitReturned ==
  ASSUME RunInv, NEW i \in Idx, i \in AtWork, NEW stage \in {"done", "gone"},
         pc' = [pc EXCEPT ![i] = stage], permits' = permits + 1
  PROVE  permits' \in 0..SubtaskCap /\ PermitsCount'
<1>1. pc \in [Idx -> Stages] /\ permits \in 0..SubtaskCap
  BY DEF RunInv, TypeOK
<1>2. AtWork' = AtWork \ {i}
  BY <1>1 DEF AtWork
<1>3. /\ Cardinality(AtWork') = Cardinality(AtWork) - 1 /\ Cardinality(AtWork) \in Nat
      /\ Cardinality(AtWork') \in Nat
  <2>1. Cardinality(AtWork \ {i}) = Cardinality(AtWork) - 1
    BY AtWorkIs, FS_RemoveElement
  <2>2. IsFiniteSet(AtWork \ {i})
    BY AtWorkIs, FS_RemoveElement
  <2>. QED
    BY <1>2, <2>1, <2>2, AtWorkIs, FS_CardinalityType
<1>4. permits + Cardinality(AtWork) = SubtaskCap /\ SubtaskCap \in Nat
  BY BoundAssumption DEF RunInv, PermitsCount
<1>5. permits' + Cardinality(AtWork') = SubtaskCap /\ permits' \in 0..SubtaskCap
  BY <1>1, <1>3, <1>4
<1>. QED
  BY <1>5 DEF PermitsCount

LEMMA SettleKeepsRun ==
  ASSUME RunInv, NEW i \in Idx, NEW o \in {"completed", "blocked"},
         i \in AtWork, pc[i] \notin {"commit", "raised"}, Settle(i, o),
         UNCHANGED <<phase, fanout, steps, known, waveVars, proposed, gitVars>>
  PROVE  RunInv'
<1>1. /\ pc' = [pc EXCEPT ![i] = "done"] /\ outcome' = [outcome EXCEPT ![i] = o]
      /\ permits' = permits + 1 /\ attempt' = [attempt EXCEPT ![i] = 0]
      /\ rows' = rows \/ rows' = [rows EXCEPT ![i].status = o]
  BY DEF Settle, GoTo
<1>2. pc[i] \notin {"idle", "done"}
  BY DEF AtWork
<1>3. attempt' \in [Idx -> 0..MaxRetries]
  <2>1. attempt \in [Idx -> 0..MaxRetries] /\ 0 \in 0..MaxRetries
    BY BoundAssumption DEF RunInv, TypeOK
  <2>. QED
    BY <1>1, <2>1
<1>4. lock # i
  BY PlacesAre DEF RunInv, OnTheirWay
<1>5. permits' \in 0..SubtaskCap /\ PermitsCount'
  BY <1>1, PermitReturned
<1>. QED
  BY <1>1, <1>2, <1>3, <1>4, <1>5, EndKeepsRun

(* Step i passes to a stage at which it does not commit.                   *)
LEMMA StageKeepsRun ==
  ASSUME RunInv, NEW i \in Idx, NEW stage \in {"dev", "add", "qa", "review", "gates", "raised"},
         i \in AtWork, lock' # i, pc' = [pc EXCEPT ![i] = stage],
         UNCHANGED <<fanout, planVars, waveVars, outcome, proposed, permits>>,
         attempt' \in [Idx -> 0..MaxRetries],
         lock' = lock \/ lock' = Nobody, staged' \subseteq Idx, left' \subseteq Idx,
         late' \subseteq Idx, phase' \in {phase, "raised"},
         stage = "raised" \/ late' # late => phase' = "raised"
  PROVE  RunInv'
<1>1. pc \in [Idx -> Stages] /\ lock \in Idx \cup {Nobody}
  BY DEF RunInv, TypeOK
<1>2. lock' # Nobody => pc'[lock'] = "commit"
  BY <1>1 DEF RunInv, OnTheirWay
<1>3. stage \in Stages \ {"idle", "dispatch", "done", "gone"} /\ pc[i] \notin {"idle", "done"}
  BY DEF Stages, AtWork
<1>4. permits' \in 0..SubtaskCap /\ PermitsCount'
  BY <1>3, PermitsKept
<1>5. lock' \in Idx \cup {Nobody}
  BY <1>1
<1>. QED
  BY <1>2, <1>3, <1>4, <1>5, MoveKeepsRun

LEMMA FailKeepsRun ==
  ASSUME RunInv, NEW i \in Idx, Fail(i)
  PROVE  RunInv'
<1>1. /\ i \in AtWork /\ pc[i] \notin {"commit", "raised"} /\ Retry(i)
      /\ UNCHANGED <<phase, fanout, steps, known, waveVars, proposed, gitVars>>
  BY DEF Fail, AtWork
<1>2. CASE attempt[i] < MaxRetries
  <2>1. /\ pc' = [pc EXCEPT ![i] = "dev"] /\ attempt' = [attempt EXCEPT ![i] = @ + 1]
        /\ UNCHANGED <<outcome, permits, rows>>
    BY <1>1, <1>2 DEF Retry, GoTo
  <2>2. attempt' \in [Idx -> 0..MaxRetries]
    <3>1. attempt \in [Idx -> 0..MaxRetries] /\ MaxRetries \in Nat
      BY BoundAssumption DEF RunInv, TypeOK
    <3>2. attempt[i] + 1 \in 0..MaxRetries
      BY <1>2, <3>1
    <3>. QED
      BY <2>1, <3>1, <3>2
  <2>3. lock' # i /\ UNCHANGED <<planVars, lock, staged, left, late>>
    BY <1>1, <2>1, PlacesAre DEF RunInv, OnTheirWay, gitVars, planVars
  <2>4. staged' \subseteq Idx /\ left' \subseteq Idx /\ late' \subseteq Idx
    BY <2>3 DEF RunInv, TypeOK
  <2>. QED
    BY <1>1, <2>1, <2>2, <2>3, <2>4, StageKeepsRun
<1>3. CASE ~ (attempt[i] < MaxRetries)
  BY <1>1, <1>3, SettleKeepsRun DEF Retry
<1>. QED
  BY <1>2, <1>3

LEMMA PassKeepsRun ==
  ASSUME RunInv, NEW i \in Idx, NEW here, here \in Stages \ {"idle", "dispatch", "done", "gone", "commit"},
         NEW stage \in {"dev", "add", "qa", "review", "gates"}, Pass(i, here, stage)
  PROVE  RunInv'
<1>1. /\ i \in AtWork /\ pc[i] # "commit" /\ pc' = [pc EXCEPT ![i] = stage]
      /\ UNCHANGED <<phase, fanout, planVars, waveVars, attempt, outcome, proposed, permits,
                     gitVars>>
  BY DEF Pass, At, GoTo, AtWork
<1>2. /\ UNCHANGED <<lock, staged, left, late>> /\ lock' # i
  BY <1>1, PlacesAre DEF RunInv, OnTheirWay, gitVars
<1>3. /\ attempt' \in [Idx -> 0..MaxRetries] /\ staged' \subseteq Idx /\ left' \subseteq Idx
      /\ late' \subseteq Idx
  BY <1>1, <1>2 DEF RunInv, TypeOK
<1>. QED
  BY <1>1, <1>2, <1>3, StageKeepsRun

LEMMA AddFilesKeepsRun ==
  ASSUME RunInv, NEW i \in Idx, AddFiles(i)
  PROVE  RunInv'
<1>1. /\ pc[i] = "add" /\ lock = Nobody
      /\ UNCHANGED <<fanout, planVars, waveVars, attempt, outcome, proposed, permits, left,
                     late>>
  BY DEF AddFiles, At
<1>2. i \in AtWork /\ pc[i] \notin {"idle", "done"} /\ lock # i /\ Nobody # i
  BY <1>1, PlacesAre DEF AtWork
<1>3. /\ attempt' \in [Idx -> 0..MaxRetries] /\ left' \subseteq Idx /\ staged \subseteq Idx
      /\ pc \in [Idx -> Stages] /\ late' \subseteq Idx
  BY <1>1 DEF RunInv, TypeOK
<1>4. CASE /\ pc' = [pc EXCEPT ![i] = "commit"] /\ lock' = i /\ staged' = staged \cup {i}
           /\ phase' = phase
  <2>1. "commit" \in Stages \ {"idle", "dispatch", "done", "gone"}
    BY DEF Stages
  <2>2. permits' \in 0..SubtaskCap /\ PermitsCount'
    BY <1>1, <1>2, <1>4, <2>1, PermitsKept
  <2>3. lock' \in Idx \cup {Nobody} /\ staged' \subseteq Idx /\ pc'[lock'] = "commit"
    BY <1>3, <1>4
  <2>. QED
    BY <1>1, <1>2, <1>3, <1>4, <2>1, <2>2, <2>3, MoveKeepsRun
<1>5. ASSUME UNCHANGED <<lock, staged>>, NEW stage \in {"qa", "raised"},
             pc' = [pc EXCEPT ![i] = stage], phase' \in {phase, "raised"},
             stage = "raised" => phase' = "raised"
      PROVE  RunInv'
  <2>1. lock' # i /\ lock' = lock /\ staged' \subseteq Idx
    BY <1>2, <1>3, <1>5
  <2>. QED
    BY <1>1, <1>2, <1>3, <1>5, <2>1, StageKeepsRun
<1>. QED
  BY <1>4, <1>5 DEF AddFiles, Raise, GoTo

LEMMA CommitKeepsRun ==
  ASSUME RunInv, NEW i \in Idx, Commit(i)
  PROVE  RunInv'
<1>1. /\ pc[i] = "commit" /\ lock' = Nobody
      /\ UNCHANGED <<fanout, planVars, waveVars, attempt, outcome, proposed, permits>>
      /\ staged' \subseteq staged /\ left' \subseteq left \cup {i}
      /\ late' \subseteq late \cup {i}
  BY DEF Commit, At
<1>2. PICK stage \in {"qa", "raised"} :
        /\ pc' = [pc EXCEPT ![i] = stage] /\ phase' \in {phase, "raised"}
        /\ stage = "raised" \/ late' # late => phase' = "raised"
  BY DEF Commit, Raise, GoTo
<1>3. i \in AtWork /\ Nobody # i
  BY <1>1, PlacesAre DEF AtWork
<1>4. /\ attempt' \in [Idx -> 0..MaxRetries] /\ left' \subseteq Idx /\ staged' \subseteq Idx
      /\ late' \subseteq Idx
  BY <1>1 DEF RunInv, TypeOK
<1>. QED
  BY <1>1, <1>2, <1>3, <1>4, StageKeepsRun

LEMMA CollectKeepsRun ==
  ASSUME RunInv, NEW i \in Idx, Collect(i)
  PROVE  RunInv'
<1>1. /\ pc[i] = "raised" /\ pc' = [pc EXCEPT ![i] = "gone"] /\ permits' = permits + 1
      /\ UNCHANGED <<phase, fanout, planVars, waveVars, attempt, outcome, proposed, lock,
                     staged, left, late>>
  BY DEF Collect, At, GoTo, gitVars
<1>2. i \in AtWork /\ phase = "raised"
  BY <1>1 DEF RunInv, Astray, AtWork
<1>3. permits' \in 0..SubtaskCap /\ PermitsCount'
  BY <1>1, <1>2, PermitReturned
<1>4. /\ attempt' \in [Idx -> 0..MaxRetries] /\ lock' \in Idx \cup {Nobody}
      /\ left' \subseteq Idx /\ staged' \subseteq Idx /\ late' \subseteq Idx
      /\ pc \in [Idx -> Stages]
  BY <1>1 DEF RunInv, TypeOK
<1>5. lock' # Nobody => pc'[lock'] = "commit"
  BY <1>1, <1>4 DEF RunInv, OnTheirWay
<1>6. "gone" \in Stages \ {"idle", "done"}
  BY DEF Stages
<1>. QED
  BY <1>1, <1>2, <1>3, <1>4, <1>5, <1>6, MoveKeepsRun

LEMMA LateCommitKeepsRun ==
  ASSUME RunInv, NEW i \in Idx, LateCommit(i)
  PROVE  RunInv'
<1>1. /\ late' \subseteq late /\ staged' \subseteq staged /\ left' \subseteq left
      /\ UNCHANGED <<phase, fanout, steps, rows, known, queue, wave, inbox, status, pc,
                     attempt, outcome, proposed, permits, lock>>
  BY DEF LateCommit, planVars, waveVars, stepVars
<1>2. /\ Steps' = Steps /\ Dispatched' = Dispatched /\ Blocked' = Blocked
      /\ NewId' = NewId /\ Dynamic' = Dynamic /\ AtWork' = AtWork /\ Ended' = Ended
  BY <1>1 DEF Steps, Dispatched, Blocked, NewId, Dynamic, AtWork, Ended
<1>3. TypeOK' /\ OnTheirWay'
  BY <1>1, <1>2 DEF RunInv, TypeOK, OnTheirWay
<1>4. Named' /\ Unbegun' /\ PermitsCount' /\ Queued' /\ Over' /\ Astray'
  BY <1>1, <1>2 DEF RunInv, Named, Unbegun, PermitsCount, Queued, Over, Astray
<1>. QED
  BY <1>1, <1>3, <1>4 DEF RunInv

LEMMA TakeSlotKeepsRun ==
  ASSUME RunInv, NEW i \in Idx, TakeSlot(i)
  PROVE  RunInv'
<1>1. /\ pc[i] = "dispatch" /\ permits > 0 /\ permits' = permits - 1
      /\ pc' = [pc EXCEPT ![i] = "dev"] /\ attempt' = [attempt EXCEPT ![i] = 1]
      /\ UNCHANGED <<phase, fanout, planVars, waveVars, outcome, proposed, lock, staged, left,
                     late>>
  BY DEF TakeSlot, At, GoTo, gitVars
<1>2. permits' \in 0..SubtaskCap /\ PermitsCount'
  BY <1>1, PermitTaken
<1>3. attempt' \in [Idx -> 0..MaxRetries]
  <2>1. attempt \in [Idx -> 0..MaxRetries] /\ 1 \in 0..MaxRetries
    BY BoundAssumption DEF RunInv, TypeOK
  <2>. QED
    BY <1>1, <2>1
<1>4. /\ pc \in [Idx -> Stages] /\ lock' \in Idx \cup {Nobody}
      /\ staged' \subseteq Idx /\ left' \subseteq Idx /\ late' \subseteq Idx
  BY <1>1 DEF RunInv, TypeOK
<1>5. lock' # Nobody => pc'[lock'] = "commit"
  BY <1>1, <1>4 DEF RunInv, OnTheirWay
<1>6. "dev" \in Stages \ {"idle", "done"} /\ pc[i] \notin {"idle", "done"}
  BY <1>1 DEF Stages
<1>. QED
  BY <1>1, <1>2, <1>3, <1>4, <1>5, <1>6, MoveKeepsRun

LEMMA TurnAwayKeepsRun ==
  ASSUME RunInv, NEW i \in Idx, TurnAway(i)
  PROVE  RunInv'
<1>1. /\ pc[i] = "dispatch" /\ pc' = [pc EXCEPT ![i] = "done"]
      /\ outcome' = [outcome EXCEPT ![i] = "blocked"]
      /\ UNCHANGED <<phase, fanout, steps, rows, known, waveVars, attempt, proposed, permits,
                     gitVars>>
  BY DEF TurnAway, At, GoTo, planVars
<1>2. AtWork' = AtWork
  BY <1>1 DEF RunInv, TypeOK, AtWork
<1>3. permits' \in 0..SubtaskCap /\ PermitsCount'
  BY <1>1, <1>2 DEF RunInv, TypeOK, PermitsCount
<1>4. attempt' \in [Idx -> 0..MaxRetries]
  BY <1>1 DEF RunInv, TypeOK
<1>5. lock # i
  BY <1>1, PlacesAre DEF RunInv, OnTheirWay
<1>. QED
  BY <1>1, <1>3, <1>4, <1>5, EndKeepsRun

LEMMA ProposeKeepsRun ==
  ASSUME RunInv, NEW i \in Idx, NEW p \in Offers, Propose(i, p)
  PROVE  RunInv'
<1>1. /\ proposed' = [proposed EXCEPT ![i] = Append(@, [parent |-> i, step |-> p])]
      /\ UNCHANGED <<phase, fanout, steps, rows, known, queue, wave, inbox, status, pc,
                     attempt, outcome, permits, lock, staged, left, late>>
  BY DEF Propose, planVars, waveVars, gitVars
<1>2. /\ Steps' = Steps /\ Dispatched' = Dispatched /\ Blocked' = Blocked
      /\ NewId' = NewId /\ Dynamic' = Dynamic /\ AtWork' = AtWork /\ Ended' = Ended
  BY <1>1 DEF Steps, Dispatched, Blocked, NewId, Dynamic, AtWork, Ended
<1>3. /\ proposed \in [Idx -> Seq([parent : Idx, step : Offers])]
      /\ \A j \in Idx : proposed[j] \in Seq([parent : {j}, step : Offers])
  BY DEF RunInv, OnTheirWay
<1> DEFINE more == Append(proposed[i], [parent |-> i, step |-> p])
<1>4. more \in Seq([parent : {i}, step : Offers])
  BY <1>3
<1>5. [parent : {i}, step : Offers] \subseteq [parent : Idx, step : Offers]
  OBVIOUS
<1>6. proposed' = [proposed EXCEPT ![i] = more]
  BY <1>1
<1>. HIDE DEF more
<1>7. more \in Seq([parent : Idx, step : Offers])
  <2> DEFINE A == [parent : {i}, step : Offers]
             B == [parent : Idx, step : Offers]
  <2>1. more \in Seq(A) /\ A \subseteq B
    BY <1>4, <1>5
  <2>2. more \in Seq(B)
    <3>. HIDE DEF A, B
    <3>. QED
      BY <2>1, ListOver
  <2>. QED
    BY <2>2
<1>8. /\ proposed' \in [Idx -> Seq([parent : Idx, step : Offers])]
      /\ \A j \in Idx : proposed'[j] \in Seq([parent : {j}, step : Offers])
  BY <1>3, <1>4, <1>6, <1>7
<1>9. TypeOK'
  BY <1>1, <1>2 DEF RunInv, TypeOK
<1>10. OnTheirWay'
  BY <1>1, <1>2, <1>8 DEF RunInv, OnTheirWay
<1>11. Named' /\ Unbegun' /\ PermitsCount' /\ Queued' /\ Over' /\ Astray'
  BY <1>1, <1>2 DEF RunInv, Named, Unbegun, PermitsCount, Queued, Over, Astray
<1>. QED
  BY <1>8, <1>9, <1>10, <1>11 DEF RunInv

LEMMA IdleKeepsRun ==
  ASSUME RunInv, UNCHANGED vars
  PROVE  RunInv'
<1>1. UNCHANGED <<phase, fanout, steps, rows, known, queue, wave, inbox, status, pc, attempt,
                  outcome, proposed, permits, lock, staged, left, late>>
  BY DEF vars, planVars, waveVars, stepVars, gitVars
<1>2. /\ Steps' = Steps /\ Dispatched' = Dispatched /\ Blocked' = Blocked
      /\ NewId' = NewId /\ Dynamic' = Dynamic /\ AtWork' = AtWork /\ Ended' = Ended
  BY <1>1 DEF Steps, Dispatched, Blocked, NewId, Dynamic, AtWork, Ended
<1>3. TypeOK' /\ OnTheirWay'
  BY <1>1, <1>2 DEF RunInv, TypeOK, OnTheirWay
<1>4. Named' /\ Unbegun' /\ PermitsCount' /\ Queued' /\ Over' /\ Astray'
  BY <1>1, <1>2 DEF RunInv, Named, Unbegun, PermitsCount, Queued, Over, Astray
<1>. QED
  BY <1>1, <1>3, <1>4 DEF RunInv

LEMMA WorkKeepsRun ==
  ASSUME RunInv, NEW i \in Idx, Work(i)
  PROVE  RunInv'
<1>1. CASE Develop(i)
  <2>1. Pass(i, "dev", "add") \/ Pass(i, "dev", "qa")
    BY <1>1 DEF Develop, Pass
  <2>. QED
    BY <2>1, PassKeepsRun DEF Stages
<1>2. CASE QA(i) \/ Review(i)
  BY <1>2, PassKeepsRun DEF QA, Review, Stages
<1>3. CASE Gates(i)
  <2>1. i \in AtWork /\ pc[i] \notin {"commit", "raised"}
    BY <1>3 DEF Gates, At, AtWork
  <2>. QED
    BY <1>3, <2>1, SettleKeepsRun DEF Gates
<1>. QED
  BY <1>1, <1>2, <1>3, TurnAwayKeepsRun, TakeSlotKeepsRun, FailKeepsRun,
     AddFilesKeepsRun, CommitKeepsRun DEF Work

LEMMA StepKeepsRun == RunInv /\ [Next]_vars => RunInv'
<1> SUFFICES ASSUME RunInv, [Next]_vars PROVE RunInv'
  OBVIOUS
<1>1. CASE \E i \in Idx \cup {0}, d \in Edits, R \in SUBSET Steps : Approve(i, d, R)
  BY <1>1, ApproveKeepsRun
<1>2. CASE \E i \in Idx : Work(i) \/ LateCommit(i) \/ Collect(i)
  BY <1>2, WorkKeepsRun, LateCommitKeepsRun, CollectKeepsRun
<1>3. CASE \E i \in Idx, p \in Offers : Propose(i, p)
  BY <1>3, ProposeKeepsRun
<1>4. CASE Manage
  BY <1>4, NextWaveKeepsRun, EndWaveKeepsRun, IntegrateKeepsRun, ReturnKeepsRun
     DEF Manage
<1>. QED
  BY <1>1, <1>2, <1>4, <1>3, BeginKeepsRun, IdleKeepsRun DEF Next

LEMMA RunInvariance == Spec => []RunInv
BY RunInitHolds, StepKeepsRun, PTL DEF Spec

(* Whatever its plan, its edits and what agents do and propose, the state  *)
(* of a run has the types the model gives it.                              *)
THEOREM TypeCorrect == Spec => []TypeOK
<1>1. RunInv => TypeOK
  BY DEF RunInv
<1>. QED
  BY <1>1, RunInvariance, PTL

(* A run that returns has given back every permit and the commit lock;     *)
(* unless it halted, every step has an outcome, and it reports "completed" *)
(* just when none of them is blocked. When a run has raised and the steps  *)
(* beside the one that raised have ended, the lock is free and only steps  *)
(* that raised keep permits.                                               *)
THEOREM Accounted == Spec => []AllAccounted
<1>1. RunInv /\ phase = "returned" =>
        /\ permits = SubtaskCap /\ lock = Nobody
        /\ status # "halted" =>
             /\ \A i \in Steps : outcome[i] # "none"
             /\ (status = "completed") <=> (Blocked = {})
  <2> SUFFICES ASSUME RunInv, phase = "returned"
               PROVE  /\ permits = SubtaskCap /\ lock = Nobody
                      /\ status # "halted" =>
                           /\ \A i \in Steps : outcome[i] # "none"
                           /\ (status = "completed") <=> (Blocked = {})
    OBVIOUS
  <2>1. \A i \in Idx : pc[i] \in {"idle", "done"}
    BY DEF RunInv, OnTheirWay, Over
  <2>2. permits = SubtaskCap
    <3>1. AtWork = {}
      BY <2>1 DEF AtWork
    <3>2. Cardinality(AtWork) = 0
      BY <3>1, FS_EmptySet
    <3>. QED
      BY <3>2, BoundAssumption DEF RunInv, TypeOK, PermitsCount
  <2>3. lock = Nobody
    BY <2>1 DEF RunInv, TypeOK, OnTheirWay
  <2>. QED
    BY <2>2, <2>3 DEF RunInv, Over, Dispatched
<1>2. ASSUME RunInv, \A i \in wave : pc[i] \in {"done", "raised", "gone"}
      PROVE  /\ permits + Cardinality({i \in wave : At(i, "raised")}) = SubtaskCap
             /\ lock = Nobody
  <2>1. \A i \in Idx : pc[i] \in {"idle", "done", "gone"} \/ (i \in wave /\ pc[i] = "raised")
    BY <1>2 DEF RunInv, OnTheirWay
  <2>2. wave \subseteq Idx
    BY <1>2, PlacesAre DEF RunInv, TypeOK
  <2>3. AtWork = {i \in wave : At(i, "raised")}
    BY <2>1, <2>2 DEF AtWork, At
  <2>4. lock = Nobody
    BY <1>2, <2>1 DEF RunInv, TypeOK, OnTheirWay
  <2>. QED
    BY <1>2, <2>3, <2>4 DEF RunInv, PermitsCount
<1>3. RunInv => AllAccounted
  BY <1>1, <1>2 DEF AllAccounted
<1>. QED
  BY <1>3, RunInvariance, PTL

(* In a run that is on somebody can always go on: the manager, or a step   *)
(* of the wave, be it at the commit lock or waiting for a permit, of which *)
(* there is one when nobody works.                                         *)
THEOREM SomebodyGoesOn == Spec => []NeverStuck
<1>1. RunInv => NeverStuck
  <2> SUFFICES ASSUME RunInv, phase = "running", ~Free,
                      ~(wave = {} /\ inbox # <<>>),
                      NEW w \in wave, ~At(w, "done")
               PROVE  \E i \in wave : /\ ~At(i, "idle") /\ ~At(i, "done")
                                      /\ At(i, "dispatch") => permits > 0
                                      /\ At(i, "add") => lock = Nobody
    BY DEF NeverStuck, Free
  <2>1. w \in Idx /\ pc[w] # "idle"
    BY BoundAssumption DEF RunInv, TypeOK, OnTheirWay, Steps, Idx
  <2>2. CASE lock # Nobody
    <3>1. lock \in Idx /\ pc[lock] = "commit"
      BY <2>2 DEF RunInv, TypeOK, OnTheirWay
    <3>2. lock \in wave
      BY <3>1, BusyIs
    <3>. QED
      BY <3>1, <3>2 DEF At
  <2>3. CASE lock = Nobody /\ AtWork # {}
    <3>1. PICK i \in AtWork : TRUE
      BY <2>3
    <3>2. i \in Idx /\ pc[i] \notin {"idle", "dispatch", "done"}
      BY <3>1 DEF AtWork
    <3>3. i \in wave
      BY <3>2, BusyIs
    <3>. QED
      BY <2>3, <3>2, <3>3 DEF At
  <2>4. CASE lock = Nobody /\ AtWork = {}
    <3>1. Cardinality(AtWork) = 0
      BY <2>4, FS_EmptySet
    <3>2. permits > 0
      BY <3>1, BoundAssumption DEF RunInv, TypeOK, PermitsCount
    <3>. QED
      BY <2>1, <2>4, <3>2 DEF At
  <2>. QED
    BY <2>2, <2>3, <2>4
<1>. QED
  BY <1>1, RunInvariance, PTL

-----------------------------------------------------------------------------
(***************************************************************************)
(* The way a run has before it gets shorter with each of its steps.        *)
(***************************************************************************)
FewProposals == \A i \in Idx : Len(proposed[i]) <= MaxProposals

LEMMA StagesAre ==
  /\ DOMAIN StagesLeft = {"dev", "add", "commit", "qa", "review", "gates"}
  /\ StagesLeft["dev"] = 6 /\ StagesLeft["add"] = 5 /\ StagesLeft["commit"] = 4
  /\ StagesLeft["qa"] = 3 /\ StagesLeft["review"] = 2 /\ StagesLeft["gates"] = 1
  /\ Stages = {"idle", "dispatch", "done", "raised", "gone"} \cup DOMAIN StagesLeft
BY DEF StagesLeft, Stages

LEMMA WayOf ==
  /\ \A i : pc[i] = "idle" => ToGo(i) = Longest + 2
  /\ \A i : pc[i] = "dispatch" => ToGo(i) = Longest + 1
  /\ \A i : pc[i] \in {"done", "raised", "gone"} => ToGo(i) = 0
  /\ \A i : pc[i] \notin {"idle", "dispatch", "done", "raised", "gone"} =>
       ToGo(i) = 6 * (MaxRetries - attempt[i]) + StagesLeft[pc[i]]
                   + (MaxProposals - Len(proposed[i]))
BY DEF ToGo, At

LEMMA WayNext ==
  /\ \A i : pc'[i] = "idle" => ToGo(i)' = Longest + 2
  /\ \A i : pc'[i] = "dispatch" => ToGo(i)' = Longest + 1
  /\ \A i : pc'[i] \in {"done", "raised", "gone"} => ToGo(i)' = 0
  /\ \A i : pc'[i] \notin {"idle", "dispatch", "done", "raised", "gone"} =>
       ToGo(i)' = 6 * (MaxRetries - attempt'[i]) + StagesLeft[pc'[i]]
                    + (MaxProposals - Len(proposed'[i]))
BY DEF ToGo, At, Longest, StagesLeft

LEMMA WayKept ==
  ASSUME NEW i, pc'[i] = pc[i],
         \/ pc[i] \in {"idle", "dispatch", "done", "raised", "gone"}
         \/ attempt'[i] = attempt[i] /\ proposed'[i] = proposed[i]
  PROVE  ToGo(i)' = ToGo(i)
<1>1. CASE pc[i] \in {"idle", "dispatch", "done", "raised", "gone"}
  BY <1>1, WayOf, WayNext
<1>2. CASE pc[i] \notin {"idle", "dispatch", "done", "raised", "gone"}
  <2>1. attempt'[i] = attempt[i] /\ proposed'[i] = proposed[i]
    BY <1>2
  <2>2. ToGo(i) = 6 * (MaxRetries - attempt[i]) + StagesLeft[pc[i]]
                    + (MaxProposals - Len(proposed[i]))
    BY <1>2, WayOf
  <2>3. ToGo(i)' = 6 * (MaxRetries - attempt'[i]) + StagesLeft[pc'[i]]
                     + (MaxProposals - Len(proposed'[i]))
    BY <1>2, WayNext
  <2>. QED
    BY <2>1, <2>2, <2>3
<1>. QED
  BY <1>1, <1>2

(* The numbers a step's way is made of.                                    *)
LEMMA WayNumbers ==
  ASSUME RunInv, FewProposals, NEW i \in Idx
  PROVE  /\ pc[i] \in Stages /\ attempt[i] \in 0..MaxRetries
         /\ Len(proposed[i]) \in 0..MaxProposals
         /\ MaxRetries \in Nat \ {0} /\ MaxProposals \in Nat
         /\ Longest = 6 * MaxRetries + MaxProposals
<1>1. proposed[i] \in Seq([parent : Idx, step : Offers])
  BY DEF RunInv
<1>2. Len(proposed[i]) \in Nat
  BY <1>1
<1>. QED
  BY <1>2, BoundAssumption DEF RunInv, TypeOK, FewProposals, Longest

LEMMA WayIsNatural ==
  ASSUME RunInv, FewProposals, NEW i \in Idx
  PROVE  ToGo(i) \in Nat
<1>1. CASE pc[i] \in {"idle", "dispatch", "done", "raised", "gone"}
  BY <1>1, WayNumbers, WayOf
<1>2. CASE pc[i] \in DOMAIN StagesLeft
  <2>1. StagesLeft[pc[i]] \in Nat
    BY <1>2, StagesAre
  <2>2. pc[i] \notin {"idle", "dispatch", "done", "raised", "gone"}
    BY <1>2, StagesAre
  <2>3. ToGo(i) = 6 * (MaxRetries - attempt[i]) + StagesLeft[pc[i]]
                    + (MaxProposals - Len(proposed[i]))
    BY <2>2, WayOf
  <2>4. /\ MaxRetries - attempt[i] \in Nat /\ MaxProposals - Len(proposed[i]) \in Nat
    BY WayNumbers
  <2>. QED
    BY <2>1, <2>3, <2>4
<1>. QED
  BY <1>1, <1>2, WayNumbers, StagesAre

LEMMA FewInit == Init => FewProposals
<1> SUFFICES ASSUME Init, NEW i \in Idx PROVE Len(proposed[i]) <= MaxProposals
  BY DEF FewProposals
<1>1. proposed[i] = <<>>
  BY DEF Init
<1>. QED
  BY <1>1, BoundAssumption

LEMMA FewKept == RunInv /\ FewProposals /\ [Next]_vars => FewProposals'
<1> SUFFICES ASSUME RunInv, FewProposals, [Next]_vars, NEW i \in Idx
             PROVE  Len(proposed'[i]) <= MaxProposals
  BY DEF FewProposals
<1>1. CASE proposed' = proposed
  BY <1>1 DEF FewProposals
<1>2. CASE EndWave
  <2>1. proposed'[i] = <<>>
    BY <1>2 DEF EndWave
  <2>. QED
    BY <2>1, BoundAssumption
<1>3. ASSUME NEW j \in Idx, NEW p \in Offers, Propose(j, p)
      PROVE  Len(proposed'[i]) <= MaxProposals
  <2>1. /\ proposed' = [proposed EXCEPT ![j] = Append(@, [parent |-> j, step |-> p])]
        /\ Len(proposed[j]) < MaxProposals
    BY <1>3 DEF Propose
  <2>2. \A k \in Idx : proposed[k] \in Seq([parent : {k}, step : Offers])
    BY DEF RunInv, OnTheirWay
  <2>3. proposed \in [Idx -> Seq([parent : Idx, step : Offers])]
    BY DEF RunInv
  <2>4. CASE i = j
    <3>1. proposed'[i] = Append(proposed[i], [parent |-> i, step |-> p])
      BY <2>1, <2>3, <2>4
    <3>2. Len(Append(proposed[i], [parent |-> i, step |-> p])) = Len(proposed[i]) + 1
          /\ Len(proposed[i]) \in Nat
      BY <2>2
    <3>. QED
      BY <2>1, <2>4, <3>1, <3>2, BoundAssumption
  <2>5. CASE i # j
    BY <2>1, <2>3, <2>5 DEF FewProposals
  <2>. QED
    BY <2>4, <2>5
<1>4. CASE \E k \in Idx \cup {0}, d \in Edits, R \in SUBSET Steps : Approve(k, d, R)
  BY <1>1, <1>4 DEF Approve, stepVars
<1>5. CASE \E k \in Idx : LateCommit(k) \/ Collect(k)
  BY <1>1, <1>5 DEF LateCommit, Collect, stepVars
<1>6. CASE Begin \/ NextWave \/ Integrate \/ Return
  BY <1>1, <1>6 DEF Begin, NextWave, Integrate, Return, stepVars
<1>7. CASE \E k \in Idx : Work(k)
  BY <1>1, <1>7
     DEF Work, TurnAway, TakeSlot, Fail, Develop, AddFiles, Commit, QA, Review,
         Gates, Pass
<1>8. CASE UNCHANGED vars
  BY <1>1, <1>8 DEF vars, stepVars
<1>. QED
  BY <1>2, <1>3, <1>4, <1>6, <1>7, <1>8, <1>5 DEF Next, Manage

(* One step of a subtask: it ends or raises, it goes on to a stage nearer to its end *)
(* or back to the first with one attempt less, or it proposes.             *)
Ends(i) == pc'[i] \in {"done", "raised"} /\ pc[i] \notin {"done", "raised", "gone"}
Starts(i) ==
  pc[i] = "dispatch" /\ pc'[i] = "dev" /\ attempt'[i] = 1 /\ proposed' = proposed
Advances(i) ==
  /\ pc[i] \in DOMAIN StagesLeft /\ pc'[i] \in DOMAIN StagesLeft
  /\ StagesLeft[pc'[i]] < StagesLeft[pc[i]]
  /\ attempt' = attempt /\ proposed' = proposed
Repeats(i) ==
  /\ pc[i] \in DOMAIN StagesLeft /\ pc'[i] = "dev"
  /\ attempt'[i] = attempt[i] + 1 /\ proposed' = proposed
Proposes(i) ==
  /\ pc[i] = "dev" /\ pc' = pc /\ attempt' = attempt
  /\ Len(proposed'[i]) = Len(proposed[i]) + 1

LEMMA WayShortens ==
  ASSUME RunInv, FewProposals, NEW i \in Idx,
         Ends(i) \/ Starts(i) \/ Advances(i) \/ Repeats(i) \/ Proposes(i)
  PROVE  ToGo(i)' < ToGo(i)
<1> DEFINE M == MaxRetries
           P == MaxProposals
           a == attempt[i]
           q == Len(proposed[i])
<1>1. /\ a \in 0..M /\ q \in 0..P /\ M \in Nat /\ P \in Nat
      /\ Longest = 6 * M + P /\ pc[i] \in Stages
  BY WayNumbers
<1>2. pc[i] \in DOMAIN StagesLeft =>
        /\ StagesLeft[pc[i]] \in 1..6
        /\ ToGo(i) = 6 * (M - a) + StagesLeft[pc[i]] + (P - q)
  BY StagesAre, WayOf
<1>3. CASE Ends(i)
  <2>1. ToGo(i)' = 0
    BY <1>3, WayNext DEF Ends
  <2>2. CASE pc[i] \in {"idle", "dispatch"}
    BY <1>1, <2>1, <2>2, WayOf
  <2>3. CASE pc[i] \in DOMAIN StagesLeft
    <3>. HIDE DEF M, P, a, q
    <3>. QED
      BY <1>1, <1>2, <2>1, <2>3
  <2>. QED
    BY <1>1, <1>3, <2>2, <2>3, StagesAre DEF Ends
<1>4. CASE Starts(i)
  <2>1. ToGo(i) = Longest + 1
    BY <1>4, WayOf DEF Starts
  <2>2. ToGo(i)' = 6 * (M - 1) + 6 + (P - q)
    BY <1>4, WayNext, StagesAre DEF Starts
  <2>. HIDE DEF M, P, q
  <2>. QED
    BY <1>1, <2>1, <2>2
<1>5. CASE Advances(i)
  <2>1. ToGo(i)' = 6 * (M - a) + StagesLeft[pc'[i]] + (P - q)
    BY <1>5, WayNext, StagesAre DEF Advances
  <2>2. StagesLeft[pc'[i]] \in 1..6
    BY <1>5, StagesAre DEF Advances
  <2>3. /\ pc[i] \in DOMAIN StagesLeft /\ StagesLeft[pc'[i]] < StagesLeft[pc[i]]
    BY <1>5 DEF Advances
  <2>. HIDE DEF M, P, a, q
  <2>. QED
    BY <1>1, <1>2, <2>1, <2>2, <2>3
<1>6. CASE Repeats(i)
  <2>1. ToGo(i)' = 6 * (M - (a + 1)) + 6 + (P - q)
    BY <1>6, WayNext, StagesAre DEF Repeats
  <2>2. pc[i] \in DOMAIN StagesLeft
    BY <1>6 DEF Repeats
  <2>. HIDE DEF M, P, a, q
  <2>. QED
    BY <1>1, <1>2, <2>1, <2>2
<1>7. CASE Proposes(i)
  <2>1. ToGo(i)' = 6 * (M - a) + 6 + (P - (q + 1))
    BY <1>7, WayNext, StagesAre DEF Proposes
  <2>2. ToGo(i) = 6 * (M - a) + 6 + (P - q)
    BY <1>7, WayOf, StagesAre DEF Proposes
  <2>. HIDE DEF M, P, a, q
  <2>. QED
    BY <1>1, <2>1, <2>2
<1>. QED
  BY <1>3, <1>4, <1>5, <1>6, <1>7

(* What the steps of a subtask are.                                        *)
LEMMA WorkIs ==
  ASSUME RunInv, NEW i \in Idx, Work(i)
  PROVE  /\ Ends(i) \/ Starts(i) \/ Advances(i) \/ Repeats(i)
         /\ \A j \in Idx \ {i} : /\ pc'[j] = pc[j] /\ attempt'[j] = attempt[j]
                                 /\ proposed'[j] = proposed[j]
<1>1. /\ pc \in [Idx -> Stages] /\ attempt \in [Idx -> 0..MaxRetries]
      /\ MaxRetries \in Nat
  BY BoundAssumption DEF RunInv, TypeOK
<1>2. CASE TurnAway(i)
  BY <1>1, <1>2 DEF TurnAway, GoTo, At, Ends
<1>3. CASE TakeSlot(i)
  BY <1>1, <1>3 DEF TakeSlot, GoTo, At, Starts
<1>4. CASE Fail(i)
  <2>1. /\ pc[i] \in DOMAIN StagesLeft /\ pc[i] \notin {"done", "raised", "gone"}
        /\ proposed' = proposed
    BY <1>4, StagesAre DEF Fail
  <2>2. CASE attempt[i] < MaxRetries
    BY <1>1, <1>4, <2>1, <2>2 DEF Fail, Retry, GoTo, Repeats
  <2>3. CASE ~(attempt[i] < MaxRetries)
    BY <1>1, <1>4, <2>1, <2>3 DEF Fail, Retry, Settle, GoTo, Ends
  <2>. QED
    BY <2>2, <2>3
<1>5. CASE Gates(i)
  BY <1>1, <1>5 DEF Gates, Settle, GoTo, At, Ends
<1>6. CASE Develop(i)
  BY <1>1, <1>6, StagesAre DEF Develop, GoTo, At, Advances
<1>7. CASE AddFiles(i)
  BY <1>1, <1>7, StagesAre DEF AddFiles, Raise, GoTo, At, Advances, Ends
<1>8. CASE Commit(i)
  BY <1>1, <1>8, StagesAre DEF Commit, Raise, GoTo, At, Advances, Ends
<1>9. CASE QA(i) \/ Review(i)
  BY <1>1, <1>9, StagesAre DEF QA, Review, Pass, GoTo, At, Advances
<1>. QED
  BY <1>2, <1>3, <1>4, <1>5, <1>6, <1>7, <1>8, <1>9 DEF Work

LEMMA ProposeIs ==
  ASSUME RunInv, NEW i \in Idx, NEW p \in Offers, Propose(i, p)
  PROVE  /\ Proposes(i)
         /\ \A j \in Idx \ {i} : proposed'[j] = proposed[j]
<1>1. /\ proposed' = [proposed EXCEPT ![i] = Append(@, [parent |-> i, step |-> p])]
      /\ pc[i] = "dev" /\ pc' = pc /\ attempt' = attempt
  BY DEF Propose, At
<1>2. /\ proposed \in [Idx -> Seq([parent : Idx, step : Offers])]
      /\ proposed[i] \in Seq([parent : {i}, step : Offers])
  BY DEF RunInv, OnTheirWay
<1>3. proposed'[i] = Append(proposed[i], [parent |-> i, step |-> p])
  BY <1>1, <1>2
<1>4. Len(Append(proposed[i], [parent |-> i, step |-> p])) = Len(proposed[i]) + 1
  BY <1>2
<1>5. \A j \in Idx \ {i} : proposed'[j] = proposed[j]
  BY <1>1, <1>2
<1>. QED
  BY <1>1, <1>3, <1>4, <1>5 DEF Proposes

Nearer ==
  phase = "running" =>
    /\ \A i \in Idx : ToGo(i)' <= ToGo(i)
    /\ \/ \E i \in Idx : ToGo(i)' < ToGo(i)
       \/ wave # {} /\ wave' = {}
       \/ wave = {} /\ wave' = {} /\ Len(inbox') < Len(inbox)
       \/ phase' \in {"returned", "raised"}

(* Every way is as it was, but for steps whose way gets shorter.           *)
LEMMA NearerBySteps ==
  ASSUME RunInv, FewProposals, NEW S \in SUBSET Idx,
         \A i \in S : ToGo(i)' < ToGo(i),
         \A i \in Idx \ S : ToGo(i)' = ToGo(i),
         \A i \in S : ToGo(i)' \in Nat
  PROVE  /\ \A i \in Idx : ToGo(i)' <= ToGo(i)
         /\ S # {} => \E i \in Idx : ToGo(i)' < ToGo(i)
<1>1. \A i \in Idx : ToGo(i) \in Nat
  BY WayIsNatural
<1>2. ASSUME NEW i \in Idx PROVE ToGo(i)' <= ToGo(i)
  <2>1. ToGo(i) \in Nat
    BY <1>1
  <2>2. CASE i \in S
    <3>1. ToGo(i)' < ToGo(i) /\ ToGo(i)' \in Nat
      BY <2>2
    <3>. QED
      BY <2>1, <3>1
  <2>3. CASE i \notin S
    <3>1. ToGo(i)' = ToGo(i)
      BY <2>3
    <3>. QED
      BY <2>1, <3>1
  <2>. QED
    BY <2>2, <2>3
<1>. QED
  BY <1>2

WaysNatural == \A i \in Idx : ToGo(i) \in Nat

LEMMA StepIsNearer ==
  RunInv /\ FewProposals /\ WaysNatural' /\ Next => Nearer
<1> SUFFICES ASSUME RunInv, FewProposals, WaysNatural', Next, phase = "running"
             PROVE  /\ \A i \in Idx : ToGo(i)' <= ToGo(i)
                    /\ \/ \E i \in Idx : ToGo(i)' < ToGo(i)
                       \/ wave # {} /\ wave' = {}
                       \/ wave = {} /\ wave' = {} /\ Len(inbox') < Len(inbox)
                       \/ phase' \in {"returned", "raised"}
  BY DEF Nearer
<1>1. \A i \in Idx : ToGo(i)' \in Nat
  BY DEF WaysNatural
<1>2. CASE \E i \in Idx : LateCommit(i) \/ Collect(i)
  BY <1>2 DEF LateCommit, Collect, At, RunInv, Astray
<1>3. CASE \E i \in Idx : Work(i) \/ (\E p \in Offers : Propose(i, p))
  <2>1. PICK i \in Idx : Work(i) \/ (\E p \in Offers : Propose(i, p))
    BY <1>3
  <2>2. /\ Ends(i) \/ Starts(i) \/ Advances(i) \/ Repeats(i) \/ Proposes(i)
        /\ \A j \in Idx \ {i} : /\ pc'[j] = pc[j] /\ attempt'[j] = attempt[j]
                                /\ proposed'[j] = proposed[j]
    BY <2>1, WorkIs, ProposeIs DEF Proposes
  <2>3. ToGo(i)' < ToGo(i)
    BY <2>2, WayShortens
  <2>4. \A j \in Idx \ {i} : ToGo(j)' = ToGo(j)
    BY <2>2, WayKept
  <2>5. {i} \in SUBSET Idx /\ {i} # {}
    OBVIOUS
  <2>6. /\ \A j \in {i} : ToGo(j)' < ToGo(j) /\ ToGo(j)' \in Nat
        /\ \A j \in Idx \ {i} : ToGo(j)' = ToGo(j)
    BY <1>1, <2>3, <2>4
  <2>. QED
    BY <2>5, <2>6, NearerBySteps
<1>4. CASE NextWave
  <2>1. /\ wave' # {} /\ wave' \subseteq Steps \ Dispatched
        /\ wave = {} /\ pc' = [j \in Idx |-> IF j \in wave' THEN "dispatch" ELSE pc[j]]
        /\ attempt' = attempt /\ proposed' = proposed
    BY <1>4, NextWaveIs DEF NextWave, Free
  <2>2. wave' \in SUBSET Idx
    BY <2>1, PlacesAre
  <2>3. ASSUME NEW i \in wave' PROVE ToGo(i)' < ToGo(i)
    <3>1. i \in Idx /\ outcome[i] = "none"
      BY <2>1, <2>2 DEF Dispatched
    <3>2. pc[i] = "idle"
      BY <2>1, <3>1 DEF RunInv, OnTheirWay
    <3>3. ToGo(i) = Longest + 2 /\ ToGo(i)' = Longest + 1
      BY <2>1, <3>1, <3>2, WayOf, WayNext
    <3>4. Longest \in Nat
      BY BoundAssumption DEF Longest
    <3>. QED
      BY <3>3, <3>4
  <2>4. \A j \in Idx \ wave' : ToGo(j)' = ToGo(j)
    BY <2>1, WayKept
  <2>. QED
    BY <1>1, <2>1, <2>2, <2>3, <2>4, NearerBySteps
<1>5. CASE EndWave
  <2>1. pc' = pc /\ wave # {} /\ wave' = {} /\ \A i \in wave : pc[i] = "done"
    BY <1>5 DEF EndWave, At
  <2>2. \A i \in Idx : pc[i] \in {"idle", "done"}
    BY <2>1 DEF RunInv, OnTheirWay
  <2>3. \A i \in Idx : ToGo(i)' = ToGo(i)
    BY <2>1, <2>2, WayKept
  <2>. QED
    BY <1>1, <2>1, <2>3, NearerBySteps
<1>6. CASE Integrate
  <2>1. /\ wave = {} /\ wave' = {} /\ inbox # <<>> /\ inbox' = Tail(inbox)
        /\ pc' = pc /\ attempt' = attempt /\ proposed' = proposed
    BY <1>6 DEF Integrate, stepVars
  <2>2. inbox \in Seq([parent : Ended, step : Offers])
    BY DEF RunInv, OnTheirWay
  <2>3. Len(inbox') < Len(inbox)
    BY <2>1, <2>2
  <2>4. \A i \in Idx : ToGo(i)' = ToGo(i)
    BY <2>1, WayKept
  <2>. QED
    BY <1>1, <2>1, <2>3, <2>4, NearerBySteps
<1>7. CASE Return
  <2>1. phase' = "returned" /\ pc' = pc /\ attempt' = attempt /\ proposed' = proposed
    BY <1>7 DEF Return, stepVars
  <2>2. \A i \in Idx : ToGo(i)' = ToGo(i)
    BY <2>1, WayKept
  <2>. QED
    BY <1>1, <2>1, <2>2, NearerBySteps
<1>8. CASE Begin \/ \E i \in Idx \cup {0}, d \in Edits, R \in SUBSET Steps : Approve(i, d, R)
  BY <1>8 DEF Begin, Approve
<1>. QED
  BY <1>3, <1>4, <1>5, <1>6, <1>7, <1>8, <1>2 DEF Next, Manage

(* A run ends, if what can go on does: each step brings it nearer to its   *)
(* end in an order in which nothing falls for ever, for the ways of steps, *)
(* finitely many, are natural numbers. So retries, proposals and steps     *)
(* that join cannot keep a manager busy without end.                       *)
THEOREM NoEndlessRun == Spec => ComesNearer /\ []WaysNatural
<1> DEFINE Inv == RunInv /\ FewProposals
<1>1. Init => Inv
  BY RunInitHolds, FewInit
<1>2. Inv /\ [Next]_vars => Inv'
  BY StepKeepsRun, FewKept
<1>3. Inv /\ WaysNatural' /\ [Next]_vars => [Nearer]_vars
  BY StepIsNearer
<1>4. Inv => WaysNatural
  BY WayIsNatural DEF WaysNatural
<1>5. [][Nearer]_vars <=> ComesNearer
  BY DEF ComesNearer, Nearer
<1>. HIDE DEF Inv
<1>. QED
  BY <1>1, <1>2, <1>3, <1>4, <1>5, PTL DEF Spec

-----------------------------------------------------------------------------
(***************************************************************************)
(* The waves implement SubtaskSchedule: each step of the run is one of the *)
(* schedule of the plan by the names of its steps, or changes nothing there.*)
(***************************************************************************)
Distinct(s) == \A i, j \in 1..Len(s) : s[i].id = s[j].id => i = j

LEMMA NamesAre ==
  ASSUME NEW s \in Seq(StepType), Distinct(s)
  PROVE  /\ DOMAIN Befores(s) = IdsOf(s, 1..Len(s)) /\ DOMAIN WritesOf(s) = IdsOf(s, 1..Len(s))
         /\ IdsOf(s, 1..Len(s)) \in SUBSET Idx
         /\ Befores(s) \in [IdsOf(s, 1..Len(s)) -> SUBSET Idx]
         /\ WritesOf(s) \in [IdsOf(s, 1..Len(s)) -> SUBSET Files]
         /\ \A i \in 1..Len(s) : /\ s[i].id \in IdsOf(s, 1..Len(s))
                                 /\ Befores(s)[s[i].id] = IdsOf(s, Valid(s, i))
                                 /\ WritesOf(s)[s[i].id] = s[i].files
         /\ \A S, T \in SUBSET (1..Len(s)) : IdsOf(s, S) \ IdsOf(s, T) = IdsOf(s, S \ T)
         /\ \A S \in SUBSET (1..Len(s)) : \A i \in 1..Len(s) : s[i].id \in IdsOf(s, S) <=> i \in S
<1> DEFINE n == Len(s)
           D == IdsOf(s, 1..n)
<1>1. n \in Nat /\ \A i \in 1..n : s[i].id \in Idx /\ s[i].files \in SUBSET Files
  <2>1. n \in Nat /\ \A i \in 1..n : s[i] \in StepType
    BY ListIn
  <2>. QED
    BY <2>1 DEF StepType
<1>. HIDE DEF n
<1>2. \A i \in 1..n : Place(s, s[i].id) = i
  BY DEF Distinct, Place, n
<1>3. D \in SUBSET Idx /\ \A S \in SUBSET (1..n) : IdsOf(s, S) \in SUBSET Idx
  BY <1>1 DEF IdsOf
<1>4. \A x \in D : \E i \in 1..n : x = s[i].id /\ Place(s, x) = i
  BY <1>2 DEF IdsOf
<1>5. \A i \in 1..n : Valid(s, i) \in SUBSET (1..n)
  BY DEF Valid, n
<1>6. Befores(s) = [x \in D |-> IdsOf(s, Valid(s, Place(s, x)))]
      /\ WritesOf(s) = [x \in D |-> s[Place(s, x)].files]
  BY DEF Befores, WritesOf, n
<1>7. \A i \in 1..n : s[i].id \in D
  BY DEF IdsOf
<1>. HIDE DEF D
<1>8. Befores(s) \in [D -> SUBSET Idx]
  BY <1>3, <1>4, <1>5, <1>6
<1>9. WritesOf(s) \in [D -> SUBSET Files]
  BY <1>1, <1>4, <1>6
<1>10. \A i \in 1..n : /\ Befores(s)[s[i].id] = IdsOf(s, Valid(s, i))
                       /\ WritesOf(s)[s[i].id] = s[i].files
  BY <1>2, <1>6, <1>7
<1>11. \A S \in SUBSET (1..n) : \A i \in 1..n : s[i].id \in IdsOf(s, S) <=> i \in S
  BY DEF IdsOf, Distinct, n
<1>12. \A S, T \in SUBSET (1..n) : IdsOf(s, S) \ IdsOf(s, T) = IdsOf(s, S \ T)
  <2> TAKE S, T \in SUBSET (1..n)
  <2>1. S \ T \in SUBSET (1..n)
    OBVIOUS
  <2>2. ASSUME NEW x PROVE x \in IdsOf(s, S) \ IdsOf(s, T) <=> x \in IdsOf(s, S \ T)
    <3>1. x \in IdsOf(s, S) => \E i \in S : x = s[i].id
      BY DEF IdsOf
    <3>2. x \in IdsOf(s, S \ T) => \E i \in S \ T : x = s[i].id
      BY DEF IdsOf
    <3>. QED
      BY <1>11, <2>1, <3>1, <3>2
  <2>. QED
    BY <2>2
<1>. QED
  BY <1>3, <1>6, <1>7, <1>8, <1>9, <1>10, <1>11, <1>12 DEF n, D

LEMMA RunNames ==
  ASSUME RunInv
  PROVE  /\ steps \in Seq(StepType) /\ Distinct(steps) /\ Steps = 1..Len(steps)
         /\ RunningIds = IdsOf(steps, {i \in Steps : pc[i] \notin {"idle", "done"}})
         /\ EndedIds = IdsOf(steps, Ended) /\ Ended = Dispatched
         /\ Ended \in SUBSET Steps
         /\ {i \in Steps : pc[i] \notin {"idle", "done"}} \in SUBSET Steps
<1>1. Steps \subseteq Idx
  BY PlacesAre
<1>2. Ended = Dispatched
  BY <1>1 DEF RunInv, OnTheirWay, Ended, Dispatched
<1>3. steps \in Seq(StepType) /\ Steps = 1..Len(steps)
  BY PlacesAre
<1>4. Distinct(steps)
  BY <1>3 DEF RunInv, Named, Distinct
<1>. QED
  BY <1>2, <1>3, <1>4 DEF RunningIds, EndedIds, Ended

LEMMA InitMaps == Init => Schedules!Init
<1> SUFFICES ASSUME Init PROVE Schedules!Init
  OBVIOUS
<1>1. RunInv
  BY RunInitHolds
<1>2. /\ Befores(steps) \in [IdsOf(steps, 1..Len(steps)) -> SUBSET Idx]
      /\ WritesOf(steps) \in [IdsOf(steps, 1..Len(steps)) -> SUBSET Files]
      /\ DOMAIN Befores(steps) = IdsOf(steps, 1..Len(steps))
      /\ IdsOf(steps, 1..Len(steps)) \in SUBSET Idx
  BY <1>1, RunNames, NamesAre
<1>3. Befores(steps) \in Schedules!Dependencies
  BY <1>2 DEF Schedules!Dependencies
<1>4. Begun = FALSE
  BY DEF Init, Begun
<1>5. Ordered(steps) \in BOOLEAN
  BY DEF Ordered
<1>6. RunningIds = {} /\ EndedIds = {}
  <2>1. \A i \in Steps : pc[i] = "idle"
    BY <1>1, PlacesAre DEF Init
  <2>. QED
    BY <2>1 DEF RunningIds, EndedIds, IdsOf
<1>. QED
  BY <1>2, <1>3, <1>4, <1>5, <1>6 DEF Schedules!Init

(* A step that changes neither the plan, nor who runs or has ended.        *)
LEMMA StutterMaps ==
  ASSUME steps' = steps, Begun' = Begun,
         \A i \in Steps : /\ pc'[i] = "done" <=> pc[i] = "done"
                          /\ pc'[i] = "idle" <=> pc[i] = "idle"
  PROVE  UNCHANGED Schedules!vars
<1>1. Steps' = Steps
  BY DEF Steps
<1>2. /\ {i \in Steps' : pc'[i] \notin {"idle", "done"}} = {i \in Steps : pc[i] \notin {"idle", "done"}}
      /\ {i \in Steps' : pc'[i] = "done"} = {i \in Steps : pc[i] = "done"}
  BY <1>1
<1>3. RunningIds' = RunningIds /\ EndedIds' = EndedIds
  BY <1>2 DEF RunningIds, EndedIds
<1>. QED
  BY <1>3 DEF Schedules!vars

LEMMA EndMaps ==
  ASSUME RunInv, NEW i \in Steps, pc[i] \notin {"idle", "done"},
         pc' = [pc EXCEPT ![i] = "done"], UNCHANGED <<phase, steps>>
  PROVE  Schedules!Next
<1> DEFINE n == Len(steps)
           Run == {j \in 1..n : pc[j] \notin {"idle", "done"}}
           x == steps[i].id
<1>1. steps \in Seq(StepType) /\ Distinct(steps) /\ Steps = 1..n /\ Ended \in SUBSET (1..n)
  BY RunNames
<1>2. pc \in [Idx -> Stages] /\ Steps \subseteq Idx
  BY PlacesAre DEF RunInv, TypeOK
<1>3. {j \in 1..n : pc'[j] \notin {"idle", "done"}} = Run \ {i} /\ Ended' = Ended \cup {i}
  BY <1>1, <1>2 DEF Ended, Steps
<1>4. /\ RunningIds = IdsOf(steps, Run) /\ RunningIds' = IdsOf(steps, Run \ {i})
      /\ EndedIds = IdsOf(steps, Ended) /\ EndedIds' = IdsOf(steps, Ended \cup {i})
  BY <1>1, <1>3 DEF RunningIds, EndedIds, Ended, Steps
<1>5. IdsOf(steps, {i}) = {x}
  BY DEF IdsOf
<1>6. RunningIds' = RunningIds \ {x}
  <2>1. Run \in SUBSET (1..n) /\ {i} \in SUBSET (1..n)
    BY <1>1
  <2>2. \A S, T \in SUBSET (1..n) : IdsOf(steps, S) \ IdsOf(steps, T) = IdsOf(steps, S \ T)
    BY <1>1, NamesAre
  <2>3. IdsOf(steps, Run) \ IdsOf(steps, {i}) = IdsOf(steps, Run \ {i})
    <3>. HIDE DEF Run
    <3>. QED
      BY <2>1, <2>2
  <2>. HIDE DEF Run, x
  <2>. QED
    BY <1>4, <1>5, <2>3
<1>7. EndedIds' = EndedIds \cup {x}
  BY <1>4 DEF IdsOf
<1>8. x \in RunningIds /\ x \in Idx
  <2>1. i \in Run
    BY <1>1
  <2>2. x \in RunningIds
    BY <1>4, <2>1 DEF IdsOf
  <2>. QED
    BY <2>2, PlacesAre DEF StepType
<1>9. Begun' = Begun
  BY DEF Begun
<1>10. Schedules!End(x)
  BY <1>6, <1>7, <1>8, <1>9 DEF Schedules!End
<1>. QED
  BY <1>8, <1>10 DEF Schedules!Next

LEMMA BeginMaps ==
  ASSUME Begin
  PROVE  Schedules!Next
<1>1. Begun = FALSE /\ Begun' = TRUE /\ UNCHANGED <<steps, pc>>
  BY DEF Begin, Begun, stepVars
<1>2. RunningIds' = RunningIds /\ EndedIds' = EndedIds
  BY <1>1 DEF RunningIds, EndedIds, Steps
<1>3. Schedules!Begin
  BY <1>1, <1>2 DEF Schedules!Begin
<1>. QED
  BY <1>3 DEF Schedules!Next

(* Steps whose files lie apart clash nowhere.                              *)
LEMMA ApartIs ==
  ASSUME RunInv, NEW i \in Steps, NEW j \in Steps, FilesApart(steps, i, j)
  PROVE  Schedules!Apart(steps[i].id, steps[j].id)
<1>1. /\ WritesOf(steps)[steps[i].id] = steps[i].files
      /\ WritesOf(steps)[steps[j].id] = steps[j].files
  BY RunNames, NamesAre
<1>2. \A f \in steps[i].files, g \in steps[j].files :
        <<f, g>> \notin Clashing /\ <<g, f>> \notin Clashing
  BY DEF FilesApart, Overlaps, Clashing
<1>. QED
  BY <1>1, <1>2 DEF Schedules!Apart, FilesApart

LEMMA NextWaveMaps ==
  ASSUME RunInv, NextWave
  PROVE  Schedules!Next
<1> DEFINE n == Len(steps)
           S == IdsOf(steps, wave')
<1>1. /\ phase = "running" /\ wave = {}
      /\ pc' = [i \in Idx |-> IF i \in wave' THEN "dispatch" ELSE pc[i]]
      /\ UNCHANGED <<phase, steps>>
  BY DEF NextWave, Free, planVars
<1>2. /\ wave' # {} /\ wave' \subseteq Steps \ Dispatched
      /\ \A i, j \in wave' : i # j => FilesApart(steps, i, j)
      /\ Ordered(steps) => \A i \in wave' : Valid(steps, i) \subseteq Dispatched
  BY NextWaveIs
<1>3. /\ steps \in Seq(StepType) /\ Distinct(steps) /\ Steps = 1..n /\ Ended = Dispatched
      /\ EndedIds = IdsOf(steps, Ended) /\ Ended \in SUBSET (1..n) /\ wave' \in SUBSET (1..n)
      /\ Steps \subseteq Idx
  BY <1>2, RunNames, PlacesAre
<1>4. \A i \in Idx : pc[i] \in {"idle", "done"}
  BY <1>1 DEF RunInv, OnTheirWay
<1>5. RunningIds = {} /\ RunningIds' = S /\ EndedIds' = EndedIds
  <2>1. {i \in Steps : pc[i] \notin {"idle", "done"}} = {}
    BY <1>3, <1>4
  <2>2. {i \in Steps' : pc'[i] \notin {"idle", "done"}} = wave'
    BY <1>1, <1>2, <1>3, <1>4 DEF Steps
  <2>3. {i \in Steps' : pc'[i] = "done"} = Ended
    BY <1>1, <1>2, <1>3 DEF Ended, Steps
  <2>4. RunningIds = {}
    BY <2>1 DEF RunningIds, IdsOf
  <2>5. RunningIds' = S /\ EndedIds' = IdsOf(steps, Ended)
    BY <1>1, <2>2, <2>3 DEF RunningIds, EndedIds
  <2>. QED
    BY <1>3, <2>4, <2>5
<1>6. S \subseteq Schedules!Known \ (RunningIds \cup EndedIds) /\ S # {} /\ S \in SUBSET Idx
  <2>1. \A i \in wave' : /\ steps[i].id \in IdsOf(steps, 1..n)
                         /\ steps[i].id \notin IdsOf(steps, Ended)
    BY <1>2, <1>3, NamesAre
  <2>2. /\ Schedules!Known = IdsOf(steps, 1..n)
        /\ IdsOf(steps, 1..n) \in SUBSET Idx
    BY <1>3, NamesAre DEF Schedules!Known
  <2>3. \A x \in S : \E i \in wave' : x = steps[i].id
    BY DEF IdsOf
  <2>4. S # {}
    BY <1>2 DEF IdsOf
  <2>. QED
    BY <1>3, <1>5, <2>1, <2>2, <2>3, <2>4
<1>7. ASSUME Ordered(steps), NEW x \in S PROVE Befores(steps)[x] \subseteq EndedIds
  <2>1. PICK i \in wave' : x = steps[i].id
    BY DEF IdsOf
  <2>2. Befores(steps)[x] = IdsOf(steps, Valid(steps, i))
    BY <1>3, <2>1, NamesAre
  <2>3. Valid(steps, i) \subseteq Ended
    BY <1>2, <1>3, <1>7
  <2>. QED
    BY <1>3, <2>2, <2>3 DEF IdsOf
<1>8. ASSUME NEW x \in S, NEW y \in S, x # y PROVE Schedules!Apart(x, y)
  <2>1. PICK i \in wave', j \in wave' : x = steps[i].id /\ y = steps[j].id
    BY DEF IdsOf
  <2>2. i # j /\ i \in Steps /\ j \in Steps
    BY <1>2, <1>8, <2>1
  <2>. QED
    BY <1>2, <2>1, <2>2, ApartIs
<1>9. Begun /\ Begun' = Begun
  BY <1>1 DEF Begun
<1>10. Schedules!Start(S)
  <2>. HIDE DEF S
  <2>. QED
    BY <1>1, <1>5, <1>6, <1>7, <1>8, <1>9 DEF Schedules!Start
<1>. QED
  BY <1>6, <1>10 DEF Schedules!Next

(* The names of a plan s show a plan t that loses the steps of Q, and      *)
(* gives x other dependencies.                                             *)
NamesRevised(s, t, x, Q) ==
  /\ DOMAIN Befores(t) = DOMAIN Befores(s) \ Q
  /\ Befores(t) \in [DOMAIN Befores(s) \ Q -> SUBSET Idx]
  /\ WritesOf(t) = [j \in DOMAIN Befores(s) \ Q |-> WritesOf(s)[j]]
  /\ \A j \in DOMAIN Befores(s) \ (Q \cup {x}) :
       Befores(t)[j] = Befores(s)[j] /\ Befores(s)[j] \cap Q = {}

LEMMA KeepsNames ==
  ASSUME NEW s \in Seq(StepType), Distinct(s), NEW t \in Seq(StepType),
         NEW kept, NEW i, NEW R \in SUBSET (1..Len(s)), Keeps(s, t, kept, i, R),
         NEW x, i \notin 1..Len(s) \/ x = s[i].id
  PROVE  NamesRevised(s, t, x, IdsOf(s, R))
<1> DEFINE n == Len(s)
           m == Len(kept)
           S == (1..n) \ R
           D == IdsOf(s, 1..n) \ IdsOf(s, R)
<1>1. /\ n \in Nat /\ m \in Nat /\ Len(t) = m
      /\ Lists(kept, S)
      /\ \A k \in 1..m :
           /\ kept[k] \in S /\ t[k].id = s[kept[k]].id /\ t[k].files = s[kept[k]].files
           /\ kept[k] # i => /\ Valid(t, k) = {l \in 1..m : kept[l] \in Valid(s, kept[k])}
                             /\ Valid(s, kept[k]) \cap R = {}
      /\ \A a, b \in 1..m : kept[a] = kept[b] <=> a = b
      /\ \A d \in S : \E k \in 1..m : kept[k] = d
  <2>1. n \in Nat
    BY ListIn
  <2>2. Lists(kept, S) /\ S \in SUBSET Nat
    BY <2>1 DEF Keeps
  <2>3. /\ m \in Nat /\ kept \in Seq(S)
        /\ \A a, b \in 1..m : kept[a] = kept[b] <=> a = b
    <3>. HIDE DEF S
    <3>. QED
      BY <2>2, ListsApart
  <2>4. \A k \in 1..m : kept[k] \in S
    BY <2>3
  <2>5. \A d \in S : \E k \in 1..m : kept[k] = d
    BY <2>2 DEF Lists
  <2>. QED
    BY <2>1, <2>2, <2>3, <2>4, <2>5 DEF Keeps
<1>. HIDE DEF n, m
<1>2. Distinct(t)
  <2> SUFFICES ASSUME NEW a \in 1..m, NEW b \in 1..m, t[a].id = t[b].id PROVE a = b
    BY <1>1 DEF Distinct
  <2>1. s[kept[a]].id = s[kept[b]].id /\ kept[a] \in 1..n /\ kept[b] \in 1..n
    BY <1>1
  <2>2. kept[a] = kept[b]
    BY <2>1 DEF Distinct, n
  <2>. QED
    BY <1>1, <2>2
<1>3. /\ DOMAIN Befores(s) = IdsOf(s, 1..n)
      /\ \A j \in 1..n : /\ s[j].id \in IdsOf(s, 1..n)
                         /\ Befores(s)[s[j].id] = IdsOf(s, Valid(s, j))
                         /\ WritesOf(s)[s[j].id] = s[j].files
      /\ \A T \in SUBSET (1..n) : \A j \in 1..n : s[j].id \in IdsOf(s, T) <=> j \in T
      /\ D = IdsOf(s, S)
  <2>1. /\ DOMAIN Befores(s) = IdsOf(s, 1..n)
        /\ \A j \in 1..n : /\ s[j].id \in IdsOf(s, 1..n)
                           /\ Befores(s)[s[j].id] = IdsOf(s, Valid(s, j))
                           /\ WritesOf(s)[s[j].id] = s[j].files
        /\ \A T \in SUBSET (1..n) : \A j \in 1..n : s[j].id \in IdsOf(s, T) <=> j \in T
    BY NamesAre DEF n
  <2>2. \A T, U \in SUBSET (1..n) : IdsOf(s, T) \ IdsOf(s, U) = IdsOf(s, T \ U)
    BY NamesAre DEF n
  <2>3. D = IdsOf(s, S)
    BY <2>2 DEF n
  <2>. QED
    BY <2>1, <2>3
<1>4. /\ DOMAIN Befores(t) = IdsOf(t, 1..m) /\ DOMAIN WritesOf(t) = IdsOf(t, 1..m)
      /\ Befores(t) \in [IdsOf(t, 1..m) -> SUBSET Idx]
      /\ WritesOf(t) \in [IdsOf(t, 1..m) -> SUBSET Files]
      /\ \A k \in 1..m : /\ Befores(t)[t[k].id] = IdsOf(t, Valid(t, k))
                         /\ WritesOf(t)[t[k].id] = t[k].files
  <2>1. /\ DOMAIN Befores(t) = IdsOf(t, 1..Len(t)) /\ DOMAIN WritesOf(t) = IdsOf(t, 1..Len(t))
        /\ Befores(t) \in [IdsOf(t, 1..Len(t)) -> SUBSET Idx]
        /\ WritesOf(t) \in [IdsOf(t, 1..Len(t)) -> SUBSET Files]
        /\ \A k \in 1..Len(t) : /\ Befores(t)[t[k].id] = IdsOf(t, Valid(t, k))
                                 /\ WritesOf(t)[t[k].id] = t[k].files
    BY <1>2, NamesAre
  <2>2. Len(t) = m
    BY <1>1
  <2>. QED
    BY <2>1, <2>2
<1>5. IdsOf(t, 1..m) = D
  <2>1. ASSUME NEW k \in 1..m PROVE t[k].id \in IdsOf(s, S)
    <3>1. \A d \in S : s[d].id \in IdsOf(s, S)
      BY DEF IdsOf
    <3>2. kept[k] \in S /\ t[k].id = s[kept[k]].id
      BY <1>1
    <3>. HIDE DEF S
    <3>. QED
      BY <3>1, <3>2
  <2>2. ASSUME NEW d \in S PROVE s[d].id \in IdsOf(t, 1..m)
    <3>1. PICK k \in 1..m : kept[k] = d
      BY <1>1
    <3>2. t[k].id = s[d].id
      BY <1>1, <3>1
    <3>. QED
      BY <3>2 DEF IdsOf
  <2>3. IdsOf(t, 1..m) \subseteq IdsOf(s, S)
    BY <2>1 DEF IdsOf
  <2>4. IdsOf(s, S) \subseteq IdsOf(t, 1..m)
    <3>1. \A y \in IdsOf(s, S) : \E d \in S : y = s[d].id
      BY DEF IdsOf
    <3>. QED
      BY <2>2, <3>1
  <2>. QED
    BY <1>3, <2>3, <2>4
<1>6. \A y \in D : \E k \in 1..m : y = t[k].id /\ y = s[kept[k]].id
  <2>1. \A y \in D : \E k \in 1..m : y = t[k].id
    BY <1>5 DEF IdsOf
  <2>2. \A k \in 1..m : t[k].id = s[kept[k]].id
    BY <1>1
  <2>. QED
    BY <2>1, <2>2
<1>7. \A y \in D : WritesOf(t)[y] = WritesOf(s)[y]
  <2> TAKE y \in D
  <2>1. PICK k \in 1..m : y = t[k].id /\ y = s[kept[k]].id
    BY <1>6
  <2>2. kept[k] \in S /\ kept[k] \in 1..n /\ t[k].files = s[kept[k]].files
    BY <1>1
  <2>3. WritesOf(s)[y] = s[kept[k]].files
    BY <1>3, <2>1, <2>2
  <2>4. WritesOf(t)[y] = t[k].files
    BY <1>4, <2>1
  <2>. QED
    BY <2>2, <2>3, <2>4
<1>8. WritesOf(t) = [j \in D |-> WritesOf(s)[j]]
  <2>. HIDE DEF D
  <2>. QED
    BY <1>4, <1>5, <1>7
<1>9. ASSUME NEW y \in D, y # x
      PROVE  Befores(t)[y] = Befores(s)[y] /\ Befores(s)[y] \cap IdsOf(s, R) = {}
  <2>1. PICK k \in 1..m : y = t[k].id /\ y = s[kept[k]].id
    BY <1>6
  <2>2. kept[k] \in S /\ kept[k] \in 1..n
    BY <1>1
  <2>3. kept[k] # i
    BY <1>9, <2>1, <2>2 DEF n
  <2>4. /\ Valid(t, k) = {l \in 1..m : kept[l] \in Valid(s, kept[k])}
        /\ Valid(s, kept[k]) \cap R = {} /\ Valid(s, kept[k]) \in SUBSET (1..n)
    BY <1>1, <2>3 DEF Valid, n
  <2>5. Befores(s)[y] = IdsOf(s, Valid(s, kept[k])) /\ Befores(t)[y] = IdsOf(t, Valid(t, k))
    BY <1>3, <1>4, <2>1, <2>2
  <2>6. IdsOf(t, Valid(t, k)) \subseteq IdsOf(s, Valid(s, kept[k]))
    <3>1. ASSUME NEW l \in Valid(t, k) PROVE t[l].id \in IdsOf(s, Valid(s, kept[k]))
      <4>1. l \in 1..m /\ kept[l] \in Valid(s, kept[k])
        BY <2>4
      <4>2. t[l].id = s[kept[l]].id
        BY <1>1, <4>1
      <4>. QED
        BY <4>1, <4>2 DEF IdsOf
    <3>. QED
      BY <3>1 DEF IdsOf
  <2>7. IdsOf(s, Valid(s, kept[k])) \subseteq IdsOf(t, Valid(t, k))
    <3>1. ASSUME NEW d \in Valid(s, kept[k]) PROVE s[d].id \in IdsOf(t, Valid(t, k))
      <4>1. d \in S
        BY <2>4
      <4>2. PICK l \in 1..m : kept[l] = d
        BY <1>1, <4>1
      <4>3. l \in Valid(t, k) /\ t[l].id = s[d].id
        BY <1>1, <2>4, <4>2
      <4>. QED
        BY <4>3 DEF IdsOf
    <3>2. \A z \in IdsOf(s, Valid(s, kept[k])) : \E d \in Valid(s, kept[k]) : z = s[d].id
      BY DEF IdsOf
    <3>. QED
      BY <3>1, <3>2
  <2>8. IdsOf(s, Valid(s, kept[k])) \cap IdsOf(s, R) = {}
    <3>1. ASSUME NEW d \in Valid(s, kept[k]) PROVE s[d].id \notin IdsOf(s, R)
      <4>1. d \in 1..n /\ d \notin R /\ R \in SUBSET (1..n)
        BY <2>4 DEF n
      <4>. QED
        BY <1>3, <4>1
    <3>2. \A z \in IdsOf(s, Valid(s, kept[k])) : \E d \in Valid(s, kept[k]) : z = s[d].id
      BY DEF IdsOf
    <3>. QED
      BY <3>1, <3>2
  <2>9. IdsOf(t, Valid(t, k)) = IdsOf(s, Valid(s, kept[k]))
    BY <2>6, <2>7
  <2>. QED
    BY <2>5, <2>8, <2>9
<1>10. DOMAIN Befores(s) \ IdsOf(s, R) = D
  BY <1>3
<1>. HIDE DEF D
<1>. QED
  BY <1>4, <1>5, <1>8, <1>9, <1>10 DEF NamesRevised

LEMMA ApproveMaps ==
  ASSUME RunInv, NEW i \in Idx \cup {0}, NEW deps, NEW R \in SUBSET Steps,
         Approve(i, deps, R)
  PROVE  Schedules!Next \/ UNCHANGED Schedules!vars
<1>1. /\ phase = "review" /\ phase' = "approved" /\ pc' = pc
      /\ Ordered(steps) => Ordered(steps')
      /\ i # 0 => i \in Steps
      /\ i = 0 /\ R = {} => steps' = steps
  BY DEF Approve, stepVars
<1>2. Begun = FALSE /\ Begun' = Begun
  BY <1>1 DEF Begun
<1>3. /\ steps \in Seq(StepType) /\ Distinct(steps) /\ Steps = 1..Len(steps)
      /\ Steps \subseteq Idx /\ 0 \notin Idx
  BY RunNames, PlacesAre DEF Nobody
<1>4. CASE i = 0 /\ R = {}
  BY <1>1, <1>2, <1>4, StutterMaps
<1>5. CASE ~ (i = 0 /\ R = {})
  <2>1. PICK j \in Steps : i # 0 => j = i
    BY <1>1, <1>5
  <2> DEFINE x == steps[j].id
             Q == IdsOf(steps, R)
  <2>2. x \in Idx /\ (i \in 1..Len(steps) => x = steps[i].id)
    BY <1>3, <2>1, PlacesAre DEF StepType
  <2>3. PICK kept : Keeps(steps, steps', kept, i, R)
    BY ApproveIs
  <2>4. steps' \in Seq(StepType)
    BY ApproveIs
  <2>5. NamesRevised(steps, steps', x, Q)
    <3>1. R \in SUBSET (1..Len(steps))
      BY <1>3
    <3>2. i \notin 1..Len(steps) \/ x = steps[i].id
      BY <2>2
    <3>. HIDE DEF x
    <3>. QED
      BY <1>3, <2>3, <2>4, <3>1, <3>2, KeepsNames
  <2>6. Q \in SUBSET Idx
    <3>1. \A k \in R : steps[k].id \in Idx
      BY <1>3, PlacesAre DEF StepType
    <3>. QED
      BY <3>1 DEF IdsOf
  <2>7. UNCHANGED <<RunningIds, EndedIds>>
    <3>1. \A k \in Idx : pc[k] = "idle"
      BY <1>1 DEF RunInv, Unbegun
    <3>2. Steps' \subseteq Idx
      <4>1. Len(steps') \in Nat /\ Len(steps') <= Len(steps)
        BY <2>3, <2>4, ListIn DEF Keeps
      <4>2. 1..Len(steps') \subseteq 1..Len(steps)
        BY <1>3, <4>1, PlacesAre
      <4>. QED
        BY <1>3, <4>2 DEF Steps
    <3>3. /\ {k \in Steps : pc[k] \notin {"idle", "done"}} = {}
          /\ {k \in Steps : pc[k] = "done"} = {}
          /\ {k \in Steps' : pc'[k] \notin {"idle", "done"}} = {}
          /\ {k \in Steps' : pc'[k] = "done"} = {}
      BY <1>1, <1>3, <3>1, <3>2
    <3>4. IdsOf(steps, {}) = {} /\ IdsOf(steps', {}) = {}
      BY DEF IdsOf
    <3>5. RunningIds = {} /\ EndedIds = {}
      BY <3>3, <3>4 DEF RunningIds, EndedIds
    <3>6. RunningIds' = {} /\ EndedIds' = {}
      BY <3>3, <3>4 DEF RunningIds, EndedIds
    <3>. QED
      BY <3>5, <3>6
  <2>8. Ordered(steps') \in BOOLEAN
    BY DEF Ordered
  <2>9. Schedules!Revise(x, Q)
    <3>. HIDE DEF x, Q
    <3>. QED
      BY <1>1, <1>2, <2>5, <2>7, <2>8
         DEF NamesRevised, Schedules!Revise, Schedules!Known
  <2>. QED
    BY <2>2, <2>6, <2>9 DEF Schedules!Next
<1>. QED
  BY <1>4, <1>5

LEMMA IntegrateMaps ==
  ASSUME RunInv, Integrate
  PROVE  Schedules!Next \/ UNCHANGED Schedules!vars
<1> DEFINE n == Len(steps)
<1>1. /\ phase = "running" /\ wave = {} /\ phase' = phase /\ pc' = pc
  BY DEF Integrate, stepVars
<1>2. Begun = TRUE /\ Begun' = Begun
  BY <1>1 DEF Begun
<1>3. CASE steps' = steps
  BY <1>1, <1>2, <1>3, StutterMaps
<1>4. CASE steps' # steps
  <2>1. PICK parent \in Ended :
          /\ steps' \in Seq(StepType) /\ Len(steps') = Len(steps) + 1
          /\ \A i \in Steps : steps'[i] = steps[i]
          /\ steps'[Len(steps) + 1].id = NewId /\ steps'[Len(steps) + 1].deps = {parent}
          /\ steps'[Len(steps) + 1].depth > 0
          /\ NewId \in Idx /\ Len(steps) + 1 \in Idx
    BY <1>4, JoiningIs
  <2>2. /\ steps \in Seq(StepType) /\ Distinct(steps) /\ Steps = 1..n
        /\ Ended \in SUBSET (1..n) /\ n \in Nat /\ Steps \subseteq Idx
        /\ EndedIds = IdsOf(steps, Ended)
    BY RunNames, PlacesAre
  <2>3. RunInv'
    BY IntegrateKeepsRun
  <2>4. Distinct(steps') /\ Steps' = 1..(n + 1)
    BY <2>1, <2>3, PlacesAre DEF RunInv, Named, Distinct, Steps
  <2>. HIDE DEF n
  <2>5. Steps' = Steps \cup {n + 1} /\ n + 1 \notin Steps /\ n + 1 \in 1..(n + 1)
        /\ \A i \in 1..n : i \in 1..(n + 1)
    BY <2>2, <2>4
  <2>6. pc[n + 1] = "idle"
    BY <2>1, <2>2, <2>5 DEF RunInv, OnTheirWay, n
  <2>7. /\ Valid(steps', n + 1) = {parent}
        /\ Ordered(steps) => /\ Ordered(steps')
                             /\ \A i \in 1..n : Valid(steps', i) = Valid(steps, i)
    <3>1. parent \in 1..Len(steps) /\ Len(steps) \in Nat /\ Len(steps') = Len(steps) + 1
      BY <2>1, <2>2 DEF n
    <3>2. \A i \in 1..Len(steps) : steps'[i] = steps[i]
      BY <2>1, <2>2 DEF n
    <3>3. steps'[Len(steps) + 1].deps = {parent}
      BY <2>1
    <3>. QED
      BY <3>1, <3>2, <3>3, JoinedOrder DEF n
  <2>8. \A S \in SUBSET (1..n) : IdsOf(steps', S) = IdsOf(steps, S)
    <3>1. \A i \in 1..n : steps'[i].id = steps[i].id
      BY <2>1, <2>2
    <3>. QED
      BY <3>1 DEF IdsOf
  <2>9. UNCHANGED <<RunningIds, EndedIds>>
    <3> DEFINE On == {i \in Steps : pc[i] \notin {"idle", "done"}}
               Off == {i \in Steps : pc[i] = "done"}
    <3>1. /\ {i \in Steps' : pc'[i] \notin {"idle", "done"}} = On
          /\ {i \in Steps' : pc'[i] = "done"} = Off
      BY <1>1, <2>5, <2>6
    <3>2. RunningIds = IdsOf(steps, On) /\ EndedIds = IdsOf(steps, Off)
      BY DEF RunningIds, EndedIds
    <3>3. RunningIds' = IdsOf(steps', On) /\ EndedIds' = IdsOf(steps', Off)
      BY <3>1 DEF RunningIds, EndedIds
    <3>4. On \in SUBSET (1..n) /\ Off \in SUBSET (1..n)
      BY <2>2
    <3>. HIDE DEF On, Off
    <3>. QED
      BY <2>8, <3>2, <3>3, <3>4
  <2>10. /\ DOMAIN Befores(steps) = IdsOf(steps, 1..n)
         /\ \A i \in 1..n : /\ steps[i].id \in IdsOf(steps, 1..n)
                            /\ Befores(steps)[steps[i].id] = IdsOf(steps, Valid(steps, i))
                            /\ WritesOf(steps)[steps[i].id] = steps[i].files
    BY <2>2, NamesAre DEF n
  <2>11. /\ DOMAIN Befores(steps') = IdsOf(steps', 1..(n + 1))
         /\ Befores(steps') \in [IdsOf(steps', 1..(n + 1)) -> SUBSET Idx]
         /\ WritesOf(steps') \in [IdsOf(steps', 1..(n + 1)) -> SUBSET Files]
         /\ \A i \in 1..(n + 1) :
              /\ Befores(steps')[steps'[i].id] = IdsOf(steps', Valid(steps', i))
              /\ WritesOf(steps')[steps'[i].id] = steps'[i].files
    BY <2>1, <2>4, NamesAre DEF n
  <2>12. /\ IdsOf(steps', 1..(n + 1)) = IdsOf(steps, 1..n) \cup {NewId}
         /\ NewId \notin IdsOf(steps, 1..n)
    <3>1. \A i \in 1..n : steps'[i].id = steps[i].id
      BY <2>1, <2>2
    <3>2. \A i \in 1..n : steps'[i].id # steps'[n + 1].id
      BY <2>1, <2>2, <2>4, <2>5 DEF Distinct, n
    <3>3. steps'[n + 1].id = NewId
      BY <2>1 DEF n
    <3>4. \A i \in 1..(n + 1) : i \in 1..n \/ i = n + 1
      BY <2>2
    <3>. QED
      BY <2>5, <3>1, <3>2, <3>3, <3>4 DEF IdsOf
  <2>13. \A y \in IdsOf(steps, 1..n) : \E i \in 1..n : y = steps[i].id /\ y = steps'[i].id
    BY <2>1, <2>2 DEF IdsOf
  <2>14. \A y \in IdsOf(steps, 1..n) : WritesOf(steps')[y] = WritesOf(steps)[y]
    <3> TAKE y \in IdsOf(steps, 1..n)
    <3>1. PICK i \in 1..n : y = steps[i].id /\ y = steps'[i].id
      BY <2>13
    <3>2. WritesOf(steps)[y] = steps[i].files /\ steps'[i] = steps[i]
      BY <2>1, <2>2, <2>10, <3>1
    <3>3. WritesOf(steps')[y] = steps'[i].files
      BY <2>5, <2>11, <3>1
    <3>. QED
      BY <3>2, <3>3
  <2>15. ASSUME Ordered(steps), NEW y \in IdsOf(steps, 1..n)
         PROVE  Befores(steps')[y] = Befores(steps)[y]
    <3>1. PICK i \in 1..n : y = steps[i].id /\ y = steps'[i].id
      BY <2>13
    <3>2. Valid(steps', i) = Valid(steps, i) /\ Valid(steps, i) \in SUBSET (1..n)
      BY <2>7, <2>15 DEF Valid, n
    <3>3. Befores(steps)[y] = IdsOf(steps, Valid(steps, i))
      BY <2>10, <3>1
    <3>4. Befores(steps')[y] = IdsOf(steps', Valid(steps', i))
      BY <2>5, <2>11, <3>1
    <3>5. IdsOf(steps', Valid(steps, i)) = IdsOf(steps, Valid(steps, i))
      BY <2>8, <3>2
    <3>. QED
      BY <3>2, <3>3, <3>4, <3>5
  <2>16. Befores(steps')[NewId] = {steps[parent].id} /\ steps[parent].id \in EndedIds
    <3>1. Befores(steps')[NewId] = IdsOf(steps', {parent})
      BY <2>1, <2>5, <2>7, <2>11 DEF n
    <3>2. IdsOf(steps', {parent}) = {steps'[parent].id} /\ steps'[parent] = steps[parent]
      BY <2>1, <2>2 DEF IdsOf
    <3>3. steps[parent].id \in IdsOf(steps, Ended)
      BY DEF IdsOf
    <3>. QED
      BY <2>2, <3>1, <3>2, <3>3
  <2>17. RunningIds = {}
    <3>1. {i \in Steps : pc[i] \notin {"idle", "done"}} = {}
      BY <1>1, <2>2 DEF RunInv, OnTheirWay
    <3>. QED
      BY <3>1 DEF RunningIds, IdsOf
  <2>18. Ordered(steps') \in BOOLEAN
    BY DEF Ordered
  <2>19. Schedules!Add(NewId)
    BY <1>2, <2>1, <2>7, <2>9, <2>10, <2>11, <2>12, <2>14, <2>15, <2>16, <2>17,
       <2>18
    DEF Schedules!Add, Schedules!Known
  <2>. QED
    BY <2>1, <2>19 DEF Schedules!Next
<1>. QED
  BY <1>3, <1>4

LEMMA WorkMaps ==
  ASSUME RunInv, NEW i \in Idx, Work(i)
  PROVE  Schedules!Next \/ UNCHANGED Schedules!vars
<1>1. /\ UNCHANGED steps /\ pc[i] \notin {"idle", "done"}
      /\ \E stage \in Stages \ {"idle"} :
           /\ pc' = [pc EXCEPT ![i] = stage]
           /\ phase' = phase \/ (phase' = "raised" /\ stage # "done")
  BY DEF Work, TurnAway, TakeSlot, Fail, Retry, Settle, Develop, AddFiles,
     Commit, Raise, QA, Review, Pass, Gates, GoTo, At, Stages, planVars
<1>2. i \in Steps /\ phase \in {"running", "raised"}
  BY <1>1, BusyIs
<1>3. PICK stage \in Stages \ {"idle"} :
        /\ pc' = [pc EXCEPT ![i] = stage]
        /\ phase' = phase \/ (phase' = "raised" /\ stage # "done")
  BY <1>1
<1>4. CASE stage = "done"
  BY <1>1, <1>2, <1>3, <1>4, EndMaps
<1>5. CASE stage # "done"
  <2>1. Begun' = Begun
    BY <1>2, <1>3 DEF Begun
  <2>2. \A j \in Steps : /\ pc'[j] = "done" <=> pc[j] = "done"
                         /\ pc'[j] = "idle" <=> pc[j] = "idle"
    BY <1>1, <1>3, <1>5, PlacesAre DEF RunInv, TypeOK
  <2>. QED
    BY <1>1, <2>1, <2>2, StutterMaps
<1>. QED
  BY <1>4, <1>5

LEMMA StepMaps == RunInv /\ [Next]_vars => [Schedules!Next]_(Schedules!vars)
<1> SUFFICES ASSUME RunInv, [Next]_vars PROVE Schedules!Next \/ UNCHANGED Schedules!vars
  OBVIOUS
<1>1. CASE \E i \in Idx \cup {0}, d \in Edits, R \in SUBSET Steps : Approve(i, d, R)
  BY <1>1, ApproveMaps
<1>2. CASE \E i \in Idx : Work(i)
  BY <1>2, WorkMaps
<1>3. CASE EndWave \/ Return \/ (\E i \in Idx : \E p \in Offers : Propose(i, p)) \/ UNCHANGED vars
  <2>1. UNCHANGED <<steps, pc>>
    BY <1>3 DEF EndWave, Return, Propose, planVars, stepVars, vars
  <2>2. Begun' = Begun
    <3>1. CASE EndWave
      <4>1. phase = "running" /\ (phase' = "returned" \/ phase' = phase)
        BY <3>1 DEF EndWave
      <4>. QED
        BY <4>1 DEF Begun
    <3>2. CASE Return
      BY <3>2 DEF Return, Begun
    <3>3. CASE phase' = phase
      BY <3>3 DEF Begun
    <3>. QED
      BY <1>3, <3>1, <3>2, <3>3 DEF Propose, vars
  <2>. QED
    BY <2>1, <2>2, StutterMaps
<1>4. CASE \E i \in Idx : LateCommit(i) \/ Collect(i)
  <2>1. Begun' = Begun /\ steps' = steps
    BY <1>4 DEF LateCommit, Collect, planVars, Begun
  <2>2. \A i \in Steps : /\ pc'[i] = "done" <=> pc[i] = "done"
                         /\ pc'[i] = "idle" <=> pc[i] = "idle"
    BY <1>4, PlacesAre
       DEF LateCommit, Collect, stepVars, GoTo, At, RunInv, TypeOK
  <2>. QED
    BY <2>1, <2>2, StutterMaps
<1>. QED
  BY <1>1, <1>2, <1>3, <1>4, BeginMaps, NextWaveMaps, IntegrateMaps
     DEF Next, Manage

(* The waves of any plan, with its edits and the steps that join it, keep  *)
(* the promises of SubtaskSchedule.                                        *)
THEOREM Refinement == Spec => KeepsSchedule
BY InitMaps, StepMaps, RunInvariance, PTL
   DEF Spec, KeepsSchedule, Schedules!Spec
=============================================================================
