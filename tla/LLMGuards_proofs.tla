-------------------------- MODULE LLMGuards_proofs --------------------------
(***************************************************************************)
(* TLAPS proofs about the two guards of every call of the LLM provider:    *)
(* the daily spend cap (SpendGuard), for every set of processes, calls and *)
(* amounts, and the circuit breaker (CircuitBreaker), for every set of     *)
(* callers, every threshold and every cooldown.  The two share no state.   *)
(***************************************************************************)
EXTENDS SpendGuard, CircuitBreaker, FiniteSetTheorems, NaturalsInduction,
        WellFoundedInduction, TLAPS

-----------------------------------------------------------------------------
(* Sums over finite sets.                                                  *)

Pick(s) == CHOOSE x \in s : TRUE

(* g adds up f over the subsets of S, as the folds of the library do.      *)
Adds(S, f, g) ==
  g = [s \in SUBSET S |-> IF s = {} THEN 0 ELSE f[Pick(s)] + g[s \ {Pick(s)}]]

Total(S, f) == (CHOOSE g : Adds(S, f, g))[S]

LEMMA PickIs ==
  ASSUME NEW s, s # {}
  PROVE  Pick(s) \in s
BY DEF Pick

(* A set of naturals that is not empty has a least one.                    *)
LEMMA LeastNatural ==
  ASSUME NEW T \in SUBSET Nat, T # {}
  PROVE  \E x \in T : \A y \in T : x <= y
<1> DEFINE R == {ss \in Nat \X Nat : ss[1] < ss[2]}
<1>1. IsWellFoundedOn(R, Nat)
  BY NatLessThanWellFounded DEF OpToRel
<1>2. PICK x \in T : \A y \in T : ~ (<<y, x>> \in R)
  <2> HIDE DEF R
  <2>. QED
    BY <1>1, WFMin
<1>3. \A y \in T : ~ (y < x)
  BY <1>2
<1>. QED
  BY <1>3

(* What goes down with a set's size, and holds of none, holds of no set:   *)
(* a family of finite sets that is not empty has a smallest member.        *)
LEMMA SmallestSet ==
  ASSUME NEW S, IsFiniteSet(S), NEW F \in SUBSET SUBSET S, F # {}
  PROVE  \E s \in F : \A t \in F : Cardinality(s) <= Cardinality(t)
<1> DEFINE sizes == {Cardinality(s) : s \in F}
<1>1. \A s \in F : Cardinality(s) \in Nat
  BY FS_Subset, FS_CardinalityType
<1>2. sizes \in SUBSET Nat /\ sizes # {}
  BY <1>1
<1>3. PICK n \in sizes : \A m \in sizes : n <= m
  <2> HIDE DEF sizes
  <2>. QED
    BY <1>2, LeastNatural
<1>. QED
  BY <1>3

LEMMA Smaller ==
  ASSUME NEW S, IsFiniteSet(S), NEW s \in SUBSET S, s # {}
  PROVE  /\ s \ {Pick(s)} \in SUBSET S
         /\ Cardinality(s \ {Pick(s)}) = Cardinality(s) - 1
         /\ Cardinality(s) \in Nat \ {0}
<1>1. IsFiniteSet(s) /\ Cardinality(s) \in Nat
  BY FS_Subset, FS_CardinalityType
<1>2. Cardinality(s) # 0
  BY <1>1, FS_EmptySet
<1>. QED
  BY <1>1, <1>2, PickIs, FS_RemoveElement

(* Sums of the sets of at most n elements.                                 *)
AddsTo(S, f, g, n) ==
  g = [s \in {t \in SUBSET S : Cardinality(t) <= n} |->
         IF s = {} THEN 0 ELSE f[Pick(s)] + g[s \ {Pick(s)}]]

LEMMA AddsExists ==
  ASSUME NEW S, IsFiniteSet(S), NEW f
  PROVE  \E g : Adds(S, f, g)
<1> DEFINE fails == {n \in Nat : ~ \E g : AddsTo(S, f, g, n)}
<1>1. fails = {}
  <2> SUFFICES ASSUME fails # {} PROVE FALSE
    OBVIOUS
  <2>1. PICK n \in fails : \A m \in fails : n <= m
    BY LeastNatural
  <2>2. n \in Nat /\ ~ \E g : AddsTo(S, f, g, n)
    OBVIOUS
  <2> HIDE DEF fails
  <2>3. CASE n = 0
    <3> DEFINE g == [s \in {t \in SUBSET S : Cardinality(t) <= 0} |-> 0]
    <3>1. ASSUME NEW s \in SUBSET S, Cardinality(s) <= 0, s # {} PROVE FALSE
      <4>1. Cardinality(s) \in Nat \ {0}
        BY ONLY IsFiniteSet(S), s \in SUBSET S, <3>1, Smaller
      <4>. QED
        BY <3>1, <4>1
    <3>2. AddsTo(S, f, g, 0)
      BY <3>1 DEF AddsTo
    <3>. QED
      BY <2>2, <2>3, <3>2
  <2>4. CASE n # 0
    <3>1. n - 1 \in Nat /\ ~(n <= n - 1)
      BY <2>2, <2>4
    <3>2. n - 1 \notin fails
      BY <2>1, <3>1
    <3>3. PICK g : AddsTo(S, f, g, n - 1)
      BY <3>1, <3>2 DEF fails
    <3> DEFINE small == {t \in SUBSET S : Cardinality(t) <= n - 1}
               sets  == {t \in SUBSET S : Cardinality(t) <= n}
               h == [s \in sets |->
                       IF s = {} THEN 0 ELSE f[Pick(s)] + g[s \ {Pick(s)}]]
    <3>4. ASSUME NEW s \in small PROVE s \in sets /\ h[s] = g[s]
      <4>1. s \in sets
        BY <2>2, FS_Subset, FS_CardinalityType
      <4>. QED
        BY <3>3, <4>1 DEF AddsTo
    <3>5. ASSUME NEW s \in sets, s # {} PROVE s \ {Pick(s)} \in small
      BY <2>2, <3>5, Smaller
    <3> HIDE DEF small
    <3>6. h = [s \in sets |->
                 IF s = {} THEN 0 ELSE f[Pick(s)] + h[s \ {Pick(s)}]]
      BY <3>4, <3>5
    <3>7. AddsTo(S, f, h, n)
      BY <3>6 DEF AddsTo
    <3>. QED
      BY <2>2, <3>7
  <2>. QED
    BY <2>3, <2>4
<1>2. Cardinality(S) \in Nat
  BY FS_CardinalityType
<1>3. PICK g : AddsTo(S, f, g, Cardinality(S))
  BY <1>1, <1>2
<1>4. {t \in SUBSET S : Cardinality(t) <= Cardinality(S)} = SUBSET S
  BY FS_Subset
<1>5. Adds(S, f, g)
  BY <1>3, <1>4 DEF Adds, AddsTo
<1>. QED
  BY <1>5

(* No term of e exceeds that of f by more than k at x, by more than         *)
(* nothing elsewhere.                                                      *)
Within(S, f, e, x, k) == \A y \in S : e[y] <= f[y] + (IF y = x THEN k ELSE 0)

Exceeds(S, a, b, x, k) ==
  a \in Int /\ b \in Int /\ b <= a + (IF x \in S THEN k ELSE 0)

(* Two sums compared element by element.                                   *)
LEMMA AddsCompare ==
  ASSUME NEW S, IsFiniteSet(S), NEW f \in [S -> Int], NEW g, Adds(S, f, g),
         NEW e \in [S -> Int], NEW h, Adds(S, e, h),
         NEW x, NEW k \in Int, Within(S, f, e, x, k)
  PROVE  Exceeds(S, g[S], h[S], x, k)
<1> USE DEF Within, Exceeds
<1> DEFINE Good(s) == Exceeds(s, g[s], h[s], x, k)
           F == {s \in SUBSET S : ~Good(s)}
<1>1. F = {}
  <2> SUFFICES ASSUME F # {} PROVE FALSE
    OBVIOUS
  <2>1. PICK s \in F : \A t \in F : Cardinality(s) <= Cardinality(t)
    <3> HIDE DEF Good
    <3>. QED
      BY SmallestSet
  <2>2. s \in SUBSET S /\ ~Good(s)
    OBVIOUS
  <2>3. CASE s = {}
    <3>1. g[s] = 0 /\ h[s] = 0
      BY <2>2, <2>3 DEF Adds
    <3>. QED
      BY <2>2, <2>3, <3>1
  <2>4. CASE s # {}
    <3> DEFINE p == Pick(s)
               t == s \ {p}
    <3>1. p \in s /\ p \in S
      BY <2>2, <2>4, PickIs
    <3>2. t \in SUBSET S /\ Cardinality(t) = Cardinality(s) - 1 /\ Cardinality(s) \in Nat
      BY <2>2, <2>4, Smaller
    <3>3. g[s] = f[p] + g[t] /\ h[s] = e[p] + h[t]
      BY <2>2, <2>4 DEF Adds
    <3>4. t \notin F
      <4> HIDE DEF F
      <4>. QED
        BY <2>1, <3>2
    <3>5. Good(t)
      BY <3>2, <3>4
    <3> HIDE DEF p
    <3>6. /\ f[p] \in Int /\ e[p] \in Int
          /\ e[p] <= f[p] + (IF p = x THEN k ELSE 0)
      BY <3>1
    <3>7. x \in s <=> x \in t \/ x = p
      BY <3>1
    <3>8. p \notin t
      OBVIOUS
    <3> HIDE DEF t
    <3>9. Good(s)
      <4>1. CASE x = p
        BY <3>3, <3>5, <3>6, <3>7, <3>8, <4>1
      <4>2. CASE x # p
        BY <3>3, <3>5, <3>6, <3>7, <4>2
      <4>. QED
        BY <4>1, <4>2
    <3>. QED
      BY <2>2, <3>9
  <2>. QED
    BY <2>3, <2>4
<1>. QED
  BY <1>1

LEMMA TotalAdds ==
  ASSUME NEW S, IsFiniteSet(S), NEW f
  PROVE  \E g : Adds(S, f, g) /\ Total(S, f) = g[S]
BY AddsExists DEF Total

LEMMA TotalCompare ==
  ASSUME NEW S, IsFiniteSet(S), NEW f \in [S -> Int], NEW e \in [S -> Int],
         NEW x, NEW k \in Int, Within(S, f, e, x, k)
  PROVE  Exceeds(S, Total(S, f), Total(S, e), x, k)
<1>1. PICK g : Adds(S, f, g) /\ Total(S, f) = g[S]
  BY TotalAdds
<1>2. PICK h : Adds(S, e, h) /\ Total(S, e) = h[S]
  BY TotalAdds
<1>3. Exceeds(S, g[S], h[S], x, k)
  BY <1>1, <1>2, AddsCompare
<1>. QED
  BY <1>1, <1>2, <1>3

(* A sum is an integer; it does not grow when no term does; and when one   *)
(* term changes it changes by as much.                                     *)
LEMMA TotalInt ==
  ASSUME NEW S, IsFiniteSet(S), NEW f \in [S -> Int]
  PROVE  Total(S, f) \in Int
<1>1. Within(S, f, f, {}, 0)
  BY DEF Within
<1>. QED
  BY <1>1, TotalCompare DEF Exceeds

LEMMA TotalMonotone ==
  ASSUME NEW S, IsFiniteSet(S), NEW f \in [S -> Int], NEW e \in [S -> Int],
         \A y \in S : e[y] <= f[y]
  PROVE  Total(S, e) <= Total(S, f)
<1>1. Within(S, f, e, {}, 0)
  BY DEF Within
<1>2. Exceeds(S, Total(S, f), Total(S, e), {}, 0)
  BY <1>1, TotalCompare
<1>. QED
  BY <1>2 DEF Exceeds

LEMMA TotalShift ==
  ASSUME NEW S, IsFiniteSet(S), NEW f \in [S -> Int], NEW e \in [S -> Int],
         NEW x \in S, \A y \in S : y # x => e[y] = f[y]
  PROVE  Total(S, e) = Total(S, f) + e[x] - f[x]
<1>1. e[x] \in Int /\ f[x] \in Int /\ e[x] - f[x] \in Int /\ f[x] - e[x] \in Int
  OBVIOUS
<1>2. Within(S, f, e, x, e[x] - f[x]) /\ Within(S, e, f, x, f[x] - e[x])
  BY <1>1 DEF Within
<1>3. Exceeds(S, Total(S, f), Total(S, e), x, e[x] - f[x])
  BY <1>1, <1>2, TotalCompare
<1>4. Exceeds(S, Total(S, e), Total(S, f), x, f[x] - e[x])
  BY <1>1, <1>2, TotalCompare
<1>. QED
  BY <1>1, <1>3, <1>4 DEF Exceeds

LEMMA TotalZero ==
  ASSUME NEW S, IsFiniteSet(S), NEW f \in [S -> Int], \A y \in S : f[y] = 0
  PROVE  Total(S, f) = 0
<1>1. PICK g : Adds(S, f, g) /\ Total(S, f) = g[S]
  BY TotalAdds
<1> DEFINE F == {s \in SUBSET S : g[s] # 0}
<1>2. F = {}
  <2> SUFFICES ASSUME F # {} PROVE FALSE
    OBVIOUS
  <2>1. PICK s \in F : \A t \in F : Cardinality(s) <= Cardinality(t)
    BY SmallestSet
  <2>2. s \in SUBSET S /\ g[s] # 0
    OBVIOUS
  <2>3. s # {}
    BY <1>1, <2>2 DEF Adds
  <2> DEFINE t == s \ {Pick(s)}
  <2>4. t \in SUBSET S /\ Cardinality(t) = Cardinality(s) - 1 /\ Cardinality(s) \in Nat
    BY <2>2, <2>3, Smaller
  <2>5. t \notin F
    <3> HIDE DEF F, t
    <3>. QED
      BY <2>1, <2>4
  <2>6. g[t] = 0
    BY <2>4, <2>5
  <2>7. g[s] = f[Pick(s)] + g[t]
    BY <1>1, <2>2, <2>3 DEF Adds
  <2>8. f[Pick(s)] = 0
    BY <2>2, <2>3, PickIs
  <2>. QED
    BY <2>2, <2>6, <2>7, <2>8
<1>. QED
  BY <1>1, <1>2

LEMMA TotalNatural ==
  ASSUME NEW S, IsFiniteSet(S), NEW f \in [S -> Int], \A y \in S : f[y] >= 0
  PROVE  Total(S, f) >= 0
<1> DEFINE z == [y \in S |-> 0]
<1>1. z \in [S -> Int] /\ \A y \in S : z[y] = 0 /\ z[y] <= f[y]
  OBVIOUS
<1> HIDE DEF z
<1>2. Total(S, z) = 0
  BY <1>1, TotalZero
<1>. QED
  BY <1>1, <1>2, TotalMonotone

LEMMA TotalOpposite ==
  ASSUME NEW S, IsFiniteSet(S), NEW f \in [S -> Int], NEW e \in [S -> Int],
         \A y \in S : e[y] = -f[y]
  PROVE  Total(S, e) = -Total(S, f)
<1>1. PICK g : Adds(S, f, g) /\ Total(S, f) = g[S]
  BY TotalAdds
<1>2. PICK h : Adds(S, e, h) /\ Total(S, e) = h[S]
  BY TotalAdds
<1> DEFINE Good(s) == g[s] \in Int /\ h[s] = -g[s]
           F == {s \in SUBSET S : ~Good(s)}
<1>3. F = {}
  <2> SUFFICES ASSUME F # {} PROVE FALSE
    OBVIOUS
  <2>1. PICK s \in F : \A t \in F : Cardinality(s) <= Cardinality(t)
    <3> HIDE DEF Good
    <3>. QED
      BY SmallestSet
  <2>2. s \in SUBSET S /\ ~Good(s)
    OBVIOUS
  <2>3. s # {}
    BY <1>1, <1>2, <2>2 DEF Adds
  <2> DEFINE p == Pick(s)
             t == s \ {p}
  <2>4. t \in SUBSET S /\ Cardinality(t) = Cardinality(s) - 1 /\ Cardinality(s) \in Nat
    BY <2>2, <2>3, Smaller
  <2>5. t \notin F
    <3> HIDE DEF F, t
    <3>. QED
      BY <2>1, <2>4
  <2>6. Good(t)
    BY <2>4, <2>5
  <2>7. g[s] = f[p] + g[t] /\ h[s] = e[p] + h[t]
    BY <1>1, <1>2, <2>2, <2>3 DEF Adds
  <2>8. f[p] \in Int /\ e[p] = -f[p]
    BY <2>2, <2>3, PickIs
  <2> HIDE DEF p, t
  <2>. QED
    BY <2>2, <2>6, <2>7, <2>8
<1>. QED
  BY <1>1, <1>2, <1>3

(* A term is at most the sum.                                              *)
LEMMA TotalCovers ==
  ASSUME NEW S, IsFiniteSet(S), NEW f \in [S -> Int], \A y \in S : f[y] >= 0,
         NEW x \in S
  PROVE  f[x] <= Total(S, f)
<1> DEFINE e == [f EXCEPT ![x] = 0]
<1>1. /\ e \in [S -> Int] /\ e[x] = 0 /\ f[x] \in Int
      /\ \A y \in S : e[y] >= 0 /\ (y # x => e[y] = f[y])
  OBVIOUS
<1> HIDE DEF e
<1>2. Total(S, e) >= 0 /\ Total(S, e) \in Int /\ Total(S, f) \in Int
  BY <1>1, TotalNatural, TotalInt
<1>3. Total(S, e) = Total(S, f) + e[x] - f[x]
  BY <1>1, TotalShift
<1>. QED
  BY <1>1, <1>2, <1>3

-----------------------------------------------------------------------------
(* The bill of a day as such a sum.                                        *)

Billed(s, d) == [p \in Procs |-> s[p][d]]

LEMMA SumIsTotal ==
  ASSUME NEW s, NEW d
  PROVE  MapThenSumSet(LAMBDA p : s[p][d], Procs) = Total(Procs, Billed(s, d))
<1>1. ASSUME NEW h
      PROVE  Adds(Procs, Billed(s, d), h)
               <=> h = [t \in SUBSET Procs |->
                          IF t = {} THEN 0
                          ELSE s[CHOOSE x \in t : TRUE][d]
                                 + h[t \ {CHOOSE x \in t : TRUE}]]
  <2>1. ASSUME NEW t \in SUBSET Procs, t # {}
        PROVE  Billed(s, d)[Pick(t)] = s[Pick(t)][d]
    BY <2>1, PickIs DEF Billed
  <2>. QED
    BY <2>1 DEF Adds, Pick
<1>. QED
  BY <1>1, ZenonT(30) DEF Total, MapThenSumSet, MapThenFoldSet

-----------------------------------------------------------------------------
(* Maxima.                                                                 *)

LEMMA MaxOfTwo ==
  ASSUME NEW a \in Int, NEW b \in Int
  PROVE  Max({a, b}) \in Int /\ Max({a, b}) >= a /\ Max({a, b}) >= b
<1>1. \E x \in {a, b} : \A y \in {a, b} : x >= y
  <2>1. CASE a >= b
    BY <2>1
  <2>2. CASE b >= a
    BY <2>2
  <2>. QED
    BY <2>1, <2>2
<1>2. Max({a, b}) \in {a, b} /\ \A y \in {a, b} : Max({a, b}) >= y
  BY <1>1 DEF Max
<1>. QED
  BY <1>2

LEMMA MaxAmountBounds ==
  /\ MaxAmount \in Nat
  /\ \A a \in Amounts : a <= MaxAmount
<1> DEFINE HasMax(s) == \E x \in s : \A y \in s : x >= y
           F == {s \in SUBSET Amounts : s # {} /\ ~HasMax(s)}
<1>1. F = {}
  <2> SUFFICES ASSUME F # {} PROVE FALSE
    OBVIOUS
  <2>1. PICK s \in F : \A t \in F : Cardinality(s) <= Cardinality(t)
    <3> HIDE DEF HasMax
    <3>. QED
      BY SmallestSet, AmountsAssumption
  <2>2. s \in SUBSET Amounts /\ s # {} /\ ~HasMax(s)
    OBVIOUS
  <2> DEFINE p == Pick(s)
             t == s \ {p}
  <2>3. p \in s /\ p \in Nat
    BY <2>2, PickIs, AmountsAssumption
  <2>4. t \in SUBSET Amounts /\ Cardinality(t) = Cardinality(s) - 1
          /\ Cardinality(s) \in Nat
    BY <2>2, Smaller, AmountsAssumption
  <2>5. t \notin F
    <3> HIDE DEF F, t
    <3>. QED
      BY <2>1, <2>4
  <2> HIDE DEF p
  <2>6. CASE t = {}
    BY <2>2, <2>3, <2>6
  <2>7. CASE t # {}
    <3>1. PICK x \in t : \A y \in t : x >= y
      BY <2>4, <2>5, <2>7
    <3>2. x \in Nat
      BY <2>2, AmountsAssumption
    <3>3. CASE x >= p
      BY <2>2, <2>3, <3>1, <3>3
    <3>4. CASE ~(x >= p)
      <4>1. \A y \in t : p >= y
        BY <2>2, <2>3, <3>1, <3>2, <3>4, AmountsAssumption
      <4>. QED
        BY <2>2, <2>3, <4>1
    <3>. QED
      BY <3>3, <3>4
  <2>. QED
    BY <2>6, <2>7
<1>2. HasMax(Amounts)
  BY <1>1, AmountsAssumption
<1>3. MaxAmount \in Amounts /\ \A y \in Amounts : MaxAmount >= y
  BY <1>2 DEF MaxAmount, Max
<1>. QED
  BY <1>3, AmountsAssumption

-----------------------------------------------------------------------------
(* The invariant.                                                          *)

(* TypeOK, but for the sign of the bills.                                  *)
Types ==
  /\ day \in Days
  /\ local \in [Procs -> [Days -> Int]]
  /\ shared \in [Days -> Int]
  /\ pc \in [Calls -> {"idle", "reserving", "refused", "calling", "settling"}]
  /\ reserved \in [Calls -> Amounts \union {0}]
  /\ opened \in [Calls -> Days]
  /\ op \in [Calls -> [usd : Int, day : Days, after : Int]]
  /\ restarts \in 0..MaxMishaps
  /\ faults \in 0..MaxMishaps
  /\ spent \in [Procs -> [Days -> Int]]
  /\ carried \in [Days -> Nat]
  /\ overrun \in [Procs -> [Days -> Nat]]
  /\ leaked \in BOOLEAN

(* What the steps of a call know of its amounts.                           *)
Shape ==
  \A c \in Calls :
    /\ pc[c] # "idle" => reserved[c] \in Amounts
    /\ pc[c] = "reserving" => op[c].usd = reserved[c] /\ op[c].day = opened[c]

At(c, p, d) == Home[c] = p /\ opened[c] = d

(* What a call has in the bill of its process;                             *)
Calling(c, p, d) ==
  IF pc[c] = "calling" /\ At(c, p, d) THEN reserved[c] ELSE 0

(* what it has in the shared total of a day, above the bill: less than     *)
(* nothing when it was billed beyond its reservation;                      *)
Owing(c, d) ==
  IF pc[c] = "refused" /\ opened[c] = d THEN reserved[c]
  ELSE IF pc[c] = "settling" /\ op[c].day = d THEN -op[c].usd
  ELSE 0

(* what it has in the counter of its process, above the bill;              *)
Held(c, p, d) ==
  IF pc[c] \in {"reserving", "refused"} /\ At(c, p, d) THEN reserved[c] ELSE 0

(* and what it may yet add to the bill, when the counter of its process    *)
(* alone would admit it.                                                   *)
Granted(c, p, d) ==
  IF pc[c] = "reserving" /\ At(c, p, d) /\ op[c].after - reserved[c] < Limit
    THEN reserved[c]
    ELSE 0

AllCalling(p, d) == Total(Calls, [c \in Calls |-> Calling(c, p, d)])
AllOwing(d) == Total(Calls, [c \in Calls |-> Owing(c, d)])
AllHeld(p, d) == Total(Calls, [c \in Calls |-> Held(c, p, d)])
AllGranted(p, d) == Total(Calls, [c \in Calls |-> Granted(c, p, d)])

(* The bill of a day.                                                      *)
Cost(d) == Total(Procs, Billed(spent, d))

(* A call in flight is in the bill of its process.                         *)
BillsCalling ==
  \A p \in Procs, d \in Days : spent[p][d] >= AllCalling(p, d)

(* The Redis key covers the bill of all the processes and what is still to *)
(* be taken back, but for what midnight moved to the next day's key ...     *)
SharedCovers ==
  faults = 0 => \A d \in Days : shared[d] + carried[d] >= Cost(d) + AllOwing(d)

(* ... and is no more than that when nothing was lost or moved.            *)
SharedExact ==
  ~leaked /\ faults = 0 /\ (\A d \in Days : carried[d] = 0)
    => \A d \in Days : shared[d] = Cost(d) + AllOwing(d)

(* The counter of a process covers its bill and what it holds besides.     *)
LocalCovers ==
  restarts = 0 =>
    \A p \in Procs, d \in Days :
      local[p][d] + carried[d] >= spent[p][d] + AllHeld(p, d)

(* What a process has spent and may yet let through stays within one       *)
(* amount of the cap, but for what midnight and overruns brought.          *)
OwnCap(p, d) == Limit + MaxAmount + carried[d] + overrun[p][d]

BelowOwnCap ==
  restarts = 0 =>
    \A p \in Procs, d \in Days : spent[p][d] + AllGranted(p, d) < OwnCap(p, d)

Money ==
  /\ BillsCalling
  /\ SharedCovers
  /\ SharedExact
  /\ LocalCovers
  /\ BelowOwnCap

IInv == Types /\ Shape /\ Money

LEMMA Bounds ==
  /\ Limit \in Nat \ {0}
  /\ MaxMishaps \in Nat
  /\ 0 \in Days
  /\ Days \in SUBSET Nat
  /\ Amounts \subseteq Nat \ {0}
  /\ IsFiniteSet(Procs)
  /\ IsFiniteSet(Calls)
  /\ \A c \in Calls : Home[c] \in Procs
BY ProcsAssumption, CallsAssumption, HomeAssumption, LimitAssumption,
   AmountsAssumption, BoundAssumption DEF Days

LEMMA AmountNat ==
  ASSUME NEW a \in Amounts \union {0}
  PROVE  a \in Nat /\ a <= MaxAmount
BY AmountsAssumption, MaxAmountBounds

LEMMA Places ==
  ASSUME Types, NEW c \in Calls
  PROVE  /\ reserved[c] \in Nat /\ reserved[c] <= MaxAmount
         /\ Home[c] \in Procs
         /\ opened[c] \in Days
         /\ op[c].usd \in Int /\ op[c].day \in Days /\ op[c].after \in Int
<1>1. reserved[c] \in Amounts \union {0} /\ opened[c] \in Days
  BY DEF Types
<1>2. reserved[c] \in Nat /\ reserved[c] <= MaxAmount
  BY <1>1, AmountNat
<1>3. op[c].usd \in Int /\ op[c].day \in Days /\ op[c].after \in Int
  BY DEF Types
<1>. QED
  BY <1>1, <1>2, <1>3, HomeAssumption

(* What the increment of the Redis key comes to.                           *)
LEMMA Increments ==
  ASSUME Types, NEW c \in Calls, NEW r \in AddShared(c)
  PROVE  /\ r.key \in Int
         /\ r.total \in Int
         /\ r.total >= op[c].after
         /\ r.faults \in 0..MaxMishaps
         /\ \/ /\ r.faults = faults
               /\ r.key = shared[op[c].day] + op[c].usd
               /\ r.total >= r.key
            \/ r.faults = faults + 1 /\ r.faults # 0
<1> DEFINE after == shared[op[c].day] + op[c].usd
           total == Max({after, op[c].after})
<1>1. /\ after \in Int /\ op[c].after \in Int /\ shared[op[c].day] \in Int
      /\ faults \in 0..MaxMishaps
  BY DEF Types
<1>2. total \in Int /\ total >= after /\ total >= op[c].after
  BY <1>1, MaxOfTwo
<1>3. Mishap => faults + 1 \in 0..MaxMishaps /\ faults + 1 # 0
  BY Bounds DEF Types, Mishap
<1> HIDE DEF total
<1>4. \/ r = [key |-> after, total |-> total, faults |-> faults]
      \/ /\ Mishap
         /\ \E k \in {after, shared[op[c].day]} :
              r = [key |-> k, total |-> op[c].after, faults |-> faults + 1]
  BY DEF AddShared, Incremented, total
<1> HIDE DEF after
<1>5. CASE r = [key |-> after, total |-> total, faults |-> faults]
  BY <1>1, <1>2, <1>5 DEF after
<1>6. CASE /\ Mishap
           /\ \E k \in {after, shared[op[c].day]} :
                r = [key |-> k, total |-> op[c].after, faults |-> faults + 1]
  <2>1. PICK k \in {after, shared[op[c].day]} :
          r = [key |-> k, total |-> op[c].after, faults |-> faults + 1]
    BY <1>6
  <2>2. k \in Int
    BY <1>1
  <2>. QED
    BY <1>1, <1>3, <1>6, <2>1, <2>2
<1>. QED
  BY <1>4, <1>5, <1>6

-----------------------------------------------------------------------------
(* Ranges and shapes are kept.                                             *)

LEMMA TypesInit ==
  ASSUME Init
  PROVE  Types /\ Shape
<1>1. /\ local \in [Procs -> [Days -> Int]] /\ spent \in [Procs -> [Days -> Int]]
      /\ shared \in [Days -> Int] /\ carried \in [Days -> Nat]
      /\ overrun \in [Procs -> [Days -> Nat]]
  BY DEF Init
<1>2. op \in [Calls -> [usd : Int, day : Days, after : Int]]
  BY Bounds DEF Init, NoOp
<1>3. restarts \in 0..MaxMishaps /\ faults \in 0..MaxMishaps
  BY Bounds DEF Init
<1>4. Types
  BY <1>1, <1>2, <1>3, Bounds DEF Init, Types
<1>5. Shape
  BY DEF Init, Shape
<1>. QED
  BY <1>4, <1>5

(* Only the variables of call c change among those of the calls.           *)
Only(c) ==
  \A y \in Calls : y # c =>
    /\ pc'[y] = pc[y]
    /\ reserved'[y] = reserved[y]
    /\ opened'[y] = opened[y]
    /\ op'[y] = op[y]

LEMMA ReserveTypes ==
  ASSUME Types, Shape, NEW c \in Calls, Reserve(c)
  PROVE  /\ Types' /\ Shape' /\ Only(c)
         /\ \E a \in Amounts :
              /\ local' = [local EXCEPT ![Home[c]][day] = @ + a]
              /\ reserved'[c] = a
              /\ op'[c] = [usd |-> a, day |-> day,
                           after |-> local[Home[c]][day] + a]
         /\ pc'[c] = "reserving" /\ opened'[c] = day
         /\ \A p \in Procs, d \in Days :
              \/ overrun'[p][d] = overrun[p][d]
              \/ p = Home[c] /\ d = day /\ local[p][d] < Limit
<1>1. PICK a \in Amounts :
        /\ AddLocal(c, a)
        /\ reserved' = [reserved EXCEPT ![c] = a]
  BY DEF Reserve
<1>2. /\ local[Home[c]][day] \in Int /\ a \in Int
      /\ local[Home[c]][day] + a \in Int
  BY Bounds DEF Types
<1>3. local' = [local EXCEPT ![Home[c]][day] = @ + a]
  BY <1>1, Bounds DEF Types, AddLocal
<1>4. op' = [op EXCEPT ![c] = [usd |-> a, day |-> day,
                               after |-> local[Home[c]][day] + a]]
  BY <1>1 DEF AddLocal
<1>5. /\ pc' = [pc EXCEPT ![c] = "reserving"]
      /\ opened' = [opened EXCEPT ![c] = day]
  BY DEF Reserve, Goto
<1>6. Types'
  <2>1. local' \in [Procs -> [Days -> Int]]
    BY <1>2, <1>3, Bounds DEF Types
  <2>2. op' \in [Calls -> [usd : Int, day : Days, after : Int]]
    BY <1>2, <1>4 DEF Types
  <2>3. reserved' \in [Calls -> Amounts \union {0}]
    BY <1>1 DEF Types
  <2>4. UNCHANGED <<day, shared, restarts, faults, spent, carried, leaked>>
    BY DEF Reserve
  <2>5. Days' = Days
    BY DEF Days
  <2>6. overrun' \in [Procs -> [Days -> Nat]]
    BY DEF Types, Reserve
  <2>. QED
    BY <1>5, <2>1, <2>2, <2>3, <2>4, <2>5, <2>6 DEF Types
<1>7. Only(c)
  BY <1>1, <1>4, <1>5 DEF Only, Types
<1>8. Shape'
  BY <1>1, <1>4, <1>5, <1>7 DEF Shape, Types, Only
<1>9. /\ reserved'[c] = a /\ pc'[c] = "reserving" /\ opened'[c] = day
      /\ op'[c] = [usd |-> a, day |-> day, after |-> local[Home[c]][day] + a]
  BY <1>1, <1>4, <1>5 DEF Types
<1>10. ASSUME NEW p \in Procs, NEW d \in Days
       PROVE  \/ overrun'[p][d] = overrun[p][d]
              \/ p = Home[c] /\ d = day /\ local[p][d] < Limit
  <2>1. Limit \in Nat /\ local[Home[c]][day] \in Int
    BY <1>2, Bounds
  <2>2. CASE local[Home[c]][day] >= Limit
    BY <2>2 DEF Reserve
  <2>3. CASE local[Home[c]][day] < Limit
    <3>1. overrun' = [overrun EXCEPT ![Home[c]][day] = 0]
      BY <2>1, <2>3 DEF Reserve
    <3>. QED
      BY <2>3, <3>1 DEF Types
  <2>. QED
    BY <2>1, <2>2, <2>3
<1>. QED
  BY <1>3, <1>6, <1>7, <1>8, <1>9, <1>10

LEMMA AdmitTypes ==
  ASSUME Types, Shape, NEW c \in Calls, Admit(c)
  PROVE  /\ Types' /\ Shape' /\ Only(c)
         /\ reserved'[c] = reserved[c] /\ opened'[c] = opened[c]
         /\ op'[c].usd = 0
         /\ \E r \in AddShared(c) :
              /\ shared' = [shared EXCEPT ![opened[c]] = r.key]
              /\ faults' = r.faults
              /\ \/ /\ r.total - reserved[c] >= Limit
                    /\ pc'[c] = "refused"
                    /\ spent' = spent
                 \/ /\ r.total - reserved[c] < Limit
                    /\ pc'[c] = "calling"
                    /\ spent' = [spent EXCEPT ![Home[c]][opened[c]]
                                                = @ + reserved[c]]
<1>1. PICK r \in AddShared(c) : Write(c, r) /\ Decide(c, r.total)
  BY DEF Admit
<1>2. /\ r.key \in Int /\ r.total \in Int /\ r.faults \in 0..MaxMishaps
  BY Increments
<1>3. /\ pc[c] = "reserving" /\ op[c].day = opened[c] /\ reserved[c] \in Amounts
      /\ reserved[c] \in Int /\ Limit \in Int /\ opened[c] \in Days
      /\ Home[c] \in Procs
  BY Bounds DEF Admit, Shape, Types
<1>4. /\ shared' = [shared EXCEPT ![opened[c]] = r.key]
      /\ faults' = r.faults
  BY <1>1, <1>3 DEF Write
<1>5. \/ /\ r.total - reserved[c] >= Limit
         /\ pc' = [pc EXCEPT ![c] = "refused"]
         /\ spent' = spent
      \/ /\ r.total - reserved[c] < Limit
         /\ pc' = [pc EXCEPT ![c] = "calling"]
         /\ spent' = [spent EXCEPT ![Home[c]][opened[c]] = @ + reserved[c]]
  BY <1>1, <1>2, <1>3 DEF Decide, Goto
<1>6. /\ op' = [op EXCEPT ![c] = NoOp]
      /\ UNCHANGED <<day, local, reserved, opened, restarts, carried, overrun,
                     leaked>>
  BY DEF Admit
<1>7. spent' \in [Procs -> [Days -> Int]]
  <2>1. CASE spent' = spent
    BY <2>1 DEF Types
  <2>2. CASE spent' = [spent EXCEPT ![Home[c]][opened[c]] = @ + reserved[c]]
    BY <1>3, <2>2 DEF Types
  <2>. QED
    BY <1>5, <2>1, <2>2
<1>8. pc' \in [Calls -> {"idle", "reserving", "refused", "calling", "settling"}]
  BY <1>5 DEF Types
<1>9. op' \in [Calls -> [usd : Int, day : Days, after : Int]] /\ op'[c].usd = 0
  BY <1>6, Bounds DEF Types, NoOp
<1>10. Types'
  <2>1. Days' = Days
    BY DEF Days
  <2>2. shared' \in [Days -> Int]
    BY <1>2, <1>4 DEF Types
  <2>. QED
    BY <1>2, <1>4, <1>6, <1>7, <1>8, <1>9, <2>1, <2>2 DEF Types
<1>11. Only(c)
  BY <1>5, <1>6 DEF Only, Types
<1>12. pc'[c] = "refused" \/ pc'[c] = "calling"
  BY <1>5 DEF Types
<1>13. Shape'
  BY <1>3, <1>6, <1>11, <1>12 DEF Shape, Types, Only
<1>. QED
  BY <1>4, <1>5, <1>6, <1>9, <1>10, <1>11, <1>13 DEF Types

(* Withdraw and the settling of a call: the same but for the amount and    *)
(* the bill.                                                               *)
Replaced(c, usd) ==
  /\ local' = [local EXCEPT ![Home[c]][day] = @ + usd]
  /\ Carry(c, usd) /\ Overruns(c, usd)
  /\ pc'[c] = "settling"
  /\ op'[c].usd = usd /\ op'[c].day = day
  /\ reserved'[c] = reserved[c] /\ opened'[c] = opened[c]

LEMMA ReplacedTypes ==
  ASSUME Types, Shape, NEW c \in Calls, NEW usd \in Int,
         reserved[c] \in Amounts, AddLocal(c, usd), Carry(c, usd),
         Overruns(c, usd), Goto(c, "settling"),
         UNCHANGED <<day, shared, reserved, opened, restarts, faults, leaked>>,
         spent' \in [Procs -> [Days -> Int]]
  PROVE  Types' /\ Shape' /\ Only(c) /\ Replaced(c, usd)
<1>1. /\ local[Home[c]][day] \in Int /\ Home[c] \in Procs /\ day \in Days
      /\ local[Home[c]][day] + usd \in Int
  BY Bounds DEF Types
<1>2. local' = [local EXCEPT ![Home[c]][day] = @ + usd]
  BY Bounds DEF Types, AddLocal
<1>3. op' = [op EXCEPT ![c] = [usd |-> usd, day |-> day,
                               after |-> local[Home[c]][day] + usd]]
  BY DEF AddLocal
<1>4. pc' = [pc EXCEPT ![c] = "settling"]
  BY DEF Goto
<1>5. carried' \in [Days -> Nat] /\ overrun' \in [Procs -> [Days -> Nat]]
  <2>1. opened[c] \in Days
    BY DEF Types
  <2>2. CASE usd <= 0
    BY <1>1, <2>1, <2>2 DEF Types, Carry, Overruns
  <2>3. CASE usd > 0
    <3>1. usd \in Nat /\ ~(usd <= 0)
      BY <2>3
    <3>. QED
      BY <1>1, <2>1, <3>1 DEF Types, Carry, Overruns
  <2>. QED
    BY <2>2, <2>3
<1>6. local' \in [Procs -> [Days -> Int]]
  BY <1>1, <1>2 DEF Types
<1>7. op' \in [Calls -> [usd : Int, day : Days, after : Int]]
  BY <1>1, <1>3 DEF Types
<1>8. Types'
  <2>1. Days' = Days
    BY DEF Days
  <2>. QED
    BY <1>4, <1>5, <1>6, <1>7, <2>1 DEF Types
<1>9. Only(c)
  BY <1>3, <1>4 DEF Only, Types
<1>10. Shape'
  BY <1>3, <1>4, <1>9 DEF Shape, Types, Only
<1>11. Replaced(c, usd)
  BY <1>2, <1>3, <1>4 DEF Replaced, Types
<1>. QED
  BY <1>8, <1>9, <1>10, <1>11

LEMMA WithdrawTypes ==
  ASSUME Types, Shape, NEW c \in Calls, Withdraw(c)
  PROVE  Types' /\ Shape' /\ Only(c) /\ Replaced(c, -reserved[c])
<1>1. reserved[c] \in Amounts
  BY DEF Shape, Withdraw
<1>2. reserved[c] \in Nat
  BY <1>1, Bounds
<1>3. -reserved[c] \in Int /\ -reserved[c] <= 0
  BY <1>2
<1>4. Overruns(c, -reserved[c])
  BY <1>3 DEF Withdraw, Overruns
<1>. QED
  BY <1>1, <1>3, <1>4, ReplacedTypes DEF Withdraw, Types

LEMMA SettleTypes ==
  ASSUME Types, Shape, NEW c \in Calls, Settle(c)
  PROVE  \E usd \in Int :
           /\ reserved[c] + usd >= 0
           /\ Types' /\ Shape' /\ Only(c) /\ Replaced(c, usd)
           /\ spent' = [spent EXCEPT ![Home[c]][opened[c]] = @ + usd]
<1>1. PICK actual \in Costs \union {0} :
       /\ AddLocal(c, actual - reserved[c])
       /\ Carry(c, actual - reserved[c])
       /\ Overruns(c, actual - reserved[c])
       /\ spent' = [spent EXCEPT ![Home[c]][opened[c]]
                                   = @ + actual - reserved[c]]
  BY DEF Settle
<1> DEFINE usd == actual - reserved[c]
<1>2. /\ reserved[c] \in Amounts /\ reserved[c] \in Nat /\ actual \in Nat
      /\ Home[c] \in Procs /\ opened[c] \in Days
  <2>1. reserved[c] \in Amounts
    BY DEF Shape, Settle
  <2>2. reserved[c] \in Nat /\ Home[c] \in Procs /\ opened[c] \in Days
    BY Places
  <2>3. actual \in Nat
    BY CostsAssumption
  <2>. QED
    BY <2>1, <2>2, <2>3
<1>3. usd \in Int /\ reserved[c] + usd >= 0
  BY <1>1, <1>2
<1>4. spent[Home[c]][opened[c]] \in Int
  BY <1>2 DEF Types
<1>5. spent[Home[c]][opened[c]] + actual - reserved[c]
        = spent[Home[c]][opened[c]] + usd
  BY <1>2, <1>4
<1>6. spent' = [spent EXCEPT ![Home[c]][opened[c]] = @ + usd]
  BY <1>1, <1>4, <1>5
<1> HIDE DEF usd
<1>7. spent' \in [Procs -> [Days -> Int]]
  BY <1>2, <1>3, <1>4, <1>6 DEF Types
<1>8. AddLocal(c, usd) /\ Carry(c, usd) /\ Overruns(c, usd)
  BY <1>1 DEF usd
<1>9. Types' /\ Shape' /\ Only(c) /\ Replaced(c, usd)
  BY <1>2, <1>3, <1>7, <1>8, ReplacedTypes DEF Settle
<1>. QED
  BY <1>3, <1>6, <1>9

(* A call that returns leaves nothing but what it wrote before.            *)
LEMMA ReturnTypes ==
  ASSUME Types, NEW c \in Calls, Return(c)
  PROVE  /\ pc' \in [Calls -> {"idle", "reserving", "refused", "calling", "settling"}]
         /\ reserved' \in [Calls -> Amounts \union {0}]
         /\ opened' \in [Calls -> Days]
         /\ op' \in [Calls -> [usd : Int, day : Days, after : Int]]
         /\ pc'[c] = "idle" /\ Only(c)
         /\ Shape => Shape'
<1>1. /\ pc' = [pc EXCEPT ![c] = "idle"]
      /\ reserved' = [reserved EXCEPT ![c] = 0]
      /\ opened' = [opened EXCEPT ![c] = 0]
      /\ op' = [op EXCEPT ![c] = NoOp]
  BY DEF Return, Goto
<1>2. op' \in [Calls -> [usd : Int, day : Days, after : Int]]
  BY <1>1, Bounds DEF Types, NoOp
<1>3. Only(c)
  BY <1>1 DEF Only, Types
<1>4. pc'[c] = "idle"
  BY <1>1 DEF Types
<1>5. Shape => Shape'
  BY <1>3, <1>4 DEF Shape, Only
<1>. QED
  BY <1>1, <1>2, <1>3, <1>4, <1>5, Bounds DEF Types

LEMMA SettledTypes ==
  ASSUME Types, Shape, NEW c \in Calls, Settled(c)
  PROVE  /\ Types' /\ Shape' /\ Only(c) /\ pc'[c] = "idle"
         /\ \E r \in AddShared(c) :
              /\ shared' = [shared EXCEPT ![op[c].day] = r.key]
              /\ faults' = r.faults
<1>1. PICK r \in AddShared(c) : Write(c, r)
  BY DEF Settled
<1>2. r.key \in Int /\ r.faults \in 0..MaxMishaps
  BY Increments
<1>3. shared' = [shared EXCEPT ![op[c].day] = r.key] /\ faults' = r.faults
  BY <1>1 DEF Write
<1>4. Return(c) /\ UNCHANGED <<day, local, restarts, spent, carried, overrun, leaked>>
  BY DEF Settled, history
<1>5. shared' \in [Days -> Int]
  BY <1>2, <1>3 DEF Types
<1>6. Days' = Days
  BY DEF Days
<1>7. Types'
  BY <1>2, <1>3, <1>4, <1>5, <1>6, ReturnTypes DEF Types
<1>. QED
  BY <1>3, <1>4, <1>7, ReturnTypes

LEMMA KeepTypes ==
  ASSUME Types, Shape, NEW c \in Calls, KeepReservation(c)
  PROVE  Types' /\ Shape' /\ Only(c) /\ pc'[c] = "idle"
<1>1. Days' = Days
  BY DEF Days
<1>2. /\ Return(c)
      /\ UNCHANGED <<day, local, shared, restarts, faults, spent, carried, overrun, leaked>>
  BY DEF KeepReservation, ledger, history
<1>3. Types'
  BY <1>1, <1>2, ReturnTypes DEF Types
<1>. QED
  BY <1>2, <1>3, ReturnTypes

LEMMA FailsTypes ==
  ASSUME Types, Shape, NEW c \in Calls, StreamFails(c)
  PROVE  Types' /\ Shape' /\ Only(c) /\ pc'[c] = "idle"
<1>1. Days' = Days
  BY DEF Days
<1>2. /\ Return(c)
      /\ UNCHANGED <<day, local, shared, restarts, faults, carried, overrun>>
  BY DEF StreamFails, ledger
<1>3. /\ reserved[c] \in Int /\ Home[c] \in Procs /\ opened[c] \in Days
  BY Places
<1>4. /\ spent' = [spent EXCEPT ![Home[c]][opened[c]] = @ - reserved[c]]
      /\ leaked' \in BOOLEAN
  BY DEF StreamFails
<1>5. spent' \in [Procs -> [Days -> Int]]
  BY <1>3, <1>4 DEF Types
<1>6. Types'
  BY <1>1, <1>2, <1>5, <1>4, ReturnTypes DEF Types
<1>. QED
  BY <1>2, <1>6, ReturnTypes

LEMMA MidnightTypes ==
  ASSUME Types, Shape, Midnight
  PROVE  /\ Types' /\ Shape'
         /\ UNCHANGED <<local, shared, pc, reserved, opened, op, restarts,
                        faults, spent, carried, overrun, leaked>>
<1>1. day' = day + 1 /\ Mishap
  BY DEF Midnight
<1>2. UNCHANGED <<local, shared, pc, reserved, opened, op, restarts,
                  faults, spent, carried, overrun, leaked>>
  BY DEF Midnight, ledger, history
<1>3. day' \in Days
  BY <1>1, Bounds DEF Types, Mishap, Days
<1>4. Days' = Days
  BY DEF Days
<1>5. Types'
  BY <1>2, <1>3, <1>4 DEF Types
<1>6. Shape'
  BY <1>2 DEF Shape
<1>. QED
  BY <1>2, <1>5, <1>6

(* A restart takes the calls of its process away.                          *)
Stopped(p) ==
  \A c \in Calls :
    \/ pc'[c] = "idle" /\ Home[c] = p
    \/ /\ pc'[c] = pc[c] /\ reserved'[c] = reserved[c]
       /\ opened'[c] = opened[c] /\ op'[c] = op[c]

LEMMA RestartTypes ==
  ASSUME Types, Shape, NEW p \in Procs, Restart(p)
  PROVE  Types' /\ Shape' /\ Stopped(p) /\ restarts' # 0
<1>1. restarts' \in 0..MaxMishaps /\ restarts' # 0
  BY Bounds DEF Types, Mishap, Restart, Days
<1>2. local' \in [Procs -> [Days -> Int]]
  BY DEF Types, Restart
<1>3. /\ pc' = [c \in Calls |-> IF Home[c] = p THEN "idle" ELSE pc[c]]
      /\ reserved' = [c \in Calls |-> IF Home[c] = p THEN 0 ELSE reserved[c]]
      /\ opened' = [c \in Calls |-> IF Home[c] = p THEN 0 ELSE opened[c]]
      /\ op' = [c \in Calls |-> IF Home[c] = p THEN NoOp ELSE op[c]]
  BY DEF Restart
<1>4. op' \in [Calls -> [usd : Int, day : Days, after : Int]]
  BY <1>3, Bounds DEF Types, NoOp
<1>5. opened' \in [Calls -> Days]
  BY <1>3, Bounds DEF Types
<1>6. /\ pc' \in [Calls -> {"idle", "reserving", "refused", "calling", "settling"}]
      /\ reserved' \in [Calls -> Amounts \union {0}]
  BY <1>3 DEF Types
<1>7. Stopped(p)
  BY <1>3 DEF Stopped
<1>8. leaked' = TRUE /\ UNCHANGED <<day, shared, spent, carried, overrun>>
  BY DEF Restart
<1>9. faults' \in 0..MaxMishaps
  BY Bounds DEF Types, Mishap, Restart, Days
<1>10. Days' = Days
  BY DEF Days
<1>11. Types'
  BY <1>1, <1>2, <1>4, <1>5, <1>6, <1>8, <1>10, <1>9 DEF Types
<1>12. Shape'
  BY <1>7 DEF Shape, Stopped
<1>. QED
  BY <1>1, <1>7, <1>11, <1>12

-----------------------------------------------------------------------------
(* The sums over the calls.                                                *)

LEMMA Weights ==
  ASSUME Types, Shape, NEW c \in Calls, NEW p, NEW d
  PROVE  /\ Calling(c, p, d) \in Nat
         /\ Owing(c, d) \in Int
         /\ Held(c, p, d) \in Nat
         /\ Granted(c, p, d) \in Nat
<1>1. reserved[c] \in Nat /\ op[c].usd \in Int
  BY Places
<1>. QED
  BY <1>1 DEF Calling, Owing, Held, Granted

LEMMA WeightsNext ==
  ASSUME Types', Shape', NEW c \in Calls, NEW p, NEW d
  PROVE  /\ Calling(c, p, d)' \in Nat
         /\ Owing(c, d)' \in Int
         /\ Held(c, p, d)' \in Nat
         /\ Granted(c, p, d)' \in Nat
<1>1. reserved'[c] \in Amounts \union {0}
  BY DEF Types
<1>2. op'[c] \in [usd : Int, day : Days', after : Int]
  BY DEF Types
<1>3. reserved'[c] \in Nat
  BY <1>1, AmountNat
<1>. QED
  BY <1>2, <1>3 DEF Calling, Owing, Held, Granted

LEMMA Sums ==
  ASSUME Types, Shape, NEW p \in Procs, NEW d \in Days
  PROVE  /\ AllCalling(p, d) \in Nat
         /\ AllOwing(d) \in Int
         /\ AllHeld(p, d) \in Nat
         /\ AllGranted(p, d) \in Nat
         /\ AllGranted(p, d) <= AllHeld(p, d)
         /\ \A c \in Calls : Calling(c, p, d) <= AllCalling(p, d)
<1> DEFINE C == [c \in Calls |-> Calling(c, p, d)]
           O == [c \in Calls |-> Owing(c, d)]
           H == [c \in Calls |-> Held(c, p, d)]
           G == [c \in Calls |-> Granted(c, p, d)]
<1>1. /\ C \in [Calls -> Int] /\ \A c \in Calls : C[c] >= 0
      /\ O \in [Calls -> Int]
      /\ H \in [Calls -> Int] /\ \A c \in Calls : H[c] >= 0
      /\ G \in [Calls -> Int] /\ \A c \in Calls : G[c] >= 0
  BY Weights
<1>2. \A c \in Calls : G[c] <= H[c]
  BY Places DEF Granted, Held
<1>3. \A c \in Calls : C[c] = Calling(c, p, d)
  OBVIOUS
<1> HIDE DEF C, O, H, G
<1>4. Total(Calls, G) <= Total(Calls, H)
  BY <1>1, <1>2, TotalMonotone, CallsAssumption
<1>5. \A c \in Calls : C[c] <= Total(Calls, C)
  BY <1>1, TotalCovers, CallsAssumption
<1>6. /\ Total(Calls, C) \in Int /\ Total(Calls, C) >= 0
      /\ Total(Calls, O) \in Int
      /\ Total(Calls, H) \in Int /\ Total(Calls, H) >= 0
      /\ Total(Calls, G) \in Int /\ Total(Calls, G) >= 0
  BY <1>1, TotalInt, TotalNatural, CallsAssumption
<1>7. /\ AllCalling(p, d) = Total(Calls, C) /\ AllOwing(d) = Total(Calls, O)
      /\ AllHeld(p, d) = Total(Calls, H) /\ AllGranted(p, d) = Total(Calls, G)
  BY DEF C, O, H, G, AllCalling, AllOwing, AllHeld, AllGranted
<1>. QED
  BY <1>6, <1>3, <1>4, <1>5, <1>7

(* When one call moves, each sum changes by what this call has in it.      *)
LEMMA Shifts ==
  ASSUME Types, Shape, Types', Shape', NEW c \in Calls, Only(c),
         NEW p \in Procs, NEW d \in Days
  PROVE  /\ AllCalling(p, d)' = AllCalling(p, d) + Calling(c, p, d)' - Calling(c, p, d)
         /\ AllOwing(d)' = AllOwing(d) + Owing(c, d)' - Owing(c, d)
         /\ AllHeld(p, d)' = AllHeld(p, d) + Held(c, p, d)' - Held(c, p, d)
         /\ AllGranted(p, d)' = AllGranted(p, d) + Granted(c, p, d)' - Granted(c, p, d)
<1> DEFINE C == [y \in Calls |-> Calling(y, p, d)]
           O == [y \in Calls |-> Owing(y, d)]
           H == [y \in Calls |-> Held(y, p, d)]
           G == [y \in Calls |-> Granted(y, p, d)]
           C1 == [y \in Calls |-> Calling(y, p, d)']
           O1 == [y \in Calls |-> Owing(y, d)']
           H1 == [y \in Calls |-> Held(y, p, d)']
           G1 == [y \in Calls |-> Granted(y, p, d)']
<1>1. /\ C \in [Calls -> Int] /\ C1 \in [Calls -> Int]
      /\ O \in [Calls -> Int] /\ O1 \in [Calls -> Int]
      /\ H \in [Calls -> Int] /\ H1 \in [Calls -> Int]
      /\ G \in [Calls -> Int] /\ G1 \in [Calls -> Int]
  BY Weights, WeightsNext
<1>2. ASSUME NEW y \in Calls, y # c
      PROVE  C1[y] = C[y] /\ O1[y] = O[y] /\ H1[y] = H[y] /\ G1[y] = G[y]
  BY <1>2 DEF Only, Calling, Owing, Held, Granted, At
<1>3. /\ C1[c] = Calling(c, p, d)' /\ C[c] = Calling(c, p, d)
      /\ O1[c] = Owing(c, d)' /\ O[c] = Owing(c, d)
      /\ H1[c] = Held(c, p, d)' /\ H[c] = Held(c, p, d)
      /\ G1[c] = Granted(c, p, d)' /\ G[c] = Granted(c, p, d)
  OBVIOUS
<1>4. /\ AllCalling(p, d)' = Total(Calls, C1) /\ AllCalling(p, d) = Total(Calls, C)
      /\ AllOwing(d)' = Total(Calls, O1) /\ AllOwing(d) = Total(Calls, O)
      /\ AllHeld(p, d)' = Total(Calls, H1) /\ AllHeld(p, d) = Total(Calls, H)
      /\ AllGranted(p, d)' = Total(Calls, G1) /\ AllGranted(p, d) = Total(Calls, G)
  BY DEF AllCalling, AllOwing, AllHeld, AllGranted, Total, Adds
<1> HIDE DEF C, O, H, G, C1, O1, H1, G1
<1>5. /\ Total(Calls, C1) = Total(Calls, C) + C1[c] - C[c]
      /\ Total(Calls, O1) = Total(Calls, O) + O1[c] - O[c]
      /\ Total(Calls, H1) = Total(Calls, H) + H1[c] - H[c]
      /\ Total(Calls, G1) = Total(Calls, G) + G1[c] - G[c]
  BY <1>1, <1>2, TotalShift, CallsAssumption
<1>. QED
  BY <1>3, <1>4, <1>5

(* The bill of a day.                                                      *)
LEMMA CostInt ==
  ASSUME Types, NEW d \in Days
  PROVE  Cost(d) \in Int
<1>1. Billed(spent, d) \in [Procs -> Int]
  BY DEF Types, Billed
<1>. QED
  BY <1>1, TotalInt, ProcsAssumption DEF Cost

LEMMA CostSame ==
  ASSUME spent' = spent, NEW d
  PROVE  Cost(d)' = Cost(d)
BY DEF Cost, Billed, Total, Adds

Charged(c, k) == spent' = [spent EXCEPT ![Home[c]][opened[c]] = @ + k]

LEMMA CostShift ==
  ASSUME Types, NEW c \in Calls, NEW k \in Int, Charged(c, k), NEW d \in Days
  PROVE  /\ Cost(d)' = Cost(d) + (IF d = opened[c] THEN k ELSE 0)
         /\ \A p \in Procs :
              spent'[p][d] = spent[p][d] + (IF At(c, p, d) THEN k ELSE 0)
<1> DEFINE f == Billed(spent, d)
           e == Billed(spent', d)
<1>1. Home[c] \in Procs /\ opened[c] \in Days
  BY Places
<1>2. \A p \in Procs : spent[p] \in [Days -> Int] /\ spent[p][d] \in Int
  BY DEF Types
<1>3. \A p \in Procs :
        spent'[p][d] = IF At(c, p, d) THEN spent[p][d] + k ELSE spent[p][d]
  BY <1>1, <1>2 DEF Types, At, Charged
<1>4. f \in [Procs -> Int]
  BY <1>2 DEF Billed
<1>5. e \in [Procs -> Int]
  BY <1>2, <1>3 DEF Billed
<1>6. \A p \in Procs : p # Home[c] => e[p] = f[p]
  BY <1>3 DEF Billed, At
<1>7. e[Home[c]] = f[Home[c]] + (IF d = opened[c] THEN k ELSE 0)
  BY <1>1, <1>2, <1>3 DEF Billed, At
<1>8. Cost(d)' = Total(Procs, e) /\ Cost(d) = Total(Procs, f)
  BY DEF Cost, Billed, Total, Adds
<1> HIDE DEF f, e
<1>9. Total(Procs, e) = Total(Procs, f) + e[Home[c]] - f[Home[c]]
  BY <1>1, <1>4, <1>5, <1>6, TotalShift, ProcsAssumption
<1>10. Total(Procs, f) \in Int /\ f[Home[c]] \in Int
  BY <1>1, <1>4, TotalInt, ProcsAssumption
<1>11. Cost(d)' = Cost(d) + (IF d = opened[c] THEN k ELSE 0)
  BY <1>7, <1>8, <1>9, <1>10
<1>12. \A p \in Procs :
         spent'[p][d] = spent[p][d] + (IF At(c, p, d) THEN k ELSE 0)
  BY <1>2, <1>3
<1>. QED
  BY <1>11, <1>12

(* What the step of a call does to the sums.                               *)
Moved(c) ==
  \A p \in Procs, d \in Days :
    /\ AllCalling(p, d)' = AllCalling(p, d) + Calling(c, p, d)' - Calling(c, p, d)
    /\ AllOwing(d)' = AllOwing(d) + Owing(c, d)' - Owing(c, d)
    /\ AllHeld(p, d)' = AllHeld(p, d) + Held(c, p, d)' - Held(c, p, d)
    /\ AllGranted(p, d)' = AllGranted(p, d) + Granted(c, p, d)' - Granted(c, p, d)

(* The numbers of a state.                                                 *)
Numbers ==
  \A p \in Procs, d \in Days :
    /\ AllCalling(p, d) \in Nat /\ AllOwing(d) \in Int
    /\ AllHeld(p, d) \in Nat /\ AllGranted(p, d) \in Nat
    /\ AllGranted(p, d) <= AllHeld(p, d)
    /\ Cost(d) \in Int
    /\ spent[p][d] \in Int /\ local[p][d] \in Int
    /\ shared[d] \in Int /\ carried[d] \in Nat /\ overrun[p][d] \in Nat

LEMMA StateNumbers ==
  ASSUME Types, Shape
  PROVE  Numbers
<1>1. ASSUME NEW p \in Procs, NEW d \in Days
      PROVE  /\ spent[p][d] \in Int /\ local[p][d] \in Int
             /\ shared[d] \in Int /\ carried[d] \in Nat
             /\ overrun[p][d] \in Nat
  BY DEF Types
<1>. QED
  BY <1>1, Sums, CostInt DEF Numbers

LEMMA SumsMove ==
  ASSUME Types, Shape, Types', Shape', NEW c \in Calls, Only(c)
  PROVE  Moved(c)
BY Shifts DEF Moved

LEMMA ReserveMoney ==
  ASSUME Types, Shape, Money, NEW c \in Calls, Reserve(c)
  PROVE  Money'
<1>1. Types' /\ Shape' /\ Only(c) /\ pc'[c] = "reserving" /\ opened'[c] = day
  BY ReserveTypes
<1>2. PICK a \in Amounts :
        /\ local' = [local EXCEPT ![Home[c]][day] = @ + a]
        /\ reserved'[c] = a
        /\ op'[c] = [usd |-> a, day |-> day, after |-> local[Home[c]][day] + a]
  BY ReserveTypes
<1>3. Moved(c) /\ Numbers
  BY <1>1, SumsMove, StateNumbers
<1>4. pc[c] = "idle" /\ UNCHANGED <<day, shared, restarts, faults, spent, carried, leaked>>
  BY DEF Reserve
<1>5. a \in Nat /\ a <= MaxAmount /\ MaxAmount \in Nat /\ Limit \in Nat
  BY AmountNat, MaxAmountBounds, LimitAssumption
<1>6. ASSUME NEW p \in Procs, NEW d \in Days
      PROVE  /\ AllCalling(p, d)' = AllCalling(p, d)
             /\ AllOwing(d)' = AllOwing(d)
             /\ \/ /\ AllHeld(p, d)' = AllHeld(p, d)
                   /\ AllGranted(p, d)' = AllGranted(p, d)
                   /\ local'[p][d] = local[p][d]
                \/ /\ AllHeld(p, d)' = AllHeld(p, d) + a
                   /\ \/ AllGranted(p, d)' = AllGranted(p, d)
                      \/ /\ AllGranted(p, d)' = AllGranted(p, d) + a
                         /\ local[p][d] < Limit
                   /\ local'[p][d] = local[p][d] + a
             /\ Cost(d)' = Cost(d)
  <2>1. /\ Calling(c, p, d) = 0 /\ Owing(c, d) = 0
        /\ Held(c, p, d) = 0 /\ Granted(c, p, d) = 0
    BY <1>4 DEF Calling, Owing, Held, Granted
  <2>2. Calling(c, p, d)' = 0 /\ Owing(c, d)' = 0
    BY <1>1 DEF Calling, Owing
  <2>3. /\ AllCalling(p, d) \in Nat /\ AllOwing(d) \in Int
        /\ AllHeld(p, d) \in Nat /\ AllGranted(p, d) \in Nat
        /\ local[p][d] \in Int
    BY <1>3 DEF Numbers
  <2>4. /\ AllCalling(p, d)' = AllCalling(p, d) /\ AllOwing(d)' = AllOwing(d)
        /\ AllHeld(p, d)' = AllHeld(p, d) + Held(c, p, d)'
        /\ AllGranted(p, d)' = AllGranted(p, d) + Granted(c, p, d)'
    BY <1>3, <2>1, <2>2, <2>3, Weights, WeightsNext, <1>1 DEF Moved
  <2>5. Cost(d)' = Cost(d)
    BY <1>4, CostSame
  <2>6. CASE p = Home[c] /\ d = day
    <3>1. Held(c, p, d)' = a
      BY <1>1, <1>2, <2>6 DEF Held, At
    <3>2. local'[p][d] = local[p][d] + a
      BY <1>2, <2>6 DEF Types
    <3>3. op'[c].after = local[p][d] + a
      BY <1>2, <2>6
    <3>4. op'[c].after - reserved'[c] = local[p][d]
      BY <1>2, <1>5, <2>3, <3>3
    <3>5. \/ Granted(c, p, d)' = 0
          \/ Granted(c, p, d)' = a /\ local[p][d] < Limit
      BY <1>2, <3>4 DEF Granted
    <3>. QED
      BY <1>5, <2>3, <2>4, <2>5, <3>1, <3>2, <3>5
  <2>7. CASE ~(p = Home[c] /\ d = day)
    <3>1. Held(c, p, d)' = 0 /\ Granted(c, p, d)' = 0
      BY <1>1, <2>7 DEF Held, Granted, At
    <3>2. local'[p][d] = local[p][d]
      BY <1>2, <2>7 DEF Types
    <3>. QED
      BY <2>3, <2>4, <2>5, <3>1, <3>2
  <2>. QED
    BY <2>6, <2>7
<1>7. Days' = Days
  BY DEF Days
<1> USE DEF Money
<1>8. BillsCalling'
  BY <1>4, <1>6, <1>7 DEF BillsCalling
<1>9. PICK p0 : p0 \in Procs
  BY HomeAssumption
<1>10. SharedCovers' /\ SharedExact'
  BY <1>4, <1>6, <1>7, <1>9 DEF SharedCovers, SharedExact
<1>11. LocalCovers'
  <2> SUFFICES ASSUME restarts' = 0, NEW p \in Procs, NEW d \in Days
               PROVE  local'[p][d] + carried'[d] >= spent'[p][d] + AllHeld(p, d)'
    BY <1>7 DEF LocalCovers
  <2>1. local[p][d] + carried[d] >= spent[p][d] + AllHeld(p, d)
    BY <1>4 DEF LocalCovers
  <2>. QED
    BY <1>3, <1>4, <1>5, <1>6, <2>1 DEF Numbers
<1>12. BelowOwnCap'
  <2> SUFFICES ASSUME restarts' = 0, NEW p \in Procs, NEW d \in Days
               PROVE  spent'[p][d] + AllGranted(p, d)' < OwnCap(p, d)'
    BY <1>7 DEF BelowOwnCap
  <2>1. /\ local[p][d] + carried[d] >= spent[p][d] + AllHeld(p, d)
        /\ spent[p][d] + AllGranted(p, d) < OwnCap(p, d)
    BY <1>4 DEF LocalCovers, BelowOwnCap
  <2>2. overrun'[p][d] = overrun[p][d] \/ local[p][d] < Limit
    BY ReserveTypes
  <2>3. overrun'[p][d] \in Nat
    BY <1>1, <1>7 DEF Types
  <2>. QED
    BY <1>3, <1>4, <1>5, <1>6, <2>1, <2>2, <2>3 DEF Numbers, OwnCap
<1>. QED
  BY <1>8, <1>10, <1>11, <1>12

LEMMA AdmitMoney ==
  ASSUME Types, Shape, Money, NEW c \in Calls, Admit(c)
  PROVE  Money'
<1> DEFINE k == reserved[c]
           o == opened[c]
           Share(p, d) == IF At(c, p, d) THEN k ELSE 0
           DayShare(d) == IF d = o THEN k ELSE 0
<1>1. /\ Types' /\ Shape' /\ Only(c)
      /\ reserved'[c] = k /\ opened'[c] = o /\ op'[c].usd = 0
  BY AdmitTypes
<1>2. PICK r \in AddShared(c) :
        /\ shared' = [shared EXCEPT ![o] = r.key]
        /\ faults' = r.faults
        /\ \/ /\ r.total - k >= Limit
              /\ pc'[c] = "refused"
              /\ spent' = spent
           \/ /\ r.total - k < Limit
              /\ pc'[c] = "calling"
              /\ spent' = [spent EXCEPT ![Home[c]][o] = @ + k]
  BY AdmitTypes
<1>3. Moved(c) /\ Numbers
  BY <1>1, SumsMove, StateNumbers
<1>4. /\ pc[c] = "reserving" /\ op[c].day = o /\ op[c].usd = k
      /\ UNCHANGED <<day, local, restarts, carried, overrun, leaked>>
  BY DEF Admit, Shape
<1>5. /\ k \in Nat /\ k <= MaxAmount /\ MaxAmount \in Nat /\ Limit \in Nat
      /\ Home[c] \in Procs /\ o \in Days /\ op[c].after \in Int
  BY Places, MaxAmountBounds, LimitAssumption
<1>6. /\ r.total \in Int /\ r.key \in Int /\ r.total >= op[c].after
      /\ faults' = 0 => /\ faults = 0
                        /\ r.key = shared[o] + k
                        /\ r.total >= r.key
  BY <1>2, <1>4, Increments
<1>7. Days' = Days
  BY DEF Days
<1>8. ASSUME NEW p \in Procs, NEW d \in Days
      PROVE  /\ Share(p, d) \in Nat /\ DayShare(d) \in Nat
             /\ Share(p, d) <= DayShare(d)
             /\ Calling(c, p, d) = 0 /\ Owing(c, d) = 0
             /\ Held(c, p, d) = Share(p, d)
             /\ Granted(c, p, d) \in Nat
             /\ Granted(c, p, d)' = 0
             /\ op[c].after - k < Limit => Granted(c, p, d) = Share(p, d)
  BY <1>1, <1>2, <1>4, <1>5 DEF Calling, Owing, Held, Granted, At
<1>9. ASSUME faults' = 0, NEW d \in Days
      PROVE  shared'[d] = shared[d] + DayShare(d)
  BY <1>2, <1>5, <1>6, <1>9 DEF Types
<1> USE DEF Money
<1>10. CASE /\ r.total - k >= Limit
            /\ pc'[c] = "refused"
            /\ spent' = spent
  <2>1. ASSUME NEW p \in Procs, NEW d \in Days
        PROVE  /\ Calling(c, p, d)' = 0 /\ Owing(c, d)' = DayShare(d)
               /\ Held(c, p, d)' = Share(p, d)
    BY <1>1, <1>10 DEF Calling, Owing, Held, At
  <2> HIDE DEF Share, DayShare
  <2>2. ASSUME NEW p \in Procs, NEW d \in Days
        PROVE  /\ AllCalling(p, d)' = AllCalling(p, d)
               /\ AllOwing(d)' = AllOwing(d) + DayShare(d)
               /\ AllHeld(p, d)' = AllHeld(p, d)
               /\ AllGranted(p, d)' <= AllGranted(p, d)
               /\ AllGranted(p, d)' \in Int
               /\ Cost(d)' = Cost(d)
    BY <1>3, <1>8, <1>10, <2>1, CostSame DEF Moved, Numbers
  <2>3. BillsCalling'
    BY <1>7, <1>10, <2>2 DEF BillsCalling
  <2>4. SharedCovers'
    <3> SUFFICES ASSUME faults' = 0, NEW d \in Days
                 PROVE  shared'[d] + carried'[d] >= Cost(d)' + AllOwing(d)'
      BY <1>7 DEF SharedCovers
    <3>1. shared[d] + carried[d] >= Cost(d) + AllOwing(d)
      BY <1>6 DEF SharedCovers
    <3>. QED
      BY <1>3, <1>4, <1>5, <1>8, <1>9, <2>2, <3>1 DEF Numbers
  <2>5. SharedExact'
    <3> SUFFICES ASSUME ~leaked', faults' = 0, \A d \in Days : carried'[d] = 0,
                        NEW d \in Days
                 PROVE  shared'[d] = Cost(d)' + AllOwing(d)'
      BY <1>7 DEF SharedExact
    <3>1. shared[d] = Cost(d) + AllOwing(d)
      BY <1>4, <1>6 DEF SharedExact
    <3>. QED
      BY <1>3, <1>4, <1>5, <1>8, <1>9, <2>2, <3>1 DEF Numbers
  <2>6. LocalCovers'
    BY <1>4, <1>7, <1>10, <2>2 DEF LocalCovers
  <2>7. BelowOwnCap'
    <3> SUFFICES ASSUME restarts' = 0, NEW p \in Procs, NEW d \in Days
                 PROVE  spent'[p][d] + AllGranted(p, d)' < OwnCap(p, d)'
      BY <1>7 DEF BelowOwnCap
    <3>1. spent[p][d] + AllGranted(p, d) < OwnCap(p, d)
      BY <1>4 DEF BelowOwnCap
    <3>. QED
      BY <1>3, <1>4, <1>5, <1>10, <2>2, <3>1 DEF Numbers, OwnCap
  <2>. QED
    BY <2>3, <2>4, <2>5, <2>6, <2>7
<1>11. CASE /\ r.total - k < Limit
            /\ pc'[c] = "calling"
            /\ spent' = [spent EXCEPT ![Home[c]][o] = @ + k]
  <2>1. ASSUME NEW p \in Procs, NEW d \in Days
        PROVE  /\ Calling(c, p, d)' = Share(p, d) /\ Owing(c, d)' = 0
               /\ Held(c, p, d)' = 0
    BY <1>1, <1>11 DEF Calling, Owing, Held, At
  <2>2. op[c].after - k < Limit
    BY <1>5, <1>6, <1>11
  <2>3. ASSUME NEW p \in Procs, NEW d \in Days
        PROVE  /\ Cost(d)' = Cost(d) + DayShare(d)
               /\ spent'[p][d] = spent[p][d] + Share(p, d)
    <3>1. Charged(c, k)
      BY <1>11 DEF Charged
    <3>2. k \in Int
      BY <1>5
    <3> HIDE DEF k
    <3>3. /\ Cost(d)' = Cost(d) + (IF d = opened[c] THEN k ELSE 0)
          /\ spent'[p][d] = spent[p][d] + (IF At(c, p, d) THEN k ELSE 0)
      BY <3>1, <3>2, CostShift
    <3>. QED
      BY <3>3
  <2> HIDE DEF Share, DayShare
  <2>4. ASSUME NEW p \in Procs, NEW d \in Days
        PROVE  /\ AllCalling(p, d)' = AllCalling(p, d) + Share(p, d)
               /\ AllOwing(d)' = AllOwing(d)
               /\ AllHeld(p, d)' = AllHeld(p, d) - Share(p, d)
               /\ AllGranted(p, d)' = AllGranted(p, d) - Share(p, d)
    BY <1>3, <1>8, <2>1, <2>2 DEF Moved, Numbers
  <2>5. BillsCalling'
    <3> SUFFICES ASSUME NEW p \in Procs, NEW d \in Days
                 PROVE  spent'[p][d] >= AllCalling(p, d)'
      BY <1>7 DEF BillsCalling
    <3>1. spent[p][d] >= AllCalling(p, d)
      BY DEF BillsCalling
    <3>. QED
      BY <1>3, <1>8, <2>3, <2>4, <3>1 DEF Numbers
  <2>6. SharedCovers'
    <3> SUFFICES ASSUME faults' = 0, NEW d \in Days
                 PROVE  shared'[d] + carried'[d] >= Cost(d)' + AllOwing(d)'
      BY <1>7 DEF SharedCovers
    <3>1. shared[d] + carried[d] >= Cost(d) + AllOwing(d)
      BY <1>6 DEF SharedCovers
    <3>. QED
      BY <1>3, <1>4, <1>5, <1>8, <1>9, <2>3, <2>4, <3>1 DEF Numbers
  <2>7. SharedExact'
    <3> SUFFICES ASSUME ~leaked', faults' = 0, \A d \in Days : carried'[d] = 0,
                        NEW d \in Days
                 PROVE  shared'[d] = Cost(d)' + AllOwing(d)'
      BY <1>7 DEF SharedExact
    <3>1. shared[d] = Cost(d) + AllOwing(d)
      BY <1>4, <1>6 DEF SharedExact
    <3>. QED
      BY <1>3, <1>4, <1>5, <1>8, <1>9, <2>3, <2>4, <3>1 DEF Numbers
  <2>8. LocalCovers'
    <3> SUFFICES ASSUME restarts' = 0, NEW p \in Procs, NEW d \in Days
                 PROVE  local'[p][d] + carried'[d] >= spent'[p][d] + AllHeld(p, d)'
      BY <1>7 DEF LocalCovers
    <3>1. local[p][d] + carried[d] >= spent[p][d] + AllHeld(p, d)
      BY <1>4 DEF LocalCovers
    <3>. QED
      BY <1>3, <1>4, <1>8, <2>3, <2>4, <3>1 DEF Numbers
  <2>9. BelowOwnCap'
    <3> SUFFICES ASSUME restarts' = 0, NEW p \in Procs, NEW d \in Days
                 PROVE  spent'[p][d] + AllGranted(p, d)' < OwnCap(p, d)'
      BY <1>7 DEF BelowOwnCap
    <3>1. spent[p][d] + AllGranted(p, d) < OwnCap(p, d)
      BY <1>4 DEF BelowOwnCap
    <3>. QED
      BY <1>3, <1>4, <1>5, <1>8, <2>3, <2>4, <3>1 DEF Numbers, OwnCap
  <2>. QED
    BY <2>5, <2>6, <2>7, <2>8, <2>9
<1>. QED
  BY <1>2, <1>10, <1>11

(* What replacing a reservation does to the sums: what it takes off the    *)
(* total of the day it was made on is taken off the total of today, or     *)
(* added to it, and carried makes up for it when the two differ.           *)
On(b, u) == IF b THEN u ELSE 0

Replacing(c, u) ==
  \A p \in Procs, d \in Days :
    /\ Cost(d)' + AllOwing(d)'
         = Cost(d) + AllOwing(d) + On(d = opened[c], u) - On(d = day, u)
    /\ spent'[p][d] + AllHeld(p, d)'
         = spent[p][d] + AllHeld(p, d) + On(At(c, p, d), u)
    /\ spent'[p][d] + AllGranted(p, d)'
         <= spent[p][d] + AllGranted(p, d) + On(At(c, p, d) /\ u > 0, u)
    /\ Cost(d)' \in Int /\ spent'[p][d] \in Int /\ AllGranted(p, d)' \in Int

LEMMA ReplacedMoney ==
  ASSUME Types, Shape, Money, Types', NEW c \in Calls, NEW u \in Int,
         Replaced(c, u), Replacing(c, u),
         UNCHANGED <<day, shared, restarts, faults, leaked>>
  PROVE  SharedCovers' /\ SharedExact' /\ LocalCovers' /\ BelowOwnCap'
<1> USE DEF Money
<1> DEFINE away == opened[c] # day
<1>1. Numbers
  BY StateNumbers
<1>2. /\ Home[c] \in Procs /\ opened[c] \in Days /\ day \in Days
      /\ MaxAmount \in Nat /\ Limit \in Nat
  BY Places, MaxAmountBounds, LimitAssumption DEF Types
<1>3. Days' = Days
  BY DEF Days
<1>4. ASSUME NEW p \in Procs, NEW d \in Days
      PROVE  local'[p][d] = local[p][d] + On(p = Home[c] /\ d = day, u)
  <2>1. local[p][d] \in Int
    BY <1>1 DEF Numbers
  <2>. QED
    BY <1>2, <2>1 DEF Replaced, Types, On
<1>5. ASSUME NEW d \in Days
      PROVE  /\ carried'[d] = carried[d] - On(d = day /\ away /\ u <= 0, u)
                                         + On(d = opened[c] /\ away /\ u > 0, u)
             /\ carried[d] \in Nat
  <2>1. carried[d] \in Nat
    BY DEF Types
  <2>2. CASE ~away
    BY <2>1, <2>2 DEF Replaced, Carry, On
  <2>3. CASE away /\ u <= 0
    BY <1>2, <2>1, <2>3 DEF Replaced, Carry, Types, On
  <2>4. CASE away /\ u > 0
    <3>1. ~(u <= 0)
      BY <2>4
    <3>. QED
      BY <1>2, <2>1, <2>4, <3>1 DEF Replaced, Carry, Types, On
  <2>. QED
    BY <2>1, <2>2, <2>3, <2>4
<1>6. ASSUME NEW p \in Procs, NEW d \in Days
      PROVE  /\ overrun'[p][d] = overrun[p][d] + On(At(c, p, d) /\ ~away /\ u > 0, u)
             /\ overrun[p][d] \in Nat
  <2>1. overrun[p][d] \in Nat
    BY DEF Types
  <2>2. CASE away \/ u <= 0
    BY <2>1, <2>2 DEF Replaced, Overruns, On
  <2>3. CASE ~away /\ u > 0
    <3>1. ~(u <= 0)
      BY <2>3
    <3>. QED
      BY <1>2, <2>1, <2>3, <3>1 DEF Replaced, Overruns, Types, On, At
  <2>. QED
    BY <2>1, <2>2, <2>3
<1>7. SharedCovers'
  <2> SUFFICES ASSUME faults' = 0, NEW d \in Days
               PROVE  shared'[d] + carried'[d] >= Cost(d)' + AllOwing(d)'
    BY <1>3 DEF SharedCovers
  <2>1. shared[d] + carried[d] >= Cost(d) + AllOwing(d)
    BY DEF SharedCovers
  <2>2. Cost(d)' + AllOwing(d)'
          = Cost(d) + AllOwing(d) + On(d = opened[c], u) - On(d = day, u)
    BY <1>2 DEF Replacing
  <2>3. /\ carried'[d] = carried[d] - On(d = day /\ away /\ u <= 0, u)
                                    + On(d = opened[c] /\ away /\ u > 0, u)
        /\ carried[d] \in Nat
    BY <1>5
  <2>4. /\ shared[d] \in Int /\ Cost(d) \in Int /\ AllOwing(d) \in Int
        /\ shared'[d] = shared[d]
    BY <1>1, <1>2 DEF Numbers
  <2>. QED
    BY <2>1, <2>2, <2>3, <2>4 DEF On
<1>8. SharedExact'
  <2> SUFFICES ASSUME ~leaked', faults' = 0, \A d \in Days : carried'[d] = 0,
                      NEW d \in Days
               PROVE  shared'[d] = Cost(d)' + AllOwing(d)'
    BY <1>3 DEF SharedExact
  <2>1. \A e \in Days : carried[e] = 0
    BY <1>5 DEF On
  <2>2. shared[d] = Cost(d) + AllOwing(d)
    BY <2>1 DEF SharedExact
  <2>3. Cost(d)' + AllOwing(d)'
          = Cost(d) + AllOwing(d) + On(d = opened[c], u) - On(d = day, u)
    BY <1>2 DEF Replacing
  <2>4. opened[c] = day \/ u = 0
    <3>1. /\ carried'[day] = carried[day] - On(away /\ u <= 0, u)
                              + On(day = opened[c] /\ away /\ u > 0, u)
          /\ carried'[opened[c]] = carried[opened[c]]
                                     - On(opened[c] = day /\ away /\ u <= 0, u)
                                     + On(away /\ u > 0, u)
      BY <1>2, <1>5
    <3>2. /\ carried'[day] = 0 /\ carried[day] = 0
          /\ carried'[opened[c]] = 0 /\ carried[opened[c]] = 0
      BY <1>2, <2>1
    <3>. QED
      BY <3>1, <3>2 DEF On
  <2>5. On(d = opened[c], u) - On(d = day, u) = 0
    BY <2>4 DEF On
  <2>6. /\ Cost(d) \in Int /\ AllOwing(d) \in Int
        /\ On(d = opened[c], u) \in Int /\ On(d = day, u) \in Int
    BY <1>1, <1>2 DEF Numbers, On
  <2>. QED
    BY <2>2, <2>3, <2>5, <2>6
<1>9. LocalCovers'
  <2> SUFFICES ASSUME restarts' = 0, NEW p \in Procs, NEW d \in Days
               PROVE  local'[p][d] + carried'[d] >= spent'[p][d] + AllHeld(p, d)'
    BY <1>3 DEF LocalCovers
  <2>1. local[p][d] + carried[d] >= spent[p][d] + AllHeld(p, d)
    BY DEF LocalCovers
  <2>2. spent'[p][d] + AllHeld(p, d)'
          = spent[p][d] + AllHeld(p, d) + On(At(c, p, d), u)
    BY DEF Replacing
  <2>3. local[p][d] \in Int /\ spent[p][d] \in Int /\ AllHeld(p, d) \in Nat
    BY <1>1 DEF Numbers
  <2>4. local'[p][d] = local[p][d] + On(p = Home[c] /\ d = day, u)
    BY <1>4
  <2>5. /\ carried'[d] = carried[d] - On(d = day /\ away /\ u <= 0, u)
                                    + On(d = opened[c] /\ away /\ u > 0, u)
        /\ carried[d] \in Nat
    BY <1>5
  <2>. QED
    BY <2>1, <2>2, <2>3, <2>4, <2>5 DEF On, At
<1>10. BelowOwnCap'
  <2> SUFFICES ASSUME restarts' = 0, NEW p \in Procs, NEW d \in Days
               PROVE  spent'[p][d] + AllGranted(p, d)' < OwnCap(p, d)'
    BY <1>3 DEF BelowOwnCap
  <2>1. spent[p][d] + AllGranted(p, d) < OwnCap(p, d)
    BY DEF BelowOwnCap
  <2>2. /\ spent'[p][d] + AllGranted(p, d)'
             <= spent[p][d] + AllGranted(p, d) + On(At(c, p, d) /\ u > 0, u)
        /\ spent'[p][d] \in Int /\ AllGranted(p, d)' \in Int
    BY DEF Replacing
  <2>3. spent[p][d] \in Int /\ AllGranted(p, d) \in Nat
    BY <1>1 DEF Numbers
  <2>4. OwnCap(p, d)' >= OwnCap(p, d) + On(At(c, p, d) /\ u > 0, u)
    BY <1>2, <1>5, <1>6 DEF OwnCap, On, At
  <2>5. OwnCap(p, d) \in Int /\ OwnCap(p, d)' \in Int
    BY <1>2, <1>5, <1>6 DEF OwnCap, On
  <2>. QED
    BY <2>1, <2>2, <2>3, <2>4, <2>5 DEF On
<1>. QED
  BY <1>7, <1>8, <1>9, <1>10

LEMMA WithdrawMoney ==
  ASSUME Types, Shape, Money, NEW c \in Calls, Withdraw(c)
  PROVE  Money'
<1> DEFINE u == -reserved[c]
<1>1. Types' /\ Shape' /\ Only(c) /\ Replaced(c, u)
  BY WithdrawTypes
<1>2. /\ pc[c] = "refused" /\ spent' = spent
      /\ UNCHANGED <<day, shared, restarts, faults, leaked>>
  BY DEF Withdraw
<1>3. Moved(c) /\ Numbers
  BY <1>1, SumsMove, StateNumbers
<1>4. reserved[c] \in Nat /\ u \in Int /\ u <= 0 /\ -u = reserved[c]
  BY Places
<1>5. Days' = Days
  BY DEF Days
<1>6. /\ pc'[c] = "settling" /\ op'[c].usd = u /\ op'[c].day = day
  BY <1>1 DEF Replaced
<1> HIDE DEF u
<1>7. ASSUME NEW p \in Procs, NEW d \in Days
      PROVE  /\ Calling(c, p, d) = 0 /\ Owing(c, d) = -On(d = opened[c], u)
             /\ Held(c, p, d) = -On(At(c, p, d), u) /\ Granted(c, p, d) = 0
             /\ Calling(c, p, d)' = 0 /\ Owing(c, d)' = -On(d = day, u)
             /\ Held(c, p, d)' = 0 /\ Granted(c, p, d)' = 0
             /\ On(d = opened[c], u) \in Int /\ On(At(c, p, d), u) \in Int
             /\ On(d = day, u) \in Int
  BY <1>2, <1>4, <1>6 DEF Calling, Owing, Held, Granted, On
<1>8. ASSUME NEW p \in Procs, NEW d \in Days
      PROVE  /\ AllCalling(p, d)' = AllCalling(p, d)
             /\ AllOwing(d)' = AllOwing(d) + On(d = opened[c], u) - On(d = day, u)
             /\ AllHeld(p, d)' = AllHeld(p, d) + On(At(c, p, d), u)
             /\ AllGranted(p, d)' = AllGranted(p, d)
             /\ Cost(d)' = Cost(d)
  BY <1>2, <1>3, <1>7, CostSame DEF Moved, Numbers
<1>9. Replacing(c, u)
  <2>1. ASSUME NEW p, NEW d PROVE On(At(c, p, d) /\ u > 0, u) = 0
    BY <1>4 DEF On
  <2>. QED
    BY <1>2, <1>3, <1>7, <1>8, <2>1 DEF Replacing, Numbers
<1>10. BillsCalling'
  BY <1>2, <1>5, <1>8 DEF BillsCalling, Money
<1>. QED
  BY <1>1, <1>2, <1>4, <1>9, <1>10, ReplacedMoney DEF Money

LEMMA SettleMoney ==
  ASSUME Types, Shape, Money, NEW c \in Calls, Settle(c)
  PROVE  Money'
<1>1. PICK u \in Int :
        /\ reserved[c] + u >= 0
        /\ Types' /\ Shape' /\ Only(c) /\ Replaced(c, u)
        /\ spent' = [spent EXCEPT ![Home[c]][opened[c]] = @ + u]
  BY SettleTypes
<1>2. /\ pc[c] = "calling"
      /\ UNCHANGED <<day, shared, restarts, faults, leaked>>
  BY DEF Settle
<1>3. Moved(c) /\ Numbers
  BY <1>1, SumsMove, StateNumbers
<1>4. reserved[c] \in Nat
  BY Places
<1>5. Days' = Days
  BY DEF Days
<1>6. /\ pc'[c] = "settling" /\ op'[c].usd = u /\ op'[c].day = day
  BY <1>1 DEF Replaced
<1>7. ASSUME NEW p \in Procs, NEW d \in Days
      PROVE  /\ Calling(c, p, d) = On(At(c, p, d), reserved[c])
             /\ Owing(c, d) = 0
             /\ Held(c, p, d) = 0 /\ Granted(c, p, d) = 0
             /\ Calling(c, p, d)' = 0 /\ Owing(c, d)' = -On(d = day, u)
             /\ Held(c, p, d)' = 0 /\ Granted(c, p, d)' = 0
             /\ On(d = opened[c], u) \in Int /\ On(At(c, p, d), u) \in Int
             /\ On(d = day, u) \in Int /\ On(At(c, p, d), reserved[c]) \in Nat
             /\ On(At(c, p, d), reserved[c]) + On(At(c, p, d), u) >= 0
  BY <1>1, <1>2, <1>4, <1>6 DEF Calling, Owing, Held, Granted, On
<1>8. Charged(c, u)
  BY <1>1 DEF Charged
<1>9. ASSUME NEW p \in Procs, NEW d \in Days
      PROVE  /\ Cost(d)' = Cost(d) + On(d = opened[c], u)
             /\ spent'[p][d] = spent[p][d] + On(At(c, p, d), u)
  BY <1>8, CostShift DEF On
<1>10. ASSUME NEW p \in Procs, NEW d \in Days
      PROVE  /\ AllCalling(p, d)' = AllCalling(p, d) - On(At(c, p, d), reserved[c])
             /\ AllOwing(d)' = AllOwing(d) - On(d = day, u)
             /\ AllHeld(p, d)' = AllHeld(p, d)
             /\ AllGranted(p, d)' = AllGranted(p, d)
  BY <1>3, <1>7 DEF Moved, Numbers
<1>11. Replacing(c, u)
  <2> SUFFICES ASSUME NEW p \in Procs, NEW d \in Days
      PROVE
        /\ Cost(d)' + AllOwing(d)'
             = Cost(d) + AllOwing(d) + On(d = opened[c], u) - On(d = day, u)
        /\ spent'[p][d] + AllHeld(p, d)'
             = spent[p][d] + AllHeld(p, d) + On(At(c, p, d), u)
        /\ spent'[p][d] + AllGranted(p, d)'
             <= spent[p][d] + AllGranted(p, d) + On(At(c, p, d) /\ u > 0, u)
        /\ Cost(d)' \in Int /\ spent'[p][d] \in Int /\ AllGranted(p, d)' \in Int
    BY DEF Replacing
  <2>1. On(At(c, p, d), u) <= On(At(c, p, d) /\ u > 0, u)
    BY DEF On
  <2>2. On(At(c, p, d) /\ u > 0, u) \in Int
    BY DEF On
  <2>. QED
    BY <1>3, <1>7, <1>9, <1>10, <2>1, <2>2 DEF Numbers
<1>12. BillsCalling'
  <2> SUFFICES ASSUME NEW p \in Procs, NEW d \in Days
               PROVE  spent'[p][d] >= AllCalling(p, d)'
    BY <1>5 DEF BillsCalling
  <2>1. spent[p][d] >= AllCalling(p, d)
    BY DEF BillsCalling, Money
  <2>. QED
    BY <1>3, <1>7, <1>9, <1>10, <2>1 DEF Numbers
<1>. QED
  BY <1>1, <1>2, <1>11, <1>12, ReplacedMoney DEF Money

LEMMA SettledMoney ==
  ASSUME Types, Shape, Money, NEW c \in Calls, Settled(c)
  PROVE  Money'
<1> DEFINE u == op[c].usd
           o == op[c].day
<1>1. Types' /\ Shape' /\ Only(c) /\ pc'[c] = "idle"
  BY SettledTypes
<1>2. PICK r \in AddShared(c) :
        /\ shared' = [shared EXCEPT ![o] = r.key]
        /\ faults' = r.faults
  BY SettledTypes
<1>3. Moved(c) /\ Numbers
  BY <1>1, SumsMove, StateNumbers
<1>4. /\ pc[c] = "settling"
      /\ UNCHANGED <<day, local, restarts, spent, carried, overrun, leaked>>
  BY DEF Settled, history
<1>5. u \in Int /\ o \in Days /\ Home[c] \in Procs
  BY Places
<1>6. faults' = 0 => faults = 0 /\ r.key = shared[o] + u
  BY <1>2, Increments
<1>7. Days' = Days
  BY DEF Days
<1> HIDE DEF u
<1>8. ASSUME NEW p \in Procs, NEW d \in Days
      PROVE  /\ Calling(c, p, d) = 0 /\ Owing(c, d) = -On(d = o, u)
             /\ Held(c, p, d) = 0 /\ Granted(c, p, d) = 0
             /\ Calling(c, p, d)' = 0 /\ Owing(c, d)' = 0
             /\ Held(c, p, d)' = 0 /\ Granted(c, p, d)' = 0
             /\ On(d = o, u) \in Int
  BY <1>1, <1>4, <1>5 DEF Calling, Owing, Held, Granted, On, u
<1>9. ASSUME NEW p \in Procs, NEW d \in Days
      PROVE  /\ AllCalling(p, d)' = AllCalling(p, d)
             /\ AllOwing(d)' = AllOwing(d) + On(d = o, u)
             /\ AllHeld(p, d)' = AllHeld(p, d)
             /\ AllGranted(p, d)' = AllGranted(p, d)
             /\ Cost(d)' = Cost(d)
  BY <1>3, <1>4, <1>8, CostSame DEF Moved, Numbers
<1>10. ASSUME faults' = 0, NEW d \in Days
       PROVE  shared'[d] = shared[d] + On(d = o, u)
  <2>1. shared[d] \in Int
    BY <1>3, <1>5 DEF Numbers
  <2>. QED
    BY <1>2, <1>5, <1>6, <1>10, <2>1 DEF Types, On
<1> USE DEF Money
<1>11. BillsCalling' /\ LocalCovers' /\ BelowOwnCap'
  BY <1>4, <1>7, <1>9 DEF BillsCalling, LocalCovers, BelowOwnCap, OwnCap
<1>12. SharedCovers'
  <2> SUFFICES ASSUME faults' = 0, NEW d \in Days
               PROVE  shared'[d] + carried'[d] >= Cost(d)' + AllOwing(d)'
    BY <1>7 DEF SharedCovers
  <2>1. shared[d] + carried[d] >= Cost(d) + AllOwing(d)
    BY <1>6 DEF SharedCovers
  <2>. QED
    BY <1>3, <1>4, <1>5, <1>8, <1>9, <1>10, <2>1 DEF Numbers
<1>13. SharedExact'
  <2> SUFFICES ASSUME ~leaked', faults' = 0, \A d \in Days : carried'[d] = 0,
                      NEW d \in Days
               PROVE  shared'[d] = Cost(d)' + AllOwing(d)'
    BY <1>7 DEF SharedExact
  <2>1. shared[d] = Cost(d) + AllOwing(d)
    BY <1>4, <1>6 DEF SharedExact
  <2>. QED
    BY <1>3, <1>5, <1>8, <1>9, <1>10, <2>1 DEF Numbers
<1>. QED
  BY <1>11, <1>12, <1>13

(* A step that writes no counter, adds to no bill and takes no call up.    *)
Lighter ==
  /\ UNCHANGED <<shared, carried, overrun>>
  /\ faults' # 0 \/ faults' = faults
  /\ \A p \in Procs, d \in Days :
       /\ AllCalling(p, d)' \in Int /\ AllOwing(d)' \in Int
       /\ AllHeld(p, d)' \in Int /\ AllGranted(p, d)' \in Int
       /\ Cost(d)' \in Int /\ spent'[p][d] \in Int
       /\ faults' # 0 \/ (Cost(d)' <= Cost(d) /\ AllOwing(d)' <= AllOwing(d))
       /\ spent'[p][d] - AllCalling(p, d)' >= spent[p][d] - AllCalling(p, d)
       /\ leaked' \/ (Cost(d)' = Cost(d) /\ AllOwing(d)' = AllOwing(d))
       /\ \/ restarts' # 0
          \/ /\ restarts' = restarts /\ local'[p][d] = local[p][d]
             /\ spent'[p][d] + AllHeld(p, d)' <= spent[p][d] + AllHeld(p, d)
             /\ spent'[p][d] + AllGranted(p, d)' <= spent[p][d] + AllGranted(p, d)
  /\ leaked' \/ leaked' = leaked

LEMMA LighterMoney ==
  ASSUME Types, Shape, Money, Lighter
  PROVE  Money'
<1> USE DEF Money
<1>1. Numbers /\ MaxAmount \in Nat /\ Limit \in Nat
  BY StateNumbers, MaxAmountBounds, LimitAssumption
<1>2. Days' = Days
  BY DEF Days
<1>3. BillsCalling'
  <2> SUFFICES ASSUME NEW p \in Procs, NEW d \in Days
               PROVE  spent'[p][d] >= AllCalling(p, d)'
    BY <1>2 DEF BillsCalling
  <2>1. spent[p][d] >= AllCalling(p, d)
    BY DEF BillsCalling
  <2>. QED
    BY <1>1, <2>1 DEF Numbers, Lighter
<1>4. Procs = {} => \A d \in Days : Cost(d)' = Cost(d)
  BY DEF Cost, Billed
<1>5. CASE Procs = {}
  <2>1. Calls = {}
    BY <1>5, HomeAssumption
  <2>2. \A d \in Days : AllOwing(d)' = AllOwing(d)
    BY <2>1 DEF AllOwing
  <2>3. leaked' = leaked \/ leaked'
    BY DEF Lighter
  <2>4. SharedCovers' /\ SharedExact'
    BY <1>2, <1>4, <1>5, <2>2, <2>3
    DEF SharedCovers, SharedExact, Lighter
  <2>5. LocalCovers' /\ BelowOwnCap'
    BY <1>5 DEF LocalCovers, BelowOwnCap
  <2>. QED
    BY <1>3, <2>4, <2>5
<1>6. CASE Procs # {}
  <2>1. PICK q : q \in Procs
    BY <1>6
  <2>2. SharedCovers'
    <3> SUFFICES ASSUME faults' = 0, NEW d \in Days
                 PROVE  shared'[d] + carried'[d] >= Cost(d)' + AllOwing(d)'
      BY <1>2 DEF SharedCovers
    <3>1. shared[d] + carried[d] >= Cost(d) + AllOwing(d)
      BY DEF SharedCovers, Lighter
    <3>. QED
      BY <1>1, <2>1, <3>1 DEF Numbers, Lighter
  <2>3. SharedExact'
    <3> SUFFICES ASSUME ~leaked', faults' = 0, \A d \in Days : carried'[d] = 0,
                        NEW d \in Days
                 PROVE  shared'[d] = Cost(d)' + AllOwing(d)'
      BY <1>2 DEF SharedExact
    <3>1. shared[d] = Cost(d) + AllOwing(d)
      BY DEF SharedExact, Lighter
    <3>. QED
      BY <1>1, <2>1, <3>1 DEF Numbers, Lighter
  <2>4. LocalCovers'
    <3> SUFFICES ASSUME restarts' = 0, NEW p \in Procs, NEW d \in Days
                 PROVE  local'[p][d] + carried'[d] >= spent'[p][d] + AllHeld(p, d)'
      BY <1>2 DEF LocalCovers
    <3>1. local[p][d] + carried[d] >= spent[p][d] + AllHeld(p, d)
      BY DEF LocalCovers, Lighter
    <3>. QED
      BY <1>1, <3>1 DEF Numbers, Lighter
  <2>5. BelowOwnCap'
    <3> SUFFICES ASSUME restarts' = 0, NEW p \in Procs, NEW d \in Days
                 PROVE  spent'[p][d] + AllGranted(p, d)' < OwnCap(p, d)'
      BY <1>2 DEF BelowOwnCap
    <3>1. spent[p][d] + AllGranted(p, d) < OwnCap(p, d)
      BY DEF BelowOwnCap, Lighter
    <3>2. OwnCap(p, d)' = OwnCap(p, d) /\ OwnCap(p, d) \in Int
      BY <1>1 DEF OwnCap, Numbers, Lighter
    <3>. QED
      BY <1>1, <3>1, <3>2 DEF Numbers, Lighter
  <2>. QED
    BY <1>3, <2>2, <2>3, <2>4, <2>5
<1>. QED
  BY <1>5, <1>6

LEMMA KeepMoney ==
  ASSUME Types, Shape, Money, NEW c \in Calls, KeepReservation(c)
  PROVE  Money'
<1>1. Types' /\ Shape' /\ Only(c) /\ pc'[c] = "idle"
  BY KeepTypes
<1>2. Moved(c) /\ Numbers
  BY <1>1, SumsMove, StateNumbers
<1>3. /\ pc[c] = "calling"
      /\ UNCHANGED <<local, shared, restarts, faults, spent, carried, overrun, leaked>>
  BY DEF KeepReservation, ledger, history
<1>4. ASSUME NEW p \in Procs, NEW d \in Days
      PROVE  /\ Calling(c, p, d) \in Nat /\ Owing(c, d) = 0
             /\ Held(c, p, d) = 0 /\ Granted(c, p, d) = 0
             /\ Calling(c, p, d)' = 0 /\ Owing(c, d)' = 0
             /\ Held(c, p, d)' = 0 /\ Granted(c, p, d)' = 0
  BY <1>1, <1>3, Places DEF Calling, Owing, Held, Granted
<1>5. ASSUME NEW p \in Procs, NEW d \in Days
      PROVE  /\ AllCalling(p, d)' = AllCalling(p, d) - Calling(c, p, d)
             /\ AllOwing(d)' = AllOwing(d)
             /\ AllHeld(p, d)' = AllHeld(p, d)
             /\ AllGranted(p, d)' = AllGranted(p, d)
             /\ Cost(d)' = Cost(d)
  BY <1>2, <1>3, <1>4, CostSame DEF Moved, Numbers
<1>6. Lighter
  BY <1>2, <1>3, <1>4, <1>5 DEF Lighter, Numbers
<1>. QED
  BY <1>6, LighterMoney

LEMMA FailsMoney ==
  ASSUME Types, Shape, Money, NEW c \in Calls, StreamFails(c)
  PROVE  Money'
<1> DEFINE k == reserved[c]
<1>1. Types' /\ Shape' /\ Only(c) /\ pc'[c] = "idle"
  BY FailsTypes
<1>2. Moved(c) /\ Numbers
  BY <1>1, SumsMove, StateNumbers
<1>3. /\ pc[c] = "calling" /\ leaked'
      /\ UNCHANGED <<local, shared, restarts, faults, carried, overrun>>
  BY DEF StreamFails, ledger
<1>4. k \in Nat /\ -k \in Int
  BY Places
<1>5. Charged(c, -k)
  <2>1. Home[c] \in Procs /\ opened[c] \in Days
    BY Places
  <2>2. spent[Home[c]][opened[c]] - k = spent[Home[c]][opened[c]] + (-k)
    BY <1>2, <1>4, <2>1 DEF Numbers
  <2>. QED
    BY <2>2 DEF StreamFails, Charged
<1>6. ASSUME NEW p \in Procs, NEW d \in Days
      PROVE  /\ Calling(c, p, d) = On(At(c, p, d), k) /\ Owing(c, d) = 0
             /\ Held(c, p, d) = 0 /\ Granted(c, p, d) = 0
             /\ Calling(c, p, d)' = 0 /\ Owing(c, d)' = 0
             /\ Held(c, p, d)' = 0 /\ Granted(c, p, d)' = 0
  BY <1>1, <1>3 DEF Calling, Owing, Held, Granted, On
<1> HIDE DEF k
<1>7. ASSUME NEW p \in Procs, NEW d \in Days
      PROVE  /\ Cost(d)' = Cost(d) - On(d = opened[c], k)
             /\ spent'[p][d] = spent[p][d] - On(At(c, p, d), k)
  <2>1. /\ Cost(d)' = Cost(d) + (IF d = opened[c] THEN -k ELSE 0)
        /\ spent'[p][d] = spent[p][d] + (IF At(c, p, d) THEN -k ELSE 0)
    BY <1>4, <1>5, CostShift
  <2>. QED
    BY <1>2, <1>4, <2>1 DEF Numbers, On
<1>8. ASSUME NEW p \in Procs, NEW d \in Days
      PROVE  On(d = opened[c], k) \in Nat /\ On(At(c, p, d), k) \in Nat
  BY <1>4 DEF On
<1>9. ASSUME NEW p \in Procs, NEW d \in Days
      PROVE  /\ AllCalling(p, d)' = AllCalling(p, d) - On(At(c, p, d), k)
             /\ AllOwing(d)' = AllOwing(d)
             /\ AllHeld(p, d)' = AllHeld(p, d)
             /\ AllGranted(p, d)' = AllGranted(p, d)
  BY <1>2, <1>6, <1>8 DEF Moved, Numbers
<1>10. Lighter
  <2>1. UNCHANGED <<shared, carried, overrun, faults>> /\ leaked'
    BY <1>3
  <2>2. ASSUME NEW p \in Procs, NEW d \in Days
        PROVE  /\ AllCalling(p, d)' \in Int /\ AllOwing(d)' \in Int
               /\ AllHeld(p, d)' \in Int /\ AllGranted(p, d)' \in Int
               /\ Cost(d)' \in Int /\ spent'[p][d] \in Int
               /\ Cost(d)' <= Cost(d) /\ AllOwing(d)' <= AllOwing(d)
               /\ spent'[p][d] - AllCalling(p, d)' >= spent[p][d] - AllCalling(p, d)
               /\ restarts' = restarts /\ local'[p][d] = local[p][d]
               /\ spent'[p][d] + AllHeld(p, d)' <= spent[p][d] + AllHeld(p, d)
               /\ spent'[p][d] + AllGranted(p, d)' <= spent[p][d] + AllGranted(p, d)
    BY <1>2, <1>3, <1>7, <1>8, <1>9 DEF Numbers
  <2>. QED
    BY <2>1, <2>2 DEF Lighter
<1>. QED
  BY <1>10, LighterMoney

(* Nothing of the calls and of the bills changes.                          *)
LEMMA StillMoney ==
  ASSUME Types, Shape, Money,
         UNCHANGED <<local, shared, pc, reserved, opened, op, restarts,
                     faults, spent, carried, overrun, leaked>>
  PROVE  Money'
<1>1. ASSUME NEW p \in Procs, NEW d \in Days
      PROVE  /\ AllCalling(p, d)' = AllCalling(p, d)
             /\ AllOwing(d)' = AllOwing(d)
             /\ AllHeld(p, d)' = AllHeld(p, d)
             /\ AllGranted(p, d)' = AllGranted(p, d)
             /\ Cost(d)' = Cost(d)
  BY CostSame
     DEF AllCalling, AllOwing, AllHeld, AllGranted, Calling, Owing, Held,
         Granted, At, Total, Adds
<1>2. Numbers
  BY StateNumbers
<1>3. Lighter
  BY <1>1, <1>2 DEF Lighter, Numbers
<1>. QED
  BY <1>3, LighterMoney

LEMMA RestartMoney ==
  ASSUME Types, Shape, Money, NEW q \in Procs, Restart(q)
  PROVE  Money'
<1>1. Types' /\ Shape' /\ Stopped(q) /\ restarts' # 0
  BY RestartTypes
<1>2. leaked' /\ UNCHANGED <<shared, spent, carried, overrun>>
  BY DEF Restart
<1>3. \/ faults' # 0
      \/ /\ faults' = faults
         /\ \A y \in Calls : Home[y] = q /\ pc[y] = "settling" => ~(op[y].usd > 0)
  BY Bounds DEF Restart, Types
<1>4. Numbers
  BY StateNumbers
<1>5. ASSUME NEW p \in Procs, NEW d \in Days
      PROVE  /\ AllCalling(p, d)' \in Int /\ AllCalling(p, d)' <= AllCalling(p, d)
             /\ AllOwing(d)' \in Int
             /\ faults' # 0 \/ AllOwing(d)' <= AllOwing(d)
             /\ AllHeld(p, d)' \in Int
             /\ AllGranted(p, d)' \in Int
  <2> DEFINE C == [y \in Calls |-> Calling(y, p, d)]
             O == [y \in Calls |-> Owing(y, d)]
             C1 == [y \in Calls |-> Calling(y, p, d)']
             O1 == [y \in Calls |-> Owing(y, d)']
             H1 == [y \in Calls |-> Held(y, p, d)']
             G1 == [y \in Calls |-> Granted(y, p, d)']
  <2>1. /\ C \in [Calls -> Int] /\ C1 \in [Calls -> Int]
        /\ O \in [Calls -> Int] /\ O1 \in [Calls -> Int]
        /\ H1 \in [Calls -> Int] /\ G1 \in [Calls -> Int]
    BY <1>1, Weights, WeightsNext
  <2>2. ASSUME NEW y \in Calls
        PROVE  C1[y] <= C[y] /\ (faults' # 0 \/ O1[y] <= O[y])
    <3>1. /\ Calling(y, p, d) \in Nat /\ Owing(y, d) \in Int
      BY Weights
    <3>2. CASE pc'[y] = "idle"
      <4>1. Calling(y, p, d)' = 0 /\ Owing(y, d)' = 0
        BY <3>2 DEF Calling, Owing
      <4>2. faults' # 0 \/ Owing(y, d) >= 0
        <5>1. reserved[y] \in Nat /\ op[y].usd \in Int
          BY Places
        <5>2. \/ Home[y] = q
              \/ pc[y] = "idle"
          BY <1>1, <3>2 DEF Stopped
        <5>. QED
          BY <1>3, <5>1, <5>2 DEF Owing
      <4>. QED
        BY <3>1, <4>1, <4>2
    <3>3. CASE pc'[y] # "idle"
      <4>1. /\ pc'[y] = pc[y] /\ reserved'[y] = reserved[y]
            /\ opened'[y] = opened[y] /\ op'[y] = op[y]
        BY <1>1, <3>3 DEF Stopped
      <4>2. Calling(y, p, d)' = Calling(y, p, d) /\ Owing(y, d)' = Owing(y, d)
        BY <4>1 DEF Calling, Owing, At
      <4>. QED
        BY <3>1, <4>2
    <3>. QED
      BY <3>2, <3>3
  <2>3. /\ AllCalling(p, d)' = Total(Calls, C1) /\ AllCalling(p, d) = Total(Calls, C)
        /\ AllOwing(d)' = Total(Calls, O1) /\ AllOwing(d) = Total(Calls, O)
        /\ AllHeld(p, d)' = Total(Calls, H1)
        /\ AllGranted(p, d)' = Total(Calls, G1)
    BY DEF AllCalling, AllOwing, AllHeld, AllGranted, Total, Adds
  <2> HIDE DEF C, O, C1, O1, H1, G1
  <2>4. /\ Total(Calls, C1) <= Total(Calls, C) /\ Total(Calls, C1) \in Int
        /\ faults' # 0 \/ Total(Calls, O1) <= Total(Calls, O)
        /\ Total(Calls, O1) \in Int
        /\ Total(Calls, H1) \in Int /\ Total(Calls, G1) \in Int
    BY <2>1, <2>2, TotalMonotone, TotalInt, CallsAssumption
  <2>. QED
    BY <2>3, <2>4
<1>6. ASSUME NEW d \in Days PROVE Cost(d)' = Cost(d)
  BY <1>2, CostSame
<1>7. Lighter
  BY <1>1, <1>2, <1>4, <1>5, <1>6, <1>3 DEF Lighter, Numbers
<1>. QED
  BY <1>7, LighterMoney

-----------------------------------------------------------------------------

LEMMA MoneyInit ==
  ASSUME Init
  PROVE  Money
<1>1. Types /\ Shape
  BY TypesInit
<1>2. /\ local = [p \in Procs |-> [d \in Days |-> 0]]
      /\ shared = [d \in Days |-> 0]
      /\ pc = [c \in Calls |-> "idle"]
      /\ spent = [p \in Procs |-> [d \in Days |-> 0]]
      /\ carried = [d \in Days |-> 0]
      /\ overrun = [p \in Procs |-> [d \in Days |-> 0]]
  BY DEF Init
<1>3. ASSUME NEW c \in Calls, NEW p, NEW d
      PROVE  /\ Calling(c, p, d) = 0 /\ Owing(c, d) = 0
             /\ Held(c, p, d) = 0 /\ Granted(c, p, d) = 0
  BY <1>2 DEF Calling, Owing, Held, Granted
<1>4. ASSUME NEW p, NEW d
      PROVE  /\ AllCalling(p, d) = 0 /\ AllOwing(d) = 0
             /\ AllHeld(p, d) = 0 /\ AllGranted(p, d) = 0
  <2> DEFINE C == [c \in Calls |-> Calling(c, p, d)]
             O == [c \in Calls |-> Owing(c, d)]
             H == [c \in Calls |-> Held(c, p, d)]
             G == [c \in Calls |-> Granted(c, p, d)]
  <2>1. /\ C \in [Calls -> Int] /\ \A c \in Calls : C[c] = 0
        /\ O \in [Calls -> Int] /\ \A c \in Calls : O[c] = 0
        /\ H \in [Calls -> Int] /\ \A c \in Calls : H[c] = 0
        /\ G \in [Calls -> Int] /\ \A c \in Calls : G[c] = 0
    BY <1>3
  <2> HIDE DEF C, O, H, G
  <2>2. /\ Total(Calls, C) = 0 /\ Total(Calls, O) = 0
        /\ Total(Calls, H) = 0 /\ Total(Calls, G) = 0
    BY <2>1, TotalZero, CallsAssumption
  <2>. QED
    BY <2>2 DEF C, O, H, G, AllCalling, AllOwing, AllHeld, AllGranted
<1>5. ASSUME NEW d \in Days
      PROVE  Cost(d) = 0
  <2>1. /\ Billed(spent, d) \in [Procs -> Int]
        /\ \A p \in Procs : Billed(spent, d)[p] = 0
    BY <1>2 DEF Billed
  <2>. QED
    BY <2>1, TotalZero, ProcsAssumption DEF Cost
<1>6. MaxAmount \in Nat /\ Limit \in Nat \ {0}
  BY MaxAmountBounds, LimitAssumption
<1>7. BillsCalling /\ SharedCovers /\ SharedExact /\ LocalCovers
  BY <1>2, <1>4, <1>5 DEF BillsCalling, SharedCovers, SharedExact, LocalCovers
<1>8. BelowOwnCap
  BY <1>2, <1>4, <1>6 DEF BelowOwnCap, OwnCap
<1>. QED
  BY <1>7, <1>8 DEF Money

LEMMA Inductive == IInv /\ [Next]_vars => IInv'
<1> SUFFICES ASSUME IInv, [Next]_vars PROVE IInv'
  OBVIOUS
<1> USE DEF IInv
<1>1. ASSUME NEW c \in Calls, Reserve(c) PROVE IInv'
  BY <1>1, ReserveTypes, ReserveMoney
<1>2. ASSUME NEW c \in Calls, Admit(c) PROVE IInv'
  BY <1>2, AdmitTypes, AdmitMoney
<1>3. ASSUME NEW c \in Calls, Withdraw(c) PROVE IInv'
  BY <1>3, WithdrawTypes, WithdrawMoney
<1>4. ASSUME NEW c \in Calls, Settle(c) PROVE IInv'
  BY <1>4, SettleTypes, SettleMoney
<1>5. ASSUME NEW c \in Calls, Settled(c) PROVE IInv'
  BY <1>5, SettledTypes, SettledMoney
<1>6. ASSUME NEW c \in Calls, KeepReservation(c) PROVE IInv'
  BY <1>6, KeepTypes, KeepMoney
<1>7. ASSUME NEW c \in Calls, StreamFails(c) PROVE IInv'
  BY <1>7, FailsTypes, FailsMoney
<1>8. CASE Midnight
  BY <1>8, MidnightTypes, StillMoney
<1>9. ASSUME NEW p \in Procs, Restart(p) PROVE IInv'
  BY <1>9, RestartTypes, RestartMoney
<1>10. CASE UNCHANGED vars
  <2>1. UNCHANGED <<day, local, shared, pc, reserved, opened, op, restarts,
                    faults, spent, carried, overrun, leaked>>
    BY <1>10 DEF vars, ledger, history
  <2>2. Days' = Days
    BY DEF Days
  <2>3. Types' /\ Shape'
    BY <2>1, <2>2 DEF Types, Shape
  <2>. QED
    BY <2>1, <2>3, StillMoney
<1>. QED
  BY <1>1, <1>2, <1>3, <1>4, <1>5, <1>6, <1>7, <1>8, <1>9, <1>10 DEF Next

LEMMA Invariance == Spec => []IInv
<1>1. Init => IInv
  BY TypesInit, MoneyInit DEF IInv
<1>. QED
  BY <1>1, Inductive, PTL DEF Spec

(* Every variable keeps its range: what a process has on its bill is never *)
(* negative, since a call is taken off it once, for what it had on it.     *)
THEOREM SpendTypes == Spec => []TypeOK
<1>1. ASSUME IInv PROVE TypeOK
  <2>1. Types /\ Shape /\ BillsCalling
    BY <1>1 DEF IInv, Money
  <2>2. Numbers
    BY <2>1, StateNumbers
  <2>3. ASSUME NEW p \in Procs, NEW d \in Days
        PROVE  spent[p][d] \in Nat
    BY <2>1, <2>2 DEF Numbers, BillsCalling
  <2>4. spent \in [Procs -> [Days -> Nat]]
    BY <2>1, <2>3 DEF Types
  <2>. QED
    BY <2>1, <2>4 DEF Types, TypeOK
<1>. QED
  BY <1>1, Invariance, PTL

(* Only its admission takes a call from reserving to calling.              *)
LEMMA AdmittedIsAdmit ==
  ASSUME IInv, [Next]_vars, NEW c \in Calls, Admitted(c)
  PROVE  Admit(c)
<1>1. pc[c] = "reserving" /\ pc'[c] = "calling" /\ pc \in [Calls -> {"idle",
        "reserving", "refused", "calling", "settling"}]
  BY DEF Admitted, IInv, Types
<1>2. ASSUME NEW y \in Calls,
             \/ Reserve(y) \/ Withdraw(y) \/ Settle(y) \/ Settled(y)
             \/ KeepReservation(y) \/ StreamFails(y)
      PROVE  FALSE
  BY <1>1, <1>2
     DEF Reserve, Withdraw, Settle, Settled, KeepReservation, StreamFails,
         Return, Goto
<1>3. ASSUME NEW y \in Calls, Admit(y), y # c PROVE FALSE
  <2>1. Only(y)
    BY <1>3, AdmitTypes DEF IInv
  <2>. QED
    BY <1>1, <1>3, <2>1 DEF Only
<1>4. ~Midnight /\ ~(\E p \in Procs : Restart(p)) /\ ~UNCHANGED vars
  BY <1>1 DEF Midnight, Restart, vars
<1>. QED
  BY <1>2, <1>3, <1>4 DEF Next

(* What is owed to a total in the negative is what has yet to be added.    *)
LEMMA OwedIsUnseen ==
  ASSUME Types, Shape, NEW d \in Days
  PROVE  /\ AllOwing(d) + Unseen(d) >= 0
         /\ Unseen(d) \in Int /\ AllOwing(d) \in Int
<1> DEFINE O == [c \in Calls |-> Owing(c, d)]
           U == [c \in Calls |-> -Late(c, d)]
           L == [c \in Calls |-> Late(c, d)]
<1>1. ASSUME NEW c \in Calls
      PROVE  /\ Late(c, d) \in Int /\ Owing(c, d) \in Int
             /\ -Late(c, d) <= Owing(c, d)
  <2>1. reserved[c] \in Nat /\ op[c].usd \in Int
    BY Places
  <2>. QED
    BY <2>1 DEF Late, Owing
<1>2. /\ O \in [Calls -> Int] /\ U \in [Calls -> Int] /\ L \in [Calls -> Int]
      /\ \A c \in Calls : U[c] = -L[c] /\ U[c] <= O[c]
  BY <1>1
<1>3. Unseen(d) = Total(Calls, L)
  <2>1. ASSUME NEW h
        PROVE  Adds(Calls, L, h)
                 <=> h = [t \in SUBSET Calls |->
                            IF t = {} THEN 0
                            ELSE Late(CHOOSE x \in t : TRUE, d)
                                   + h[t \ {CHOOSE x \in t : TRUE}]]
    <3>1. ASSUME NEW t \in SUBSET Calls, t # {}
          PROVE  L[Pick(t)] = Late(Pick(t), d)
      BY <3>1, PickIs
    <3>. QED
      BY <3>1 DEF Adds, Pick
  <2>. QED
    BY <2>1, ZenonT(30) DEF Unseen, Total, MapThenSumSet, MapThenFoldSet
<1>4. AllOwing(d) = Total(Calls, O)
  BY DEF AllOwing
<1> HIDE DEF O, U, L
<1>5. Total(Calls, U) = -Total(Calls, L) /\ Total(Calls, U) <= Total(Calls, O)
  BY <1>2, TotalOpposite, TotalMonotone, CallsAssumption
<1>6. Total(Calls, L) \in Int /\ Total(Calls, O) \in Int
  BY <1>2, TotalInt, CallsAssumption
<1>. QED
  BY <1>3, <1>4, <1>5, <1>6

LEMMA BillIsCost == \A d \in Days : Bill(d) = Cost(d)
  BY SumIsTotal DEF Bill, Cost

(* A call is let in only while the bill of its day is under the cap, but   *)
(* for answers dearer than their reservations that are being written down  *)
(* and for what midnight moved; whatever the processes, their calls and    *)
(* their interleaving (spend_guard.reserve() compares the total of all).   *)
THEOREM Overshoot == Spec => OvershootBounded
<1> DEFINE Good == \A c \in Calls :
                     Admitted(c) /\ faults' = 0 => BelowCapWhenAdmitted(c)
<1>1. ASSUME IInv, [Next]_vars PROVE [Good]_vars
  <2> SUFFICES ASSUME NEW c \in Calls, Admitted(c), faults' = 0
               PROVE  BelowCapWhenAdmitted(c)
    OBVIOUS
  <2> DEFINE d == opened[c]
  <2> HIDE DEF d
  <2>1. Types /\ Shape /\ SharedCovers /\ d = opened[c]
    BY <1>1 DEF IInv, Money, d
  <2>2. Admit(c)
    BY <1>1, <2>1, AdmittedIsAdmit
  <2>3. PICK r \in AddShared(c) : faults' = r.faults /\ r.total - reserved[c] < Limit
    BY <2>1, <2>2, AdmitTypes DEF Admitted
  <2>4. /\ op[c].day = d /\ op[c].usd = reserved[c]
        /\ reserved[c] \in Nat /\ d \in Days /\ Limit \in Nat
    BY <2>1, Places, Bounds DEF Admitted, Shape
  <2>5. faults = 0 /\ r.key = shared[d] + reserved[c] /\ r.total >= r.key
          /\ r.total \in Int /\ shared[d] \in Int
    BY <2>1, <2>3, <2>4, Increments DEF Types
  <2>6. shared[d] + carried[d] >= Cost(d) + AllOwing(d)
    BY <2>1, <2>4, <2>5 DEF SharedCovers
  <2>7. AllOwing(d) + Unseen(d) >= 0 /\ Unseen(d) \in Int /\ AllOwing(d) \in Int
    BY <2>1, <2>4, OwedIsUnseen
  <2>8. Bill(d) = Cost(d) /\ Cost(d) \in Int /\ carried[d] \in Nat
    BY <2>1, <2>4, BillIsCost, CostInt DEF Types
  <2>9. Bill(d) < Limit + carried[d] + Unseen(d)
    BY <2>3, <2>4, <2>5, <2>6, <2>7, <2>8
  <2>. QED
    BY <2>1, <2>9 DEF BelowCapWhenAdmitted
<1>. QED
  BY <1>1, Invariance, PTL DEF Spec, OvershootBounded

(* Without Redis each process enforces the cap on its own bill.            *)
THEOREM OutageOvershoot == Spec => []OutageBounded
<1>1. ASSUME IInv PROVE OutageBounded
  <2>1. Types /\ Shape /\ BelowOwnCap
    BY <1>1 DEF IInv, Money
  <2>2. Numbers /\ MaxAmount \in Nat /\ Limit \in Nat
    BY <2>1, StateNumbers, MaxAmountBounds, LimitAssumption
  <2> SUFFICES ASSUME restarts = 0, NEW p \in Procs, NEW d \in Days
               PROVE  spent[p][d] < Limit + MaxAmount + carried[d] + overrun[p][d]
    BY DEF OutageBounded
  <2>3. spent[p][d] + AllGranted(p, d) < OwnCap(p, d)
    BY <2>1 DEF BelowOwnCap
  <2>. QED
    BY <2>2, <2>3 DEF Numbers, OwnCap
<1>. QED
  BY <1>1, Invariance, PTL

(* With no call under way the Redis key of a day is its bill.              *)
THEOREM Ledger == Spec => []LedgerIsBill
<1>1. ASSUME IInv PROVE LedgerIsBill
  <2> SUFFICES ASSUME \A c \in Calls : pc[c] = "idle", ~leaked, faults = 0,
                      \A d \in Days : carried[d] = 0, NEW d \in Days
               PROVE  shared[d] = Bill(d)
    BY DEF LedgerIsBill
  <2>1. Types /\ Shape /\ SharedExact
    BY <1>1 DEF IInv, Money
  <2>2. shared[d] = Cost(d) + AllOwing(d)
    BY <2>1 DEF SharedExact
  <2> DEFINE O == [c \in Calls |-> Owing(c, d)]
  <2>3. O \in [Calls -> Int] /\ \A c \in Calls : O[c] = 0
    BY DEF Owing
  <2> HIDE DEF O
  <2>4. Total(Calls, O) = 0
    BY <2>3, TotalZero, CallsAssumption
  <2>5. AllOwing(d) = 0
    BY <2>4 DEF AllOwing, O
  <2>. QED
    BY <2>1, <2>2, <2>5, BillIsCost, CostInt
<1>. QED
  BY <1>1, Invariance, PTL

-----------------------------------------------------------------------------
(* The circuit breaker.                                                    *)

LEMMA BreakerTypesInit ==
  ASSUME BreakerInit
  PROVE  BreakerTypeOK
BY ThresholdAssumption, CooldownAssumption DEF BreakerInit, BreakerTypeOK

LEMMA BreakerTypesNext ==
  ASSUME BreakerTypeOK, [BreakerNext]_breakerVars
  PROVE  BreakerTypeOK'
<1> USE ThresholdAssumption, CooldownAssumption DEF BreakerTypeOK
<1>1. ASSUME NEW c \in Callers, AllowClosed(c) PROVE BreakerTypeOK'
  BY <1>1 DEF AllowClosed
<1>2. ASSUME NEW c \in Callers, AllowProbe(c) PROVE BreakerTypeOK'
  BY <1>2 DEF AllowProbe
<1>3. ASSUME NEW c \in Callers, RecordSuccess(c) PROVE BreakerTypeOK'
  BY <1>3 DEF RecordSuccess
<1>4. ASSUME NEW c \in Callers, RecordFailure(c) PROVE BreakerTypeOK'
  BY <1>4 DEF RecordFailure, Open
<1>5. CASE Tick
  BY <1>5 DEF Tick
<1>6. CASE Toggle
  BY <1>6 DEF Toggle
<1>7. CASE UNCHANGED breakerVars
  BY <1>7 DEF breakerVars
<1>. QED
  BY <1>1, <1>2, <1>3, <1>4, <1>5, <1>6, <1>7 DEF BreakerNext

(* Every variable keeps its range (the states circuit_breaker.py stores).  *)
THEOREM BreakerTypes ==
  BreakerSpec => []BreakerTypeOK
<1>1. BreakerInit => BreakerTypeOK
  BY BreakerTypesInit
<1>2. BreakerTypeOK /\ [BreakerNext]_breakerVars => BreakerTypeOK'
  BY BreakerTypesNext
<1>. QED
  BY <1>1, <1>2, PTL DEF BreakerSpec

(***************************************************************************)
(* The invariant that carries the safety properties.  A breaker that is    *)
(* not closed has counted its threshold, so every failure reported by a    *)
(* call admitted earlier re-opens it; and the trial of a half-open breaker *)
(* is one caller, admitted after the whole cooldown, that is still in      *)
(* flight.                                                                 *)
(***************************************************************************)
BreakerInv ==
  /\ ClosedBelowThreshold
  /\ state # "closed" => failures = Threshold
  /\ state = "open" => trials = {}
  /\ state = "half_open" =>
       /\ elapsed = Cooldown
       /\ \E c \in Callers : trials = {c}
  /\ TrialInFlight

LEMMA BreakerInvInit ==
  ASSUME BreakerInit
  PROVE  BreakerInv
BY ThresholdAssumption
   DEF BreakerInit, BreakerInv, ClosedBelowThreshold, TrialInFlight

LEMMA BreakerInvNext ==
  ASSUME BreakerTypeOK, BreakerInv, [BreakerNext]_breakerVars
  PROVE  BreakerInv'
<1> USE ThresholdAssumption, CooldownAssumption
        DEF BreakerTypeOK, BreakerInv, ClosedBelowThreshold, TrialInFlight
<1>1. ASSUME NEW c \in Callers, AllowClosed(c) PROVE BreakerInv'
  BY <1>1 DEF AllowClosed
<1>2. ASSUME NEW c \in Callers, AllowProbe(c) PROVE BreakerInv'
  <2>1. trials' = {c} /\ inFlight' = inFlight \union {c}
    BY <1>2 DEF AllowProbe
  <2>2. elapsed' = Cooldown
    BY <1>2 DEF AllowProbe, ReadyToProbe
  <2> QED
    BY <1>2, <2>1, <2>2 DEF AllowProbe
<1>3. ASSUME NEW c \in Callers, RecordSuccess(c) PROVE BreakerInv'
  BY <1>3 DEF RecordSuccess
<1>4. ASSUME NEW c \in Callers, RecordFailure(c) PROVE BreakerInv'
  <2>1. CASE state = "half_open" \/ failures' >= Threshold
    <3>1. state' = "open" /\ trials' = {}
      BY <1>4, <2>1 DEF RecordFailure, Open
    <3>2. failures' = Threshold
      BY <1>4, <2>1 DEF RecordFailure
    <3> QED
      BY <3>1, <3>2
  <2>2. CASE ~(state = "half_open" \/ failures' >= Threshold)
    <3>1. state' = state /\ state = "closed" /\ failures' < Threshold
      BY <1>4, <2>2 DEF RecordFailure
    <3> QED
      BY <3>1
  <2> QED
    BY <2>1, <2>2
<1>5. CASE Tick
  BY <1>5 DEF Tick
<1>6. CASE Toggle
  BY <1>6 DEF Toggle
<1>7. CASE UNCHANGED breakerVars
  BY <1>7 DEF breakerVars
<1>. QED
  BY <1>1, <1>2, <1>3, <1>4, <1>5, <1>6, <1>7 DEF BreakerNext

LEMMA BreakerInvariant ==
  BreakerSpec => []BreakerInv
<1>1. BreakerInit => BreakerInv
  BY BreakerInvInit
<1>2. BreakerTypeOK /\ BreakerInv /\ [BreakerNext]_breakerVars => BreakerInv'
  BY BreakerInvNext
<1>. QED
  BY <1>1, <1>2, BreakerTypes, PTL DEF BreakerSpec

(* One trial call per opening, and only after the cooldown (allow()).      *)
THEOREM OneTrial ==
  BreakerSpec => []OneTrialPerOpening
<1>1. BreakerInv => OneTrialPerOpening
  BY FS_Singleton DEF BreakerInv, OneTrialPerOpening
<1>. QED
  BY <1>1, BreakerInvariant, PTL

(* A breaker is never closed with its threshold already counted.           *)
THEOREM ClosedMeansBelow ==
  BreakerSpec => []ClosedBelowThreshold
  BY BreakerInvariant, PTL DEF BreakerInv

(* A half-open breaker always has its trial still to report.               *)
THEOREM TrialReports ==
  BreakerSpec => []TrialInFlight
  BY BreakerInvariant, PTL DEF BreakerInv
=============================================================================
