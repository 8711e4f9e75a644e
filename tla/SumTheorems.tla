----------------------------- MODULE SumTheorems -----------------------------
(***************************************************************************)
(* Facts about the sums of the community modules, SumFunction and          *)
(* SumFunctionOnSet, that the ledgers of this project are accounted with.  *)
(* They are defined by recursion over the subsets of a set, in an order    *)
(* that CHOOSE gives, and the induction is over those subsets: a set of    *)
(* subsets of a finite set has a smallest one.                             *)
(* The last part says the same of folds that compute other values: there   *)
(* is such a function, and it stays where each of its steps stays.         *)
(***************************************************************************)
EXTENDS Integers, FiniteSets, Functions, FiniteSetTheorems, WellFoundedInduction, TLAPS

FirstOf(s) == CHOOSE x \in s : TRUE

(* g is the function the folds define by recursion over the subsets of S.  *)
PartialSums(w, S, g) ==
    g = [s \in SUBSET S |-> IF s = {} THEN 0 ELSE w[FirstOf(s)] + g[s \ {FirstOf(s)}]]

LEMMA SmallestSubset ==
    ASSUME NEW S, IsFiniteSet(S), NEW F, F \subseteq SUBSET S, F # {}
    PROVE  \E s \in F : \A t \in F : t \subseteq s => t = s
<1>1. IsWellFoundedOn(StrictSubsetOrdering(S), SUBSET S)
  BY FS_StrictSubsetOrderingWellFounded, FS_FiniteSubsetsOfFinite
<1>2. PICK s \in F : \A t \in F : ~ (<<t, s>> \in StrictSubsetOrdering(S))
  <2> HIDE DEF IsWellFoundedOn
  <2> QED BY <1>1, WFMin, Zenon
<1> QED BY <1>2 DEF StrictSubsetOrdering

LEMMA PartialSumsAgree ==
    ASSUME NEW w, NEW S, NEW T, NEW g, NEW h, PartialSums(w, S, g), PartialSums(w, T, h),
           NEW s, s \subseteq S, s \subseteq T, IsFiniteSet(s)
    PROVE  g[s] = h[s]
<1> DEFINE F == {t \in SUBSET s : g[t] # h[t]}
<1>1. SUFFICES ASSUME F # {} PROVE FALSE
  OBVIOUS
<1>2. PICK t \in F : \A u \in F : u \subseteq t => u = t
  <2>1. F \subseteq SUBSET s
    OBVIOUS
  <2> HIDE DEF F
  <2> QED BY <1>1, <2>1, SmallestSubset
<1>3. t \in SUBSET S /\ t \in SUBSET T /\ g[t] # h[t]
  BY <1>2
<1>4. /\ g[t] = IF t = {} THEN 0 ELSE w[FirstOf(t)] + g[t \ {FirstOf(t)}]
      /\ h[t] = IF t = {} THEN 0 ELSE w[FirstOf(t)] + h[t \ {FirstOf(t)}]
  BY <1>3 DEF PartialSums
<1>5. t # {}
  BY <1>3, <1>4
<1>6. FirstOf(t) \in t
  BY <1>5 DEF FirstOf
<1>7. t \ {FirstOf(t)} \notin F
  BY <1>2, <1>6
<1>8. t \ {FirstOf(t)} \in SUBSET s
  BY <1>2
<1> QED BY <1>3, <1>4, <1>5, <1>7, <1>8

LEMMA PartialSumsExist ==
    ASSUME NEW w, NEW S, IsFiniteSet(S)
    PROVE  \E g : PartialSums(w, S, g)
<1> DEFINE F == {t \in SUBSET S : ~ \E g : PartialSums(w, t, g)}
           Pick(t) == CHOOSE g : PartialSums(w, t, g)
<1>1. SUFFICES ASSUME F # {} PROVE FALSE
  OBVIOUS
<1>2. PICK t \in F : \A u \in F : u \subseteq t => u = t
  <2>1. F \subseteq SUBSET S
    OBVIOUS
  <2> HIDE DEF F
  <2> QED BY <1>1, <2>1, SmallestSubset
<1> DEFINE V(s) == IF s # t THEN Pick(s)[s]
                   ELSE IF t = {} THEN 0 ELSE w[FirstOf(t)] + Pick(t \ {FirstOf(t)})[t \ {FirstOf(t)}]
           g == [s \in SUBSET t |-> V(s)]
<1>3. \A s \in SUBSET t : s # t => PartialSums(w, s, Pick(s))
  BY <1>2
<1>4. ASSUME NEW s \in SUBSET t
      PROVE  g[s] = IF s = {} THEN 0 ELSE w[FirstOf(s)] + g[s \ {FirstOf(s)}]
  <2>1. CASE s = {} /\ t # {}
    <3>1. g[s] = Pick(s)[s]
      BY <2>1
    <3>2. PartialSums(w, s, Pick(s))
      BY <1>3, <2>1
    <3>3. Pick(s)[s] = 0
      <4> HIDE DEF Pick
      <4> QED BY <3>2, <2>1 DEF PartialSums
    <3> QED BY <3>1, <3>3, <2>1
  <2>2. CASE s = {} /\ t = {}
    BY <2>2
  <2>3. CASE s # {}
    <3> DEFINE r == s \ {FirstOf(s)}
    <3>1. FirstOf(s) \in s /\ r \in SUBSET t /\ r # t /\ r # s
      BY <2>3 DEF FirstOf
    <3>2. g[r] = Pick(r)[r]
      BY <3>1
    <3>3. CASE s = t
      BY <3>1, <3>2, <3>3, <2>3
    <3>4. CASE s # t
      <4>1. g[s] = Pick(s)[s]
        BY <3>4
      <4>2. PartialSums(w, s, Pick(s)) /\ PartialSums(w, r, Pick(r))
        BY <1>3, <3>1, <3>4
      <4> HIDE DEF Pick
      <4>3. Pick(s)[s] = w[FirstOf(s)] + Pick(s)[r]
        BY <4>2, <2>3 DEF PartialSums
      <4>4. IsFiniteSet(r)
        BY <3>1, FS_Subset
      <4> HIDE DEF r
      <4>5. Pick(s)[r] = Pick(r)[r]
        BY <4>2, <4>4, PartialSumsAgree DEF r
      <4> QED BY <4>1, <4>3, <4>5, <3>2, <2>3 DEF r
    <3> QED BY <3>3, <3>4
  <2> QED BY <2>1, <2>2, <2>3
<1>5. PartialSums(w, t, g)
  <2> HIDE DEF V
  <2>1. g = [s \in SUBSET t |-> g[s]]
    OBVIOUS
  <2> HIDE DEF g
  <2> QED BY <2>1, <1>4, Zenon DEF PartialSums
<1> QED BY <1>2, <1>5

(* Over integers a total is an integer, and any element may go first.      *)
LEMMA PartialSumsAnyFirst ==
    ASSUME NEW w, NEW S, NEW g, IsFiniteSet(S), PartialSums(w, S, g), \A x \in S : w[x] \in Int
    PROVE  \A s \in SUBSET S : g[s] \in Int /\ \A x \in s : g[s] = w[x] + g[s \ {x}]
<1> DEFINE Good(s) == g[s] \in Int /\ \A x \in s : g[s] = w[x] + g[s \ {x}]
           F == {t \in SUBSET S : ~ Good(t)}
<1>1. SUFFICES ASSUME F # {} PROVE FALSE
  OBVIOUS
<1>2. PICK t \in F : \A u \in F : u \subseteq t => u = t
  <2>1. F \subseteq SUBSET S
    OBVIOUS
  <2> HIDE DEF F
  <2> QED BY <1>1, <2>1, SmallestSubset
<1>3. \A s \in SUBSET S : g[s] = IF s = {} THEN 0 ELSE w[FirstOf(s)] + g[s \ {FirstOf(s)}]
  BY Zenon DEF PartialSums
<1>4. \A u \in SUBSET t : u # t => Good(u)
  <2> HIDE DEF Good
  <2> QED BY <1>2
<1>5. CASE t = {}
  <2>1. g[t] = 0
    BY <1>3, <1>5
  <2> QED BY <1>2, <1>5, <2>1
<1>6. CASE t # {}
  <2> DEFINE c == FirstOf(t)
             r == t \ {c}
  <2>1. c \in t /\ r \in SUBSET t /\ r # t /\ c \in S /\ w[c] \in Int
    BY <1>2, <1>6 DEF FirstOf
  <2>2. g[t] = w[c] + g[r] /\ g[r] \in Int
    <3>1. g[t] = w[c] + g[r]
      <4>1. t \in SUBSET S
        BY <1>2
      <4> QED BY <1>3, <1>6, <4>1
    <3>2. g[r] \in Int
      BY <1>4, <2>1
    <3> QED BY <3>1, <3>2
  <2>3. ASSUME NEW x \in t, x # c
        PROVE  g[t] = w[x] + g[t \ {x}]
    <3> DEFINE both == t \ {x, c}
    <3>1. w[x] \in Int /\ x \in r
      BY <1>2, <2>3
    <3>2. g[r] = w[x] + g[both] /\ g[both] \in Int
      <4>1. r \ {x} = both
        OBVIOUS
      <4>2. both \in SUBSET t /\ both # t
        BY <2>1
      <4> HIDE DEF r, both, c
      <4>3. Good(r) /\ Good(both)
        BY <1>4, <2>1, <4>2
      <4> QED BY <3>1, <4>1, <4>3
    <3>3. g[t \ {x}] = w[c] + g[both]
      <4>1. (t \ {x}) \ {c} = both
        OBVIOUS
      <4>2. t \ {x} \in SUBSET t /\ t \ {x} # t /\ c \in t \ {x}
        BY <2>1, <2>3
      <4> HIDE DEF r, both, c
      <4>3. Good(t \ {x})
        BY <1>4, <4>2
      <4> QED BY <4>1, <4>2, <4>3
    <3> HIDE DEF r, both, c
    <3> QED BY <2>1, <2>2, <3>1, <3>2, <3>3
  <2>4. Good(t)
    <3>1. g[t] \in Int
      <4> HIDE DEF r, c
      <4> QED BY <2>1, <2>2
    <3>2. ASSUME NEW x \in t PROVE g[t] = w[x] + g[t \ {x}]
      BY <2>2, <2>3
    <3> QED BY <3>1, <3>2
  <2> QED BY <1>2, <2>4
<1> QED BY <1>5, <1>6

(* What the two operators for sums are: totals of any such function.       *)
LEMMA SumIsTotal ==
    ASSUME NEW w, NEW S, IsFiniteSet(S)
    PROVE  \E g : PartialSums(w, S, g) /\ SumFunctionOnSet(w, S) = g[S]
<1> DEFINE it == CHOOSE g : g = [s \in SUBSET S |-> IF s = {} THEN 0 ELSE w[CHOOSE x \in s : TRUE] + g[s \ {CHOOSE x \in s : TRUE}]]
<1>1. SumFunctionOnSet(w, S) = it[S]
  BY DEF SumFunctionOnSet, FoldFunctionOnSet, MapThenFoldSet
<1>2. \E g : g = [s \in SUBSET S |-> IF s = {} THEN 0 ELSE w[CHOOSE x \in s : TRUE] + g[s \ {CHOOSE x \in s : TRUE}]]
  <2>1. \E g : PartialSums(w, S, g)
    BY PartialSumsExist
  <2> QED BY <2>1, Zenon DEF PartialSums, FirstOf
<1>3. PartialSums(w, S, it)
  BY <1>2, Zenon DEF PartialSums, FirstOf
<1> QED BY <1>1, <1>3

-----------------------------------------------------------------------------
(* A sum of integers is one, it is 0 for nothing, and any element of it    *)
(* may be taken out.                                                       *)
THEOREM SumSplit ==
    ASSUME NEW w, NEW S, IsFiniteSet(S), \A x \in S : w[x] \in Int
    PROVE  /\ SumFunctionOnSet(w, S) \in Int
           /\ S = {} => SumFunctionOnSet(w, S) = 0
           /\ \A x \in S : SumFunctionOnSet(w, S) = w[x] + SumFunctionOnSet(w, S \ {x})
<1>1. PICK g : PartialSums(w, S, g) /\ SumFunctionOnSet(w, S) = g[S]
  BY SumIsTotal
<1>2. g[S] \in Int /\ \A x \in S : g[S] = w[x] + g[S \ {x}]
  BY <1>1, PartialSumsAnyFirst
<1>3. ASSUME NEW x \in S
      PROVE  SumFunctionOnSet(w, S \ {x}) = g[S \ {x}]
  <2>1. IsFiniteSet(S \ {x})
    BY FS_Subset
  <2>2. PICK h : PartialSums(w, S \ {x}, h) /\ SumFunctionOnSet(w, S \ {x}) = h[S \ {x}]
    BY <2>1, SumIsTotal
  <2>3. S \ {x} \subseteq S
    OBVIOUS
  <2>4. h[S \ {x}] = g[S \ {x}]
    BY <1>1, <2>1, <2>2, <2>3, PartialSumsAgree
  <2> QED BY <2>2, <2>4
<1>4. S = {} => g[S] = 0
  BY <1>1 DEF PartialSums
<1> QED BY <1>1, <1>2, <1>3, <1>4

(* A sum depends on the values over its set and on nothing else.           *)
THEOREM SumSame ==
    ASSUME NEW w, NEW v, NEW S, IsFiniteSet(S), \A x \in S : w[x] = v[x]
    PROVE  SumFunctionOnSet(w, S) = SumFunctionOnSet(v, S)
<1>1. PICK g : PartialSums(w, S, g) /\ SumFunctionOnSet(w, S) = g[S]
  BY SumIsTotal
<1>2. PICK h : PartialSums(v, S, h) /\ SumFunctionOnSet(v, S) = h[S]
  BY SumIsTotal
<1>3. PartialSums(v, S, g)
  <2>1. ASSUME NEW s \in SUBSET S
        PROVE  (IF s = {} THEN 0 ELSE w[FirstOf(s)] + g[s \ {FirstOf(s)}])
                 = (IF s = {} THEN 0 ELSE v[FirstOf(s)] + g[s \ {FirstOf(s)}])
    <3>1. CASE s = {}
      BY <3>1
    <3>2. CASE s # {}
      <4>1. FirstOf(s) \in S
        BY <3>2 DEF FirstOf
      <4>2. w[FirstOf(s)] = v[FirstOf(s)]
        BY <4>1
      <4> QED BY <3>2, <4>2
    <3> QED BY <3>1, <3>2
  <2>2. [s \in SUBSET S |-> IF s = {} THEN 0 ELSE w[FirstOf(s)] + g[s \ {FirstOf(s)}]]
          = [s \in SUBSET S |-> IF s = {} THEN 0 ELSE v[FirstOf(s)] + g[s \ {FirstOf(s)}]]
    BY <2>1, Zenon
  <2> QED BY <1>1, <2>2, Zenon DEF PartialSums
<1>4. g[S] = h[S]
  BY <1>2, <1>3, PartialSumsAgree
<1> QED BY <1>1, <1>2, <1>4

(* When one value changes, the sum changes by as much.                     *)
THEOREM SumChange ==
    ASSUME NEW w, NEW v, NEW S, IsFiniteSet(S), NEW a \in S,
           \A x \in S : w[x] \in Int /\ v[x] \in Int,
           \A x \in S \ {a} : w[x] = v[x]
    PROVE  SumFunctionOnSet(v, S) = SumFunctionOnSet(w, S) - w[a] + v[a]
<1>1. IsFiniteSet(S \ {a}) /\ \A x \in S \ {a} : w[x] \in Int
  BY FS_Subset
<1>2. SumFunctionOnSet(w, S \ {a}) = SumFunctionOnSet(v, S \ {a})
  BY <1>1, SumSame
<1>3. SumFunctionOnSet(w, S \ {a}) \in Int
  BY <1>1, SumSplit
<1>4. SumFunctionOnSet(w, S) = w[a] + SumFunctionOnSet(w, S \ {a})
  BY SumSplit
<1>5. SumFunctionOnSet(v, S) = v[a] + SumFunctionOnSet(v, S \ {a})
  BY SumSplit
<1> QED BY <1>2, <1>3, <1>4, <1>5

(* What is appended to a sequence is added to its sum.                     *)
THEOREM SumAppend ==
    ASSUME NEW n \in Nat, NEW w, NEW v, \A i \in 1 .. n + 1 : v[i] \in Int,
           \A i \in 1 .. n : w[i] = v[i]
    PROVE  /\ SumFunctionOnSet(w, 1 .. n) \in Int
           /\ SumFunctionOnSet(v, 1 .. n + 1) = SumFunctionOnSet(w, 1 .. n) + v[n + 1]
<1> DEFINE S == 1 .. n
           T == 1 .. n + 1
<1>1. IsFiniteSet(S) /\ IsFiniteSet(T)
  BY FS_Interval
<1>2. T \ {n + 1} = S /\ n + 1 \in T /\ v[n + 1] \in Int
  OBVIOUS
<1>3. \A i \in S : w[i] \in Int /\ w[i] = v[i]
  OBVIOUS
<1> HIDE DEF S, T
<1>4. SumFunctionOnSet(v, T) = v[n + 1] + SumFunctionOnSet(v, T \ {n + 1})
  BY <1>1, <1>2, SumSplit DEF T
<1>5. SumFunctionOnSet(w, S) = SumFunctionOnSet(v, S)
  BY <1>1, <1>3, SumSame
<1>6. SumFunctionOnSet(w, S) \in Int
  BY <1>1, <1>3, SumSplit
<1>7. SumFunctionOnSet(v, T) = SumFunctionOnSet(w, S) + v[n + 1]
  BY <1>2, <1>4, <1>5, <1>6
<1> QED
  BY <1>6, <1>7 DEF S, T

(* The natural numbers are those that can be counted to.                   *)
THEOREM CountingUp ==
    ASSUME NEW T, 0 \in T, \A n \in Nat : n \in T => n + 1 \in T
    PROVE  Nat \subseteq T
<1> SUFFICES ASSUME NEW m \in Nat, m \notin T
             PROVE  FALSE
  OBVIOUS
<1> DEFINE S == 0 .. m
           F == {0 .. k : k \in {n \in 0 .. m : n \notin T}}
<1>1. PICK s \in F : \A t \in F : t \subseteq s => t = s
  <2>1. IsFiniteSet(S)
    BY FS_Interval
  <2>2. F \subseteq SUBSET S
    OBVIOUS
  <2>3. F # {}
    OBVIOUS
  <2> HIDE DEF F, S
  <2> QED BY <2>1, <2>2, <2>3, SmallestSubset
<1>2. PICK k \in 0 .. m : k \notin T /\ s = 0 .. k
  BY <1>1
<1>3. k # 0
  BY <1>2
<1>4. k - 1 \in 0 .. m /\ k - 1 \in Nat /\ (k - 1) + 1 = k
  BY <1>3
<1>5. k - 1 \notin T
  BY <1>1, <1>2, <1>4
<1>6. 0 .. (k - 1) \in F /\ 0 .. (k - 1) \subseteq s /\ k \in s /\ k \notin 0 .. (k - 1)
  BY <1>2, <1>4, <1>5
<1> QED BY <1>1, <1>6

(* A tail of zeros adds nothing.                                           *)
THEOREM SumPadded ==
    ASSUME NEW n \in Nat, NEW m \in Nat, NEW v, \A i \in 1 .. n + m : v[i] \in Int,
           \A i \in n + 1 .. n + m : v[i] = 0
    PROVE  SumFunctionOnSet(v, 1 .. n + m) = SumFunctionOnSet(v, 1 .. n)
<1> DEFINE T == {k \in Nat : k <= m => SumFunctionOnSet(v, 1 .. n + k) = SumFunctionOnSet(v, 1 .. n)}
<1>1. 0 \in T
  OBVIOUS
<1>2. ASSUME NEW k \in Nat, k \in T PROVE k + 1 \in T
  <2> SUFFICES ASSUME k + 1 <= m
               PROVE  SumFunctionOnSet(v, 1 .. n + (k + 1)) = SumFunctionOnSet(v, 1 .. n)
    OBVIOUS
  <2>1. SumFunctionOnSet(v, 1 .. n + k) = SumFunctionOnSet(v, 1 .. n)
    BY <1>2
  <2>2. PICK l \in Nat : l = n + k /\ l + 1 = n + (k + 1) /\ l + 1 \in n + 1 .. n + m
    OBVIOUS
  <2>3. \A i \in 1 .. l + 1 : v[i] \in Int
    BY <2>2
  <2>4. /\ SumFunctionOnSet(v, 1 .. l) \in Int
        /\ SumFunctionOnSet(v, 1 .. l + 1) = SumFunctionOnSet(v, 1 .. l) + v[l + 1]
    BY <2>3, SumAppend
  <2> QED BY <2>1, <2>2, <2>4
<1> HIDE DEF T
<1>3. Nat \subseteq T
  BY <1>1, <1>2, CountingUp
<1> QED BY <1>3 DEF T

(* Of the terms after the first n at most one is not 0, and it is gain.    *)
OneGain(v, n, l, gain) ==
    \/ gain = 0 /\ \A i \in n + 1 .. l : v[i] = 0
    \/ \E k \in n + 1 .. l : v[k] = gain /\ \A i \in n + 1 .. l : i # k => v[i] = 0

(* What a longer sequence adds, when at most one of its new terms is not 0. *)
THEOREM SumExtended ==
    ASSUME NEW w, NEW v, NEW n \in Nat, NEW l \in Nat, NEW gain \in Int, OneGain(v, n, l, gain),
           n <= l, \A i \in 1 .. l : v[i] \in Int, \A i \in 1 .. n : w[i] = v[i]
    PROVE  /\ SumFunctionOnSet(w, 1 .. n) \in Int
           /\ SumFunctionOnSet(v, 1 .. l) = SumFunctionOnSet(w, 1 .. n) + gain
<1> DEFINE S == 1 .. n
           Z == 1 .. l
<1>1. IsFiniteSet(S) /\ IsFiniteSet(Z)
  <2>1. 1 \in Int /\ n \in Int /\ l \in Int
    OBVIOUS
  <2> QED BY <2>1, FS_Interval
<1>2. PICK m \in Nat : l = n + m
  <2>1. l - n \in Nat /\ l = n + (l - n)
    OBVIOUS
  <2> QED BY <2>1
<1>3. \A i \in S : i \in Z /\ w[i] \in Int
  OBVIOUS
<1>4. SumFunctionOnSet(w, S) = SumFunctionOnSet(v, S) /\ SumFunctionOnSet(w, S) \in Int
  <2> HIDE DEF S
  <2>1. SumFunctionOnSet(w, S) \in Int
    BY <1>1, <1>3, SumSplit
  <2>2. \A i \in S : w[i] = v[i]
    BY DEF S
  <2> QED BY <1>1, <2>1, <2>2, SumSame
<1>5. CASE gain = 0 /\ \A i \in n + 1 .. l : v[i] = 0
  <2>1. SumFunctionOnSet(v, 1 .. n + m) = SumFunctionOnSet(v, 1 .. n)
    BY <1>2, <1>5, SumPadded
  <2> QED BY <1>2, <1>4, <1>5, <2>1
<1>6. CASE \E k \in n + 1 .. l : v[k] = gain /\ \A i \in n + 1 .. l : i # k => v[i] = 0
  <2>1. PICK k \in n + 1 .. l : v[k] = gain /\ \A i \in n + 1 .. l : i # k => v[i] = 0
    BY <1>6
  <2>2. PICK u : u = [i \in Z |-> IF i = k THEN 0 ELSE v[i]]
    OBVIOUS
  <2>3. /\ \A i \in Z : u[i] \in Int /\ v[i] \in Int
        /\ \A i \in Z \ {k} : u[i] = v[i]
        /\ k \in Z /\ u[k] = 0
        /\ \A i \in n + 1 .. l : u[i] = 0
        /\ \A i \in S : u[i] = v[i]
    BY <2>1, <2>2
  <2>4. SumFunctionOnSet(u, 1 .. n + m) = SumFunctionOnSet(u, 1 .. n)
    BY <1>2, <2>3, SumPadded
  <2>5. SumFunctionOnSet(u, S) = SumFunctionOnSet(v, S)
    BY <1>1, <2>3, SumSame
  <2>6. SumFunctionOnSet(v, Z) = SumFunctionOnSet(u, Z) - u[k] + v[k]
    <3>1. PICK Y, j : Y = Z /\ j = k
      OBVIOUS
    <3>2. /\ IsFiniteSet(Y) /\ j \in Y /\ \A i \in Y : u[i] \in Int /\ v[i] \in Int
          /\ \A i \in Y \ {j} : u[i] = v[i]
      BY <1>1, <2>3, <3>1
    <3>3. SumFunctionOnSet(v, Y) = SumFunctionOnSet(u, Y) - u[j] + v[j]
      BY <3>2, SumChange
    <3> QED BY <3>1, <3>3
  <2> QED BY <1>2, <1>4, <2>1, <2>3, <2>4, <2>5, <2>6
<1> QED BY <1>5, <1>6 DEF OneGain

-----------------------------------------------------------------------------
(* Folds.  A fold over the elements of S, each taken by pick from those    *)
(* that are left, of a function f that stays in V, is a function.          *)
PartialFolds(f, pick, base, S, g) ==
    \A s \in SUBSET S : g[s] = IF s = {} THEN base ELSE f[<<pick[s], g[s \ {pick[s]}]>>]

Picks(pick, S) == \A s \in SUBSET S : s # {} => pick[s] \in s

LEMMA PartialFoldsAgree ==
    ASSUME NEW f, NEW pick, NEW base, NEW S, NEW T, NEW g, NEW h,
           PartialFolds(f, pick, base, S, g), PartialFolds(f, pick, base, T, h),
           NEW s, s \subseteq S, s \subseteq T, IsFiniteSet(s), Picks(pick, s)
    PROVE  g[s] = h[s]
<1> DEFINE F == {t \in SUBSET s : g[t] # h[t]}
<1>1. SUFFICES ASSUME F # {} PROVE FALSE
  OBVIOUS
<1>2. PICK t \in F : \A u \in F : u \subseteq t => u = t
  <2>1. F \subseteq SUBSET s
    OBVIOUS
  <2> HIDE DEF F
  <2> QED BY <1>1, <2>1, SmallestSubset
<1>3. t \in SUBSET S /\ t \in SUBSET T /\ t \in SUBSET s /\ g[t] # h[t]
  BY <1>2
<1>4. /\ g[t] = IF t = {} THEN base ELSE f[<<pick[t], g[t \ {pick[t]}]>>]
      /\ h[t] = IF t = {} THEN base ELSE f[<<pick[t], h[t \ {pick[t]}]>>]
  BY <1>3 DEF PartialFolds
<1>5. t # {}
  BY <1>3, <1>4
<1>6. pick[t] \in t
  BY <1>3, <1>5 DEF Picks
<1>7. t \ {pick[t]} \notin F
  BY <1>2, <1>6
<1>8. t \ {pick[t]} \in SUBSET s
  BY <1>2
<1> QED BY <1>3, <1>4, <1>5, <1>7, <1>8

(* The function that folds the subsets of S exists and has values in V.    *)
THEOREM FoldExists ==
    ASSUME NEW V, NEW base \in V, NEW S, IsFiniteSet(S), NEW pick, Picks(pick, S), NEW f \in [S \X V -> V]
    PROVE  \E g \in [SUBSET S -> V] : PartialFolds(f, pick, base, S, g)
<1> DEFINE Fold(t, g) == g \in [SUBSET t -> V] /\ PartialFolds(f, pick, base, t, g)
           F == {t \in SUBSET S : ~ \E g : Fold(t, g)}
           Pick(t) == CHOOSE g : Fold(t, g)
<1>1. SUFFICES ASSUME F # {} PROVE FALSE
  OBVIOUS
<1>2. PICK t \in F : \A u \in F : u \subseteq t => u = t
  <2>1. F \subseteq SUBSET S
    OBVIOUS
  <2> HIDE DEF F
  <2> QED BY <1>1, <2>1, SmallestSubset
<1> DEFINE r == t \ {pick[t]}
           V0 == IF t = {} THEN base ELSE f[<<pick[t], Pick(r)[r]>>]
           g == [s \in SUBSET t |-> IF s = t THEN V0 ELSE Pick(s)[s]]
<1>3. \A s \in SUBSET t : s # t => Fold(s, Pick(s))
  <2>1. ASSUME NEW s \in SUBSET t, s # t PROVE \E h : Fold(s, h)
    BY <1>2, <2>1
  <2> HIDE DEF Fold
  <2> QED BY <2>1
<1>4. t \subseteq S /\ IsFiniteSet(t) /\ Picks(pick, t)
  BY <1>2, FS_Subset DEF Picks
<1>5. t # {} => pick[t] \in t /\ r \in SUBSET t /\ r # t
  BY <1>4 DEF Picks
<1> HIDE DEF r, Pick
<1>6. \A s \in SUBSET t : s # t => Pick(s)[s] \in V
  BY <1>3
<1>7. V0 \in V
  BY <1>4, <1>5, <1>6
<1>8. g \in [SUBSET t -> V]
  BY <1>6, <1>7
<1>9. ASSUME NEW s \in SUBSET t
      PROVE  g[s] = IF s = {} THEN base ELSE f[<<pick[s], g[s \ {pick[s]}]>>]
  <2>1. CASE s = t
    BY <2>1, <1>5 DEF r
  <2>2. CASE s # t /\ s = {}
    <3>1. g[s] = Pick(s)[s] /\ Fold(s, Pick(s)) /\ s \in SUBSET s
      BY <2>2, <1>3
    <3>2. Pick(s)[s] = base
      BY <3>1, <2>2 DEF PartialFolds
    <3> QED BY <3>1, <3>2, <2>2
  <2>3. CASE s # t /\ s # {}
    <3> DEFINE q == s \ {pick[s]}
    <3>1. pick[s] \in s /\ q \in SUBSET t /\ q # t /\ q \subseteq s
      BY <2>3, <1>4 DEF Picks
    <3> HIDE DEF q
    <3>2. g[s] = Pick(s)[s] /\ g[q] = Pick(q)[q]
      BY <2>3, <3>1
    <3>3. PartialFolds(f, pick, base, s, Pick(s)) /\ PartialFolds(f, pick, base, q, Pick(q))
      BY <1>3, <2>3, <3>1
    <3>4. Pick(s)[s] = f[<<pick[s], Pick(s)[q]>>]
      BY <3>3, <2>3 DEF PartialFolds, q
    <3>5. IsFiniteSet(q) /\ Picks(pick, q)
      BY <3>1, <1>4, FS_Subset DEF Picks
    <3>6. Pick(s)[q] = Pick(q)[q]
      BY <3>1, <3>3, <3>5, PartialFoldsAgree
    <3> QED BY <3>2, <3>4, <3>6, <2>3 DEF q
  <2> QED BY <2>1, <2>2, <2>3
<1>10. Fold(t, g)
  <2> HIDE DEF g
  <2> QED BY <1>8, <1>9 DEF PartialFolds
<1> QED
  <2> HIDE DEF Fold, g
  <2> QED BY <1>2, <1>10
=============================================================================
