------------------------------ MODULE Dmi_proofs ------------------------------
(***************************************************************************)
(* Proofs about the BIOS tables, for any tables, any way they are read and *)
(* any width of their addresses.                                           *)
(***************************************************************************)
EXTENDS Dmi, FiniteSetTheorems, SequenceTheorems, WellFoundedInduction, TLAPS

-----------------------------------------------------------------------------
(* Induction over the naturals, by the least counterexample.               *)

LessThan == OpToRel(<, Nat)

LEMMA LeastExists ==
  ASSUME NEW T \in SUBSET Nat, T # {}
  PROVE  \E x \in T : \A y \in T : x <= y
<1>1. IsWellFoundedOn(LessThan, Nat)
  BY NatLessThanWellFounded DEF LessThan
<1>2. \A a, b \in Nat : a < b => <<a, b>> \in LessThan
  BY DEF LessThan, OpToRel
<1>3. T \subseteq Nat
  OBVIOUS
<1>4. PICK x \in T : \A y \in T : ~ (<<y, x>> \in LessThan)
  BY <1>1, <1>3, WFMin
<1>5. ASSUME NEW y \in T PROVE x <= y
  <2>1. x \in Nat /\ y \in Nat
    OBVIOUS
  <2>2. ~ (y < x)
    BY <1>2, <1>4, <2>1
  <2> QED
    BY <2>1, <2>2
<1> QED
  BY <1>4, <1>5

(* A set of naturals without 0, and without a successor of a number outside
   it, is empty.                                                           *)
LEMMA NothingLeft ==
  ASSUME NEW T \in SUBSET Nat, 0 \notin T, \A n \in Nat : n \notin T => n + 1 \notin T
  PROVE  T = {}
<1> SUFFICES ASSUME T # {} PROVE FALSE
  OBVIOUS
<1>1. PICK x \in T : \A y \in T : x <= y
  BY LeastExists
<1>2. x \in Nat /\ x # 0
  OBVIOUS
<1>3. x - 1 \in Nat /\ (x - 1) + 1 = x /\ ~ (x <= x - 1)
  BY <1>2
<1>4. x - 1 \notin T
  BY <1>1, <1>3
<1> QED
  BY <1>3, <1>4

LEMMA MaxIs ==
  ASSUME NEW n \in Nat, NEW u \in SUBSET (1 .. n), u # {}
  PROVE  Max(u) \in u /\ \A y \in u : y <= Max(u)
<1> DEFINE T == {n - x : x \in u}
<1>1. T \in SUBSET Nat /\ T # {}
  OBVIOUS
<1> HIDE DEF T
<1>2. PICK z \in T : \A y \in T : z <= y
  BY <1>1, LeastExists
<1>3. PICK x \in u : z = n - x
  BY <1>2 DEF T
<1>4. ASSUME NEW y \in u PROVE x >= y
  <2>1. n - x <= n - y
    BY <1>2, <1>3 DEF T
  <2> QED
    BY <2>1
<1>5. \E m \in u : \A y \in u : m >= y
  BY <1>3, <1>4
<1>6. Max(u) \in u /\ \A y \in u : Max(u) >= y
  BY <1>5 DEF Max
<1> QED
  BY <1>6

-----------------------------------------------------------------------------
(* FoldLeft.  A loop of dmi.c or memdb.c over a sequence: it keeps the
   elements of a set, or it enters them into the database.                 *)

Loop(how, acc, e) ==
  IF how.add THEN AddDimm(acc, e) ELSE IF e \in how.set THEN Append(acc, e) ELSE acc

(* The function FoldLeft chooses, on the subsets of 1 .. n.                *)
Folding(f, how, base, seq, n) ==
  f = [u \in SUBSET (1 .. n) |->
         IF u = {} THEN base ELSE Loop(how, f[u \ {Max(u)}], seq[Max(u)])]

LEMMA FoldingExists ==
  ASSUME NEW how, NEW base, NEW seq
  PROVE  \A n \in Nat : \E f : Folding(f, how, base, seq, n)
<1> DEFINE T == {n \in Nat : ~ \E f : Folding(f, how, base, seq, n)}
<1>1. 0 \notin T
  <2> DEFINE f == [u \in SUBSET (1 .. 0) |-> base]
  <2>1. \A u \in SUBSET (1 .. 0) : u = {}
    OBVIOUS
  <2>2. Folding(f, how, base, seq, 0)
    BY <2>1 DEF Folding
  <2> QED
    BY <2>2
<1>2. ASSUME NEW n \in Nat, n \notin T PROVE n + 1 \notin T
  <2>1. PICK f : Folding(f, how, base, seq, n)
    BY <1>2
  <2> DEFINE S == SUBSET (1 .. n)
             S1 == SUBSET (1 .. n + 1)
             g == [u \in S1 |->
                     IF u = {} THEN base ELSE Loop(how, f[u \ {Max(u)}], seq[Max(u)])]
  <2>2. ASSUME NEW u \in S1, u # {} PROVE u \ {Max(u)} \in S
    <3>0. n + 1 \in Nat /\ u \in SUBSET (1 .. n + 1)
      OBVIOUS
    <3>1. Max(u) \in u /\ \A y \in u : y <= Max(u)
      BY <2>2, <3>0, MaxIs
    <3>2. ASSUME NEW y \in u \ {Max(u)} PROVE y \in 1 .. n
      <4>1. y <= Max(u) /\ y # Max(u) /\ Max(u) \in 1 .. n + 1 /\ y \in 1 .. n + 1
        BY <3>1
      <4> QED
        BY <4>1
    <3> QED
      BY <3>2
  <2>3. \A u \in S : u \in S1
    OBVIOUS
  <2>4. \A u \in S : f[u] = g[u]
    BY <2>1, <2>3 DEF Folding
  <2> HIDE DEF S, S1
  <2>5. \A u \in S1 : u # {} => f[u \ {Max(u)}] = g[u \ {Max(u)}]
    BY <2>2, <2>4
  <2>6. g = [u \in S1 |-> IF u = {} THEN base ELSE Loop(how, g[u \ {Max(u)}], seq[Max(u)])]
    BY <2>5
  <2> HIDE DEF g
  <2>7. Folding(g, how, base, seq, n + 1)
    BY <2>6 DEF Folding, S1
  <2> QED
    BY <2>7
<1>3. T \in SUBSET Nat
  OBVIOUS
<1>4. \A n \in Nat : n \notin T => n + 1 \notin T
  BY <1>2
<1> HIDE DEF T
<1>5. T = {}
  BY <1>1, <1>3, <1>4, NothingLeft
<1> QED
  BY <1>5 DEF T

(* What the loop has made of the first k elements.                         *)
Passes(h, how, base, seq, n) ==
  h[0] = base /\ \A k \in 1 .. n : h[k] = Loop(how, h[k - 1], seq[k])

LEMMA FoldingPasses ==
  ASSUME NEW how, NEW base, NEW seq, NEW n \in Nat, NEW f, Folding(f, how, base, seq, n)
  PROVE  Passes([k \in 0 .. n |-> f[1 .. k]], how, base, seq, n)
<1> DEFINE h == [k \in 0 .. n |-> f[1 .. k]]
<1>1. h[0] = base
  <2>1. 1 .. 0 = {} /\ {} \in SUBSET (1 .. n) /\ 0 \in 0 .. n
    OBVIOUS
  <2> QED
    BY <2>1 DEF Folding
<1>2. ASSUME NEW k \in 1 .. n PROVE h[k] = Loop(how, h[k - 1], seq[k])
  <2> DEFINE u == 1 .. k
  <2>1. u \in SUBSET (1 .. n) /\ k \in u /\ k \in Nat /\ u \in SUBSET (1 .. k)
    OBVIOUS
  <2>2. Max(u) = k
    <3>1. Max(u) \in u /\ k <= Max(u)
      BY <2>1, MaxIs
    <3> QED
      BY <3>1
  <2>3. u \ {k} = 1 .. k - 1
    OBVIOUS
  <2>4. f[u] = Loop(how, f[u \ {k}], seq[k])
    <3> HIDE DEF u
    <3> QED
      BY <2>1, <2>2 DEF Folding
  <2>5. h[k] = f[1 .. k] /\ h[k - 1] = f[1 .. k - 1]
    OBVIOUS
  <2> QED
    BY <2>3, <2>4, <2>5
<1> HIDE DEF h
<1>3. Passes(h, how, base, seq, n)
  BY <1>1, <1>2 DEF Passes
<1> QED
  BY <1>3 DEF h

-----------------------------------------------------------------------------
(* The loop that keeps elements.                                           *)

Kept(kept, e, P) == IF e \in P THEN Append(kept, e) ELSE kept

KeepsAll(h, es, P, n) ==
  h[0] = << >> /\ \A k \in 1 .. n : h[k] = Kept(h[k - 1], es[k], P)

LEMMA KeepIs ==
  ASSUME NEW S, NEW es \in Seq(S), NEW P
  PROVE  \E h : KeepsAll(h, es, P, Len(es)) /\ Keep(es, P) = h[Len(es)]
<1> DEFINE n == Len(es)
           how == [add |-> FALSE, set |-> P]
           Is(f) == f = [u \in SUBSET (1 .. n) |->
                           IF u = {} THEN << >>
                           ELSE IF es[Max(u)] \in P
                                  THEN Append(f[u \ {Max(u)}], es[Max(u)])
                                  ELSE f[u \ {Max(u)}]]
           f == CHOOSE x : Is(x)
           h == [k \in 0 .. n |-> f[1 .. k]]
<1>1. n \in Nat /\ DOMAIN es = 1 .. n
  BY LenProperties
<1>2. Keep(es, P) = (CHOOSE x : x = [u \in SUBSET (DOMAIN es) |->
                           IF u = {} THEN << >>
                           ELSE IF es[Max(u)] \in P
                                  THEN Append(x[u \ {Max(u)}], es[Max(u)])
                                  ELSE x[u \ {Max(u)}]])[DOMAIN es]
  BY Zenon DEF Keep, FoldLeft, MapThenFoldSet
<1>3. Keep(es, P) = f[1 .. n]
  BY <1>1, <1>2, Zenon
<1>4. \A acc, e : Loop(how, acc, e) = IF e \in P THEN Append(acc, e) ELSE acc
  BY DEF Loop
<1> HIDE DEF n, how
<1>5. PICK x : Folding(x, how, << >>, es, n)
  BY <1>1, FoldingExists
<1>6. Is(x)
  BY <1>4, <1>5 DEF Folding
<1>7. Is(f)
  BY <1>6, Zenon
<1> HIDE DEF f
<1>8. Folding(f, how, << >>, es, n)
  BY <1>4, <1>7 DEF Folding
<1>9. Passes(h, how, << >>, es, n)
  BY <1>1, <1>8, FoldingPasses
<1>10. h[n] = f[1 .. n]
  BY <1>1
<1> HIDE DEF h
<1>11. KeepsAll(h, es, P, n)
  BY <1>4, <1>9 DEF Passes, KeepsAll, Kept
<1> QED
  BY <1>3, <1>10, <1>11 DEF n

LEMMA AppendSet ==
  ASSUME NEW Q, NEW s \in Seq(Q), NEW e \in Q
  PROVE  ToSet(Append(s, e)) = ToSet(s) \cup {e}
<1> DEFINE t == Append(s, e)
           m == Len(s)
<1>1. /\ t \in Seq(Q) /\ Len(t) = m + 1
      /\ \A i \in 1 .. m : t[i] = s[i]
      /\ t[m + 1] = e
  BY AppendProperties
<1> HIDE DEF t
<1>2. m \in Nat /\ DOMAIN s = 1 .. m /\ DOMAIN t = 1 .. m + 1
  BY <1>1, LenProperties
<1> HIDE DEF m
<1>3. 1 .. m + 1 = (1 .. m) \cup {m + 1}
  BY <1>2
<1>4. ASSUME NEW x \in ToSet(t) PROVE x \in ToSet(s) \cup {e}
  <2>1. PICK i \in 1 .. m + 1 : x = t[i]
    BY <1>2 DEF ToSet
  <2> QED
    BY <1>1, <1>2, <1>3, <2>1 DEF ToSet
<1>5. ASSUME NEW x \in ToSet(s) \cup {e} PROVE x \in ToSet(t)
  <2>1. CASE x = e
    BY <1>1, <1>2, <1>3, <2>1 DEF ToSet
  <2>2. CASE x \in ToSet(s)
    <3>1. PICK i \in 1 .. m : x = s[i]
      BY <1>2, <2>2 DEF ToSet
    <3> QED
      BY <1>1, <1>2, <1>3, <3>1 DEF ToSet
  <2> QED
    BY <2>1, <2>2
<1> QED
  BY <1>4, <1>5 DEF t

(* Keep returns a sequence of exactly the elements that are in the set.    *)
LEMMA KeepKeeps ==
  ASSUME NEW S, NEW es \in Seq(S), NEW P
  PROVE  /\ Keep(es, P) \in Seq(ToSet(es) \cap P)
         /\ ToSet(Keep(es, P)) = ToSet(es) \cap P
<1> DEFINE n == Len(es)
           Q == ToSet(es) \cap P
           First(k) == {es[i] : i \in 1 .. k}
<1>1. n \in Nat /\ DOMAIN es = 1 .. n /\ ToSet(es) = First(n)
  BY LenProperties DEF ToSet
<1>2. PICK h : KeepsAll(h, es, P, n) /\ Keep(es, P) = h[n]
  BY KeepIs
<1> HIDE DEF n
<1> DEFINE Good(k) == h[k] \in Seq(Q) /\ ToSet(h[k]) = First(k) \cap P
           T == {k \in Nat : k <= n /\ ~ Good(k)}
<1>3. 0 \notin T
  <2>1. h[0] = << >>
    BY <1>2 DEF KeepsAll
  <2>2. << >> \in Seq(Q)
    BY EmptySeq
  <2>3. ToSet(<< >>) = {}
    BY DEF ToSet
  <2>4. First(0) = {}
    OBVIOUS
  <2> HIDE DEF Q, First
  <2> QED
    BY <2>1, <2>2, <2>3, <2>4
<1>4. ASSUME NEW k \in Nat, k \notin T PROVE k + 1 \notin T
  <2> SUFFICES ASSUME k + 1 <= n PROVE Good(k + 1)
    OBVIOUS
  <2>1. Good(k) /\ k + 1 \in 1 .. n /\ (k + 1) - 1 = k
    BY <1>1, <1>4
  <2> DEFINE e == es[k + 1]
  <2>2. h[k + 1] = Kept(h[k], e, P)
    BY <1>2, <2>1 DEF KeepsAll
  <2>3. First(k + 1) = First(k) \cup {e} /\ e \in ToSet(es)
    <3>1. 1 .. k + 1 = (1 .. k) \cup {k + 1}
      OBVIOUS
    <3> QED
      BY <1>1, <2>1, <3>1
  <2> HIDE DEF First, e
  <2>4. CASE e \in P
    <3>1. e \in Q /\ h[k] \in Seq(Q) /\ h[k + 1] = Append(h[k], e)
      BY <2>1, <2>2, <2>3, <2>4 DEF Kept
    <3> HIDE DEF Q
    <3>2. h[k + 1] \in Seq(Q)
      BY <3>1, AppendProperties
    <3>4. ToSet(h[k + 1]) = ToSet(h[k]) \cup {e}
      BY <3>1, AppendSet
    <3> QED
      BY <2>1, <2>3, <2>4, <3>2, <3>4
  <2>5. CASE e \notin P
    <3>1. h[k + 1] = h[k]
      BY <2>2, <2>5 DEF Kept
    <3> QED
      BY <2>1, <2>3, <2>5, <3>1
  <2> QED
    BY <2>4, <2>5
<1>5. T \in SUBSET Nat
  OBVIOUS
<1>6. \A k \in Nat : k \notin T => k + 1 \notin T
  BY <1>4
<1> HIDE DEF T
<1>7. T = {}
  BY <1>3, <1>5, <1>6, NothingLeft
<1> HIDE DEF Good
<1>8. Good(n)
  BY <1>1, <1>7 DEF T
<1> QED
  BY <1>1, <1>2, <1>8 DEF Good

-----------------------------------------------------------------------------
(* Sorting.  Distinct values can be put in order: the indices of the m least
   ones, then the next one.                                                *)

Increasing(g, v, m) == \A i, j \in 1 .. m : i < j => v[g[i]] < v[g[j]]

Least(g, v, m, n) ==
  /\ g \in [1 .. m -> 1 .. n] /\ Increasing(g, v, m)
  /\ \A x \in 1 .. n : (\A j \in 1 .. m : g[j] # x) => \A j \in 1 .. m : v[g[j]] < v[x]

LEMMA OneMore ==
  ASSUME NEW n \in Nat, NEW v \in [1 .. n -> Nat],
         \A i, j \in 1 .. n : i # j => v[i] # v[j],
         NEW m \in Nat, m < n, NEW g, Least(g, v, m, n)
  PROVE  \E q : Least(q, v, m + 1, n)
<1> DEFINE left == {x \in 1 .. n : \A j \in 1 .. m : g[j] # x}
           T == {v[x] : x \in left}
<1>1. left # {}
  <2> SUFFICES ASSUME left = {} PROVE FALSE
    OBVIOUS
  <2>1. g \in Surjection(1 .. m, 1 .. n)
    BY DEF Surjection, Least
  <2>2. IsFiniteSet(1 .. m) /\ Cardinality(1 .. m) = m /\ Cardinality(1 .. n) = n
    <3>1. 1 \in Int /\ m \in Int /\ n \in Int
      OBVIOUS
    <3>2. IsFiniteSet(1 .. m) /\ Cardinality(1 .. m) = IF 1 > m THEN 0 ELSE m - 1 + 1
      BY <3>1, FS_Interval
    <3>3. Cardinality(1 .. n) = IF 1 > n THEN 0 ELSE n - 1 + 1
      BY <3>1, FS_Interval
    <3> QED
      BY <3>2, <3>3
  <2>3. n <= m
    BY <2>1, <2>2, FS_Surjection
  <2> QED
    BY <2>3
<1>2. T \in SUBSET Nat /\ T # {}
  BY <1>1
<1>3. PICK z \in T : \A y \in T : z <= y
  BY <1>2, LeastExists
<1>4. PICK x \in left : z = v[x]
  BY <1>3
<1>5. \A y \in left : v[x] <= v[y]
  BY <1>3, <1>4
<1> DEFINE q == [i \in 1 .. m + 1 |-> IF i = m + 1 THEN x ELSE g[i]]
<1>6. /\ g \in [1 .. m -> 1 .. n] /\ Increasing(g, v, m)
      /\ \A y \in left : \A j \in 1 .. m : v[g[j]] < v[y]
  BY DEF Least
<1>7. q \in [1 .. m + 1 -> 1 .. n] /\ q[m + 1] = x /\ \A i \in 1 .. m : q[i] = g[i]
  BY <1>6
<1>8. \A i \in 1 .. m + 1 : i \in 1 .. m \/ i = m + 1
  OBVIOUS
<1> HIDE DEF q, T
<1>9. Increasing(q, v, m + 1)
  <2> SUFFICES ASSUME NEW i \in 1 .. m + 1, NEW j \in 1 .. m + 1, i < j PROVE v[q[i]] < v[q[j]]
    BY DEF Increasing
  <2>1. i \in 1 .. m
    OBVIOUS
  <2>2. CASE j = m + 1
    BY <1>4, <1>6, <1>7, <2>1, <2>2
  <2>3. CASE j \in 1 .. m
    BY <1>6, <1>7, <2>1, <2>3 DEF Increasing
  <2> QED
    BY <1>8, <2>2, <2>3
<1>10. ASSUME NEW y \in 1 .. n, \A j \in 1 .. m + 1 : q[j] # y, NEW j \in 1 .. m + 1
       PROVE  v[q[j]] < v[y]
  <2>1. y \in left /\ y # x
    <3>1. \A i \in 1 .. m : i \in 1 .. m + 1 /\ q[i] # y
      BY <1>10
    <3>2. m + 1 \in 1 .. m + 1
      OBVIOUS
    <3> QED
      BY <1>7, <1>10, <3>1, <3>2
  <2>2. CASE j = m + 1
    <3>1. v[x] <= v[y] /\ v[x] # v[y] /\ v[x] \in Nat /\ v[y] \in Nat
      BY <1>5, <2>1
    <3> QED
      BY <1>7, <2>2, <3>1
  <2>3. CASE j \in 1 .. m
    BY <1>6, <1>7, <2>1, <2>3
  <2> QED
    BY <1>8, <2>2, <2>3
<1>11. Least(q, v, m + 1, n)
  BY <1>7, <1>9, <1>10 DEF Least
<1> QED
  BY <1>11

LEMMA SortExists ==
  ASSUME NEW n \in Nat, NEW v \in [1 .. n -> Nat],
         \A i, j \in 1 .. n : i # j => v[i] # v[j]
  PROVE  \E g \in [1 .. n -> 1 .. n] : Increasing(g, v, n)
<1> DEFINE T == {m \in Nat : m <= n /\ ~ \E g : Least(g, v, m, n)}
<1>1. 0 \notin T
  <2> DEFINE g == [i \in 1 .. 0 |-> 0]
  <2>1. \A i \in 1 .. 0 : FALSE
    OBVIOUS
  <2>2. g \in [1 .. 0 -> 1 .. n]
    BY <2>1
  <2>3. Least(g, v, 0, n)
    BY <2>1, <2>2 DEF Least, Increasing
  <2> QED
    BY <2>3
<1>2. ASSUME NEW m \in Nat, m \notin T PROVE m + 1 \notin T
  <2> SUFFICES ASSUME m + 1 <= n PROVE \E q : Least(q, v, m + 1, n)
    OBVIOUS
  <2>1. m < n /\ m <= n
    OBVIOUS
  <2>2. PICK g : Least(g, v, m, n)
    BY <1>2, <2>1
  <2> QED
    BY <2>1, <2>2, OneMore
<1>3. T \in SUBSET Nat
  OBVIOUS
<1>4. \A m \in Nat : m \notin T => m + 1 \notin T
  BY <1>2
<1> HIDE DEF T
<1>5. T = {}
  BY <1>1, <1>3, <1>4, NothingLeft
<1>6. PICK g : Least(g, v, n, n)
  <2>1. n <= n /\ n \notin T
    BY <1>5
  <2> QED
    BY <2>1 DEF T
<1> QED
  BY <1>6 DEF Least

(* The int of an unsigned below its sign bit, and of a small difference.   *)
LEMMA ToIntIs ==
  ASSUME NEW x \in Int, 0 - SignBit <= x, x < SignBit
  PROVE  ToInt(x) = x
<1> DEFINE M == 2 * SignBit
<1>1. SignBit \in Nat \ {0} /\ M \in Nat \ {0} /\ SignBit < M /\ M - SignBit = SignBit
  BY DmiAssumption
<1>2. CASE x >= 0
  <2>1. x < M /\ x \in Nat
    BY <1>1, <1>2
  <2> HIDE DEF M
  <2>2. x % M = x
    BY <1>1, <2>1
  <2> QED
    BY <1>1, <2>2 DEF ToInt, M
<1>3. CASE x < 0
  <2>1. 0 - M <= x /\ x + M >= SignBit /\ x + M < M
    BY <1>1, <1>3
  <2> HIDE DEF M
  <2>2. x % M = x + M
    <3> DEFINE r == x % M
               d == x \div M
    <3>1. r \in 0 .. M - 1 /\ d \in Int /\ x = M * d + r
      BY <1>1
    <3> HIDE DEF r, d
    <3>2. d < 0
      <4> SUFFICES ASSUME d >= 0 PROVE FALSE
        BY <3>1
      <4>1. M * d >= 0
        BY <1>1, <3>1
      <4> QED
        BY <1>1, <1>3, <3>1, <4>1
    <3>3. d > 0 - 2
      <4> SUFFICES ASSUME d <= 0 - 2 PROVE FALSE
        BY <3>1
      <4>1. M * d <= M * (0 - 2)
        BY <1>1, <3>1
      <4> QED
        BY <1>1, <2>1, <3>1, <4>1
    <3>4. d = 0 - 1
      BY <3>1, <3>2, <3>3
    <3>5. M * d = 0 - M
      BY <1>1, <3>4
    <3> QED
      BY <1>1, <3>1, <3>5 DEF r
  <2>3. ToInt(x) = IF x + M >= SignBit THEN (x + M) - M ELSE x + M
    BY <2>2 DEF ToInt, M
  <2> QED
    BY <1>1, <2>1, <2>3
<1> QED
  BY <1>2, <1>3

-----------------------------------------------------------------------------
(* dmi_sanity_check *)

RangeTypes(R) == \A r \in R : {r.start, r.end} \subseteq 0 .. 2 * SignBit - 1

LEMMA ElementsOf ==
  ASSUME NEW S, NEW s \in Seq(S)
  PROVE  /\ Len(s) \in Nat /\ DOMAIN s = 1 .. Len(s)
         /\ \A i \in 1 .. Len(s) : s[i] \in ToSet(s) /\ s[i] \in S
         /\ \A x \in ToSet(s) : \E i \in 1 .. Len(s) : x = s[i]
         /\ ToSet(s) \subseteq S
<1>1. Len(s) \in Nat /\ DOMAIN s = 1 .. Len(s)
  BY LenProperties
<1>2. \A i \in 1 .. Len(s) : s[i] \in S
  BY ElementOfSeq
<1> QED
  BY <1>1, <1>2 DEF ToSet

LEMMA RangeNumbers ==
  ASSUME NEW R, RangeTypes(R), NEW r \in R
  PROVE  /\ r.start \in Nat /\ r.end \in Nat /\ r.start < 2 * SignBit /\ r.end < 2 * SignBit
<1>1. r.start \in 0 .. 2 * SignBit - 1 /\ r.end \in 0 .. 2 * SignBit - 1
  BY DEF RangeTypes
<1>2. SignBit \in Nat
  BY DmiAssumption
<1> QED
  BY <1>1, <1>2

(* Neighbours that are apart are enough: then any two are.                 *)
LEMMA ApartMeansDisjoint ==
  ASSUME NEW S, NEW rs \in Seq(S), RangeTypes(ToSet(rs)), WellFormed(rs), RangesApart(rs)
  PROVE  Disjoint(rs)
<1> DEFINE n == Len(rs)
           T == {d \in Nat : \E i \in 1 .. n : i + d + 1 <= n /\ ~ (rs[i].end < rs[i + d + 1].start)}
<1>1. /\ n \in Nat
      /\ \A i \in 1 .. n : rs[i].start \in Nat /\ rs[i].end \in Nat /\ rs[i].start <= rs[i].end
  BY ElementsOf, RangeNumbers DEF WellFormed
<1>2. \A k \in 2 .. n : rs[k].start > rs[k - 1].end
  BY DEF RangesApart
<1> HIDE DEF n
<1>3. 0 \notin T
  <2> SUFFICES ASSUME NEW i \in 1 .. n, i + 0 + 1 <= n PROVE rs[i].end < rs[i + 0 + 1].start
    OBVIOUS
  <2>1. i + 1 \in 2 .. n /\ (i + 1) - 1 = i /\ i + 0 + 1 = i + 1 /\ i + 1 \in 1 .. n
    BY <1>1
  <2>2. rs[i + 1].start > rs[i].end
    BY <1>2, <2>1
  <2> QED
    BY <1>1, <2>1, <2>2
<1>4. ASSUME NEW d \in Nat, d \notin T PROVE d + 1 \notin T
  <2> SUFFICES ASSUME NEW i \in 1 .. n, i + (d + 1) + 1 <= n
               PROVE  rs[i].end < rs[i + (d + 1) + 1].start
    OBVIOUS
  <2> DEFINE j == i + d + 1
  <2>1. /\ j \in 1 .. n /\ j + 1 \in 2 .. n /\ j + 1 \in 1 .. n /\ (j + 1) - 1 = j
        /\ i + (d + 1) + 1 = j + 1 /\ i + d + 1 <= n
    BY <1>1
  <2>2. rs[i].end < rs[j].start
    BY <1>4, <2>1
  <2> HIDE DEF j
  <2>3. rs[j + 1].start > rs[j].end
    BY <1>2, <2>1
  <2>4. rs[i].end < rs[j + 1].start
    <3>1. /\ rs[i].end \in Nat /\ rs[j].start \in Nat /\ rs[j].end \in Nat
          /\ rs[j].start <= rs[j].end /\ rs[j + 1].start \in Nat
      BY <1>1, <2>1
    <3> DEFINE a == rs[i].end
               b == rs[j].start
               c == rs[j].end
               e == rs[j + 1].start
    <3>2. a \in Nat /\ b \in Nat /\ c \in Nat /\ e \in Nat /\ a < b /\ b <= c /\ e > c
      BY <2>2, <2>3, <3>1
    <3> HIDE DEF a, b, c, e
    <3>3. a < e
      BY <3>2
    <3> QED
      BY <3>3 DEF a, e
  <2> QED
    BY <2>1, <2>4
<1>5. T \in SUBSET Nat
  OBVIOUS
<1>6. \A d \in Nat : d \notin T => d + 1 \notin T
  BY <1>4
<1> HIDE DEF T
<1>7. T = {}
  BY <1>3, <1>5, <1>6, NothingLeft
<1>8. ASSUME NEW i \in 1 .. n, NEW j \in 1 .. n, i < j PROVE rs[i].end < rs[j].start
  <2>1. j - i - 1 \in Nat /\ i + (j - i - 1) + 1 = j
    BY <1>1, <1>8
  <2> DEFINE d == j - i - 1
  <2>2. d \in Nat /\ i + d + 1 = j /\ d \notin T /\ i + d + 1 <= n
    BY <1>1, <1>7, <2>1
  <2> HIDE DEF d
  <2> QED
    BY <2>2 DEF T
<1>9. ASSUME NEW i \in 1 .. n, NEW j \in 1 .. n, i # j
      PROVE  rs[i].end < rs[j].start \/ rs[j].end < rs[i].start
  <2>1. i < j \/ j < i
    BY <1>1, <1>9
  <2> QED
    BY <1>8, <2>1
<1> QED
  BY <1>9 DEF Disjoint, n

-----------------------------------------------------------------------------
(* qsort *)

Orders(rs) == {[i \in 1 .. Len(rs) |-> rs[f[i]]] : f \in SetToSeqs(1 .. Len(rs))}

Ordered(s) == \A i, j \in 1 .. Len(s) :
                i < j => cmp_range(s[i], s[j]) < 0 /\ cmp_range(s[j], s[i]) > 0

LEMMA SortedAre ==
  ASSUME NEW rs
  PROVE  Sorted(rs) = IF {s \in Orders(rs) : Ordered(s)} # {} THEN {s \in Orders(rs) : Ordered(s)}
                                                           ELSE Orders(rs)
BY Zenon DEF Sorted, Orders, Ordered

Injective(f, n) == \A i, j \in 1 .. n : i # j => f[i] # f[j]

LEMMA PermutationsAre ==
  ASSUME NEW n \in Nat
  PROVE  SetToSeqs(1 .. n) = {f \in [1 .. n -> 1 .. n] : Injective(f, n)}
<1>1. Cardinality(1 .. n) = n
  <2>1. 1 \in Int /\ n \in Int
    OBVIOUS
  <2>2. Cardinality(1 .. n) = IF 1 > n THEN 0 ELSE n - 1 + 1
    BY <2>1, FS_Interval
  <2> QED
    BY <2>2
<1>2. SetToSeqs(1 .. n) =
        {f \in [1 .. Cardinality(1 .. n) -> 1 .. n] :
           \A i, j \in 1 .. Cardinality(1 .. n) : i # j => f[i] # f[j]}
  BY DEF SetToSeqs
<1> QED
  BY <1>1, <1>2 DEF Injective

(* A permutation of a sequence has its elements.                           *)
LEMMA OrdersAre ==
  ASSUME NEW S, NEW rs \in Seq(S), NEW s \in Orders(rs)
  PROVE  /\ s \in Seq(S) /\ Len(s) = Len(rs) /\ ToSet(s) \subseteq ToSet(rs)
         /\ \E f \in [1 .. Len(rs) -> 1 .. Len(rs)] :
              /\ Injective(f, Len(rs))
              /\ s = [i \in 1 .. Len(rs) |-> rs[f[i]]]
<1> DEFINE n == Len(rs)
<1>1. n \in Nat /\ \A i \in 1 .. n : rs[i] \in ToSet(rs) /\ rs[i] \in S
  BY ElementsOf
<1>2. PICK f \in SetToSeqs(1 .. n) : s = [i \in 1 .. n |-> rs[f[i]]]
  BY DEF Orders
<1> HIDE DEF n
<1>3. f \in [1 .. n -> 1 .. n] /\ Injective(f, n)
  BY <1>1, PermutationsAre
<1>4. s \in [1 .. n -> S] /\ s \in [1 .. n -> ToSet(rs)]
  BY <1>1, <1>2, <1>3
<1>5. s \in Seq(S) /\ s \in Seq(ToSet(rs))
  BY <1>1, <1>4, SeqDef
<1>6. Len(s) = n
  BY <1>1, <1>4, <1>5, LenProperties
<1>7. ToSet(s) \subseteq ToSet(rs)
  BY <1>5, ElementsOf
<1> QED
  BY <1>2, <1>3, <1>5, <1>6, <1>7 DEF n

(* Below the sign bit cmp_range compares as it is meant to.                *)
LEMMA CompareIs ==
  ASSUME NEW a, NEW b, a.start \in Nat, b.end \in Nat, a.start < SignBit, b.end < SignBit
  PROVE  cmp_range(a, b) = a.start - b.end
<1>1. SignBit \in Nat \ {0}
  BY DmiAssumption
<1>2. ToInt(a.start) = a.start /\ ToInt(b.end) = b.end
  BY <1>1, ToIntIs
<1> DEFINE x == a.start - b.end
<1>3. x \in Int /\ 0 - SignBit <= x /\ x < SignBit
  BY <1>1
<1> HIDE DEF x
<1>4. ToInt(x) = x
  BY <1>3, ToIntIs
<1> QED
  BY <1>2, <1>4 DEF cmp_range, x

(* Good ranges can be sorted, so qsort sorts them, and the check finds them
   apart.                                                                  *)
LEMMA GoodIsApart ==
  ASSUME NEW S, NEW rs \in Seq(S), NEW s \in Sorted(rs), RangeTypes(ToSet(rs)),
         WellFormed(s), Disjoint(s), \A r \in ToSet(s) : r.end < SignBit
  PROVE  RangesApart(s)
<1> DEFINE n == Len(rs)
<1>1. s \in Orders(rs)
  BY SortedAre
<1>2. /\ s \in Seq(S) /\ Len(s) = n /\ ToSet(s) \subseteq ToSet(rs)
  BY <1>1, OrdersAre
<1>3. PICK f \in [1 .. n -> 1 .. n] : Injective(f, n) /\ s = [i \in 1 .. n |-> rs[f[i]]]
  BY <1>1, OrdersAre
<1>4. n \in Nat
  BY ElementsOf
<1>5. /\ SignBit \in Nat
      /\ \A i \in 1 .. n : /\ s[i].start \in Nat /\ s[i].end \in Nat
                          /\ s[i].start <= s[i].end /\ s[i].end < SignBit /\ s[i].start < SignBit
  <2>1. SignBit \in Nat
    BY DmiAssumption
  <2>2. ASSUME NEW i \in 1 .. n
        PROVE  /\ s[i].start \in Nat /\ s[i].end \in Nat
               /\ s[i].start <= s[i].end /\ s[i].end < SignBit
    <3>1. s[i] \in ToSet(s) /\ s[i] \in ToSet(rs)
      BY <1>2, ElementsOf
    <3>2. s[i].start \in Nat /\ s[i].end \in Nat
      BY <3>1, RangeNumbers
    <3> QED
      BY <3>1, <3>2 DEF WellFormed
  <2>3. ASSUME NEW i \in 1 .. n PROVE s[i].start < SignBit
    BY <2>1, <2>2
  <2> QED
    BY <2>1, <2>2, <2>3
<1>6. \A i, j \in 1 .. n : i # j => s[i].end < s[j].start \/ s[j].end < s[i].start
  BY <1>2 DEF Disjoint
<1> HIDE DEF n
<1>7. \A i, j \in 1 .. n : cmp_range(s[i], s[j]) = s[i].start - s[j].end
  BY <1>5, CompareIs
<1>8. {t \in Orders(rs) : Ordered(t)} # {}
  <2> DEFINE v == [i \in 1 .. n |-> s[i].start]
  <2>1. v \in [1 .. n -> Nat]
    BY <1>5
  <2>2. \A i, j \in 1 .. n : i # j => v[i] # v[j]
    <3> SUFFICES ASSUME NEW i \in 1 .. n, NEW j \in 1 .. n, i # j PROVE s[i].start # s[j].start
      OBVIOUS
    <3>1. s[i].end < s[j].start \/ s[j].end < s[i].start
      BY <1>6
    <3> QED
      BY <1>5, <3>1
  <2>3. PICK g \in [1 .. n -> 1 .. n] : Increasing(g, v, n)
    BY <1>4, <2>1, <2>2, SortExists
  <2>4. ASSUME NEW i \in 1 .. n, NEW j \in 1 .. n, i < j PROVE s[g[i]].start < s[g[j]].start
    BY <2>3, <2>4 DEF Increasing
  <2> HIDE DEF v
  <2> DEFINE c == [i \in 1 .. n |-> f[g[i]]]
             t == [i \in 1 .. n |-> rs[c[i]]]
  <2>5. c \in [1 .. n -> 1 .. n]
    OBVIOUS
  <2>6. Injective(c, n)
    <3> SUFFICES ASSUME NEW i \in 1 .. n, NEW j \in 1 .. n, i # j PROVE f[g[i]] # f[g[j]]
      BY DEF Injective
    <3>1. g[i] # g[j]
      <4>1. i < j \/ j < i
        BY <1>4
      <4>2. s[g[i]].start \in Nat /\ s[g[j]].start \in Nat
        BY <1>5
      <4> QED
        BY <2>4, <4>1, <4>2
    <3> QED
      BY <1>3, <3>1 DEF Injective
  <2>7. t \in Orders(rs)
    <3>1. c \in SetToSeqs(1 .. n)
      <4> HIDE DEF c
      <4> QED
        BY <1>4, <2>5, <2>6, PermutationsAre
    <3> HIDE DEF c
    <3> QED
      BY <3>1 DEF Orders, n
  <2>8. \A i \in 1 .. n : t[i] = s[g[i]]
    BY <1>3
  <2>9. Len(t) = n
    BY <2>7, OrdersAre DEF n
  <2> HIDE DEF c, t
  <2>10. Ordered(t)
    <3> SUFFICES ASSUME NEW i \in 1 .. n, NEW j \in 1 .. n, i < j
                 PROVE  cmp_range(t[i], t[j]) < 0 /\ cmp_range(t[j], t[i]) > 0
      BY <2>9 DEF Ordered
    <3> DEFINE x == g[i]
               y == g[j]
    <3>1. x \in 1 .. n /\ y \in 1 .. n /\ t[i] = s[x] /\ t[j] = s[y] /\ s[x].start < s[y].start
      BY <2>4, <2>8
    <3> HIDE DEF x, y
    <3>2. /\ s[x].start \in Nat /\ s[x].end \in Nat /\ s[y].start \in Nat /\ s[y].end \in Nat
          /\ s[x].start <= s[x].end /\ s[y].start <= s[y].end
      BY <1>5, <3>1
    <3>3. x # y
      BY <3>1, <3>2
    <3>4. s[x].end < s[y].start
      BY <1>6, <3>1, <3>2, <3>3
    <3>5. cmp_range(s[x], s[y]) = s[x].start - s[y].end /\ cmp_range(s[y], s[x]) = s[y].start - s[x].end
      BY <1>7, <3>1
    <3>6. s[x].start - s[y].end < 0 /\ s[y].start - s[x].end > 0
      BY <3>2, <3>4
    <3> QED
      BY <3>1, <3>5, <3>6
  <2> QED
    BY <2>7, <2>10
<1>9. Ordered(s)
  BY <1>8, SortedAre
<1>10. ASSUME NEW k \in 2 .. n PROVE s[k].start > s[k - 1].end
  <2>1. k \in 1 .. n /\ k - 1 \in 1 .. n /\ k - 1 < k
    BY <1>4
  <2>2. cmp_range(s[k], s[k - 1]) > 0
    BY <1>2, <1>9, <2>1 DEF Ordered
  <2>3. s[k].start - s[k - 1].end > 0
    BY <1>7, <2>1, <2>2
  <2> QED
    BY <1>5, <2>1, <2>3
<1> QED
  BY <1>2, <1>10 DEF RangesApart

-----------------------------------------------------------------------------
(* The loop of prefill_memdb.                                              *)

AddsAll(h, ds, base, n) == h[0] = base /\ \A k \in 1 .. n : h[k] = AddDimm(h[k - 1], ds[k])

LEMMA AddIs ==
  ASSUME NEW S, NEW ds \in Seq(S), NEW base
  PROVE  \E h : AddsAll(h, ds, base, Len(ds)) /\ FoldLeft(AddDimm, base, ds) = h[Len(ds)]
<1> DEFINE n == Len(ds)
           how == [add |-> TRUE]
           Is(f) == f = [u \in SUBSET (1 .. n) |->
                           IF u = {} THEN base ELSE AddDimm(f[u \ {Max(u)}], ds[Max(u)])]
           f == CHOOSE x : Is(x)
           h == [k \in 0 .. n |-> f[1 .. k]]
<1>1. n \in Nat /\ DOMAIN ds = 1 .. n
  BY LenProperties
<1>2. FoldLeft(AddDimm, base, ds) =
        (CHOOSE x : x = [u \in SUBSET (DOMAIN ds) |->
           IF u = {} THEN base ELSE AddDimm(x[u \ {Max(u)}], ds[Max(u)])])[DOMAIN ds]
  BY Zenon DEF FoldLeft, MapThenFoldSet
<1>3. FoldLeft(AddDimm, base, ds) = f[1 .. n]
  BY <1>1, <1>2, Zenon
<1>4. \A acc, e : Loop(how, acc, e) = AddDimm(acc, e)
  BY DEF Loop
<1> HIDE DEF n, how
<1>5. PICK x : Folding(x, how, base, ds, n)
  BY <1>1, FoldingExists
<1>6. Is(x)
  BY <1>4, <1>5 DEF Folding
<1>7. Is(f)
  BY <1>6, Zenon
<1> HIDE DEF f
<1>8. Folding(f, how, base, ds, n)
  BY <1>4, <1>7 DEF Folding
<1>9. Passes(h, how, base, ds, n)
  BY <1>1, <1>8, FoldingPasses
<1>10. h[n] = f[1 .. n]
  BY <1>1
<1> HIDE DEF h
<1>11. AddsAll(h, ds, base, n)
  BY <1>4, <1>9 DEF Passes, AddsAll
<1> QED
  BY <1>3, <1>10, <1>11 DEF n

FirstOfPlace(ds, i) ==
  /\ ds[i].place # NONE /\ ds[i].place.channel # NONE
  /\ \A j \in 1 .. i - 1 : ~ FitsPlace(ds[j], ds[i].place)

(* The database after k devices: a place has a device that fits it, a device
   with a locator has a place, and the first device of a place stays.      *)
Entered(db, ds, k) ==
  /\ \A p \in DOMAIN db : \E i \in 1 .. k : db[p] = ds[i] /\ FitsPlace(ds[i], p)
  /\ \A i \in 1 .. k : ds[i].place # NONE => \E p \in DOMAIN db : FitsPlace(ds[i], p)
  /\ \A i \in 1 .. k : FirstOfPlace(ds, i) => ds[i].place \in DOMAIN db /\ db[ds[i].place] = ds[i]

(* The place that parse_dimm_addr gives a device fits it.                  *)
LEMMA ParsedFits ==
  ASSUME NEW d, d.place # NONE, NEW channel
  PROVE  /\ FitsPlace(d, parse_dimm_addr(d, channel))
         /\ d.place.channel # NONE => parse_dimm_addr(d, channel) = d.place
<1> DEFINE p == parse_dimm_addr(d, channel)
<1>1. CASE d.place.channel # NONE
  BY <1>1 DEF parse_dimm_addr, FitsPlace
<1>2. CASE d.place.channel = NONE
  <2> DEFINE f == d.place
  <2>1. p = [f EXCEPT !.channel = channel]
    BY <1>2 DEF parse_dimm_addr
  <2>2. [f EXCEPT !.channel = p.channel] = p
    <3> HIDE DEF f, p
    <3>1. CASE "channel" \in DOMAIN f
      BY <2>1, <3>1
    <3>2. CASE "channel" \notin DOMAIN f
      BY <2>1, <3>2
    <3> QED
      BY <3>1, <3>2
  <2> QED
    BY <1>2, <2>2 DEF FitsPlace
<1> QED
  BY <1>1, <1>2

LEMMA AddKeepsEntered ==
  ASSUME NEW ds, NEW k \in Nat, NEW db, Entered(db.dimms, ds, k),
         "dimms" \in DOMAIN db
  PROVE  /\ Entered(AddDimm(db, ds[k + 1]).dimms, ds, k + 1)
         /\ "dimms" \in DOMAIN AddDimm(db, ds[k + 1])
<1> DEFINE d == ds[k + 1]
           new == AddDimm(db, d).dimms
           D == DOMAIN db.dimms
<1>1. /\ 1 .. k + 1 = (1 .. k) \cup {k + 1} /\ k + 1 \in 1 .. k + 1
      /\ \A i \in 1 .. k : i \in 1 .. k + 1 /\ i # k + 1
      /\ (k + 1) - 1 = k
  OBVIOUS
<1>2. CASE d.place = NONE
  <2>1. AddDimm(db, d) = Missed(db, d)
    BY <1>2 DEF AddDimm
  <2>2. new = db.dimms /\ "dimms" \in DOMAIN AddDimm(db, d)
    BY <2>1 DEF Missed
  <2>3. ~ FirstOfPlace(ds, k + 1)
    BY <1>2 DEF FirstOfPlace
  <2> HIDE DEF new
  <2>4. \A p \in DOMAIN new : \E i \in 1 .. k + 1 : new[p] = ds[i] /\ FitsPlace(ds[i], p)
    BY <1>1, <2>2 DEF Entered
  <2>5. \A i \in 1 .. k + 1 : ds[i].place # NONE => \E p \in DOMAIN new : FitsPlace(ds[i], p)
    BY <1>1, <1>2, <2>2 DEF Entered
  <2>6. \A i \in 1 .. k + 1 : FirstOfPlace(ds, i) =>
          ds[i].place \in DOMAIN new /\ new[ds[i].place] = ds[i]
    BY <1>1, <2>2, <2>3 DEF Entered
  <2>7. Entered(new, ds, k + 1)
    BY <2>4, <2>5, <2>6 DEF Entered
  <2> QED
    BY <2>2, <2>7 DEF new
<1>3. CASE d.place # NONE
  <2> DEFINE p == parse_dimm_addr(d, db.channel)
  <2>1. FitsPlace(d, p) /\ (d.place.channel # NONE => p = d.place)
    BY <1>3, ParsedFits
  <2> DEFINE entered == [x \in D \cup {p} |-> IF x \in D THEN db.dimms[x] ELSE d]
  <2>2. AddDimm(db, d) = [channel |-> p.channel, dimms |-> entered]
    BY <1>3 DEF AddDimm
  <2> HIDE DEF entered, p
  <2>3. new = entered /\ "dimms" \in DOMAIN AddDimm(db, d)
    BY <2>2
  <2> HIDE DEF new, d, D
  <2>4. DOMAIN new = D \cup {p}
    BY <2>3 DEF entered
  <2>5. \A x \in D : new[x] = db.dimms[x]
    BY <2>3 DEF entered
  <2>6. p \notin D => new[p] = d
    BY <2>3 DEF entered
  <2>7. ASSUME NEW x \in DOMAIN new
        PROVE  \E i \in 1 .. k + 1 : new[x] = ds[i] /\ FitsPlace(ds[i], x)
    <3>1. CASE x \in D
      <4>1. PICK i \in 1 .. k : db.dimms[x] = ds[i] /\ FitsPlace(ds[i], x)
        BY <3>1 DEF Entered, D
      <4> QED
        BY <1>1, <2>5, <3>1, <4>1
    <3>2. CASE x \notin D
      <4>1. x = p /\ new[x] = d
        BY <2>4, <2>6, <2>7, <3>2
      <4> QED
        BY <1>1, <2>1, <4>1 DEF d
    <3> QED
      BY <3>1, <3>2
  <2>8. ASSUME NEW i \in 1 .. k + 1, ds[i].place # NONE
        PROVE  \E x \in DOMAIN new : FitsPlace(ds[i], x)
    <3>1. CASE i \in 1 .. k
      BY <2>4, <2>8, <3>1 DEF Entered, D
    <3>2. CASE i = k + 1
      BY <2>1, <2>4, <3>2 DEF d
    <3> QED
      BY <1>1, <3>1, <3>2
  <2>9. ASSUME NEW i \in 1 .. k + 1, FirstOfPlace(ds, i)
        PROVE  ds[i].place \in DOMAIN new /\ new[ds[i].place] = ds[i]
    <3>1. CASE i \in 1 .. k
      <4>1. ds[i].place \in D /\ db.dimms[ds[i].place] = ds[i]
        BY <2>9, <3>1 DEF Entered, D
      <4> QED
        BY <2>4, <2>5, <4>1
    <3>2. CASE i = k + 1
      <4>1. d.place = p /\ \A j \in 1 .. k : ~ FitsPlace(ds[j], p)
        BY <1>1, <2>1, <2>9, <3>2 DEF FirstOfPlace, d
      <4>2. p \notin D
        BY <4>1 DEF Entered, D
      <4> QED
        BY <2>4, <2>6, <3>2, <4>1, <4>2 DEF d
    <3> QED
      BY <1>1, <3>1, <3>2
  <2>10. Entered(new, ds, k + 1)
    BY <2>7, <2>8, <2>9 DEF Entered
  <2> QED
    BY <2>3, <2>10 DEF new, d
<1> QED
  BY <1>2, <1>3

LEMMA DatabaseIs ==
  ASSUME NEW S, NEW ds \in Seq(S), NEW channel
  PROVE  Entered(FoldLeft(AddDimm, [channel |-> channel, dimms |-> << >>], ds).dimms, ds, Len(ds))
<1> DEFINE n == Len(ds)
           base == [channel |-> channel, dimms |-> << >>]
<1>1. n \in Nat /\ \A i \in 1 .. n : ds[i] \in ToSet(ds)
  BY ElementsOf
<1>2. base.dimms = << >> /\ "dimms" \in DOMAIN base
  OBVIOUS
<1> HIDE DEF base
<1>3. PICK h : AddsAll(h, ds, base, n) /\ FoldLeft(AddDimm, base, ds) = h[n]
  BY AddIs
<1> HIDE DEF n
<1> DEFINE T == {k \in Nat : k <= n /\ ~ (Entered(h[k].dimms, ds, k) /\ "dimms" \in DOMAIN h[k])}
<1>4. 0 \notin T
  <2>1. h[0].dimms = << >> /\ "dimms" \in DOMAIN h[0]
    BY <1>2, <1>3 DEF AddsAll
  <2>2. DOMAIN << >> = {} /\ 1 .. 0 = {}
    OBVIOUS
  <2>3. Entered(<< >>, ds, 0)
    BY <2>2 DEF Entered
  <2> QED
    BY <2>1, <2>3
<1>5. ASSUME NEW k \in Nat, k \notin T PROVE k + 1 \notin T
  <2> SUFFICES ASSUME k + 1 <= n 
               PROVE Entered(h[k + 1].dimms, ds, k + 1) /\ "dimms" \in DOMAIN h[k + 1]
    OBVIOUS
  <2>1. k + 1 \in 1 .. n /\ (k + 1) - 1 = k /\ k <= n
    BY <1>1
  <2>2. Entered(h[k].dimms, ds, k) /\ "dimms" \in DOMAIN h[k]
    BY <1>5, <2>1
  <2>3. h[k + 1] = AddDimm(h[k], ds[k + 1])
    BY <1>3, <2>1 DEF AddsAll
  <2>4. /\ Entered(AddDimm(h[k], ds[k + 1]).dimms, ds, k + 1)
        /\ "dimms" \in DOMAIN AddDimm(h[k], ds[k + 1])
    BY <2>2, AddKeepsEntered
  <2> QED
    BY <2>3, <2>4
<1>6. T \in SUBSET Nat
  OBVIOUS
<1>7. \A k \in Nat : k \notin T => k + 1 \notin T
  BY <1>5
<1> HIDE DEF T
<1>8. T = {}
  BY <1>4, <1>6, <1>7, NothingLeft
<1>9. Entered(h[n].dimms, ds, n)
  <2>1. n <= n /\ n \notin T
    BY <1>1, <1>8
  <2> QED
    BY <1>1, <2>1 DEF T
<1> QED
  BY <1>3, <1>9 DEF n, base

(* Without devices nothing is entered.                                     *)
LEMMA NothingEntered ==
  ASSUME NEW channel
  PROVE  FoldLeft(AddDimm, [channel |-> channel, dimms |-> << >>], << >>).dimms = << >>
<1> DEFINE base == [channel |-> channel, dimms |-> << >>]
<1>1. << >> \in Seq({}) /\ Len(<< >>) = 0
  BY EmptySeq
<1>2. base.dimms = << >>
  OBVIOUS
<1> HIDE DEF base
<1>3. PICK h : AddsAll(h, << >>, base, 0) /\ FoldLeft(AddDimm, base, << >>) = h[0]
  BY <1>1, AddIs
<1> QED
  BY <1>2, <1>3 DEF AddsAll, base

-----------------------------------------------------------------------------
(* The inductive invariant.  Until main() closes them or lets them be, the
   tables are open as soon as they hold something; nothing is entered before
   they are trusted, and nothing looked up before they are settled.        *)

TablesInv ==
  /\ entries \in Seq(ToSet(bios))
  /\ dmi_ranges \in Seq(ToSet(bios)) /\ ToSet(dmi_ranges) \subseteq ToSet(entries)
  /\ dmi_dimms \in Seq(ToSet(bios)) /\ ToSet(dmi_dimms) \subseteq ToSet(entries)
  /\ RangeTypes(ToSet(dmi_ranges))
  /\ opened \in BOOLEAN /\ collected \in BOOLEAN /\ (entries # << >> => opened)

ChecksInv ==
  /\ pc = "check" => ~ opened
  /\ pc \in {"check", "prefill"} => memdb = << >>
  /\ memdb # << >> => do_dmi /\ opened
  /\ pc \in {"prefill", "close", "running"} /\ do_dmi /\ option = "dmi" => collected
  /\ pc # "running" => looked = NONE
  /\ (pc = "prefill" /\ option = "default" /\ do_dmi) => dmi_sanity_check(dmi_ranges, dmi_dimms)
  /\ GoodTablesTrusted

IInv ==
  /\ bios \in Tables
  /\ TypeOK
  /\ TablesInv
  /\ ChecksInv
  /\ DimmsFound

(* The entries opendmi can read are entries of the BIOS.                   *)
LEMMA ReadIs ==
  ASSUME bios \in Tables, NEW es \in SysfsEntries \cup MemEntries
  PROVE  es \in Seq(ToSet(bios))
<1> DEFINE B == ToSet(bios)
<1> SUFFICES es \in Seq(B)
  OBVIOUS
<1>1. bios \in Seq(B)
  BY DmiAssumption
<1>2. ASSUME NEW s \in Seq(B), NEW n \in 0 .. Len(s) PROVE SubSeq(s, 1, n) \in Seq(B)
  <2>1. 1 \in Int /\ n \in Int /\ \A i \in 1 .. n : s[i] \in B
    BY ElementsOf
  <2> QED
    BY <2>1, SubSeqProperties
<1> HIDE DEF B
<1>3. ASSUME NEW kind, NEW s \in append_sysfs_dmi_entries(kind) PROVE s \in Seq(B)
  <2> DEFINE K == OfKind(bios, kind)
  <2>1. K \in Seq(B)
    <3> DEFINE P == {e \in B : e.is = kind}
    <3>1. K = Keep(bios, P)
      BY DEF OfKind, B
    <3> HIDE DEF P, K
    <3>2. K \in Seq(ToSet(bios) \cap P)
      BY <1>1, <3>1, KeepKeeps
    <3>3. ToSet(bios) \cap P \subseteq B
      BY DEF B
    <3> QED
      BY <3>2, <3>3, SeqMonotonic
  <2>2. PICK n \in 0 .. Len(K) : s = SubSeq(K, 1, n)
    BY <1>3 DEF append_sysfs_dmi_entries
  <2> HIDE DEF K
  <2> QED
    BY <1>2, <2>1, <2>2
<1>4. CASE es \in MemEntries
  <2>1. PICK n \in 0 .. Len(bios) : es = SubSeq(bios, 1, n)
    BY <1>4 DEF MemEntries
  <2> QED
    BY <1>1, <1>2, <2>1
<1>5. CASE es \in SysfsEntries
  <2>1. PICK a \in append_sysfs_dmi_entries("array"), d \in append_sysfs_dmi_entries("device"),
             r \in append_sysfs_dmi_entries("range") : es = a \o d \o r
    BY <1>5 DEF SysfsEntries
  <2>2. a \in Seq(B) /\ d \in Seq(B) /\ r \in Seq(B)
    BY <1>3
  <2>3. a \o d \in Seq(B)
    BY <2>2, ConcatProperties
  <2> DEFINE x == a \o d
  <2>4. es = x \o r /\ x \in Seq(B)
    BY <2>1, <2>3
  <2> HIDE DEF x
  <2> QED
    BY <2>2, <2>4, ConcatProperties
<1> QED
  BY <1>4, <1>5

LEMMA CollectIs ==
  ASSUME bios \in Tables, NEW es \in Seq(ToSet(bios)), NEW kind
  PROVE  /\ dmi_collect(es, kind) \in Seq(ToSet(bios))
         /\ ToSet(dmi_collect(es, kind)) \subseteq ToSet(es)
         /\ kind = "range" => RangeTypes(ToSet(dmi_collect(es, kind)))
         /\ es = << >> => dmi_collect(es, kind) = << >>
<1> DEFINE P == {e \in ToSet(es) : e.is = kind /\ e.whole /\ (kind = "device" => e.size # 0)}
           c == dmi_collect(es, kind)
<1>1. c = Keep(es, P)
  BY DEF dmi_collect
<1>2. \A e \in P : e \in ToSet(es) /\ e.is = kind
  OBVIOUS
<1> HIDE DEF P, c
<1>3. c \in Seq(ToSet(es) \cap P) /\ ToSet(c) = ToSet(es) \cap P
  BY <1>1, KeepKeeps
<1>4. ToSet(es) \subseteq ToSet(bios)
  BY ElementsOf
<1>5. c \in Seq(ToSet(bios))
  <2>1. ToSet(es) \cap P \subseteq ToSet(bios)
    BY <1>4
  <2> QED
    BY <1>3, <2>1, SeqMonotonic
<1>6. ASSUME kind = "range" PROVE RangeTypes(ToSet(c))
  BY <1>2, <1>3, <1>4, <1>6, DmiAssumption DEF RangeTypes
<1>7. ASSUME es = << >> PROVE c = << >>
  <2>1. ToSet(es) = {}
    BY <1>7 DEF ToSet
  <2>2. ASSUME c # << >> PROVE FALSE
    <3>1. Len(c) \in Nat \ {0}
      BY <1>5, <2>2, EmptySeq
    <3>2. 1 \in 1 .. Len(c)
      BY <3>1
    <3>3. c[1] \in ToSet(c)
      BY <1>5, <3>2, ElementsOf
    <3> QED
      BY <1>3, <2>1, <3>3
  <2> QED
    BY <2>2
<1> QED
  BY <1>3, <1>5, <1>6, <1>7 DEF c

(* opendmi, called with tables that are closed, or open already.           *)
LEMMA OpenIs ==
  ASSUME bios \in Tables, bios' = bios, TablesInv, opendmi
  PROVE  /\ TablesInv'
         /\ ~ opened' => dmi_dimms' = << >>
         /\ (collected => collected') /\ (~ opened => collected')
         /\ ~ opened => \E rs \in Seq(ToSet(bios)) :
                          RangeTypes(ToSet(rs)) /\ dmi_ranges' \in Sorted(rs)
<1>1. CASE opened
  <2>1. UNCHANGED tables
    BY <1>1 DEF opendmi
  <2> QED
    BY <1>1, <2>1 DEF tables, TablesInv, RangeTypes
<1>2. CASE ~ opened
  <2>1. PICK es \in SysfsEntries \cup MemEntries :
          /\ entries' = es
          /\ opened' \in IF es = << >> THEN BOOLEAN ELSE {TRUE}
          /\ collected' = TRUE
          /\ dmi_ranges' \in Sorted(dmi_collect(es, "range"))
          /\ dmi_dimms' = dmi_collect(es, "device")
    BY <1>2 DEF opendmi
  <2>2. es \in Seq(ToSet(bios))
    BY ReadIs
  <2> DEFINE rs == dmi_collect(es, "range")
             ds == dmi_collect(es, "device")
  <2>3. /\ rs \in Seq(ToSet(bios)) /\ ToSet(rs) \subseteq ToSet(es) /\ RangeTypes(ToSet(rs))
    BY <2>2, CollectIs
  <2>4. ds \in Seq(ToSet(bios)) /\ ToSet(ds) \subseteq ToSet(es) /\ (es = << >> => ds = << >>)
    BY <2>2, CollectIs
  <2>5. dmi_ranges' \in Sorted(rs) /\ dmi_dimms' = ds
    BY <2>1
  <2> HIDE DEF rs, ds
  <2>6. dmi_ranges' \in Orders(rs)
    BY <2>5, SortedAre
  <2>7. dmi_ranges' \in Seq(ToSet(bios)) /\ ToSet(dmi_ranges') \subseteq ToSet(rs)
    BY <2>3, <2>6, OrdersAre
  <2>8. RangeTypes(ToSet(dmi_ranges'))
    BY <2>3, <2>7 DEF RangeTypes
  <2>9. opened' \in BOOLEAN /\ (entries' # << >> => opened') /\ (~ opened' => es = << >>)
    BY <2>1
  <2>10. TablesInv'
    <3>1. ToSet(dmi_ranges') \subseteq ToSet(entries') /\ ToSet(dmi_dimms') \subseteq ToSet(entries')
      BY <2>1, <2>3, <2>4, <2>5, <2>7
    <3>2. entries' \in Seq(ToSet(bios)) /\ dmi_dimms' \in Seq(ToSet(bios))
      BY <2>1, <2>2, <2>4, <2>5
    <3> QED
      BY <2>1, <2>7, <2>8, <2>9, <3>1, <3>2 DEF TablesInv, RangeTypes
  <2>11. collected'
    BY <2>1
  <2> QED
    BY <1>2, <2>3, <2>4, <2>5, <2>9, <2>10, <2>11
<1> QED
  BY <1>1, <1>2

-----------------------------------------------------------------------------
LEMMA InitIInv == ASSUME Init PROVE IInv
<1>1. /\ bios \in Tables /\ pc = "check" /\ opened = FALSE /\ memdb = << >> /\ looked = NONE
      /\ collected = FALSE
      /\ entries = << >> /\ dmi_ranges = << >> /\ dmi_dimms = << >> /\ found = << >>
  BY DEF Init
<1>2. do_dmi \in BOOLEAN
  BY Zenon DEF Init
<1>3. ToSet(<< >>) = {} /\ << >> \in Seq(ToSet(bios))
  BY EmptySeq DEF ToSet
<1>4. TypeOK
  BY <1>1, <1>2, <1>3 DEF TypeOK
<1>5. TablesInv
  BY <1>1, <1>3 DEF TablesInv, RangeTypes
<1>6. ChecksInv
  BY <1>1 DEF ChecksInv, GoodTablesTrusted
<1>7. DimmsFound
  BY <1>1 DEF DimmsFound, DimmsAtTheirPlace, Prefilled, DecodedToItsDimms
<1> QED
  BY <1>1, <1>4, <1>5, <1>6, <1>7 DEF IInv

LEMMA CheckKeepsInv == ASSUME IInv, checkdmi PROVE IInv'
<1>1. /\ pc = "check" /\ ~ opened /\ memdb = << >> /\ looked = NONE /\ bios \in Tables
      /\ TypeOK /\ TablesInv
  BY DEF checkdmi, IInv, ChecksInv
<1>2. /\ bios' = bios /\ option' = option /\ memdb' = memdb /\ looked' = looked /\ found' = found
  BY DEF checkdmi, given, decoded
<1>3. DimmsFound'
  <2>1. pc' \in {"prefill", "exit"}
    BY DEF checkdmi
  <2> QED
    BY <1>1, <1>2, <2>1 DEF DimmsFound, DimmsAtTheirPlace, Prefilled, DecodedToItsDimms
<1>4. CASE /\ option = "no-dmi" /\ pc' = "prefill" /\ UNCHANGED <<tables, do_dmi>>
  <2>1. UNCHANGED <<opened, entries, collected, dmi_ranges, dmi_dimms, do_dmi>>
    BY <1>4 DEF tables
  <2>2. TypeOK'
    BY <1>1, <1>2, <1>4, <2>1 DEF TypeOK
  <2>3. TablesInv'
    BY <1>1, <1>2, <2>1 DEF TablesInv, RangeTypes
  <2>4. ChecksInv'
    BY <1>1, <1>2, <1>4 DEF ChecksInv, GoodTablesTrusted
  <2> QED
    BY <1>1, <1>2, <1>3, <2>2, <2>3, <2>4 DEF IInv
<1>5. CASE /\ option # "no-dmi" /\ opendmi /\ pc' = "prefill"
           /\ do_dmi' = (option = "dmi" \/ dmi_sanity_check(dmi_ranges', dmi_dimms'))
  <2>1. TablesInv'
    BY <1>1, <1>2, <1>5, OpenIs
  <2>2. PICK rs \in Seq(ToSet(bios)) : RangeTypes(ToSet(rs)) /\ dmi_ranges' \in Sorted(rs)
    BY <1>1, <1>2, <1>5, OpenIs
  <2>9. collected'
    BY <1>1, <1>2, <1>5, OpenIs
  <2>3. do_dmi' \in BOOLEAN /\ (do_dmi' <=> option = "dmi" \/ dmi_sanity_check(dmi_ranges', dmi_dimms'))
    BY <1>5, Zenon
  <2>4. ToSet(entries') \subseteq ToSet(bios)
    BY <1>2, <2>1, ElementsOf DEF TablesInv
  <2>5. TypeOK'
    BY <1>1, <1>2, <1>5, <2>1, <2>3, <2>4 DEF TypeOK, TablesInv
  <2>6. GoodTablesTrusted'
    <3> SUFFICES ASSUME dmi_ranges' # << >>, WellFormed(dmi_ranges'), Disjoint(dmi_ranges'),
                        \A r \in ToSet(dmi_ranges') : r.end < SignBit,
                        EnoughRanges(dmi_ranges', dmi_dimms'), LocatorsUnique(dmi_dimms')
                 PROVE  do_dmi'
      BY DEF GoodTablesTrusted, WellFormed, Disjoint, EnoughRanges, LocatorsUnique
    <3>1. RangesApart(dmi_ranges')
      BY <2>2, GoodIsApart
    <3>2. dmi_sanity_check(dmi_ranges', dmi_dimms')
      BY <3>1 DEF dmi_sanity_check
    <3> QED
      BY <2>3, <3>2
  <2>7. (option' = "default" /\ do_dmi') => dmi_sanity_check(dmi_ranges', dmi_dimms')
    BY <1>2, <2>3
  <2>8. ChecksInv'
    BY <1>1, <1>2, <1>5, <2>6, <2>7, <2>9
       DEF ChecksInv, dmi_sanity_check, RangesApart, EnoughRanges, LocatorsUnique
  <2> QED
    BY <1>1, <1>2, <1>3, <2>1, <2>5, <2>8 DEF IInv
<1>6. CASE /\ pc' = (IF option = "dmi" THEN "exit" ELSE "prefill")
           /\ do_dmi' = FALSE /\ UNCHANGED tables
  <2>1. UNCHANGED <<opened, entries, collected, dmi_ranges, dmi_dimms>>
    BY <1>6 DEF tables
  <2>2. TypeOK'
    BY <1>1, <1>2, <1>6, <2>1 DEF TypeOK
  <2>3. TablesInv'
    BY <1>1, <1>2, <2>1 DEF TablesInv, RangeTypes
  <2>4. ChecksInv'
    BY <1>1, <1>2, <1>6, <2>1 DEF ChecksInv, GoodTablesTrusted
  <2> QED
    BY <1>1, <1>2, <1>3, <2>2, <2>3, <2>4 DEF IInv
<1> QED
  BY <1>4, <1>5, <1>6 DEF checkdmi

LEMMA PrefillKeepsInv == ASSUME IInv, prefill_memdb PROVE IInv'
<1>1. /\ pc = "prefill" /\ memdb = << >> /\ looked = NONE /\ bios \in Tables
      /\ TypeOK /\ TablesInv /\ (do_dmi /\ option = "dmi" => collected)
  BY DEF prefill_memdb, IInv, ChecksInv
<1>2. /\ bios' = bios /\ option' = option /\ do_dmi' = do_dmi /\ looked' = looked /\ found' = found
      /\ pc' = "close" /\ daemon_mode' = daemon_mode /\ prepopulate' = prepopulate
  BY DEF prefill_memdb, given, decoded
<1>3. DecodedToItsDimms'
  BY <1>1, <1>2 DEF DecodedToItsDimms
<1>4. CASE ~ (daemon_mode /\ do_dmi /\ prepopulate) /\ UNCHANGED <<tables, memdb>>
  <2>1. UNCHANGED <<opened, entries, collected, dmi_ranges, dmi_dimms, memdb>>
    BY <1>4 DEF tables
  <2>2. TypeOK'
    BY <1>1, <1>2, <2>1 DEF TypeOK
  <2>3. TablesInv'
    BY <1>1, <1>2, <2>1 DEF TablesInv, RangeTypes
  <2>4. ChecksInv'
    BY <1>1, <1>2, <2>1 DEF ChecksInv, GoodTablesTrusted
  <2>5. DimmsFound'
    BY <1>2, <1>3, <1>4 DEF DimmsFound, DimmsAtTheirPlace, Prefilled
  <2> QED
    BY <1>1, <1>2, <2>2, <2>3, <2>4, <2>5 DEF IInv
<1>5. ASSUME do_dmi, opendmi, NEW garbage \in Channels,
             memdb' = FoldLeft(AddDimm, [channel |-> garbage, dimms |-> << >>], dmi_dimms').dimms
      PROVE  IInv'
  <2>1. TablesInv' /\ (~ opened' => dmi_dimms' = << >>) /\ (collected => collected')
    BY <1>1, <1>2, <1>5, OpenIs
  <2>2. ToSet(entries') \subseteq ToSet(bios)
    BY <1>2, <2>1, ElementsOf DEF TablesInv
  <2>3. TypeOK'
    BY <1>1, <1>2, <2>1, <2>2 DEF TypeOK, TablesInv
  <2>4. memdb' # << >> => opened'
    BY <1>5, <2>1, NothingEntered
  <2>5. ChecksInv'
    BY <1>1, <1>2, <1>5, <2>1, <2>4 DEF ChecksInv, GoodTablesTrusted
  <2>6. DimmsAtTheirPlace'
    <3>1. dmi_dimms' \in Seq(ToSet(bios))
      BY <1>2, <2>1 DEF TablesInv
    <3>2. Entered(memdb', dmi_dimms', Len(dmi_dimms'))
      BY <1>5, <3>1, DatabaseIs
    <3>3. /\ \A i \in 1 .. Len(dmi_dimms') : dmi_dimms'[i] \in ToSet(dmi_dimms')
          /\ \A x \in ToSet(dmi_dimms') : \E i \in 1 .. Len(dmi_dimms') : x = dmi_dimms'[i]
      BY <3>1, ElementsOf
    <3>4. \A p \in DOMAIN memdb' : memdb'[p] \in ToSet(dmi_dimms') /\ FitsPlace(memdb'[p], p)
      BY <3>2, <3>3 DEF Entered
    <3>5. \A d \in ToSet(dmi_dimms') : d.place # NONE => \E p \in DOMAIN memdb' : FitsPlace(d, p)
      BY <3>2, <3>3 DEF Entered
    <3>6. \A k \in 1 .. Len(dmi_dimms') : FirstOfPlace(dmi_dimms', k) =>
            dmi_dimms'[k].place \in DOMAIN memdb' /\ memdb'[dmi_dimms'[k].place] = dmi_dimms'[k]
      BY <3>2 DEF Entered
    <3> QED
      BY <3>4, <3>5, <3>6, Zenon DEF DimmsAtTheirPlace, FirstOfPlace
  <2> QED
    BY <1>1, <1>2, <1>3, <2>1, <2>3, <2>5, <2>6 DEF IInv, DimmsFound
<1>6. CASE daemon_mode /\ do_dmi /\ prepopulate
  <2>1. opendmi /\ \E garbage \in Channels :
          memdb' = FoldLeft(AddDimm, [channel |-> garbage, dimms |-> << >>], dmi_dimms').dimms
    BY <1>6, Zenon DEF prefill_memdb
  <2> QED
    BY <1>5, <1>6, <2>1
<1>7. CASE ~ (daemon_mode /\ do_dmi /\ prepopulate)
  BY <1>4, <1>7, Zenon DEF prefill_memdb
<1> QED
  BY <1>6, <1>7

LEMMA CloseKeepsInv == ASSUME IInv, closedmi PROVE IInv'
<1>1. /\ pc = "close" /\ looked = NONE /\ bios \in Tables /\ TypeOK /\ TablesInv
      /\ memdb # << >> => do_dmi /\ opened
      /\ do_dmi /\ option = "dmi" => collected
  BY DEF closedmi, IInv, ChecksInv
<1>2. /\ bios' = bios /\ option' = option /\ do_dmi' = do_dmi /\ looked' = looked /\ found' = found
      /\ memdb' = memdb /\ pc' = "running"
      /\ daemon_mode' = daemon_mode /\ prepopulate' = prepopulate
  BY DEF closedmi, given, decoded
<1>3. DecodedToItsDimms'
  BY <1>1, <1>2 DEF DecodedToItsDimms
<1>4. CASE UNCHANGED tables
  <2>1. UNCHANGED <<opened, entries, collected, dmi_ranges, dmi_dimms>>
    BY <1>4 DEF tables
  <2>2. TypeOK'
    BY <1>1, <1>2, <2>1 DEF TypeOK
  <2>3. TablesInv'
    BY <1>1, <1>2, <2>1 DEF TablesInv, RangeTypes
  <2>4. ChecksInv'
    BY <1>1, <1>2, <2>1 DEF ChecksInv, GoodTablesTrusted
  <2>5. DimmsFound'
    BY <1>1, <1>2, <1>3, <2>1 DEF IInv, DimmsFound, DimmsAtTheirPlace, Prefilled
  <2> QED
    BY <1>1, <1>2, <2>2, <2>3, <2>4, <2>5 DEF IInv
<1>5. CASE /\ Close
           /\ opened' = FALSE /\ entries' = << >>
           /\ collected' = FALSE /\ dmi_ranges' = << >> /\ dmi_dimms' = << >>
  <2>1. ~ do_dmi /\ memdb' = << >>
    BY <1>1, <1>2, <1>5 DEF Close
  <2>2. ToSet(<< >>) = {} /\ << >> \in Seq(ToSet(bios))
    BY EmptySeq DEF ToSet
  <2>3. TypeOK'
    BY <1>1, <1>2, <1>5, <2>2 DEF TypeOK
  <2>4. TablesInv'
    BY <1>2, <1>5, <2>2 DEF TablesInv, RangeTypes
  <2>5. ChecksInv'
    BY <1>1, <1>2, <2>1 DEF ChecksInv, GoodTablesTrusted
  <2>6. DimmsFound'
    BY <1>2, <1>3, <2>1 DEF DimmsFound, DimmsAtTheirPlace, Prefilled
  <2> QED
    BY <1>1, <1>2, <2>3, <2>4, <2>5, <2>6 DEF IInv
<1> QED
  BY <1>4, <1>5 DEF closedmi

-----------------------------------------------------------------------------
(* dmi_find_addr *)

LEMMA EntryIs ==
  ASSUME NEW S, entries \in Seq(S), NEW h
  PROVE  /\ handle_to_entry(h) = NONE \/ (handle_to_entry(h) \in ToSet(entries)
                                           /\ handle_to_entry(h).handle = h)
<1> DEFINE n == Len(entries)
           hits == {i \in 1 .. n : entries[i].handle = h}
<1>1. n \in Nat /\ \A i \in 1 .. n : entries[i] \in ToSet(entries)
  BY ElementsOf
<1>2. handle_to_entry(h) = IF hits = {} THEN NONE ELSE entries[Max(hits)]
  BY DEF handle_to_entry
<1>3. CASE hits = {}
  BY <1>2, <1>3
<1>4. CASE hits # {}
  <2>1. hits \in SUBSET (1 .. n)
    OBVIOUS
  <2>2. Max(hits) \in hits
    <3> HIDE DEF hits, n
    <3> QED
      BY <1>1, <1>4, <2>1, MaxIs
  <2>3. Max(hits) \in 1 .. n /\ entries[Max(hits)].handle = h
    BY <2>2
  <2> QED
    BY <1>1, <1>2, <1>4, <2>3
<1> QED
  BY <1>3, <1>4

(* An address is in a range of bytes exactly when its kilobyte is one of the
   range.                                                                  *)
LEMMA CoversIs ==
  ASSUME NEW r, r.start \in Nat, r.end \in Nat, NEW addr \in Nat
  PROVE  Covers(r, addr) <=> addr \div Unit \in r.start .. r.end - 1
<1> DEFINE k == addr \div Unit
           m == addr % Unit
           a == r.start
           z == r.end
<1>1. Unit \in Nat \ {0} /\ k \in Nat /\ m \in 0 .. Unit - 1 /\ addr = Unit * k + m
  BY DmiAssumption
<1> HIDE DEF k, m, a, z
<1>2. a \in Nat /\ z \in Nat
  BY DEF a, z
<1>3. addr >= a * Unit <=> k >= a
  <2>1. ASSUME k >= a PROVE addr >= a * Unit
    <3>1. k * Unit >= a * Unit /\ k * Unit = Unit * k /\ a * Unit \in Nat
      BY <1>1, <1>2, <2>1
    <3> QED
      BY <1>1, <3>1
  <2>2. ASSUME ~ (k >= a) PROVE ~ (addr >= a * Unit)
    <3>1. k + 1 <= a
      BY <1>1, <1>2, <2>2
    <3>2. (k + 1) * Unit <= a * Unit /\ (k + 1) * Unit = Unit * k + Unit /\ a * Unit \in Nat
      BY <1>1, <1>2, <3>1
    <3> QED
      BY <1>1, <3>2
  <2> QED
    BY <2>1, <2>2
<1>4. addr < z * Unit <=> k < z
  <2>1. ASSUME k >= z PROVE ~ (addr < z * Unit)
    <3>1. k * Unit >= z * Unit /\ k * Unit = Unit * k /\ z * Unit \in Nat
      BY <1>1, <1>2, <2>1
    <3> QED
      BY <1>1, <3>1
  <2>2. ASSUME k < z PROVE addr < z * Unit
    <3>1. k + 1 <= z
      BY <1>1, <1>2, <2>2
    <3>2. (k + 1) * Unit <= z * Unit /\ (k + 1) * Unit = Unit * k + Unit /\ z * Unit \in Nat
      BY <1>1, <1>2, <3>1
    <3> QED
      BY <1>1, <3>2
  <2>3. k >= z \/ k < z
    BY <1>1, <1>2
  <2> QED
    BY <2>1, <2>2, <2>3
<1>5. k \in a .. z - 1 <=> k >= a /\ k < z
  BY <1>1, <1>2
<1>6. Covers(r, addr) <=> addr >= a * Unit /\ addr < z * Unit
  BY DEF Covers, a, z
<1> QED
  BY <1>3, <1>4, <1>5, <1>6 DEF k, a, z

(* The devices of the ranges an address is in.                             *)
AtAddress(addr) ==
  {e \in ToSet(entries) :
     /\ \E r \in ToSet(dmi_ranges) : r.dev = e.handle /\ addr \div Unit \in r.start .. r.end - 1
     /\ e = handle_to_entry(e.handle)}

LEMMA FindIs ==
  ASSUME bios \in Tables, TablesInv, NEW addr \in Addresses
  PROVE  ToSet(dmi_find_addr(addr)) = AtAddress(addr)
<1> DEFINE n == Len(dmi_ranges)
           At(i) == IF Covers(dmi_ranges[i], addr) THEN handle_to_entry(dmi_ranges[i].dev) ELSE NONE
           q == [i \in 1 .. n |-> At(i)]
           E == ToSet(entries)
<1>1. /\ entries \in Seq(ToSet(bios)) /\ dmi_ranges \in Seq(ToSet(bios))
      /\ RangeTypes(ToSet(dmi_ranges)) /\ E \subseteq ToSet(bios) /\ addr \in Nat
  BY ElementsOf, DmiAssumption DEF TablesInv
<1>2. /\ n \in Nat /\ \A i \in 1 .. n : dmi_ranges[i] \in ToSet(dmi_ranges)
      /\ \A r \in ToSet(dmi_ranges) : \E i \in 1 .. n : r = dmi_ranges[i]
  BY <1>1, ElementsOf
<1>3. NONE \notin E
  BY <1>1, DmiAssumption
<1>4. \A h : handle_to_entry(h) = NONE \/ (handle_to_entry(h) \in E /\ handle_to_entry(h).handle = h)
  BY <1>1, EntryIs
<1>5. \A r \in ToSet(dmi_ranges) : Covers(r, addr) <=> addr \div Unit \in r.start .. r.end - 1
  BY <1>1, RangeNumbers, CoversIs
<1> HIDE DEF n
<1>6. \A i \in 1 .. n : q[i] = At(i) /\ At(i) \in E \cup {NONE}
  BY <1>4
<1>7. q \in [1 .. n -> E \cup {NONE}]
  BY <1>6
<1>8. dmi_find_addr(addr) = Keep(q, E)
  BY DEF dmi_find_addr, n
<1> HIDE DEF q, E
<1>9. q \in Seq(E \cup {NONE})
  BY <1>2, <1>7, SeqDef
<1>10. ToSet(dmi_find_addr(addr)) = ToSet(q) \cap E
  BY <1>8, <1>9, KeepKeeps
<1>11. ToSet(q) = {q[i] : i \in 1 .. n}
  BY <1>7 DEF ToSet
<1>12. ASSUME NEW e \in ToSet(q) \cap E PROVE e \in AtAddress(addr)
  <2>1. PICK i \in 1 .. n : e = At(i)
    BY <1>6, <1>11
  <2>2. Covers(dmi_ranges[i], addr) /\ e = handle_to_entry(dmi_ranges[i].dev)
    BY <1>3, <2>1
  <2>3. e.handle = dmi_ranges[i].dev
    BY <1>3, <1>4, <2>2
  <2>4. addr \div Unit \in dmi_ranges[i].start .. dmi_ranges[i].end - 1
    BY <1>2, <1>5, <2>2
  <2> QED
    BY <1>2, <2>2, <2>3, <2>4 DEF AtAddress, E
<1>13. ASSUME NEW e \in AtAddress(addr) PROVE e \in ToSet(q) \cap E
  <2>1. PICK r \in ToSet(dmi_ranges) :
          r.dev = e.handle /\ addr \div Unit \in r.start .. r.end - 1
    BY <1>13 DEF AtAddress
  <2>2. e \in E /\ e = handle_to_entry(e.handle)
    BY <1>13 DEF AtAddress, E
  <2>3. PICK i \in 1 .. n : r = dmi_ranges[i]
    BY <1>2
  <2>4. Covers(r, addr)
    BY <1>5, <2>1
  <2>5. At(i) = e
    BY <2>1, <2>2, <2>3, <2>4
  <2> QED
    BY <1>6, <1>11, <2>2, <2>5
<1> QED
  BY <1>10, <1>12, <1>13

(* Those are devices of ranges that hold the address, and all of them but for
   last kilobytes.                                                         *)
LEMMA AddressDecoded ==
  ASSUME bios \in Tables, TablesInv, NEW addr \in Addresses
  PROVE  LET holds == {r \in ToSet(dmi_ranges) : addr \div Unit \in r.start .. r.end}
         IN  /\ \A e \in AtAddress(addr) :
                  e = handle_to_entry(e.handle) /\ \E r \in holds : r.dev = e.handle
             /\ \A r \in holds :
                  addr \div Unit # r.end => handle_to_entry(r.dev) \in AtAddress(addr) \cup {NONE}
             /\ WellFormed(dmi_ranges) /\ Disjoint(dmi_ranges) =>
                  \A d, e \in AtAddress(addr) : d = e
<1> DEFINE kb == addr \div Unit
           R == ToSet(dmi_ranges)
           n == Len(dmi_ranges)
<1>1. /\ entries \in Seq(ToSet(bios)) /\ dmi_ranges \in Seq(ToSet(bios)) /\ RangeTypes(R)
  BY DEF TablesInv
<1>2. kb \in Nat
  BY DmiAssumption
<1>3. \A r \in R : r.start \in Nat /\ r.end \in Nat
  BY <1>1, RangeNumbers
<1>4. \A r \in R : \E i \in 1 .. n : r = dmi_ranges[i]
  BY <1>1, ElementsOf
<1>5. \A h : handle_to_entry(h) = NONE \/ (handle_to_entry(h) \in ToSet(entries)
                                             /\ handle_to_entry(h).handle = h)
  BY <1>1, EntryIs
<1>6. \A e \in AtAddress(addr) :
        /\ e = handle_to_entry(e.handle)
        /\ \E r \in R : r.dev = e.handle /\ kb \in r.start .. r.end - 1
  BY DEF AtAddress
<1>7. \A e \in ToSet(entries), r \in R :
        e = handle_to_entry(e.handle) /\ r.dev = e.handle /\ kb \in r.start .. r.end - 1
          => e \in AtAddress(addr)
  BY DEF AtAddress
<1> HIDE DEF kb, R, n
<1>8. \A r \in R : kb \in r.start .. r.end - 1 <=> kb \in r.start .. r.end /\ kb # r.end
  BY <1>2, <1>3
<1>9. ASSUME NEW e \in AtAddress(addr)
      PROVE  /\ e = handle_to_entry(e.handle)
             /\ \E r \in {x \in R : kb \in x.start .. x.end} : r.dev = e.handle
  BY <1>6, <1>8
<1>10. ASSUME NEW r \in R, kb \in r.start .. r.end, kb # r.end
       PROVE  handle_to_entry(r.dev) \in AtAddress(addr) \cup {NONE}
  <2> DEFINE e == handle_to_entry(r.dev)
  <2>1. CASE e = NONE
    BY <2>1
  <2>2. CASE e # NONE
    <3>1. e \in ToSet(entries) /\ e.handle = r.dev
      BY <1>5, <2>2
    <3>2. e = handle_to_entry(e.handle)
      BY <3>1
    <3> HIDE DEF e
    <3>3. e \in AtAddress(addr)
      BY <1>7, <1>8, <1>10, <3>1, <3>2
    <3> QED
      BY <3>3 DEF e
  <2> QED
    BY <2>1, <2>2
<1>11. ASSUME Disjoint(dmi_ranges), NEW d \in AtAddress(addr), NEW e \in AtAddress(addr)
       PROVE  d = e
  <2>1. PICK r \in R : r.dev = d.handle /\ kb \in r.start .. r.end
    BY <1>6, <1>8
  <2>2. PICK q \in R : q.dev = e.handle /\ kb \in q.start .. q.end
    BY <1>6, <1>8
  <2>3. PICK i \in 1 .. n : r = dmi_ranges[i]
    BY <1>4
  <2>4. PICK j \in 1 .. n : q = dmi_ranges[j]
    BY <1>4
  <2>5. ~ (r.end < q.start) /\ ~ (q.end < r.start)
    BY <1>2, <1>3, <2>1, <2>2
  <2>6. i = j
    BY <1>11, <2>3, <2>4, <2>5 DEF Disjoint, n
  <2>7. d.handle = e.handle
    BY <2>1, <2>2, <2>3, <2>4, <2>6
  <2> QED
    BY <1>6, <2>7
<1> QED
  BY <1>9, <1>10, <1>11 DEF kb, R

LEMMA DecodeKeepsInv == ASSUME IInv, NEW addr \in Addresses, dmi_decodeaddr(addr) PROVE IInv'
<1>1. /\ pc = "running" /\ bios \in Tables /\ TypeOK /\ TablesInv /\ ChecksInv
      /\ DimmsAtTheirPlace
  BY DEF dmi_decodeaddr, IInv, DimmsFound
<1>2. /\ UNCHANGED <<bios, option, daemon_mode, prepopulate, pc, do_dmi, opened, entries, collected,
                      dmi_ranges, dmi_dimms, memdb>>
      /\ looked' = addr /\ found' = dmi_find_addr(addr)
  BY DEF dmi_decodeaddr, given, tables
<1>3. ToSet(found') = AtAddress(addr)
  BY <1>1, <1>2, FindIs
<1>4. TypeOK'
  <2>1. ToSet(found') \subseteq ToSet(bios)
    BY <1>1, <1>3 DEF AtAddress, TypeOK
  <2> QED
    BY <1>1, <1>2, <2>1 DEF TypeOK
<1>5. TablesInv'
  BY <1>1, <1>2 DEF TablesInv, RangeTypes
<1>6. ChecksInv'
  BY <1>1, <1>2 DEF ChecksInv, GoodTablesTrusted
<1>7. DimmsAtTheirPlace'
  BY <1>1, <1>2 DEF DimmsAtTheirPlace, Prefilled
<1>8. DecodedToItsDimms'
  <2>1. \A h : handle_to_entry(h)' = handle_to_entry(h)
    BY <1>2 DEF handle_to_entry
  <2> QED
    BY <1>1, <1>2, <1>3, <2>1, AddressDecoded DEF DecodedToItsDimms
<1> QED
  BY <1>1, <1>2, <1>4, <1>5, <1>6, <1>7, <1>8 DEF IInv, DimmsFound

LEMMA NextIInv == ASSUME IInv, [Next]_vars PROVE IInv'
<1>1. CASE UNCHANGED vars
  <2>1. UNCHANGED <<bios, option, daemon_mode, prepopulate, pc, do_dmi, opened, entries, collected,
                    dmi_ranges, dmi_dimms, memdb, looked, found>>
    BY <1>1 DEF vars, given, tables, decoded
  <2>2. TypeOK' /\ TablesInv'
    BY <2>1 DEF IInv, TypeOK, TablesInv, RangeTypes
  <2>3. ChecksInv'
    BY <2>1 DEF IInv, ChecksInv, GoodTablesTrusted, dmi_sanity_check, RangesApart, EnoughRanges,
                LocatorsUnique, WellFormed, Disjoint
  <2>4. DimmsAtTheirPlace'
    BY <2>1 DEF IInv, DimmsFound, DimmsAtTheirPlace, Prefilled
  <2>5. \A h : handle_to_entry(h)' = handle_to_entry(h)
    BY <2>1 DEF handle_to_entry
  <2>6. DecodedToItsDimms'
    BY <2>1, <2>5 DEF IInv, DimmsFound, DecodedToItsDimms
  <2>7. DimmsFound'
    BY <2>4, <2>6 DEF DimmsFound
  <2> QED
    BY <2>1, <2>2, <2>3, <2>7 DEF IInv
<1> QED
  BY <1>1, CheckKeepsInv, PrefillKeepsInv, CloseKeepsInv, DecodeKeepsInv DEF Next

LEMMA AlwaysIInv == Spec => []IInv
  BY InitIInv, NextIInv, PTL DEF Spec

-----------------------------------------------------------------------------
(* For any tables, read in whole or in part, closedmi never takes them away
   from the database, and dmi_decodeaddr never follows a NULL dmi_ranges.  *)
THEOREM TablesAlwaysOutliveUse == Spec => []TablesOutliveUse
<1>1. IInv => TablesOutliveUse
  BY DEF IInv, TablesOutliveUse, InUseMeansOpen, TablesInv, ChecksInv
<1> QED
  BY <1>1, AlwaysIInv, PTL

(* For any number of ranges, in any order and of any width, dmi_sanity_check
   trusts no tables with ranges that overlap, if each of them starts before it
   ends, and all good ones.                                                *)
THEOREM CheckAlwaysRight == Spec => []CheckIsRight
<1>1. IInv => CheckIsRight
  <2> SUFFICES ASSUME IInv PROVE CheckIsRight
    OBVIOUS
  <2>1. TrustedMeansUnambiguous
    <3> SUFFICES ASSUME pc = "prefill", option = "default", do_dmi, WellFormed(dmi_ranges)
                 PROVE  Disjoint(dmi_ranges) /\ LocatorsUnique(dmi_dimms)
      BY DEF TrustedMeansUnambiguous
    <3>1. RangesApart(dmi_ranges) /\ LocatorsUnique(dmi_dimms)
      BY DEF IInv, ChecksInv, dmi_sanity_check
    <3>2. dmi_ranges \in Seq(ToSet(bios)) /\ RangeTypes(ToSet(dmi_ranges))
      BY DEF IInv, TablesInv
    <3> QED
      BY <3>1, <3>2, ApartMeansDisjoint
  <2> QED
    BY <2>1 DEF IInv, ChecksInv, CheckIsRight
<1> QED
  BY <1>1, AlwaysIInv, PTL

(* For any devices, with or without a channel in their locators, and any
   ranges: prefill_memdb puts devices only where they fit, and the first one
   that names a place stays there; dmi_find_addr lists devices of ranges that
   hold the address only, and all of them but for a range's last kilobyte. *)
THEOREM DimmsAlwaysFound == Spec => []DimmsFound
<1>1. IInv => DimmsFound
  BY DEF IInv
<1> QED
  BY <1>1, AlwaysIInv, PTL
=============================================================================
