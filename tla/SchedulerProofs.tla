--------------------------- MODULE SchedulerProofs --------------------------
(***************************************************************************)
(* The ring of tasks, the frames they hold, the page tables they run on    *)
(* and the survival of the shell, for every number of kernel tasks, every  *)
(* memory size and every set of signals.                                   *)
(***************************************************************************)
EXTENDS Scheduler, FiniteSetTheorems, WellFoundedInduction, TLAPS

\* The next pointers nx of the structs S are one circle of n structs, and w is
\* the walk around it from c.
Circle(w, n, nx, S, c) ==
    /\ n \in Nat \ {0}
    /\ nx \in [S -> S]
    /\ w \in [0 .. n -> S]
    /\ w[0] = c /\ w[n] = c
    /\ \A k \in 0 .. n - 1 : w[k + 1] = nx[w[k]]
    /\ \A s \in S : \E k \in 0 .. n - 1 : w[k] = s
    /\ \A i, j \in 0 .. n - 1 : w[i] = w[j] => i = j

Ring == \E n \in Nat : \E w \in [0 .. n -> Tasks] : Circle(w, n, next, Tasks, g_current)

-----------------------------------------------------------------------------
(* Natural numbers.                                                        *)

\* Every set of natural numbers that is not empty has a least element.
LEMMA LeastNat ==
    ASSUME NEW S \in SUBSET Nat, S # {}
    PROVE  \E x \in S : \A y \in S : x <= y
<1> DEFINE R == OpToRel(<, Nat)
<1>1. IsWellFoundedOn(R, Nat)
  BY NatLessThanWellFounded
<1>2. \A x, y \in Nat : <<x, y>> \in R <=> x < y
  BY DEF OpToRel
<1> HIDE DEF R
<1>3. PICK x \in S : \A y \in S : ~ (<<y, x>> \in R)
  BY <1>1, WFMin
<1>4. \A y \in S : ~ (y < x)
  BY <1>2, <1>3
<1> QED BY <1>4

\* Min returns it.
LEMMA MinNat ==
    ASSUME NEW S \in SUBSET Nat, S # {}
    PROVE  Min(S) \in S /\ \A y \in S : Min(S) <= y
BY LeastNat DEF Min

\* Induction over the natural numbers, for a set of them.
LEMMA Induction ==
    ASSUME NEW S, 0 \in S, \A n \in Nat : n \in S => n + 1 \in S
    PROVE  Nat \subseteq S
<1> SUFFICES ASSUME Nat \ S # {} PROVE FALSE
  OBVIOUS
<1>1. PICK x \in Nat \ S : \A y \in Nat \ S : x <= y
  <2>1. Nat \ S \in SUBSET Nat
    OBVIOUS
  <2> QED BY <2>1, LeastNat
<1>2. x # 0 /\ x - 1 \in Nat /\ x - 1 \in S
  BY <1>1
<1>3. (x - 1) + 1 \in S
  BY <1>2
<1> QED BY <1>1, <1>3

\* A set of numbers up to n that contains n can be listed in increasing order.
LEMMA Listing ==
    ASSUME NEW n \in Nat, NEW K \in SUBSET (0 .. n), n \in K
    PROVE  \E l \in Nat : \E e \in [0 .. l -> 0 .. n] :
              /\ \A i, j \in 0 .. l : i < j => e[i] < e[j]
              /\ \A k \in 0 .. n : k \in K <=> \E i \in 0 .. l : e[i] = k
              /\ e[l] = n
<1> DEFINE Lists(e, l, m) ==
               /\ \A i, j \in 0 .. l - 1 : i < j => e[i] < e[j]
               /\ \A k \in 0 .. n : k \in K /\ k < m <=> \E i \in 0 .. l - 1 : e[i] = k
           Good == {m \in Nat : m <= n + 1 =>
                       \E l \in Nat : \E e \in [0 .. l - 1 -> 0 .. n] : Lists(e, l, m)}
<1>1. 0 \in Good
  <2>1. Lists([i \in 0 .. 0 - 1 |-> 0], 0, 0)
    OBVIOUS
  <2>2. [i \in 0 .. 0 - 1 |-> 0] \in [0 .. 0 - 1 -> 0 .. n]
    OBVIOUS
  <2> HIDE DEF Lists
  <2> QED BY <2>1, <2>2
<1>2. ASSUME NEW m \in Nat, m \in Good PROVE m + 1 \in Good
  <2> SUFFICES ASSUME m + 1 <= n + 1
               PROVE  \E l \in Nat : \E e \in [0 .. l - 1 -> 0 .. n] : Lists(e, l, m + 1)
    OBVIOUS
  <2>1. PICK l \in Nat : \E e \in [0 .. l - 1 -> 0 .. n] : Lists(e, l, m)
    <3>1. m <= n + 1
      OBVIOUS
    <3> HIDE DEF Lists
    <3> QED BY <1>2, <3>1
  <2>2. PICK e \in [0 .. l - 1 -> 0 .. n] : Lists(e, l, m)
    BY <2>1
  <2>3. CASE m \notin K
    <3>1. Lists(e, l, m + 1)
      BY <2>2, <2>3
    <3> HIDE DEF Lists
    <3> QED BY <3>1
  <2>4. CASE m \in K
    <3> DEFINE f == [i \in 0 .. (l + 1) - 1 |-> IF i = l THEN m ELSE e[i]]
    <3>1. /\ f \in [0 .. (l + 1) - 1 -> 0 .. n] /\ f[l] = m
          /\ \A i \in 0 .. l - 1 : f[i] = e[i]
      OBVIOUS
    <3> HIDE DEF f
    <3>2. \A i \in 0 .. l - 1 : e[i] < m
      BY <2>2
    <3>3. \A i \in 0 .. (l + 1) - 1 : i \in 0 .. l - 1 \/ i = l
      OBVIOUS
    <3>4. \A i, j \in 0 .. (l + 1) - 1 : i < j => f[i] < f[j]
      <4> SUFFICES ASSUME NEW i \in 0 .. (l + 1) - 1, NEW j \in 0 .. (l + 1) - 1, i < j
                   PROVE  f[i] < f[j]
        OBVIOUS
      <4>1. i \in 0 .. l - 1
        OBVIOUS
      <4>2. CASE j = l
        BY <3>1, <3>2, <4>1, <4>2
      <4>3. CASE j \in 0 .. l - 1
        BY <2>2, <3>1, <4>1, <4>3
      <4> QED BY <3>3, <4>2, <4>3
    <3>5. ASSUME NEW k \in 0 .. n
          PROVE  k \in K /\ k < m + 1 <=> \E i \in 0 .. (l + 1) - 1 : f[i] = k
      <4>1. k \in K /\ k < m + 1 <=> (k \in K /\ k < m) \/ k = m
        BY <2>4
      <4>2. k \in K /\ k < m <=> \E i \in 0 .. l - 1 : e[i] = k
        BY <2>2
      <4>3. (\E i \in 0 .. (l + 1) - 1 : f[i] = k) <=> (\E i \in 0 .. l - 1 : f[i] = k) \/ f[l] = k
        BY <3>3
      <4> QED BY <3>1, <4>1, <4>2, <4>3
    <3>6. Lists(f, l + 1, m + 1)
      BY <3>4, <3>5
    <3> HIDE DEF Lists
    <3>7. l + 1 \in Nat
      OBVIOUS
    <3> QED BY <3>1, <3>6, <3>7
  <2> QED BY <2>3, <2>4
<1>3. n + 1 \in Good
  <2> HIDE DEF Good
  <2> QED BY <1>1, <1>2, Induction
<1>4. PICK l \in Nat : \E e \in [0 .. l - 1 -> 0 .. n] : Lists(e, l, n + 1)
  <2> HIDE DEF Lists
  <2> QED BY <1>3
<1>5. PICK e \in [0 .. l - 1 -> 0 .. n] : Lists(e, l, n + 1)
  BY <1>4
<1>6. \A k \in 0 .. n : k \in K <=> \E i \in 0 .. l - 1 : e[i] = k
  BY <1>5
<1>7. PICK i \in 0 .. l - 1 : e[i] = n
  BY <1>6
<1>8. i = l - 1
  <2>1. i < l - 1 => e[i] < e[l - 1]
    BY <1>5
  <2>2. l - 1 \in 0 .. l - 1 /\ e[l - 1] \in 0 .. n
    OBVIOUS
  <2> QED BY <1>7, <2>1, <2>2
<1>9. l - 1 \in Nat /\ e \in [0 .. l - 1 -> 0 .. n] /\ e[l - 1] = n
  BY <1>7, <1>8
<1> QED BY <1>5, <1>6, <1>9

-----------------------------------------------------------------------------
(* Following next pointers around a circle.                                *)

\* Next pointers that stay among the structs S can be followed for ever.
LEMMA FollowExists ==
    ASSUME NEW S, next \in [S -> S], NEW t \in S, NEW N \in Nat
    PROVE  \E g \in [0 .. N -> S] : g[0] = t /\ \A k \in 1 .. N : g[k] = next[g[k - 1]]
<1> DEFINE Steps(g, m) == g[0] = t /\ \A k \in 1 .. m : g[k] = next[g[k - 1]]
           Good == {m \in Nat : \E g \in [0 .. m -> S] : Steps(g, m)}
<1>1. 0 \in Good
  <2>1. [k \in 0 .. 0 |-> t] \in [0 .. 0 -> S] /\ Steps([k \in 0 .. 0 |-> t], 0)
    OBVIOUS
  <2> HIDE DEF Steps
  <2> QED BY <2>1
<1>2. ASSUME NEW m \in Nat, m \in Good PROVE m + 1 \in Good
  <2>1. PICK g \in [0 .. m -> S] : Steps(g, m)
    BY <1>2
  <2> DEFINE h == [k \in 0 .. m + 1 |-> IF k = m + 1 THEN next[g[m]] ELSE g[k]]
  <2>2. /\ h \in [0 .. m + 1 -> S] /\ h[m + 1] = next[g[m]]
        /\ \A k \in 0 .. m : h[k] = g[k]
    OBVIOUS
  <2> HIDE DEF h
  <2>3. ASSUME NEW k \in 1 .. m + 1 PROVE h[k] = next[h[k - 1]]
    <3>1. CASE k = m + 1
      BY <2>2, <3>1
    <3>2. CASE k # m + 1
      <4>1. k \in 1 .. m /\ k \in 0 .. m /\ k - 1 \in 0 .. m
        BY <3>2
      <4> QED BY <2>1, <2>2, <4>1
    <3> QED BY <3>1, <3>2
  <2>4. Steps(h, m + 1)
    BY <2>1, <2>2, <2>3
  <2> HIDE DEF Steps
  <2> QED BY <2>2, <2>4
<1>3. N \in Good
  <2> HIDE DEF Good
  <2> QED BY <1>1, <1>2, Induction
<1> QED BY <1>3

\* What Follow computes.
LEMMA FollowSteps ==
    ASSUME NEW S, next \in [S -> S], NEW t \in S, NEW N \in Nat
    PROVE  /\ DOMAIN Follow(t, N) = 0 .. N
           /\ Follow(t, N)[0] = t
           /\ \A k \in 1 .. N : Follow(t, N)[k] = next[Follow(t, N)[k - 1]]
<1> DEFINE Is(g) == g = [k \in 0 .. N |-> IF k = 0 THEN t ELSE next[g[k - 1]]]
           F == Follow(t, N)
<1>1. PICK g \in [0 .. N -> S] : g[0] = t /\ \A k \in 1 .. N : g[k] = next[g[k - 1]]
  BY FollowExists
<1>2. Is(g)
  <2>1. \A k \in 0 .. N : g[k] = IF k = 0 THEN t ELSE next[g[k - 1]]
    BY <1>1
  <2> QED BY <2>1
<1>3. F = CHOOSE h : Is(h)
  BY DEF Follow
<1> HIDE DEF Is, F
<1>4. Is(F)
  BY <1>2, <1>3
<1>5. F = [k \in 0 .. N |-> IF k = 0 THEN t ELSE next[F[k - 1]]]
  BY <1>4 DEF Is
<1>6. DOMAIN F = 0 .. N /\ F[0] = t /\ \A k \in 1 .. N : F[k] = next[F[k - 1]]
  BY <1>5
<1> QED BY <1>6 DEF F

\* Followed along a circle the pointers are the circle: from w[p] on, as long as
\* the walk w lasts.
LEMMA FollowAlong ==
    ASSUME NEW n \in Nat, NEW w, Circle(w, n, next, Tasks, g_current)
    PROVE  \A N \in Nat, p \in 0 .. n, m \in Nat :
              m <= N /\ p + m <= n => Follow(w[p], N)[m] = w[p + m]
<1> SUFFICES ASSUME NEW N \in Nat, NEW p \in 0 .. n, NEW m \in Nat, m <= N, p + m <= n
             PROVE  Follow(w[p], N)[m] = w[p + m]
  OBVIOUS
<1> DEFINE F == Follow(w[p], N)
           Good == {k \in Nat : k <= m => F[k] = w[p + k]}
<1>1. /\ w \in [0 .. n -> Tasks] /\ next \in [Tasks -> Tasks]
      /\ \A k \in 0 .. n - 1 : w[k + 1] = next[w[k]]
  BY DEF Circle
<1>2. F[0] = w[p] /\ \A k \in 1 .. N : F[k] = next[F[k - 1]]
  BY <1>1, FollowSteps
<1> HIDE DEF F
<1>3. 0 \in Good
  BY <1>2
<1>4. ASSUME NEW k \in Nat, k \in Good PROVE k + 1 \in Good
  <2> SUFFICES ASSUME k + 1 <= m PROVE F[k + 1] = w[p + (k + 1)]
    OBVIOUS
  <2>1. F[k] = w[p + k]
    BY <1>4
  <2>2. k + 1 \in 1 .. N /\ p + k \in 0 .. n - 1 /\ (k + 1) - 1 = k /\ (p + k) + 1 = p + (k + 1)
    OBVIOUS
  <2>3. F[k + 1] = next[F[k]]
    BY <1>2, <2>2
  <2>4. w[p + (k + 1)] = next[w[p + k]]
    BY <1>1, <2>2
  <2> QED BY <2>1, <2>3, <2>4
<1>5. m \in Good
  <2> HIDE DEF Good
  <2> QED BY <1>3, <1>4, Induction
<1> QED BY <1>5 DEF F

\* A circle has as many structs as steps.
LEMMA CircleSize ==
    ASSUME NEW S, NEW c, NEW n, NEW w, NEW nx, Circle(w, n, nx, S, c)
    PROVE  IsFiniteSet(S) /\ Cardinality(S) = n
<1>1. n \in Nat /\ n # 0 /\ w \in [0 .. n -> S]
  BY DEF Circle
<1> DEFINE f == [i \in 1 .. n |-> w[i - 1]]
<1>2. f \in [1 .. n -> S]
  BY <1>1
<1>3. ASSUME NEW i \in 1 .. n, NEW j \in 1 .. n, f[i] = f[j] PROVE i = j
  <2>1. i - 1 \in 0 .. n - 1 /\ j - 1 \in 0 .. n - 1
    BY <1>1
  <2>2. w[i - 1] = w[j - 1]
    BY <1>3
  <2>3. i - 1 = j - 1
    BY <2>1, <2>2 DEF Circle
  <2> QED BY <1>1, <2>3
<1>4. ASSUME NEW s \in S PROVE \E i \in 1 .. n : f[i] = s
  <2>1. PICK k \in 0 .. n - 1 : w[k] = s
    BY DEF Circle
  <2>2. k + 1 \in 1 .. n /\ (k + 1) - 1 = k
    BY <1>1
  <2>3. f[k + 1] = s
    BY <2>1, <2>2
  <2> QED BY <2>2, <2>3
<1> HIDE DEF f
<1>5. f \in Bijection(1 .. n, S)
  BY <1>2, <1>3, <1>4 DEF Bijection, Injection, Surjection, IsInjective
<1>6. ExistsBijection(1 .. n, S)
  BY <1>5 DEF ExistsBijection
<1> QED BY <1>1, <1>6, FS_CountingElements, FS_NatBijection

\* Going round from another struct.
LEMMA Rotate ==
    ASSUME NEW S, NEW c, NEW n \in Nat, NEW w, NEW nx, Circle(w, n, nx, S, c)
    PROVE  \A d \in S : \E v \in [0 .. n -> S] : Circle(v, n, nx, S, d)
<1> SUFFICES ASSUME NEW d \in S PROVE \E v \in [0 .. n -> S] : Circle(v, n, nx, S, d)
  OBVIOUS
<1>0. n \in Nat /\ n # 0
  BY DEF Circle
<1>1. /\ n \in Nat /\ n # 0 /\ nx \in [S -> S] /\ w \in [0 .. n -> S]
      /\ w[0] = c /\ w[n] = c
      /\ \A k \in 0 .. n - 1 : w[k + 1] = nx[w[k]]
      /\ \A s \in S : \E k \in 0 .. n - 1 : w[k] = s
      /\ \A i, k \in 0 .. n - 1 : w[i] = w[k] => i = k
  BY DEF Circle
<1>2. PICK j \in 0 .. n - 1 : w[j] = d
  BY <1>1
<1> DEFINE at(k) == IF k + j < n THEN k + j ELSE k + j - n
           v == [k \in 0 .. n |-> w[at(k)]]
<1>3. \A k \in 0 .. n : at(k) \in 0 .. n - 1
  BY <1>1
<1>4. v \in [0 .. n -> S] /\ \A k \in 0 .. n : v[k] = w[at(k)]
  BY <1>1, <1>3
<1>5. at(0) = j /\ at(n) = j
  BY <1>1
<1>6. v[0] = d /\ v[n] = d
  BY <1>1, <1>2, <1>4, <1>5
<1>7. ASSUME NEW k \in 0 .. n - 1 PROVE v[k + 1] = nx[v[k]]
  <2>1. k \in 0 .. n /\ k + 1 \in 0 .. n
    BY <1>1
  <2>2. CASE at(k) = n - 1
    <3>1. at(k + 1) = 0 /\ (n - 1) + 1 = n /\ n - 1 \in 0 .. n - 1
      BY <1>1, <2>2
    <3>2. w[n] = nx[w[n - 1]]
      BY <1>1, <3>1
    <3> QED BY <1>1, <1>4, <2>1, <2>2, <3>1, <3>2
  <2>3. CASE at(k) # n - 1
    <3>1. at(k + 1) = at(k) + 1
      BY <1>1, <2>3
    <3>2. w[at(k) + 1] = nx[w[at(k)]]
      BY <1>1, <1>3, <2>1
    <3> QED BY <1>4, <2>1, <3>1, <3>2
  <2> QED BY <2>2, <2>3
<1>8. ASSUME NEW s \in S PROVE \E k \in 0 .. n - 1 : v[k] = s
  <2>1. PICK i \in 0 .. n - 1 : w[i] = s
    BY <1>1
  <2> DEFINE k == IF i >= j THEN i - j ELSE i - j + n
  <2>2. k \in 0 .. n - 1 /\ k \in 0 .. n /\ at(k) = i
    <3>1. CASE i >= j
      BY <1>0, <3>1
    <3>2. CASE ~(i >= j)
      BY <1>0, <3>2
    <3> QED BY <3>1, <3>2
  <2> HIDE DEF k
  <2> QED BY <1>4, <2>1, <2>2
<1>9. ASSUME NEW i \in 0 .. n - 1, NEW k \in 0 .. n - 1, v[i] = v[k] PROVE i = k
  <2>1. i \in 0 .. n /\ k \in 0 .. n
    BY <1>1
  <2>2. at(i) = at(k)
    BY <1>1, <1>3, <1>4, <1>9, <2>1
  <2> HIDE DEF v
  <2>3. CASE i + j < n
    BY <1>0, <2>2, <2>3
  <2>4. CASE ~(i + j < n)
    BY <1>0, <2>2, <2>4
  <2> QED BY <2>3, <2>4
<1> HIDE DEF v
<1>10. Circle(v, n, nx, S, d)
  BY <1>1, <1>4, <1>6, <1>7, <1>8, <1>9 DEF Circle
<1> QED BY <1>4, <1>10

\* The walk of the ring visits its structs one after the other.
LEMMA WalkAround ==
    ASSUME NEW n \in Nat, NEW w, Circle(w, n, next, Tasks, g_current)
    PROVE  /\ IsFiniteSet(Tasks) /\ Cardinality(Tasks) = n
           /\ DOMAIN Walk = 0 .. n /\ \A k \in 0 .. n : Walk[k] = w[k]
<1>1. IsFiniteSet(Tasks) /\ Cardinality(Tasks) = n
  BY CircleSize
<1>2. w[0] = g_current /\ next \in [Tasks -> Tasks] /\ g_current \in Tasks
  BY DEF Circle
<1>3. DOMAIN Walk = 0 .. n
  BY <1>1, <1>2, FollowSteps DEF Walk
<1>4. ASSUME NEW k \in 0 .. n PROVE Walk[k] = w[k]
  <2>1. 0 \in 0 .. n /\ k \in Nat /\ k <= n /\ 0 + k <= n /\ 0 + k = k
    OBVIOUS
  <2>2. Follow(w[0], n)[k] = w[0 + k]
    BY <2>1, FollowAlong
  <2> QED BY <1>1, <1>2, <2>1, <2>2 DEF Walk
<1> QED BY <1>1, <1>3, <1>4

\* ny is the successor function nx over S with the new struct s put behind c.
Spliced(ny, nx, S, c, s) ==
    /\ s \notin S
    /\ ny \in [S \cup {s} -> S \cup {s}]
    /\ ny[s] = nx[c] /\ ny[c] = s
    /\ \A t \in S : t # c => ny[t] = nx[t]

\* A struct put behind the first of a circle becomes part of it.
LEMMA Insert ==
    ASSUME NEW S, NEW c, NEW n \in Nat, NEW w, NEW nx, Circle(w, n, nx, S, c),
           NEW s, NEW ny, Spliced(ny, nx, S, c, s)
    PROVE  \E v \in [0 .. n + 1 -> S \cup {s}] : Circle(v, n + 1, ny, S \cup {s}, c)
<1>0. n \in Nat /\ n # 0 /\ n + 1 \in Nat /\ n + 1 # 0 /\ (n + 1) - 1 = n
  BY DEF Circle
<1>1. /\ nx \in [S -> S] /\ w \in [0 .. n -> S]
      /\ w[0] = c /\ w[n] = c
      /\ \A k \in 0 .. n - 1 : w[k + 1] = nx[w[k]]
      /\ \A x \in S : \E k \in 0 .. n - 1 : w[k] = x
      /\ \A i, k \in 0 .. n - 1 : w[i] = w[k] => i = k
  BY DEF Circle
<1>2. c \in S /\ c # s /\ s \notin S
  BY <1>0, <1>1 DEF Spliced
<1>3. ny[s] = nx[c] /\ ny[c] = s /\ \A t \in S : t # c => ny[t] = nx[t]
  BY DEF Spliced
<1>4. ny \in [S \cup {s} -> S \cup {s}]
  BY DEF Spliced
<1> DEFINE v == [k \in 0 .. n + 1 |-> IF k = 0 THEN c ELSE IF k = 1 THEN s ELSE w[k - 1]]
<1>5. v[0] = c /\ v[1] = s /\ \A k \in 2 .. n + 1 : k - 1 \in 1 .. n /\ v[k] = w[k - 1]
  BY <1>0
<1>6. v \in [0 .. n + 1 -> S \cup {s}]
  BY <1>0, <1>1, <1>2
<1> HIDE DEF v
<1>7. v[n + 1] = c
  <2>1. n + 1 \in 2 .. n + 1
    BY <1>0
  <2> QED BY <1>0, <1>1, <1>5, <2>1
<1>8. ASSUME NEW k \in 0 .. n PROVE v[k + 1] = ny[v[k]]
  <2>1. CASE k = 0
    BY <1>3, <1>5, <2>1
  <2>2. CASE k = 1
    <3>1. k + 1 \in 2 .. n + 1 /\ (k + 1) - 1 = 1 /\ 0 \in 0 .. n - 1 /\ 0 + 1 = 1
      BY <1>0, <2>2
    <3>2. v[k + 1] = w[1] /\ w[1] = nx[w[0]]
      BY <1>1, <1>5, <3>1
    <3> QED BY <1>1, <1>3, <1>5, <2>2, <3>2
  <2>3. CASE k \in 2 .. n
    <3>1. /\ k + 1 \in 2 .. n + 1 /\ k \in 2 .. n + 1 /\ (k + 1) - 1 = k
          /\ k - 1 \in 0 .. n - 1 /\ (k - 1) + 1 = k /\ 0 \in 0 .. n - 1 /\ k - 1 # 0
      BY <1>0, <2>3
    <3>2. v[k + 1] = w[k] /\ v[k] = w[k - 1]
      BY <1>5, <3>1
    <3>3. w[k] = nx[w[k - 1]]
      BY <1>1, <3>1
    <3>4. w[k - 1] \in S /\ w[k - 1] # c
      <4>1. w[k - 1] = w[0] => k - 1 = 0
        BY <1>1, <3>1
      <4>2. k - 1 \in 0 .. n
        BY <1>0, <3>1
      <4> QED BY <1>1, <3>1, <4>1, <4>2
    <3> QED BY <1>3, <3>2, <3>3, <3>4
  <2>4. k = 0 \/ k = 1 \/ k \in 2 .. n
    BY <1>0
  <2> QED BY <2>1, <2>2, <2>3, <2>4
<1>9. ASSUME NEW x \in S \cup {s} PROVE \E k \in 0 .. n : v[k] = x
  <2>1. CASE x = s
    <3>1. 1 \in 0 .. n
      BY <1>0
    <3> QED BY <1>5, <2>1, <3>1
  <2>2. CASE x \in S
    <3>1. PICK k \in 0 .. n - 1 : w[k] = x
      BY <1>1, <2>2
    <3>2. CASE k = 0
      <4>1. 0 \in 0 .. n
        BY <1>0
      <4> QED BY <1>1, <1>5, <3>1, <3>2, <4>1
    <3>3. CASE k # 0
      <4>1. k + 1 \in 2 .. n + 1 /\ k + 1 \in 0 .. n /\ (k + 1) - 1 = k
        BY <1>0, <3>3
      <4> QED BY <1>5, <3>1, <4>1
    <3> QED BY <3>2, <3>3
  <2> QED BY <2>1, <2>2
<1>10. ASSUME NEW i \in 0 .. n, NEW k \in 0 .. n, v[i] = v[k] PROVE i = k
  <2>1. ASSUME NEW a \in 0 .. n, a # 1
        PROVE  \E b \in 0 .. n - 1 : v[a] = w[b] /\ b = IF a = 0 THEN 0 ELSE a - 1
    <3>1. CASE a = 0
      <4>1. 0 \in 0 .. n - 1
        BY <1>0
      <4> QED BY <1>1, <1>5, <3>1, <4>1
    <3>2. CASE a # 0
      <4>1. a \in 2 .. n + 1 /\ a - 1 \in 0 .. n - 1
        BY <1>0, <2>1, <3>2
      <4> QED BY <1>5, <3>2, <4>1
    <3> QED BY <3>1, <3>2
  <2>2. CASE i = 1 \/ k = 1
    <3>1. \A a \in 0 .. n : a # 1 => v[a] # s
      <4> SUFFICES ASSUME NEW a \in 0 .. n, a # 1 PROVE v[a] # s
        OBVIOUS
      <4>1. PICK b \in 0 .. n - 1 : v[a] = w[b]
        BY <2>1
      <4>2. b \in 0 .. n
        BY <1>0
      <4> QED BY <1>1, <1>2, <4>1, <4>2
    <3> QED BY <1>5, <1>10, <2>2, <3>1
  <2>3. CASE i # 1 /\ k # 1
    <3>1. PICK b \in 0 .. n - 1 : v[i] = w[b] /\ b = IF i = 0 THEN 0 ELSE i - 1
      BY <2>1, <2>3
    <3>2. PICK d \in 0 .. n - 1 : v[k] = w[d] /\ d = IF k = 0 THEN 0 ELSE k - 1
      BY <2>1, <2>3
    <3>3. b = d
      <4>1. w[b] = w[d]
        BY <1>10, <3>1, <3>2
      <4> QED BY <1>1, <4>1
    <3> QED BY <1>0, <2>3, <3>1, <3>2, <3>3
  <2> QED BY <2>2, <2>3
<1>11. Circle(v, n + 1, ny, S \cup {s}, c)
  BY <1>0, <1>4, <1>5, <1>6, <1>7, <1>8, <1>9, <1>10 DEF Circle
<1> QED BY <1>6, <1>11

\* A struct whose followers are freed is linked to the first that is not.
LEMMA UnlinkNext ==
    ASSUME NEW n \in Nat, NEW w, Circle(w, n, next, Tasks, g_current),
           NEW gone \in SUBSET Tasks
    PROVE  \A x, y \in 0 .. n :
             /\ x < y /\ w[x] \notin gone /\ w[y] \notin gone
             /\ \A k \in x + 1 .. y - 1 : w[k] \in gone
             => Unlink(gone)[w[x]] = w[y]
<1> SUFFICES ASSUME NEW p \in 0 .. n, NEW q \in 0 .. n, p < q, w[p] \notin gone, w[q] \notin gone,
                    \A k \in p + 1 .. q - 1 : w[k] \in gone
             PROVE  Unlink(gone)[w[p]] = w[q]
  OBVIOUS
<1> DEFINE m == q - (p + 1)
           N == Cardinality(gone)
           chain == Follow(next[w[p]], N)
           Stays == {k \in DOMAIN chain : chain[k] \notin gone}
<1>1. /\ next \in [Tasks -> Tasks] /\ w \in [0 .. n -> Tasks]
      /\ \A k \in 0 .. n - 1 : w[k + 1] = next[w[k]]
      /\ \A i, k \in 0 .. n - 1 : w[i] = w[k] => i = k
  BY DEF Circle
<1>2. m \in Nat /\ p \in 0 .. n - 1 /\ p + 1 \in 0 .. n
  OBVIOUS
<1>3. next[w[p]] = w[p + 1] /\ w[p] \in Tasks /\ w[p + 1] \in Tasks
  BY <1>1, <1>2
<1>4. N \in Nat /\ m <= N
  <2>1. IsFiniteSet(gone)
    BY CircleSize, FS_Subset
  <2>2. N \in Nat
    BY <2>1, FS_CardinalityType
  <2> DEFINE f == [k \in p + 1 .. q - 1 |-> w[k]]
  <2>3. f \in [p + 1 .. q - 1 -> gone]
    OBVIOUS
  <2>4. \A i, k \in p + 1 .. q - 1 : f[i] = f[k] => i = k
    <3>1. \A i \in p + 1 .. q - 1 : i \in 0 .. n - 1
      OBVIOUS
    <3> QED BY <1>1, <3>1
  <2> HIDE DEF f
  <2>5. f \in Injection(p + 1 .. q - 1, gone)
    BY <2>3, <2>4 DEF Injection, IsInjective
  <2>6. Cardinality(p + 1 .. q - 1) <= N
    BY <2>1, <2>5, FS_Injection
  <2>7. Cardinality(p + 1 .. q - 1) = m
    BY FS_Interval
  <2> QED BY <2>2, <2>6, <2>7
<1>5. DOMAIN chain = 0 .. N
  BY <1>1, <1>3, <1>4, FollowSteps
<1>6. ASSUME NEW k \in 0 .. m PROVE chain[k] = w[(p + 1) + k]
  <2>1. k \in Nat /\ k <= N /\ (p + 1) + k <= n
    BY <1>4
  <2> HIDE DEF N
  <2>2. \A M \in Nat, r \in 0 .. n, j \in Nat :
           j <= M /\ r + j <= n => Follow(w[r], M)[j] = w[r + j]
    BY FollowAlong
  <2>3. Follow(w[p + 1], N)[k] = w[(p + 1) + k]
    BY <1>2, <1>4, <2>1, <2>2
  <2> QED BY <1>3, <2>3
<1> HIDE DEF chain, N
<1>7. m \in Stays
  <2>1. m \in 0 .. N /\ m \in 0 .. m /\ (p + 1) + m = q
    BY <1>2, <1>4
  <2> QED BY <1>5, <1>6, <2>1
<1>8. \A k \in Stays : m <= k
  <2> SUFFICES ASSUME NEW k \in Stays, k < m PROVE FALSE
    <3>1. \A k \in Stays : k \in Nat
      BY <1>4, <1>5
    <3> QED BY <1>2, <3>1
  <2>1. k \in 0 .. N /\ chain[k] \notin gone
    BY <1>5
  <2>2. k \in 0 .. m /\ (p + 1) + k \in p + 1 .. q - 1
    BY <1>2, <1>4, <2>1
  <2> QED BY <1>6, <2>1, <2>2
<1>9. Stays \in SUBSET Nat
  BY <1>4, <1>5
<1> HIDE DEF Stays
<1>10. Min(Stays) = m
  <2>1. Min(Stays) \in Stays /\ \A k \in Stays : Min(Stays) <= k
    BY <1>7, <1>9, MinNat
  <2>2. Min(Stays) <= m /\ m <= Min(Stays) /\ Min(Stays) \in Nat
    BY <1>7, <1>8, <1>9, <2>1
  <2> QED BY <1>2, <2>2
<1>11. Unlink(gone)[w[p]] = chain[Min(Stays)]
  BY <1>3 DEF Unlink, chain, N, Stays
<1>12. chain[m] = w[q]
  BY <1>2, <1>6
<1> QED BY <1>10, <1>11, <1>12

\* Unlinking structs other than the first leaves a circle of the others.
LEMMA UnlinkCircle ==
    ASSUME NEW n \in Nat, NEW w, Circle(w, n, next, Tasks, g_current),
           NEW gone \in SUBSET Tasks, g_current \notin gone
    PROVE  \E l \in Nat : \E v \in [0 .. l -> Tasks \ gone] :
              Circle(v, l, Unlink(gone), Tasks \ gone, g_current)
<1>0. \A x, y \in 0 .. n :
          /\ x < y /\ w[x] \notin gone /\ w[y] \notin gone
          /\ \A k \in x + 1 .. y - 1 : w[k] \in gone
          => Unlink(gone)[w[x]] = w[y]
  BY UnlinkNext
<1> DEFINE K == {k \in 0 .. n : w[k] \notin gone}
<1>1. /\ w \in [0 .. n -> Tasks] /\ n # 0 /\ w[0] = g_current /\ w[n] = g_current
      /\ \A s \in Tasks : \E k \in 0 .. n - 1 : w[k] = s
      /\ \A i, k \in 0 .. n - 1 : w[i] = w[k] => i = k
  BY DEF Circle
<1>2. K \in SUBSET (0 .. n) /\ n \in K /\ 0 \in K
  BY <1>1
<1>3. PICK l \in Nat : \E e \in [0 .. l -> 0 .. n] :
              /\ \A i, j \in 0 .. l : i < j => e[i] < e[j]
              /\ \A k \in 0 .. n : k \in K <=> \E i \in 0 .. l : e[i] = k
              /\ e[l] = n
  <2> HIDE DEF K
  <2> QED BY <1>2, Listing
<1>4. PICK e \in [0 .. l -> 0 .. n] :
              /\ \A i, j \in 0 .. l : i < j => e[i] < e[j]
              /\ \A k \in 0 .. n : k \in K <=> \E i \in 0 .. l : e[i] = k
              /\ e[l] = n
  BY <1>3
<1>5. e[0] = 0
  <2>1. PICK i \in 0 .. l : e[i] = 0
    <3>1. 0 \in 0 .. n
      OBVIOUS
    <3> HIDE DEF K
    <3> QED BY <1>2, <1>4, <3>1
  <2>2. 0 < i => e[0] < e[i]
    BY <1>4
  <2>3. e[0] \in 0 .. n
    OBVIOUS
  <2> QED BY <2>1, <2>2, <2>3
<1>6. l # 0
  BY <1>1, <1>4, <1>5
<1>7. \A i \in 0 .. l : e[i] \in 0 .. n /\ w[e[i]] \in Tasks \ gone
  BY <1>1, <1>4
<1>8. \A i \in 0 .. l - 1 : e[i] \in 0 .. n - 1
  <2> SUFFICES ASSUME NEW i \in 0 .. l - 1 PROVE e[i] \in 0 .. n - 1
    OBVIOUS
  <2>1. e[i] < e[l] /\ e[i] \in 0 .. n
    BY <1>4
  <2> QED BY <1>4, <2>1
<1> DEFINE v == [i \in 0 .. l |-> w[e[i]]]
<1>9. v \in [0 .. l -> Tasks \ gone] /\ \A i \in 0 .. l : v[i] = w[e[i]]
  BY <1>7
<1> HIDE DEF v
<1>10. v[0] = g_current /\ v[l] = g_current
  BY <1>1, <1>4, <1>5, <1>9
<1>11. ASSUME NEW i \in 0 .. l - 1 PROVE v[i + 1] = Unlink(gone)[v[i]]
  <2>1. i \in 0 .. l /\ i + 1 \in 0 .. l /\ e[i] < e[i + 1]
    BY <1>4
  <2>2. ASSUME NEW k \in e[i] + 1 .. e[i + 1] - 1 PROVE w[k] \in gone
    <3>1. k \in 0 .. n /\ e[i] < k /\ k < e[i + 1] /\ e[i] \in 0 .. n /\ e[i + 1] \in 0 .. n
      BY <1>7, <2>1
    <3>2. ASSUME k \in K PROVE FALSE
      <4>1. PICK j \in 0 .. l : e[j] = k
        BY <1>4, <3>1, <3>2
      <4>2. CASE j <= i
        <5>1. e[j] < e[i] \/ j = i
          BY <1>4, <2>1, <4>2
        <5> QED BY <3>1, <4>1, <5>1
      <4>3. CASE j > i
        <5>1. e[i + 1] < e[j] \/ j = i + 1
          BY <1>4, <2>1, <4>3
        <5> QED BY <3>1, <4>1, <5>1
      <4> QED BY <4>2, <4>3
    <3> QED BY <3>1, <3>2
  <2>3. w[e[i]] \notin gone /\ w[e[i + 1]] \notin gone
    BY <1>7, <2>1
  <2>4. e[i] \in 0 .. n /\ e[i + 1] \in 0 .. n
    BY <1>7, <2>1
  <2>5. Unlink(gone)[w[e[i]]] = w[e[i + 1]]
    <3> DEFINE a == e[i]
               b == e[i + 1]
    <3>1. /\ a \in 0 .. n /\ b \in 0 .. n /\ a < b /\ w[a] \notin gone /\ w[b] \notin gone
          /\ \A k \in a + 1 .. b - 1 : w[k] \in gone
      BY <2>1, <2>2, <2>3, <2>4
    <3> HIDE DEF a, b
    <3>2. Unlink(gone)[w[a]] = w[b]
      BY <1>0, <3>1
    <3> QED BY <3>2 DEF a, b
  <2> QED BY <1>9, <2>1, <2>5
<1>12. ASSUME NEW s \in Tasks \ gone PROVE \E i \in 0 .. l - 1 : v[i] = s
  <2>1. PICK k \in 0 .. n - 1 : w[k] = s
    BY <1>1
  <2>2. k \in 0 .. n /\ k \in K
    BY <2>1
  <2>3. PICK i \in 0 .. l : e[i] = k
    <3> HIDE DEF K
    <3> QED BY <1>4, <2>2
  <2>4. i \in 0 .. l - 1
    BY <1>4, <2>3
  <2> QED BY <1>9, <2>1, <2>3, <2>4
<1>13. ASSUME NEW i \in 0 .. l - 1, NEW j \in 0 .. l - 1, v[i] = v[j] PROVE i = j
  <2>1. i \in 0 .. l /\ j \in 0 .. l
    OBVIOUS
  <2>2. w[e[i]] = w[e[j]]
    BY <1>9, <1>13, <2>1
  <2>3. e[i] = e[j]
    BY <1>1, <1>8, <2>2
  <2>4. (i < j => e[i] < e[j]) /\ (j < i => e[j] < e[i])
    BY <1>4, <2>1
  <2>5. e[i] \in Nat
    BY <1>7, <2>1
  <2> QED BY <2>3, <2>4, <2>5
<1>14. Unlink(gone) \in [Tasks \ gone -> Tasks \ gone]
  <2>1. ASSUME NEW t \in Tasks \ gone PROVE Unlink(gone)[t] \in Tasks \ gone
    <3>1. PICK i \in 0 .. l - 1 : v[i] = t
      BY <1>12
    <3>2. i + 1 \in 0 .. l
      OBVIOUS
    <3> QED BY <1>9, <1>11, <3>1, <3>2
  <2>2. Unlink(gone) = [t \in Tasks \ gone |-> Unlink(gone)[t]]
    BY DEF Unlink
  <2> QED BY <2>1, <2>2
<1>15. Circle(v, l, Unlink(gone), Tasks \ gone, g_current)
  BY <1>6, <1>9, <1>10, <1>11, <1>12, <1>13, <1>14 DEF Circle
<1> QED BY <1>9, <1>15

-----------------------------------------------------------------------------
(* schedule().                                                             *)

\* schedule() finds nothing else to run.
Stays(T) ==
    /\ task' = T /\ mode' \in {mode, "halted"}
    /\ UNCHANGED <<next, g_current, cr3, free>>

\* schedule() frees the structs in gone and switches to chosen.
Switches(T, gone, chosen) ==
    /\ task' = [t \in Tasks \ gone |->
                    CASE t = g_current -> SwitchedOut(T)
                      [] t = chosen -> [T[t] EXCEPT !.state = "RUNNING"]
                      [] OTHER -> T[t]]
    /\ next' = Unlink(gone)
    /\ g_current' = chosen
    /\ cr3' = IF T[chosen].cr3 = "none" THEN "kernel" ELSE T[chosen].cr3
    /\ free' = free + FreedFrames(Cardinality(gone))
    /\ mode' = CASE T[chosen].saved = "wild" -> "crashed"
                 [] T[chosen].saved = "idle" -> "halted"
                 [] OTHER -> mode

\* The search of schedule() ends on the ring, and its clean-up frees neither the
\* outgoing nor the incoming task.
LEMMA ScheduleChoice ==
    ASSUME Ring, NEW T, Schedule(T)
    PROVE  \/ Stays(T)
           \/ \E gone \in SUBSET (Tasks \ {g_current}) :
                 /\ \A t \in gone : T[t].state = "TERMINATED"
                 /\ \E chosen \in Tasks \ gone : chosen # g_current /\ Switches(T, gone, chosen)
<1>1. PICK n \in Nat : \E w \in [0 .. n -> Tasks] : Circle(w, n, next, Tasks, g_current)
  BY DEF Ring
<1>2. PICK w \in [0 .. n -> Tasks] : Circle(w, n, next, Tasks, g_current)
  BY <1>1
<1>3. Cardinality(Tasks) = n /\ \A k \in 0 .. n : Walk[k] = w[k]
  BY <1>2, WalkAround
<1>4. /\ n # 0 /\ w[0] = g_current /\ w[n] = g_current
      /\ \A i, j \in 0 .. n - 1 : w[i] = w[j] => i = j
  BY <1>2 DEF Circle
<1> DEFINE Found == {k \in 1 .. Cardinality(Tasks) : Walk[k] = g_current \/ Runnable(T, Walk[k])}
           first == NextIndex(T)
           chosen == Walk[first]
           gone == Reaped(T)
<1>5. first \in Found
  <2>1. n \in 1 .. n /\ n \in 0 .. n
    BY <1>4
  <2>2. Walk[n] = g_current
    BY <1>3, <1>4, <2>1
  <2>3. n \in Found
    BY <1>3, <2>1, <2>2
  <2>4. Found \in SUBSET Nat
    BY <1>3
  <2> HIDE DEF Found
  <2>5. Min(Found) \in Found
    BY <2>3, <2>4, MinNat
  <2>6. first = Min(Found)
    BY DEF NextIndex, Found
  <2> QED BY <2>5, <2>6
<1>6. first \in 1 .. n /\ (chosen = g_current \/ Runnable(T, chosen))
  BY <1>3, <1>5
<1>7. first \in 0 .. n /\ chosen \in Tasks
  <2>1. first \in 0 .. n
    BY <1>6
  <2> HIDE DEF first
  <2> QED BY <1>3, <2>1
<1>8. ASSUME NEW t \in gone
      PROVE  t \in Tasks /\ t # g_current /\ T[t].state = "TERMINATED"
  <2>1. PICK j \in first .. n - 1 : Walk[j] = t /\ T[t].state = "TERMINATED"
    BY <1>3, <1>8 DEF Reaped
  <2>2. j \in 0 .. n - 1 /\ j \in 0 .. n /\ j # 0 /\ 0 \in 0 .. n - 1
    BY <1>6, <2>1
  <2>3. w[j] = t
    BY <1>3, <2>1, <2>2
  <2>4. w[j] # w[0]
    BY <1>4, <2>2
  <2> QED BY <1>4, <2>1, <2>2, <2>3, <2>4
<1>9. CASE chosen = g_current
  BY <1>9 DEF Schedule, Stays
<1>10. CASE chosen # g_current
  <2>1. Switches(T, gone, chosen)
    BY <1>10 DEF Schedule, Switches
  <2>2. chosen \notin gone
    BY <1>6, <1>8, <1>10 DEF Runnable
  <2>3. gone \in SUBSET (Tasks \ {g_current}) /\ \A t \in gone : T[t].state = "TERMINATED"
    BY <1>8
  <2> HIDE DEF gone, chosen
  <2> QED BY <1>7, <1>10, <2>1, <2>2, <2>3
<1> QED BY <1>9, <1>10

-----------------------------------------------------------------------------
(* The ring, the frames and the types.                                     *)

Typed ==
    /\ Tasks \subseteq Slot /\ task \in [Tasks -> TaskRecord]
    /\ g_next_pid \in 2 .. KernelTasks + 2
    /\ mode \in {"boot", "shell", "halted", "crashed"} \cup Programs
    /\ cr3 \in {"kernel", "clone"} \cup Programs
    /\ free \in Nat /\ spent \in Nat

\* Only task 1 creates tasks, so their ppid is 1 and they never get its slot.
ShellFirst ==
    /\ mode = "boot" => g_current = Shell
    /\ Shell \in Tasks => task[Shell].pid = 1

TaskInv == Typed /\ Ring /\ FramesAccounted /\ ShellFirst

\* A ring is finite, not empty and holds the current task.
LEMMA RingFinite ==
    ASSUME Ring
    PROVE  /\ IsFiniteSet(Tasks) /\ Cardinality(Tasks) \in Nat \ {0} /\ g_current \in Tasks
           /\ next \in [Tasks -> Tasks]
<1>1. PICK n \in Nat : \E w \in [0 .. n -> Tasks] : Circle(w, n, next, Tasks, g_current)
  BY DEF Ring
<1>2. PICK w \in [0 .. n -> Tasks] : Circle(w, n, next, Tasks, g_current)
  BY <1>1
<1>3. IsFiniteSet(Tasks) /\ Cardinality(Tasks) = n
  BY <1>2, CircleSize
<1> QED BY <1>2, <1>3 DEF Circle

\* Unlinking structs and moving g_current to one that stays keeps the ring.
LEMMA RingUnlink ==
    ASSUME Ring, NEW gone \in SUBSET (Tasks \ {g_current}),
           Tasks' = Tasks \ gone, next' = Unlink(gone), g_current' \in Tasks \ gone
    PROVE  Ring'
<1>1. PICK n \in Nat : \E w \in [0 .. n -> Tasks] : Circle(w, n, next, Tasks, g_current)
  BY DEF Ring
<1>2. PICK w \in [0 .. n -> Tasks] : Circle(w, n, next, Tasks, g_current)
  BY <1>1
<1>3. gone \in SUBSET Tasks /\ g_current \notin gone
  OBVIOUS
<1>4. PICK l \in Nat : \E v \in [0 .. l -> Tasks \ gone] :
          Circle(v, l, Unlink(gone), Tasks \ gone, g_current)
  BY <1>2, <1>3, UnlinkCircle
<1>5. PICK v \in [0 .. l -> Tasks \ gone] :
          Circle(v, l, Unlink(gone), Tasks \ gone, g_current)
  BY <1>4
<1>6. \E u \in [0 .. l -> Tasks \ gone] : Circle(u, l, Unlink(gone), Tasks \ gone, g_current')
  <2> DEFINE S == Tasks \ gone
             ny == Unlink(gone)
  <2>1. Circle(v, l, ny, S, g_current) /\ g_current' \in S
    BY <1>5
  <2> HIDE DEF S, ny
  <2>2. \A d \in S : \E u \in [0 .. l -> S] : Circle(u, l, ny, S, d)
    BY <2>1, Rotate
  <2>3. \E u \in [0 .. l -> S] : Circle(u, l, ny, S, g_current')
    BY <2>1, <2>2
  <2> QED BY <2>3 DEF S, ny
<1>7. \E u \in [0 .. l -> Tasks'] : Circle(u, l, next', Tasks', g_current')
  BY <1>6
<1> QED BY <1>7 DEF Ring, Circle

\* A new struct behind the current one keeps the ring.
LEMMA RingInsert ==
    ASSUME Ring, NEW s, s \notin Tasks, NEW rec, InsertAfterCurrent(s, rec),
           g_current' = g_current
    PROVE  Ring' /\ Tasks' = Tasks \cup {s}
<1>1. PICK n \in Nat : \E w \in [0 .. n -> Tasks] : Circle(w, n, next, Tasks, g_current)
  BY DEF Ring
<1>2. PICK w \in [0 .. n -> Tasks] : Circle(w, n, next, Tasks, g_current)
  BY <1>1
<1>3. Tasks' = Tasks \cup {s}
  BY DEF InsertAfterCurrent, Tasks
<1> DEFINE ny == [t \in Tasks \cup {s} |-> CASE t = s -> next[g_current]
                                             [] t = g_current -> s
                                             [] OTHER -> next[t]]
<1>4. next' = ny
  BY DEF InsertAfterCurrent
<1>5. \E v \in [0 .. n + 1 -> Tasks \cup {s}] : Circle(v, n + 1, ny, Tasks \cup {s}, g_current)
  <2>1. next \in [Tasks -> Tasks] /\ g_current \in Tasks
    BY <1>2 DEF Circle
  <2>2. ny \in [Tasks \cup {s} -> Tasks \cup {s}]
    BY <2>1
  <2>3. ny[s] = next[g_current] /\ ny[g_current] = s /\ \A t \in Tasks : t # g_current => ny[t] = next[t]
    BY <2>1
  <2> HIDE DEF ny
  <2>4. Spliced(ny, next, Tasks, g_current, s)
    BY <2>2, <2>3 DEF Spliced
  <2> QED BY <1>2, <2>4, Insert
<1> HIDE DEF ny
<1>6. n + 1 \in Nat /\ \E v \in [0 .. n + 1 -> Tasks'] : Circle(v, n + 1, next', Tasks', g_current')
  BY <1>3, <1>4, <1>5
<1> QED BY <1>3, <1>6 DEF Ring, Circle

\* Changing fields of structs keeps the ring.
LEMMA RingSame ==
    ASSUME Ring, Tasks' = Tasks, next' = next, g_current' = g_current
    PROVE  Ring'
<1>1. \E n \in Nat : \E w \in [0 .. n -> Tasks'] : Circle(w, n, next', Tasks', g_current')
  BY DEF Ring
<1> QED BY <1>1 DEF Ring, Circle

\* Freed structs give back two frames each.
LEMMA FramesUnlink ==
    ASSUME Ring, FramesAccounted, free \in Nat, spent \in Nat, NEW gone \in SUBSET Tasks,
           Tasks' = Tasks \ gone, free' = free + FreedFrames(Cardinality(gone)), spent' = spent
    PROVE  FramesAccounted' /\ free' \in Nat
<1>1. IsFiniteSet(Tasks) /\ Cardinality(Tasks) \in Nat
  BY RingFinite
<1>2. IsFiniteSet(gone) /\ Cardinality(gone) \in Nat
  BY <1>1, FS_Subset, FS_CardinalityType
<1>3. Tasks \cap gone = gone
  OBVIOUS
<1>4. Cardinality(Tasks') = Cardinality(Tasks) - Cardinality(gone)
  BY <1>1, <1>3, FS_Difference
<1>5. free' = free + 2 * Cardinality(gone)
  BY DEF FreedFrames
<1>6. free' + spent' + 2 * (Cardinality(Tasks') - 1) = free + spent + 2 * (Cardinality(Tasks) - 1)
  BY <1>1, <1>2, <1>4, <1>5
<1> QED BY <1>2, <1>5, <1>6 DEF FramesAccounted

\* With the frames for another task free there is a slot for its struct.
LEMMA FreshSlotFree ==
    ASSUME TaskInv, free >= 2
    PROVE  FreshSlot \in Slot /\ FreshSlot \notin Tasks
<1> DEFINE M == Max(Frames)
           c == Cardinality(Tasks)
<1>1. M \in Frames /\ \A f \in Frames : f <= M
  <2>1. PICK m \in Frames : \A f \in Frames : f <= m
    BY SchedulerSizes
  <2>2. \A f \in Frames : m >= f
    BY <2>1, SchedulerSizes
  <2>3. M \in Frames /\ \A f \in Frames : M >= f
    BY <2>2 DEF Max
  <2> HIDE DEF M
  <2> QED BY <2>3, SchedulerSizes
<1>2. M \in Nat
  BY <1>1, SchedulerSizes
<1> HIDE DEF M
<1>3. free \in Nat /\ spent \in Nat /\ c \in Nat /\ free + spent + 2 * (c - 1) <= M
  BY <1>1, RingFinite DEF TaskInv, Typed, FramesAccounted
<1>4. MaxSlots = 1 + (M \div 2) /\ M \div 2 \in Nat /\ 2 * (M \div 2) + 2 > M
  BY <1>2 DEF MaxSlots, M
<1>5. c < MaxSlots /\ MaxSlots \in Nat
  BY <1>2, <1>3, <1>4
<1>6. Cardinality(Slot) = MaxSlots
  BY <1>5, FS_Interval DEF Slot
<1>7. Slot # Tasks /\ Tasks \subseteq Slot
  BY <1>5, <1>6 DEF TaskInv, Typed
<1>8. \E s \in Slot : s \notin Tasks
  BY <1>7
<1> QED BY <1>8 DEF FreshSlot

\* A task's share of the tick changes nothing but state, signals and wake time.
LEMMA TickTaskType ==
    ASSUME NEW rec \in TaskRecord
    PROVE  /\ TickTask(rec) \in TaskRecord
           /\ TickTask(rec).pid = rec.pid
           /\ TickTask(rec).cr3 = rec.cr3 /\ TickTask(rec).saved = rec.saved
<1> DEFINE left == IF rec.wake = 0 THEN 0 ELSE rec.wake - 1
           state == IF rec.state = "SLEEPING" /\ left = 0 THEN "READY" ELSE rec.state
           awake == [rec EXCEPT !.wake = left, !.state = state]
           pending == {s \in rec.pending : s > Min(Fatal(awake))}
<1>1. left \in 0 .. MaxSleep /\ state \in {"READY", "RUNNING", "TERMINATED", "SLEEPING"}
  BY SchedulerSizes DEF TaskRecord
<1>2. pending \in SUBSET Signals
  BY DEF TaskRecord
<1>3. \/ TickTask(rec) = awake
      \/ TickTask(rec) = [awake EXCEPT !.pending = {}]
      \/ TickTask(rec) = [awake EXCEPT !.state = "TERMINATED", !.pending = pending]
  <2>1. awake.pending = rec.pending
    BY DEF TaskRecord
  <2> QED BY <2>1 DEF TickTask
<1> HIDE DEF left, state, pending
<1>4. /\ awake \in TaskRecord /\ awake.pid = rec.pid
      /\ awake.cr3 = rec.cr3 /\ awake.saved = rec.saved
  BY <1>1 DEF TaskRecord
<1> HIDE DEF awake
<1> QED BY <1>2, <1>3, <1>4 DEF TaskRecord

\* What schedule() writes into the struct of the outgoing task.
LEMMA SwitchedOutType ==
    ASSUME TaskInv, NEW T \in [Tasks -> TaskRecord]
    PROVE  /\ SwitchedOut(T) \in TaskRecord
           /\ SwitchedOut(T).pid = T[g_current].pid
           /\ SwitchedOut(T).state = "READY" /\ SwitchedOut(T).cr3 = cr3
           /\ SwitchedOut(T).saved \in {"foreign", T[g_current].saved}
<1>1. g_current \in Tasks /\ cr3 \in {"kernel", "clone"} \cup Programs
  BY RingFinite DEF TaskInv, Typed
<1>2. T[g_current] \in TaskRecord
  BY <1>1
<1> DEFINE rec == T[g_current]
           out == Preempted(rec)
<1> HIDE DEF rec
<1>3. /\ out \in TaskRecord /\ out.pid = rec.pid /\ out.state = "READY"
      /\ out.cr3 = cr3 /\ out.saved = "foreign"
  BY <1>1, <1>2 DEF Preempted, TaskRecord, rec
<1>4. SwitchedOut(T) = out \/ SwitchedOut(T) = [out EXCEPT !.saved = rec.saved]
  BY DEF SwitchedOut, rec
<1> HIDE DEF out
<1>5. rec.saved \in {"own", "foreign", "idle", "wild"}
  BY <1>2 DEF rec, TaskRecord
<1>6. /\ SwitchedOut(T) \in TaskRecord
      /\ SwitchedOut(T).pid = rec.pid
      /\ SwitchedOut(T).state = "READY" /\ SwitchedOut(T).cr3 = cr3
      /\ SwitchedOut(T).saved \in {"foreign", rec.saved}
  BY <1>3, <1>4, <1>5 DEF TaskRecord
<1> QED BY <1>6 DEF rec

\* schedule() keeps the ring, the frames and the types.
LEMMA ScheduleKeeps ==
    ASSUME TaskInv, Running, NEW T \in [Tasks -> TaskRecord],
           \A t \in Tasks : T[t].pid = task[t].pid,
           Schedule(T), UNCHANGED <<g_next_pid, spent>>
    PROVE  TaskInv'
<1>1. CASE Stays(T)
  <2>1. Tasks' = Tasks
    BY <1>1 DEF Stays, Tasks
  <2>2. Typed'
    BY <1>1, <2>1 DEF Stays, TaskInv, Typed
  <2>3. Ring'
    BY <1>1, <2>1, RingSame DEF Stays, TaskInv
  <2>4. FramesAccounted'
    BY <1>1, <2>1 DEF Stays, TaskInv, FramesAccounted
  <2>5. ShellFirst'
    BY <1>1, <2>1 DEF Stays, TaskInv, ShellFirst, Running
  <2> QED BY <2>2, <2>3, <2>4, <2>5 DEF TaskInv
<1>2. ASSUME NEW gone \in SUBSET (Tasks \ {g_current}), NEW chosen \in Tasks \ gone,
             chosen # g_current, Switches(T, gone, chosen)
      PROVE  TaskInv'
  <2>1. Tasks' = Tasks \ gone
    BY <1>2 DEF Switches, Tasks
  <2>2. Ring'
    BY <1>2, <2>1, RingUnlink DEF Switches, TaskInv
  <2>3. FramesAccounted' /\ free' \in Nat
    BY <1>2, <2>1, FramesUnlink DEF Switches, TaskInv, Typed
  <2> DEFINE in == [T[chosen] EXCEPT !.state = "RUNNING"]
  <2>4. in \in TaskRecord /\ in.pid = T[chosen].pid
    <3>1. T[chosen] \in TaskRecord
      OBVIOUS
    <3> QED BY <3>1 DEF TaskRecord
  <2>5. /\ \A t \in Tasks' : task'[t] = CASE t = g_current -> SwitchedOut(T)
                                          [] t = chosen -> in
                                          [] OTHER -> T[t]
        /\ task' = [t \in Tasks' |-> task'[t]]
    BY <1>2, <2>1 DEF Switches
  <2> HIDE DEF in
  <2>6. \A t \in Tasks' : task'[t] \in TaskRecord /\ task'[t].pid = T[t].pid
    BY <2>1, <2>4, <2>5, SwitchedOutType
  <2>7. task' \in [Tasks' -> TaskRecord]
    BY <2>5, <2>6
  <2>8. cr3' \in {"kernel", "clone"} \cup Programs /\ mode' \in {mode, "crashed", "halted"}
    <3>1. T[chosen] \in TaskRecord
      OBVIOUS
    <3>2. T[chosen].cr3 \in {"none", "kernel", "clone"} \cup Programs
      BY <3>1 DEF TaskRecord
    <3> QED BY <1>2, <3>2 DEF Switches
  <2>9. Typed'
    BY <2>1, <2>3, <2>7, <2>8 DEF TaskInv, Typed
  <2>10. ShellFirst'
    BY <2>1, <2>6, <2>8 DEF TaskInv, ShellFirst, Running, Programs
  <2> QED BY <2>2, <2>3, <2>9, <2>10 DEF TaskInv
<1> QED BY <1>1, <1>2, ScheduleChoice DEF TaskInv

\* Two frames less for one struct more.
LEMMA TwoFramesMore ==
    ASSUME NEW f \in Nat, NEW s \in Nat, NEW g \in Nat, NEW u \in Nat, NEW c \in Nat, NEW d,
           g + u = f + s - 2, d = c + 1, f + s + 2 * (c - 1) \in Frames
    PROVE  g + u + 2 * (d - 1) \in Frames
<1>1. g + u + 2 * ((c + 1) - 1) = f + s + 2 * (c - 1)
  OBVIOUS
<1> QED BY <1>1

\* Creating a task, by task_create or fork, takes two frames for it.
LEMMA CreateKeeps ==
    ASSUME TaskInv, g_current = Shell, free >= 2, NEW rec \in TaskRecord,
           InsertAfterCurrent(FreshSlot, rec), g_current' = g_current,
           mode' = mode, cr3' = cr3, free' \in Nat, spent' \in Nat,
           free' + spent' = free + spent - 2,
           g_next_pid' \in 2 .. KernelTasks + 2
    PROVE  TaskInv'
<1> DEFINE s == FreshSlot
<1>1. s \in Slot /\ s \notin Tasks
  BY FreshSlotFree
<1> HIDE DEF s
<1>2. InsertAfterCurrent(s, rec)
  BY DEF s
<1>3. Ring' /\ Tasks' = Tasks \cup {s}
  BY <1>1, <1>2, RingInsert DEF TaskInv
<1>4. /\ \A t \in Tasks' : task'[t] = IF t = s THEN rec ELSE task[t]
      /\ task' = [t \in Tasks' |-> task'[t]]
  BY <1>2, <1>3 DEF InsertAfterCurrent
<1>5. task' \in [Tasks' -> TaskRecord]
  BY <1>3, <1>4 DEF TaskInv, Typed
<1>6. Typed'
  BY <1>1, <1>3, <1>5 DEF TaskInv, Typed
<1>7. FramesAccounted'
  <2>1. IsFiniteSet(Tasks) /\ Cardinality(Tasks) \in Nat
    BY RingFinite DEF TaskInv
  <2>2. Cardinality(Tasks') = Cardinality(Tasks) + 1
    BY <1>1, <1>3, <2>1, FS_AddElement
  <2>3. free \in Nat /\ spent \in Nat
    BY DEF TaskInv, Typed
  <2> DEFINE c == Cardinality(Tasks)
             d == Cardinality(Tasks')
  <2>4. free + spent + 2 * (c - 1) \in Frames
    BY DEF TaskInv, FramesAccounted
  <2>5. c \in Nat /\ d = c + 1
    BY <2>1, <2>2
  <2> HIDE DEF c, d
  <2>6. free' + spent' + 2 * (d - 1) \in Frames
    BY <2>3, <2>4, <2>5, TwoFramesMore
  <2> QED BY <2>6 DEF FramesAccounted, d
<1>8. ShellFirst'
  <2>1. Shell \in Tasks
    BY RingFinite DEF TaskInv
  <2> QED BY <1>1, <1>3, <1>4, <2>1 DEF TaskInv, ShellFirst
<1> QED BY <1>3, <1>6, <1>7, <1>8 DEF TaskInv

\* A step that only moves frames to spent, and mode or page tables, keeps it.
LEMMA SpendKeeps ==
    ASSUME TaskInv, UNCHANGED <<task, next, g_current, g_next_pid>>,
           mode' \in {mode, "shell"} \cup Programs, cr3' \in {"kernel", cr3} \cup Programs,
           free' \in Nat, spent' \in Nat, free' + spent' = free + spent
    PROVE  TaskInv'
<1>1. Tasks' = Tasks
  BY DEF Tasks
<1>2. Ring'
  BY <1>1, RingSame DEF TaskInv
<1>3. Typed'
  BY <1>1 DEF TaskInv, Typed
<1>4. FramesAccounted'
  BY <1>1 DEF TaskInv, FramesAccounted
<1>5. ShellFirst'
  BY <1>1 DEF TaskInv, ShellFirst, Programs
<1> QED BY <1>2, <1>3, <1>4, <1>5 DEF TaskInv

\* A program that is replaced has other page tables than the one that replaces it.
LEMMA OtherTables == Replacement \in Programs
<1>1. \E p \in Programs : p # mode
  BY DEF Programs
<1> QED BY <1>1 DEF Replacement

\* A system call that changes one struct, and neither its pid nor the frames.
LEMMA FieldKeeps ==
    ASSUME TaskInv, NEW t \in Tasks, NEW rec \in TaskRecord, rec.pid = task[t].pid,
           task' = [task EXCEPT ![t] = rec], UNCHANGED <<next, g_current, g_next_pid, free, spent>>,
           mode' \in {mode, "shell"}, cr3' \in {cr3, "kernel"}
    PROVE  TaskInv'
<1>1. task \in [Tasks -> TaskRecord]
  BY DEF TaskInv, Typed
<1>2. Tasks' = Tasks
  BY DEF Tasks
<1>3. Ring'
  BY <1>2, RingSame DEF TaskInv
<1>4. task' \in [Tasks -> TaskRecord] /\ \A u \in Tasks : task'[u].pid = task[u].pid
  BY <1>1
<1>5. Typed'
  BY <1>2, <1>4 DEF TaskInv, Typed
<1>6. FramesAccounted'
  BY <1>2 DEF TaskInv, FramesAccounted
<1>7. ShellFirst'
  BY <1>2, <1>4 DEF TaskInv, ShellFirst
<1> QED BY <1>3, <1>5, <1>6, <1>7 DEF TaskInv

\* The boot thread becomes the only task.
LEMMA TaskInit == Init => TaskInv
<1> SUFFICES ASSUME Init PROVE TaskInv
  OBVIOUS
<1> DEFINE rec == [NewTask(1, 0) EXCEPT !.state = "RUNNING"]
<1>1. rec \in TaskRecord /\ rec.pid = 1
  BY SchedulerSizes DEF NewTask, TaskRecord
<1>2. task = [t \in {Shell} |-> rec]
  BY DEF Init
<1> HIDE DEF rec
<1>3. Tasks = {Shell} /\ task \in [Tasks -> TaskRecord] /\ task[Shell].pid = 1
  BY <1>1, <1>2 DEF Tasks
<1>4. Shell \in Slot
  <2>1. PICK m \in Frames : \A f \in Frames : f <= m
    BY SchedulerSizes
  <2>2. \A f \in Frames : m >= f
    BY <2>1, SchedulerSizes
  <2>3. Max(Frames) \in Frames
    BY <2>2 DEF Max
  <2>4. Max(Frames) \in Nat
    BY <2>3, SchedulerSizes
  <2> QED BY <2>4 DEF Shell, Slot, MaxSlots
<1>5. Typed
  BY <1>3, <1>4, SchedulerSizes DEF Init, Typed
<1>6. Ring
  <2> DEFINE w == [k \in 0 .. 1 |-> Shell]
  <2>1. Circle(w, 1, next, Tasks, g_current)
    BY <1>3 DEF Init, Circle
  <2>2. w \in [0 .. 1 -> Tasks]
    BY <1>3
  <2> HIDE DEF w
  <2> QED BY <2>1, <2>2 DEF Ring
<1>7. FramesAccounted
  <2>1. Cardinality(Tasks) = 1
    BY <1>3, FS_Singleton
  <2> QED BY <2>1, SchedulerSizes DEF Init, FramesAccounted
<1> QED BY <1>3, <1>5, <1>6, <1>7 DEF Init, TaskInv, ShellFirst

\* kernel_main creates a task, or runs out of frames.
LEMMA TaskCreateKeeps == TaskInv /\ task_create => TaskInv'
<1> SUFFICES ASSUME TaskInv, task_create PROVE TaskInv'
  OBVIOUS
<1>1. g_current = Shell /\ g_current \in Tasks /\ task[g_current].pid = 1
  BY RingFinite DEF TaskInv, ShellFirst, task_create
<1>2. free \in Nat /\ spent \in Nat /\ g_next_pid \in 2 .. KernelTasks + 2
  BY DEF TaskInv, Typed
<1>3. CASE free >= 2
  <2> DEFINE rec == NewTask(g_next_pid, task[g_current].pid)
  <2>1. rec \in TaskRecord
    BY <1>1, <1>2, SchedulerSizes DEF task_create, NewTask, TaskRecord
  <2>2. InsertAfterCurrent(FreshSlot, rec)
    BY <1>3 DEF task_create
  <2> HIDE DEF rec
  <2>3. /\ g_current' = g_current /\ mode' = mode /\ cr3' = cr3
        /\ free' = free - 2 /\ spent' = spent /\ g_next_pid' = g_next_pid + 1
        /\ g_next_pid <= KernelTasks + 1
    BY <1>3 DEF task_create
  <2>4. /\ free' \in Nat /\ spent' \in Nat /\ free' + spent' = free + spent - 2
        /\ g_next_pid' \in 2 .. KernelTasks + 2
    BY <1>2, <1>3, <2>3, SchedulerSizes
  <2> QED BY <1>1, <1>3, <2>1, <2>2, <2>3, <2>4, CreateKeeps
<1>4. CASE ~(free >= 2)
  <2>1. /\ UNCHANGED <<task, next, g_current, g_next_pid>> /\ mode' = "shell" /\ cr3' = cr3
        /\ free' = 0 /\ spent' = spent + free
    BY <1>4 DEF task_create
  <2> QED BY <1>2, <2>1, SpendKeeps
<1> QED BY <1>3, <1>4

\* elf_load moves frames from free to spent.
LEMMA LoadSpends ==
    ASSUME TaskInv, elf_load
    PROVE  free' \in Nat /\ spent' \in Nat /\ free' + spent' = free + spent
<1>1. free \in Nat /\ spent \in Nat
  BY DEF TaskInv, Typed
<1>2. free' \in Nat /\ free' <= free
  BY <1>1, SchedulerSizes DEF elf_load, Loads
<1>3. spent' = spent + (free - free')
  BY DEF elf_load
<1>4. \A f, g, s \in Nat : g <= f => s + (f - g) \in Nat /\ g + (s + (f - g)) = f + s
  OBVIOUS
<1>5. spent + (free - free') \in Nat /\ free' + (spent + (free - free')) = free + spent
  BY <1>1, <1>2, <1>4
<1> QED BY <1>2, <1>3, <1>5

\* The child of a fork, or the page tables lost when it fails.
LEMMA ForkKeeps == TaskInv /\ sys_fork => TaskInv'
<1> SUFFICES ASSUME TaskInv, sys_fork PROVE TaskInv'
  OBVIOUS
<1>1. g_current = Shell /\ Shell \in Tasks /\ task[Shell].pid = 1 /\ task[Shell] \in TaskRecord
  BY RingFinite DEF TaskInv, ShellFirst, sys_fork, InProgram, Typed
<1>2. free \in Nat /\ spent \in Nat /\ g_next_pid \in 2 .. KernelTasks + 2
  BY DEF TaskInv, Typed
<1>3. CASE ForkSucceeds
  <2> DEFINE rec == [task[Shell] EXCEPT
                        !.pid = 0, !.ppid = task[Shell].pid, !.cr3 = "clone",
                        !.saved = IF @ = "own" THEN "idle" ELSE "wild"]
  <2>1. rec \in TaskRecord
    <3> DEFINE r == task[Shell]
               saved == IF r.saved = "own" THEN "idle" ELSE "wild"
    <3>1. /\ r \in TaskRecord /\ r.pid = 1 /\ saved \in {"own", "foreign", "idle", "wild"}
          /\ 0 \in 0 .. KernelTasks + 1 /\ 1 \in 0 .. 1
      BY <1>1, SchedulerSizes
    <3>2. rec = [r EXCEPT !.pid = 0, !.ppid = 1, !.cr3 = "clone", !.saved = saved]
      BY <3>1
    <3> HIDE DEF r, saved, rec
    <3> QED BY <3>1, <3>2 DEF TaskRecord
  <2>2. InsertAfterCurrent(FreshSlot, rec)
    BY <1>3 DEF sys_fork
  <2> HIDE DEF rec
  <2>3. /\ g_current' = g_current /\ mode' = mode /\ cr3' = cr3 /\ g_next_pid' = g_next_pid
        /\ free >= 3 /\ free' = free - 3 /\ spent' = spent + 1
    BY <1>2, <1>3 DEF sys_fork, ForkSucceeds
  <2>4. /\ free >= 2 /\ free' \in Nat /\ spent' \in Nat /\ free' + spent' = free + spent - 2
        /\ g_next_pid' \in 2 .. KernelTasks + 2
    BY <1>2, <2>3
  <2> QED BY <1>1, <2>1, <2>2, <2>3, <2>4, CreateKeeps
<1>4. CASE ~ForkSucceeds
  <2>1. UNCHANGED <<task, next, g_current, g_next_pid, mode, cr3>>
    BY <1>4 DEF sys_fork
  <2>2. /\ free' = IF free = 0 THEN 0 ELSE free - 1
        /\ spent' = IF free = 0 THEN spent ELSE spent + 1
    BY <1>4 DEF sys_fork
  <2>3. free' \in Nat /\ spent' \in Nat /\ free' + spent' = free + spent
    BY <1>2, <2>2
  <2> QED BY <2>1, <2>3, SpendKeeps
<1> QED BY <1>3, <1>4

\* wait destroys one terminated child, which is another task than the caller.
LEMMA WaitChild ==
    ASSUME Ring, sys_wait
    PROVE  \E child \in Tasks \ {g_current} :
              /\ task[child].state = "TERMINATED"
              /\ next' = Unlink({child}) /\ task' = [t \in Tasks \ {child} |-> task[t]]
              /\ free' = free + FreedFrames(1)
<1>1. PICK n \in Nat : \E w \in [0 .. n -> Tasks] : Circle(w, n, next, Tasks, g_current)
  BY DEF Ring
<1>2. PICK w \in [0 .. n -> Tasks] : Circle(w, n, next, Tasks, g_current)
  BY <1>1
<1>3. Cardinality(Tasks) = n /\ \A k \in 0 .. n : Walk[k] = w[k]
  BY <1>2, WalkAround
<1>4. n # 0 /\ w[0] = g_current /\ \A i, j \in 0 .. n - 1 : w[i] = w[j] => i = j
  BY <1>2 DEF Circle
<1> DEFINE dead == {k \in 1 .. Cardinality(Tasks) - 1 :
                      /\ task[Walk[k]].ppid = task[Shell].pid
                      /\ task[Walk[k]].state = "TERMINATED"}
           k == Min(dead)
           child == Walk[k]
<1>5. /\ dead # {} /\ next' = Unlink({child}) /\ task' = [t \in Tasks \ {child} |-> task[t]]
      /\ free' = free + FreedFrames(1)
  BY DEF sys_wait
<1>6. k \in dead
  <2>1. dead \in SUBSET Nat
    BY <1>3
  <2> HIDE DEF dead
  <2> QED BY <1>5, <2>1, MinNat
<1>7. k \in 1 .. n - 1 /\ task[child].state = "TERMINATED"
  BY <1>3, <1>6
<1> HIDE DEF k, dead
<1>8. k \in 0 .. n /\ k \in 0 .. n - 1 /\ k # 0 /\ 0 \in 0 .. n - 1
  BY <1>7
<1>9. child = w[k] /\ w[k] # w[0]
  BY <1>3, <1>4, <1>8
<1>10. child \in Tasks \ {g_current}
  BY <1>4, <1>8, <1>9
<1> QED BY <1>5, <1>7, <1>10

\* So wait keeps the ring, the frames and the types.
LEMMA WaitKeeps == TaskInv /\ sys_wait => TaskInv'
<1> SUFFICES ASSUME TaskInv, sys_wait PROVE TaskInv'
  OBVIOUS
<1>1. PICK child \in Tasks \ {g_current} :
              /\ next' = Unlink({child}) /\ task' = [t \in Tasks \ {child} |-> task[t]]
              /\ free' = free + FreedFrames(1)
  BY WaitChild DEF TaskInv
<1>2. UNCHANGED <<g_current, g_next_pid, mode, cr3, spent>> /\ g_current \in Tasks
  BY RingFinite DEF TaskInv, sys_wait
<1>3. Tasks' = Tasks \ {child} /\ \A t \in Tasks' : task'[t] = task[t]
  BY <1>1 DEF Tasks
<1>4. Ring'
  <2>1. {child} \in SUBSET (Tasks \ {g_current}) /\ g_current' \in Tasks \ {child}
    BY <1>1, <1>2
  <2> QED BY <1>1, <1>3, <2>1, RingUnlink DEF TaskInv
<1>5. FramesAccounted' /\ free' \in Nat
  <2>1. Cardinality({child}) = 1 /\ {child} \in SUBSET Tasks
    BY FS_Singleton
  <2>2. free' = free + FreedFrames(Cardinality({child}))
    BY <1>1, <2>1
  <2> QED BY <1>2, <1>3, <2>1, <2>2, FramesUnlink DEF TaskInv, Typed
<1>6. Typed'
  <2>1. task' \in [Tasks' -> TaskRecord]
    BY <1>1, <1>3 DEF TaskInv, Typed
  <2> QED BY <1>2, <1>3, <1>5, <2>1 DEF TaskInv, Typed
<1>7. ShellFirst'
  BY <1>2, <1>3 DEF TaskInv, ShellFirst
<1> QED BY <1>4, <1>5, <1>6, <1>7 DEF TaskInv

\* kill reaches a task of the ring.
LEMMA KillTarget ==
    ASSUME Ring, NEW pid, NEW target \in TaskFind(pid)
    PROVE  target \in Tasks
<1>1. PICK n \in Nat : \E w \in [0 .. n -> Tasks] : Circle(w, n, next, Tasks, g_current)
  BY DEF Ring
<1>2. PICK w \in [0 .. n -> Tasks] : Circle(w, n, next, Tasks, g_current)
  BY <1>1
<1>3. Cardinality(Tasks) = n /\ \A k \in 0 .. n : Walk[k] = w[k]
  BY <1>2, WalkAround
<1>4. PICK j \in 0 .. n - 1 : target = Walk[j]
  BY <1>3 DEF TaskFind
<1>5. j \in 0 .. n
  BY <1>4
<1> QED BY <1>3, <1>4, <1>5

\* A struct with one field changed by a system call.
LEMMA FieldTypes ==
    ASSUME NEW rec \in TaskRecord
    PROVE  /\ [rec EXCEPT !.state = "TERMINATED"] \in TaskRecord
           /\ \A sig \in Signals : [rec EXCEPT !.pending = @ \cup {sig}] \in TaskRecord
           /\ \A h \in SUBSET Signals : [rec EXCEPT !.handler = h] \in TaskRecord
           /\ \A ticks \in 1 .. MaxSleep :
                 [rec EXCEPT !.state = "SLEEPING", !.wake = ticks] \in TaskRecord
<1>1. [rec EXCEPT !.state = "TERMINATED"] \in TaskRecord
  BY DEF TaskRecord
<1>2. ASSUME NEW sig \in Signals PROVE [rec EXCEPT !.pending = @ \cup {sig}] \in TaskRecord
  <2> DEFINE p == rec.pending \cup {sig}
  <2>1. p \in SUBSET Signals
    BY DEF TaskRecord
  <2> HIDE DEF p
  <2>2. [rec EXCEPT !.pending = p] \in TaskRecord
    BY <2>1 DEF TaskRecord
  <2> QED BY <2>2 DEF p
<1>3. ASSUME NEW h \in SUBSET Signals PROVE [rec EXCEPT !.handler = h] \in TaskRecord
  BY DEF TaskRecord
<1>4. ASSUME NEW ticks \in 1 .. MaxSleep
      PROVE  [rec EXCEPT !.state = "SLEEPING", !.wake = ticks] \in TaskRecord
  <2>1. ticks \in 0 .. MaxSleep
    BY SchedulerSizes
  <2> QED BY <2>1 DEF TaskRecord
<1> QED BY <1>1, <1>2, <1>3, <1>4

\* The structs with which the timer interrupt calls schedule().
LEMMA TickTypes ==
    ASSUME TaskInv, NEW T, T = [t \in Tasks |-> TickTask(task[t])]
    PROVE  /\ T \in [Tasks -> TaskRecord]
           /\ \A t \in Tasks : /\ T[t].pid = task[t].pid
                               /\ T[t].cr3 = task[t].cr3 /\ T[t].saved = task[t].saved
<1>1. \A t \in Tasks : task[t] \in TaskRecord
  BY DEF TaskInv, Typed
<1> QED BY <1>1, TickTaskType

Asleep(ticks) ==
    [task EXCEPT ![g_current].state = "SLEEPING", ![g_current].wake = ticks]

\* The structs with which task_sleep calls it.
LEMMA SleepTypes ==
    ASSUME TaskInv, NEW ticks \in 1 .. MaxSleep, NEW T, T = Asleep(ticks)
    PROVE  /\ T \in [Tasks -> TaskRecord]
           /\ \A t \in Tasks : /\ T[t].pid = task[t].pid
                               /\ T[t].cr3 = task[t].cr3 /\ T[t].saved = task[t].saved
           /\ \A t \in Tasks \ {g_current} : T[t] = task[t]
<1> DEFINE rec == [task[g_current] EXCEPT !.state = "SLEEPING", !.wake = ticks]
<1>1. task \in [Tasks -> TaskRecord] /\ g_current \in Tasks /\ task[g_current] \in TaskRecord
  BY RingFinite DEF TaskInv, Typed
<1>2. rec \in TaskRecord
  BY <1>1, FieldTypes
<1>3. /\ rec.pid = task[g_current].pid
      /\ rec.cr3 = task[g_current].cr3 /\ rec.saved = task[g_current].saved
  BY <1>1 DEF TaskRecord
<1>4. T = [task EXCEPT ![g_current] = rec]
  BY <1>1 DEF Asleep
<1> HIDE DEF rec
<1> QED BY <1>1, <1>2, <1>3, <1>4

\* exit, kill and signal change one struct.
LEMMA CallKeeps ==
    ASSUME TaskInv, \/ sys_exit
                    \/ \E pid \in Pids, sig \in Signals : sys_kill(pid, sig)
                    \/ \E sig \in Signals, installed \in BOOLEAN : sys_signal(sig, installed)
    PROVE  TaskInv'
<1>1. task \in [Tasks -> TaskRecord] /\ g_current \in Tasks
  BY RingFinite DEF TaskInv, Typed
<1>2. CASE sys_exit
  <2> DEFINE rec == [task[Shell] EXCEPT !.state = "TERMINATED"]
  <2>1. Shell \in Tasks /\ task[Shell] \in TaskRecord
    BY <1>1, <1>2 DEF sys_exit, InProgram
  <2>2. rec \in TaskRecord /\ rec.pid = task[Shell].pid
    BY <2>1 DEF TaskRecord
  <2>3. task' = [task EXCEPT ![Shell] = rec]
    BY <1>2 DEF sys_exit
  <2> HIDE DEF rec
  <2> QED BY <1>2, <2>1, <2>2, <2>3, FieldKeeps DEF sys_exit
<1>3. ASSUME NEW pid \in Pids, NEW sig \in Signals, sys_kill(pid, sig) PROVE TaskInv'
  <2>1. PICK target \in TaskFind(pid) :
          task' = IF sig = SIGKILL
                  THEN [task EXCEPT ![target].state = "TERMINATED"]
                  ELSE [task EXCEPT ![target].pending = @ \cup {sig}]
    BY <1>3 DEF sys_kill
  <2>2. target \in Tasks /\ task[target] \in TaskRecord
    BY <1>1, KillTarget DEF TaskInv
  <2> DEFINE r1 == [task[target] EXCEPT !.state = "TERMINATED"]
             r2 == [task[target] EXCEPT !.pending = @ \cup {sig}]
  <2>3. r1 \in TaskRecord /\ r2 \in TaskRecord
    BY <2>2, FieldTypes
  <2>4. r1.pid = task[target].pid /\ r2.pid = task[target].pid
    BY <2>2 DEF TaskRecord
  <2>5. task' = [task EXCEPT ![target] = r1] \/ task' = [task EXCEPT ![target] = r2]
    BY <2>1
  <2> HIDE DEF r1, r2
  <2> QED BY <1>3, <2>2, <2>3, <2>4, <2>5, FieldKeeps DEF sys_kill
<1>4. ASSUME NEW sig \in Signals, NEW installed \in BOOLEAN, sys_signal(sig, installed)
      PROVE  TaskInv'
  <2> DEFINE h == IF installed THEN task[Shell].handler \cup {sig} ELSE task[Shell].handler \ {sig}
             rec == [task[Shell] EXCEPT !.handler = h]
  <2>1. Shell \in Tasks /\ task[Shell] \in TaskRecord
    BY <1>1, <1>4 DEF sys_signal, InProgram
  <2>2. h \in SUBSET Signals
    BY <2>1 DEF TaskRecord
  <2>3. task' = [task EXCEPT ![Shell] = rec]
    BY <1>4 DEF sys_signal
  <2> HIDE DEF h
  <2>4. rec \in TaskRecord /\ rec.pid = task[Shell].pid
    BY <2>1, <2>2 DEF TaskRecord
  <2> HIDE DEF rec
  <2> QED BY <1>4, <2>1, <2>3, <2>4, FieldKeeps DEF sys_signal
<1> QED BY <1>2, <1>3, <1>4

\* Every step keeps the ring, the frames and the types.
LEMMA TaskStep == TaskInv /\ [Next]_vars => TaskInv'
<1> SUFFICES ASSUME TaskInv, [Next]_vars PROVE TaskInv'
  OBVIOUS
<1>1. task \in [Tasks -> TaskRecord] /\ free \in Nat /\ spent \in Nat
  BY DEF TaskInv, Typed
<1>2. CASE task_create
  BY <1>2, TaskCreateKeeps
<1>3. CASE EnableInterrupts
  BY <1>1, <1>3, SpendKeeps DEF EnableInterrupts
<1>4. CASE irq0
  <2> DEFINE T == [t \in Tasks |-> TickTask(task[t])]
  <2>1. Running /\ Schedule(T) /\ UNCHANGED <<g_next_pid, spent>>
    BY <1>4 DEF irq0
  <2>2. T \in [Tasks -> TaskRecord] /\ \A t \in Tasks : T[t].pid = task[t].pid
    BY TickTypes
  <2> HIDE DEF T
  <2> QED BY <2>1, <2>2, ScheduleKeeps
<1>5. CASE RunProgram
  <2>1. UNCHANGED <<task, next, g_current, g_next_pid>> /\ mode' \in {mode} \cup Programs
        /\ cr3' \in {cr3} \cup Programs
    BY <1>5 DEF RunProgram, Programs
  <2>2. free' \in Nat /\ spent' \in Nat /\ free' + spent' = free + spent
    BY <1>5, LoadSpends DEF RunProgram
  <2> QED BY <2>1, <2>2, SpendKeeps
<1>6. CASE sys_exec
  <2>1. UNCHANGED <<task, next, g_current, g_next_pid>> /\ mode' \in {mode} \cup Programs
        /\ cr3' \in {cr3} \cup Programs
    BY <1>6, OtherTables DEF sys_exec
  <2>2. free' \in Nat /\ spent' \in Nat /\ free' + spent' = free + spent
    BY <1>6, LoadSpends DEF sys_exec
  <2> QED BY <2>1, <2>2, SpendKeeps
<1>7. CASE sys_exit
  BY <1>7, CallKeeps
<1>8. CASE sys_fork
  BY <1>8, ForkKeeps
<1>9. CASE sys_wait
  BY <1>9, WaitKeeps
<1>10. CASE YieldInSyscall
  <2>1. Running /\ Schedule(task) /\ UNCHANGED <<g_next_pid, spent>>
    BY <1>10 DEF YieldInSyscall, InProgram, Running
  <2> QED BY <1>1, <2>1, ScheduleKeeps
<1>11. CASE \E pid \in Pids, sig \in Signals : sys_kill(pid, sig)
  BY <1>11, CallKeeps
<1>12. CASE \E sig \in Signals, installed \in BOOLEAN : sys_signal(sig, installed)
  BY <1>12, CallKeeps
<1>13. ASSUME NEW ticks \in 1 .. MaxSleep, task_sleep(ticks) PROVE TaskInv'
  <2> DEFINE T == Asleep(ticks)
  <2>1. Running /\ Schedule(T) /\ UNCHANGED <<g_next_pid, spent>>
    BY <1>13 DEF task_sleep, Asleep
  <2>2. T \in [Tasks -> TaskRecord] /\ \A t \in Tasks : T[t].pid = task[t].pid
    BY SleepTypes
  <2> HIDE DEF T
  <2> QED BY <2>1, <2>2, ScheduleKeeps
<1>14. CASE UNCHANGED vars
  BY <1>1, <1>14, SpendKeeps DEF vars
<1>15. CASE Stopped
  BY <1>14, <1>15 DEF Stopped
<1> QED BY <1>2, <1>3, <1>4, <1>5, <1>6, <1>7, <1>8, <1>9, <1>10, <1>11, <1>12, <1>13,
          <1>14, <1>15 DEF Next

ShotTyped == shot \in BOOLEAN

\* shot is only ever set to a truth value.
LEMMA ShotStep == ShotTyped /\ [Next]_vars => ShotTyped'
<1> SUFFICES ASSUME shot \in BOOLEAN, [Next]_vars PROVE shot' \in BOOLEAN
  BY DEF ShotTyped
<1>1. CASE irq0
  <2> DEFINE fatal == /\ Shell \in Tasks \ {g_current}
                      /\ task[Shell].state # "TERMINATED"
                      /\ [t \in Tasks |-> TickTask(task[t])][Shell].state = "TERMINATED"
  <2>1. shot' = (shot \/ fatal)
    BY <1>1 DEF irq0
  <2> HIDE DEF fatal
  <2>2. (shot \/ fatal) \in BOOLEAN
    OBVIOUS
  <2> QED BY <2>1, <2>2
<1>2. CASE UNCHANGED shot
  BY <1>2
<1>3. CASE ~irq0
  <2>1. UNCHANGED shot
    BY <1>3 DEF Next, vars, task_create, EnableInterrupts, RunProgram, sys_exec, sys_exit,
       sys_fork, sys_wait, YieldInSyscall, sys_kill, sys_signal, task_sleep, Stopped
  <2> QED BY <1>2, <2>1
<1> QED BY <1>1, <1>3

\* The types of the scheduler's state: pids, frame counts and the fields of every
\* struct stay in range, whatever is created, forked, killed or reaped.
THEOREM SchedulerTypes == Spec => []TypeOK
<1>1. Init => ShotTyped
  BY DEF Init, ShotTyped
<1>2. TaskInv /\ ShotTyped => TypeOK
  BY DEF TaskInv, Typed, TypeOK, ShotTyped
<1> QED BY <1>1, <1>2, TaskInit, TaskStep, ShotStep, PTL DEF Spec

\* The ring is one circle through exactly the allocated structs, for any number
\* of tasks: schedule(), task_destroy and fork never break it.
THEOREM RingStaysWhole == Spec => []RingWellFormed
<1>1. TaskInv => RingWellFormed
  <2> SUFFICES ASSUME TaskInv PROVE RingWellFormed
    OBVIOUS
  <2>1. PICK n \in Nat : \E w \in [0 .. n -> Tasks] : Circle(w, n, next, Tasks, g_current)
    BY DEF TaskInv, Ring
  <2>2. PICK w \in [0 .. n -> Tasks] : Circle(w, n, next, Tasks, g_current)
    BY <2>1
  <2>3. Cardinality(Tasks) = n /\ DOMAIN Walk = 0 .. n /\ \A k \in 0 .. n : Walk[k] = w[k]
    BY <2>2, WalkAround
  <2>4. \A s \in Tasks : \E k \in 0 .. n : Walk[k] = s
    <3>1. \A s \in Tasks : \E k \in 0 .. n - 1 : w[k] = s
      BY <2>2 DEF Circle
    <3>2. \A k \in 0 .. n - 1 : k \in 0 .. n
      OBVIOUS
    <3> QED BY <2>3, <3>1, <3>2
  <2>5. \A k \in 0 .. n : Walk[k] \in Tasks
    BY <2>3
  <2>6. {Walk[k] : k \in DOMAIN Walk} = Tasks
    BY <2>3, <2>4, <2>5
  <2>7. n \in 0 .. n /\ w[n] = g_current
    BY <2>2 DEF Circle
  <2>8. Walk[Cardinality(Tasks)] = g_current
    BY <2>3, <2>7
  <2> QED BY <2>6, <2>8, RingFinite DEF TaskInv, RingWellFormed
<1> QED BY <1>1, TaskInit, TaskStep, PTL DEF Spec

\* No frame of a task is lost or freed twice, whoever ends it: the clean-up of
\* schedule(), wait or the error path of fork.
THEOREM FramesKept == Spec => []FramesAccounted
<1>1. TaskInv => FramesAccounted
  BY DEF TaskInv
<1> QED BY <1>1, TaskInit, TaskStep, PTL DEF Spec

-----------------------------------------------------------------------------
(* Page tables.                                                            *)

ShellTables == IF mode \in Programs THEN mode ELSE "kernel"

\* The page tables a kernel task is switched to are the kernel's.  A forked child
\* has a copy of the program's, but its stack pointer stops the machine.
TablesOf(rec) ==
    /\ rec.cr3 \notin Programs
    /\ rec.cr3 = "clone" => rec.saved \in {"idle", "wild"}

SpaceInv ==
    /\ mode = "boot" => cr3 = "kernel"
    /\ AddressSpaceRight
    /\ \A t \in Tasks \ {Shell} : TablesOf(task[t])
    /\ Running /\ Shell \in Tasks /\ g_current # Shell => task[Shell].cr3 = ShellTables

\* schedule() saves the page tables of the outgoing task and loads those of the
\* incoming one.
LEMMA ScheduleSpace ==
    ASSUME TaskInv, SpaceInv, Running, NEW T \in [Tasks -> TaskRecord],
           \A t \in Tasks : T[t].cr3 = task[t].cr3 /\ T[t].saved = task[t].saved,
           Schedule(T)
    PROVE  SpaceInv'
<1>1. g_current \in Tasks
  BY RingFinite DEF TaskInv
<1>2. cr3 = IF g_current = Shell THEN ShellTables ELSE "kernel"
  BY DEF SpaceInv, AddressSpaceRight, ShellTables
<1>3. mode \in {"shell"} \cup Programs /\ mode \notin {"boot", "halted", "crashed"}
  BY DEF Running, Programs
<1>4. CASE Stays(T)
  <2>1. task' = T /\ Tasks' = Tasks /\ g_current' = g_current /\ cr3' = cr3 /\ mode' \in {mode, "halted"}
    BY <1>4 DEF Stays, Tasks
  <2>2. \A t \in Tasks' \ {Shell} : TablesOf(task'[t])
    BY <2>1 DEF SpaceInv, TablesOf
  <2> QED BY <1>2, <1>3, <2>1, <2>2 DEF SpaceInv, AddressSpaceRight, ShellTables, Running, TablesOf, Programs
<1>5. ASSUME NEW gone \in SUBSET (Tasks \ {g_current}), NEW chosen \in Tasks \ gone,
             chosen # g_current, Switches(T, gone, chosen)
      PROVE  SpaceInv'
  <2> DEFINE in == [T[chosen] EXCEPT !.state = "RUNNING"]
             out == SwitchedOut(T)
  <2>1. Tasks' = Tasks \ gone /\ g_current' = chosen
    BY <1>5 DEF Switches, Tasks
  <2>2. /\ out.cr3 = cr3 /\ out.saved \in {"foreign", T[g_current].saved}
    BY SwitchedOutType
  <2>3. in.cr3 = T[chosen].cr3 /\ in.saved = T[chosen].saved
    <3>1. T[chosen] \in TaskRecord
      OBVIOUS
    <3> QED BY <3>1 DEF TaskRecord
  <2>4. \A t \in Tasks' : task'[t] = CASE t = g_current -> out
                                       [] t = chosen -> in
                                       [] OTHER -> T[t]
    BY <1>5, <2>1 DEF Switches
  <2>5. /\ cr3' = IF T[chosen].cr3 = "none" THEN "kernel" ELSE T[chosen].cr3
        /\ mode' = CASE T[chosen].saved = "wild" -> "crashed"
                     [] T[chosen].saved = "idle" -> "halted"
                     [] OTHER -> mode
    BY <1>5 DEF Switches
  <2> HIDE DEF in, out
  <2>6. ASSUME NEW t \in Tasks' \ {Shell} PROVE TablesOf(task'[t])
    <3>1. t \in Tasks /\ TablesOf(task[t])
      BY <2>1 DEF SpaceInv
    <3>2. CASE t = g_current
      <4>1. task'[t] = out
        BY <1>5, <2>4, <3>2
      <4>2. out.cr3 = "kernel"
        BY <1>2, <2>2, <3>2
      <4> QED BY <4>1, <4>2 DEF TablesOf, Programs
    <3>3. CASE t # g_current
      <4>1. task'[t].cr3 = T[t].cr3 /\ task'[t].saved = T[t].saved
        BY <2>3, <2>4, <3>3
      <4> QED BY <3>1, <4>1 DEF TablesOf
    <3> QED BY <3>2, <3>3
  <2>7. mode' \in {mode, "halted", "crashed"} /\ (mode' = mode => T[chosen].saved \notin {"idle", "wild"})
    BY <1>3, <2>5
  <2>8. mode' = mode => cr3' = IF chosen = Shell THEN ShellTables ELSE "kernel"
    <3> SUFFICES ASSUME mode' = mode PROVE cr3' = IF chosen = Shell THEN ShellTables ELSE "kernel"
      OBVIOUS
    <3>1. CASE chosen = Shell
      <4>1. T[chosen].cr3 = ShellTables
        BY <1>5, <3>1 DEF SpaceInv
      <4> QED BY <2>5, <3>1, <4>1 DEF ShellTables, Programs
    <3>2. CASE chosen # Shell
      <4>1. TablesOf(task[chosen]) /\ T[chosen].cr3 = task[chosen].cr3
            /\ T[chosen].saved = task[chosen].saved
        BY <3>2 DEF SpaceInv
      <4>2. T[chosen].cr3 \in {"none", "kernel"}
        <5>1. T[chosen] \in TaskRecord
          OBVIOUS
        <5>2. T[chosen].cr3 \in {"none", "kernel", "clone"} \cup Programs
          BY <5>1 DEF TaskRecord
        <5> QED BY <2>7, <4>1, <5>2 DEF TablesOf
      <4> QED BY <2>5, <3>2, <4>2
    <3> QED BY <3>1, <3>2
  <2>9. mode' = mode /\ Shell \in Tasks' /\ chosen # Shell => task'[Shell].cr3 = ShellTables
    <3> SUFFICES ASSUME Shell \in Tasks', chosen # Shell PROVE task'[Shell].cr3 = ShellTables
      OBVIOUS
    <3>1. CASE Shell = g_current
      BY <1>2, <2>2, <2>4, <3>1
    <3>2. CASE Shell # g_current
      <4>1. task'[Shell].cr3 = T[Shell].cr3
        BY <2>4, <3>2
      <4> QED BY <2>1, <3>2, <4>1 DEF SpaceInv
    <3> QED BY <3>1, <3>2
  <2>10. Running' => mode' = mode
    BY <2>7 DEF Running, Programs
  <2>11. mode' # "boot"
    BY <1>3, <2>7
  <2>12. mode' = mode => ShellTables' = ShellTables
    BY DEF ShellTables
  <2>13. AddressSpaceRight'
    BY <2>1, <2>8, <2>10 DEF AddressSpaceRight, ShellTables
  <2> QED BY <2>1, <2>6, <2>9, <2>10, <2>11, <2>12, <2>13 DEF SpaceInv
<1> QED BY <1>4, <1>5, ScheduleChoice DEF TaskInv

\* A step of task 1 that leaves the other structs as they are.
LEMMA ShellStepSpace ==
    ASSUME TaskInv, SpaceInv, g_current = Shell, g_current' = Shell,
           \A t \in Tasks' \ {Shell} : TablesOf(task'[t]),
           mode' # "boot", cr3' = ShellTables'
    PROVE  SpaceInv'
BY DEF SpaceInv, AddressSpaceRight, ShellTables

\* Changing the state, the pending signals or the handlers of one struct.
LEMMA FieldSpace ==
    ASSUME TaskInv, SpaceInv, NEW target \in Tasks, NEW rec,
           rec.cr3 = task[target].cr3, rec.saved = task[target].saved,
           task' = [task EXCEPT ![target] = rec]
    PROVE  \A t \in Tasks' \ {Shell} : TablesOf(task'[t])
<1>1. task \in [Tasks -> TaskRecord]
  BY DEF TaskInv, Typed
<1>2. Tasks' = Tasks
  BY DEF Tasks
<1>3. \A t \in Tasks : task'[t].cr3 = task[t].cr3 /\ task'[t].saved = task[t].saved
  BY <1>1
<1> QED BY <1>2, <1>3 DEF SpaceInv, TablesOf

\* A new struct comes without page tables, or with a copy it cannot run on.
LEMMA InsertSpace ==
    ASSUME TaskInv, SpaceInv, free >= 2, NEW rec, TablesOf(rec),
           InsertAfterCurrent(FreshSlot, rec)
    PROVE  \A t \in Tasks' \ {Shell} : TablesOf(task'[t])
<1>1. \A t \in Tasks' : task'[t] = rec \/ (t \in Tasks /\ task'[t] = task[t])
  BY DEF InsertAfterCurrent, Tasks
<1> QED BY <1>1 DEF SpaceInv

\* exit, kill and signal: the program's tables stay until it has exited.
LEMMA CallSpace ==
    ASSUME TaskInv, SpaceInv,
           \/ sys_exit
           \/ \E pid \in Pids, sig \in Signals : sys_kill(pid, sig)
           \/ \E sig \in Signals, installed \in BOOLEAN : sys_signal(sig, installed)
    PROVE  SpaceInv'
<1>1. task \in [Tasks -> TaskRecord] /\ g_current \in Tasks
  BY RingFinite DEF TaskInv, Typed
<1>2. g_current = Shell /\ g_current' = Shell /\ mode \in Programs /\ cr3 = mode /\ task[Shell] \in TaskRecord
  BY <1>1 DEF sys_exit, sys_kill, sys_signal, InProgram, SpaceInv, AddressSpaceRight, Running
<1>3. CASE sys_exit
  <2> DEFINE rec == [task[Shell] EXCEPT !.state = "TERMINATED"]
  <2>1. rec.cr3 = task[Shell].cr3 /\ rec.saved = task[Shell].saved
    BY <1>2 DEF TaskRecord
  <2>2. task' = [task EXCEPT ![Shell] = rec] /\ mode' = "shell" /\ cr3' = "kernel"
    BY <1>3 DEF sys_exit
  <2> HIDE DEF rec
  <2>3. \A t \in Tasks' \ {Shell} : TablesOf(task'[t])
    BY <1>1, <1>2, <2>1, <2>2, FieldSpace
  <2> QED BY <1>2, <2>2, <2>3, ShellStepSpace DEF ShellTables, Programs
<1>4. ASSUME NEW pid \in Pids, NEW sig \in Signals, sys_kill(pid, sig) PROVE SpaceInv'
  <2>1. PICK target \in TaskFind(pid) :
          task' = IF sig = SIGKILL
                  THEN [task EXCEPT ![target].state = "TERMINATED"]
                  ELSE [task EXCEPT ![target].pending = @ \cup {sig}]
    BY <1>4 DEF sys_kill
  <2>2. target \in Tasks /\ task[target] \in TaskRecord
    BY <1>1, KillTarget DEF TaskInv
  <2> DEFINE r1 == [task[target] EXCEPT !.state = "TERMINATED"]
             r2 == [task[target] EXCEPT !.pending = @ \cup {sig}]
  <2>3. /\ r1.cr3 = task[target].cr3 /\ r1.saved = task[target].saved
        /\ r2.cr3 = task[target].cr3 /\ r2.saved = task[target].saved
    BY <2>2 DEF TaskRecord
  <2>4. task' = [task EXCEPT ![target] = r1] \/ task' = [task EXCEPT ![target] = r2]
    BY <2>1
  <2> HIDE DEF r1, r2
  <2>5. \A t \in Tasks' \ {Shell} : TablesOf(task'[t])
    BY <2>2, <2>3, <2>4, FieldSpace
  <2>6. mode' = mode /\ cr3' = cr3
    BY <1>4 DEF sys_kill
  <2> QED BY <1>2, <2>5, <2>6, ShellStepSpace DEF ShellTables, Programs
<1>5. ASSUME NEW sig \in Signals, NEW installed \in BOOLEAN, sys_signal(sig, installed)
      PROVE  SpaceInv'
  <2> DEFINE h == IF installed THEN task[Shell].handler \cup {sig} ELSE task[Shell].handler \ {sig}
             rec == [task[Shell] EXCEPT !.handler = h]
  <2>1. task' = [task EXCEPT ![Shell] = rec] /\ mode' = mode /\ cr3' = cr3
    BY <1>5 DEF sys_signal
  <2> HIDE DEF h
  <2>2. rec.cr3 = task[Shell].cr3 /\ rec.saved = task[Shell].saved
    BY <1>2 DEF TaskRecord
  <2> HIDE DEF rec
  <2>3. \A t \in Tasks' \ {Shell} : TablesOf(task'[t])
    BY <1>1, <1>2, <2>1, <2>2, FieldSpace
  <2> QED BY <1>2, <2>1, <2>3, ShellStepSpace DEF ShellTables, Programs
<1> QED BY <1>3, <1>4, <1>5

\* Every step leaves the right page tables loaded and saved.
LEMMA SpaceStep == TaskInv /\ SpaceInv /\ [Next]_vars => SpaceInv'
<1> SUFFICES ASSUME TaskInv, SpaceInv, [Next]_vars PROVE SpaceInv'
  OBVIOUS
<1>1. task \in [Tasks -> TaskRecord] /\ g_current \in Tasks
  BY RingFinite DEF TaskInv, Typed
<1>2. \A t \in Tasks \ {Shell} : TablesOf(task[t])
  BY DEF SpaceInv
<1>3. CASE task_create
  <2>1. g_current = Shell /\ g_current' = Shell /\ cr3 = "kernel" /\ cr3' = "kernel"
    BY <1>3 DEF task_create, TaskInv, ShellFirst, SpaceInv
  <2>2. CASE free >= 2
    <3> DEFINE rec == NewTask(g_next_pid, task[g_current].pid)
    <3>1. TablesOf(rec)
      BY DEF NewTask, TablesOf, Programs
    <3>2. InsertAfterCurrent(FreshSlot, rec) /\ mode' = "boot"
      BY <1>3, <2>2 DEF task_create
    <3> HIDE DEF rec
    <3>3. \A t \in Tasks' \ {Shell} : TablesOf(task'[t])
      BY <2>2, <3>1, <3>2, InsertSpace
    <3> QED BY <2>1, <3>2, <3>3 DEF SpaceInv, AddressSpaceRight, Running, Programs
  <2>3. CASE ~(free >= 2)
    <3>1. mode' = "shell" /\ task' = task /\ Tasks' = Tasks
      BY <1>3, <2>3 DEF task_create, Tasks
    <3> QED BY <1>2, <2>1, <3>1, ShellStepSpace DEF ShellTables, Programs
  <2> QED BY <2>2, <2>3
<1>4. CASE EnableInterrupts
  <2>1. /\ g_current = Shell /\ g_current' = Shell /\ cr3' = "kernel"
        /\ mode' = "shell" /\ task' = task /\ Tasks' = Tasks
    BY <1>4 DEF EnableInterrupts, TaskInv, ShellFirst, SpaceInv, Tasks
  <2> QED BY <1>2, <2>1, ShellStepSpace DEF ShellTables, Programs
<1>5. CASE irq0
  <2> DEFINE T == [t \in Tasks |-> TickTask(task[t])]
  <2>1. Running /\ Schedule(T)
    BY <1>5 DEF irq0
  <2>2. /\ T \in [Tasks -> TaskRecord]
        /\ \A t \in Tasks : T[t].cr3 = task[t].cr3 /\ T[t].saved = task[t].saved
    BY TickTypes
  <2> HIDE DEF T
  <2> QED BY <2>1, <2>2, ScheduleSpace
<1>6. CASE RunProgram
  <2>1. /\ g_current = Shell /\ g_current' = Shell /\ task' = task /\ Tasks' = Tasks
        /\ mode = "shell" /\ cr3 = "kernel"
    BY <1>6 DEF RunProgram, Tasks, SpaceInv, AddressSpaceRight, Running, Programs
  <2>2. mode' # "boot" /\ cr3' = ShellTables'
    BY <1>6, <2>1 DEF RunProgram, ShellTables, Programs
  <2> QED BY <1>2, <2>1, <2>2, ShellStepSpace
<1>7. CASE sys_exec
  <2>1. /\ g_current = Shell /\ g_current' = Shell /\ task' = task /\ Tasks' = Tasks
        /\ mode \in Programs /\ cr3 = mode
    BY <1>7 DEF sys_exec, InProgram, Tasks, SpaceInv, AddressSpaceRight, Running
  <2>2. mode' \in Programs /\ cr3' = mode'
    BY <1>7, <2>1, OtherTables DEF sys_exec
  <2>3. mode' # "boot" /\ cr3' = ShellTables'
    BY <2>2 DEF ShellTables, Programs
  <2> QED BY <1>2, <2>1, <2>3, ShellStepSpace
<1>8. CASE sys_fork
  <2>1. /\ g_current = Shell /\ g_current' = Shell /\ mode' \in Programs /\ cr3' = mode'
    BY <1>8 DEF sys_fork, InProgram, SpaceInv, AddressSpaceRight, Running
  <2>4. mode' # "boot" /\ cr3' = ShellTables'
    BY <2>1 DEF ShellTables, Programs
  <2>2. CASE ForkSucceeds
    <3> DEFINE saved == IF task[Shell].saved = "own" THEN "idle" ELSE "wild"
               rec == [task[Shell] EXCEPT !.pid = 0, !.ppid = task[Shell].pid, !.cr3 = "clone",
                                          !.saved = saved]
    <3>1. InsertAfterCurrent(FreshSlot, rec)
      BY <1>8, <2>2 DEF sys_fork
    <3>2. saved \in {"idle", "wild"}
      OBVIOUS
    <3> HIDE DEF saved
    <3>3. task[Shell] \in TaskRecord
      BY <1>1, <2>1
    <3>4. rec.cr3 = "clone" /\ rec.saved = saved
      BY <3>3 DEF TaskRecord
    <3> HIDE DEF rec
    <3>5. free >= 2
      BY <2>2 DEF ForkSucceeds, TaskInv, Typed
    <3>6. TablesOf(rec)
      BY <3>2, <3>4 DEF TablesOf, Programs
    <3>7. \A t \in Tasks' \ {Shell} : TablesOf(task'[t])
      BY <3>1, <3>5, <3>6, InsertSpace
    <3> QED BY <2>1, <2>4, <3>7, ShellStepSpace
  <2>3. CASE ~ForkSucceeds
    <3>1. task' = task /\ Tasks' = Tasks
      BY <1>8, <2>3 DEF sys_fork, Tasks
    <3> QED BY <1>2, <2>1, <2>4, <3>1, ShellStepSpace
  <2> QED BY <2>2, <2>3
<1>9. CASE sys_wait
  <2>1. /\ g_current = Shell /\ g_current' = Shell /\ mode' \in Programs /\ cr3' = mode'
    BY <1>9 DEF sys_wait, InProgram, SpaceInv, AddressSpaceRight, Running
  <2>4. mode' # "boot" /\ cr3' = ShellTables'
    BY <2>1 DEF ShellTables, Programs
  <2>2. PICK child \in Tasks \ {g_current} : task' = [t \in Tasks \ {child} |-> task[t]]
    BY <1>9, WaitChild DEF TaskInv
  <2>3. \A t \in Tasks' \ {Shell} : TablesOf(task'[t])
    BY <1>2, <2>2 DEF Tasks
  <2> QED BY <2>1, <2>3, <2>4, ShellStepSpace
<1>10. CASE YieldInSyscall
  <2>1. Running /\ Schedule(task)
    BY <1>10 DEF YieldInSyscall, InProgram, Running
  <2> QED BY <1>1, <2>1, ScheduleSpace
<1>11. CASE \/ sys_exit
            \/ \E pid \in Pids, sig \in Signals : sys_kill(pid, sig)
            \/ \E sig \in Signals, installed \in BOOLEAN : sys_signal(sig, installed)
  BY <1>11, CallSpace
<1>12. ASSUME NEW ticks \in 1 .. MaxSleep, task_sleep(ticks) PROVE SpaceInv'
  <2> DEFINE T == Asleep(ticks)
  <2>1. Running /\ Schedule(T)
    BY <1>12 DEF task_sleep, Asleep
  <2>2. /\ T \in [Tasks -> TaskRecord]
        /\ \A t \in Tasks : T[t].cr3 = task[t].cr3 /\ T[t].saved = task[t].saved
    BY SleepTypes
  <2> HIDE DEF T
  <2> QED BY <2>1, <2>2, ScheduleSpace
<1>13. CASE UNCHANGED vars
  BY <1>13 DEF vars, SpaceInv, AddressSpaceRight, Running, ShellTables, Tasks
<1>14. CASE Stopped
  BY <1>13, <1>14 DEF Stopped
<1> QED BY <1>3, <1>4, <1>5, <1>6, <1>7, <1>8, <1>9, <1>10, <1>11, <1>12, <1>13, <1>14 DEF Next

\* Whenever code runs, the page tables loaded are its own: the program's in a
\* program, the kernel's in the shell and in the kernel tasks, whoever was
\* switched to, exited or forked before (schedule, sys_exit, sys_exec).
THEOREM RightAddressSpace == Spec => []AddressSpaceRight
<1>1. Init => SpaceInv
  BY DEF Init, SpaceInv, AddressSpaceRight, Running, Tasks, Programs
<1>2. SpaceInv => AddressSpaceRight
  BY DEF SpaceInv
<1> QED BY <1>1, <1>2, TaskInit, TaskStep, SpaceStep, PTL DEF Spec

-----------------------------------------------------------------------------
(* The shell.                                                              *)

\* While task 1 is off the processor only a fatal signal can have marked it.
ShellInv ==
    /\ ShellLostOnlyToSignal
    /\ Shell \in Tasks /\ g_current # Shell /\ task[Shell].state = "TERMINATED" => shot

\* schedule() makes the outgoing task READY, whatever it was marked.
LEMMA ScheduleShell ==
    ASSUME TaskInv, ShellInv, NEW T \in [Tasks -> TaskRecord], Schedule(T), shot => shot',
           Shell \in Tasks /\ g_current # Shell /\ T[Shell].state = "TERMINATED" => shot'
    PROVE  ShellInv'
<1>1. CASE Stays(T)
  <2>1. task' = T /\ Tasks' = Tasks /\ g_current' = g_current
    BY <1>1 DEF Stays, Tasks
  <2> QED BY <2>1 DEF ShellInv, ShellLostOnlyToSignal
<1>2. ASSUME NEW gone \in SUBSET (Tasks \ {g_current}), NEW chosen \in Tasks \ gone,
             \A t \in gone : T[t].state = "TERMINATED",
             chosen # g_current, Switches(T, gone, chosen)
      PROVE  ShellInv'
  <2>1. Tasks' = Tasks \ gone /\ g_current' = chosen
    BY <1>2 DEF Switches, Tasks
  <2>2. \A t \in Tasks' : task'[t] = CASE t = g_current -> SwitchedOut(T)
                                       [] t = chosen -> [T[chosen] EXCEPT !.state = "RUNNING"]
                                       [] OTHER -> T[t]
    BY <1>2, <2>1 DEF Switches
  <2>3. SwitchedOut(T).state = "READY"
    BY SwitchedOutType
  <2>4. Shell \notin Tasks' => shot'
    BY <1>2, <2>1 DEF ShellInv, ShellLostOnlyToSignal
  <2>5. ASSUME Shell \in Tasks', chosen # Shell, task'[Shell].state = "TERMINATED" PROVE shot'
    <3>1. Shell # g_current
      BY <2>2, <2>3, <2>5
    <3>2. task'[Shell] = T[Shell]
      BY <2>2, <2>5, <3>1
    <3> QED BY <2>1, <2>5, <3>1, <3>2
  <2> QED BY <2>1, <2>4, <2>5 DEF ShellInv, ShellLostOnlyToSignal
<1> QED BY <1>1, <1>2, ScheduleChoice DEF TaskInv

\* Every step that is not a fatal signal to a waiting shell keeps the shell.
LEMMA ShellStep == TaskInv /\ ShellInv /\ [Next]_vars => ShellInv'
<1> SUFFICES ASSUME TaskInv, ShellInv, [Next]_vars PROVE ShellInv'
  OBVIOUS
<1>1. task \in [Tasks -> TaskRecord] /\ g_current \in Tasks
  BY RingFinite DEF TaskInv, Typed
<1>2. CASE g_current = Shell /\ g_current' = Shell /\ Shell \in Tasks'
  BY <1>2 DEF ShellInv, ShellLostOnlyToSignal
<1>3. CASE task_create
  <2>1. g_current = Shell /\ g_current' = Shell
    BY <1>3 DEF task_create, TaskInv, ShellFirst
  <2>2. Shell \in Tasks'
    BY <1>1, <1>3, <2>1 DEF task_create, InsertAfterCurrent, Tasks
  <2> QED BY <1>2, <2>1, <2>2
<1>4. CASE EnableInterrupts \/ RunProgram \/ sys_exec \/ UNCHANGED vars
  BY <1>4 DEF EnableInterrupts, RunProgram, sys_exec, vars, ShellInv, ShellLostOnlyToSignal, Tasks
<1>5. CASE irq0
  <2> DEFINE T == [t \in Tasks |-> TickTask(task[t])]
             fatal == /\ Shell \in Tasks \ {g_current}
                      /\ task[Shell].state # "TERMINATED"
                      /\ T[Shell].state = "TERMINATED"
  <2>1. Schedule(T) /\ shot' = (shot \/ fatal)
    BY <1>5 DEF irq0
  <2>2. T \in [Tasks -> TaskRecord]
    BY TickTypes
  <2>3. Shell \in Tasks /\ g_current # Shell /\ T[Shell].state = "TERMINATED" => shot \/ fatal
    BY DEF ShellInv
  <2> HIDE DEF T, fatal
  <2> QED BY <2>1, <2>2, <2>3, ScheduleShell
<1>6. CASE sys_fork
  <2>1. Shell \in Tasks'
    BY <1>1, <1>6 DEF sys_fork, InProgram, InsertAfterCurrent, Tasks
  <2> QED BY <1>2, <1>6, <2>1 DEF sys_fork, InProgram
<1>7. CASE sys_wait
  <2>1. PICK child \in Tasks \ {g_current} : task' = [t \in Tasks \ {child} |-> task[t]]
    BY <1>7, WaitChild DEF TaskInv
  <2>2. Shell \in Tasks'
    BY <1>1, <1>7, <2>1 DEF sys_wait, InProgram, Tasks
  <2> QED BY <1>2, <1>7, <2>2 DEF sys_wait, InProgram
<1>8. CASE \/ sys_exit
           \/ \E pid \in Pids, sig \in Signals : sys_kill(pid, sig)
           \/ \E sig \in Signals, installed \in BOOLEAN : sys_signal(sig, installed)
  <2>1. g_current = Shell /\ g_current' = Shell
    BY <1>8 DEF sys_exit, sys_kill, sys_signal, InProgram
  <2>2. Tasks' = Tasks
    BY <1>8 DEF sys_exit, sys_kill, sys_signal, Tasks
  <2> QED BY <1>1, <1>2, <2>1, <2>2
<1>9. CASE YieldInSyscall
  BY <1>1, <1>9, ScheduleShell DEF YieldInSyscall, InProgram
<1>10. ASSUME NEW ticks \in 1 .. MaxSleep, task_sleep(ticks) PROVE ShellInv'
  <2> DEFINE T == Asleep(ticks)
  <2>1. Schedule(T) /\ shot' = shot
    BY <1>10 DEF task_sleep, Asleep
  <2>2. T \in [Tasks -> TaskRecord] /\ \A t \in Tasks \ {g_current} : T[t] = task[t]
    BY SleepTypes
  <2> HIDE DEF T
  <2>3. Shell \in Tasks /\ g_current # Shell /\ T[Shell].state = "TERMINATED" => shot'
    BY <2>1, <2>2 DEF ShellInv
  <2> QED BY <2>1, <2>2, <2>3, ScheduleShell
<1>11. CASE Stopped
  BY <1>4, <1>11 DEF Stopped
<1> QED BY <1>3, <1>4, <1>5, <1>6, <1>7, <1>8, <1>9, <1>10, <1>11 DEF Next

\* exit and SIGKILL mark the shell's own struct terminated, and still it is never
\* reaped, unless a fatal signal reaches it while it waits in a pipe call: the
\* clean-up of schedule() leaves the outgoing task alone and makes it READY.
THEOREM ShellSurvives == Spec => []ShellLostOnlyToSignal
<1>1. Init => ShellInv
  BY DEF Init, ShellInv, ShellLostOnlyToSignal, Tasks
<1>2. ShellInv => ShellLostOnlyToSignal
  BY DEF ShellInv
<1> QED BY <1>1, <1>2, TaskInit, TaskStep, ShellStep, PTL DEF Spec
=============================================================================
