----------------------------- MODULE HeapProofs -----------------------------
(***************************************************************************)
(* As long as the heap has its initial size its chain of blocks covers it  *)
(* and clients' blocks are disjoint, for every size of the heap, of        *)
(* headers, of pages and of requests.                                      *)
(***************************************************************************)
EXTENDS Heap, WellFoundedInduction, TLAPS

Hdr == [size : Nat, free : BOOLEAN, next : Addr \cup {Null}, prev : Addr \cup {Null}]

\* B is the set of block addresses of memory m: blocks from 0 on, each up to
\* the next, up to the end of the initial heap, linked in both directions.
Chained(m, B) ==
    /\ m \in [Addr -> Hdr]
    /\ B \subseteq 0 .. Initial - 1 /\ 0 \in B /\ m[0].prev = Null
    /\ \A a \in B : MinBlock <= m[a].size /\ a + m[a].size <= Initial
    /\ \A a \in B : IF a + m[a].size = Initial THEN m[a].next = Null
                    ELSE m[a].next = a + m[a].size /\ m[a].next \in B
    /\ \A a \in B : m[a].next # Null => m[m[a].next].prev = a
    /\ \A a \in B : a # 0 => m[a].prev \in B /\ m[m[a].prev].next = a
    /\ \A a, b \in B : a < b => a + m[a].size <= b

\* The blocks in use are those of the clients L.
Owned(m, B, L) ==
    /\ \A b \in L : b = [at |-> b.at, total |-> b.total] /\ b.at \in B /\ ~m[b.at].free
    /\ \A b \in L : b.total \in Nat /\ b.total <= m[b.at].size
    /\ \A a \in B : ~m[a].free => \E b \in L : b.at = a
    /\ \A b, c \in L : b.at = c.at => b = c

Sound(m, L) == \E B \in SUBSET Addr : Chained(m, B) /\ Owned(m, B, L)

\* What is kept: until the heap has grown its blocks are sound.
HeapInv ==
    /\ top \in Nat /\ Initial <= top /\ frames \in Nat
    /\ top = Initial => Sound(hdr, live)

-----------------------------------------------------------------------------
(* Natural numbers.                                                        *)

\* Every set of natural numbers that is not empty has a least element.
LEMMA LeastNat ==
    ASSUME NEW S \in SUBSET Nat, S # {}
    PROVE  \E x \in S : \A y \in S : x <= y
<1> DEFINE R == OpToRel(<, Nat)
<1>1. IsWellFoundedOn(R, Nat)
  BY NatLessThanWellFounded
<1>2. \A x, y \in Nat : <<x, y>> \in R <=> x < y
  BY DEF OpToRel
<1> HIDE DEF R
<1>3. PICK x \in S : \A y \in S : ~ (<<y, x>> \in R)
  BY <1>1, WFMin
<1>4. \A y \in S : ~ (y < x)
  BY <1>2, <1>3
<1> QED BY <1>4

\* Min returns it.
LEMMA MinNat ==
    ASSUME NEW S \in SUBSET Nat, S # {}
    PROVE  Min(S) \in S /\ \A y \in S : Min(S) <= y
BY LeastNat DEF Min

\* Induction over the natural numbers, for a set of them.
LEMMA Induction ==
    ASSUME NEW S, 0 \in S, \A n \in Nat : n \in S => n + 1 \in S
    PROVE  Nat \subseteq S
<1> SUFFICES ASSUME Nat \ S # {} PROVE FALSE
  OBVIOUS
<1>1. PICK x \in Nat \ S : \A y \in Nat \ S : x <= y
  <2>1. Nat \ S \in SUBSET Nat
    OBVIOUS
  <2> QED BY <2>1, LeastNat
<1>2. x # 0 /\ x - 1 \in Nat /\ x - 1 \in S
  BY <1>1
<1>3. (x - 1) + 1 \in S
  BY <1>2
<1> QED BY <1>1, <1>3

-----------------------------------------------------------------------------
(* Sizes.                                                                  *)

\* The initial heap is part of the address range.
LEMMA Room ==
    /\ Initial \in Nat /\ MinBlock \in Nat /\ 0 < MinBlock /\ MinBlock <= Initial
    /\ MaxTop \in Nat /\ Initial <= MaxTop
    /\ 0 .. Initial - 1 \subseteq Addr /\ Null \notin Addr
<1>1. Frames * PageSize \in Nat
  BY HeapSizes
<1>2. Initial \in Nat /\ MinBlock \in Nat /\ 0 < MinBlock /\ MinBlock <= Initial
  BY HeapSizes
<1>3. MaxTop \in Nat /\ Initial <= MaxTop
  <2> DEFINE g == Frames * PageSize
  <2>1. MaxTop = Initial + g /\ g \in Nat
    BY <1>1 DEF MaxTop
  <2> HIDE DEF g
  <2> QED BY <1>2, <2>1
<1> QED BY <1>2, <1>3 DEF Addr, Null

\* The larger of two.
LEMMA MaxOfTwo ==
    ASSUME NEW x \in Int, NEW y \in Int
    PROVE  Max({x, y}) \in {x, y} /\ x <= Max({x, y}) /\ y <= Max({x, y})
<1>1. \E z \in {x, y} : \A w \in {x, y} : z >= w
  BY x >= y \/ y >= x
<1> QED BY <1>1 DEF Max

\* Rounding to a multiple gives a natural number, not a smaller one.
LEMMA RoundUpNat ==
    ASSUME NEW n \in Nat, NEW unit \in Nat \ {0}
    PROVE  RoundUp(n, unit) \in Nat /\ n <= RoundUp(n, unit)
<1> DEFINE q == (n + unit - 1) \div unit
           r == (n + unit - 1) % unit
<1>1. n + unit - 1 \in Nat
  OBVIOUS
<1>2. q \in Nat /\ r \in 0 .. unit - 1 /\ n + unit - 1 = unit * q + r
  BY <1>1
<1>3. q * unit \in Nat /\ q * unit = unit * q
  BY <1>2
<1>4. RoundUp(n, unit) = q * unit
  BY DEF RoundUp
<1> QED BY <1>2, <1>3, <1>4

\* A block is never smaller than MIN_BLOCK.
LEMMA TotalNat ==
    ASSUME NEW size \in Sizes
    PROVE  Total(size) \in Nat /\ MinBlock <= Total(size)
<1>1. size \in Nat /\ Align \in Nat \ {0} /\ HeaderSize \in Nat /\ MinBlock \in Nat
  BY HeapSizes
<1>2. RoundUp(size, Align) \in Nat
  BY <1>1, RoundUpNat
<1> DEFINE x == RoundUp(size, Align) + HeaderSize
<1>3. x \in Nat
  BY <1>1, <1>2
<1>4. Total(size) = Max({x, MinBlock})
  BY DEF Total
<1> HIDE DEF x
<1> QED BY <1>1, <1>3, <1>4, MaxOfTwo

-----------------------------------------------------------------------------
(* Taking a block.                                                         *)

\* The facts about one block that the lemmas use.
LEMMA BlockFacts ==
    ASSUME NEW m, NEW B, Chained(m, B), NEW a \in B
    PROVE  /\ a \in Nat /\ a \in Addr /\ m[a] \in Hdr /\ m[a].size \in Nat
           /\ MinBlock <= m[a].size /\ a + m[a].size <= Initial
           /\ IF a + m[a].size = Initial THEN m[a].next = Null
              ELSE m[a].next = a + m[a].size /\ m[a].next \in B
           /\ m[a].next # Null => m[m[a].next].prev = a
           /\ a # 0 => m[a].prev \in B /\ m[m[a].prev].next = a
<1>1. a \in 0 .. Initial - 1
  BY DEF Chained
<1>2. a \in Nat /\ a \in Addr
  BY <1>1, Room
<1>3. m[a] \in Hdr
  BY <1>2 DEF Chained
<1>4. m[a].size \in Nat
  BY <1>3 DEF Hdr
<1> QED BY <1>2, <1>3, <1>4 DEF Chained

\* Being free or not does not matter to the chain.
LEMMA SameLinks ==
    ASSUME NEW m, NEW m2 \in [Addr -> Hdr], NEW B, Chained(m, B),
           \A x \in B : m2[x].size = m[x].size /\ m2[x].next = m[x].next /\ m2[x].prev = m[x].prev
    PROVE  Chained(m2, B)
<1>1. /\ m2 \in [Addr -> Hdr] /\ B \subseteq 0 .. Initial - 1 /\ 0 \in B /\ m2[0].prev = Null
  BY DEF Chained
<1>2. \A x \in B : MinBlock <= m2[x].size /\ x + m2[x].size <= Initial
  BY DEF Chained
<1>3. \A x \in B : IF x + m2[x].size = Initial THEN m2[x].next = Null
                   ELSE m2[x].next = x + m2[x].size /\ m2[x].next \in B
  BY DEF Chained
<1>4. ASSUME NEW x \in B, m2[x].next # Null PROVE m2[m2[x].next].prev = x
  <2>1. m2[x].next = m[x].next /\ m[x].next \in B /\ m[m[x].next].prev = x
    BY <1>4, BlockFacts
  <2> QED BY <2>1
<1>5. \A x \in B : x # 0 => m2[x].prev \in B /\ m2[m2[x].prev].next = x
  <2> SUFFICES ASSUME NEW x \in B, x # 0 PROVE m2[x].prev \in B /\ m2[m2[x].prev].next = x
    OBVIOUS
  <2>1. m2[x].prev = m[x].prev /\ m[x].prev \in B /\ m[m[x].prev].next = x
    BY BlockFacts
  <2> QED BY <2>1
<1>6. \A x, y \in B : x < y => x + m2[x].size <= y
  BY DEF Chained
<1> QED BY <1>1, <1>2, <1>3, <1>4, <1>5, <1>6 DEF Chained

\* m2 is m with block a cut after total and its first part taken.
Cut(m, m2, a, total) ==
    /\ m2 \in [Addr -> Hdr]
    /\ m2[a].size = total /\ m2[a].next = a + total /\ m2[a].prev = m[a].prev /\ m2[a].free = FALSE
    /\ m2[a + total].size = m[a].size - total /\ m2[a + total].next = m[a].next
    /\ m2[a + total].prev = a /\ m2[a + total].free = TRUE
    /\ m[a].next # Null => LET n == m[a].next
                           IN  /\ m2[n].prev = a + total /\ m2[n].size = m[n].size
                               /\ m2[n].next = m[n].next /\ m2[n].free = m[n].free
    /\ \A x \in Addr : x \notin {a, a + total, m[a].next} => m2[x] = m[x]

\* m2 is m with all of block a taken.
Taken(m, m2, a) ==
    /\ m2 \in [Addr -> Hdr]
    /\ m2[a].size = m[a].size /\ m2[a].next = m[a].next /\ m2[a].prev = m[a].prev
    /\ m2[a].free = FALSE
    /\ \A x \in Addr : x # a => m2[x] = m[x]

\* Claim does the one or the other.
LEMMA ClaimTakes ==
    ASSUME NEW m, NEW B, Chained(m, B), NEW a \in B, NEW total \in Nat, MinBlock <= total
    PROVE  IF m[a].size < total + MinBlock THEN Taken(m, Claim(m, a, total), a)
           ELSE Cut(m, Claim(m, a, total), a, total)
<1>1. m \in [Addr -> Hdr]
  BY DEF Chained
<1>2. a \in Nat /\ a \in Addr /\ m[a] \in Hdr /\ m[a].size \in Nat /\ a + m[a].size <= Initial
  BY BlockFacts
<1>3. m[a].next \in Addr \cup {Null} /\ m[a].prev \in Addr \cup {Null} /\ m[a].free \in BOOLEAN
  BY <1>2 DEF Hdr
<1>4. CASE m[a].size < total + MinBlock
  <2> DEFINE m2 == Claim(m, a, total)
  <2>1. m2 = [m EXCEPT ![a].free = FALSE]
    BY <1>4 DEF Claim, Split
  <2>2. m2[a] = [m[a] EXCEPT !.free = FALSE]
    BY <1>1, <1>2, <2>1
  <2>3. m2[a] \in Hdr /\ m2[a].size = m[a].size /\ m2[a].next = m[a].next /\ m2[a].prev = m[a].prev
        /\ m2[a].free = FALSE
    BY <1>2, <2>2 DEF Hdr
  <2>4. m2 \in [Addr -> Hdr] /\ \A x \in Addr : x # a => m2[x] = m[x]
    BY <1>1, <1>2, <2>1, <2>2, <2>3
  <2> HIDE DEF m2
  <2> QED BY <1>4, <2>3, <2>4 DEF Taken, m2
<1>5. CASE ~(m[a].size < total + MinBlock)
  <2> DEFINE c == a + total
             rest == [size |-> m[a].size - total, free |-> TRUE, next |-> m[a].next, prev |-> a]
             cut == [m EXCEPT ![c] = rest, ![a].next = c, ![a].size = total]
             n == m[a].next
             m1 == Split(m, a, total)
             m2 == Claim(m, a, total)
  <2>1. c \in Nat /\ c \in 0 .. Initial - 1 /\ c # a /\ m[a].size - total \in Nat
    BY <1>2, <1>5, Room
  <2>2. c \in Addr
    BY <2>1, Room
  <2>3. rest \in Hdr /\ rest.size = m[a].size - total /\ rest.free = TRUE /\ rest.next = n /\ rest.prev = a
    BY <1>2, <1>3, <2>1 DEF Hdr
  <2>4. n # c /\ n # a
    <3>1. n = Null \/ n = a + m[a].size
      BY BlockFacts
    <3>2. MinBlock \in Nat /\ 0 < MinBlock
      BY Room
    <3> QED BY <1>2, <1>5, <2>1, <3>1, <3>2 DEF Null
  <2> HIDE DEF c, rest
  <2>5. cut \in [Addr -> Hdr] /\ cut[c] = rest
        /\ cut[a].size = total /\ cut[a].next = c /\ cut[a].prev = m[a].prev /\ cut[a].free = m[a].free
        /\ \A x \in Addr : x # a /\ x # c => cut[x] = m[x]
    <3>1. DOMAIN cut = Addr /\ cut[c] = rest /\ \A x \in Addr : x # a /\ x # c => cut[x] = m[x]
      BY <1>1, <1>2, <2>1, <2>2
    <3>2. cut[a] = [m[a] EXCEPT !.next = c, !.size = total]
      BY <1>1, <1>2, <2>1, <2>2
    <3>3. cut[a] \in Hdr /\ cut[a].size = total /\ cut[a].next = c /\ cut[a].prev = m[a].prev
          /\ cut[a].free = m[a].free
      BY <1>2, <2>2, <3>2 DEF Hdr
    <3> HIDE DEF cut
    <3>4. \A x \in Addr : cut[x] \in Hdr
      BY <1>1, <2>3, <3>1, <3>3
    <3>5. cut = [x \in Addr |-> cut[x]]
      BY <1>1 DEF cut
    <3> QED BY <3>1, <3>3, <3>4, <3>5
  <2>6. m1 = IF n = Null THEN cut ELSE [cut EXCEPT ![n].prev = c]
    BY <1>5, <2>3 DEF Split, rest, c
  <2> HIDE DEF cut, m1
  <2>7. /\ m1 \in [Addr -> Hdr] /\ m1[c] = rest
        /\ m1[a] = cut[a]
        /\ n # Null => m1[n] = [m[n] EXCEPT !.prev = c]
        /\ \A x \in Addr : x \notin {a, c, n} => m1[x] = m[x]
    <3>1. CASE n = Null
      BY <2>5, <2>6, <3>1
    <3>2. CASE n # Null
      <4>1. n \in Addr
        BY <1>3, <3>2
      <4>2. m1 = [cut EXCEPT ![n].prev = c] /\ cut[n] = m[n]
        BY <2>4, <2>5, <2>6, <3>2, <4>1
      <4>3. m1[n] = [m[n] EXCEPT !.prev = c] /\ [m[n] EXCEPT !.prev = c] \in Hdr
        BY <1>1, <2>2, <2>5, <4>1, <4>2 DEF Hdr
      <4>4. m1 \in [Addr -> Hdr] /\ \A x \in Addr : x # n => m1[x] = cut[x]
        BY <2>5, <4>1, <4>2, <4>3
      <4> QED BY <1>2, <2>2, <2>4, <2>5, <4>3, <4>4
    <3> QED BY <3>1, <3>2
  <2>8. m2 = [m1 EXCEPT ![a].free = FALSE]
    BY DEF Claim, m1
  <2> HIDE DEF m2, n
  <2>9. m2[a] = [cut[a] EXCEPT !.free = FALSE] /\ m2[a] \in Hdr
    BY <1>2, <2>5, <2>7, <2>8 DEF Hdr
  <2>10. m2 \in [Addr -> Hdr] /\ \A x \in Addr : x # a => m2[x] = m1[x]
    BY <1>2, <2>7, <2>8, <2>9
  <2>11. m2[a].size = total /\ m2[a].next = c /\ m2[a].prev = m[a].prev /\ m2[a].free = FALSE
    BY <1>2, <2>5, <2>9 DEF Hdr
  <2>12. m2[c] = rest
    BY <2>1, <2>2, <2>7, <2>10
  <2>13. ASSUME n # Null
         PROVE  m2[n].prev = c /\ m2[n].size = m[n].size /\ m2[n].next = m[n].next /\ m2[n].free = m[n].free
    <3>1. n \in Addr
      BY <1>3, <2>13 DEF n
    <3>2. m2[n] = [m[n] EXCEPT !.prev = c] /\ m[n] \in Hdr
      BY <1>1, <2>4, <2>7, <2>10, <2>13, <3>1 DEF n
    <3> QED BY <3>2 DEF Hdr
  <2>14. \A x \in Addr : x \notin {a, c, n} => m2[x] = m[x]
    BY <2>7, <2>10
  <2>15. Cut(m, m2, a, total)
    BY <2>3, <2>10, <2>11, <2>12, <2>13, <2>14 DEF Cut, c, n
  <2> QED BY <1>5, <2>15 DEF m2
<1> QED BY <1>4, <1>5

\* The client that takes block a.
Client(a, total) == [at |-> a, total |-> total]

\* A block taken whole.
LEMMA TakenKeeps ==
    ASSUME NEW m, NEW m2, NEW B, NEW L, Chained(m, B), Owned(m, B, L), NEW a \in B, m[a].free,
           NEW total \in Nat, total <= m[a].size, Taken(m, m2, a)
    PROVE  /\ Chained(m2, B) /\ Owned(m2, B, L \cup {Client(a, total)})
           /\ \A b \in L : b.at # a
<1>1. \A x \in B : x \in Addr
  BY BlockFacts
<1>2. \A x \in B : m2[x].size = m[x].size /\ m2[x].next = m[x].next /\ m2[x].prev = m[x].prev
  BY <1>1 DEF Taken
<1>3. Chained(m2, B)
  BY <1>2, SameLinks DEF Taken
<1>4. \A b \in L : b.at # a
  BY DEF Owned
<1>5. \A x \in B : x # a => m2[x].free = m[x].free
  BY <1>1 DEF Taken
<1>6. Client(a, total).at = a /\ Client(a, total).total = total
  BY DEF Client
<1>7. Client(a, total) = [at |-> Client(a, total).at, total |-> Client(a, total).total]
  BY DEF Client
<1>8. m2[a].free = FALSE /\ m2[a].size = m[a].size
  BY DEF Taken
<1> DEFINE M == L \cup {Client(a, total)}
<1>9. \A b \in M : b = [at |-> b.at, total |-> b.total] /\ b.at \in B /\ ~m2[b.at].free
  BY <1>4, <1>5, <1>6, <1>7, <1>8 DEF Owned
<1>10. \A b \in M : b.total \in Nat /\ b.total <= m2[b.at].size
  BY <1>2, <1>6, <1>8 DEF Owned
<1>11. \A x \in B : ~m2[x].free => \E b \in M : b.at = x
  <2> SUFFICES ASSUME NEW x \in B, ~m2[x].free PROVE \E b \in M : b.at = x
    OBVIOUS
  <2>1. CASE x = a
    BY <1>6, <2>1
  <2>2. CASE x # a
    <3>1. ~m[x].free
      BY <1>5, <2>2
    <3>2. PICK b \in L : b.at = x
      BY <3>1 DEF Owned
    <3> QED BY <3>2
  <2> QED BY <2>1, <2>2
<1>12. \A b, c \in M : b.at = c.at => b = c
  BY <1>4, <1>6 DEF Owned
<1> HIDE DEF M
<1>13. Owned(m2, B, M)
  BY <1>9, <1>10, <1>11, <1>12 DEF Owned
<1> QED BY <1>3, <1>4, <1>13 DEF M

\* The part cut off is a block of its own.
LEMMA CutChained ==
    ASSUME NEW m, NEW m2, NEW B, Chained(m, B), NEW a \in B,
           NEW total \in Nat, MinBlock <= total, total + MinBlock <= m[a].size, Cut(m, m2, a, total)
    PROVE  Chained(m2, B \cup {a + total}) /\ a + total \notin B
<1> DEFINE c == a + total
           n == m[a].next
           C == B \cup {c}
<1>1. /\ a \in Nat /\ a \in Addr /\ m[a].size \in Nat /\ a + m[a].size <= Initial
      /\ IF a + m[a].size = Initial THEN n = Null ELSE n = a + m[a].size /\ n \in B
      /\ n # Null => m[n].prev = a
  BY BlockFacts
<1>2. MinBlock \in Nat /\ 0 < MinBlock /\ Initial \in Nat
  BY Room
<1>3. c \in Nat /\ c \in 0 .. Initial - 1 /\ a < c /\ c + (m[a].size - total) = a + m[a].size
      /\ MinBlock <= m[a].size - total
  BY <1>1, <1>2
<1>4. \A x \in B : /\ x \in Nat /\ x \in Addr /\ m[x].size \in Nat /\ MinBlock <= m[x].size
                   /\ x + m[x].size <= Initial
                   /\ IF x + m[x].size = Initial THEN m[x].next = Null
                      ELSE m[x].next = x + m[x].size /\ m[x].next \in B
                   /\ m[x].next # Null => m[m[x].next].prev = x
                   /\ x # 0 => m[x].prev \in B /\ m[m[x].prev].next = x
  BY BlockFacts
<1>5. \A x, y \in B : x < y => x + m[x].size <= y
  BY DEF Chained
<1>6. c \notin B
  <2>1. c \in B => a + m[a].size <= c
    BY <1>3, <1>5
  <2> QED BY <1>1, <1>2, <1>3, <2>1
<1>7. /\ m2[a].size = total /\ m2[a].next = c /\ m2[a].prev = m[a].prev
      /\ m2[c].size = m[a].size - total /\ m2[c].next = n /\ m2[c].prev = a
      /\ n # Null => m2[n].prev = c /\ m2[n].size = m[n].size /\ m2[n].next = m[n].next
      /\ \A x \in Addr : x \notin {a, c, n} => m2[x] = m[x]
      /\ m2 \in [Addr -> Hdr]
  BY DEF Cut
<1> HIDE DEF c, n
<1>8. \A x \in B : x # a => m2[x].size = m[x].size /\ m2[x].next = m[x].next
  <2> SUFFICES ASSUME NEW x \in B, x # a PROVE m2[x].size = m[x].size /\ m2[x].next = m[x].next
    OBVIOUS
  <2>1. x # Null
    BY <1>4 DEF Null
  <2>2. CASE x = n
    BY <1>7, <2>1, <2>2
  <2>3. CASE x # n
    BY <1>4, <1>6, <1>7, <2>3
  <2> QED BY <2>2, <2>3
<1>9. \A x \in B : x # n => m2[x].prev = m[x].prev
  BY <1>4, <1>6, <1>7
<1>10. C \subseteq 0 .. Initial - 1 /\ 0 \in C
  BY <1>3 DEF Chained
<1>11. n # 0 /\ n # a
  <2>1. n = Null \/ n = a + m[a].size
    BY <1>1
  <2>2. m[a].size > 0
    BY <1>1, <1>2, <1>4
  <2> QED BY <1>1, <2>1, <2>2 DEF Null
<1>12. m2[0].prev = Null
  <2>1. 0 \in B /\ m[0].prev = Null
    BY DEF Chained
  <2> QED BY <1>9, <1>11, <2>1
<1>13. \A x \in C : MinBlock <= m2[x].size /\ x + m2[x].size <= Initial
  <2> SUFFICES ASSUME NEW x \in C PROVE MinBlock <= m2[x].size /\ x + m2[x].size <= Initial
    OBVIOUS
  <2>1. CASE x = c
    BY <1>1, <1>3, <1>7, <2>1
  <2>2. CASE x = a
    BY <1>2, <1>3, <1>7, <2>2 DEF c
  <2>3. CASE x \in B /\ x # a
    BY <1>4, <1>8, <2>3
  <2> QED BY <2>1, <2>2, <2>3
<1>14. \A x \in C : IF x + m2[x].size = Initial THEN m2[x].next = Null
                    ELSE m2[x].next = x + m2[x].size /\ m2[x].next \in C
  <2> SUFFICES ASSUME NEW x \in C
               PROVE  IF x + m2[x].size = Initial THEN m2[x].next = Null
                      ELSE m2[x].next = x + m2[x].size /\ m2[x].next \in C
    OBVIOUS
  <2>1. CASE x = c
    <3>1. x + m2[x].size = a + m[a].size /\ m2[x].next = n
      BY <1>3, <1>7, <2>1
    <3> QED BY <1>1, <3>1
  <2>2. CASE x = a
    <3>1. x + m2[x].size = c /\ m2[x].next = c /\ c # Initial
      BY <1>2, <1>3, <1>7, <2>2 DEF c
    <3> QED BY <3>1
  <2>3. CASE x \in B /\ x # a
    BY <1>4, <1>8, <2>3
  <2> QED BY <2>1, <2>2, <2>3
<1>15. \A x \in C : m2[x].next # Null => m2[m2[x].next].prev = x
  <2> SUFFICES ASSUME NEW x \in C, m2[x].next # Null PROVE m2[m2[x].next].prev = x
    OBVIOUS
  <2>1. CASE x = c
    BY <1>7, <2>1
  <2>2. CASE x = a
    BY <1>7, <2>2
  <2>3. CASE x \in B /\ x # a
    <3>1. m2[x].next = m[x].next /\ m[x].next \in B /\ m[m[x].next].prev = x
      BY <1>4, <1>8, <2>3
    <3>2. m[x].next # n
      BY <1>1, <2>3, <3>1 DEF Null
    <3> QED BY <1>9, <3>1, <3>2
  <2> QED BY <2>1, <2>2, <2>3
<1>16. \A x \in C : x # 0 => m2[x].prev \in C /\ m2[m2[x].prev].next = x
  <2> SUFFICES ASSUME NEW x \in C, x # 0 PROVE m2[x].prev \in C /\ m2[m2[x].prev].next = x
    OBVIOUS
  <2>1. CASE x = c
    BY <1>7, <2>1
  <2>2. CASE x = n /\ x \in B
    <3>1. n # Null
      BY <1>4, <2>2 DEF Null
    <3> QED BY <1>7, <2>2, <3>1
  <2>3. CASE x \in B /\ x # n
    <3>1. m2[x].prev = m[x].prev /\ m[x].prev \in B /\ m[m[x].prev].next = x
      BY <1>4, <1>9, <2>3
    <3>2. m[x].prev # a
      BY <2>3, <3>1 DEF n
    <3> QED BY <1>8, <3>1, <3>2
  <2> QED BY <2>1, <2>2, <2>3
<1>17. \A x, y \in C : x < y => x + m2[x].size <= y
  <2> SUFFICES ASSUME NEW x \in C, NEW y \in C, x < y PROVE x + m2[x].size <= y
    OBVIOUS
  <2>1. CASE x = c /\ y = c
    BY <1>3, <2>1
  <2>2. CASE x = c /\ y \in B
    <3>1. x + m2[x].size = a + m[a].size
      BY <1>3, <1>7, <2>2
    <3>2. a < y
      BY <1>1, <1>3, <1>4, <2>2
    <3> QED BY <1>5, <2>2, <3>1, <3>2
  <2>3. CASE x = a /\ y \in C
    <3>1. x + m2[x].size = c
      BY <1>7, <2>3 DEF c
    <3>2. y \in B => a + m[a].size <= y
      BY <1>5, <2>3
    <3> QED BY <1>1, <1>3, <1>2, <1>4, <2>3, <3>1, <3>2
  <2>4. CASE x \in B /\ x # a /\ y \in B
    BY <1>5, <1>8, <2>4
  <2>5. CASE x \in B /\ x # a /\ y = c
    <3>1. x < a \/ a < x
      BY <1>1, <1>4, <2>5
    <3>2. CASE x < a
      <4>1. x + m[x].size <= a
        BY <1>5, <2>5, <3>2
      <4>2. m2[x].size = m[x].size /\ m[x].size \in Nat /\ x \in Nat
        BY <1>4, <1>8, <2>5
      <4> QED BY <1>1, <1>3, <2>5, <4>1, <4>2
    <3>3. CASE a < x
      <4>1. a + m[a].size <= x
        BY <1>5, <2>5, <3>3
      <4> QED BY <1>1, <1>2, <1>3, <1>4, <2>5, <4>1
    <3> QED BY <3>1, <3>2, <3>3
  <2> QED BY <2>1, <2>2, <2>3, <2>4, <2>5
<1> HIDE DEF C
<1>18. Chained(m2, C)
  BY <1>7, <1>10, <1>12, <1>13, <1>14, <1>15, <1>16, <1>17 DEF Chained
<1> QED BY <1>6, <1>18 DEF C, c

\* The clients after a cut.
LEMMA CutOwned ==
    ASSUME NEW m, NEW m2, NEW B, NEW L, Chained(m, B), Owned(m, B, L), NEW a \in B, m[a].free,
           NEW total \in Nat, MinBlock <= total, total + MinBlock <= m[a].size, Cut(m, m2, a, total)
    PROVE  /\ Owned(m2, B \cup {a + total}, L \cup {Client(a, total)})
           /\ \A b \in L : b.at # a
<1> DEFINE c == a + total
           n == m[a].next
           C == B \cup {c}
           M == L \cup {Client(a, total)}
<1>1. \A x \in B : x \in Addr /\ x # Null /\ x # c
  <2>1. \A x \in B : x \in Addr /\ x \in Nat
    BY BlockFacts
  <2>2. c \notin B
    BY CutChained
  <2> QED BY <2>1, <2>2 DEF Null
<1>2. /\ m2[a].size = total /\ m2[a].free = FALSE /\ m2[c].free = TRUE
      /\ n # Null => m2[n].size = m[n].size /\ m2[n].free = m[n].free
      /\ \A x \in Addr : x \notin {a, c, n} => m2[x] = m[x]
  BY DEF Cut
<1> HIDE DEF c, n
<1>3. \A x \in B : x # a => m2[x].size = m[x].size /\ m2[x].free = m[x].free
  BY <1>1, <1>2
<1>4. \A b \in L : b.at # a
  BY DEF Owned
<1>5. Client(a, total).at = a /\ Client(a, total).total = total
      /\ Client(a, total) = [at |-> Client(a, total).at, total |-> Client(a, total).total]
  BY DEF Client
<1>6. \A b \in M : b = [at |-> b.at, total |-> b.total] /\ b.at \in C /\ ~m2[b.at].free
  BY <1>2, <1>3, <1>4, <1>5 DEF Owned
<1>7. \A b \in M : b.total \in Nat /\ b.total <= m2[b.at].size
  BY <1>2, <1>3, <1>4, <1>5 DEF Owned
<1>8. \A x \in C : ~m2[x].free => \E b \in M : b.at = x
  <2> SUFFICES ASSUME NEW x \in C, ~m2[x].free PROVE \E b \in M : b.at = x
    OBVIOUS
  <2>1. CASE x = a
    BY <1>5, <2>1
  <2>2. CASE x \in B /\ x # a
    <3>1. ~m[x].free
      BY <1>3, <2>2
    <3>2. PICK b \in L : b.at = x
      BY <2>2, <3>1 DEF Owned
    <3> QED BY <3>2
  <2> QED BY <1>2, <2>1, <2>2
<1>9. \A b, d \in M : b.at = d.at => b = d
  BY <1>4, <1>5 DEF Owned
<1> HIDE DEF M, C
<1>10. Owned(m2, C, M)
  BY <1>6, <1>7, <1>8, <1>9 DEF Owned
<1> QED BY <1>4, <1>10 DEF M, C, c

\* kmalloc's first loop finds a block: it is taken, whole or its first part, and
\* it was nobody's.
LEMMA ClaimKeeps ==
    ASSUME NEW m, NEW L, NEW B \in SUBSET Addr, Chained(m, B), Owned(m, B, L), NEW a \in B, m[a].free,
           NEW total \in Nat, MinBlock <= total, total <= m[a].size
    PROVE  /\ Sound(Claim(m, a, total), L \cup {Client(a, total)})
           /\ \A b \in L : b.at # a
<1> DEFINE m2 == Claim(m, a, total)
<1>1. IF m[a].size < total + MinBlock THEN Taken(m, m2, a) ELSE Cut(m, m2, a, total)
  BY ClaimTakes
<1> HIDE DEF m2
<1>2. CASE m[a].size < total + MinBlock
  <2>1. Chained(m2, B) /\ Owned(m2, B, L \cup {Client(a, total)}) /\ \A b \in L : b.at # a
    BY <1>1, <1>2, TakenKeeps
  <2> QED BY <2>1 DEF Sound, m2
<1>3. CASE ~(m[a].size < total + MinBlock)
  <2>1. total + MinBlock <= m[a].size
    BY <1>3, BlockFacts, Room
  <2>2. Cut(m, m2, a, total)
    BY <1>1, <1>3
  <2>3. Chained(m2, B \cup {a + total})
    BY <2>1, <2>2, CutChained
  <2>4. Owned(m2, B \cup {a + total}, L \cup {Client(a, total)}) /\ \A b \in L : b.at # a
    BY <2>1, <2>2, CutOwned
  <2>5. B \cup {a + total} \in SUBSET Addr
    <3>1. B \cup {a + total} \subseteq 0 .. Initial - 1
      BY <2>3 DEF Chained
    <3> QED BY <3>1, Room
  <2> QED BY <2>3, <2>4, <2>5 DEF Sound, m2
<1> QED BY <1>2, <1>3

-----------------------------------------------------------------------------
(* Giving a block back.                                                    *)

\* m2 is m with the block behind a joined to a.
Merged(m, m2, a) ==
    LET n == m[a].next
        f == m[n].next
    IN  /\ m2 \in [Addr -> Hdr]
        /\ m2[a].size = m[a].size + m[n].size /\ m2[a].next = f
        /\ m2[a].prev = m[a].prev /\ m2[a].free = m[a].free
        /\ f # Null => /\ m2[f].prev = a /\ m2[f].size = m[f].size
                       /\ m2[f].next = m[f].next /\ m2[f].free = m[f].free
        /\ \A x \in Addr : x \notin {a, n, f} => m2[x] = m[x]

\* Coalesce does that when there is a free block behind a, and else nothing.
LEMMA CoalesceMerges ==
    ASSUME NEW m, NEW B, Chained(m, B), NEW a \in B
    PROVE  \/ Coalesce(m, a) = m
           \/ m[a].next # Null /\ m[m[a].next].free /\ Merged(m, Coalesce(m, a), a)
<1> DEFINE n == m[a].next
           f == m[n].next
           m2 == Coalesce(m, a)
<1>1. CASE n = Null \/ ~m[n].free
  BY <1>1 DEF Coalesce
<1>2. CASE n # Null /\ m[n].free
  <2>1. m \in [Addr -> Hdr] /\ a \in Addr /\ a \in Nat /\ m[a].size \in Nat /\ m[a] \in Hdr
    BY BlockFacts DEF Chained
  <2>2. n = a + m[a].size /\ n \in B /\ MinBlock <= m[a].size
    BY <1>2, BlockFacts
  <2>3. n \in Addr /\ n \in Nat /\ m[n].size \in Nat /\ m[n] \in Hdr /\ MinBlock <= m[n].size
        /\ (f = Null \/ (f = n + m[n].size /\ f \in B))
    BY <2>2, BlockFacts
  <2>4. n # a /\ f # a /\ f # n
    BY <2>1, <2>2, <2>3, Room DEF Null
  <2>5. f \in Addr \cup {Null} /\ m[a].size + m[n].size \in Nat
    BY <2>1, <2>3 DEF Hdr
  <2> DEFINE bl == IF n = heap_end THEN m[n] ELSE Blank
             total == m[a].size + m[n].size
             cut == [m EXCEPT ![a].size = @ + m[n].size, ![a].next = m[n].next,
                              ![n] = IF n = heap_end THEN @ ELSE Blank]
  <2>6. bl \in Hdr
    BY <2>3 DEF Hdr, Blank
  <2>7. m2 = IF f = Null THEN cut ELSE [cut EXCEPT ![f].prev = a]
    BY <1>2 DEF Coalesce
  <2>8. cut[a] = [m[a] EXCEPT !.size = total, !.next = f] /\ cut[n] = bl
        /\ (\A x \in Addr : x # a /\ x # n => cut[x] = m[x]) /\ cut = [x \in Addr |-> cut[x]]
    <3>1. cut = [m EXCEPT ![a].size = total, ![a].next = f, ![n] = bl]
      BY <2>1, <2>3, <2>4
    <3>2. cut[a] = [m[a] EXCEPT !.size = total, !.next = f]
      <4> HIDE DEF total, f, bl, cut
      <4> QED BY <2>1, <2>3, <2>4, <3>1
    <3>3. cut[n] = bl
      <4> HIDE DEF total, f, bl, cut
      <4> QED BY <2>1, <2>3, <2>4, <3>1
    <3>4. (\A x \in Addr : x # a /\ x # n => cut[x] = m[x]) /\ cut = [x \in Addr |-> cut[x]]
      <4> HIDE DEF total, f, bl, cut
      <4> QED BY <2>1, <3>1
    <3> QED BY <3>2, <3>3, <3>4
  <2> HIDE DEF cut, bl, total, f, m2
  <2>9. cut[a] \in Hdr /\ cut[a].size = total /\ cut[a].next = f /\ cut[a].prev = m[a].prev
        /\ cut[a].free = m[a].free
    BY <2>1, <2>5, <2>8 DEF Hdr, total
  <2>10. \A x \in Addr : cut[x] \in Hdr
    BY <2>1, <2>6, <2>8, <2>9
  <2>11. cut \in [Addr -> Hdr]
    BY <2>8, <2>10
  <2>12. Merged(m, m2, a)
    <3>1. CASE f = Null
      <4>1. m2 = cut
        BY <2>7, <3>1
      <4> QED BY <2>8, <2>9, <2>11, <3>1, <4>1 DEF Merged, total, f
    <3>2. CASE f # Null
      <4>1. m2 = [cut EXCEPT ![f].prev = a] /\ f \in Addr /\ cut[f] = m[f] /\ m[f] \in Hdr
        BY <2>1, <2>4, <2>5, <2>7, <2>8, <3>2
      <4>2. m2[f] = [m[f] EXCEPT !.prev = a]
        BY <2>11, <4>1
      <4>3. m2[f] \in Hdr /\ m2[f].prev = a /\ m2[f].size = m[f].size /\ m2[f].next = m[f].next
            /\ m2[f].free = m[f].free
        BY <2>1, <4>1, <4>2 DEF Hdr
      <4>4. m2 \in [Addr -> Hdr] /\ \A x \in Addr : x # f => m2[x] = cut[x]
        BY <2>11, <4>1, <4>3
      <4>5. m2[a].size = total /\ m2[a].next = f /\ m2[a].prev = m[a].prev /\ m2[a].free = m[a].free
        BY <2>1, <2>4, <2>9, <4>4
      <4>6. \A x \in Addr : x \notin {a, n, f} => m2[x] = m[x]
        BY <2>8, <4>4
      <4> QED BY <4>3, <4>4, <4>5, <4>6 DEF Merged, total, f
    <3> QED BY <3>1, <3>2
  <2> QED BY <1>2, <2>12 DEF m2
<1> QED BY <1>1, <1>2

\* Two blocks joined are one block.
LEMMA MergedChained ==
    ASSUME NEW m, NEW m2, NEW B, Chained(m, B), NEW a \in B, m[a].next # Null, Merged(m, m2, a)
    PROVE  Chained(m2, B \ {m[a].next}) /\ m[a].next \in B /\ m[a].next # a
<1> DEFINE n == m[a].next
           f == m[n].next
           C == B \ {n}
<1>1. \A x \in B : /\ x \in Nat /\ x \in Addr /\ m[x].size \in Nat /\ MinBlock <= m[x].size
                   /\ x + m[x].size <= Initial
                   /\ IF x + m[x].size = Initial THEN m[x].next = Null
                      ELSE m[x].next = x + m[x].size /\ m[x].next \in B
                   /\ m[x].next # Null => m[m[x].next].prev = x
                   /\ x # 0 => m[x].prev \in B /\ m[m[x].prev].next = x
  BY BlockFacts
<1>2. MinBlock \in Nat /\ 0 < MinBlock /\ Initial \in Nat
  BY Room
<1>3. \A x, y \in B : x < y => x + m[x].size <= y
  BY DEF Chained
<1>4. n = a + m[a].size /\ n \in B /\ m[n].prev = a
  BY <1>1
<1>5. IF n + m[n].size = Initial THEN f = Null ELSE f = n + m[n].size /\ f \in B
  BY <1>1, <1>4
<1>6. /\ m2 \in [Addr -> Hdr]
      /\ m2[a].size = m[a].size + m[n].size /\ m2[a].next = f /\ m2[a].prev = m[a].prev
      /\ f # Null => m2[f].prev = a /\ m2[f].size = m[f].size /\ m2[f].next = m[f].next
      /\ \A x \in Addr : x \notin {a, n, f} => m2[x] = m[x]
  BY DEF Merged
<1>7. a \in Nat /\ m[a].size \in Nat /\ n \in Nat /\ m[n].size \in Nat /\ MinBlock <= m[a].size
      /\ MinBlock <= m[n].size /\ n + m[n].size <= Initial
  BY <1>1, <1>4
<1> HIDE DEF f, n
<1>8. a < n /\ a # n /\ (f # Null => n < f) /\ f # 0
  BY <1>2, <1>4, <1>5, <1>7 DEF Null
<1>9. \A x \in C : x # a => m2[x].size = m[x].size /\ m2[x].next = m[x].next
  <2> SUFFICES ASSUME NEW x \in C, x # a PROVE m2[x].size = m[x].size /\ m2[x].next = m[x].next
    OBVIOUS
  <2>1. x # Null
    BY <1>1 DEF Null
  <2>2. CASE x = f
    BY <1>6, <2>1, <2>2
  <2>3. CASE x # f
    BY <1>1, <1>6, <2>3
  <2> QED BY <2>2, <2>3
<1>10. \A x \in C : x # f => m2[x].prev = m[x].prev
  BY <1>1, <1>6
<1>11. C \subseteq 0 .. Initial - 1 /\ 0 \in C /\ a \in C
  BY <1>7, <1>8 DEF Chained
<1>12. m2[0].prev = Null
  <2>1. m[0].prev = Null
    BY DEF Chained
  <2> QED BY <1>8, <1>10, <1>11, <2>1
<1>13. \A x \in C : MinBlock <= m2[x].size /\ x + m2[x].size <= Initial
  <2> SUFFICES ASSUME NEW x \in C PROVE MinBlock <= m2[x].size /\ x + m2[x].size <= Initial
    OBVIOUS
  <2>1. CASE x = a
    BY <1>2, <1>4, <1>6, <1>7, <2>1
  <2>2. CASE x # a
    BY <1>1, <1>9, <2>2
  <2> QED BY <2>1, <2>2
<1>14. \A x \in C : IF x + m2[x].size = Initial THEN m2[x].next = Null
                    ELSE m2[x].next = x + m2[x].size /\ m2[x].next \in C
  <2> SUFFICES ASSUME NEW x \in C
               PROVE  IF x + m2[x].size = Initial THEN m2[x].next = Null
                      ELSE m2[x].next = x + m2[x].size /\ m2[x].next \in C
    OBVIOUS
  <2>1. CASE x = a
    <3>1. x + m2[x].size = n + m[n].size /\ m2[x].next = f
      BY <1>4, <1>6, <1>7, <2>1
    <3>2. f \in B => f \in C
      BY <1>1, <1>7, <1>8 DEF Null
    <3> QED BY <1>5, <3>1, <3>2
  <2>2. CASE x # a
    <3>1. m2[x].size = m[x].size /\ m2[x].next = m[x].next
      BY <1>9, <2>2
    <3>2. m[x].next # n
      <4>1. n # Null
        BY <1>7 DEF Null
      <4> QED BY <1>1, <1>4, <2>2, <4>1
    <3> QED BY <1>1, <3>1, <3>2
  <2> QED BY <2>1, <2>2
<1>15. \A x \in C : m2[x].next # Null => m2[m2[x].next].prev = x
  <2> SUFFICES ASSUME NEW x \in C, m2[x].next # Null PROVE m2[m2[x].next].prev = x
    OBVIOUS
  <2>1. CASE x = a
    BY <1>6, <2>1
  <2>2. CASE x # a
    <3>1. m2[x].next = m[x].next /\ m[x].next \in B /\ m[m[x].next].prev = x
      BY <1>1, <1>9, <2>2
    <3>2. m2[x].next \in C
      BY <1>14
    <3>3. m[x].next # f
      <4>1. f # Null => m[f].prev = n
        BY <1>1, <1>4 DEF f
      <4> QED BY <1>1, <3>1, <4>1 DEF Null
    <3> QED BY <1>10, <3>1, <3>2, <3>3
  <2> QED BY <2>1, <2>2
<1>16. \A x \in C : x # 0 => m2[x].prev \in C /\ m2[m2[x].prev].next = x
  <2> SUFFICES ASSUME NEW x \in C, x # 0 PROVE m2[x].prev \in C /\ m2[m2[x].prev].next = x
    OBVIOUS
  <2>1. CASE x = f
    <3>1. f # Null
      BY <1>1, <2>1 DEF Null
    <3> QED BY <1>6, <1>11, <2>1, <3>1
  <2>2. CASE x # f
    <3>1. m2[x].prev = m[x].prev /\ m[x].prev \in B /\ m[m[x].prev].next = x
      BY <1>1, <1>10, <2>2
    <3>2. m[x].prev # a /\ m[x].prev # n
      BY <2>2, <3>1 DEF n, f
    <3> QED BY <1>9, <3>1, <3>2
  <2> QED BY <2>1, <2>2
<1>17. \A x, y \in C : x < y => x + m2[x].size <= y
  <2> SUFFICES ASSUME NEW x \in C, NEW y \in C, x < y PROVE x + m2[x].size <= y
    OBVIOUS
  <2>1. CASE x = a
    <3>1. n <= y /\ y # n
      BY <1>3, <1>4, <2>1
    <3>2. n + m[n].size <= y
      BY <1>1, <1>3, <1>4, <1>7, <3>1
    <3> QED BY <1>4, <1>6, <1>7, <2>1, <3>2
  <2>2. CASE x # a
    BY <1>3, <1>9, <2>2
  <2> QED BY <2>1, <2>2
<1> HIDE DEF C
<1>18. Chained(m2, C)
  BY <1>6, <1>11, <1>12, <1>13, <1>14, <1>15, <1>16, <1>17 DEF Chained
<1> QED BY <1>4, <1>8, <1>18 DEF C, n

\* The clients do not notice.
LEMMA MergedOwned ==
    ASSUME NEW m, NEW m2, NEW B, NEW L, Chained(m, B), Owned(m, B, L), NEW a \in B,
           m[a].next # Null, m[m[a].next].free, Merged(m, m2, a)
    PROVE  Owned(m2, B \ {m[a].next}, L)
<1> DEFINE n == m[a].next
           f == m[n].next
           C == B \ {n}
<1>1. \A x \in B : x \in Addr /\ x # Null /\ m[x].size \in Nat
  BY BlockFacts DEF Null
<1>2. n \in B /\ n # a
  BY MergedChained
<1>3. /\ m2[a].size = m[a].size + m[n].size /\ m2[a].free = m[a].free
      /\ f # Null => m2[f].size = m[f].size /\ m2[f].free = m[f].free
      /\ \A x \in Addr : x \notin {a, n, f} => m2[x] = m[x]
  BY DEF Merged
<1>4. m[n].free
  OBVIOUS
<1> HIDE DEF n, f
<1>5. \A x \in C : m2[x].free = m[x].free /\ m[x].size <= m2[x].size
  <2> SUFFICES ASSUME NEW x \in C PROVE m2[x].free = m[x].free /\ m[x].size <= m2[x].size
    OBVIOUS
  <2>1. CASE x = a
    BY <1>1, <1>2, <1>3, <2>1
  <2>2. CASE x # a /\ x = f
    BY <1>1, <1>3, <2>2
  <2>3. CASE x # a /\ x # f
    BY <1>1, <1>3, <2>3
  <2> QED BY <2>1, <2>2, <2>3
<1>6. \A b \in L : b.at \in C
  BY <1>4 DEF Owned
<1>7. \A x \in C : m2[x].size \in Nat
  <2>1. m2 \in [Addr -> Hdr]
    BY DEF Merged
  <2> QED BY <1>1, <2>1 DEF Hdr
<1>8. \A b \in L : b.total \in Nat /\ b.total <= m2[b.at].size
  <2> SUFFICES ASSUME NEW b \in L PROVE b.total \in Nat /\ b.total <= m2[b.at].size
    OBVIOUS
  <2>1. b.total \in Nat /\ b.total <= m[b.at].size /\ b.at \in C
    BY <1>6 DEF Owned
  <2>2. m[b.at].size <= m2[b.at].size /\ m[b.at].size \in Nat /\ m2[b.at].size \in Nat
    BY <1>1, <1>5, <1>7, <2>1
  <2> QED BY <2>1, <2>2
<1>9. \A b \in L : b = [at |-> b.at, total |-> b.total] /\ b.at \in C /\ ~m2[b.at].free
  BY <1>5, <1>6 DEF Owned
<1>10. \A x \in C : ~m2[x].free => \E b \in L : b.at = x
  BY <1>5 DEF Owned
<1>11. \A b, c \in L : b.at = c.at => b = c
  BY DEF Owned
<1> HIDE DEF C
<1>12. Owned(m2, C, L)
  BY <1>8, <1>9, <1>10, <1>11 DEF Owned
<1> QED BY <1>12 DEF C, n

\* kfree: the block is nobody's any more, and one neighbour at most is joined.
LEMMA FreedKeeps ==
    ASSUME NEW m, NEW L, Sound(m, L), NEW b \in L
    PROVE  Sound(Freed(m, b.at), L \ {b})
<1> DEFINE a == b.at
           m1 == [m EXCEPT ![a].free = TRUE]
           p == m1[a].prev
           x == IF p = Null THEN a ELSE IF m1[p].free THEN p ELSE a
           M == L \ {b}
<1>1. PICK B \in SUBSET Addr : Chained(m, B) /\ Owned(m, B, L)
  BY DEF Sound
<1>2. a \in B /\ a \in Addr /\ m[a] \in Hdr /\ m \in [Addr -> Hdr]
  BY <1>1, BlockFacts DEF Owned, Chained
<1>3. m1[a] = [m[a] EXCEPT !.free = TRUE] /\ m1 = [y \in Addr |-> m1[y]]
      /\ \A y \in Addr : y # a => m1[y] = m[y]
  BY <1>2
<1> HIDE DEF a, m1
<1>4. m1[a] \in Hdr /\ m1[a].size = m[a].size /\ m1[a].next = m[a].next /\ m1[a].prev = m[a].prev
      /\ m1[a].free = TRUE
  BY <1>2, <1>3 DEF Hdr
<1>5. m1 \in [Addr -> Hdr]
  <2>1. \A y \in Addr : m1[y] \in Hdr
    BY <1>2, <1>3, <1>4
  <2> QED BY <1>3, <2>1
<1>6. \A y \in B : m1[y].size = m[y].size /\ m1[y].next = m[y].next /\ m1[y].prev = m[y].prev
  BY <1>1, <1>3, <1>4
<1>7. Chained(m1, B)
  BY <1>1, <1>5, <1>6, SameLinks
<1>8. \A c \in M : c.at # a /\ c \in L
  BY <1>1 DEF Owned, a
<1>9. Owned(m1, B, M)
  <2>1. \A c \in M : c = [at |-> c.at, total |-> c.total] /\ c.at \in B /\ ~m1[c.at].free
    BY <1>1, <1>3, <1>8 DEF Owned
  <2>2. \A c \in M : c.total \in Nat /\ c.total <= m1[c.at].size
    BY <1>1, <1>6, <1>8 DEF Owned
  <2>3. \A y \in B : ~m1[y].free => \E c \in M : c.at = y
    <3> SUFFICES ASSUME NEW y \in B, ~m1[y].free PROVE \E c \in M : c.at = y
      OBVIOUS
    <3>1. y # a /\ ~m[y].free
      BY <1>1, <1>3, <1>4
    <3>2. PICK c \in L : c.at = y
      BY <1>1, <3>1 DEF Owned
    <3> QED BY <3>1, <3>2 DEF a
  <2>4. \A c, d \in M : c.at = d.at => c = d
    BY <1>1, <1>8 DEF Owned
  <2> HIDE DEF M
  <2> QED BY <2>1, <2>2, <2>3, <2>4 DEF Owned
<1>10. x \in B
  <2>1. p # Null => p \in B
    BY <1>2, <1>7, BlockFacts DEF Chained
  <2> QED BY <1>2, <2>1
<1>11. Freed(m, b.at) = Coalesce(m1, x)
  BY DEF Freed, m1, a
<1> HIDE DEF x, M, p
<1>12. CASE Coalesce(m1, x) = m1
  BY <1>1, <1>7, <1>9, <1>11, <1>12 DEF Sound, M
<1>13. CASE m1[x].next # Null /\ m1[m1[x].next].free /\ Merged(m1, Coalesce(m1, x), x)
  <2> DEFINE m2 == Coalesce(m1, x)
             C == B \ {m1[x].next}
  <2>1. Merged(m1, m2, x) /\ m1[x].next # Null /\ m1[m1[x].next].free
    BY <1>13
  <2> HIDE DEF m2
  <2>2. Chained(m2, C)
    BY <1>7, <1>10, <2>1, MergedChained
  <2>3. Owned(m2, C, M)
    BY <1>7, <1>9, <1>10, <2>1, MergedOwned
  <2>4. C \in SUBSET Addr
    BY <1>1
  <2> HIDE DEF C
  <2> QED BY <1>11, <2>2, <2>3, <2>4 DEF Sound, M, m2
<1> QED BY <1>7, <1>10, <1>12, <1>13, CoalesceMerges

-----------------------------------------------------------------------------
(* The chain that kmalloc follows.                                         *)

\* No more than MaxTop \div MinBlock blocks fit.
LEMMA DivBound ==
    ASSUME NEW T \in Nat, NEW M \in Nat \ {0}, NEW j \in Nat, j * M <= T
    PROVE  T \div M \in Nat /\ j <= T \div M
<1> DEFINE q == T \div M
           r == T % M
<1>1. q \in Nat /\ r \in 0 .. M - 1 /\ T = M * q + r
  OBVIOUS
<1> HIDE DEF q, r
<1>2. ASSUME q + 1 <= j PROVE FALSE
  <2>1. PICK e \in Nat : j = (q + 1) + e
    <3>1. j - (q + 1) \in Nat /\ j = (q + 1) + (j - (q + 1))
      BY <1>1, <1>2
    <3> QED BY <3>1
  <2>2. j * M = (M * q + M) + e * M /\ e * M \in Nat /\ M * q \in Nat
    BY <1>1, <2>1
  <2> DEFINE u == M * q
             v == e * M
             w == j * M
  <2>3. w = (u + M) + v /\ v \in Nat /\ u \in Nat /\ T = u + r /\ w <= T
    BY <1>1, <2>2
  <2> HIDE DEF u, v, w
  <2> QED BY <1>1, <2>3
<1> QED BY <1>1, <1>2 DEF q

\* The links can be followed: what ChainOf computes.
LEMMA ChainSteps ==
    ASSUME NEW m, NEW B, Chained(m, B), NEW N \in Nat, N = MaxTop \div MinBlock
    PROVE  /\ DOMAIN ChainOf(m) = 0 .. N /\ ChainOf(m)[0] = 0
           /\ \A k \in 1 .. N : ChainOf(m)[k] = IF ChainOf(m)[k - 1] = Null THEN Null
                                                ELSE m[ChainOf(m)[k - 1]].next
<1> DEFINE After(x) == IF x = Null THEN Null ELSE m[x].next
           S == B \cup {Null}
           Steps(g, l) == g[0] = 0 /\ \A k \in 1 .. l : g[k] = After(g[k - 1])
           Good == {l \in Nat : \E g \in [0 .. l -> S] : Steps(g, l)}
           Is(g) == g = [k \in 0 .. N |-> IF k = 0 THEN 0 ELSE After(g[k - 1])]
           F == ChainOf(m)
<1>1. 0 \in S /\ \A x \in S : After(x) \in S
  BY BlockFacts DEF Chained
<1> HIDE DEF After, S
<1>2. 0 \in Good
  <2>1. [k \in 0 .. 0 |-> 0] \in [0 .. 0 -> S] /\ Steps([k \in 0 .. 0 |-> 0], 0)
    BY <1>1
  <2> HIDE DEF Steps
  <2> QED BY <2>1
<1>3. ASSUME NEW l \in Nat, l \in Good PROVE l + 1 \in Good
  <2>1. PICK g \in [0 .. l -> S] : Steps(g, l)
    BY <1>3
  <2> DEFINE h == [k \in 0 .. l + 1 |-> IF k = l + 1 THEN After(g[l]) ELSE g[k]]
  <2>2. /\ h \in [0 .. l + 1 -> S] /\ h[l + 1] = After(g[l])
        /\ \A k \in 0 .. l : h[k] = g[k]
    BY <1>1
  <2> HIDE DEF h
  <2>3. ASSUME NEW k \in 1 .. l + 1 PROVE h[k] = After(h[k - 1])
    <3>1. CASE k = l + 1
      BY <2>2, <3>1
    <3>2. CASE k # l + 1
      <4>1. k \in 1 .. l /\ k \in 0 .. l /\ k - 1 \in 0 .. l
        BY <3>2
      <4> QED BY <2>1, <2>2, <4>1
    <3> QED BY <3>1, <3>2
  <2>4. Steps(h, l + 1)
    BY <2>1, <2>2, <2>3
  <2> HIDE DEF Steps
  <2> QED BY <2>2, <2>4
<1>4. N \in Good
  <2> HIDE DEF Good
  <2> QED BY <1>2, <1>3, Induction
<1>5. PICK g \in [0 .. N -> S] : Steps(g, N)
  BY <1>4
<1>6. Is(g)
  <2>1. \A k \in 0 .. N : g[k] = IF k = 0 THEN 0 ELSE After(g[k - 1])
    BY <1>5
  <2> QED BY <2>1
<1>7. F = CHOOSE h : Is(h)
  BY DEF ChainOf, After
<1> HIDE DEF Is, F
<1>8. Is(F)
  BY <1>6, <1>7
<1>9. F = [k \in 0 .. N |-> IF k = 0 THEN 0 ELSE After(F[k - 1])]
  BY <1>8 DEF Is
<1>10. DOMAIN F = 0 .. N /\ F[0] = 0 /\ \A k \in 1 .. N : F[k] = After(F[k - 1])
  BY <1>9
<1> QED BY <1>10 DEF F, After

\* Its entries are blocks, the k-th at address k * MinBlock or above.
LEMMA ChainIn ==
    ASSUME NEW m, NEW B, Chained(m, B), NEW N \in Nat, N = MaxTop \div MinBlock
    PROVE  \A k \in 0 .. N : \/ ChainOf(m)[k] = Null
                             \/ ChainOf(m)[k] \in B /\ k * MinBlock <= ChainOf(m)[k]
<1> DEFINE F == ChainOf(m)
           Good == {k \in Nat : k <= N => \/ F[k] = Null
                                          \/ F[k] \in B /\ k * MinBlock <= F[k]}
<1>1. F[0] = 0 /\ \A k \in 1 .. N : F[k] = IF F[k - 1] = Null THEN Null ELSE m[F[k - 1]].next
  BY ChainSteps
<1>2. MinBlock \in Nat /\ 0 * MinBlock = 0 /\ 0 \in B
  BY Room DEF Chained
<1> HIDE DEF F
<1>3. 0 \in Good
  BY <1>1, <1>2
<1>4. ASSUME NEW k \in Nat, k \in Good PROVE k + 1 \in Good
  <2> SUFFICES ASSUME k + 1 <= N
               PROVE  \/ F[k + 1] = Null
                      \/ F[k + 1] \in B /\ (k + 1) * MinBlock <= F[k + 1]
    OBVIOUS
  <2>1. k + 1 \in 1 .. N /\ (k + 1) - 1 = k
    OBVIOUS
  <2>2. F[k + 1] = IF F[k] = Null THEN Null ELSE m[F[k]].next
    BY <1>1, <2>1
  <2>3. CASE F[k] = Null
    BY <2>2, <2>3
  <2>4. CASE F[k] # Null
    <3> DEFINE a == F[k]
               u == k * MinBlock
    <3>1. a \in B /\ u <= a
      BY <1>4, <2>4
    <3>2. u \in Nat /\ (k + 1) * MinBlock = u + MinBlock
      BY <1>2
    <3>3. F[k + 1] = m[a].next
      BY <2>2, <2>4
    <3> HIDE DEF a, u
    <3>4. a \in Nat /\ m[a].size \in Nat /\ MinBlock <= m[a].size
          /\ (m[a].next = Null \/ (m[a].next = a + m[a].size /\ m[a].next \in B))
      BY <3>1, BlockFacts
    <3> QED BY <1>2, <3>1, <3>2, <3>3, <3>4
  <2> QED BY <2>3, <2>4
<1>5. Nat \subseteq Good
  <2> HIDE DEF Good
  <2> QED BY <1>3, <1>4, Induction
<1> QED BY <1>5 DEF F

\* And every block is an entry.
LEMMA ChainReaches ==
    ASSUME NEW m, NEW B, Chained(m, B), NEW N \in Nat, N = MaxTop \div MinBlock, NEW a \in B
    PROVE  \E k \in 0 .. N : ChainOf(m)[k] = a
<1> DEFINE F == ChainOf(m)
           Bad == {x \in B : ~ \E k \in 0 .. N : F[k] = x}
<1> SUFFICES ASSUME Bad # {} PROVE FALSE
  OBVIOUS
<1>1. F[0] = 0 /\ \A k \in 1 .. N : F[k] = IF F[k - 1] = Null THEN Null ELSE m[F[k - 1]].next
  BY ChainSteps
<1>2. \A k \in 0 .. N : F[k] = Null \/ (F[k] \in B /\ k * MinBlock <= F[k])
  BY ChainIn
<1> HIDE DEF F
<1>3. \A x \in B : x \in Nat
  BY BlockFacts
<1>4. PICK x \in Bad : \A y \in Bad : x <= y
  <2>1. Bad \in SUBSET Nat
    BY <1>3
  <2> QED BY <2>1, LeastNat
<1>5. x # 0 /\ x \in B /\ x \in Nat
  BY <1>1, <1>3
<1> DEFINE p == m[x].prev
<1>6. p \in B /\ m[p].next = x
  BY <1>5, BlockFacts
<1> HIDE DEF p
<1>7. p \in Nat /\ m[p].size \in Nat /\ MinBlock <= m[p].size /\ x = p + m[p].size
  <2>1. x # Null
    BY <1>5 DEF Null
  <2> QED BY <1>6, <2>1, BlockFacts
<1>8. MinBlock \in Nat \ {0} /\ MaxTop \in Nat /\ Initial \in Nat /\ Initial <= MaxTop /\ x <= Initial
  BY <1>5, Room, BlockFacts DEF Chained
<1>9. p < x
  BY <1>7, <1>8
<1>10. PICK k \in 0 .. N : F[k] = p
  BY <1>4, <1>6, <1>7, <1>5, <1>9
<1>11. p # Null
  BY <1>7 DEF Null
<1> DEFINE u == k * MinBlock
<1>12. u <= p /\ u \in Nat /\ (k + 1) * MinBlock = u + MinBlock
  BY <1>2, <1>8, <1>10, <1>11
<1> HIDE DEF u
<1>13. u + MinBlock <= MaxTop
  BY <1>7, <1>8, <1>12
<1>14. k + 1 \in Nat /\ (k + 1) * MinBlock <= MaxTop
  BY <1>12, <1>13
<1>15. k + 1 <= N
  BY <1>8, <1>14, DivBound
<1>16. k + 1 \in 1 .. N /\ (k + 1) - 1 = k /\ k + 1 \in 0 .. N
  BY <1>15
<1>17. F[k + 1] = x
  BY <1>1, <1>6, <1>10, <1>11, <1>16
<1> QED BY <1>16, <1>17

\* The number of possible entries.
LEMMA ChainLength == MaxTop \div MinBlock \in Nat
BY Room

-----------------------------------------------------------------------------
(* The operations.                                                         *)

\* A growth asks for a page at least.
LEMMA GrowthPages ==
    ASSUME NEW total \in Nat, NEW pages,
           pages = RoundUp(Max({total, GrowMin}), PageSize) \div PageSize
    PROVE  pages \in Nat /\ pages * PageSize \in Nat /\ 0 < pages * PageSize
<1> DEFINE g == Max({total, GrowMin})
           x == RoundUp(g, PageSize)
<1>1. PageSize \in Nat \ {0} /\ GrowMin \in Nat \ {0}
  BY HeapSizes
<1>2. g \in Nat /\ 0 < g
  <2>1. g \in {total, GrowMin} /\ GrowMin <= g
    BY <1>1, MaxOfTwo
  <2> QED BY <1>1, <2>1
<1> HIDE DEF g
<1> DEFINE q == (g + PageSize - 1) \div PageSize
<1>3. x \in Nat /\ g <= x /\ x = q * PageSize /\ q \in Nat
  <2>1. x \in Nat /\ g <= x
    BY <1>1, <1>2, RoundUpNat
  <2>2. g + PageSize - 1 \in Nat
    BY <1>1, <1>2
  <2> QED BY <1>1, <2>1, <2>2 DEF RoundUp
<1> HIDE DEF x, q
<1>4. q # 0
  BY <1>1, <1>2, <1>3
<1>5. q * PageSize <= x
  BY <1>3
<1>6. pages = x \div PageSize
  BY DEF g, x
<1>7. pages \in Nat /\ q <= pages
  BY <1>1, <1>3, <1>5, <1>6, DivBound
<1>8. pages # 0
  BY <1>3, <1>4, <1>7
<1> QED BY <1>1, <1>7, <1>8

\* What kmalloc returns: nothing, and the memory as it was; or a block that was
\* nobody's; or the heap has grown.
Answer(r, total) ==
    /\ r.top \in Nat /\ Initial <= r.top /\ r.frames \in Nat
    /\ r.top = Initial =>
          /\ top = Initial
          /\ r.at = Null => r.hdr = hdr
          /\ r.at # Null => /\ Sound(r.hdr, live \cup {Client(r.at, total)})
                            /\ \A b \in live : b.at # r.at

\* The two ways to come to it.
LEMMA AllocatedAnswers ==
    ASSUME HeapInv, NEW total \in Nat, MinBlock <= total
    PROVE  Answer(Allocated(total), total)
<1> DEFINE nth == ChainOf(hdr)
           fits == {k \in DOMAIN nth : nth[k] # Null /\ Suits(hdr[nth[k]], total)}
<1>0. top \in Nat /\ Initial <= top /\ frames \in Nat /\ Initial \in Nat
  BY Room DEF HeapInv
<1>1. CASE fits = {}
  <2> DEFINE pages == RoundUp(Max({total, GrowMin}), PageSize) \div PageSize
             linked == [hdr EXCEPT
                      ![top] = [Fresh(pages * PageSize) EXCEPT !.prev = heap_end],
                      ![heap_end].next = top]
  <2>1. Allocated(total) = Grown(total)
    BY <1>1 DEF Allocated
  <2>2. pages \in Nat /\ pages * PageSize \in Nat /\ 0 < pages * PageSize
    BY GrowthPages
  <2>3. Grown(total) = IF frames < pages
           THEN [at |-> Null, hdr |-> hdr, end |-> heap_end, top |-> top, frames |-> 0]
           ELSE [at |-> top, hdr |-> Claim(linked, top, total), end |-> top,
                 top |-> top + pages * PageSize, frames |-> frames - pages]
    BY DEF Grown
  <2> DEFINE w == pages * PageSize
  <2> HIDE DEF pages, linked
  <2>4. CASE frames < pages
    BY <1>0, <2>1, <2>3, <2>4 DEF Answer
  <2>5. CASE ~(frames < pages)
    <3> DEFINE r == Grown(total)
    <3>1. r.top = top + w /\ r.frames = frames - pages
      BY <2>3, <2>5
    <3>2. w \in Nat /\ 0 < w /\ frames - pages \in Nat
      BY <1>0, <2>2, <2>5
    <3> HIDE DEF r, w
    <3>3. r.top \in Nat /\ Initial <= r.top /\ r.frames \in Nat /\ r.top # Initial
      BY <1>0, <3>1, <3>2
    <3>4. Answer(r, total)
      BY <3>3 DEF Answer
    <3> QED BY <2>1, <3>4 DEF r
  <2> QED BY <2>4, <2>5
<1>2. CASE fits # {}
  <2> DEFINE k == Min(fits)
             a == nth[k]
             r == Allocated(total)
  <2>1. r = [at |-> a, hdr |-> Claim(hdr, a, total), end |-> heap_end, top |-> top, frames |-> frames]
    BY <1>2 DEF Allocated, Found
  <2>2. r.at = a /\ r.hdr = Claim(hdr, a, total) /\ r.top = top /\ r.frames = frames
    BY <2>1
  <2>3. ASSUME top = Initial
        PROVE  /\ a # Null /\ Sound(Claim(hdr, a, total), live \cup {Client(a, total)})
               /\ \A b \in live : b.at # a
    <3>1. PICK B \in SUBSET Addr : Chained(hdr, B) /\ Owned(hdr, B, live)
      BY <2>3 DEF HeapInv, Sound
    <3> DEFINE N == MaxTop \div MinBlock
    <3>2. N \in Nat /\ N = MaxTop \div MinBlock
      BY ChainLength
    <3> HIDE DEF N
    <3>3. DOMAIN nth = 0 .. N
      BY <3>1, <3>2, ChainSteps
    <3>4. k \in fits
      <4>1. fits \in SUBSET Nat
        BY <3>2, <3>3
      <4> HIDE DEF fits
      <4> QED BY <1>2, <4>1, MinNat
    <3>5. k \in 0 .. N /\ a # Null /\ Suits(hdr[a], total)
      BY <3>3, <3>4
    <3>6. a \in B
      BY <3>1, <3>2, <3>5, ChainIn
    <3> HIDE DEF a
    <3>7. hdr[a].free /\ total <= hdr[a].size
      <4>1. hdr[a].size \in Nat
        BY <3>1, <3>6, BlockFacts
      <4> QED BY <3>5, <4>1 DEF Suits
    <3> QED BY <3>1, <3>5, <3>6, <3>7, ClaimKeeps
  <2> HIDE DEF a, r, fits, nth
  <2>4. Answer(r, total)
    BY <1>0, <2>2, <2>3 DEF Answer
  <2> QED BY <2>4 DEF r
<1> QED BY <1>1, <1>2

\* heap_init: one free block.
LEMMA InitHeapInv == Init => HeapInv
<1> SUFFICES ASSUME Init PROVE HeapInv
  OBVIOUS
<1>1. /\ top = Initial /\ frames = Frames /\ live = {} /\ Initial \in Nat /\ Frames \in Nat
      /\ MinBlock <= Initial /\ 0 < Initial /\ 0 \in Addr
  BY HeapSizes, Room DEF Init
<1>2. Fresh(Initial) \in Hdr /\ Blank \in Hdr
  BY <1>1 DEF Hdr, Fresh, Blank
<1>3. hdr \in [Addr -> Hdr] /\ hdr[0] = Fresh(Initial)
  BY <1>1, <1>2 DEF Init
<1>4. hdr[0].size = Initial /\ hdr[0].free /\ hdr[0].next = Null /\ hdr[0].prev = Null
  BY <1>3 DEF Fresh
<1>5. Chained(hdr, {0})
  BY <1>1, <1>3, <1>4 DEF Chained
<1>6. Owned(hdr, {0}, live)
  BY <1>1, <1>4 DEF Owned
<1>7. Sound(hdr, live)
  BY <1>1, <1>5, <1>6 DEF Sound
<1> QED BY <1>1, <1>7 DEF HeapInv

\* kmalloc, kcalloc.
LEMMA MallocKeeps ==
    ASSUME HeapInv, NEW size \in Sizes, kmalloc(size)
    PROVE  HeapInv'
<1> DEFINE t == Total(size)
           r == Allocated(t)
<1>1. t \in Nat /\ MinBlock <= t
  BY TotalNat
<1>2. /\ hdr' = r.hdr /\ top' = r.top /\ frames' = r.frames
      /\ live' = IF r.at = Null THEN live ELSE live \cup {Client(r.at, t)}
  BY DEF kmalloc, Client
<1>3. Answer(r, t)
  <2> HIDE DEF t
  <2> QED BY <1>1, AllocatedAnswers
<1> HIDE DEF t, r
<1>4. ASSUME top' = Initial PROVE Sound(hdr', live')
  <2>1. /\ top = Initial /\ (r.at = Null => r.hdr = hdr)
        /\ (r.at # Null => Sound(r.hdr, live \cup {Client(r.at, t)}))
    BY <1>2, <1>3, <1>4 DEF Answer
  <2>2. CASE r.at = Null
    <3>1. hdr' = hdr /\ live' = live
      BY <1>2, <2>1, <2>2
    <3>2. Sound(hdr, live)
      BY <2>1 DEF HeapInv
    <3> QED BY <3>1, <3>2
  <2>3. CASE r.at # Null
    BY <1>2, <2>1, <2>3
  <2> QED BY <2>2, <2>3
<1>5. top' \in Nat /\ Initial <= top' /\ frames' \in Nat
  BY <1>2, <1>3 DEF Answer
<1>6. (top = Initial => Sound(hdr, live))' <=> (top' = Initial => Sound(hdr', live'))
  BY DEF Sound, Chained, Owned
<1> QED BY <1>4, <1>5, <1>6 DEF HeapInv

\* kfree.
LEMMA FreeKeeps ==
    ASSUME HeapInv, NEW b \in live, kfree(b)
    PROVE  HeapInv'
<1>1. hdr' = Freed(hdr, b.at) /\ live' = live \ {b} /\ top' = top /\ frames' = frames
  BY DEF kfree
<1>2. ASSUME top' = Initial PROVE Sound(hdr', live')
  <2>1. Sound(hdr, live)
    BY <1>1, <1>2 DEF HeapInv
  <2>2. Sound(Freed(hdr, b.at), live \ {b})
    BY <2>1, FreedKeeps
  <2> QED BY <1>1, <2>2
<1>3. (top = Initial => Sound(hdr, live))' <=> (top' = Initial => Sound(hdr', live'))
  BY DEF Sound, Chained, Owned
<1> QED BY <1>1, <1>2, <1>3 DEF HeapInv

\* krealloc: the new block is not the one it frees.
LEMMA ReallocKeeps ==
    ASSUME HeapInv, NEW b \in live, NEW size \in Sizes, krealloc(b, size)
    PROVE  HeapInv'
<1> DEFINE t == Total(size)
           r == Allocated(t)
<1>1. CASE size = 0 /\ kfree(b)
  BY <1>1, FreeKeeps
<1>2. CASE /\ size # 0
           /\ top' = r.top /\ frames' = r.frames
           /\ \/ r.at = Null /\ UNCHANGED <<hdr, live>>
              \/ /\ r.at # Null
                 /\ hdr' = Freed(r.hdr, b.at)
                 /\ live' = (live \ {b}) \cup {Client(r.at, t)}
  <2>1. t \in Nat /\ MinBlock <= t
    BY TotalNat
  <2>2. Answer(r, t)
    <3> HIDE DEF t
    <3> QED BY <2>1, AllocatedAnswers
  <2> HIDE DEF t, r
  <2>3. ASSUME top' = Initial PROVE Sound(hdr', live')
    <3> DEFINE n == Client(r.at, t)
    <3>1. /\ top = Initial
          /\ (r.at # Null => /\ Sound(r.hdr, live \cup {n})
                             /\ \A c \in live : c.at # r.at)
      BY <1>2, <2>2, <2>3 DEF Answer
    <3>2. CASE r.at = Null
      <4>1. hdr' = hdr /\ live' = live
        BY <1>2, <3>2
      <4>2. Sound(hdr, live)
        BY <3>1 DEF HeapInv
      <4> QED BY <4>1, <4>2
    <3>3. CASE r.at # Null
      <4>1. n.at = r.at
        BY DEF Client
      <4>2. b # n
        BY <3>1, <3>3, <4>1
      <4> HIDE DEF n
      <4>3. (live \ {b}) \cup {n} = (live \cup {n}) \ {b} /\ b \in live \cup {n}
        BY <4>2
      <4>4. Sound(Freed(r.hdr, b.at), (live \cup {n}) \ {b})
        BY <3>1, <3>3, <4>3, FreedKeeps
      <4>5. hdr' = Freed(r.hdr, b.at) /\ live' = (live \cup {n}) \ {b}
        BY <1>2, <3>3, <4>3 DEF n
      <4> QED BY <4>4, <4>5
    <3> QED BY <3>2, <3>3
  <2>4. top' \in Nat /\ Initial <= top' /\ frames' \in Nat
    BY <1>2, <2>2 DEF Answer
  <2>5. (top = Initial => Sound(hdr, live))' <=> (top' = Initial => Sound(hdr', live'))
    BY DEF Sound, Chained, Owned
  <2> QED BY <2>3, <2>4, <2>5 DEF HeapInv
<1> QED BY <1>1, <1>2 DEF krealloc, Client

\* Every step keeps the heap sound until it has grown.
LEMMA StepKeeps == HeapInv /\ [Next]_vars => HeapInv'
<1> SUFFICES ASSUME HeapInv, [Next]_vars PROVE HeapInv'
  OBVIOUS
<1>1. CASE \E size \in Sizes : kmalloc(size)
  BY <1>1, MallocKeeps
<1>2. CASE \E b \in live : kfree(b)
  BY <1>2, FreeKeeps
<1>3. CASE \E b \in live, size \in Sizes : krealloc(b, size)
  BY <1>3, ReallocKeeps
<1>4. CASE UNCHANGED vars
  BY <1>4 DEF vars, HeapInv, Sound, Chained, Owned
<1> QED BY <1>1, <1>2, <1>3, <1>4 DEF Next

-----------------------------------------------------------------------------
(* The theorems.                                                           *)

\* Of a sound heap, what InChain collects is exactly the set of blocks.
LEMMA BlocksAreChain ==
    ASSUME NEW B \in SUBSET Addr, Chained(hdr, B)
    PROVE  InChain = B
<1> DEFINE N == MaxTop \div MinBlock
           F == ChainOf(hdr)
<1>1. N \in Nat /\ N = MaxTop \div MinBlock
  BY ChainLength
<1> HIDE DEF N
<1>2. DOMAIN F = 0 .. N
  BY <1>1, ChainSteps
<1>3. \A k \in 0 .. N : F[k] = Null \/ F[k] \in B
  BY <1>1, ChainIn
<1>4. \A a \in B : \E k \in 0 .. N : F[k] = a
  BY <1>1, ChainReaches
<1>5. InChain = {a \in Addr : \E k \in DOMAIN F : F[k] = a}
  BY DEF InChain
<1> HIDE DEF F
<1> QED BY <1>2, <1>3, <1>4, <1>5, Room

\* A sound heap has the property ChainCovers.
LEMMA SoundCovers == HeapInv /\ top = Initial => ChainCovers
<1> SUFFICES ASSUME HeapInv, top = Initial PROVE ChainCovers
  OBVIOUS
<1>1. PICK B \in SUBSET Addr : Chained(hdr, B) /\ Owned(hdr, B, live)
  BY DEF HeapInv, Sound
<1>2. InChain = B
  BY <1>1, BlocksAreChain
<1>3. ASSUME NEW a \in B
      PROVE  IF hdr[a].next = Null THEN a + hdr[a].size = top
             ELSE hdr[a].next = a + hdr[a].size /\ hdr[hdr[a].next].prev = a
  <2>1. /\ IF a + hdr[a].size = Initial THEN hdr[a].next = Null
           ELSE hdr[a].next = a + hdr[a].size /\ hdr[a].next \in B
        /\ hdr[a].next # Null => hdr[hdr[a].next].prev = a
    BY <1>1, BlockFacts
  <2>2. Null \notin B
    BY Room
  <2> QED BY <2>1, <2>2
<1>4. {a \in B : ~hdr[a].free} = {b.at : b \in live}
  BY <1>1 DEF Owned
<1>5. \A b \in live : b.total <= hdr[b.at].size
  BY <1>1 DEF Owned
<1> QED BY <1>2, <1>3, <1>4, <1>5 DEF ChainCovers

\* And BlocksDisjoint.
LEMMA SoundDisjoint == HeapInv /\ top = Initial => BlocksDisjoint
<1> SUFFICES ASSUME HeapInv, top = Initial PROVE BlocksDisjoint
  OBVIOUS
<1>1. PICK B \in SUBSET Addr : Chained(hdr, B) /\ Owned(hdr, B, live)
  BY DEF HeapInv, Sound
<1>2. ASSUME NEW b \in live
      PROVE  /\ b.at \in B /\ b.at \in Nat /\ b.total \in Nat /\ hdr[b.at].size \in Nat
             /\ b.total <= hdr[b.at].size /\ b.at + hdr[b.at].size <= Initial
  <2>1. b.at \in B /\ b.total \in Nat /\ b.total <= hdr[b.at].size
    BY <1>1 DEF Owned
  <2> QED BY <1>1, <2>1, BlockFacts
<1>3. \A x, y \in B : x < y => x + hdr[x].size <= y
  BY <1>1 DEF Chained
<1>4. ASSUME NEW b \in live, NEW c \in live, b.at < c.at
      PROVE  Span(b) \cap Span(c) = {}
  <2>1. b.at + b.total <= c.at
    BY <1>2, <1>3, <1>4
  <2> QED BY <1>2, <2>1 DEF Span
<1>5. ASSUME NEW b \in live, NEW c \in live, b # c
      PROVE  Span(b) \cap Span(c) = {}
  <2>1. b.at # c.at
    BY <1>1, <1>5 DEF Owned
  <2>2. b.at < c.at \/ c.at < b.at
    BY <1>2, <2>1
  <2>3. Span(b) \cap Span(c) = Span(c) \cap Span(b)
    OBVIOUS
  <2> QED BY <1>4, <2>2, <2>3
<1>6. ASSUME NEW b \in live PROVE Span(b) \subseteq 0 .. (top - 1)
  BY <1>2, Room DEF Span
<1> QED BY <1>5, <1>6 DEF BlocksDisjoint

\* For every size of heap and request: as long as the heap has not grown the
\* chain of blocks covers it without gaps and the blocks in use are exactly
\* those clients hold.  kmalloc, kfree and krealloc lose no memory.
THEOREM ChainKept == Spec => [](top = Initial => ChainCovers)
<1>1. HeapInv => (top = Initial => ChainCovers)
  BY SoundCovers
<1> QED BY <1>1, InitHeapInv, StepKeeps, PTL DEF Spec

\* And no two clients are given the same byte, nor one past the heap's end.
THEOREM ClientsDisjoint == Spec => [](top = Initial => BlocksDisjoint)
<1>1. HeapInv => (top = Initial => BlocksDisjoint)
  BY SoundDisjoint
<1> QED BY <1>1, InitHeapInv, StepKeeps, PTL DEF Spec
=============================================================================
