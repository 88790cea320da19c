----------------------------- MODULE GuiProofs ------------------------------
(***************************************************************************)
(* The window table, the stacking order, the focus and the drag of the     *)
(* desktop, for every number of windows, every screen and window size.     *)
(***************************************************************************)
EXTENDS Gui, SequenceTheorems, WellFoundedInduction, TLAPS

Window == [used : BOOLEAN, kind : Kind, x : Int, buf : Buffers \cup {NoBuf}]
Desk == [win : [Slot -> Window], zorder : Seq(Slot), bufs : SUBSET Buffers]

Open(d) == {s \in Slot : d.win[s].used}

\* The open windows own the pixel buffers, each its own.
Owned(d) ==
    /\ \A s, t \in Open(d) : s # t => d.win[s].buf # d.win[t].buf \/ d.win[s].buf = NoBuf
    /\ d.bufs = {d.win[s].buf : s \in Open(d)} \ {NoBuf}

\* A desk as the window functions of gui.c leave it: the stacking order lists
\* each open window once, and the open windows own the pixel buffers.
DeskSound(d) ==
    /\ d \in Desk
    /\ IsInjective(d.zorder) /\ ToSet(d.zorder) = Open(d)
    /\ Owned(d)

GuiInv ==
    /\ DeskSound(desk)
    /\ focus \in Nat /\ drag \in Nat /\ dragdx \in Int
    /\ ~on => Open(desk) = {}
    /\ PointersOpen

-----------------------------------------------------------------------------
(* Sequences and sets.                                                     *)

\* Every set of natural numbers that is not empty has a least element.
LEMMA LeastNat ==
    ASSUME NEW S \in SUBSET Nat, S # {}
    PROVE  \E x \in S : \A y \in S : x <= y
<1> DEFINE R == OpToRel(<, Nat)
<1>1. IsWellFoundedOn(R, Nat)
  BY NatLessThanWellFounded
<1>2. \A x, y \in Nat : <<x, y>> \in R <=> x < y
  BY DEF OpToRel
<1> HIDE DEF R
<1>3. PICK x \in S : \A y \in S : ~ (<<y, x>> \in R)
  BY <1>1, WFMin
<1>4. \A y \in S : ~ (y < x)
  BY <1>2, <1>3
<1> QED BY <1>4

\* Induction over the natural numbers, for a set of them.
LEMMA Induction ==
    ASSUME NEW S, 0 \in S, \A n \in Nat : n \in S => n + 1 \in S
    PROVE  Nat \subseteq S
<1> SUFFICES ASSUME Nat \ S # {} PROVE FALSE
  OBVIOUS
<1>1. PICK x \in Nat \ S : \A y \in Nat \ S : x <= y
  <2>1. Nat \ S \in SUBSET Nat
    OBVIOUS
  <2> QED BY <2>1, LeastNat
<1>2. x # 0 /\ x - 1 \in Nat /\ x - 1 \in S
  BY <1>1
<1>3. (x - 1) + 1 \in S
  BY <1>2
<1> QED BY <1>1, <1>3

\* Taking an element out of a sequence moves those behind it one forward.
LEMMA RemoveAtElements ==
    ASSUME NEW S, NEW s \in Seq(S), NEW z \in 1 .. Len(s)
    PROVE  /\ RemoveAt(s, z) \in Seq(S)
           /\ Len(RemoveAt(s, z)) = Len(s) - 1
           /\ \A k \in 1 .. Len(s) - 1 :
                 RemoveAt(s, z)[k] = IF k < z THEN s[k] ELSE s[k + 1]
<1> DEFINE a == SubSeq(s, 1, z - 1)
           b == SubSeq(s, z + 1, Len(s))
<1>0. Len(s) \in Nat
  OBVIOUS
<1>1. a \in Seq(S) /\ Len(a) = z - 1 /\ \A k \in 1 .. z - 1 : a[k] = s[k]
  BY <1>0, SubSeqProperties
<1>2. b \in Seq(S) /\ Len(b) = Len(s) - z /\ \A k \in 1 .. Len(s) - z : b[k] = s[z + k]
  BY <1>0, SubSeqProperties
<1> HIDE DEF a, b
<1>3. /\ a \o b \in Seq(S) /\ Len(a \o b) = Len(s) - 1
      /\ \A k \in 1 .. Len(s) - 1 :
            (a \o b)[k] = IF k <= z - 1 THEN a[k] ELSE b[k - (z - 1)]
  <2>1. Len(a) + Len(b) = Len(s) - 1
    BY <1>0, <1>1, <1>2
  <2>2. /\ a \o b \in Seq(S) /\ Len(a \o b) = Len(a) + Len(b)
        /\ \A k \in 1 .. Len(a) + Len(b) :
              (a \o b)[k] = IF k <= Len(a) THEN a[k] ELSE b[k - Len(a)]
    BY <1>1, <1>2, ConcatProperties
  <2> QED BY <1>1, <2>1, <2>2
<1>4. ASSUME NEW k \in 1 .. Len(s) - 1
      PROVE  (a \o b)[k] = IF k < z THEN s[k] ELSE s[k + 1]
  <2>1. CASE k < z
    <3>1. k <= z - 1 /\ k \in 1 .. z - 1
      BY <1>0, <2>1
    <3> QED BY <1>1, <1>3, <2>1, <3>1
  <2>2. CASE ~(k < z)
    <3>1. ~(k <= z - 1) /\ k - (z - 1) \in 1 .. Len(s) - z /\ z + (k - (z - 1)) = k + 1
      BY <1>0, <2>2
    <3> QED BY <1>2, <1>3, <2>2, <3>1
  <2> QED BY <2>1, <2>2
<1> QED BY <1>3, <1>4 DEF RemoveAt, a, b

\* From a sequence without repetitions RemoveAt takes exactly one element.
LEMMA RemoveAtSet ==
    ASSUME NEW S, NEW s \in Seq(S), NEW z \in 1 .. Len(s), IsInjective(s)
    PROVE  IsInjective(RemoveAt(s, z)) /\ ToSet(RemoveAt(s, z)) = ToSet(s) \ {s[z]}
<1> DEFINE r == RemoveAt(s, z)
<1>0. Len(s) \in Nat /\ DOMAIN s = 1 .. Len(s)
  OBVIOUS
<1>1. /\ r \in Seq(S) /\ DOMAIN r = 1 .. Len(s) - 1
      /\ \A k \in 1 .. Len(s) - 1 : r[k] = IF k < z THEN s[k] ELSE s[k + 1]
  BY <1>0, RemoveAtElements
<1> HIDE DEF r
<1>2. IsInjective(r)
  <2> DEFINE from(k) == IF k < z THEN k ELSE k + 1
  <2>1. \A k \in 1 .. Len(s) - 1 : from(k) \in DOMAIN s /\ r[k] = s[from(k)]
    BY <1>0, <1>1
  <2>2. \A i, j \in 1 .. Len(s) - 1 : from(i) = from(j) => i = j
    BY <1>0
  <2> HIDE DEF from
  <2> QED BY <1>1, <2>1, <2>2 DEF IsInjective
<1>3. ASSUME NEW k \in 1 .. Len(s) - 1 PROVE r[k] \in ToSet(s) \ {s[z]}
  BY <1>0, <1>1 DEF IsInjective, ToSet
<1>4. ASSUME NEW k \in 1 .. Len(s), k # z PROVE s[k] \in ToSet(r)
  <2>1. CASE k < z
    BY <1>0, <1>1, <2>1 DEF ToSet
  <2>2. CASE k > z
    <3>1. k - 1 \in 1 .. Len(s) - 1 /\ r[k - 1] = s[k]
      BY <1>0, <1>1, <2>2
    <3> QED BY <1>1, <3>1 DEF ToSet
  <2> QED BY <1>0, <1>4, <2>1, <2>2
<1>5. ToSet(r) = ToSet(s) \ {s[z]}
  <2>1. ToSet(r) \subseteq ToSet(s) \ {s[z]}
    BY <1>1, <1>3 DEF ToSet
  <2>2. ToSet(s) \ {s[z]} \subseteq ToSet(r)
    BY <1>0, <1>4 DEF ToSet
  <2> QED BY <2>1, <2>2
<1> QED BY <1>2, <1>5 DEF r

\* Appending an element that is not there keeps a sequence without repetitions.
LEMMA AppendSet ==
    ASSUME NEW S, NEW s \in Seq(S), NEW e \in S
    PROVE  /\ Append(s, e) \in Seq(S) /\ Len(Append(s, e)) = Len(s) + 1
           /\ ToSet(Append(s, e)) = ToSet(s) \cup {e}
           /\ IsInjective(s) /\ e \notin ToSet(s) => IsInjective(Append(s, e))
<1> DEFINE t == Append(s, e)
<1>0. Len(s) \in Nat /\ DOMAIN s = 1 .. Len(s)
  OBVIOUS
<1>1. /\ t \in Seq(S) /\ Len(t) = Len(s) + 1 /\ DOMAIN t = 1 .. Len(s) + 1
      /\ \A k \in 1 .. Len(s) : t[k] = s[k]
      /\ t[Len(s) + 1] = e
  BY AppendProperties
<1> HIDE DEF t
<1>2. \A k \in 1 .. Len(s) + 1 : k \in 1 .. Len(s) \/ k = Len(s) + 1
  BY <1>0
<1>3. ToSet(t) = ToSet(s) \cup {e}
  <2>1. ToSet(t) \subseteq ToSet(s) \cup {e}
    BY <1>0, <1>1, <1>2 DEF ToSet
  <2>2. ToSet(s) \subseteq ToSet(t)
    BY <1>0, <1>1 DEF ToSet
  <2>3. e \in ToSet(t)
    <3>1. Len(s) + 1 \in 1 .. Len(s) + 1
      BY <1>0
    <3> QED BY <1>1, <3>1 DEF ToSet
  <2> QED BY <2>1, <2>2, <2>3
<1>4. IsInjective(s) /\ e \notin ToSet(s) => IsInjective(t)
  BY <1>0, <1>1, <1>2 DEF IsInjective, ToSet
<1> QED BY <1>1, <1>3, <1>4 DEF t

-----------------------------------------------------------------------------
(* What the window functions do to a desk.                                 *)

\* A position of the stacking order names an open window.
LEMMA Stacked ==
    ASSUME NEW d, DeskSound(d), NEW z \in DOMAIN d.zorder
    PROVE  /\ Len(d.zorder) \in Nat /\ DOMAIN d.zorder = 1 .. Len(d.zorder)
           /\ d.zorder[z] \in Slot /\ d.zorder[z] \in Open(d)
BY DEF DeskSound, Desk, ToSet, Open

\* win_create puts a window in a free slot on top, or changes nothing.
LEMMA CreateSound ==
    ASSUME NEW d, DeskSound(d), NEW k \in Kind, NEW b \in Pixels(d)
    PROVE  DeskSound(win_create(d, k, b)) /\ Len(win_create(d, k, b).zorder) >= Len(d.zorder)
<1>1. CASE FreeSlots(d) = {}
  BY <1>1 DEF win_create, DeskSound, Desk
<1>2. CASE FreeSlots(d) # {}
  <2> DEFINE s == FirstFree(d)
             w == [used |-> TRUE, kind |-> k, x |-> Place[k], buf |-> b]
             e == win_create(d, k, b)
  <2>1. s \in FreeSlots(d)
    <3>1. FreeSlots(d) \in SUBSET Nat
      BY GuiSizes DEF FreeSlots, Slot
    <3>2. \E a \in FreeSlots(d) : \A c \in FreeSlots(d) : a <= c
      BY <1>2, <3>1, LeastNat
    <3> QED BY <3>2 DEF FirstFree
  <2>2. s \in Slot /\ ~d.win[s].used
    BY <2>1 DEF FreeSlots
  <2>3. e = [win |-> [d.win EXCEPT ![s] = w], zorder |-> Append(d.zorder, s),
            bufs |-> d.bufs \cup ({b} \ {NoBuf})]
    BY <1>2 DEF win_create
  <2>4. w \in Window /\ w.used = TRUE /\ w.buf = b
    BY GuiSizes DEF Window, Pixels
  <2> HIDE DEF s, w, e
  <2>5. /\ d.win \in [Slot -> Window] /\ d.zorder \in Seq(Slot) /\ d.bufs \subseteq Buffers
        /\ IsInjective(d.zorder) /\ ToSet(d.zorder) = Open(d) /\ Owned(d)
    BY DEF DeskSound, Desk
  <2>6. /\ e.zorder \in Seq(Slot) /\ Len(e.zorder) = Len(d.zorder) + 1
        /\ ToSet(e.zorder) = ToSet(d.zorder) \cup {s}
        /\ IsInjective(e.zorder)
    <3>1. s \notin ToSet(d.zorder)
      BY <2>2, <2>5 DEF Open
    <3> QED BY <2>2, <2>3, <2>5, <3>1, AppendSet
  <2>7. e.win = [d.win EXCEPT ![s] = w] /\ e.win \in [Slot -> Window]
    BY <2>2, <2>3, <2>4, <2>5
  <2>8. Open(e) = Open(d) \cup {s}
    BY <2>2, <2>4, <2>5, <2>7 DEF Open
  <2>9. e.bufs = d.bufs \cup ({b} \ {NoBuf}) /\ e.bufs \subseteq Buffers
    BY <2>3, <2>5 DEF Pixels
  <2>12. Owned(e)
    <3>1. e.win[s].buf = b /\ \A t \in Open(d) : t \in Slot /\ t # s /\ e.win[t].buf = d.win[t].buf
      BY <2>2, <2>4, <2>5, <2>7 DEF Open
    <3>2. b \notin d.bufs
      BY <2>5, GuiSizes DEF Pixels
    <3>3. \A t \in Open(d) : d.win[t].buf # b \/ b = NoBuf
      BY <2>5, <3>2 DEF Owned
    <3>4. {e.win[t].buf : t \in Open(e)} = {d.win[t].buf : t \in Open(d)} \cup {b}
      BY <2>8, <3>1
    <3>5. e.bufs = {e.win[t].buf : t \in Open(e)} \ {NoBuf}
      BY <2>5, <2>9, <3>4 DEF Owned
    <3>6. ASSUME NEW u \in Open(e), NEW v \in Open(e), u # v
          PROVE  e.win[u].buf # e.win[v].buf \/ e.win[u].buf = NoBuf
      <4>1. CASE u # s /\ v # s
        BY <2>5, <2>8, <3>1, <3>6, <4>1 DEF Owned
      <4>2. CASE u = s
        BY <2>8, <3>1, <3>3, <3>6, <4>2
      <4>3. CASE v = s
        BY <2>8, <3>1, <3>3, <3>6, <4>3
      <4> QED BY <4>1, <4>2, <4>3
    <3> QED BY <3>5, <3>6 DEF Owned
  <2>10. e \in Desk
    BY <2>3, <2>6, <2>7, <2>9 DEF Desk
  <2>11. DeskSound(e)
    BY <2>5, <2>6, <2>8, <2>10, <2>12 DEF DeskSound
  <2> QED BY <2>5, <2>6, <2>11 DEF e
<1> QED BY <1>1, <1>2

\* win_raise only reorders the stack.
LEMMA RaiseSound ==
    ASSUME NEW d, DeskSound(d), NEW z \in DOMAIN d.zorder
    PROVE  DeskSound(win_raise(d, z)) /\ Len(win_raise(d, z).zorder) = Len(d.zorder)
<1> DEFINE s == d.zorder[z]
           r == RemoveAt(d.zorder, z)
           e == win_raise(d, z)
<1>1. /\ d.win \in [Slot -> Window] /\ d.zorder \in Seq(Slot) /\ d.bufs \subseteq Buffers
      /\ IsInjective(d.zorder) /\ ToSet(d.zorder) = Open(d) /\ Owned(d)
  BY DEF DeskSound, Desk
<1>2. z \in 1 .. Len(d.zorder) /\ Len(d.zorder) \in Nat /\ s \in Slot /\ s \in Open(d)
  BY Stacked
<1>3. /\ r \in Seq(Slot) /\ Len(r) = Len(d.zorder) - 1
      /\ IsInjective(r) /\ ToSet(r) = Open(d) \ {s}
  BY <1>1, <1>2, RemoveAtElements, RemoveAtSet
<1>4. e = [win |-> d.win, zorder |-> Append(r, s), bufs |-> d.bufs]
  <2>1. d = [win |-> d.win, zorder |-> d.zorder, bufs |-> d.bufs]
    BY DEF DeskSound, Desk
  <2>2. e = [d EXCEPT !.zorder = Append(r, s)]
    BY <2>1 DEF win_raise
  <2> HIDE DEF s, r, e
  <2> QED BY <2>1, <2>2
<1> HIDE DEF s, r, e
<1>5. /\ e.zorder \in Seq(Slot) /\ Len(e.zorder) = Len(r) + 1
      /\ ToSet(e.zorder) = ToSet(r) \cup {s} /\ IsInjective(e.zorder)
  BY <1>2, <1>3, <1>4, AppendSet
<1>6. Open(e) = Open(d) /\ e \in Desk /\ e.bufs = d.bufs /\ e.win = d.win
  BY <1>1, <1>4, <1>5 DEF Open, Desk
<1>7. Owned(e)
  BY <1>1, <1>6 DEF Owned
<1>8. DeskSound(e)
  BY <1>1, <1>2, <1>3, <1>5, <1>6, <1>7 DEF DeskSound
<1> QED BY <1>2, <1>3, <1>5, <1>8 DEF e

\* win_close takes one window out of the table, the stack and the buffers.
LEMMA CloseSound ==
    ASSUME NEW d, DeskSound(d), NEW z \in DOMAIN d.zorder
    PROVE  DeskSound(win_close(d, z)) /\ Len(win_close(d, z).zorder) = Len(d.zorder) - 1
<1> DEFINE s == d.zorder[z]
           r == RemoveAt(d.zorder, z)
           w == [d.win EXCEPT ![s].used = FALSE]
           e == win_close(d, z)
<1>1. /\ d.win \in [Slot -> Window] /\ d.zorder \in Seq(Slot) /\ d.bufs \subseteq Buffers
      /\ IsInjective(d.zorder) /\ ToSet(d.zorder) = Open(d) /\ Owned(d)
  BY DEF DeskSound, Desk
<1>2. z \in 1 .. Len(d.zorder) /\ Len(d.zorder) \in Nat /\ s \in Slot /\ s \in Open(d)
  BY Stacked
<1>3. /\ r \in Seq(Slot) /\ Len(r) = Len(d.zorder) - 1
      /\ IsInjective(r) /\ ToSet(r) = Open(d) \ {s}
  BY <1>1, <1>2, RemoveAtElements, RemoveAtSet
<1>4. e = [win |-> w, zorder |-> r, bufs |-> d.bufs \ {d.win[s].buf}]
  BY DEF win_close
<1>5. w \in [Slot -> Window] /\ ~w[s].used /\ \A t \in Slot \ {s} : w[t] = d.win[t]
  <2>1. [d.win[s] EXCEPT !.used = FALSE] \in Window /\ ~[d.win[s] EXCEPT !.used = FALSE].used
    BY <1>1, <1>2 DEF Window
  <2> HIDE DEF s
  <2> QED BY <1>1, <1>2, <2>1
<1> HIDE DEF s, r, w, e
<1>6. Open(e) = Open(d) \ {s}
  BY <1>2, <1>4, <1>5 DEF Open
<1>7. e \in Desk /\ e.bufs = d.bufs \ {d.win[s].buf} /\ e.zorder = r /\ e.win = w
  BY <1>1, <1>3, <1>4, <1>5 DEF Desk
<1>9. Owned(e)
  <2>1. \A t \in Open(e) : t \in Open(d) /\ t # s /\ e.win[t].buf = d.win[t].buf
    BY <1>5, <1>6, <1>7 DEF Open
  <2>2. \A t \in Open(e) : e.win[t].buf # d.win[s].buf \/ d.win[s].buf = NoBuf
    BY <1>1, <1>2, <2>1 DEF Owned
  <2>3. {e.win[t].buf : t \in Open(e)} \ {NoBuf} = ({d.win[t].buf : t \in Open(d)} \ {NoBuf}) \ {d.win[s].buf}
    <3>1. \A t \in Open(d) : t = s \/ t \in Open(e)
      BY <1>6
    <3> QED BY <2>1, <2>2, <3>1
  <2>4. e.bufs = {e.win[t].buf : t \in Open(e)} \ {NoBuf}
    BY <1>1, <1>7, <2>3 DEF Owned
  <2> QED BY <1>1, <2>1, <2>4 DEF Owned
<1>8. DeskSound(e)
  BY <1>3, <1>6, <1>7, <1>9 DEF DeskSound
<1> QED BY <1>3, <1>7, <1>8 DEF e

\* Without an open window the stack is empty.
LEMMA EmptyStack ==
    ASSUME NEW d, DeskSound(d)
    PROVE  Len(d.zorder) = 0 <=> Open(d) = {}
<1>1. Len(d.zorder) \in Nat /\ DOMAIN d.zorder = 1 .. Len(d.zorder)
  BY DEF DeskSound, Desk
<1>2. ToSet(d.zorder) = Open(d)
  BY DEF DeskSound
<1>3. ASSUME Len(d.zorder) # 0 PROVE Open(d) # {}
  <2>1. 1 \in DOMAIN d.zorder
    BY <1>1, <1>3
  <2> QED BY <1>2, <2>1 DEF ToSet
<1>4. ASSUME Len(d.zorder) = 0 PROVE Open(d) = {}
  BY <1>1, <1>2, <1>4 DEF ToSet
<1> QED BY <1>3, <1>4


\* Escape's loop: each turn closes the window on top, and none is left.
LEMMA ClosingEmpties ==
    ASSUME DeskSound(desk)
    PROVE  DeskSound(Closing[Len(desk.zorder)]) /\ Len(Closing[Len(desk.zorder)].zorder) = 0
<1> DEFINE n == Len(desk.zorder)
           Left(g, m) ==
               /\ g[0] = desk
               /\ \A k \in 1 .. m : g[k] = win_close(g[k - 1], n + 1 - k)
               /\ \A k \in 0 .. m : DeskSound(g[k]) /\ Len(g[k].zorder) = n - k
           Done == {m \in Nat : m <= n => \E g \in [0 .. m -> Desk] : Left(g, m)}
<1>0. n \in Nat
  BY DEF DeskSound, Desk
<1> HIDE DEF n
<1>1. 0 \in Done
  <2> DEFINE g == [k \in 0 .. 0 |-> desk]
  <2>1. g \in [0 .. 0 -> Desk] /\ Left(g, 0)
    <3>1. desk \in Desk
      BY DEF DeskSound
    <3>2. g \in [0 .. 0 -> Desk] /\ \A k \in 0 .. 0 : k = 0 /\ g[k] = desk
      BY <3>1
    <3> HIDE DEF g
    <3> QED BY <1>0, <3>2 DEF n
  <2> QED BY <2>1
<1>2. ASSUME NEW m \in Nat, m \in Done PROVE m + 1 \in Done
  <2> SUFFICES ASSUME m + 1 <= n PROVE \E g \in [0 .. m + 1 -> Desk] : Left(g, m + 1)
    OBVIOUS
  <2>1. PICK g \in [0 .. m -> Desk] : Left(g, m)
    BY <1>0, <1>2
  <2> DEFINE c == win_close(g[m], n - m)
             h == [k \in 0 .. m + 1 |-> IF k = m + 1 THEN c ELSE g[k]]
  <2>2. DeskSound(c) /\ Len(c.zorder) = n - (m + 1)
    <3>1. DeskSound(g[m]) /\ Len(g[m].zorder) = n - m
      BY <2>1
    <3>2. n - m \in DOMAIN g[m].zorder
      BY <1>0, <3>1 DEF DeskSound, Desk
    <3>3. DeskSound(c) /\ Len(c.zorder) = (n - m) - 1
      BY <3>1, <3>2, CloseSound
    <3> QED BY <1>0, <3>3
  <2>3. c \in Desk
    BY <2>2 DEF DeskSound
  <2> HIDE DEF c
  <2>4. /\ h \in [0 .. m + 1 -> Desk] /\ h[m + 1] = c
        /\ \A k \in 0 .. m : h[k] = g[k]
    BY <2>3
  <2> HIDE DEF h
  <2>5. h[0] = desk
    BY <2>1, <2>4
  <2>6. ASSUME NEW k \in 1 .. m + 1 PROVE h[k] = win_close(h[k - 1], n + 1 - k)
    <3>1. CASE k = m + 1
      <4>1. h[k - 1] = g[m] /\ n + 1 - k = n - m
        BY <1>0, <2>4, <3>1
      <4> QED BY <2>4, <3>1, <4>1 DEF c
    <3>2. CASE k # m + 1
      <4>1. k \in 1 .. m /\ k - 1 \in 0 .. m /\ k \in 0 .. m
        BY <3>2
      <4> QED BY <2>1, <2>4, <4>1
    <3> QED BY <3>1, <3>2
  <2>7. ASSUME NEW k \in 0 .. m + 1 PROVE DeskSound(h[k]) /\ Len(h[k].zorder) = n - k
    <3>1. CASE k = m + 1
      BY <2>2, <2>4, <3>1
    <3>2. CASE k # m + 1
      <4>1. k \in 0 .. m
        BY <3>2
      <4> QED BY <2>1, <2>4, <4>1
    <3> QED BY <3>1, <3>2
  <2> QED BY <2>4, <2>5, <2>6, <2>7
<1>3. n \in Done
  <2> HIDE DEF Done
  <2> QED BY <1>0, <1>1, <1>2, Induction
<1>4. PICK g \in [0 .. n -> Desk] : Left(g, n)
  <2>1. n <= n
    BY <1>0
  <2> HIDE DEF Left
  <2> QED BY <1>3, <2>1
<1>5. g = [k \in 0 .. n |-> IF k = 0 THEN desk ELSE win_close(g[k - 1], n + 1 - k)]
  BY <1>4
<1>6. Closing = [k \in 0 .. n |-> IF k = 0 THEN desk ELSE win_close(Closing[k - 1], n + 1 - k)]
  BY <1>5 DEF Closing, n
<1> DEFINE Agree == {m \in Nat : m <= n => Closing[m] = g[m]}
<1>7. 0 \in Agree
  BY <1>0, <1>4, <1>6
<1>8. ASSUME NEW m \in Nat, m \in Agree PROVE m + 1 \in Agree
  <2> SUFFICES ASSUME m + 1 <= n PROVE Closing[m + 1] = g[m + 1]
    OBVIOUS
  <2>1. Closing[m] = g[m] /\ m + 1 \in 0 .. n /\ m + 1 \in 1 .. n /\ m + 1 # 0 /\ (m + 1) - 1 = m
    BY <1>0, <1>8
  <2>2. Closing[m + 1] = win_close(Closing[m], n + 1 - (m + 1))
    BY <1>6, <2>1
  <2>3. g[m + 1] = win_close(g[m], n + 1 - (m + 1))
    BY <1>4, <2>1
  <2> QED BY <2>1, <2>2, <2>3
<1>9. n \in Agree
  <2> HIDE DEF Agree
  <2> QED BY <1>0, <1>7, <1>8, Induction
<1>10. Closing[n] = g[n] /\ DeskSound(g[n]) /\ Len(g[n].zorder) = n - n
  BY <1>0, <1>4, <1>9
<1> QED BY <1>0, <1>10 DEF n

-----------------------------------------------------------------------------
(* The actions keep the invariant.                                         *)

\* The desktop starts without windows.
LEMMA GuiInit == Init => GuiInv
<1> SUFFICES ASSUME Init PROVE GuiInv
  OBVIOUS
<1>1. Unused \in Window /\ ~Unused.used
  BY DEF Unused, Window, Kind
<1>7. NoWindows.bufs = {}
  BY DEF NoWindows
<1>2. NoWindows.win \in [Slot -> Window] /\ NoWindows.zorder = << >> /\ NoWindows.bufs = {}
  BY <1>1 DEF NoWindows
<1>3. NoWindows \in Desk
  BY <1>1 DEF NoWindows, Desk
<1>4. Open(NoWindows) = {}
  BY <1>1 DEF Open, NoWindows
<1>5. IsInjective(<< >>) /\ ToSet(<< >>) = {}
  BY DEF IsInjective, ToSet
<1> HIDE DEF NoWindows
<1>6. DeskSound(NoWindows)
  BY <1>2, <1>3, <1>4, <1>5, <1>7 DEF DeskSound, Owned
<1> QED BY <1>4, <1>6 DEF Init, GuiInv, PointersOpen, None

\* gui_run_desktop starts from an empty desk whose buffers are all freed.
LEMMA RunKeeps == GuiInv /\ gui_run_desktop => GuiInv'
<1> SUFFICES ASSUME GuiInv, gui_run_desktop PROVE GuiInv'
  OBVIOUS
<1> DEFINE e == Cleared
<1>2. desk \in Desk /\ desk.bufs = {}
  BY DEF GuiInv, DeskSound, Owned, gui_run_desktop
<1> DEFINE w == [s \in Slot |-> [desk.win[s] EXCEPT !.used = FALSE]]
<1>3. w \in [Slot -> Window] /\ \A s \in Slot : ~w[s].used
  BY <1>2 DEF Desk, Window
<1>4. e \in Desk /\ e.win = w /\ e.zorder = << >> /\ e.bufs = {}
  <2>1. desk = [win |-> desk.win, zorder |-> desk.zorder, bufs |-> desk.bufs]
    BY <1>2 DEF Desk
  <2>2. e = [desk EXCEPT !.win = w, !.zorder = << >>]
    BY DEF Cleared
  <2> HIDE DEF w, e
  <2>3. e = [win |-> w, zorder |-> << >>, bufs |-> {}]
    BY <1>2, <2>1, <2>2
  <2> QED BY <1>3, <2>3 DEF Desk
<1> HIDE DEF e, w
<1>5. Open(e) = {}
  BY <1>3, <1>4 DEF Open
<1>6. DeskSound(e)
  BY <1>4, <1>5 DEF DeskSound, Owned, IsInjective, ToSet
<1>7. PICK e1 \in {win_create(e, "terminal", b) : b \in Pixels(e)} :
        \E b \in Pixels(e1) : desk' = win_create(e1, "about", b)
  BY DEF gui_run_desktop, e
<1>8. DeskSound(e1)
  BY <1>6, <1>7, CreateSound DEF Kind
<1>9. DeskSound(desk')
  BY <1>7, <1>8, CreateSound DEF Kind
<1>10. focus' = Len(desk'.zorder) /\ drag' = None /\ down' = FALSE /\ on' = TRUE /\ dragdx' = dragdx
  BY DEF gui_run_desktop
<1>11. Len(desk'.zorder) \in Nat
  BY <1>9 DEF DeskSound, Desk
<1>12. DeskSound(desk)'
  BY <1>9 DEF DeskSound, Desk, Open, Owned
<1> QED BY <1>10, <1>11, <1>12 DEF GuiInv, PointersOpen, None

\* While no button is held nothing is dragged: an action that replaces the desk
\* by one with at least as many windows and drags nothing keeps the invariant.
LEMMA ClickKeeps ==
    ASSUME GuiInv, on, ~down, on' = on, down' = TRUE, drag' = drag, dragdx' = dragdx,
           DeskSound(desk'), focus' \in 0 .. Len(desk'.zorder)
    PROVE  GuiInv'
<1>1. Len(desk'.zorder) \in Nat
  BY DEF DeskSound, Desk
<1>2. drag = None
  BY DEF GuiInv, PointersOpen
<1>3. DeskSound(desk)'
  BY DEF DeskSound, Desk, Open, Owned
<1> QED BY <1>1, <1>2, <1>3 DEF GuiInv, PointersOpen, None

\* A menu item or an icon makes a window at most.
LEMMA CreateClickKeeps ==
    ASSUME GuiInv, Clicked, desk' \in {desk} \cup Created(desk),
           UNCHANGED <<focus, drag, dragdx, on>>
    PROVE  GuiInv'
<1>1. DeskSound(desk) /\ focus \in 0 .. Len(desk.zorder) /\ focus \in Nat
  BY DEF GuiInv, Clicked, PointersOpen
<1>2. DeskSound(desk') /\ Len(desk'.zorder) >= Len(desk.zorder)
  <2>1. CASE desk' = desk
    BY <1>1, <2>1 DEF DeskSound, Desk
  <2>2. ASSUME NEW k \in Kind, NEW b \in Pixels(desk), desk' = win_create(desk, k, b)
        PROVE  DeskSound(desk') /\ Len(desk'.zorder) >= Len(desk.zorder)
    BY <1>1, <2>2, CreateSound
  <2> QED BY <2>1, <2>2 DEF Created
<1>3. Len(desk'.zorder) \in Nat /\ Len(desk.zorder) \in Nat
  BY <1>1, <1>2 DEF DeskSound, Desk
<1>4. focus' \in 0 .. Len(desk'.zorder)
  BY <1>1, <1>2, <1>3
<1> QED BY <1>2, <1>4, ClickKeeps DEF Clicked

\* The close box closes a window and gives the focus to the new top.
LEMMA CloseClickKeeps == GuiInv /\ CloseClick => GuiInv'
<1> SUFFICES ASSUME GuiInv, CloseClick PROVE GuiInv'
  OBVIOUS
<1>1. PICK z \in DOMAIN desk.zorder : desk' = win_close(desk, z)
  BY DEF CloseClick, Under
<1>2. DeskSound(desk')
  BY <1>1, CloseSound DEF GuiInv
<1>3. focus' \in 0 .. Len(desk'.zorder)
  BY <1>2 DEF CloseClick, DeskSound, Desk
<1> QED BY <1>2, <1>3, ClickKeeps DEF CloseClick, Clicked

\* A click in a window raises it, and in its title bar starts the drag of the top.
LEMMA WindowClickKeeps == GuiInv /\ WindowClick => GuiInv'
<1> SUFFICES ASSUME GuiInv, WindowClick PROVE GuiInv'
  OBVIOUS
<1>1. PICK px \in Column :
        \E z \in Under(desk, px), title \in BOOLEAN :
          /\ desk' = win_raise(desk, z)
          /\ drag' = IF title THEN Len(desk.zorder) ELSE drag
          /\ dragdx' = IF title THEN px - WindowAt(desk, z).x ELSE dragdx
  BY DEF WindowClick
<1>2. PICK z \in Under(desk, px) :
        /\ desk' = win_raise(desk, z)
        /\ drag' \in {Len(desk.zorder), drag}
        /\ dragdx' \in {px - WindowAt(desk, z).x, dragdx}
  BY <1>1
<1>3. z \in DOMAIN desk.zorder /\ DeskSound(desk) /\ drag = None
  BY <1>2 DEF Under, GuiInv, WindowClick, Clicked, PointersOpen
<1>4. DeskSound(desk') /\ Len(desk'.zorder) = Len(desk.zorder)
  BY <1>2, <1>3, RaiseSound
<1>5. Len(desk.zorder) \in Nat
  BY <1>3 DEF DeskSound, Desk
<1>6. dragdx' \in Int
  <2>1. WindowAt(desk, z).x \in Int
    <3>1. desk.zorder[z] \in Slot /\ desk.win \in [Slot -> Window]
      BY <1>3, Stacked DEF DeskSound, Desk
    <3>2. desk.win[desk.zorder[z]] \in Window
      BY <3>1
    <3> QED BY <3>2 DEF WindowAt, Window
  <2>2. px \in Int /\ dragdx \in Int
    BY GuiSizes DEF GuiInv, Column
  <2> QED BY <1>2, <2>1, <2>2
<1>7. DeskSound(desk)'
  BY <1>4 DEF DeskSound, Desk, Open, Owned
<1> QED BY <1>2, <1>3, <1>4, <1>5, <1>6, <1>7 DEF GuiInv, PointersOpen, None, WindowClick, Clicked

\* A drag moves the window on top and no other.
LEMMA DragKeeps == GuiInv /\ Drag => GuiInv'
<1> SUFFICES ASSUME GuiInv, Drag PROVE GuiInv'
  OBVIOUS
<1> DEFINE s == desk.zorder[drag]
<1>1. drag \in DOMAIN desk.zorder /\ DeskSound(desk)
  BY DEF GuiInv, Drag, PointersOpen, DeskSound, Desk, None
<1>2. s \in Slot /\ desk.win \in [Slot -> Window] /\ desk.win[s] \in Window
  BY <1>1, Stacked DEF DeskSound, Desk
<1>3. PICK px \in Column :
        desk' = [desk EXCEPT !.win[s].x = Clamp(px - dragdx, ScreenW - Width[WindowAt(desk, drag).kind])]
  BY DEF Drag
<1> DEFINE c == Clamp(px - dragdx, ScreenW - Width[WindowAt(desk, drag).kind])
           w == [desk.win[s] EXCEPT !.x = c]
<1>4. c \in Int
  <2>1. desk.win[s].kind \in Kind
    BY <1>2 DEF Window
  <2>2. Width[WindowAt(desk, drag).kind] \in Int /\ ScreenW \in Int
    BY <2>1, GuiSizes DEF WindowAt
  <2>3. px \in Int /\ dragdx \in Int
    BY GuiSizes DEF GuiInv, Column
  <2> QED BY <2>2, <2>3 DEF Clamp
<1>5. w \in Window /\ w.used = desk.win[s].used /\ w.buf = desk.win[s].buf
  BY <1>2, <1>4 DEF Window
<1>6. desk' = [desk EXCEPT !.win = [desk.win EXCEPT ![s] = w]]
  BY <1>3
<1> HIDE DEF s, c, w
<1> DEFINE v == [desk.win EXCEPT ![s] = w]
<1>7. v \in [Slot -> Window] /\ \A t \in Slot : v[t].used = desk.win[t].used /\ v[t].buf = desk.win[t].buf
  BY <1>2, <1>5
<1>8. desk' = [win |-> v, zorder |-> desk.zorder, bufs |-> desk.bufs]
  BY <1>1, <1>6 DEF DeskSound, Desk
<1> HIDE DEF v
<1>9. Open(desk') = Open(desk)
  BY <1>7, <1>8 DEF Open
<1>12. Owned(desk')
  <2>1. \A t \in Open(desk) : t \in Slot /\ desk'.win[t].buf = desk.win[t].buf
    BY <1>7, <1>8 DEF Open
  <2>2. Owned(desk) /\ desk'.bufs = desk.bufs
    BY <1>1, <1>8 DEF DeskSound
  <2>3. {desk'.win[t].buf : t \in Open(desk')} = {desk.win[t].buf : t \in Open(desk)}
    BY <1>9, <2>1
  <2>4. \A t, u \in Open(desk') : t # u => desk'.win[t].buf # desk'.win[u].buf \/ desk'.win[t].buf = NoBuf
    BY <1>9, <2>1, <2>2 DEF Owned
  <2> QED BY <2>2, <2>3, <2>4 DEF Owned
<1>10. DeskSound(desk')
  BY <1>1, <1>7, <1>8, <1>9, <1>12 DEF DeskSound, Desk
<1>11. DeskSound(desk)' /\ desk'.zorder = desk.zorder /\ Open(desk)' = Open(desk)
  BY <1>8, <1>9, <1>10 DEF DeskSound, Desk, Open, Owned
<1> QED BY <1>11 DEF GuiInv, PointersOpen, Drag

\* Escape leaves no window open.
LEMMA EscapeKeeps == GuiInv /\ Escape => GuiInv'
<1> SUFFICES ASSUME GuiInv, Escape PROVE GuiInv'
  OBVIOUS
<1>1. DeskSound(desk') /\ Len(desk'.zorder) = 0
  BY ClosingEmpties DEF GuiInv, Escape
<1>2. Open(desk') = {}
  BY <1>1, EmptyStack
<1>3. DeskSound(desk)' /\ Open(desk)' = {}
  BY <1>1, <1>2 DEF DeskSound, Desk, Open, Owned
<1> QED BY <1>3 DEF GuiInv, PointersOpen, Escape

\* Every step of the desktop keeps the invariant.
LEMMA GuiStep == GuiInv /\ [Next]_vars => GuiInv'
<1> SUFFICES ASSUME GuiInv, [Next]_vars PROVE GuiInv'
  OBVIOUS
<1>1. CASE gui_run_desktop
  BY <1>1, RunKeeps
<1>2. CASE MenuButton
  BY <1>2 DEF MenuButton, Clicked, GuiInv, DeskSound, Desk, Open, Owned, PointersOpen
<1>3. CASE MenuClick
  BY <1>3, CreateClickKeeps DEF MenuClick
<1>4. CASE CloseClick
  BY <1>4, CloseClickKeeps
<1>5. CASE WindowClick
  BY <1>5, WindowClickKeeps
<1>6. CASE DesktopClick
  BY <1>6, CreateClickKeeps DEF DesktopClick
<1>7. CASE Release
  BY <1>7 DEF Release, GuiInv, DeskSound, Desk, Open, Owned, PointersOpen, None
<1>8. CASE Drag
  BY <1>8, DragKeeps
<1>9. CASE Escape
  BY <1>9, EscapeKeeps
<1>10. CASE UNCHANGED vars
  BY <1>10 DEF vars, GuiInv, DeskSound, Desk, Open, Owned, PointersOpen
<1> QED BY <1>1, <1>2, <1>3, <1>4, <1>5, <1>6, <1>7, <1>8, <1>9, <1>10 DEF Next

\* Each open window is stacked once, no two share a pixel buffer, what is
\* allocated is what open windows name, also after kmalloc failed for some of
\* them, and Escape frees it all (win_create, win_raise, win_close).
THEOREM WindowsAccounted == Spec => []WindowsSound
<1>1. GuiInv => WindowsSound
  <2> SUFFICES ASSUME GuiInv PROVE WindowsSound
    OBVIOUS
  <2>1. DeskSound(desk) /\ (~on => Open(desk) = {})
    BY DEF GuiInv
  <2>2. ~on => desk.bufs = {}
    BY <2>1 DEF DeskSound, Owned
  <2> QED BY <2>1, <2>2 DEF DeskSound, Owned, Open, WindowsSound
<1> QED BY <1>1, GuiInit, GuiStep, PTL DEF Spec

\* The focus and the drag only ever name windows that are open, and a drag
\* moves the top window while the button is held (gui_run_desktop).
THEOREM FocusAndDragOpen == Spec => []PointersOpen
<1>1. GuiInv => PointersOpen
  BY DEF GuiInv
<1> QED BY <1>1, GuiInit, GuiStep, PTL DEF Spec

=============================================================================
