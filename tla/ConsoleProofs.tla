---------------------------- MODULE ConsoleProofs ---------------------------
(***************************************************************************)
(* The text console, for every screen, prompt and line length, every size  *)
(* of the history and whatever programs write: the cursor stays on the     *)
(* screen, the line being edited is the one shown, and the history gives   *)
(* back the last lines.                                                    *)
(***************************************************************************)
EXTENDS Console, SequenceTheorems, WellFoundedInduction, TLAPS

\* What may be drawn, and a screen as gpu.c keeps it.
Glyph == {Blank} \cup Letters \cup Range(Prompt) \cup UNION {Range(o) : o \in Outputs}
Text == Seq(Glyph \cup Controls)
Screen == [cell : [Cell -> Glyph], row : 0 .. Rows - 1, col : 0 .. Cols - 1]
Loose == [cell : [Cell -> Glyph], row : Nat, col : Nat]

-----------------------------------------------------------------------------
(* Natural numbers.                                                        *)

\* Every set of natural numbers that is not empty has a least element.
LEMMA LeastNat ==
    ASSUME NEW S \in SUBSET Nat, S # {}
    PROVE  \E x \in S : \A y \in S : x <= y
<1> DEFINE R == OpToRel(<, Nat)
<1>1. IsWellFoundedOn(R, Nat)
  BY NatLessThanWellFounded
<1>2. \A x, y \in Nat : <<x, y>> \in R <=> x < y
  BY DEF OpToRel
<1> HIDE DEF R
<1>3. PICK x \in S : \A y \in S : ~ (<<y, x>> \in R)
  BY <1>1, WFMin
<1>4. \A y \in S : ~ (y < x)
  BY <1>2, <1>3
<1> QED BY <1>4

\* Induction over the natural numbers, for a set of them.
LEMMA Induction ==
    ASSUME NEW S, 0 \in S, \A n \in Nat : n \in S => n + 1 \in S
    PROVE  Nat \subseteq S
<1> SUFFICES ASSUME Nat \ S # {} PROVE FALSE
  OBVIOUS
<1>1. PICK x \in Nat \ S : \A y \in Nat \ S : x <= y
  <2>1. Nat \ S \in SUBSET Nat
    OBVIOUS
  <2> QED BY <2>1, LeastNat
<1>2. x # 0 /\ x - 1 \in Nat /\ x - 1 \in S
  BY <1>1
<1>3. (x - 1) + 1 \in S
  BY <1>2
<1> QED BY <1>1, <1>3

\* The sizes of the screen and the buffers.
LEMMA Sizes ==
    /\ Rows \in Nat /\ Rows > 0 /\ Cols \in Nat /\ Cols > 0
    /\ LineMax \in Nat /\ LineMax > 0 /\ HistMax \in Nat /\ HistMax > 0
    /\ MaxParams \in Nat /\ MaxParams > 0
    /\ MaxParam \in Nat /\ MaxBytes \in Nat /\ MaxRuns \in Nat /\ MaxLines \in Nat
BY ConsoleSizes

\* The prompt fits with room for a letter, and is drawn.
LEMMA PromptFits ==
    /\ Prompt \in Seq(Glyph \ Controls) /\ Prompt \in Text
    /\ Len(Prompt) \in Nat /\ Len(Prompt) + 1 < Cols
<1>1. Prompt \in Seq(Range(Prompt) \ Controls) /\ Cols > Len(Prompt) + 1
  BY ConsoleSizes
<1>2. Range(Prompt) \ Controls \subseteq Glyph \ Controls /\ Glyph \ Controls \subseteq Glyph \cup Controls
  BY DEF Glyph
<1>3. Prompt \in Seq(Glyph \ Controls)
  BY <1>1, <1>2, SeqMonotonic
<1>4. Prompt \in Text
  BY <1>2, <1>3, SeqMonotonic DEF Text
<1>5. Len(Prompt) \in Nat
  BY <1>1, LenProperties
<1> QED BY <1>1, <1>3, <1>4, <1>5, Sizes

-----------------------------------------------------------------------------
(* drivers/gpu.c.                                                          *)

\* The fields of a screen.
LEMMA ScreenFields ==
    ASSUME NEW g \in Screen
    PROVE  /\ g.cell \in [Cell -> Glyph] /\ g.row \in 0 .. Rows - 1 /\ g.col \in 0 .. Cols - 1
           /\ g.row \in Nat /\ g.col \in Nat /\ <<g.row, g.col>> \in Cell
           /\ g = [cell |-> g.cell, row |-> g.row, col |-> g.col]
BY Sizes DEF Screen, Cell

\* The empty screen.
LEMMA ClearedScreen == Cleared \in Screen
BY Sizes DEF Cleared, Screen, Glyph

\* Scrolling brings the cursor back onto the last row.
LEMMA ScrollScreen ==
    ASSUME NEW g \in Loose, g.col \in 0 .. Cols - 1
    PROVE  console_scroll(g) \in Screen
<1> DEFINE c == [x \in Cell |-> IF x[1] = Rows - 1 THEN Blank ELSE g.cell[<<x[1] + 1, x[2]>>]]
<1>1. \A x \in Cell : x[1] \in 0 .. Rows - 1 /\ x[2] \in 0 .. Cols - 1
  BY DEF Cell
<1>2. ASSUME NEW x \in Cell, x[1] # Rows - 1 PROVE <<x[1] + 1, x[2]>> \in Cell
  BY <1>1, <1>2, Sizes DEF Cell
<1>3. Blank \in Glyph
  BY DEF Glyph
<1>4. c \in [Cell -> Glyph]
  BY <1>2, <1>3 DEF Loose
<1>5. console_scroll(g) = [g EXCEPT !.cell = c, !.row = Rows - 1]
  BY DEF console_scroll
<1>6. Rows - 1 \in 0 .. Rows - 1
  BY Sizes
<1> HIDE DEF c
<1> QED BY <1>4, <1>5, <1>6 DEF Loose, Screen

\* gpu_putc, in the three cases that matter to a line: a carriage return, a
\* character before the last column, and any other.
LEMMA PutcReturn ==
    ASSUME NEW g \in Screen
    PROVE  /\ gpu_putc(g, "cr") \in Screen
           /\ gpu_putc(g, "cr").row = g.row /\ gpu_putc(g, "cr").col = 0
           /\ gpu_putc(g, "cr").cell = g.cell
<1> DEFINE n == [g EXCEPT !.col = 0]
<1>1. n \in Screen /\ n.row = g.row /\ n.col = 0 /\ n.cell = g.cell
  BY Sizes DEF Screen
<1>2. gpu_putc(g, "cr") = IF n.row >= Rows THEN console_scroll(n) ELSE n
  BY DEF gpu_putc
<1> HIDE DEF n
<1>3. n.row \in 0 .. Rows - 1
  BY <1>1, ScreenFields
<1>4. ~(n.row >= Rows)
  BY <1>3, Sizes
<1> QED BY <1>1, <1>2, <1>4

\* The character is drawn at the cursor and the cursor moves on.
Inked(g, c) == [g EXCEPT !.cell[<<g.row, g.col>>] = c, !.col = @ + 1]

LEMMA InkedIs ==
    ASSUME NEW g \in Screen, NEW c \in Glyph
    PROVE  /\ Inked(g, c) \in Loose
           /\ Inked(g, c).row = g.row /\ Inked(g, c).col = g.col + 1
           /\ Inked(g, c).cell = [g.cell EXCEPT ![<<g.row, g.col>>] = c]
<1>1. <<g.row, g.col>> \in Cell /\ g.cell \in [Cell -> Glyph] /\ g.row \in Nat /\ g.col \in Nat
  BY ScreenFields
<1> DEFINE k == [g.cell EXCEPT ![<<g.row, g.col>>] = c]
<1>2. k \in [Cell -> Glyph]
  BY <1>1
<1> DEFINE e == g.col + 1
<1>3. Inked(g, c) = [g EXCEPT !.cell = k, !.col = e] /\ e \in Nat
  BY <1>1 DEF Inked, Screen
<1> HIDE DEF k, e
<1>4. g \in Loose
  BY <1>1 DEF Screen, Loose
<1>5. /\ Inked(g, c) \in Loose /\ Inked(g, c).row = g.row /\ Inked(g, c).col = e
      /\ Inked(g, c).cell = k
  BY <1>2, <1>3, <1>4 DEF Loose
<1> QED BY <1>5 DEF k, e

\* A character that is drawn and leaves the cursor on its row.
LEMMA PutcDraws ==
    ASSUME NEW g \in Screen, NEW c \in Glyph \ Controls, g.col + 1 < Cols
    PROVE  /\ gpu_putc(g, c) \in Screen
           /\ gpu_putc(g, c).row = g.row /\ gpu_putc(g, c).col = g.col + 1
           /\ gpu_putc(g, c).cell = [g.cell EXCEPT ![<<g.row, g.col>>] = c]
<1> DEFINE n == Inked(g, c)
<1>1. n \in Loose /\ n.row = g.row /\ n.col = g.col + 1
      /\ n.cell = [g.cell EXCEPT ![<<g.row, g.col>>] = c]
  BY InkedIs
<1>2. Draw(g, c) = IF n.col >= Cols THEN NewLine(n) ELSE n
  BY DEF Draw, Inked
<1>3. gpu_putc(g, c) = LET m == Draw(g, c) IN IF m.row >= Rows THEN console_scroll(m) ELSE m
  BY DEF gpu_putc, Controls
<1> HIDE DEF n
<1>4. g.row \in 0 .. Rows - 1 /\ g.col \in 0 .. Cols - 1
  BY ScreenFields
<1>5. ~(n.col >= Cols) /\ ~(n.row >= Rows)
  BY <1>1, <1>4, Sizes
<1>6. gpu_putc(g, c) = n
  BY <1>2, <1>3, <1>5
<1>7. n \in Screen
  BY <1>1, <1>4, Sizes DEF Loose, Screen
<1> QED BY <1>1, <1>6, <1>7

\* The next row, which may be one below the last.
LEMMA NewLineIs ==
    ASSUME NEW g \in Loose, g.row \in 0 .. Rows - 1
    PROVE  LET n == NewLine(g)
           IN  (IF n.row >= Rows THEN console_scroll(n) ELSE n) \in Screen
<1> DEFINE n == NewLine(g)
<1> DEFINE e == g.row + 1
<1>0. n = [g EXCEPT !.row = e, !.col = 0] /\ e \in Nat
  BY DEF NewLine, Loose
<1>1. n \in Loose /\ n.row = g.row + 1 /\ n.col = 0
  <2> HIDE DEF n, e
  <2>1. n \in Loose /\ n.row = e /\ n.col = 0
    BY <1>0 DEF Loose
  <2> QED BY <2>1 DEF e
<1> HIDE DEF n
<1>2. CASE n.row >= Rows
  <2>1. n.col \in 0 .. Cols - 1
    BY <1>1, Sizes
  <2> QED BY <1>1, <1>2, <2>1, ScrollScreen DEF n
<1>3. CASE ~(n.row >= Rows)
  <2>1. n \in Screen
    BY <1>1, <1>3, Sizes DEF Screen, Loose
  <2> QED BY <1>3, <2>1 DEF n
<1> QED BY <1>2, <1>3

\* Whatever is printed, the cursor stays on the screen.
LEMMA PutcScreen ==
    ASSUME NEW g \in Screen, NEW c \in Glyph \cup Controls
    PROVE  gpu_putc(g, c) \in Screen
<1>0. /\ g \in Loose /\ g.row \in 0 .. Rows - 1 /\ g.col \in 0 .. Cols - 1
  BY ScreenFields, Sizes DEF Loose, Screen
<1>1. CASE c = "nl"
  <2>1. gpu_putc(g, c) = LET n == NewLine(g) IN IF n.row >= Rows THEN console_scroll(n) ELSE n
    BY <1>1 DEF gpu_putc
  <2> QED BY <1>0, <2>1, NewLineIs
<1>2. CASE c = "cr"
  BY <1>2, PutcReturn
<1>3. CASE c = "bs"
  <2> DEFINE n == [g EXCEPT !.col = IF @ > 0 THEN @ - 1 ELSE 0]
             d == IF g.col > 0 THEN g.col - 1 ELSE 0
  <2>1. n = [g EXCEPT !.col = d] /\ d \in 0 .. Cols - 1
    BY <1>0, Sizes DEF Loose
  <2>2. gpu_putc(g, c) = IF n.row >= Rows THEN console_scroll(n) ELSE n
    BY <1>3 DEF gpu_putc
  <2> HIDE DEF n, d
  <2>3. n \in Screen
    BY <2>1 DEF Screen
  <2>4. n.row \in 0 .. Rows - 1
    BY <2>3, ScreenFields
  <2>5. ~(n.row >= Rows)
    BY <2>4, Sizes
  <2> QED BY <2>2, <2>3, <2>5
<1>4. CASE c = "ff"
  <2>1. gpu_putc(g, c) = IF Cleared.row >= Rows THEN console_scroll(Cleared) ELSE Cleared
    BY <1>4 DEF gpu_putc
  <2>2. ~(Cleared.row >= Rows)
    BY Sizes DEF Cleared
  <2> QED BY <2>1, <2>2, ClearedScreen
<1>5. CASE c \notin Controls
  <2>1. CASE g.col + 1 < Cols
    BY <1>5, <2>1, PutcDraws
  <2>2. CASE ~(g.col + 1 < Cols)
    <3> DEFINE n == Inked(g, c)
    <3>1. n \in Loose /\ n.row = g.row /\ n.col = g.col + 1
      BY <1>5, InkedIs
    <3>2. Draw(g, c) = IF n.col >= Cols THEN NewLine(n) ELSE n
      BY DEF Draw, Inked
    <3>3. gpu_putc(g, c) = LET m == Draw(g, c) IN IF m.row >= Rows THEN console_scroll(m) ELSE m
      BY <1>5 DEF gpu_putc, Controls
    <3> HIDE DEF n
    <3>4. n.col >= Cols
      BY <1>0, <2>2, <3>1, Sizes
    <3>5. Draw(g, c) = NewLine(n) /\ n.row \in 0 .. Rows - 1
      BY <1>0, <3>1, <3>2, <3>4
    <3> QED BY <3>1, <3>3, <3>5, NewLineIs
  <2> QED BY <2>1, <2>2
<1> QED BY <1>1, <1>2, <1>3, <1>4, <1>5 DEF Controls

\* gpu_print: the screens after each character.
LEMMA PrintSteps ==
    ASSUME NEW g \in Screen, NEW s \in Text
    PROVE  \E P \in [0 .. Len(s) -> Screen] :
              /\ P[0] = g /\ gpu_print(g, s) = P[Len(s)]
              /\ \A k \in 1 .. Len(s) : P[k] = gpu_putc(P[k - 1], s[k])
<1> DEFINE N == Len(s)
           Steps(h, l) == h[0] = g /\ \A k \in 1 .. l : h[k] = gpu_putc(h[k - 1], s[k])
           Good == {l \in Nat : l <= N => \E h \in [0 .. l -> Screen] : Steps(h, l)}
           Is(h) == h = [k \in 0 .. N |-> IF k = 0 THEN g ELSE gpu_putc(h[k - 1], s[k])]
           F == CHOOSE h : Is(h)
<1>1. N \in Nat /\ \A k \in 1 .. N : s[k] \in Glyph \cup Controls
  BY LenProperties, ElementOfSeq DEF Text
<1>2. 0 \in Good
  <2>1. [k \in 0 .. 0 |-> g] \in [0 .. 0 -> Screen] /\ Steps([k \in 0 .. 0 |-> g], 0)
    OBVIOUS
  <2> HIDE DEF Steps
  <2> QED BY <2>1
<1> HIDE DEF N
<1>3. ASSUME NEW l \in Nat, l \in Good PROVE l + 1 \in Good
  <2> SUFFICES ASSUME l + 1 <= N PROVE \E h \in [0 .. l + 1 -> Screen] : Steps(h, l + 1)
    OBVIOUS
  <2>1. PICK h \in [0 .. l -> Screen] : Steps(h, l)
    BY <1>1, <1>3
  <2> DEFINE e == gpu_putc(h[l], s[l + 1])
             d == [k \in 0 .. l + 1 |-> IF k = l + 1 THEN e ELSE h[k]]
  <2>2. e \in Screen
    <3>1. h[l] \in Screen /\ s[l + 1] \in Glyph \cup Controls
      BY <1>1
    <3> QED BY <3>1, PutcScreen
  <2>3. d \in [0 .. l + 1 -> Screen] /\ d[l + 1] = e /\ \A k \in 0 .. l : d[k] = h[k]
    BY <2>2
  <2> HIDE DEF d
  <2>4. ASSUME NEW k \in 1 .. l + 1 PROVE d[k] = gpu_putc(d[k - 1], s[k])
    <3>1. CASE k = l + 1
      BY <2>3, <3>1
    <3>2. CASE k # l + 1
      <4>1. k \in 1 .. l /\ k \in 0 .. l /\ k - 1 \in 0 .. l
        BY <3>2
      <4> QED BY <2>1, <2>3, <4>1
    <3> QED BY <3>1, <3>2
  <2>5. Steps(d, l + 1)
    BY <2>1, <2>3, <2>4
  <2> HIDE DEF Steps
  <2> QED BY <2>3, <2>5
<1>4. N \in Good
  <2> HIDE DEF Good
  <2> QED BY <1>1, <1>2, <1>3, Induction
<1>5. PICK h \in [0 .. N -> Screen] : Steps(h, N)
  BY <1>1, <1>4
<1>6. Is(h)
  <2>1. \A k \in 0 .. N : h[k] = IF k = 0 THEN g ELSE gpu_putc(h[k - 1], s[k])
    BY <1>1, <1>5
  <2> QED BY <2>1
<1>7. gpu_print(g, s) = F[N]
  BY DEF gpu_print, N
<1>8. Is(F)
  <2> HIDE DEF Is
  <2> QED BY <1>6
<1> HIDE DEF F
<1>9. DOMAIN F = 0 .. N /\ F[0] = g /\ \A k \in 1 .. N : F[k] = gpu_putc(F[k - 1], s[k])
  BY <1>1, <1>8
<1>10. F \in [0 .. N -> Screen]
  <2> DEFINE Typed == {l \in Nat : l <= N => F[l] \in Screen}
  <2>1. 0 \in Typed
    BY <1>9
  <2>2. ASSUME NEW l \in Nat, l \in Typed PROVE l + 1 \in Typed
    <3> SUFFICES ASSUME l + 1 <= N PROVE F[l + 1] \in Screen
      OBVIOUS
    <3>1. F[l] \in Screen /\ s[l + 1] \in Glyph \cup Controls /\ F[l + 1] = gpu_putc(F[l], s[l + 1])
      BY <1>1, <1>9, <2>2
    <3> QED BY <3>1, PutcScreen
  <2>3. Nat \subseteq Typed
    <3> HIDE DEF Typed
    <3> QED BY <2>1, <2>2, Induction
  <2>4. F = [k \in 0 .. N |-> F[k]]
    BY <1>8
  <2> QED BY <1>1, <1>9, <2>3, <2>4
<1> QED BY <1>7, <1>9, <1>10 DEF N

\* What is printed leaves a screen.
LEMMA PrintScreen ==
    ASSUME NEW g \in Screen, NEW s \in Text
    PROVE  gpu_print(g, s) \in Screen
<1>1. Len(s) \in Nat
  BY LenProperties DEF Text
<1>2. PICK P \in [0 .. Len(s) -> Screen] : gpu_print(g, s) = P[Len(s)]
  BY PrintSteps
<1> QED BY <1>1, <1>2

-----------------------------------------------------------------------------
(* shell_redraw_line.                                                      *)

\* Letters and the padding are drawn.
LEMMA Drawable ==
    /\ Letters \subseteq Glyph \ Controls
    /\ \A n \in Int : /\ Blanks(n) \in Text /\ Len(Blanks(n)) = IF n > 0 THEN n ELSE 0
                      /\ \A i \in 1 .. n : Blanks(n)[i] = Blank
    /\ \A line \in Seq(Letters) : line \in Text /\ Len(line) \in Nat
                                  /\ \A i \in 1 .. Len(line) : line[i] \in Glyph \ Controls
    /\ Blank \in Glyph \ Controls
    /\ <<"cr">> \in Text /\ Len(<<"cr">>) = 1 /\ <<"cr">>[1] = "cr"
<1>1. Letters \subseteq Glyph \ Controls /\ Blank \in Glyph \ Controls
  BY ConsoleSizes DEF Glyph, Controls, Blank
<1>2. ASSUME NEW n \in Int
      PROVE  /\ Blanks(n) \in Text /\ Len(Blanks(n)) = IF n > 0 THEN n ELSE 0
             /\ \A i \in 1 .. n : Blanks(n)[i] = Blank
  <2> DEFINE m == IF n > 0 THEN n ELSE 0
  <2>1. m \in Nat /\ Blanks(n) = [i \in 1 .. m |-> Blank]
    BY DEF Blanks
  <2>2. \A i \in 1 .. n : i \in 1 .. m
    OBVIOUS
  <2> HIDE DEF m
  <2>3. [i \in 1 .. m |-> Blank] \in Seq(Glyph \cup Controls)
        /\ Len([i \in 1 .. m |-> Blank]) = m
    BY <1>1, <2>1
  <2> QED BY <2>1, <2>2, <2>3 DEF Text, m
<1>3. ASSUME NEW line \in Seq(Letters)
      PROVE  line \in Text /\ Len(line) \in Nat
             /\ \A i \in 1 .. Len(line) : line[i] \in Glyph \ Controls
  <2>1. Letters \subseteq Glyph \cup Controls
    BY <1>1
  <2>2. line \in Text
    BY <2>1, SeqMonotonic DEF Text
  <2> QED BY <1>1, <2>2, LenProperties, ElementOfSeq
<1>4. <<"cr">> \in Text /\ Len(<<"cr">>) = 1 /\ <<"cr">>[1] = "cr"
  BY DEF Text, Controls
<1> QED BY <1>1, <1>2, <1>3, <1>4

\* Two texts in a row.
LEMMA Joined ==
    ASSUME NEW a \in Text, NEW b \in Text
    PROVE  /\ a \o b \in Text /\ Len(a) \in Nat /\ Len(b) \in Nat
           /\ Len(a \o b) = Len(a) + Len(b)
           /\ \A i \in 1 .. Len(a) : (a \o b)[i] = a[i]
           /\ \A i \in 1 .. Len(b) : (a \o b)[Len(a) + i] = b[i]
<1> DEFINE S == Glyph \cup Controls
           m == Len(a)
           n == Len(b)
           c == a \o b
<1>1. m \in Nat /\ n \in Nat
  BY LenProperties DEF Text
<1>2. c \in Seq(S) /\ Len(c) = m + n
      /\ \A i \in 1 .. m + n : c[i] = IF i <= m THEN a[i] ELSE b[i - m]
  BY ConcatProperties DEF Text
<1> HIDE DEF m, n, c
<1>3. ASSUME NEW i \in 1 .. m PROVE c[i] = a[i]
  BY <1>1, <1>2
<1>4. ASSUME NEW i \in 1 .. n PROVE c[m + i] = b[i]
  <2>1. m + i \in 1 .. m + n /\ ~(m + i <= m) /\ (m + i) - m = i
    BY <1>1
  <2> QED BY <1>2, <2>1
<1> QED BY <1>1, <1>2, <1>3, <1>4 DEF Text, m, n, c

\* They may be printed one after the other.
LEMMA PrintJoined ==
    ASSUME NEW g \in Screen, NEW a \in Text, NEW b \in Text
    PROVE  gpu_print(g, a \o b) = gpu_print(gpu_print(g, a), b)
<1> DEFINE m == Len(a)
           n == Len(b)
           c == a \o b
           h == gpu_print(g, a)
<1>1. c \in Text /\ m \in Nat /\ n \in Nat /\ Len(c) = m + n
      /\ (\A i \in 1 .. m : c[i] = a[i]) /\ \A i \in 1 .. n : c[m + i] = b[i]
  BY Joined
<1>2. h \in Screen
  BY PrintScreen
<1>3. PICK Q \in [0 .. m -> Screen] : /\ Q[0] = g /\ h = Q[m]
                                      /\ \A k \in 1 .. m : Q[k] = gpu_putc(Q[k - 1], a[k])
  BY PrintSteps
<1> HIDE DEF h
<1>4. PICK R \in [0 .. n -> Screen] : /\ R[0] = h /\ gpu_print(h, b) = R[n]
                                      /\ \A k \in 1 .. n : R[k] = gpu_putc(R[k - 1], b[k])
  BY <1>2, PrintSteps
<1> HIDE DEF c
<1> DEFINE N == Len(c)
<1>c. \E P \in [0 .. N -> Screen] :
         /\ P[0] = g /\ gpu_print(g, c) = P[N]
         /\ \A k \in 1 .. N : P[k] = gpu_putc(P[k - 1], c[k])
  BY <1>1, PrintSteps
<1>d. N = m + n
  BY <1>1
<1> HIDE DEF N
<1>5. PICK P \in [0 .. m + n -> Screen] :
           /\ P[0] = g /\ gpu_print(g, c) = P[m + n]
           /\ \A k \in 1 .. m + n : P[k] = gpu_putc(P[k - 1], c[k])
  BY <1>c, <1>d
<1> HIDE DEF m, n
<1>6. \A k \in 0 .. m : P[k] = Q[k]
  <2> DEFINE Same == {k \in Nat : k <= m => P[k] = Q[k]}
  <2>1. 0 \in Same
    BY <1>3, <1>5
  <2>2. ASSUME NEW k \in Nat, k \in Same PROVE k + 1 \in Same
    <3> SUFFICES ASSUME k + 1 <= m PROVE P[k + 1] = Q[k + 1]
      OBVIOUS
    <3>1. k + 1 \in 1 .. m /\ k + 1 \in 1 .. m + n /\ (k + 1) - 1 = k /\ P[k] = Q[k]
      BY <1>1, <2>2
    <3>2. P[k + 1] = gpu_putc(P[k], c[k + 1])
      BY <1>5, <3>1
    <3>3. Q[k + 1] = gpu_putc(Q[k], a[k + 1])
      BY <1>3, <3>1
    <3> QED BY <1>1, <3>1, <3>2, <3>3
  <2>3. Nat \subseteq Same
    <3> HIDE DEF Same
    <3> QED BY <2>1, <2>2, Induction
  <2> QED BY <1>1, <2>3
<1>7. \A k \in 0 .. n : P[m + k] = R[k]
  <2> DEFINE Same == {k \in Nat : k <= n => P[m + k] = R[k]}
  <2>1. 0 \in Same
    <3>1. P[m] = R[0] /\ m + 0 = m
      BY <1>1, <1>3, <1>4, <1>6
    <3> QED BY <3>1
  <2>2. ASSUME NEW k \in Nat, k \in Same PROVE k + 1 \in Same
    <3> SUFFICES ASSUME k + 1 <= n PROVE P[m + (k + 1)] = R[k + 1]
      OBVIOUS
    <3>1. k + 1 \in 1 .. n /\ (k + 1) - 1 = k /\ P[m + k] = R[k]
          /\ m + (k + 1) \in 1 .. m + n /\ (m + (k + 1)) - 1 = m + k
      BY <1>1, <2>2
    <3>2. P[m + (k + 1)] = gpu_putc(P[m + k], c[m + (k + 1)])
      BY <1>5, <3>1
    <3>3. R[k + 1] = gpu_putc(R[k], b[k + 1])
      BY <1>4, <3>1
    <3> QED BY <1>1, <3>1, <3>2, <3>3
  <2>3. Nat \subseteq Same
    <3> HIDE DEF Same
    <3> QED BY <2>1, <2>2, Induction
  <2> QED BY <1>1, <2>3
<1>8. P[m + n] = R[n]
  BY <1>1, <1>7
<1> QED BY <1>4, <1>5, <1>8 DEF c, h

\* A text that fits on the row behind the cursor is drawn there and nowhere
\* else.
LEMMA PrintRow ==
    ASSUME NEW g \in Screen, NEW s \in Text, g.col + Len(s) < Cols,
           \A i \in 1 .. Len(s) : s[i] \in Glyph \ Controls
    PROVE  LET r == gpu_print(g, s)
           IN  /\ r \in Screen /\ r.row = g.row /\ r.col = g.col + Len(s)
               /\ \A i \in 1 .. Len(s) : r.cell[<<g.row, g.col + i - 1>>] = s[i]
               /\ \A x \in Cell : x[2] < g.col \/ x[2] >= g.col + Len(s) \/ x[1] # g.row
                                   => r.cell[x] = g.cell[x]
<1> DEFINE n == Len(s)
           r == gpu_print(g, s)
<1>1. n \in Nat
  BY LenProperties DEF Text
<1>2. PICK P \in [0 .. n -> Screen] : /\ P[0] = g /\ r = P[n]
                                      /\ \A k \in 1 .. n : P[k] = gpu_putc(P[k - 1], s[k])
  BY PrintSteps
<1>3. g.row \in Nat /\ g.col \in Nat /\ g.row \in 0 .. Rows - 1
  BY ScreenFields
<1> DEFINE At(k) == /\ P[k].row = g.row /\ P[k].col = g.col + k
                    /\ \A i \in 1 .. k : P[k].cell[<<g.row, g.col + i - 1>>] = s[i]
                    /\ \A x \in Cell : x[2] < g.col \/ x[2] >= g.col + k \/ x[1] # g.row
                                        => P[k].cell[x] = g.cell[x]
           Good == {k \in Nat : k <= n => At(k)}
<1> HIDE DEF n, r
<1>4. 0 \in Good
  BY <1>2, <1>3
<1>5. ASSUME NEW k \in Nat, k \in Good PROVE k + 1 \in Good
  <2> SUFFICES ASSUME k + 1 <= n PROVE At(k + 1)
    OBVIOUS
  <2> DEFINE q == P[k]
             c == s[k + 1]
             y == <<g.row, g.col + k>>
  <2>1. At(k)
    BY <1>1, <1>5
  <2>2. q \in Screen /\ c \in Glyph \ Controls /\ k + 1 \in 1 .. n /\ (k + 1) - 1 = k
    BY <1>1 DEF n
  <2>3. P[k + 1] = gpu_putc(q, c)
    BY <1>2, <2>2
  <2>4. q.row = g.row /\ q.col = g.col + k /\ q.col + 1 < Cols
    BY <1>1, <1>3, <2>1, Sizes DEF n
  <2>5. /\ P[k + 1].row = g.row /\ P[k + 1].col = g.col + (k + 1)
        /\ P[k + 1].cell = [q.cell EXCEPT ![y] = c]
    <3>1. /\ gpu_putc(q, c).row = q.row /\ gpu_putc(q, c).col = q.col + 1
          /\ gpu_putc(q, c).cell = [q.cell EXCEPT ![<<q.row, q.col>>] = c]
      <4> HIDE DEF q, c
      <4> QED BY <2>2, <2>4, PutcDraws
    <3>2. g.col + k + 1 = g.col + (k + 1)
      BY <1>3
    <3>3. P[k + 1].row = q.row /\ P[k + 1].col = q.col + 1
          /\ P[k + 1].cell = [q.cell EXCEPT ![<<q.row, q.col>>] = c]
      <4> HIDE DEF q, c
      <4> QED BY <2>3, <3>1
    <3> HIDE DEF q, c
    <3> QED BY <2>4, <3>2, <3>3
  <2>6. y \in Cell /\ q.cell \in [Cell -> Glyph]
    <3>1. <<q.row, q.col>> \in Cell /\ q.cell \in [Cell -> Glyph]
      <4> HIDE DEF q
      <4> QED BY <2>2, ScreenFields
    <3> QED BY <2>4, <3>1
  <2> HIDE DEF q, c
  <2>7. ASSUME NEW i \in 1 .. k + 1
        PROVE  P[k + 1].cell[<<g.row, g.col + i - 1>>] = s[i]
    <3>1. CASE i = k + 1
      <4>1. <<g.row, g.col + i - 1>> = y
        BY <1>3, <3>1
      <4> QED BY <2>5, <2>6, <3>1, <4>1 DEF c
    <3>2. CASE i # k + 1
      <4>1. i \in 1 .. k /\ g.col + i - 1 # g.col + k
        BY <1>3, <3>2
      <4>2. <<g.row, g.col + i - 1>> # y
        <5> DEFINE u == g.col + i - 1
                   w == g.col + k
        <5>1. u # w
          BY <4>1
        <5> HIDE DEF u, w
        <5>2. <<g.row, u>> # <<g.row, w>>
          BY <5>1
        <5> QED BY <5>2 DEF u, w
      <4>3. q.cell[<<g.row, g.col + i - 1>>] = s[i]
        BY <2>1, <4>1 DEF q
      <4>4. <<g.row, g.col + i - 1>> \in Cell
        <5>1. g.col + i - 1 \in 0 .. Cols - 1
          BY <1>1, <1>3, <4>1, Sizes DEF n
        <5> QED BY <1>3, <5>1 DEF Cell
      <4> QED BY <2>5, <2>6, <4>2, <4>3, <4>4
    <3> QED BY <3>1, <3>2
  <2>8. ASSUME NEW x \in Cell, x[2] < g.col \/ x[2] >= g.col + (k + 1) \/ x[1] # g.row
        PROVE  P[k + 1].cell[x] = g.cell[x]
    <3>0. x[2] \in Nat
      BY Sizes DEF Cell
    <3>1. x # y /\ (x[2] < g.col \/ x[2] >= g.col + k \/ x[1] # g.row)
      BY <1>3, <2>8, <3>0
    <3>2. q.cell[x] = g.cell[x]
      BY <2>1, <3>1 DEF q
    <3> QED BY <2>5, <2>6, <3>1, <3>2
  <2> QED BY <2>5, <2>7, <2>8
<1>6. At(n)
  <2>1. Nat \subseteq Good
    <3> HIDE DEF Good
    <3> QED BY <1>4, <1>5, Induction
  <2> QED BY <1>1, <2>1
<1>7. r \in Screen
  BY <1>1, <1>2
<1> QED BY <1>2, <1>6, <1>7 DEF r, n

\* The cells of the cursor's row after a text that fits.
LEMMA PrintCells ==
    ASSUME NEW g \in Screen, NEW s \in Text, g.col + Len(s) < Cols,
           \A i \in 1 .. Len(s) : s[i] \in Glyph \ Controls
    PROVE  \A c \in 0 .. Cols - 1 :
              gpu_print(g, s).cell[<<g.row, c>>] =
                 IF g.col <= c /\ c < g.col + Len(s) THEN s[c - g.col + 1] ELSE g.cell[<<g.row, c>>]
<1> DEFINE n == Len(s)
           r == gpu_print(g, s)
<1>1. n \in Nat
  BY LenProperties DEF Text
<1>2. g.row \in Nat /\ g.col \in Nat /\ g.row \in 0 .. Rows - 1
  BY ScreenFields
<1>3. /\ \A i \in 1 .. n : r.cell[<<g.row, g.col + i - 1>>] = s[i]
      /\ \A x \in Cell : x[2] < g.col \/ x[2] >= g.col + n \/ x[1] # g.row => r.cell[x] = g.cell[x]
  BY PrintRow
<1> HIDE DEF n, r
<1> SUFFICES ASSUME NEW c \in 0 .. Cols - 1
             PROVE  r.cell[<<g.row, c>>] =
                      IF g.col <= c /\ c < g.col + n THEN s[c - g.col + 1] ELSE g.cell[<<g.row, c>>]
  BY DEF n, r
<1>4. CASE g.col <= c /\ c < g.col + n
  <2>1. c - g.col + 1 \in 1 .. n /\ g.col + (c - g.col + 1) - 1 = c
    BY <1>1, <1>2, <1>4, Sizes
  <2> QED BY <1>3, <1>4, <2>1
<1>5. CASE ~(g.col <= c /\ c < g.col + n)
  <2> DEFINE x == <<g.row, c>>
  <2>1. x \in Cell /\ x[1] = g.row /\ x[2] = c
    BY <1>2 DEF Cell
  <2>2. c < g.col \/ c >= g.col + n
    BY <1>1, <1>2, <1>5, Sizes
  <2> HIDE DEF x
  <2>3. r.cell[x] = g.cell[x]
    BY <1>3, <2>1, <2>2
  <2> QED BY <1>5, <2>3 DEF x
<1> QED BY <1>4, <1>5

\* A carriage return alone.
LEMMA PrintReturn ==
    ASSUME NEW g \in Screen
    PROVE  /\ gpu_print(g, <<"cr">>) \in Screen
           /\ gpu_print(g, <<"cr">>).row = g.row /\ gpu_print(g, <<"cr">>).col = 0
           /\ gpu_print(g, <<"cr">>).cell = g.cell
<1> DEFINE s == <<"cr">>
<1>1. s \in Text /\ Len(s) = 1 /\ s[1] = "cr"
  BY Drawable
<1> HIDE DEF s
<1>2. PICK P \in [0 .. 1 -> Screen] : /\ P[0] = g /\ gpu_print(g, s) = P[1]
                                      /\ \A k \in 1 .. 1 : P[k] = gpu_putc(P[k - 1], s[k])
  <2> DEFINE n == Len(s)
  <2>1. \E P \in [0 .. n -> Screen] : /\ P[0] = g /\ gpu_print(g, s) = P[n]
                                      /\ \A k \in 1 .. n : P[k] = gpu_putc(P[k - 1], s[k])
    BY <1>1, PrintSteps
  <2>2. n = 1
    BY <1>1
  <2> HIDE DEF n
  <2> QED BY <2>1, <2>2
<1>3. P[1] = gpu_putc(g, "cr")
  BY <1>1, <1>2
<1> QED BY <1>2, <1>3, PutcReturn DEF s

\* The prompt, the line and the rest of the row.
LEMMA ShownIs ==
    ASSUME NEW line \in Seq(Letters), Len(Prompt) + Len(line) < Cols, NEW c \in 0 .. Cols - 2
    PROVE  (Prompt \o line \o Blanks(Cols))[c + 1] =
              IF c < Len(Prompt) THEN Prompt[c + 1]
              ELSE IF c < Len(Prompt) + Len(line) THEN line[c - Len(Prompt) + 1] ELSE Blank
<1> DEFINE p == Len(Prompt)
           l == Len(line)
           a == Prompt \o line
           b == Blanks(Cols)
           d == a \o b
<1>1. line \in Text /\ l \in Nat
  BY Drawable
<1>2. Prompt \in Text /\ p \in Nat
  BY PromptFits
<1>3. b \in Text /\ Len(b) = Cols /\ \A i \in 1 .. Cols : b[i] = Blank
  BY Drawable, Sizes
<1>4. a \in Text /\ Len(a) = p + l /\ (\A i \in 1 .. p : a[i] = Prompt[i])
      /\ \A i \in 1 .. l : a[p + i] = line[i]
  BY <1>1, <1>2, Joined
<1> HIDE DEF a, b
<1>5. (\A i \in 1 .. Len(a) : d[i] = a[i]) /\ \A i \in 1 .. Len(b) : d[Len(a) + i] = b[i]
  BY <1>3, <1>4, Joined
<1> HIDE DEF p, l, d
<1>6. (\A i \in 1 .. p + l : d[i] = a[i]) /\ \A i \in 1 .. Cols : d[(p + l) + i] = b[i]
  BY <1>3, <1>4, <1>5
<1>7. CASE c < p
  <2>1. c + 1 \in 1 .. p /\ c + 1 \in 1 .. p + l
    BY <1>1, <1>2, <1>7, Sizes
  <2>2. d[c + 1] = Prompt[c + 1]
    BY <1>4, <1>6, <2>1
  <2> QED BY <1>7, <2>2 DEF p, l, d, a, b
<1>8. CASE ~(c < p) /\ c < p + l
  <2>1. c - p + 1 \in 1 .. l /\ c + 1 \in 1 .. p + l /\ p + (c - p + 1) = c + 1
    BY <1>1, <1>2, <1>8, Sizes
  <2>2. d[c + 1] = line[c - p + 1]
    BY <1>4, <1>6, <2>1
  <2> QED BY <1>8, <2>2 DEF p, l, d, a, b
<1>9. CASE ~(c < p) /\ ~(c < p + l)
  <2>1. c - (p + l) + 1 \in 1 .. Cols /\ (p + l) + (c - (p + l) + 1) = c + 1
    BY <1>1, <1>2, <1>9, Sizes
  <2>2. d[c + 1] = Blank
    BY <1>3, <1>6, <2>1
  <2> QED BY <1>9, <2>2 DEF p, l, d, a, b
<1> QED BY <1>7, <1>8, <1>9

\* The part of the line before the cursor.
LEMMA Before ==
    ASSUME NEW line \in Seq(Letters), NEW k \in 0 .. Len(line)
    PROVE  /\ SubSeq(line, 1, k) \in Seq(Letters) /\ Len(SubSeq(line, 1, k)) = k
           /\ \A i \in 1 .. k : SubSeq(line, 1, k)[i] = line[i]
<1>1. Len(line) \in Nat
  BY LenProperties
<1>2. CASE k = 0
  BY <1>1, <1>2, SubSeqProperties
<1>3. CASE k > 0
  BY <1>1, <1>3, SubSeqProperties
<1> QED BY <1>1, <1>2, <1>3

\* shell_redraw_line, one text after the other.
LEMMA RedrawSteps ==
    ASSUME NEW g \in Screen, NEW line \in Seq(Letters), NEW k \in 0 .. Len(line)
    PROVE  LET g1 == gpu_print(gpu_print(g, <<"cr">>), Prompt)
               g2 == gpu_print(g1, line)
               g3 == gpu_print(g2, Blanks(Cols - 1 - Len(Prompt) - Len(line)))
               g4 == gpu_print(gpu_print(g3, <<"cr">>), Prompt)
           IN  shell_redraw_line(g, line, k) = gpu_print(g4, SubSeq(line, 1, k))
<1> DEFINE c == <<"cr">>
           pad == Cols - 1 - Len(Prompt) - Len(line)
           b == Blanks(pad)
           f == SubSeq(line, 1, k)
           t1 == c \o Prompt
           t2 == t1 \o line
           t3 == t2 \o b
           t4 == t3 \o c
           t5 == t4 \o Prompt
           t6 == t5 \o f
<1>0. shell_redraw_line(g, line, k) = gpu_print(g, t6)
  BY DEF shell_redraw_line
<1>1. c \in Text /\ line \in Text /\ Prompt \in Text /\ Len(Prompt) \in Nat /\ Len(line) \in Nat
  BY Drawable, PromptFits
<1>2. pad \in Int
  BY <1>1, Sizes
<1> HIDE DEF pad
<1>3. b \in Text
  BY <1>2, Drawable
<1>4. f \in Text
  <2>1. f \in Seq(Letters)
    BY Before
  <2> QED BY <2>1, Drawable
<1> HIDE DEF c, b, f
<1>5. t1 \in Text /\ gpu_print(g, t1) = gpu_print(gpu_print(g, c), Prompt)
  BY <1>1, Joined, PrintJoined
<1> HIDE DEF t1
<1>6. t2 \in Text /\ gpu_print(g, t2) = gpu_print(gpu_print(g, t1), line)
  BY <1>1, <1>5, Joined, PrintJoined
<1> HIDE DEF t2
<1>7. t3 \in Text /\ gpu_print(g, t3) = gpu_print(gpu_print(g, t2), b)
  BY <1>3, <1>6, Joined, PrintJoined
<1> HIDE DEF t3
<1>8. t4 \in Text /\ gpu_print(g, t4) = gpu_print(gpu_print(g, t3), c)
  BY <1>1, <1>7, Joined, PrintJoined
<1> HIDE DEF t4
<1>9. t5 \in Text /\ gpu_print(g, t5) = gpu_print(gpu_print(g, t4), Prompt)
  BY <1>1, <1>8, Joined, PrintJoined
<1> HIDE DEF t5
<1>10. gpu_print(g, t6) = gpu_print(gpu_print(g, t5), f)
  BY <1>4, <1>9, PrintJoined
<1> HIDE DEF t6
<1>11. shell_redraw_line(g, line, k) =
         gpu_print(gpu_print(gpu_print(gpu_print(gpu_print(gpu_print(gpu_print(g, c), Prompt), line), b), c), Prompt), f)
  BY <1>0, <1>5, <1>6, <1>7, <1>8, <1>9, <1>10
<1> QED BY <1>11 DEF c, b, f, pad

\* It leaves a screen, and a line that fits on the row is all that the row
\* shows, with the cursor behind the line's first k characters.
LEMMA Redraw ==
    ASSUME NEW g \in Screen, NEW line \in Seq(Letters), NEW k \in 0 .. Len(line)
    PROVE  LET r == shell_redraw_line(g, line, k)
           IN  /\ r \in Screen
               /\ Len(Prompt) + Len(line) < Cols =>
                    /\ r.col = Len(Prompt) + k
                    /\ \A c \in 0 .. Cols - 2 :
                          r.cell[<<r.row, c>>] = (Prompt \o line \o Blanks(Cols))[c + 1]
<1> DEFINE p == Len(Prompt)
           l == Len(line)
           b == Blanks(Cols - 1 - p - l)
           f == SubSeq(line, 1, k)
           g0 == gpu_print(g, <<"cr">>)
           g1 == gpu_print(g0, Prompt)
           g2 == gpu_print(g1, line)
           g3 == gpu_print(g2, b)
           g4 == gpu_print(g3, <<"cr">>)
           g5 == gpu_print(g4, Prompt)
           r == gpu_print(g5, f)
           Is(c) == IF c < p THEN Prompt[c + 1] ELSE IF c < p + l THEN line[c - p + 1] ELSE Blank
<1>0. shell_redraw_line(g, line, k) = r
  BY RedrawSteps
<1>1. /\ Prompt \in Text /\ p \in Nat /\ p + 1 < Cols
      /\ \A i \in 1 .. p : Prompt[i] \in Glyph \ Controls
  BY PromptFits, ElementOfSeq
<1>2. line \in Text /\ l \in Nat /\ \A i \in 1 .. l : line[i] \in Glyph \ Controls
  BY Drawable
<1>3. /\ b \in Text /\ Len(b) \in Nat
      /\ p + l < Cols => p + l + Len(b) = Cols - 1 /\ \A i \in 1 .. Len(b) : b[i] = Blank
  <2> DEFINE pad == Cols - 1 - p - l
  <2>1. pad \in Int /\ (p + l < Cols => pad >= 0 /\ p + l + pad = Cols - 1)
    BY <1>1, <1>2, Sizes
  <2>2. b = Blanks(pad)
    OBVIOUS
  <2> HIDE DEF pad, b, p, l
  <2>3. b \in Text /\ Len(b) = (IF pad > 0 THEN pad ELSE 0) /\ \A i \in 1 .. pad : b[i] = Blank
    BY <2>1, <2>2, Drawable
  <2>4. p + l < Cols => Len(b) = pad
    BY <2>1, <2>3
  <2> QED BY <2>1, <2>3, <2>4
<1>4. f \in Text /\ Len(f) = k /\ \A i \in 1 .. k : f[i] = line[i]
  <2>1. f \in Seq(Letters) /\ Len(f) = k /\ \A i \in 1 .. k : f[i] = line[i]
    BY Before
  <2> QED BY <2>1, Drawable
<1>5. k \in 0 .. l
  OBVIOUS
<1>6. g0 \in Screen /\ g0.row = g.row /\ g0.col = 0 /\ g.row \in 0 .. Rows - 1
  BY PrintReturn, ScreenFields
<1> HIDE DEF p, l, b, f, g0
<1>7. g1 \in Screen
  BY <1>1, <1>6, PrintScreen
<1> HIDE DEF g1
<1>8. g2 \in Screen
  BY <1>2, <1>7, PrintScreen
<1> HIDE DEF g2
<1>9. g3 \in Screen
  BY <1>3, <1>8, PrintScreen
<1> HIDE DEF g3
<1>10. g4 \in Screen /\ g4.row = g3.row /\ g4.col = 0 /\ g4.cell = g3.cell
  BY <1>9, PrintReturn
<1> HIDE DEF g4
<1>11. g5 \in Screen
  BY <1>1, <1>10, PrintScreen
<1> HIDE DEF g5
<1>12. r \in Screen
  BY <1>4, <1>11, PrintScreen
<1> HIDE DEF r
<1>13. ASSUME p + l < Cols
       PROVE  r.row = g.row /\ r.col = p + k /\ \A c \in 0 .. Cols - 2 : r.cell[<<g.row, c>>] = Is(c)
  <2>1. /\ g1.row = g.row /\ g1.col = p
        /\ \A c \in 0 .. Cols - 1 : c < p => g1.cell[<<g.row, c>>] = Prompt[c + 1]
    <3>1. g0.col + Len(Prompt) < Cols
      BY <1>1, <1>6, Sizes DEF p
    <3>2. g1.row = g0.row /\ g1.col = g0.col + p
      BY <1>1, <1>6, <3>1, PrintRow DEF g1, p
    <3>3. \A c \in 0 .. Cols - 1 :
             g1.cell[<<g0.row, c>>] =
                IF g0.col <= c /\ c < g0.col + p THEN Prompt[c - g0.col + 1] ELSE g0.cell[<<g0.row, c>>]
      BY <1>1, <1>6, <3>1, PrintCells DEF g1, p
    <3>4. \A c \in 0 .. Cols - 1 : c < p => 0 <= c /\ c < 0 + p /\ c - 0 + 1 = c + 1
      BY <1>1, Sizes
    <3>5. 0 + p = p
      BY <1>1
    <3> QED BY <1>6, <3>2, <3>3, <3>4, <3>5
  <2>2. /\ g2.row = g.row /\ g2.col = p + l
        /\ \A c \in 0 .. Cols - 1 : c < p + l => g2.cell[<<g.row, c>>] = Is(c)
    <3>1. g1.col + Len(line) < Cols
      BY <1>1, <1>2, <1>13, <2>1 DEF l
    <3>2. g2.row = g1.row /\ g2.col = g1.col + l
      BY <1>2, <1>7, <3>1, PrintRow DEF g2, l
    <3>3. \A c \in 0 .. Cols - 1 :
             g2.cell[<<g1.row, c>>] =
                IF g1.col <= c /\ c < g1.col + l THEN line[c - g1.col + 1] ELSE g1.cell[<<g1.row, c>>]
      BY <1>2, <1>7, <3>1, PrintCells DEF g2, l
    <3>4. \A c \in 0 .. Cols - 1 : c < p <=> ~(p <= c)
      BY <1>1, Sizes
    <3> QED BY <2>1, <3>2, <3>3, <3>4
  <2>3. /\ g3.row = g.row /\ g3.col = Cols - 1
        /\ \A c \in 0 .. Cols - 2 : g3.cell[<<g.row, c>>] = Is(c)
    <3> DEFINE n == Len(b)
    <3>0. p + l + n = Cols - 1
      BY <1>3, <1>13
    <3>1. g2.col + Len(b) < Cols
      BY <1>1, <1>2, <1>3, <2>2, <3>0, Sizes
    <3>2. \A i \in 1 .. n : b[i] = Blank /\ b[i] \in Glyph \ Controls
      BY <1>3, <1>13, Drawable
    <3>3. g3.row = g2.row /\ g3.col = g2.col + n
      BY <1>3, <1>8, <3>1, <3>2, PrintRow DEF g3
    <3>4. \A c \in 0 .. Cols - 1 :
             g3.cell[<<g2.row, c>>] =
                IF g2.col <= c /\ c < g2.col + n THEN b[c - g2.col + 1] ELSE g2.cell[<<g2.row, c>>]
      BY <1>3, <1>8, <3>1, <3>2, PrintCells DEF g3
    <3> HIDE DEF n
    <3>5. ASSUME NEW c \in 0 .. Cols - 2 PROVE g3.cell[<<g.row, c>>] = Is(c)
      <4>1. c \in 0 .. Cols - 1
        BY Sizes
      <4>2. CASE c < p + l
        <5>1. ~(g2.col <= c)
          BY <1>1, <1>2, <2>2, <4>2, Sizes
        <5> QED BY <2>2, <3>4, <4>1, <4>2, <5>1
      <4>3. CASE ~(c < p + l)
        <5>1. g2.col <= c /\ c < g2.col + n /\ c - g2.col + 1 \in 1 .. n /\ ~(c < p)
          BY <1>1, <1>2, <1>3, <2>2, <3>0, <4>3, Sizes DEF n
        <5> QED BY <2>2, <3>2, <3>4, <4>1, <4>3, <5>1
      <4> QED BY <4>2, <4>3
    <3> QED BY <2>2, <3>0, <3>3, <3>5
  <2>4. /\ g5.row = g.row /\ g5.col = p
        /\ \A c \in 0 .. Cols - 2 : g5.cell[<<g.row, c>>] = Is(c)
    <3>1. g4.col + Len(Prompt) < Cols
      BY <1>1, <1>10, Sizes DEF p
    <3>2. g5.row = g4.row /\ g5.col = g4.col + p
      BY <1>1, <1>10, <3>1, PrintRow DEF g5, p
    <3>3. \A c \in 0 .. Cols - 1 :
             g5.cell[<<g4.row, c>>] =
                IF g4.col <= c /\ c < g4.col + p THEN Prompt[c - g4.col + 1] ELSE g4.cell[<<g4.row, c>>]
      BY <1>1, <1>10, <3>1, PrintCells DEF g5, p
    <3>4. \A c \in 0 .. Cols - 2 : /\ c \in 0 .. Cols - 1 /\ 0 <= c /\ c - 0 + 1 = c + 1
      BY Sizes
    <3>5. 0 + p = p
      BY <1>1
    <3> QED BY <1>10, <2>3, <3>2, <3>3, <3>4, <3>5
  <2>5. /\ r.row = g.row /\ r.col = p + k
        /\ \A c \in 0 .. Cols - 2 : r.cell[<<g.row, c>>] = Is(c)
    <3>1. g5.col + Len(f) < Cols
      BY <1>1, <1>2, <1>4, <1>5, <1>13, <2>4, Sizes
    <3>2. \A i \in 1 .. Len(f) : f[i] \in Glyph \ Controls
      BY <1>2, <1>4, <1>5
    <3>3. r.row = g5.row /\ r.col = g5.col + Len(f)
      BY <1>4, <1>11, <3>1, <3>2, PrintRow DEF r
    <3>4. \A c \in 0 .. Cols - 1 :
             r.cell[<<g5.row, c>>] =
                IF g5.col <= c /\ c < g5.col + Len(f) THEN f[c - g5.col + 1] ELSE g5.cell[<<g5.row, c>>]
      BY <1>4, <1>11, <3>1, <3>2, PrintCells DEF r
    <3>5. ASSUME NEW c \in 0 .. Cols - 2 PROVE r.cell[<<g.row, c>>] = Is(c)
      <4>1. c \in 0 .. Cols - 1
        BY Sizes
      <4>2. CASE p <= c /\ c < p + k
        <5>1. c - p + 1 \in 1 .. k /\ ~(c < p) /\ c < p + l
          BY <1>1, <1>2, <1>5, <4>2, Sizes
        <5>2. f[c - p + 1] = line[c - p + 1]
          BY <1>4, <5>1
        <5> QED BY <1>4, <2>4, <3>4, <4>1, <4>2, <5>1, <5>2
      <4>3. CASE ~(p <= c /\ c < p + k)
        BY <1>4, <2>4, <3>4, <4>1, <4>3
      <4> QED BY <4>2, <4>3
    <3> QED BY <1>4, <2>4, <3>3, <3>5
  <2> QED BY <2>5
<1>14. \A c \in 0 .. Cols - 2 : p + l < Cols => (Prompt \o line \o Blanks(Cols))[c + 1] = Is(c)
  BY ShownIs DEF p, l
<1> HIDE DEF Is
<1>15. /\ r \in Screen
       /\ p + l < Cols => /\ r.col = p + k
                          /\ \A c \in 0 .. Cols - 2 :
                               r.cell[<<r.row, c>>] = (Prompt \o line \o Blanks(Cols))[c + 1]
  BY <1>12, <1>13, <1>14
<1> QED BY <1>0, <1>15 DEF p, l

-----------------------------------------------------------------------------
(* The cursor and the erasures of drivers/gpu.c, the parser of term.c.     *)

\* The parser's state as term.c keeps it.
Parser == [st : {"ground", "escape", "csi", "osc"}, params : [1 .. MaxParams -> Nat],
           n : 0 .. MaxParams, active : BOOLEAN, row : 0 .. Rows - 1, col : 0 .. Cols - 1]

\* gpu_set_cursor brings every position onto the screen.
LEMMA CursorScreen ==
    ASSUME NEW g \in Screen, NEW r \in Nat, NEW c \in Nat
    PROVE  gpu_set_cursor(g, r, c) \in Screen
<1> DEFINE y == Least(r, Rows - 1)
           x == Least(c, Cols - 1)
<1>1. y \in 0 .. Rows - 1 /\ x \in 0 .. Cols - 1
  BY Sizes DEF Least
<1>2. gpu_set_cursor(g, r, c) = [g EXCEPT !.row = y, !.col = x]
  BY DEF gpu_set_cursor
<1> HIDE DEF x, y
<1> QED BY <1>1, <1>2 DEF Screen

\* The erasures leave a screen.
LEMMA EraseScreen ==
    ASSUME NEW g \in Screen, NEW S
    PROVE  Erase(g, S) \in Screen
<1> DEFINE k == [x \in Cell |-> IF x \in S THEN Blank ELSE g.cell[x]]
<1>1. k \in [Cell -> Glyph]
  BY DEF Screen, Glyph
<1>2. Erase(g, S) = [g EXCEPT !.cell = k]
  BY DEF Erase, Screen
<1> HIDE DEF k
<1> QED BY <1>1, <1>2 DEF Screen

\* csi_dispatch leaves the cursor on the screen, whatever the parameters.
LEMMA MovedScreen ==
    ASSUME NEW g \in Screen, NEW t \in Parser, NEW b
    PROVE  Moved(g, t, b) \in Screen
<1> DEFINE p(i) == IF t.n >= i THEN t.params[i] ELSE 0
           n0 == IF p(1) > 0 THEN p(1) ELSE 1
           Less(a, k) == IF a >= k THEN a - k ELSE 0
<1>1. g.row \in Nat /\ g.col \in Nat
  BY ScreenFields
<1>2. \A i \in Nat \ {0} : p(i) \in Nat
  <2>1. t.n \in 0 .. MaxParams /\ t.params \in [1 .. MaxParams -> Nat]
    BY DEF Parser
  <2>2. \A i \in Nat \ {0} : t.n >= i => i \in 1 .. MaxParams
    BY <2>1, Sizes
  <2> QED BY <2>1, <2>2
<1>3. p(1) \in Nat /\ p(2) \in Nat
  BY <1>2
<1>4. n0 \in Nat
  BY <1>3
<1>5. \A a, k \in Nat : Less(a, k) \in Nat
  OBVIOUS
<1>6. t.row \in Nat /\ t.col \in Nat
  <2>1. t.row \in 0 .. Rows - 1 /\ t.col \in 0 .. Cols - 1
    BY DEF Parser
  <2> QED BY <2>1, Sizes
<1>7. Moved(g, t, b) =
        CASE b = "A" -> gpu_set_cursor(g, Less(g.row, n0), g.col)
          [] b = "B" -> gpu_set_cursor(g, g.row + n0, g.col)
          [] b = "C" -> gpu_set_cursor(g, g.row, g.col + n0)
          [] b = "D" -> gpu_set_cursor(g, g.row, Less(g.col, n0))
          [] b = "H" -> gpu_set_cursor(g, Less(p(1), 1), Less(p(2), 1))
          [] b = "J" -> gpu_erase_display(g, p(1))
          [] b = "K" -> gpu_erase_line(g, p(1))
          [] b = "u" -> gpu_set_cursor(g, t.row, t.col)
          [] OTHER   -> g
  BY DEF Moved
<1>8. gpu_erase_display(g, p(1)) \in Screen /\ gpu_erase_line(g, p(1)) \in Screen
  BY EraseScreen DEF gpu_erase_display, gpu_erase_line
<1> HIDE DEF p, n0
<1>9. Less(g.row, n0) \in Nat /\ Less(g.col, n0) \in Nat /\ Less(p(1), 1) \in Nat /\ Less(p(2), 1) \in Nat
  BY <1>1, <1>3, <1>4, <1>5
<1>10. g.row + n0 \in Nat /\ g.col + n0 \in Nat
  BY <1>1, <1>4
<1> HIDE DEF Less
<1>11. CASE b \in {"A", "B", "C", "D"}
  <2>1. CASE b = "A"
    BY <1>1, <1>7, <1>9, <2>1, CursorScreen
  <2>2. CASE b = "B"
    BY <1>1, <1>7, <1>10, <2>2, CursorScreen
  <2>3. CASE b = "C"
    BY <1>1, <1>7, <1>10, <2>3, CursorScreen
  <2>4. CASE b = "D"
    BY <1>1, <1>7, <1>9, <2>4, CursorScreen
  <2> QED BY <1>11, <2>1, <2>2, <2>3, <2>4
<1>12. CASE b \in {"H", "u"}
  <2>1. CASE b = "H"
    BY <1>7, <1>9, <2>1, CursorScreen
  <2>2. CASE b = "u"
    BY <1>6, <1>7, <2>2, CursorScreen
  <2> QED BY <1>12, <2>1, <2>2
<1>13. CASE b \in {"J", "K"}
  BY <1>7, <1>8, <1>13
<1>14. CASE b \notin {"A", "B", "C", "D", "H", "J", "K", "u"}
  BY <1>7, <1>14
<1> QED BY <1>11, <1>12, <1>13, <1>14

\* The initial state of the parser.
LEMMA TermInitIs == TermInit \in Parser /\ TermInit.params \in [1 .. MaxParams -> Nat]
BY Sizes DEF TermInit, Parser

\* Its parameter operations keep the count within params[].
LEMMA ParserSteps ==
    ASSUME NEW t \in Parser
    PROVE  /\ params_reset(t) \in Parser /\ param_sep(t) \in Parser
           /\ \A d \in 0 .. 9 : param_digit(t, d) \in Parser
           /\ \A s \in {"ground", "escape", "csi", "osc"} : [t EXCEPT !.st = s] \in Parser
<1>0. t.n \in 0 .. MaxParams /\ t.params \in [1 .. MaxParams -> Nat]
  BY DEF Parser
<1>1. params_reset(t) \in Parser
  <2>1. 0 \in 0 .. MaxParams
    BY Sizes
  <2> QED BY <2>1, TermInitIs DEF params_reset, Parser
<1>2. param_sep(t) \in Parser
  <2>1. CASE t.n < MaxParams
    <3> DEFINE m == t.n + 1
               q == [t.params EXCEPT ![m] = 0]
    <3>1. m \in 0 .. MaxParams /\ m \in 1 .. MaxParams
      BY <1>0, <2>1, Sizes
    <3>2. param_sep(t) = [t EXCEPT !.n = m, !.active = FALSE, !.params = q]
      BY <2>1 DEF param_sep, Parser
    <3>3. q \in [1 .. MaxParams -> Nat]
      BY <1>0
    <3> HIDE DEF m, q
    <3> QED BY <3>1, <3>2, <3>3 DEF Parser
  <2>2. CASE ~(t.n < MaxParams)
    BY <2>2 DEF param_sep
  <2> QED BY <2>1, <2>2
<1>3. ASSUME NEW d \in 0 .. 9 PROVE param_digit(t, d) \in Parser
  <2> DEFINE m == IF t.n = 0 THEN 1 ELSE t.n
             old == IF t.n = 0 \/ ~t.active THEN 0 ELSE t.params[m]
             v == old * 10 + d
             q == [t.params EXCEPT ![m] = v]
  <2>1. m \in 1 .. MaxParams /\ m \in 0 .. MaxParams
    BY <1>0, Sizes
  <2>2. old \in Nat
    <3> HIDE DEF m
    <3> QED BY <1>0, <2>1
  <2>3. v \in Nat
    <3> HIDE DEF old
    <3> QED BY <2>2
  <2>4. param_digit(t, d) = [t EXCEPT !.n = m, !.active = TRUE, !.params = q]
    BY DEF param_digit, Parser
  <2> HIDE DEF m, v
  <2>5. q \in [1 .. MaxParams -> Nat]
    BY <1>0, <2>3
  <2> HIDE DEF q
  <2> QED BY <2>1, <2>4, <2>5 DEF Parser
<1>4. \A s \in {"ground", "escape", "csi", "osc"} : [t EXCEPT !.st = s] \in Parser
  BY DEF Parser
<1> QED BY <1>1, <1>2, <1>3, <1>4

-----------------------------------------------------------------------------
(* Lines and the history of kernel/shell.c.                                *)

\* The lines the editor's buffer holds.
LEMMA LinesAre ==
    /\ \A s : s \in Lines <=> s \in Seq(Letters) /\ Len(s) <= LineMax - 1
    /\ << >> \in Lines
<1>1. ASSUME NEW s \in Lines PROVE s \in Seq(Letters) /\ Len(s) <= LineMax - 1
  <2>1. PICK n \in 0 .. LineMax - 1 : s \in [1 .. n -> Letters]
    BY DEF Lines
  <2>2. n \in Nat /\ n <= LineMax - 1
    BY Sizes
  <2>3. s \in Seq(Letters) /\ Len(s) = n
    BY <2>1, <2>2
  <2> QED BY <2>2, <2>3
<1>2. ASSUME NEW s \in Seq(Letters), Len(s) <= LineMax - 1 PROVE s \in Lines
  <2>1. Len(s) \in Nat /\ s \in [1 .. Len(s) -> Letters]
    BY LenProperties
  <2>2. Len(s) \in 0 .. LineMax - 1
    BY <1>2, <2>1, Sizes
  <2> QED BY <2>1, <2>2 DEF Lines
<1>3. << >> \in Seq(Letters) /\ Len(<< >>) = 0 /\ 0 <= LineMax - 1
  BY EmptySeq, Sizes
<1> QED BY <1>1, <1>2, <1>3

\* A letter goes in at the cursor.
LEMMA Inserted ==
    ASSUME NEW s \in Lines, NEW k \in 0 .. Len(s), NEW c \in Letters, Len(s) < LineMax - 1
    PROVE  /\ InsertAt(s, k + 1, c) \in Lines
           /\ k + 1 \in 0 .. Len(InsertAt(s, k + 1, c))
<1> DEFINE n == Len(s)
           a == SubSeq(s, 1, k)
           b == SubSeq(s, k + 1, n)
<1>1. s \in Seq(Letters) /\ n \in Nat
  BY LinesAre, LenProperties
<1>2. \A i \in 1 .. n : s[i] \in Letters
  BY <1>1, ElementOfSeq
<1>3. (k + 1) - 1 = k /\ k \in Int /\ k + 1 \in Int /\ n \in Int /\ k \in 0 .. n
  BY <1>1
<1>4. a \in Seq(Letters) /\ Len(a) = k
  BY <1>1, Before
<1>5. b \in Seq(Letters) /\ Len(b) = IF k + 1 <= n THEN n - (k + 1) + 1 ELSE 0
  <2>1. \A i \in k + 1 .. n : s[i] \in Letters
    BY <1>2, <1>3
  <2> HIDE DEF n
  <2> QED BY <1>3, <2>1, SubSeqProperties
<1>6. InsertAt(s, k + 1, c) = a \o <<c>> \o b
  BY <1>3 DEF InsertAt
<1> HIDE DEF a, b, n
<1>7. Len(b) = n - k
  BY <1>1, <1>3, <1>5
<1>8. <<c>> \in Seq(Letters) /\ Len(<<c>>) = 1
  OBVIOUS
<1>9. a \o <<c>> \in Seq(Letters) /\ Len(a \o <<c>>) = k + 1
  BY <1>4, <1>8, ConcatProperties
<1>10. a \o <<c>> \o b \in Seq(Letters) /\ Len(a \o <<c>> \o b) = (k + 1) + (n - k)
  <2> DEFINE d == a \o <<c>>
  <2>1. d \o b \in Seq(Letters) /\ Len(d \o b) = Len(d) + Len(b)
    <3> HIDE DEF d
    <3> QED BY <1>5, <1>9, ConcatProperties DEF d
  <2> QED BY <1>7, <1>9, <2>1
<1>11. (k + 1) + (n - k) = n + 1 /\ n + 1 <= LineMax - 1 /\ k + 1 \in 0 .. n + 1
  BY <1>1, <1>3, Sizes DEF n
<1> QED BY <1>6, <1>10, <1>11, LinesAre

\* The character at i goes.
LEMMA Removed ==
    ASSUME NEW s \in Lines, NEW i \in 1 .. Len(s)
    PROVE  RemoveAt(s, i) \in Lines /\ Len(RemoveAt(s, i)) = Len(s) - 1
<1> DEFINE n == Len(s)
           k == i - 1
           a == SubSeq(s, 1, k)
           b == SubSeq(s, i + 1, n)
<1>1. s \in Seq(Letters) /\ n \in Nat /\ n <= LineMax - 1
  BY LinesAre, LenProperties
<1>2. \A j \in 1 .. n : s[j] \in Letters
  BY <1>1, ElementOfSeq
<1>3. k \in 0 .. n /\ k \in Int /\ i + 1 \in Int /\ n \in Int /\ i \in 1 .. n
  BY <1>1
<1>4. a \in Seq(Letters) /\ Len(a) = k
  <2> HIDE DEF k
  <2> QED BY <1>1, <1>3, Before DEF n
<1>5. b \in Seq(Letters) /\ Len(b) = IF i + 1 <= n THEN n - (i + 1) + 1 ELSE 0
  <2>1. \A j \in i + 1 .. n : s[j] \in Letters
    BY <1>2, <1>3
  <2> HIDE DEF n
  <2> QED BY <1>3, <2>1, SubSeqProperties
<1>6. RemoveAt(s, i) = a \o b
  BY DEF RemoveAt
<1> HIDE DEF a, b, n
<1>7. Len(b) = n - i
  BY <1>1, <1>3, <1>5
<1>8. a \o b \in Seq(Letters) /\ Len(a \o b) = k + (n - i)
  <2>1. a \o b \in Seq(Letters) /\ Len(a \o b) = Len(a) + Len(b)
    BY <1>4, <1>5, ConcatProperties
  <2> QED BY <1>4, <1>7, <2>1
<1>9. k + (n - i) = n - 1 /\ n - 1 <= LineMax - 1
  BY <1>1, <1>3, Sizes
<1> QED BY <1>6, <1>8, <1>9, LinesAre DEF n

\* Two of HIST_MAX lines in a row have different places in the ring.
LEMMA PlacesApart ==
    ASSUME NEW c \in Nat, NEW i \in Nat, NEW H \in Nat \ {0}, i < c, c - i < H
    PROVE  i % H # c % H
<1> SUFFICES ASSUME i % H = c % H PROVE FALSE
  OBVIOUS
<1> DEFINE a == c \div H
           b == i \div H
           r == c % H
<1>1. a \in Nat /\ r \in 0 .. H - 1 /\ c = H * a + r
  OBVIOUS
<1>2. b \in Nat /\ i % H \in 0 .. H - 1 /\ i = H * b + (i % H)
  OBVIOUS
<1> HIDE DEF a, b, r
<1>3. i = H * b + r
  BY <1>2 DEF r
<1>4. c - i = H * (a - b)
  BY <1>1, <1>2, <1>3
<1>5. CASE a - b <= 0
  <2>1. H * (a - b) <= 0
    BY <1>1, <1>2, <1>5
  <2> QED BY <1>4, <2>1
<1>6. CASE a - b >= 1
  <2>1. H * (a - b) >= H
    BY <1>1, <1>2, <1>6
  <2> QED BY <1>4, <2>1
<1> QED BY <1>1, <1>2, <1>5, <1>6

-----------------------------------------------------------------------------
(* The invariant.                                                          *)

\* The sets the variables range over.
Typed ==
    /\ screen \in Screen /\ term \in Parser
    /\ buf \in Lines /\ cpos \in 0 .. Len(buf)
    /\ ring \in [0 .. HistMax - 1 -> Lines] /\ count \in 0 .. MaxLines /\ idx \in 0 .. count
    /\ entered \in Seq(Lines)
    /\ left \in Int /\ left >= -1

ConsoleInv == Typed /\ LineShown /\ HistoryRight

\* The ring's place for a line is within the ring.
LEMMA PlaceIn == \A i \in Nat : i % HistMax \in 0 .. HistMax - 1
BY Sizes

\* The lines Up and Down find.
LEMMA HistoryIs ==
    ASSUME count \in Nat
    PROVE  HistoryRight <=> /\ count = Len(entered)
                            /\ \A i \in 0 .. count - 1 :
                                  i >= count - HistMax => ring[i % HistMax] = entered[i + 1]
<1>1. ASSUME NEW i \in 0 .. count - 1 PROVE history_get(i) = ring[i % HistMax]
  <2>1. ~(i < 0 \/ i >= count)
    OBVIOUS
  <2> QED BY <2>1 DEF history_get
<1> QED BY <1>1 DEF HistoryRight

\* history_add and what was entered go together: the repetition test finds
\* the last line, and the new line takes the place of the one that is
\* HIST_MAX lines old.
LEMMA HistoryStep ==
    ASSUME Typed, HistoryRight, NEW line \in Lines, count < MaxLines,
           history_add(line), Remember(line)
    PROVE  /\ ring' \in [0 .. HistMax - 1 -> Lines] /\ count' \in 0 .. MaxLines
           /\ idx' \in 0 .. count' /\ entered' \in Seq(Lines) /\ HistoryRight'
<1> DEFINE At(r, e, i) == r[i % HistMax] = e[i + 1]
<1>1. /\ ring \in [0 .. HistMax - 1 -> Lines] /\ count \in 0 .. MaxLines /\ idx \in 0 .. count
      /\ entered \in Seq(Lines) /\ count \in Nat
  BY Sizes DEF Typed
<1>2. count = Len(entered) /\ \A i \in 0 .. count - 1 : i >= count - HistMax => At(ring, entered, i)
  BY <1>1, HistoryIs
<1>3. entered = << >> <=> count = 0
  BY <1>1, <1>2, EmptySeq
<1>4. count > 0 => ring[(count - 1) % HistMax] = Last(entered)
  <2> SUFFICES ASSUME count > 0 PROVE ring[(count - 1) % HistMax] = Last(entered)
    OBVIOUS
  <2> DEFINE j == count - 1
  <2>1. j \in 0 .. count - 1 /\ j >= count - HistMax /\ j + 1 = count
    BY <1>1, Sizes
  <2>2. At(ring, entered, j)
    BY <1>2, <2>1
  <2> QED BY <1>2, <2>1, <2>2 DEF Last
<1>5. CASE count > 0 /\ ring[(count - 1) % HistMax] = line
  <2>1. entered # << >> /\ Last(entered) = line
    BY <1>3, <1>4, <1>5
  <2>2. UNCHANGED <<ring, count, idx, entered>>
    BY <1>5, <2>1 DEF history_add, Remember
  <2>3. HistoryRight'
    BY <2>2 DEF HistoryRight, history_get
  <2> QED BY <1>1, <2>2, <2>3
<1>6. CASE ~(count > 0 /\ ring[(count - 1) % HistMax] = line)
  <2>1. ~(entered # << >> /\ Last(entered) = line)
    BY <1>1, <1>3, <1>4, <1>6
  <2> DEFINE p == count % HistMax
  <2>2. /\ ring' = [ring EXCEPT ![p] = line] /\ count' = count + 1 /\ idx' = count + 1
        /\ entered' = Append(entered, line)
    BY <1>6, <2>1 DEF history_add, Remember
  <2>3. p \in 0 .. HistMax - 1
    BY <1>1, PlaceIn
  <2>4. /\ entered' \in Seq(Lines) /\ Len(entered') = count + 1
        /\ (\A i \in 1 .. count : entered'[i] = entered[i]) /\ entered'[count + 1] = line
    BY <1>1, <1>2, <2>2, AppendProperties
  <2>5. ring' \in [0 .. HistMax - 1 -> Lines] /\ ring'[p] = line
        /\ \A q \in 0 .. HistMax - 1 : q # p => ring'[q] = ring[q]
    <3> HIDE DEF p
    <3> QED BY <1>1, <2>2, <2>3
  <2>6. count' \in 0 .. MaxLines /\ idx' \in 0 .. count'
    BY <1>1, <2>2, Sizes
  <2>7. ASSUME NEW i \in 0 .. count, i >= count + 1 - HistMax PROVE At(ring', entered', i)
    <3>1. CASE i = count
      BY <2>4, <2>5, <3>1
    <3>2. CASE i # count
      <4>1. /\ i \in Nat /\ i < count /\ count - i < HistMax /\ i \in 0 .. count - 1
            /\ i >= count - HistMax /\ i + 1 \in 1 .. count /\ HistMax \in Nat \ {0}
        BY <1>1, <2>7, <3>2, Sizes
      <4>2. i % HistMax # p
        BY <1>1, <4>1, PlacesApart
      <4>3. i % HistMax \in 0 .. HistMax - 1
        BY <4>1, PlaceIn
      <4>4. At(ring, entered, i)
        BY <1>2, <4>1
      <4>5. ring'[i % HistMax] = ring[i % HistMax] /\ entered'[i + 1] = entered[i + 1]
        BY <2>4, <2>5, <4>1, <4>2, <4>3
      <4> QED BY <4>4, <4>5
    <3> QED BY <3>1, <3>2
  <2>8. count' - 1 = count
    BY <1>1, <2>2
  <2>9. HistoryRight'
    <3>1. ASSUME NEW i \in 0 .. count' - 1, i >= count' - HistMax
          PROVE  history_get(i)' = entered'[i + 1]
      <4>1. i \in 0 .. count /\ i >= count + 1 - HistMax /\ ~(i < 0 \/ i >= count')
        BY <1>1, <2>2, <3>1, Sizes
      <4>2. At(ring', entered', i)
        BY <2>7, <4>1
      <4> QED BY <4>1, <4>2 DEF history_get
    <3> QED BY <2>2, <2>4, <3>1 DEF HistoryRight
  <2> QED BY <2>4, <2>5, <2>6, <2>9
<1> QED BY <1>5, <1>6

\* A prompt leaves a screen.
LEMMA PromptScreen == ASSUME NEW g \in Screen PROVE gpu_print(g, Prompt) \in Screen
BY PromptFits, PrintScreen

\* A key of the editor: the new line is drawn.
LEMMA EditStep ==
    ASSUME ConsoleInv, NEW s \in Lines, NEW k \in 0 .. Len(s), Edit(s, k), idx' \in 0 .. count
    PROVE  ConsoleInv'
<1>1. Typed /\ HistoryRight
  BY DEF ConsoleInv
<1>2. /\ buf' = s /\ cpos' = k /\ screen' = shell_redraw_line(screen, s, k)
      /\ UNCHANGED <<term, ring, count, left, entered>>
  BY DEF Edit
<1>3. s \in Seq(Letters)
  BY LinesAre
<1>4. /\ screen' \in Screen
      /\ Len(Prompt) + Len(s) < Cols =>
           /\ screen'.col = Len(Prompt) + k
           /\ \A c \in 0 .. Cols - 2 :
                screen'.cell[<<screen'.row, c>>] = (Prompt \o s \o Blanks(Cols))[c + 1]
  BY <1>1, <1>2, <1>3, Redraw DEF Typed
<1>5. Typed'
  BY <1>1, <1>2, <1>4 DEF Typed
<1>6. LineShown'
  BY <1>2, <1>4 DEF LineShown
<1>7. HistoryRight'
  BY <1>1, <1>2 DEF HistoryRight, history_get
<1> QED BY <1>5, <1>6, <1>7 DEF ConsoleInv

\* A step that leaves the editor and its history alone, with the line not
\* drawn any more or a program running.
LEMMA OtherStep ==
    ASSUME ConsoleInv, screen' \in Screen, term' \in Parser, buf' \in Lines, cpos' \in 0 .. Len(buf'),
           left' \in Int, left' >= -1, drawn' = FALSE \/ left' # -1,
           UNCHANGED <<ring, count, idx, entered>>
    PROVE  ConsoleInv'
<1>1. Typed /\ HistoryRight
  BY DEF ConsoleInv
<1>2. Typed'
  BY <1>1 DEF Typed
<1>3. LineShown'
  BY DEF LineShown, Reading
<1>4. HistoryRight'
  BY <1>1 DEF HistoryRight, history_get
<1> QED BY <1>2, <1>3, <1>4 DEF ConsoleInv

\* The same with a line entered.
LEMMA EnterStep ==
    ASSUME ConsoleInv, screen' \in Screen, term' \in Parser, buf' \in Lines, cpos' \in 0 .. Len(buf'),
           left' \in Int, left' >= -1, drawn' = FALSE \/ left' # -1,
           count < MaxLines, history_add(buf), Remember(buf)
    PROVE  ConsoleInv'
<1>1. Typed /\ HistoryRight /\ buf \in Lines
  BY DEF ConsoleInv, Typed
<1>2. /\ ring' \in [0 .. HistMax - 1 -> Lines] /\ count' \in 0 .. MaxLines
      /\ idx' \in 0 .. count' /\ entered' \in Seq(Lines) /\ HistoryRight'
  BY <1>1, HistoryStep
<1>3. Typed'
  BY <1>2 DEF Typed
<1>4. LineShown'
  BY DEF LineShown, Reading
<1> QED BY <1>2, <1>3, <1>4 DEF ConsoleInv

\* The keys of the editor.
LEMMA EditorKeys ==
    ASSUME ConsoleInv,
           shell_insert_char \/ shell_backspace_char \/ shell_delete_char \/ CursorKey \/ UpDown
    PROVE  ConsoleInv'
<1>0. /\ buf \in Lines /\ Len(buf) \in Nat /\ cpos \in 0 .. Len(buf) /\ idx \in 0 .. count
      /\ count \in Nat /\ ring \in [0 .. HistMax - 1 -> Lines]
  <2>1. Typed
    BY DEF ConsoleInv
  <2> QED BY <2>1, LinesAre, LenProperties, Sizes DEF Typed
<1>1. CASE shell_insert_char
  <2>1. PICK c \in Letters : Edit(InsertAt(buf, cpos + 1, c), cpos + 1)
    BY <1>1 DEF shell_insert_char
  <2> DEFINE s == InsertAt(buf, cpos + 1, c)
  <2>2. s \in Lines /\ cpos + 1 \in 0 .. Len(s)
    BY <1>0, <1>1, Inserted DEF shell_insert_char
  <2>3. idx' \in 0 .. count
    BY <1>0, <1>1 DEF shell_insert_char
  <2> HIDE DEF s
  <2> QED BY <2>1, <2>2, <2>3, EditStep DEF s
<1>2. CASE shell_backspace_char
  <2> DEFINE s == RemoveAt(buf, cpos)
  <2>1. cpos > 0 /\ Edit(s, cpos - 1) /\ idx' = idx
    BY <1>2 DEF shell_backspace_char
  <2>2. cpos \in 1 .. Len(buf)
    BY <1>0, <2>1
  <2>3. s \in Lines /\ Len(s) = Len(buf) - 1
    BY <1>0, <2>2, Removed
  <2> HIDE DEF s
  <2>4. cpos - 1 \in 0 .. Len(s)
    BY <1>0, <2>2, <2>3
  <2> QED BY <1>0, <2>1, <2>3, <2>4, EditStep
<1>3. CASE shell_delete_char
  <2> DEFINE s == IF cpos < Len(buf) THEN RemoveAt(buf, cpos + 1) ELSE buf
  <2>1. Edit(s, cpos) /\ idx' = idx
    BY <1>3 DEF shell_delete_char
  <2>2. s \in Lines /\ cpos \in 0 .. Len(s)
    <3>1. CASE cpos < Len(buf)
      <4> DEFINE j == cpos + 1
      <4>1. j \in 1 .. Len(buf)
        BY <1>0, <3>1
      <4>2. RemoveAt(buf, j) \in Lines /\ Len(RemoveAt(buf, j)) = Len(buf) - 1
        <5> HIDE DEF j
        <5> QED BY <1>0, <4>1, Removed
      <4>3. cpos \in 0 .. Len(buf) - 1
        BY <1>0, <3>1
      <4> QED BY <3>1, <4>2, <4>3
    <3>2. CASE ~(cpos < Len(buf))
      BY <1>0, <3>2
    <3> QED BY <3>1, <3>2
  <2> HIDE DEF s
  <2> QED BY <1>0, <2>1, <2>2, EditStep
<1>4. CASE CursorKey
  <2>1. PICK k \in ({cpos - 1, cpos + 1} \cap (0 .. Len(buf))) \cup {0, Len(buf)} : Edit(buf, k)
    BY <1>4 DEF CursorKey
  <2>2. k \in 0 .. Len(buf) /\ idx' \in 0 .. count
    BY <1>0, <1>4 DEF CursorKey
  <2> QED BY <1>0, <2>1, <2>2, EditStep
<1>5. CASE UpDown
  <2> DEFINE h == history_get(idx')
  <2>1. idx' \in 0 .. count /\ Edit(h, Len(h))
    BY <1>5 DEF UpDown
  <2>2. h \in Lines
    <3>1. idx' \in Nat
      BY <1>0, <2>1
    <3>2. idx' % HistMax \in 0 .. HistMax - 1
      BY <3>1, PlaceIn
    <3>3. ring[idx' % HistMax] \in Lines
      BY <1>0, <3>2
    <3> QED BY <3>3, LinesAre DEF history_get
  <2> HIDE DEF h
  <2>3. Len(h) \in 0 .. Len(h)
    <3>1. Len(h) \in Nat
      BY <2>2, LinesAre, LenProperties
    <3> QED BY <3>1
  <2> QED BY <2>1, <2>2, <2>3, EditStep
<1> QED BY <1>1, <1>2, <1>3, <1>4, <1>5

\* A byte a program writes.
LEMMA WriteStep ==
    ASSUME ConsoleInv, SysWrite
    PROVE  ConsoleInv'
<1>1. /\ screen \in Screen /\ term \in Parser /\ buf \in Lines /\ cpos \in 0 .. Len(buf)
      /\ left \in Int
  BY DEF ConsoleInv, Typed
<1>2. PICK b \in Bytes : Ground(b) \/ Escape(b) \/ CsiParam(b) \/ CsiFinal(b) \/ Osc(b)
  BY DEF SysWrite
<1>3. screen' \in Screen /\ term' \in Parser
  <2>1. CASE Ground(b)
    <3>1. CASE b = "esc"
      BY <1>1, <2>1, <3>1, ParserSteps DEF Ground
    <3>2. CASE b # "esc"
      <4>1. b \in Glyph \cup Controls
        BY <2>1, <3>2, Drawable DEF Ground
      <4>2. screen' = gpu_putc(screen, b) /\ term' = term
        BY <2>1, <3>2 DEF Ground
      <4> QED BY <1>1, <4>1, <4>2, PutcScreen
    <3> QED BY <3>1, <3>2
  <2>2. CASE Escape(b)
    <3>1. screen' = screen
      BY <2>2 DEF Escape
    <3>2. CASE b = "["
      <4>1. params_reset(term) \in Parser /\ term' = [params_reset(term) EXCEPT !.st = "csi"]
        BY <1>1, <2>2, <3>2, ParserSteps DEF Escape
      <4>2. term' \in Parser
        BY <4>1, ParserSteps
      <4> QED BY <1>1, <3>1, <4>2
    <3>3. CASE b = "]"
      BY <1>1, <2>2, <3>1, <3>3, ParserSteps DEF Escape
    <3>4. CASE b \notin {"[", "]"}
      BY <1>1, <2>2, <3>1, <3>4, ParserSteps DEF Escape
    <3> QED BY <3>2, <3>3, <3>4
  <2>3. CASE CsiParam(b)
    <3>1. screen' = screen
      BY <2>3 DEF CsiParam
    <3>2. CASE b = ";"
      BY <1>1, <2>3, <3>1, <3>2, ParserSteps DEF CsiParam
    <3>3. CASE b = "esc"
      BY <1>1, <2>3, <3>1, <3>3 DEF CsiParam
    <3>4. CASE b \notin {";", "esc"}
      <4>1. Digits[b] \in 0 .. 9 /\ term' = param_digit(term, Digits[b])
        BY <2>3, <3>4, ConsoleSizes DEF CsiParam
      <4> QED BY <1>1, <3>1, <4>1, ParserSteps
    <3> QED BY <3>2, <3>3, <3>4
  <2>4. CASE CsiFinal(b)
    <3>1. screen' = Moved(screen, term, b) /\ term' = SavedBy(term, b)
      BY <2>4 DEF CsiFinal
    <3>2. screen' \in Screen
      BY <1>1, <3>1, MovedScreen
    <3> DEFINE s == IF b = "s" THEN [term EXCEPT !.row = screen.row, !.col = screen.col] ELSE term
    <3>3. s \in Parser
      <4>1. screen.row \in 0 .. Rows - 1 /\ screen.col \in 0 .. Cols - 1
        BY <1>1, ScreenFields
      <4> QED BY <1>1, <4>1 DEF Parser
    <3>4. term' = [s EXCEPT !.st = "ground"]
      BY <3>1 DEF SavedBy
    <3> HIDE DEF s
    <3> QED BY <3>2, <3>3, <3>4, ParserSteps
  <2>5. CASE Osc(b)
    <3>1. screen' = screen
      BY <2>5 DEF Osc
    <3>2. CASE b \in {"bel", "esc"}
      <4>1. term' = [term EXCEPT !.st = "ground"]
        BY <1>1, <2>5, <3>2 DEF Osc, Parser
      <4> QED BY <1>1, <3>1, <4>1, ParserSteps
    <3>3. CASE b \notin {"bel", "esc"}
      <4>1. term' = [term EXCEPT !.st = "osc"]
        BY <1>1, <2>5, <3>3 DEF Osc, Parser
      <4> QED BY <1>1, <3>1, <4>1, ParserSteps
    <3> QED BY <3>2, <3>3
  <2> QED BY <1>2, <2>1, <2>2, <2>3, <2>4, <2>5
<1>4. /\ left' \in Int /\ left' >= -1 /\ left' # -1
      /\ UNCHANGED <<buf, cpos, ring, count, idx, entered>>
  BY <1>1 DEF SysWrite, editor
<1>5. buf' \in Lines /\ cpos' \in 0 .. Len(buf')
  BY <1>1, <1>4
<1> QED BY <1>3, <1>4, <1>5, OtherStep

\* A prompt after whatever was printed.
LEMMA PromptStep ==
    ASSUME NEW g \in Screen, PromptAfter(g)
    PROVE  /\ screen' \in Screen /\ drawn' = FALSE
           /\ buf' \in Lines /\ cpos' \in 0 .. Len(buf')
<1>1. screen' = gpu_print(g, Prompt) /\ drawn' = FALSE /\ buf' = << >> /\ cpos' = 0
  BY DEF PromptAfter
<1>2. screen' \in Screen
  BY <1>1, PromptScreen
<1>3. buf' \in Lines /\ Len(buf') = 0
  BY <1>1, LinesAre
<1> QED BY <1>1, <1>2, <1>3

\* Enter, and the end of a program.
LEMMA EnterKeys ==
    ASSUME ConsoleInv, EmptyLine \/ shell_dispatch_line \/ RunProgram \/ ProgramEnds
    PROVE  ConsoleInv'
<1>0. /\ screen \in Screen /\ term \in Parser /\ buf \in Lines /\ cpos \in 0 .. Len(buf)
      /\ left \in Int /\ left >= -1
  BY DEF ConsoleInv, Typed
<1> DEFINE g == gpu_putc(screen, "nl")
<1>1. g \in Screen
  <2>1. "nl" \in Glyph \cup Controls
    BY DEF Controls
  <2> QED BY <1>0, <2>1, PutcScreen
<1> HIDE DEF g
<1>2. CASE EmptyLine
  <2>1. PromptAfter(g) /\ UNCHANGED <<term, ring, count, idx, entered, left>>
    BY <1>2 DEF EmptyLine, g
  <2>2. screen' \in Screen /\ drawn' = FALSE /\ buf' \in Lines /\ cpos' \in 0 .. Len(buf')
    BY <1>1, <2>1, PromptStep
  <2> QED BY <1>0, <2>1, <2>2, OtherStep
<1>3. CASE shell_dispatch_line
  <2>1. PICK o \in Outputs : PromptAfter(gpu_print(g, o))
    BY <1>3 DEF shell_dispatch_line, g
  <2>2. o \in Text
    <3>1. o \in Seq(Range(o))
      BY ConsoleSizes
    <3>2. Range(o) \subseteq Glyph \cup Controls
      BY DEF Glyph
    <3> QED BY <3>1, <3>2, SeqMonotonic DEF Text
  <2>3. gpu_print(g, o) \in Screen
    BY <1>1, <2>2, PrintScreen
  <2>4. screen' \in Screen /\ drawn' = FALSE /\ buf' \in Lines /\ cpos' \in 0 .. Len(buf')
    BY <2>1, <2>3, PromptStep
  <2>5. count < MaxLines /\ history_add(buf) /\ Remember(buf) /\ UNCHANGED <<term, left>>
    BY <1>3 DEF shell_dispatch_line
  <2> QED BY <1>0, <2>4, <2>5, EnterStep
<1>4. CASE RunProgram
  <2>1. /\ count < MaxLines /\ history_add(buf) /\ Remember(buf)
        /\ screen' = g /\ left' = MaxBytes /\ UNCHANGED <<term, buf, cpos>>
    BY <1>4 DEF RunProgram, g
  <2>2. left' \in Int /\ left' >= -1 /\ left' # -1
    BY <2>1, Sizes
  <2>3. screen' \in Screen /\ term' \in Parser /\ buf' \in Lines /\ cpos' \in 0 .. Len(buf')
    BY <1>0, <1>1, <2>1
  <2> QED BY <2>1, <2>2, <2>3, EnterStep
<1>5. CASE ProgramEnds
  <2>1. PromptAfter(screen) /\ left' = -1 /\ UNCHANGED <<term, ring, count, idx, entered>>
    BY <1>5 DEF ProgramEnds
  <2>2. screen' \in Screen /\ drawn' = FALSE /\ buf' \in Lines /\ cpos' \in 0 .. Len(buf')
    BY <1>0, <2>1, PromptStep
  <2>3. left' \in Int /\ left' >= -1
    BY <2>1
  <2> QED BY <1>0, <2>1, <2>2, <2>3, OtherStep
<1> QED BY <1>2, <1>3, <1>4, <1>5

\* The shell starts with a prompt on an empty screen.
LEMMA ConsoleStarts == Init => ConsoleInv
<1> SUFFICES ASSUME Init PROVE ConsoleInv
  OBVIOUS
<1>1. /\ buf = << >> /\ cpos = 0 /\ drawn = FALSE /\ count = 0 /\ idx = 0 /\ entered = << >>
      /\ left = -1 /\ ring = [i \in 0 .. HistMax - 1 |-> << >>]
      /\ screen = gpu_print(Cleared, Prompt) /\ term = TermInit
  BY DEF Init
<1>2. screen \in Screen /\ term \in Parser
  BY <1>1, ClearedScreen, PromptScreen, TermInitIs
<1>3. << >> \in Lines /\ Len(<< >>) = 0 /\ << >> \in Seq(Lines)
  BY LinesAre, EmptySeq
<1>4. Typed
  <2>1. buf \in Lines /\ cpos \in 0 .. Len(buf) /\ entered \in Seq(Lines)
    BY <1>1, <1>3
  <2>2. count \in 0 .. MaxLines /\ idx \in 0 .. count /\ left \in Int /\ left >= -1
    BY <1>1, Sizes
  <2>3. ring \in [0 .. HistMax - 1 -> Lines]
    BY <1>1, <1>3
  <2> QED BY <1>2, <2>1, <2>2, <2>3 DEF Typed
<1>5. LineShown
  BY <1>1 DEF LineShown
<1>6. HistoryRight
  BY <1>1, <1>3 DEF HistoryRight
<1> QED BY <1>4, <1>5, <1>6 DEF ConsoleInv

\* Every step keeps the invariant.
LEMMA ConsoleKeeps == ConsoleInv /\ [Next]_vars => ConsoleInv'
<1> SUFFICES ASSUME ConsoleInv, [Next]_vars PROVE ConsoleInv'
  OBVIOUS
<1>1. CASE shell_insert_char \/ shell_backspace_char \/ shell_delete_char \/ CursorKey \/ UpDown
  BY <1>1, EditorKeys
<1>2. CASE EmptyLine \/ shell_dispatch_line \/ RunProgram \/ ProgramEnds
  BY <1>2, EnterKeys
<1>3. CASE SysWrite
  BY <1>3, WriteStep
<1>4. CASE UNCHANGED vars
  BY <1>4 DEF vars, editor, ConsoleInv, Typed, LineShown, Reading, HistoryRight, history_get
<1> QED BY <1>1, <1>2, <1>3, <1>4 DEF Next

-----------------------------------------------------------------------------
\* ConsoleInv holds in every state the console reaches.
THEOREM ConsoleInvariant == Spec => []ConsoleInv
BY ConsoleStarts, ConsoleKeeps, PTL DEF Spec

\* Whatever keys are pressed, commands print and bytes programs write, the
\* cursor is on the screen (gpu_putc never draws outside video memory), the
\* escape parser's parameter count is within params[] and the editor's
\* position is within its line, on every screen and for every buffer size.
THEOREM ConsoleTypes == Spec => []TypeOK
<1>1. ConsoleInv => TypeOK
  <2> SUFFICES ASSUME Typed PROVE TypeOK
    BY DEF ConsoleInv
  <2>1. <<screen.row, screen.col>> \in Cell /\ DOMAIN screen.cell = Cell
    BY DEF Typed, Screen, Cell
  <2>2. term.st \in {"ground", "escape", "csi", "osc"} /\ term.n \in 0 .. MaxParams
        /\ <<term.row, term.col>> \in Cell
    BY DEF Typed, Parser, Cell
  <2> QED BY <2>1, <2>2 DEF Typed, TypeOK
<1> QED BY <1>1, ConsoleInvariant, PTL

\* After any key, a line that fits is what the cursor's row shows, with the
\* cursor where the next character will go (shell_redraw_line), whatever
\* length the prompt and the rows have and whatever was on the row before.
THEOREM LineAlwaysShown == Spec => []LineShown
<1>1. ConsoleInv => LineShown
  BY DEF ConsoleInv
<1> QED BY <1>1, ConsoleInvariant, PTL

\* The ring holds the last HIST_MAX lines entered, each where Up and Down
\* look for it (history_add and history_get), for every size of the ring.
THEOREM HistoryKept == Spec => []HistoryRight
<1>1. ConsoleInv => HistoryRight
  BY DEF ConsoleInv
<1> QED BY <1>1, ConsoleInvariant, PTL
=============================================================================
