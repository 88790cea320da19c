--------------------------- MODULE KeyboardProofs ---------------------------
(***************************************************************************)
(* The keyboard ring, its interrupt and its interruptible reader are one   *)
(* bounded queue, for every buffer size and every set of keys; and what    *)
(* the user types comes out of it complete, once and in order.             *)
(***************************************************************************)
EXTENDS Keyboard, SequenceTheorems, TLAPS

Index == 0 .. (BufSize - 1)

\* What the ring needs: indices in range, and codes in the slots in use.
RingOK ==
    /\ g_buf \in [Index -> Code \cup {NoCode}]
    /\ g_head \in Index /\ g_tail \in Index
    /\ \A n \in 1 .. Count : At(n) \in Code

\* Between its two steps the reader owns the oldest code: only it moves the
\* head, so the ring is not empty.
RInv ==
    /\ RingOK
    /\ g_shift \in BOOLEAN
    /\ getc \in {"idle", "read"}
    /\ getc = "read" => g_head # g_tail

-----------------------------------------------------------------------------
(* Index arithmetic.                                                       *)

\* Count in terms of any two indices.
LEMMA CountNat ==
    ASSUME NEW h \in 0 .. (BufSize - 1), NEW t \in 0 .. (BufSize - 1)
    PROVE  (IF t >= h THEN t - h ELSE t - h + BufSize) \in Nat
BY KeyboardSizes

\* A ring of BufSize slots holds at most BufSize - 1 codes, and head = tail means
\* empty, the test keyboard_getc makes.
LEMMA CountRange ==
    ASSUME RingOK
    PROVE  Count \in 0 .. (BufSize - 1) /\ (Count = 0 <=> g_head = g_tail)
BY KeyboardSizes DEF RingOK, Count, Index

\* The slot put_key writes is the one behind the last code.
LEMMA PutSpace ==
    ASSUME RingOK
    PROVE  /\ Inc(g_tail) \in Index
           /\ Inc(g_tail) # g_head => Count < BufSize - 1
BY KeyboardSizes DEF RingOK, Count, Inc, Index

\* The codes in the ring, read off from the head, are a sequence of codes.
LEMMA ContentsSeq ==
    ASSUME RingOK
    PROVE  /\ Contents \in Seq(Code)
           /\ Len(Contents) = Count
           /\ \A n \in 1 .. Count : Contents[n] = At(n)
<1>1. Count \in Nat
  BY CountRange
<1>2. \A n \in 1 .. Count : At(n) \in Code
  BY DEF RingOK
<1> HIDE DEF At, Count
<1>3. Contents \in [1 .. Count -> Code]
  BY <1>2 DEF Contents
<1>4. Contents \in Seq(Code)
  BY <1>1, <1>3
<1> QED BY <1>1, <1>3, <1>4 DEF Contents

\* The same fact of the next state.
LEMMA ContentsSeqNext ==
    ASSUME RingOK'
    PROVE  /\ Contents' \in Seq(Code)
           /\ Len(Contents') = Count'
           /\ \A n \in 1 .. Count' : Contents'[n] = At(n)'
<1>1. Count' \in Nat
  <2>1. g_head' \in 0 .. (BufSize - 1) /\ g_tail' \in 0 .. (BufSize - 1)
    BY DEF RingOK, Index
  <2> QED BY <2>1, CountNat DEF Count
<1>2. \A n \in 1 .. Count' : At(n)' \in Code
  BY DEF RingOK
<1>3. Contents' = [n \in 1 .. Count' |-> At(n)']
  BY DEF Contents
<1> HIDE DEF At, Count
<1>4. Contents' \in [1 .. Count' -> Code]
  BY <1>2, <1>3
<1>5. Contents' \in Seq(Code)
  BY <1>1, <1>4
<1> QED BY <1>1, <1>3, <1>4, <1>5

\* A sequence is an Append when its elements say so.
LEMMA IsAppend ==
    ASSUME NEW S, NEW s \in Seq(S), NEW t \in Seq(S), NEW e \in S,
           Len(t) = Len(s) + 1,
           \A n \in 1 .. Len(s) : t[n] = s[n],
           t[Len(s) + 1] = e
    PROVE  t = Append(s, e)
<1>1. /\ Append(s, e) \in Seq(S) /\ Len(Append(s, e)) = Len(s) + 1
      /\ \A n \in 1 .. Len(s) : Append(s, e)[n] = s[n]
      /\ Append(s, e)[Len(s) + 1] = e
  BY AppendProperties
<1>2. \A n \in 1 .. Len(t) : t[n] = Append(s, e)[n]
  BY <1>1, LenProperties
<1> QED BY <1>1, <1>2, SeqEqual

\* A sequence is a Tail when its elements say so.
LEMMA IsTail ==
    ASSUME NEW S, NEW s \in Seq(S), NEW t \in Seq(S), s # << >>,
           Len(t) = Len(s) - 1,
           \A n \in 1 .. Len(t) : t[n] = s[n + 1]
    PROVE  t = Tail(s)
<1>1. Tail(s) \in Seq(S) /\ Len(Tail(s)) = Len(s) - 1
      /\ \A n \in 1 .. Len(Tail(s)) : Tail(s)[n] = s[n + 1]
  BY HeadTailProperties
<1> QED BY <1>1, SeqEqual

\* The codes of keys.
LEMMA CodeOfType ==
    ASSUME NEW k \in Key, NEW shift
    PROVE  CodeOf(k, shift) \in Code
<1>1. (shift /\ ~k.ext) \in BOOLEAN
  OBVIOUS
<1> QED BY <1>1 DEF Code, CodeOf

-----------------------------------------------------------------------------
(* One code in, one code out.                                              *)

\* put_key into a ring that is not full appends, wrapping around included.
LEMMA PutAppends ==
    ASSUME RingOK, NEW c \in Code,
           Inc(g_tail) # g_head,
           g_buf' = [g_buf EXCEPT ![g_tail] = c],
           g_tail' = Inc(g_tail),
           g_head' = g_head
    PROVE  RingOK' /\ Contents' = Append(Contents, c) /\ Len(Contents) < BufSize - 1
<1>1. Count \in Nat /\ Count' = Count + 1 /\ Count < BufSize - 1
  BY KeyboardSizes DEF RingOK, Count, Inc, Index
<1>2. \A n \in 1 .. Count : At(n)' = At(n)
  BY KeyboardSizes DEF RingOK, Count, Inc, Index, At
<1>3. At(Count)' = c
  BY KeyboardSizes DEF RingOK, Count, Inc, Index, At
<1>4. \A n \in 1 .. Count : At(n) \in Code
  BY DEF RingOK
<1>5. \A n \in 1 .. Count' : At(n)' \in Code
  <2> SUFFICES ASSUME NEW n \in 1 .. Count' PROVE At(n)' \in Code
    OBVIOUS
  <2>2. n \in 1 .. Count \/ n = Count'
    BY <1>1
  <2> HIDE DEF At
  <2> QED BY <1>2, <1>3, <1>4, <2>2
<1>6. RingOK'
  <2>1. g_buf' \in [Index -> Code \cup {NoCode}] /\ g_head' \in Index /\ g_tail' \in Index
    BY PutSpace DEF RingOK
  <2> QED BY <2>1, <1>5 DEF RingOK
<1>7. Contents' = Append(Contents, c)
  <2>1. /\ Contents \in Seq(Code) /\ Len(Contents) = Count
        /\ \A n \in 1 .. Count : Contents[n] = At(n)
    BY ContentsSeq
  <2>2. /\ Contents' \in Seq(Code) /\ Len(Contents') = Count'
        /\ \A n \in 1 .. Count' : Contents'[n] = At(n)'
    BY <1>6, ContentsSeqNext
  <2>3. Contents'[Count + 1] = c
    <3>1. Contents'[Count'] = At(Count)'
      BY <1>1, <2>2
    <3> QED BY <1>1, <1>3, <3>1
  <2>4. \A n \in 1 .. Len(Contents) : Contents'[n] = Contents[n]
    BY <1>1, <1>2, <2>1, <2>2
  <2> QED BY <1>1, <2>1, <2>2, <2>3, <2>4, IsAppend
<1> QED BY <1>1, <1>6, <1>7, ContentsSeq

\* Advancing the head of a ring that is not empty removes the oldest code.
LEMMA AdvanceTails ==
    ASSUME RingOK, g_head # g_tail,
           g_buf' = g_buf, g_tail' = g_tail, g_head' = Inc(g_head)
    PROVE  RingOK' /\ Contents # << >> /\ Contents' = Tail(Contents)
<1>1. Count \in Nat /\ Count' = Count - 1 /\ Count > 0
  BY KeyboardSizes DEF RingOK, Count, Inc, Index
<1>2. \A n \in 1 .. Count' : At(n)' = At(n + 1)
  BY KeyboardSizes DEF RingOK, Count, Inc, Index, At
<1>3. \A n \in 1 .. Count : At(n) \in Code
  BY DEF RingOK
<1>4. \A n \in 1 .. Count' : n + 1 \in 1 .. Count
  BY <1>1
<1>5. RingOK'
  <2>1. g_buf' \in [Index -> Code \cup {NoCode}] /\ g_head' \in Index /\ g_tail' \in Index
    BY KeyboardSizes DEF RingOK, Inc, Index
  <2>2. \A n \in 1 .. Count' : At(n)' \in Code
    BY <1>2, <1>3, <1>4
  <2> QED BY <2>1, <2>2 DEF RingOK
<1>6. /\ Contents \in Seq(Code) /\ Len(Contents) = Count
      /\ \A n \in 1 .. Count : Contents[n] = At(n)
  BY ContentsSeq
<1>7. /\ Contents' \in Seq(Code) /\ Len(Contents') = Count'
      /\ \A n \in 1 .. Count' : Contents'[n] = At(n)'
  BY <1>5, ContentsSeqNext
<1>8. Contents # << >>
  BY <1>1, <1>6
<1>9. \A n \in 1 .. Len(Contents') : Contents'[n] = Contents[n + 1]
  BY <1>2, <1>4, <1>6, <1>7
<1> QED BY <1>1, <1>5, <1>6, <1>7, <1>8, <1>9, IsTail

-----------------------------------------------------------------------------
(* The invariant and the simulation.                                       *)

\* The ring of zeroed statics is the empty queue.
LEMMA InitRInv ==
    ASSUME Init
    PROVE  RInv /\ Contents = << >>
<1>1. Count = 0
  BY KeyboardSizes DEF Init, Count
<1>2. g_buf \in [Index -> Code \cup {NoCode}] /\ g_head \in Index /\ g_tail \in Index
  BY KeyboardSizes DEF Init, Index
<1>3. RingOK
  BY <1>1, <1>2 DEF RingOK
<1>4. Contents = << >>
  BY <1>1, <1>3, ContentsSeq, EmptySeq
<1> QED BY <1>3, <1>4 DEF Init, RInv

\* A step that leaves the ring alone leaves the queue alone.
LEMMA SameRing ==
    ASSUME RingOK, UNCHANGED ring
    PROVE  RingOK' /\ Contents' = Contents
<1>1. Count' = Count /\ \A n \in 1 .. Count : At(n)' = At(n)
  BY DEF ring, Count, At
<1>2. RingOK'
  BY <1>1 DEF RingOK, ring
<1>3. Contents' = Contents
  BY DEF Contents, Count, At, ring
<1> QED BY <1>2, <1>3

\* put_key stores the code behind the others or, when the ring is full, not
\* at all; in neither case does a ring that held something become empty.
LEMMA PutKeyStep ==
    ASSUME RingOK, NEW c \in Code, put_key(c)
    PROVE  /\ RingOK'
           /\ Fifo!Put \/ UNCHANGED Contents
           /\ g_head # g_tail => g_head' # g_tail'
<1>1. CASE Inc(g_tail) # g_head
  <2>1. /\ g_buf' = [g_buf EXCEPT ![g_tail] = c]
        /\ g_tail' = Inc(g_tail) /\ g_head' = g_head
    BY <1>1 DEF put_key
  <2>2. RingOK' /\ Contents' = Append(Contents, c) /\ Len(Contents) < BufSize - 1
    BY <1>1, <2>1, PutAppends
  <2>3. Fifo!Put
    BY <2>2 DEF Fifo!Put
  <2> QED BY <1>1, <2>1, <2>2, <2>3
<1>2. CASE Inc(g_tail) = g_head
  <2>1. UNCHANGED ring
    BY <1>2 DEF put_key, ring
  <2> QED BY <2>1, SameRing DEF ring
<1> QED BY <1>1, <1>2

\* keyboard_irq, whatever byte it reads, appends one code or none.
LEMMA IrqStep ==
    ASSUME RInv, keyboard_irq
    PROVE  RInv' /\ (Fifo!Put \/ UNCHANGED Contents)
<1>1. PICK byte : ReadByte(byte)
  BY DEF keyboard_irq
<1>2. getc' = getc
  BY DEF keyboard_irq
<1>3. CASE UNCHANGED ring /\ g_shift' \in BOOLEAN
  BY <1>2, <1>3, SameRing DEF RInv, ring
<1>4. CASE /\ UNCHANGED g_shift
           /\ \E k \in Mapped : put_key(CodeOf(k, g_shift))
  <2>1. PICK k \in Mapped : put_key(CodeOf(k, g_shift))
    BY <1>4
  <2>2. CodeOf(k, g_shift) \in Code
    BY KeyboardSizes, CodeOfType
  <2> QED BY <1>2, <1>4, <2>1, <2>2, PutKeyStep DEF RInv
<1>5. CASE byte.sc = Aux /\ UNCHANGED <<ring, decoder, dropped>>
  BY <1>3, <1>5 DEF RInv, decoder
<1>6. CASE UNCHANGED <<ring, g_shift>>
  BY <1>3, <1>6 DEF RInv
<1>7. CASE g_shift' = ~byte.up /\ UNCHANGED ring
  <2>1. (~byte.up) \in BOOLEAN
    OBVIOUS
  <2> QED BY <1>3, <1>7, <2>1
<1>8. ASSUME NEW k, NEW up, KeyByte(k, up)
      PROVE  RInv' /\ (Fifo!Put \/ UNCHANGED Contents)
  BY <1>4, <1>6, <1>8 DEF KeyByte
<1> QED BY <1>1, <1>5, <1>6, <1>7, <1>8 DEF ReadByte

\* Every step keeps the invariant and is a step of the queue or a stutter.
LEMMA NextStep ==
    ASSUME RInv, [Next]_vars
    PROVE  RInv' /\ [Fifo!Next]_Contents
<1>1. CASE keyboard_irq
  BY <1>1, IrqStep DEF Fifo!Next
<1>2. CASE GetcLoad
  BY <1>2, SameRing DEF GetcLoad, RInv, decoder, ring
<1>3. CASE GetcAdvance
  <2>1. g_head # g_tail /\ g_buf' = g_buf /\ g_tail' = g_tail /\ g_head' = Inc(g_head)
    BY <1>3 DEF GetcAdvance, RInv
  <2>2. RingOK' /\ Contents # << >> /\ Contents' = Tail(Contents)
    BY <2>1, AdvanceTails DEF RInv
  <2>3. RInv'
    BY <1>3, <2>2 DEF GetcAdvance, RInv, decoder
  <2>4. Fifo!Get
    BY <2>2 DEF Fifo!Get
  <2> QED BY <2>3, <2>4 DEF Fifo!Next
<1>4. CASE UNCHANGED <<ring, g_shift, getc>>
  BY <1>4, SameRing DEF RInv, ring
<1>5. CASE User
  <2>1. UNCHANGED <<ring, decoder, getc>>
    BY <1>5 DEF User, Press, Repeat, Release, ShiftKey, MouseByte
  <2> QED BY <1>4, <2>1 DEF decoder
<1>6. CASE UNCHANGED vars
  BY <1>4, <1>6 DEF vars, ring
<1> QED BY <1>1, <1>2, <1>3, <1>5, <1>6 DEF Next

\* Interrupt and interrupted reader together are one bounded first-in
\* first-out queue, whatever the buffer size, the keys and the bytes the
\* controller delivers: keyboard_irq only appends a code and keyboard_getc
\* only removes the oldest, although its load and its advance are two steps.
THEOREM KeyboardRefines == Spec => RefinesFifo
<1>1. Init => RInv /\ Fifo!Init
  BY InitRInv DEF Fifo!Init
<1>2. RInv /\ [Next]_vars => RInv' /\ [Fifo!Next]_Contents
  BY NextStep
<1> QED BY <1>1, <1>2, PTL DEF Spec, RefinesFifo, Fifo!Spec

-----------------------------------------------------------------------------
(* The decoder as a function of its state and a byte.                      *)

Dec == [shift : BOOLEAN, ext : BOOLEAN, pressed : SUBSET Scancode]

Now == [shift |-> g_shift, ext |-> g_extended, pressed |-> g_pressed]

\* The key a byte is about.
KeyOf(d, b) == [ext |-> d.ext, sc |-> b.sc]

IsKey(d, b) == b.sc \notin {Aux, E0} /\ (d.ext \/ b.sc \notin Shifts)

Decoded(d, b) ==
    IF IsKey(d, b)
    THEN [shift |-> d.shift, ext |-> FALSE,
          pressed |-> IF b.up THEN d.pressed \ {b.sc} ELSE d.pressed \cup {b.sc}]
    ELSE IF b.sc = Aux THEN d
    ELSE IF b.sc = E0 THEN [shift |-> d.shift, ext |-> TRUE, pressed |-> d.pressed]
    ELSE [shift |-> ~b.up, ext |-> d.ext, pressed |-> d.pressed]

\* A byte that makes the decoder call put_key.
Emits(d, b) ==
    /\ IsKey(d, b) /\ ~b.up
    /\ b.sc \notin d.pressed \/ KeyOf(d, b) \in Repeatable
    /\ KeyOf(d, b) \in Mapped

\* ReadByte is that function.
LEMMA DecodeStep ==
    ASSUME NEW b, ReadByte(b)
    PROVE  /\ Now' = Decoded(Now, b)
           /\ Emits(Now, b) => put_key(CodeOf(KeyOf(Now, b), g_shift))
           /\ ~Emits(Now, b) => UNCHANGED <<ring, dropped>>
<1> USE DEF IsKey
<1>1. Aux # E0 /\ Aux \notin Shifts /\ E0 \notin Shifts
  BY KeyboardSizes
<1>2. Now.ext = g_extended /\ Now.shift = g_shift /\ Now.pressed = g_pressed
  BY DEF Now
<1>3. CASE b.sc = Aux
  <2>1. UNCHANGED <<ring, decoder, dropped>>
    BY <1>1, <1>3 DEF ReadByte
  <2>2. Now' = Now /\ Decoded(Now, b) = Now /\ ~Emits(Now, b)
    BY <1>1, <1>3, <2>1 DEF Decoded, Emits, Now, decoder
  <2> QED BY <2>1, <2>2
<1>4. CASE b.sc = E0
  <2>1. g_extended' = TRUE /\ UNCHANGED <<ring, g_shift, g_pressed, dropped>>
    BY <1>1, <1>4 DEF ReadByte
  <2>2. Now' = [shift |-> g_shift, ext |-> TRUE, pressed |-> g_pressed]
    BY <2>1 DEF Now
  <2>3. Decoded(Now, b) = [shift |-> g_shift, ext |-> TRUE, pressed |-> g_pressed] /\ ~Emits(Now, b)
    BY <1>1, <1>2, <1>4 DEF Decoded, Emits
  <2> QED BY <2>1, <2>2, <2>3
<1>5. CASE b.sc \in Shifts /\ ~g_extended
  <2>1. g_shift' = ~b.up /\ UNCHANGED <<ring, g_extended, g_pressed, dropped>>
    BY <1>1, <1>5 DEF ReadByte
  <2>2. Now' = [shift |-> ~b.up, ext |-> g_extended, pressed |-> g_pressed]
    BY <2>1 DEF Now
  <2>3. Decoded(Now, b) = [shift |-> ~b.up, ext |-> g_extended, pressed |-> g_pressed]
        /\ ~Emits(Now, b)
    BY <1>1, <1>2, <1>5 DEF Decoded, Emits
  <2> QED BY <2>1, <2>2, <2>3
<1>6. CASE b.sc \notin {Aux, E0} /\ (g_extended \/ b.sc \notin Shifts)
  <2> DEFINE k == [ext |-> g_extended, sc |-> b.sc]
  <2>1. KeyByte(k, b.up)
    BY <1>6 DEF ReadByte
  <2>2. k = KeyOf(Now, b) /\ k.sc = b.sc /\ IsKey(Now, b)
    BY <1>2, <1>6 DEF KeyOf
  <2> HIDE DEF k
  <2>3. CASE b.up
    <3>1. g_shift' = g_shift /\ g_extended' = FALSE /\ g_pressed' = g_pressed \ {b.sc} /\ UNCHANGED <<ring, dropped>>
      BY <2>1, <2>2, <2>3 DEF KeyByte
    <3>2. Now' = [shift |-> g_shift, ext |-> FALSE, pressed |-> g_pressed \ {b.sc}]
      BY <3>1 DEF Now
    <3>3. Decoded(Now, b) = [shift |-> g_shift, ext |-> FALSE, pressed |-> g_pressed \ {b.sc}]
      BY <1>2, <2>2, <2>3 DEF Decoded
    <3>4. ~Emits(Now, b)
      BY <2>3 DEF Emits
    <3> QED BY <3>1, <3>2, <3>3, <3>4
  <2>4. CASE ~b.up
    <3>1. /\ g_shift' = g_shift /\ g_extended' = FALSE /\ g_pressed' = g_pressed \cup {b.sc}
          /\ IF AcceptMake(k) /\ k \in Mapped THEN put_key(CodeOf(k, g_shift))
                                              ELSE UNCHANGED <<ring, dropped>>
      BY <2>1, <2>2, <2>4 DEF KeyByte
    <3>2. Now' = [shift |-> g_shift, ext |-> FALSE, pressed |-> g_pressed \cup {b.sc}]
      BY <3>1 DEF Now
    <3>3. Decoded(Now, b) = [shift |-> g_shift, ext |-> FALSE, pressed |-> g_pressed \cup {b.sc}]
      BY <1>2, <2>2, <2>4 DEF Decoded
    <3>4. Emits(Now, b) <=> AcceptMake(k) /\ k \in Mapped
      BY <1>2, <2>2, <2>4 DEF Emits, AcceptMake
    <3> QED BY <2>2, <3>1, <3>2, <3>3, <3>4
  <2> QED BY <2>3, <2>4
<1> QED BY <1>3, <1>4, <1>5, <1>6

-----------------------------------------------------------------------------
(* What the bytes that wait in the controller will do.                     *)

\* The states the decoder will go through while it reads p.
Runs(st, p) ==
    /\ st \in [0 .. Len(p) -> Dec]
    /\ \A k \in 0 .. Len(p) - 1 : st[k + 1] = Decoded(st[k], p[k + 1])

\* Where in t, of which c codes are in the ring already, reading p has got to:
\* every byte that emits a code emits the next one of t, and the last of p
\* leaves none of t over.
Marks(st, pos, p, t, c) ==
    /\ pos \in [0 .. Len(p) -> Nat]
    /\ pos[0] = c /\ pos[Len(p)] = Len(t)
    /\ \A j, k \in 0 .. Len(p) : j <= k => pos[j] <= pos[k]
    /\ \A k \in 0 .. Len(p) - 1 :
          IF Emits(st[k], p[k + 1])
          THEN /\ pos[k + 1] = pos[k] + 1
               /\ t[pos[k + 1]] = CodeOf(KeyOf(st[k], p[k + 1]), st[k].shift)
          ELSE pos[k + 1] = pos[k]

Marked(st, p, t, c) == \E pos \in [0 .. Len(p) -> Nat] : Marks(st, pos, p, t, c)

\* The first byte is read.
LEMMA RunsTail ==
    ASSUME NEW p \in Seq(Byte), p # << >>, NEW st, Runs(st, p), NEW q,
           q = [k \in 0 .. Len(p) - 1 |-> st[k + 1]]
    PROVE  Runs(q, Tail(p)) /\ q[0] = Decoded(st[0], Head(p)) /\ q[Len(Tail(p))] = st[Len(p)]
<1>1. Len(p) \in Nat /\ Len(p) > 0 /\ Len(Tail(p)) = Len(p) - 1 /\ Head(p) = p[1]
  OBVIOUS
<1>2. \A k \in 1 .. Len(p) - 1 : Tail(p)[k] = p[k + 1]
  OBVIOUS
<1>3. st \in [0 .. Len(p) -> Dec] /\ \A k \in 0 .. Len(p) - 1 : st[k + 1] = Decoded(st[k], p[k + 1])
  BY DEF Runs
<1>4. \A k \in 0 .. Len(p) - 1 : k + 1 \in 0 .. Len(p) /\ q[k] = st[k + 1]
  BY <1>1
<1>5. q \in [0 .. Len(Tail(p)) -> Dec]
  BY <1>1, <1>3, <1>4
<1>6. ASSUME NEW k \in 0 .. Len(Tail(p)) - 1 PROVE q[k + 1] = Decoded(q[k], Tail(p)[k + 1])
  <2>1. k \in 0 .. Len(p) - 1 /\ k + 1 \in 0 .. Len(p) - 1 /\ k + 1 \in 1 .. Len(p) - 1
    BY <1>1
  <2>2. q[k] = st[k + 1] /\ q[k + 1] = st[(k + 1) + 1]
    BY <1>4, <2>1
  <2>3. Tail(p)[k + 1] = p[(k + 1) + 1]
    BY <1>2, <2>1
  <2>4. st[(k + 1) + 1] = Decoded(st[k + 1], p[(k + 1) + 1])
    BY <1>3, <2>1
  <2> QED BY <2>2, <2>3, <2>4
<1>7. q[0] = Decoded(st[0], Head(p))
  <2>1. 0 \in 0 .. Len(p) - 1 /\ 0 + 1 = 1
    BY <1>1
  <2> QED BY <1>1, <1>3, <1>4, <2>1
<1>8. q[Len(Tail(p))] = st[Len(p)]
  <2>1. Len(p) - 1 \in 0 .. Len(p) - 1 /\ (Len(p) - 1) + 1 = Len(p)
    BY <1>1
  <2> QED BY <1>1, <1>4, <2>1
<1> QED BY <1>5, <1>6, <1>7, <1>8 DEF Runs

\* If it emits a code, that is the next one of t; the others are marked as before.
LEMMA MarkedTail ==
    ASSUME NEW p \in Seq(Byte), p # << >>, NEW st, NEW t, NEW c \in Nat, Marked(st, p, t, c), NEW q,
           q = [k \in 0 .. Len(p) - 1 |-> st[k + 1]]
    PROVE  IF Emits(st[0], Head(p))
           THEN /\ Marked(q, Tail(p), t, c + 1)
                /\ t[c + 1] = CodeOf(KeyOf(st[0], Head(p)), st[0].shift)
                /\ c + 1 <= Len(t)
           ELSE Marked(q, Tail(p), t, c)
<1>1. Len(p) \in Nat /\ Len(p) > 0 /\ Len(Tail(p)) = Len(p) - 1 /\ Head(p) = p[1]
  OBVIOUS
<1>2. \A k \in 1 .. Len(p) - 1 : Tail(p)[k] = p[k + 1]
  OBVIOUS
<1>3. PICK pos \in [0 .. Len(p) -> Nat] : Marks(st, pos, p, t, c)
  BY DEF Marked
<1>4. /\ pos[0] = c /\ pos[Len(p)] = Len(t)
      /\ \A j, k \in 0 .. Len(p) : j <= k => pos[j] <= pos[k]
      /\ \A k \in 0 .. Len(p) - 1 :
            IF Emits(st[k], p[k + 1])
            THEN /\ pos[k + 1] = pos[k] + 1
                 /\ t[pos[k + 1]] = CodeOf(KeyOf(st[k], p[k + 1]), st[k].shift)
            ELSE pos[k + 1] = pos[k]
  BY <1>3 DEF Marks
<1> DEFINE r == [k \in 0 .. Len(p) - 1 |-> pos[k + 1]]
<1>5. \A k \in 0 .. Len(p) - 1 : k + 1 \in 0 .. Len(p) /\ q[k] = st[k + 1] /\ r[k] = pos[k + 1]
  BY <1>1
<1>6. r \in [0 .. Len(Tail(p)) -> Nat]
  BY <1>1, <1>3, <1>5
<1> HIDE DEF r
<1>7. ASSUME NEW j \in 0 .. Len(Tail(p)), NEW k \in 0 .. Len(Tail(p)), j <= k PROVE r[j] <= r[k]
  <2>1. j \in 0 .. Len(p) - 1 /\ k \in 0 .. Len(p) - 1 /\ j + 1 \in 0 .. Len(p) /\ k + 1 \in 0 .. Len(p) /\ j + 1 <= k + 1
    BY <1>1, <1>7
  <2> QED BY <1>4, <1>5, <2>1
<1>8. ASSUME NEW k \in 0 .. Len(Tail(p)) - 1
      PROVE  IF Emits(q[k], Tail(p)[k + 1])
             THEN /\ r[k + 1] = r[k] + 1
                  /\ t[r[k + 1]] = CodeOf(KeyOf(q[k], Tail(p)[k + 1]), q[k].shift)
             ELSE r[k + 1] = r[k]
  <2>1. k \in 0 .. Len(p) - 1 /\ k + 1 \in 0 .. Len(p) - 1 /\ k + 1 \in 1 .. Len(p) - 1
    BY <1>1
  <2>2. q[k] = st[k + 1] /\ r[k] = pos[k + 1] /\ r[k + 1] = pos[(k + 1) + 1]
    BY <1>5, <2>1
  <2>3. Tail(p)[k + 1] = p[(k + 1) + 1]
    BY <1>2, <2>1
  <2> DEFINE k1 == k + 1
  <2>4. k1 \in 0 .. Len(p) - 1 /\ q[k] = st[k1] /\ r[k] = pos[k1] /\ r[k + 1] = pos[k1 + 1]
        /\ Tail(p)[k + 1] = p[k1 + 1]
    BY <2>1, <2>2, <2>3
  <2> HIDE DEF k1
  <2> QED BY <1>4, <2>4
<1>9. r[Len(Tail(p))] = Len(t)
  <2>1. Len(p) - 1 \in 0 .. Len(p) - 1 /\ (Len(p) - 1) + 1 = Len(p)
    BY <1>1
  <2> QED BY <1>1, <1>4, <1>5, <2>1
<1>10. /\ 0 \in 0 .. Len(p) - 1 /\ 0 + 1 = 1 /\ 1 \in 0 .. Len(p) /\ 1 <= Len(p) /\ Len(p) \in 0 .. Len(p)
  BY <1>1
<1>11. r[0] = pos[1] /\ pos[1] <= Len(t)
  BY <1>4, <1>5, <1>10
<1>12. Marks(q, r, Tail(p), t, pos[1])
  BY <1>6, <1>7, <1>8, <1>9, <1>11 DEF Marks
<1>13. Marked(q, Tail(p), t, pos[1])
  BY <1>6, <1>12 DEF Marked
<1>14. IF Emits(st[0], Head(p))
       THEN pos[1] = c + 1 /\ t[pos[1]] = CodeOf(KeyOf(st[0], Head(p)), st[0].shift)
       ELSE pos[1] = c
  BY <1>1, <1>4, <1>10
<1> QED BY <1>11, <1>13, <1>14

\* One more entry for a function on 0 .. n.
Grown(f, n, e) == [k \in 0 .. n + 1 |-> IF k <= n THEN f[k] ELSE e]

\* A byte arrives behind the others: the states run through one more.
LEMMA RunsSnoc ==
    ASSUME NEW p \in Seq(Byte), NEW b \in Byte, NEW st, Runs(st, p),
           NEW d \in Dec, d = Decoded(st[Len(p)], b), NEW q, q = Grown(st, Len(p), d)
    PROVE  Runs(q, Append(p, b)) /\ q[0] = st[0] /\ q[Len(Append(p, b))] = d
<1>1. Len(p) \in Nat /\ Len(Append(p, b)) = Len(p) + 1
  OBVIOUS
<1>2. (\A k \in 1 .. Len(p) : Append(p, b)[k] = p[k]) /\ Append(p, b)[Len(p) + 1] = b
  OBVIOUS
<1>3. st \in [0 .. Len(p) -> Dec] /\ \A k \in 0 .. Len(p) - 1 : st[k + 1] = Decoded(st[k], p[k + 1])
  BY DEF Runs
<1>4. /\ q \in [0 .. Len(p) + 1 -> Dec] /\ q[Len(p) + 1] = d
      /\ \A k \in 0 .. Len(p) : q[k] = st[k]
  BY <1>1, <1>3 DEF Grown
<1>5. ASSUME NEW k \in 0 .. Len(Append(p, b)) - 1 PROVE q[k + 1] = Decoded(q[k], Append(p, b)[k + 1])
  <2>1. CASE k = Len(p)
    <3>1. k \in 0 .. Len(p)
      BY <1>1, <2>1
    <3> QED BY <1>2, <1>4, <2>1, <3>1
  <2>2. CASE k \in 0 .. Len(p) - 1
    <3>1. k \in 0 .. Len(p) /\ k + 1 \in 0 .. Len(p) /\ k + 1 \in 1 .. Len(p)
      BY <1>1, <2>2
    <3>2. q[k] = st[k] /\ q[k + 1] = st[k + 1] /\ Append(p, b)[k + 1] = p[k + 1]
      BY <1>2, <1>4, <3>1
    <3> QED BY <1>3, <2>2, <3>2
  <2> QED BY <1>1, <2>1, <2>2
<1>6. q[0] = st[0]
  BY <1>1, <1>4
<1>7. q \in [0 .. Len(Append(p, b)) -> Dec]
  BY <1>1, <1>4
<1> QED BY <1>1, <1>4, <1>5, <1>6, <1>7 DEF Runs

\* When it will emit a code the reader is owed that code now.
LEMMA MarkedSnoc ==
    ASSUME NEW p \in Seq(Byte), NEW b \in Byte, NEW st, Runs(st, p),
           NEW d \in Dec, NEW q, q = Grown(st, Len(p), d),
           NEW t \in Seq(Code), NEW t2 \in Seq(Code), NEW c \in Nat, Marked(st, p, t, c),
           NEW k0, k0 = CodeOf(KeyOf(st[Len(p)], b), st[Len(p)].shift),
           IF Emits(st[Len(p)], b) THEN k0 \in Code /\ t2 = Append(t, k0) ELSE t2 = t
    PROVE  Marked(q, Append(p, b), t2, c)
<1>1. Len(p) \in Nat /\ Len(Append(p, b)) = Len(p) + 1 /\ Len(t) \in Nat /\ Len(t2) \in Nat
  OBVIOUS
<1>2. (\A k \in 1 .. Len(p) : Append(p, b)[k] = p[k]) /\ Append(p, b)[Len(p) + 1] = b
  OBVIOUS
<1>3. PICK pos \in [0 .. Len(p) -> Nat] : Marks(st, pos, p, t, c)
  BY DEF Marked
<1>4. /\ pos[0] = c /\ pos[Len(p)] = Len(t)
      /\ \A j, k \in 0 .. Len(p) : j <= k => pos[j] <= pos[k]
      /\ \A k \in 0 .. Len(p) - 1 :
            IF Emits(st[k], p[k + 1])
            THEN /\ pos[k + 1] = pos[k] + 1
                 /\ t[pos[k + 1]] = CodeOf(KeyOf(st[k], p[k + 1]), st[k].shift)
            ELSE pos[k + 1] = pos[k]
  BY <1>3 DEF Marks
<1> DEFINE r == Grown(pos, Len(p), Len(t2))
<1>5. /\ r \in [0 .. Len(p) + 1 -> Nat] /\ r[Len(p) + 1] = Len(t2)
      /\ \A k \in 0 .. Len(p) : r[k] = pos[k]
  BY <1>1 DEF Grown
<1>6. \A k \in 0 .. Len(p) : q[k] = st[k]
  BY <1>1 DEF Runs, Grown
<1> HIDE DEF r
<1>7. IF Emits(st[Len(p)], b) THEN Len(t2) = Len(t) + 1 /\ t2[Len(t2)] = k0 ELSE t2 = t
  OBVIOUS
<1>8. Len(t) <= Len(t2) /\ \A n \in 1 .. Len(t) : t2[n] = t[n]
  <2>1. CASE Emits(st[Len(p)], b)
    <3>1. k0 \in Code /\ t2 = Append(t, k0)
      BY <2>1
    <3> QED BY <1>1, <3>1
  <2>2. CASE ~Emits(st[Len(p)], b)
    BY <1>1, <2>2
  <2> QED BY <2>1, <2>2
<1>9. \A k \in 0 .. Len(p) : pos[k] \in Nat /\ pos[k] <= Len(t)
  BY <1>1, <1>4
<1>10. ASSUME NEW j \in 0 .. Len(Append(p, b)), NEW k \in 0 .. Len(Append(p, b)), j <= k PROVE r[j] <= r[k]
  <2>1. CASE k \in 0 .. Len(p)
    <3>1. j \in 0 .. Len(p)
      BY <1>1, <1>10, <2>1
    <3> QED BY <1>4, <1>5, <1>10, <2>1, <3>1
  <2>2. CASE k = Len(p) + 1 /\ j \in 0 .. Len(p)
    <3>1. r[k] = Len(t2) /\ r[j] = pos[j] /\ pos[j] <= Len(t) /\ pos[j] \in Nat
      BY <1>5, <1>9, <2>2
    <3> QED BY <1>1, <1>8, <3>1
  <2>3. CASE k = Len(p) + 1 /\ j = Len(p) + 1
    BY <1>1, <1>5, <2>3
  <2> QED BY <1>1, <2>1, <2>2, <2>3
<1>11. ASSUME NEW k \in 0 .. Len(Append(p, b)) - 1
       PROVE  IF Emits(q[k], Append(p, b)[k + 1])
              THEN /\ r[k + 1] = r[k] + 1
                   /\ t2[r[k + 1]] = CodeOf(KeyOf(q[k], Append(p, b)[k + 1]), q[k].shift)
              ELSE r[k + 1] = r[k]
  <2>1. CASE k = Len(p)
    <3>1. k \in 0 .. Len(p)
      BY <1>1, <2>1
    <3>2. q[k] = st[Len(p)] /\ r[k] = Len(t) /\ r[k + 1] = Len(t2) /\ Append(p, b)[k + 1] = b
      BY <1>2, <1>4, <1>5, <1>6, <2>1, <3>1
    <3> QED BY <1>7, <3>2
  <2>2. CASE k \in 0 .. Len(p) - 1
    <3>1. k \in 0 .. Len(p) /\ k + 1 \in 0 .. Len(p) /\ k + 1 \in 1 .. Len(p)
      BY <1>1, <2>2
    <3>2. q[k] = st[k] /\ r[k] = pos[k] /\ r[k + 1] = pos[k + 1] /\ Append(p, b)[k + 1] = p[k + 1]
      BY <1>2, <1>5, <1>6, <3>1
    <3>3. CASE Emits(st[k], p[k + 1])
      <4>1. pos[k + 1] = pos[k] + 1 /\ t[pos[k + 1]] = CodeOf(KeyOf(st[k], p[k + 1]), st[k].shift)
        BY <1>4, <2>2, <3>3
      <4>2. pos[k] \in Nat /\ pos[k + 1] \in Nat /\ pos[k + 1] <= Len(t)
        BY <1>9, <3>1
      <4>3. pos[k + 1] \in 1 .. Len(t)
        BY <1>1, <4>1, <4>2
      <4>4. t2[pos[k + 1]] = t[pos[k + 1]]
        BY <1>8, <4>3
      <4> QED BY <3>2, <3>3, <4>1, <4>4
    <3>4. CASE ~Emits(st[k], p[k + 1])
      BY <1>4, <2>2, <3>2, <3>4
    <3> QED BY <3>3, <3>4
  <2>3. k = Len(p) \/ k \in 0 .. Len(p) - 1
    BY <1>1
  <2> QED BY <2>1, <2>2, <2>3
<1>12. r[0] = c /\ r[Len(Append(p, b))] = Len(t2)
  BY <1>1, <1>4, <1>5
<1>13. r \in [0 .. Len(Append(p, b)) -> Nat]
  BY <1>1, <1>5
<1>14. Marks(q, r, Append(p, b), t2, c)
  BY <1>10, <1>11, <1>12, <1>13 DEF Marks
<1> QED BY <1>13, <1>14 DEF Marked

\* The reader takes the oldest code.
LEMMA MarkedRead ==
    ASSUME NEW p \in Seq(Byte), NEW st, NEW t \in Seq(Code), NEW c \in Nat, c >= 1, Marked(st, p, t, c)
    PROVE  t # << >> /\ Marked(st, p, Tail(t), c - 1)
<1>1. Len(p) \in Nat /\ Len(t) \in Nat /\ c - 1 \in Nat
  OBVIOUS
<1>3. PICK pos \in [0 .. Len(p) -> Nat] : Marks(st, pos, p, t, c)
  BY DEF Marked
<1>4. /\ pos[0] = c /\ pos[Len(p)] = Len(t)
      /\ \A j, k \in 0 .. Len(p) : j <= k => pos[j] <= pos[k]
      /\ \A k \in 0 .. Len(p) - 1 :
            IF Emits(st[k], p[k + 1])
            THEN /\ pos[k + 1] = pos[k] + 1
                 /\ t[pos[k + 1]] = CodeOf(KeyOf(st[k], p[k + 1]), st[k].shift)
            ELSE pos[k + 1] = pos[k]
  BY <1>3 DEF Marks
<1>5. \A k \in 0 .. Len(p) : pos[k] \in Nat /\ pos[k] <= Len(t) /\ pos[k] >= 1
  <2>1. 0 \in 0 .. Len(p) /\ Len(p) \in 0 .. Len(p) /\ \A k \in 0 .. Len(p) : 0 <= k /\ k <= Len(p)
    BY <1>1
  <2>2. \A k \in 0 .. Len(p) : pos[k] \in Nat /\ pos[k] <= Len(t) /\ c <= pos[k]
    BY <1>4, <2>1
  <2> QED BY <2>2
<1>6. Len(t) >= 1
  BY <1>1, <1>4, <1>5
<1>7. t # << >> /\ Len(Tail(t)) = Len(t) - 1 /\ \A n \in 1 .. Len(t) - 1 : Tail(t)[n] = t[n + 1]
  BY <1>6
<1> DEFINE r == [k \in 0 .. Len(p) |-> pos[k] - 1]
<1>8. r \in [0 .. Len(p) -> Nat] /\ \A k \in 0 .. Len(p) : r[k] = pos[k] - 1
  BY <1>5
<1> HIDE DEF r
<1>9. ASSUME NEW j \in 0 .. Len(p), NEW k \in 0 .. Len(p), j <= k PROVE r[j] <= r[k]
  BY <1>4, <1>5, <1>8, <1>9
<1>10. ASSUME NEW k \in 0 .. Len(p) - 1
       PROVE  IF Emits(st[k], p[k + 1])
              THEN /\ r[k + 1] = r[k] + 1
                   /\ Tail(t)[r[k + 1]] = CodeOf(KeyOf(st[k], p[k + 1]), st[k].shift)
              ELSE r[k + 1] = r[k]
  <2>1. k \in 0 .. Len(p) /\ k + 1 \in 0 .. Len(p)
    BY <1>1
  <2>2. r[k] = pos[k] - 1 /\ r[k + 1] = pos[k + 1] - 1 /\ pos[k] \in Nat /\ pos[k] >= 1 /\ pos[k + 1] \in Nat
        /\ pos[k + 1] <= Len(t)
    BY <1>5, <1>8, <2>1
  <2>3. CASE Emits(st[k], p[k + 1])
    <3>1. pos[k + 1] = pos[k] + 1 /\ t[pos[k + 1]] = CodeOf(KeyOf(st[k], p[k + 1]), st[k].shift)
      BY <1>4, <2>3
    <3>2. r[k + 1] = r[k] + 1 /\ r[k + 1] \in 1 .. Len(t) - 1 /\ r[k + 1] + 1 = pos[k + 1]
      BY <1>1, <2>2, <3>1
    <3>3. Tail(t)[r[k + 1]] = t[pos[k + 1]]
      BY <1>7, <3>2
    <3> QED BY <2>3, <3>1, <3>2, <3>3
  <2>4. CASE ~Emits(st[k], p[k + 1])
    BY <1>4, <2>2, <2>4
  <2> QED BY <2>3, <2>4
<1>11. r[0] = c - 1 /\ r[Len(p)] = Len(Tail(t))
  <2>1. 0 \in 0 .. Len(p) /\ Len(p) \in 0 .. Len(p)
    BY <1>1
  <2> QED BY <1>4, <1>7, <1>8, <2>1
<1>12. Marks(st, r, p, Tail(t), c - 1)
  BY <1>8, <1>9, <1>10, <1>11 DEF Marks
<1> QED BY <1>7, <1>8, <1>12 DEF Marked

-----------------------------------------------------------------------------
(* What the user does, as bytes behind the ones that wait.                 *)

\* No plain key has the scancode of an extended one: g_pressed, which is
\* indexed by the scancode alone, can then tell all keys apart.
Apart == Plain \cap Ext = {}

\* The state the decoder will be in when it has caught up with the user.
Caught(d, shift, keys) ==
    /\ d \in Dec /\ ~d.ext /\ d.shift = shift
    /\ Apart => d.pressed = {k.sc : k \in keys}

\* st is the decoder's way from state d through the bytes p to a state that has
\* caught up; if nothing was lost the codes it emits are those of t from c on.
Way(st, p, d, shift, keys, t, c, ok) ==
    /\ Runs(st, p) /\ st[0] = d
    /\ Caught(st[Len(p)], shift, keys)
    /\ ok => Marked(st, p, t, c)

\* A byte joins the queue; the two preceding lemmas together.
LEMMA Snoc ==
    ASSUME NEW p \in Seq(Byte), NEW b \in Byte, NEW st, Runs(st, p),
           Decoded(st[Len(p)], b) \in Dec,
           NEW t \in Seq(Code), NEW t2 \in Seq(Code), NEW c \in Nat, NEW ok,
           ok => Marked(st, p, t, c),
           ok => t2 = IF Emits(st[Len(p)], b)
                      THEN Append(t, CodeOf(KeyOf(st[Len(p)], b), st[Len(p)].shift)) ELSE t
    PROVE  \E q : /\ Runs(q, Append(p, b)) /\ q[0] = st[0]
                  /\ q[Len(Append(p, b))] = Decoded(st[Len(p)], b)
                  /\ ok => Marked(q, Append(p, b), t2, c)
<1> DEFINE d == Decoded(st[Len(p)], b)
           q == Grown(st, Len(p), d)
           k0 == CodeOf(KeyOf(st[Len(p)], b), st[Len(p)].shift)
<1>1. d \in Dec /\ d = Decoded(st[Len(p)], b)
  OBVIOUS
<1>2. Runs(q, Append(p, b)) /\ q[0] = st[0] /\ q[Len(Append(p, b))] = d
  <2> HIDE DEF d
  <2> QED BY <1>1, RunsSnoc
<1>3. ASSUME ok PROVE Marked(q, Append(p, b), t2, c)
  <2>1. Emits(st[Len(p)], b) => k0 \in Code
    BY KeyboardSizes, CodeOfType DEF Emits
  <2>2. IF Emits(st[Len(p)], b) THEN k0 \in Code /\ t2 = Append(t, k0) ELSE t2 = t
    BY <1>3, <2>1
  <2>3. Marked(st, p, t, c) /\ q = Grown(st, Len(p), d)
        /\ k0 = CodeOf(KeyOf(st[Len(p)], b), st[Len(p)].shift)
    BY <1>3
  <2> HIDE DEF k0, q, d
  <2> QED BY <1>1, <2>2, <2>3, MarkedSnoc
<1> HIDE DEF q
<1> QED BY <1>2, <1>3

\* A decoder state from its parts.
Made(s, x, pr) == [shift |-> s, ext |-> x, pressed |-> pr]

\* The bytes that Scan is made of.
Prefix == [sc |-> E0, up |-> FALSE]

LastByte(k, up) == [sc |-> k.sc, up |-> up]

\* Made makes a decoder state.
LEMMA MakeDec ==
    ASSUME NEW s \in BOOLEAN, NEW x \in BOOLEAN, NEW pr \in SUBSET Scancode
    PROVE  /\ Made(s, x, pr) \in Dec
           /\ Made(s, x, pr).shift = s /\ Made(s, x, pr).ext = x /\ Made(s, x, pr).pressed = pr
<1>1. Made(s, x, pr) \in Dec
  BY Zenon DEF Dec, Made
<1>2. Made(s, x, pr).shift = s /\ Made(s, x, pr).ext = x /\ Made(s, x, pr).pressed = pr
  BY Zenon DEF Made
<1> QED BY <1>1, <1>2

\* The parts of a decoder state.
LEMMA DecParts ==
    ASSUME NEW d \in Dec
    PROVE  d.shift \in BOOLEAN /\ d.ext \in BOOLEAN /\ d.pressed \in SUBSET Scancode
BY Zenon DEF Dec

\* The parts of a key.
LEMMA KeyParts ==
    ASSUME NEW k \in Key
    PROVE  /\ k = [ext |-> k.ext, sc |-> k.sc] /\ k.ext \in BOOLEAN /\ k.sc \in Scancode
           /\ (k.ext => k.sc \in Ext) /\ (~k.ext => k.sc \in Plain)
<1>1. CASE k \in [ext : {TRUE}, sc : Ext]
  BY <1>1 DEF Scancode
<1>2. CASE k \in [ext : {FALSE}, sc : Plain]
  BY <1>2 DEF Scancode
<1> QED BY <1>1, <1>2 DEF Key

\* A plain key sends one byte.
LEMMA ScanPlain ==
    ASSUME NEW p \in Seq(Byte), NEW k \in Key, NEW up \in BOOLEAN, ~k.ext
    PROVE  p \o Scan(k, up) = Append(p, LastByte(k, up)) /\ LastByte(k, up) \in Byte
<1>1. LastByte(k, up) \in Byte
  BY KeyParts DEF Byte, LastByte
<1>2. Scan(k, up) = <<LastByte(k, up)>>
  BY DEF Scan, LastByte
<1> QED BY <1>1, <1>2

\* An extended key sends two.
LEMMA ScanExt ==
    ASSUME NEW p \in Seq(Byte), NEW k \in Key, NEW up \in BOOLEAN, k.ext
    PROVE  /\ p \o Scan(k, up) = Append(Append(p, Prefix), LastByte(k, up))
           /\ LastByte(k, up) \in Byte /\ Prefix \in Byte /\ Append(p, Prefix) \in Seq(Byte)
<1>1. LastByte(k, up) \in Byte /\ Prefix \in Byte
  BY KeyParts DEF Byte, LastByte, Prefix
<1>2. Scan(k, up) = <<Prefix>> \o <<LastByte(k, up)>>
  BY DEF Scan, LastByte, Prefix
<1>3. <<Prefix>> \in Seq(Byte) /\ <<LastByte(k, up)>> \in Seq(Byte)
  BY <1>1
<1>4. (p \o <<Prefix>>) \o <<LastByte(k, up)>> = p \o (<<Prefix>> \o <<LastByte(k, up)>>)
  <2> DEFINE a == <<Prefix>>
             e == <<LastByte(k, up)>>
  <2>1. a \in Seq(Byte) /\ e \in Seq(Byte)
    BY <1>3
  <2> HIDE DEF a, e
  <2>2. (p \o a) \o e = p \o (a \o e)
    BY <2>1, ConcatAssociative
  <2> QED BY <2>2 DEF a, e
<1>5. p \o <<Prefix>> = Append(p, Prefix) /\ Append(p, Prefix) \in Seq(Byte)
  BY <1>1
<1>6. Append(p, Prefix) \o <<LastByte(k, up)>> = Append(Append(p, Prefix), LastByte(k, up))
  BY <1>1, <1>5
<1> QED BY <1>1, <1>2, <1>4, <1>5, <1>6

\* Which key a scancode belongs to.
LEMMA ScancodeOf ==
    ASSUME Apart, NEW keys \in SUBSET Key, NEW k \in Key
    PROVE  /\ k.sc \in {j.sc : j \in keys} <=> k \in keys
           /\ {j.sc : j \in keys \cup {k}} = {j.sc : j \in keys} \cup {k.sc}
           /\ {j.sc : j \in keys \ {k}} = {j.sc : j \in keys} \ {k.sc}
<1>1. ASSUME NEW j \in Key, j.sc = k.sc PROVE j = k
  <2>1. j.ext = k.ext
    BY <1>1, KeyParts DEF Apart
  <2>2. j = [ext |-> j.ext, sc |-> j.sc] /\ k = [ext |-> k.ext, sc |-> k.sc]
    BY KeyParts
  <2> QED BY <1>1, <2>1, <2>2
<1> QED BY <1>1

\* A byte b that the decoder in state d takes for key k going up or down, and
\* the state d2 it leaves.
KeyRead(k, up, d, b, d2) ==
    /\ KeyOf(d, b) = k
    /\ d2 \in Dec /\ d2.shift = d.shift /\ ~d2.ext
    /\ d2.pressed = IF up THEN d.pressed \ {k.sc} ELSE d.pressed \cup {k.sc}
    /\ Emits(d, b) <=> ~up /\ (k.sc \notin d.pressed \/ k \in Repeatable) /\ k \in Mapped

\* What the decoder does with the last byte of Scan(k, up), the prefix of an
\* extended key behind it.
LEMMA KeyDecoded ==
    ASSUME NEW k \in Key, NEW up \in BOOLEAN, NEW d \in Dec, d.ext = k.ext,
           NEW b, b = LastByte(k, up), NEW d2, d2 = Decoded(d, b)
    PROVE  KeyRead(k, up, d, b, d2)
<1>1. k.sc \in Scancode /\ k.ext \in BOOLEAN /\ k = [ext |-> k.ext, sc |-> k.sc]
  BY KeyParts
<1>2. k.sc \notin {Aux, E0} /\ k.sc \notin Shifts
  BY <1>1, KeyboardSizes
<1>3. b.sc = k.sc /\ b.up = up
  BY DEF LastByte
<1>4. IsKey(d, b)
  BY <1>2, <1>3 DEF IsKey
<1>5. KeyOf(d, b) = k
  BY <1>1, <1>3 DEF KeyOf
<1> DEFINE pr == IF up THEN d.pressed \ {k.sc} ELSE d.pressed \cup {k.sc}
<1>6. d2 = Made(d.shift, FALSE, pr)
  BY <1>3, <1>4 DEF Decoded, Made
<1>7. d.shift \in BOOLEAN /\ d.pressed \in SUBSET Scancode
  BY DecParts
<1>8. pr \in SUBSET Scancode
  BY <1>1, <1>7
<1>9. pr = IF up THEN d.pressed \ {k.sc} ELSE d.pressed \cup {k.sc}
  OBVIOUS
<1> HIDE DEF pr
<1>10. d2 \in Dec /\ d2.shift = d.shift /\ d2.ext = FALSE /\ d2.pressed = pr
  <2> DEFINE s == d.shift
             x == FALSE
             u == pr
  <2>1. s \in BOOLEAN /\ x \in BOOLEAN /\ u \in SUBSET Scancode /\ d2 = Made(s, x, u)
    BY <1>6, <1>7, <1>8
  <2>2. d2 \in Dec /\ d2.shift = s /\ d2.ext = x /\ d2.pressed = u
    <3> HIDE DEF s, x, u
    <3> QED BY <2>1, MakeDec
  <2> QED BY <2>2
<1>12. Emits(d, b) <=> ~up /\ (k.sc \notin d.pressed \/ k \in Repeatable) /\ k \in Mapped
  BY <1>3, <1>4, <1>5 DEF Emits
<1> QED BY <1>5, <1>9, <1>10, <1>12 DEF KeyRead

\* The prefix byte alone emits nothing.
LEMMA PrefixDecoded ==
    ASSUME NEW d \in Dec, NEW d2, d2 = Decoded(d, Prefix)
    PROVE  /\ ~Emits(d, Prefix)
           /\ d2 \in Dec /\ d2.shift = d.shift /\ d2.ext = TRUE /\ d2.pressed = d.pressed
<1>1. Prefix.sc = E0 /\ E0 # Aux
  BY KeyboardSizes DEF Prefix
<1>2. ~IsKey(d, Prefix)
  BY <1>1 DEF IsKey
<1>3. d2 = Made(d.shift, TRUE, d.pressed)
  BY <1>1, <1>2 DEF Decoded, Made
<1>4. d2 \in Dec /\ d2.shift = d.shift /\ d2.ext = TRUE /\ d2.pressed = d.pressed
  <2> DEFINE s == d.shift
             x == TRUE
             u == d.pressed
  <2>1. s \in BOOLEAN /\ x \in BOOLEAN /\ u \in SUBSET Scancode /\ d2 = Made(s, x, u)
    BY <1>3, DecParts
  <2>2. d2 \in Dec /\ d2.shift = s /\ d2.ext = x /\ d2.pressed = u
    <3> HIDE DEF s, x, u
    <3> QED BY <2>1, MakeDec
  <2> QED BY <2>2
<1> QED BY <1>2, <1>4 DEF Emits

\* A key's make or break: the decoder will have caught up with it, and emits the
\* code that Owe promised.
LEMMA ScanStep ==
    ASSUME NEW p \in Seq(Byte), NEW st, NEW d0, NEW shift, NEW keys \in SUBSET Key, NEW ok,
           NEW t \in Seq(Code), NEW t2 \in Seq(Code), NEW c \in Nat,
           Way(st, p, d0, shift, keys, t, c, ok), ok => Apart,
           NEW k \in Key, NEW up \in BOOLEAN, NEW keys2,
           keys2 = IF up THEN keys \ {k} ELSE keys \cup {k},
           ok => t2 = IF ~up /\ k \in Mapped /\ (k \notin keys \/ k \in Repeatable)
                      THEN Append(t, CodeOf(k, shift)) ELSE t
    PROVE  \E q : Way(q, p \o Scan(k, up), d0, shift, keys2, t2, c, ok)
<1> DEFINE last == LastByte(k, up)
           d == st[Len(p)]
<1>1. Runs(st, p) /\ st[0] = d0 /\ Caught(d, shift, keys) /\ (ok => Marked(st, p, t, c))
  BY DEF Way
<1>2. d \in Dec /\ ~d.ext /\ d.shift = shift /\ (Apart => d.pressed = {j.sc : j \in keys})
  BY <1>1 DEF Caught
<1>3. last \in Byte
  BY KeyParts DEF Byte, LastByte
<1>4. ASSUME NEW pp \in Seq(Byte), NEW s2, Runs(s2, pp), s2[0] = d0, NEW e \in Dec, e = s2[Len(pp)],
             e.ext = k.ext, e.shift = shift, e.pressed = d.pressed, ok => Marked(s2, pp, t, c)
      PROVE  \E q : Way(q, Append(pp, last), d0, shift, keys2, t2, c, ok)
  <2> DEFINE e2 == Decoded(e, last)
  <2>0. last = LastByte(k, up) /\ e2 = Decoded(e, last)
    OBVIOUS
  <2> HIDE DEF last, e2, d
  <2>1. /\ KeyOf(e, last) = k
        /\ e2 \in Dec /\ e2.shift = e.shift /\ ~e2.ext
        /\ e2.pressed = IF up THEN e.pressed \ {k.sc} ELSE e.pressed \cup {k.sc}
        /\ Emits(e, last) <=> ~up /\ (k.sc \notin e.pressed \/ k \in Repeatable) /\ k \in Mapped
    <3>1. e.ext = k.ext
      BY <1>4
    <3>2. KeyRead(k, up, e, last, e2)
      BY <2>0, <3>1, KeyDecoded
    <3> QED BY <3>2 DEF KeyRead
  <2>2. ok => t2 = IF Emits(e, last) THEN Append(t, CodeOf(KeyOf(e, last), e.shift)) ELSE t
    <3>1. ASSUME ok PROVE k.sc \in e.pressed <=> k \in keys
      BY <1>2, <1>4, <3>1, ScancodeOf
    <3> QED BY <1>4, <2>1, <3>1
  <2>3. PICK q : /\ Runs(q, Append(pp, last)) /\ q[0] = s2[0]
                 /\ q[Len(Append(pp, last))] = Decoded(s2[Len(pp)], last)
                 /\ ok => Marked(q, Append(pp, last), t2, c)
    BY <1>3, <1>4, <2>0, <2>1, <2>2, Snoc
  <2>4. Caught(e2, shift, keys2)
    <3>1. ASSUME Apart PROVE e2.pressed = {j.sc : j \in keys2}
      <4>1. e.pressed = {j.sc : j \in keys}
        BY <1>2, <1>4, <3>1
      <4>2. /\ {j.sc : j \in keys \cup {k}} = {j.sc : j \in keys} \cup {k.sc}
            /\ {j.sc : j \in keys \ {k}} = {j.sc : j \in keys} \ {k.sc}
        BY <3>1, ScancodeOf
      <4>3. CASE up
        BY <2>1, <4>1, <4>2, <4>3
      <4>4. CASE ~up
        BY <2>1, <4>1, <4>2, <4>4
      <4> QED BY <4>3, <4>4
    <3> QED BY <1>4, <2>1, <3>1 DEF Caught
  <2> QED BY <1>4, <2>0, <2>3, <2>4 DEF Way
<1>5. CASE ~k.ext
  <2>1. p \o Scan(k, up) = Append(p, last)
    BY <1>5, ScanPlain
  <2>2. d.ext = k.ext
    BY <1>2, <1>5, DecParts, KeyParts
  <2> HIDE DEF last
  <2> QED BY <1>1, <1>2, <1>4, <2>1, <2>2
<1>6. CASE k.ext
  <2>1. p \o Scan(k, up) = Append(Append(p, Prefix), last) /\ Prefix \in Byte
        /\ Append(p, Prefix) \in Seq(Byte)
    BY <1>6, ScanExt
  <2> DEFINE d2 == Decoded(d, Prefix)
  <2>2. d2 = Decoded(d, Prefix)
    OBVIOUS
  <2> HIDE DEF last, d2
  <2>3. /\ ~Emits(d, Prefix)
        /\ d2 \in Dec /\ d2.shift = d.shift /\ d2.ext = TRUE /\ d2.pressed = d.pressed
    BY <1>2, <2>2, PrefixDecoded
  <2>4. PICK q : /\ Runs(q, Append(p, Prefix)) /\ q[0] = st[0]
                 /\ q[Len(Append(p, Prefix))] = Decoded(st[Len(p)], Prefix)
                 /\ ok => Marked(q, Append(p, Prefix), t, c)
    BY <1>1, <2>1, <2>2, <2>3, Snoc
  <2>5. k.ext = TRUE
    BY <1>6, KeyParts
  <2>6. d2 = q[Len(Append(p, Prefix))] /\ d2.ext = k.ext /\ d2.shift = shift
    BY <1>2, <2>2, <2>3, <2>4, <2>5
  <2> QED BY <1>1, <1>4, <2>1, <2>3, <2>4, <2>6
<1> QED BY <1>5, <1>6

\* The shift key: nothing is emitted, and the decoder will know.
LEMMA ShiftStep ==
    ASSUME NEW p \in Seq(Byte), NEW st, NEW d0, NEW shift, NEW keys, NEW ok,
           NEW t \in Seq(Code), NEW c \in Nat, Way(st, p, d0, shift, keys, t, c, ok),
           NEW f \in Shifts, NEW up \in BOOLEAN, NEW b, b = [sc |-> f, up |-> up]
    PROVE  \E q : Way(q, p \o <<b>>, d0, ~up, keys, t, c, ok)
<1> DEFINE d == st[Len(p)]
           d2 == Decoded(d, b)
<1>1. Runs(st, p) /\ st[0] = d0 /\ Caught(d, shift, keys) /\ (ok => Marked(st, p, t, c))
  BY DEF Way
<1>2. d \in Dec /\ ~d.ext /\ d.shift = shift /\ (Apart => d.pressed = {j.sc : j \in keys})
  BY <1>1 DEF Caught
<1>3. b \in Byte /\ b.sc \in Shifts /\ b.up = up /\ b.sc # Aux /\ b.sc # E0
  BY KeyboardSizes DEF Byte
<1>4. ~IsKey(d, b)
  BY <1>2, <1>3 DEF IsKey
<1>5. ~Emits(d, b)
  BY <1>4 DEF Emits
<1>6. d2 \in Dec /\ ~d2.ext /\ d2.shift = ~up /\ d2.pressed = d.pressed
  <2> DEFINE s == ~up
             x == d.ext
             u == d.pressed
  <2>1. s \in BOOLEAN /\ x \in BOOLEAN /\ u \in SUBSET Scancode /\ ~x
    BY <1>2, DecParts
  <2>2. d2 = Made(s, x, u)
    BY <1>3, <1>4 DEF Decoded, Made
  <2>3. d2 \in Dec /\ d2.shift = s /\ d2.ext = x /\ d2.pressed = u
    <3> HIDE DEF s, x, u, d2
    <3> QED BY <2>1, <2>2, MakeDec
  <2> HIDE DEF d2
  <2> QED BY <2>1, <2>3
<1>7. p \o <<b>> = Append(p, b)
  BY <1>3
<1>8. PICK q : /\ Runs(q, Append(p, b)) /\ q[0] = st[0]
               /\ q[Len(Append(p, b))] = Decoded(st[Len(p)], b)
               /\ ok => Marked(q, Append(p, b), t, c)
  <2>1. Decoded(st[Len(p)], b) \in Dec /\ ~Emits(st[Len(p)], b)
    BY <1>5, <1>6
  <2> QED BY <1>1, <1>3, <2>1, Snoc
<1>9. Caught(d2, ~up, keys)
  <2> HIDE DEF d2
  <2> QED BY <1>2, <1>6 DEF Caught
<1> QED BY <1>1, <1>7, <1>8, <1>9 DEF Way

\* A mouse byte: the decoder discards it, in whatever state it will be.
LEMMA MouseStep ==
    ASSUME NEW p \in Seq(Byte), NEW st, NEW d0, NEW shift, NEW keys, NEW ok,
           NEW t \in Seq(Code), NEW c \in Nat, Way(st, p, d0, shift, keys, t, c, ok),
           NEW b, b = [sc |-> Aux, up |-> FALSE]
    PROVE  \E q : Way(q, p \o <<b>>, d0, shift, keys, t, c, ok)
<1> DEFINE d == st[Len(p)]
<1>1. Runs(st, p) /\ st[0] = d0 /\ Caught(d, shift, keys) /\ (ok => Marked(st, p, t, c))
  BY DEF Way
<1>2. b \in Byte /\ b.sc = Aux
  BY DEF Byte
<1>3. ~Emits(d, b) /\ Decoded(d, b) = d /\ d \in Dec
  BY <1>1, <1>2 DEF Emits, Decoded, IsKey, Caught
<1>4. p \o <<b>> = Append(p, b)
  BY <1>2
<1>5. PICK q : /\ Runs(q, Append(p, b)) /\ q[0] = st[0]
               /\ q[Len(Append(p, b))] = Decoded(st[Len(p)], b)
               /\ ok => Marked(q, Append(p, b), t, c)
  BY <1>1, <1>2, <1>3, Snoc
<1> QED BY <1>1, <1>3, <1>4, <1>5 DEF Way

\* keyboard_irq reads the first byte: the rest of the way is the way of the rest.
LEMMA ReadStep ==
    ASSUME NEW p \in Seq(Byte), p # << >>, NEW st, NEW d0, NEW shift, NEW keys, NEW ok,
           NEW t, NEW c \in Nat, Way(st, p, d0, shift, keys, t, c, ok)
    PROVE  /\ \E q : Way(q, Tail(p), Decoded(d0, Head(p)), shift, keys, t,
                         IF Emits(d0, Head(p)) THEN c + 1 ELSE c, ok)
           /\ ok /\ Emits(d0, Head(p)) => /\ c + 1 <= Len(t)
                                          /\ t[c + 1] = CodeOf(KeyOf(d0, Head(p)), d0.shift)
           /\ Decoded(d0, Head(p)) \in Dec
<1> DEFINE q == [k \in 0 .. Len(p) - 1 |-> st[k + 1]]
<1>1. Runs(st, p) /\ st[0] = d0 /\ Caught(st[Len(p)], shift, keys) /\ (ok => Marked(st, p, t, c))
  BY DEF Way
<1>2. q = [k \in 0 .. Len(p) - 1 |-> st[k + 1]]
  OBVIOUS
<1> HIDE DEF q
<1>3. Runs(q, Tail(p)) /\ q[0] = Decoded(st[0], Head(p)) /\ q[Len(Tail(p))] = st[Len(p)]
  BY <1>1, <1>2, RunsTail
<1>4. ASSUME ok
      PROVE  IF Emits(st[0], Head(p))
             THEN /\ Marked(q, Tail(p), t, c + 1)
                  /\ t[c + 1] = CodeOf(KeyOf(st[0], Head(p)), st[0].shift)
                  /\ c + 1 <= Len(t)
             ELSE Marked(q, Tail(p), t, c)
  BY <1>1, <1>2, <1>4, MarkedTail
<1>5. q[0] \in Dec
  <2>1. Tail(p) \in Seq(Byte) /\ Len(Tail(p)) \in Nat
    OBVIOUS
  <2>2. 0 \in 0 .. Len(Tail(p))
    BY <2>1
  <2> QED BY <1>3, <2>2 DEF Runs
<1>6. ok => Marked(q, Tail(p), t, IF Emits(d0, Head(p)) THEN c + 1 ELSE c)
  <2>1. CASE Emits(d0, Head(p))
    BY <1>1, <1>4, <2>1
  <2>2. CASE ~Emits(d0, Head(p))
    BY <1>1, <1>4, <2>2
  <2> QED BY <2>1, <2>2
<1>7. Way(q, Tail(p), Decoded(d0, Head(p)), shift, keys, t,
          IF Emits(d0, Head(p)) THEN c + 1 ELSE c, ok)
  BY <1>1, <1>3, <1>6 DEF Way
<1> QED BY <1>1, <1>3, <1>4, <1>5, <1>7

\* keyboard_getc takes the oldest code: it is the oldest one owed.
LEMMA TakeStep ==
    ASSUME NEW p \in Seq(Byte), NEW st, NEW d0, NEW shift, NEW keys, NEW ok,
           NEW t \in Seq(Code), NEW c \in Nat, c >= 1, Way(st, p, d0, shift, keys, t, c, ok)
    PROVE  Way(st, p, d0, shift, keys, IF t = << >> THEN t ELSE Tail(t), c - 1, ok)
           /\ (ok => t # << >>)
<1>1. Runs(st, p) /\ st[0] = d0 /\ Caught(st[Len(p)], shift, keys) /\ (ok => Marked(st, p, t, c))
  BY DEF Way
<1>2. ASSUME ok PROVE t # << >> /\ Marked(st, p, Tail(t), c - 1)
  BY <1>1, <1>2, MarkedRead
<1> QED BY <1>1, <1>2 DEF Way

-----------------------------------------------------------------------------
(* The invariant: user, controller, decoder, ring and reader together.     *)

\* q is the first part of t.
Starts(q, t) == Len(q) <= Len(t) /\ \A n \in 1 .. Len(q) : q[n] = t[n]

Promised == Apart /\ ~dropped

Typing ==
    /\ port \in Seq(Byte) /\ down \in SUBSET Key
    /\ shiftDown \subseteq Shifts /\ oneLeft \in BOOLEAN
    /\ typed \in Seq(Code) /\ dropped \in BOOLEAN

\* Between its two steps the reader has the code at the head.
Loaded ==
    /\ getc = "read" => code = g_buf[g_head]
    /\ getc = "idle" => code = NoCode

\* The bytes that wait bring the decoder from where it is to where the user is,
\* and the codes it puts into the ring on the way are those the reader is owed
\* beyond what the ring holds.
OnTheWay ==
    \E st : Way(st, port, Now, Capital, down, typed, Len(Contents), Promised)

KInv ==
    /\ RInv /\ Typing /\ Loaded /\ OnTheWay
    /\ Promised => Starts(Contents, typed)

\* The invariant says more than the properties that the run checks.
LEMMA KInvTypes ==
    ASSUME KInv
    PROVE  TypeOK
<1>1. PICK st : Way(st, port, Now, Capital, down, typed, Len(Contents), Promised)
  BY DEF KInv, OnTheWay
<1>2. Now \in Dec
  <2>1. Runs(st, port) /\ st[0] = Now
    BY <1>1 DEF Way
  <2>2. port \in Seq(Byte)
    BY DEF KInv, Typing
  <2>3. 0 \in 0 .. Len(port)
    BY <2>2
  <2> QED BY <2>1, <2>3 DEF Runs
<1>3. g_shift \in BOOLEAN /\ g_extended \in BOOLEAN /\ g_pressed \subseteq Scancode
  <2>1. Now.shift = g_shift /\ Now.ext = g_extended /\ Now.pressed = g_pressed
    BY DEF Now
  <2> QED BY <1>2, <2>1, DecParts
<1>4. code \in Code \cup {NoCode}
  <2>1. CASE getc = "read"
    BY <2>1 DEF KInv, Loaded, RInv, RingOK
  <2>2. CASE getc = "idle"
    BY <2>2 DEF KInv, Loaded
  <2> QED BY <2>1, <2>2 DEF KInv, RInv
<1> QED BY <1>3, <1>4 DEF KInv, RInv, RingOK, Index, Typing, TypeOK

\* Nothing is lost or doubled while the invariant holds.
LEMMA KInvOrder ==
    ASSUME KInv, Apart
    PROVE  NothingLostOrDoubled
<1> SUFFICES ASSUME ~dropped
             PROVE  /\ Count <= Len(typed)
                    /\ Contents = SubSeq(typed, 1, Count)
                    /\ port = << >> => Count = Len(typed)
                    /\ getc = "read" => typed # << >> /\ code = Head(typed)
  BY DEF NothingLostOrDoubled
<1>1. /\ Contents \in Seq(Code) /\ Len(Contents) = Count
      /\ \A n \in 1 .. Count : Contents[n] = At(n)
  BY ContentsSeq DEF KInv, RInv
<1>2. Count \in Nat /\ (Count = 0 <=> g_head = g_tail)
  BY CountRange DEF KInv, RInv
<1>3. Count <= Len(typed) /\ \A n \in 1 .. Count : Contents[n] = typed[n]
  BY <1>1 DEF KInv, Promised, Starts
<1>4. typed \in Seq(Code) /\ Len(typed) \in Nat
  BY DEF KInv, Typing
<1> HIDE DEF Count, Contents
<1>5. Contents = SubSeq(typed, 1, Count)
  <2> DEFINE s == SubSeq(typed, 1, Count)
  <2>1. s \in Seq(Code) /\ Len(s) = Count /\ \A n \in 1 .. Count : s[n] = typed[n]
    BY <1>2, <1>3, <1>4
  <2> HIDE DEF s
  <2>2. Contents = s
    BY <1>1, <1>3, <2>1, SeqEqual
  <2> QED BY <2>2 DEF s
<1>6. ASSUME port = << >> PROVE Count = Len(typed)
  <2>1. PICK st : Way(st, port, Now, Capital, down, typed, Len(Contents), Promised)
    BY DEF KInv, OnTheWay
  <2>2. Marked(st, port, typed, Len(Contents))
    BY <2>1 DEF Way, Promised
  <2>3. PICK pos \in [0 .. Len(port) -> Nat] : Marks(st, pos, port, typed, Len(Contents))
    BY <2>2 DEF Marked
  <2>4. Len(port) = 0
    BY <1>6
  <2> QED BY <1>1, <2>3, <2>4 DEF Marks
<1>7. ASSUME getc = "read" PROVE typed # << >> /\ code = Head(typed)
  <2>1. g_head # g_tail /\ code = g_buf[g_head] /\ g_head \in 0 .. BufSize - 1
    BY <1>7 DEF KInv, RInv, RingOK, Index, Loaded
  <2>2. Count >= 1
    BY <1>2, <2>1
  <2>3. At(1) = g_buf[g_head]
    BY <2>1, KeyboardSizes DEF At
  <2>4. typed[1] = At(1) /\ Len(typed) >= 1
    BY <1>1, <1>2, <1>3, <1>4, <2>2
  <2> QED BY <1>4, <2>1, <2>3, <2>4
<1> QED BY <1>3, <1>5, <1>6, <1>7

\* At boot nothing waits, nothing is owed and the decoder is in its first state.
LEMMA InitKInv ==
    ASSUME Init
    PROVE  KInv
<1>1. RInv /\ Contents = << >>
  BY InitRInv
<1>2. Typing /\ Loaded
  <2>1. port = << >> /\ down = {} /\ typed = << >> /\ getc = "idle" /\ code = NoCode
        /\ shiftDown \subseteq Shifts /\ oneLeft \in BOOLEAN /\ dropped \in BOOLEAN
    BY DEF Init
  <2>2. Typing
    BY <2>1 DEF Typing
  <2>3. Loaded
    BY <2>1 DEF Loaded
  <2> QED BY <2>2, <2>3
<1>3. Now \in Dec /\ Caught(Now, Capital, down)
  <2> DEFINE s == FALSE
             x == FALSE
             u == {}
  <2>1. s \in BOOLEAN /\ x \in BOOLEAN /\ u \in SUBSET Scancode
    OBVIOUS
  <2>2. Now = Made(s, x, u)
    BY DEF Init, Now, Made
  <2>3. Now \in Dec /\ Now.shift = s /\ Now.ext = x /\ Now.pressed = u
    <3> HIDE DEF s, x, u
    <3> QED BY <2>1, <2>2, MakeDec
  <2>4. Capital = FALSE /\ down = {}
    BY DEF Init, Capital
  <2>5. {k.sc : k \in down} = {}
    BY <2>4
  <2> QED BY <2>3, <2>4, <2>5 DEF Caught
<1>4. OnTheWay
  <2> DEFINE st == [k \in 0 .. 0 |-> Now]
             pos == [k \in 0 .. 0 |-> 0]
  <2>1. Len(port) = 0 /\ Len(typed) = 0 /\ Len(Contents) = 0
    BY <1>1 DEF Init
  <2>2. st \in [0 .. 0 -> Dec] /\ pos \in [0 .. 0 -> Nat] /\ st[0] = Now /\ pos[0] = 0
    BY <1>3
  <2> HIDE DEF st, pos
  <2>3. \A k \in 0 .. 0 : k = 0
    OBVIOUS
  <2>4. 0 .. 0 - 1 = {}
    OBVIOUS
  <2>5. Runs(st, port)
    BY <2>1, <2>2, <2>4 DEF Runs
  <2>6. Marks(st, pos, port, typed, 0)
    <3>1. \A j, k \in 0 .. 0 : j <= k => pos[j] <= pos[k]
      BY <2>2, <2>3
    <3> QED BY <2>1, <2>2, <2>4, <3>1 DEF Marks
  <2>7. Marked(st, port, typed, Len(Contents))
    BY <2>1, <2>2, <2>6 DEF Marked
  <2>8. Way(st, port, Now, Capital, down, typed, Len(Contents), Promised)
    BY <1>3, <2>1, <2>2, <2>5, <2>7 DEF Way
  <2> QED BY <2>8 DEF OnTheWay
<1>5. Starts(Contents, typed)
  <2>1. Len(Contents) = 0 /\ Len(typed) = 0 /\ 1 .. 0 = {}
    BY <1>1 DEF Init
  <2> QED BY <2>1 DEF Starts
<1> QED BY <1>1, <1>2, <1>4, <1>5 DEF KInv

\* What the user's steps have in common: the ring, the decoder and the reader are
\* not touched, and what the reader is owed only grows.
LEMMA UserKeeps ==
    ASSUME KInv, UNCHANGED <<ring, decoder, getc, code, dropped>>, Typing', OnTheWay',
           Promised => Len(typed) <= Len(typed') /\ \A n \in 1 .. Len(typed) : typed'[n] = typed[n]
    PROVE  KInv'
<1>1. RInv' /\ Contents' = Contents
  BY SameRing DEF KInv, RInv, ring, decoder
<1>2. Loaded'
  BY DEF KInv, Loaded, ring
<1>3. Promised' = Promised
  BY DEF Promised
<1>4. Contents \in Seq(Code) /\ Len(Contents) \in Nat /\ typed \in Seq(Code) /\ Len(typed) \in Nat
      /\ typed' \in Seq(Code) /\ Len(typed') \in Nat
  BY ContentsSeq DEF KInv, RInv, Typing
<1>5. Promised' => Starts(Contents', typed')
  <2> SUFFICES ASSUME Promised PROVE Starts(Contents, typed')
    BY <1>1, <1>3
  <2>1. Len(Contents) <= Len(typed) /\ \A n \in 1 .. Len(Contents) : Contents[n] = typed[n]
    BY DEF KInv, Starts
  <2> HIDE DEF Contents
  <2>2. Len(Contents) <= Len(typed')
    BY <1>4, <2>1
  <2>3. ASSUME NEW n \in 1 .. Len(Contents) PROVE Contents[n] = typed'[n]
    <3>1. n \in 1 .. Len(typed)
      BY <1>4, <2>1
    <3> QED BY <2>1, <3>1
  <2> QED BY <2>2, <2>3 DEF Starts
<1> QED BY <1>1, <1>2, <1>5 DEF KInv

\* A key goes down, repeats or goes up.
LEMMA KeyStep ==
    ASSUME KInv, NEW k \in Key, Press(k) \/ Repeat(k) \/ Release(k)
    PROVE  KInv'
<1>1. PICK st : Way(st, port, Now, Capital, down, typed, Len(Contents), Promised)
  BY DEF KInv, OnTheWay
<1>0. UNCHANGED <<ring, decoder, getc, code, shifts, dropped>>
  BY DEF Press, Repeat, Release
<1>2. UNCHANGED <<ring, decoder, getc, code, shiftDown, oneLeft, dropped>> /\ Capital' = Capital
  BY <1>0 DEF shifts, Capital
<1>3. Contents' = Contents /\ Promised' = Promised /\ Now' = Now
  BY <1>2, SameRing DEF KInv, RInv, Promised, Now, decoder
<1>4. Contents \in Seq(Code) /\ Len(Contents) \in Nat
  BY ContentsSeq DEF KInv, RInv
<1>5. Typing
  BY DEF KInv
<1>6. CodeOf(k, Capital) \in Code
  BY CodeOfType
<1>7. ASSUME NEW up \in BOOLEAN, port' = port \o Scan(k, up),
             down' = IF up THEN down \ {k} ELSE down \cup {k},
             typed' \in Seq(Code),
             Promised => typed' = IF ~up /\ k \in Mapped /\ (k \notin down \/ k \in Repeatable)
                                  THEN Append(typed, CodeOf(k, Capital)) ELSE typed
      PROVE  KInv'
  <2>1. port \in Seq(Byte) /\ down \in SUBSET Key /\ typed \in Seq(Code) /\ (Promised => Apart)
    BY <1>5 DEF Typing, Promised
  <2>2. \E q : Way(q, port \o Scan(k, up), Now, Capital, down', typed', Len(Contents), Promised)
    BY <1>1, <1>4, <1>7, <2>1, ScanStep
  <2>3. OnTheWay'
    BY <1>2, <1>3, <1>7, <2>2 DEF OnTheWay
  <2>4. port' \in Seq(Byte)
    <3>1. CASE k.ext
      <4> DEFINE s == Append(port, Prefix)
      <4>1. port \o Scan(k, up) = Append(s, LastByte(k, up)) /\ LastByte(k, up) \in Byte /\ s \in Seq(Byte)
        BY <2>1, <3>1, ScanExt
      <4> HIDE DEF s
      <4> QED BY <1>7, <4>1
    <3>2. CASE ~k.ext
      <4>1. port \o Scan(k, up) = Append(port, LastByte(k, up)) /\ LastByte(k, up) \in Byte
        BY <2>1, <3>2, ScanPlain
      <4> QED BY <1>7, <2>1, <4>1
    <3> QED BY <3>1, <3>2
  <2>5. down' \in SUBSET Key
    BY <1>7, <2>1
  <2>6. Typing'
    BY <1>2, <1>5, <1>7, <2>4, <2>5 DEF Typing
  <2>7. Promised => Len(typed) <= Len(typed') /\ \A n \in 1 .. Len(typed) : typed'[n] = typed[n]
    <3> SUFFICES ASSUME Promised
                 PROVE  Len(typed) <= Len(typed') /\ \A n \in 1 .. Len(typed) : typed'[n] = typed[n]
      OBVIOUS
    <3>1. typed' = Append(typed, CodeOf(k, Capital)) \/ typed' = typed
      BY <1>7
    <3> QED BY <1>6, <2>1, <3>1
  <2> QED BY <1>2, <2>3, <2>6, <2>7, UserKeeps
<1>8. CASE Press(k)
  <2>1. k \notin down /\ port' = port \o Scan(k, FALSE) /\ down' = down \cup {k} /\ Owe(k, TRUE)
    BY <1>8 DEF Press, Send
  <2>2. typed' = IF k \in Mapped /\ (TRUE \/ k \in Repeatable) /\ ~dropped
                 THEN Append(typed, CodeOf(k, Capital)) ELSE typed
    BY <2>1 DEF Owe
  <2>3. typed' \in Seq(Code)
    BY <1>5, <1>6, <2>2 DEF Typing
  <2> QED BY <1>7, <2>1, <2>2, <2>3 DEF Promised
<1>9. CASE Repeat(k)
  <2>1. k \in down /\ port' = port \o Scan(k, FALSE) /\ down' = down /\ Owe(k, FALSE)
    BY <1>9 DEF Repeat, Send
  <2>2. typed' = IF k \in Mapped /\ (FALSE \/ k \in Repeatable) /\ ~dropped
                 THEN Append(typed, CodeOf(k, Capital)) ELSE typed
    BY <2>1 DEF Owe
  <2>3. typed' \in Seq(Code) /\ down' = down \cup {k}
    BY <1>5, <1>6, <2>1, <2>2 DEF Typing
  <2> QED BY <1>7, <2>1, <2>2, <2>3 DEF Promised
<1>10. CASE Release(k)
  <2>1. port' = port \o Scan(k, TRUE) /\ down' = down \ {k} /\ typed' = typed
    BY <1>10 DEF Release, Send
  <2> QED BY <1>5, <1>7, <2>1 DEF Typing
<1> QED BY <1>8, <1>9, <1>10

\* The shift key and the mouse.
LEMMA OtherStep ==
    ASSUME KInv, (\E f \in Shifts, up \in BOOLEAN : ShiftKey(f, up)) \/ MouseByte
    PROVE  KInv'
<1>1. PICK st : Way(st, port, Now, Capital, down, typed, Len(Contents), Promised)
  BY DEF KInv, OnTheWay
<1>2. UNCHANGED <<ring, decoder, getc, code, down, typed, dropped>>
  BY DEF ShiftKey, MouseByte
<1>3. Contents' = Contents /\ Promised' = Promised /\ Now' = Now
  BY <1>2, SameRing DEF KInv, RInv, Promised, Now, decoder
<1>4. Contents \in Seq(Code) /\ Len(Contents) \in Nat
  BY ContentsSeq DEF KInv, RInv
<1>5. port \in Seq(Byte) /\ shiftDown \subseteq Shifts /\ oneLeft \in BOOLEAN /\ typed \in Seq(Code) /\ down \in SUBSET Key
      /\ dropped \in BOOLEAN
  BY DEF KInv, Typing
<1>6. ASSUME NEW b \in Byte, port' = port \o <<b>>, shiftDown' \subseteq Shifts, oneLeft' \in BOOLEAN,
             \E q : Way(q, port \o <<b>>, Now, Capital', down, typed, Len(Contents), Promised)
      PROVE  KInv'
  <2>1. OnTheWay'
    BY <1>2, <1>3, <1>6 DEF OnTheWay
  <2>2. Typing'
    BY <1>2, <1>5, <1>6 DEF Typing
  <2>3. Promised => Len(typed) <= Len(typed') /\ \A n \in 1 .. Len(typed) : typed'[n] = typed[n]
    BY <1>2, <1>5
  <2> QED BY <1>2, <2>1, <2>2, <2>3, UserKeeps
<1>7. CASE \E f \in Shifts, up \in BOOLEAN : ShiftKey(f, up)
  <2>1. PICK f \in Shifts, up \in BOOLEAN : ShiftKey(f, up)
    BY <1>7
  <2> DEFINE b == [sc |-> f, up |-> up]
  <2>2. b \in Byte
    BY DEF Byte
  <2>3. /\ b = [sc |-> f, up |-> up] /\ port' = port \o <<b>>
        /\ shiftDown' \subseteq Shifts /\ oneLeft' \in BOOLEAN /\ Capital' = ~up
    BY <1>5, <2>1 DEF ShiftKey, Send, Capital
  <2> HIDE DEF b
  <2>4. \E q : Way(q, port \o <<b>>, Now, ~up, down, typed, Len(Contents), Promised)
    BY <1>1, <1>4, <1>5, <2>3, ShiftStep
  <2> QED BY <1>6, <2>2, <2>3, <2>4
<1>8. CASE MouseByte
  <2> DEFINE b == [sc |-> Aux, up |-> FALSE]
  <2>1. b \in Byte
    BY DEF Byte
  <2>2. b = [sc |-> Aux, up |-> FALSE] /\ port' = port \o <<b>>
        /\ shiftDown' = shiftDown /\ oneLeft' = oneLeft /\ Capital' = Capital
    BY <1>8 DEF MouseByte, Send, shifts, Capital
  <2> HIDE DEF b
  <2>3. \E q : Way(q, port \o <<b>>, Now, Capital, down, typed, Len(Contents), Promised)
    BY <1>1, <1>4, <1>5, <2>2, MouseStep
  <2> QED BY <1>5, <1>6, <2>1, <2>2, <2>3
<1> QED BY <1>7, <1>8

\* One code more of what is owed reaches the ring, or none.
LEMMA StartsAppend ==
    ASSUME NEW q \in Seq(Code), NEW t \in Seq(Code), Starts(q, t), NEW c \in Code,
           Len(q) + 1 <= Len(t), t[Len(q) + 1] = c
    PROVE  Starts(Append(q, c), t)
<1>1. Len(q) \in Nat /\ Len(Append(q, c)) = Len(q) + 1
  OBVIOUS
<1>2. ASSUME NEW n \in 1 .. Len(Append(q, c)) PROVE Append(q, c)[n] = t[n]
  <2>1. CASE n \in 1 .. Len(q)
    BY <2>1 DEF Starts
  <2>2. CASE n = Len(q) + 1
    BY <2>2
  <2> QED BY <1>1, <2>1, <2>2
<1> QED BY <1>1, <1>2 DEF Starts

\* Both lose their first.
LEMMA StartsTail ==
    ASSUME NEW q \in Seq(Code), NEW t \in Seq(Code), Starts(q, t), q # << >>
    PROVE  t # << >> /\ Starts(Tail(q), Tail(t))
<1>1. Len(q) \in Nat /\ Len(t) \in Nat /\ Len(q) >= 1 /\ Len(q) <= Len(t)
  BY DEF Starts
<1>2. t # << >> /\ Len(Tail(q)) = Len(q) - 1 /\ Len(Tail(t)) = Len(t) - 1
  BY <1>1
<1>3. ASSUME NEW n \in 1 .. Len(Tail(q)) PROVE Tail(q)[n] = Tail(t)[n]
  <2>1. n \in 1 .. Len(q) - 1 /\ n \in 1 .. Len(t) - 1 /\ n + 1 \in 1 .. Len(q)
    BY <1>1, <1>2
  <2>2. Tail(q)[n] = q[n + 1] /\ Tail(t)[n] = t[n + 1]
    BY <1>1, <1>2, <2>1
  <2> QED BY <2>1, <2>2 DEF Starts
<1> QED BY <1>1, <1>2, <1>3 DEF Starts

\* The interrupt.
LEMMA IrqKeeps ==
    ASSUME KInv, keyboard_irq
    PROVE  KInv'
<1>1. PICK st : Way(st, port, Now, Capital, down, typed, Len(Contents), Promised)
  BY DEF KInv, OnTheWay
<1> DEFINE b == Head(port)
           kc == CodeOf(KeyOf(Now, b), g_shift)
<1>2. /\ port # << >> /\ port' = Tail(port) /\ ReadByte(b)
      /\ typed' = IF dropped' THEN << >> ELSE typed
      /\ getc' = getc /\ code' = code /\ down' = down
      /\ shiftDown' = shiftDown /\ oneLeft' = oneLeft /\ Capital' = Capital
  BY DEF keyboard_irq, shifts, Capital
<1>3. /\ Now' = Decoded(Now, b)
      /\ Emits(Now, b) => put_key(kc)
      /\ ~Emits(Now, b) => UNCHANGED <<ring, dropped>>
  BY <1>2, DecodeStep
<1>4. Typing /\ RInv /\ RingOK /\ Loaded
  BY DEF KInv, RInv
<1>5. Contents \in Seq(Code) /\ Len(Contents) \in Nat
  BY <1>4, ContentsSeq
<1>6. port \in Seq(Byte) /\ typed \in Seq(Code)
  BY <1>4 DEF Typing
<1>7. RInv'
  BY <1>4, IrqStep
<1>8. Now.shift = g_shift
  BY DEF Now
<1>9. /\ \E q : Way(q, Tail(port), Decoded(Now, b), Capital, down, typed,
                    IF Emits(Now, b) THEN Len(Contents) + 1 ELSE Len(Contents), Promised)
      /\ Promised /\ Emits(Now, b) => /\ Len(Contents) + 1 <= Len(typed)
                                      /\ typed[Len(Contents) + 1] = kc
  <2> HIDE DEF Contents, Now
  <2> QED BY <1>1, <1>2, <1>5, <1>6, <1>8, ReadStep
<1> HIDE DEF b, kc, Contents, Now
<1>10. CASE ~Emits(Now, b)
  <2>1. UNCHANGED <<ring, dropped>>
    BY <1>3, <1>10
  <2>2. Contents' = Contents /\ Promised' = Promised
    BY <1>4, <2>1, SameRing DEF Promised
  <2>3. Typing'
    BY <1>2, <1>4, <1>6, <2>1 DEF Typing
  <2>4. Loaded'
    BY <1>2, <1>4, <2>1 DEF Loaded, ring
  <2>5. Promised => typed' = typed
    BY <1>2, <2>1 DEF Promised
  <2>6. PICK q : Way(q, port', Now', Capital', down', typed, Len(Contents'), Promised')
    BY <1>2, <1>3, <1>9, <1>10, <2>2
  <2>7. Way(q, port', Now', Capital', down', typed', Len(Contents'), Promised')
    BY <2>2, <2>5, <2>6 DEF Way
  <2>8. Promised' => Starts(Contents', typed')
    BY <2>2, <2>5 DEF KInv
  <2> QED BY <1>7, <2>3, <2>4, <2>7, <2>8 DEF KInv, OnTheWay
<1>11. CASE Emits(Now, b) /\ Inc(g_tail) # g_head
  <2>1. kc \in Code
    BY <1>11, KeyboardSizes, CodeOfType DEF Emits, kc
  <2>2. /\ g_buf' = [g_buf EXCEPT ![g_tail] = kc] /\ g_tail' = Inc(g_tail) /\ g_head' = g_head
        /\ dropped' = dropped
    BY <1>3, <1>11 DEF put_key
  <2>3. Contents' = Append(Contents, kc)
    BY <1>4, <1>11, <2>1, <2>2, PutAppends
  <2>4. Typing'
    BY <1>2, <1>4, <1>6, <2>2 DEF Typing
  <2>5. Loaded'
    <3>1. ASSUME getc = "read" PROVE g_buf'[g_head'] = g_buf[g_head]
      BY <1>4, <2>2, <3>1 DEF RInv, RingOK
    <3> QED BY <1>2, <1>4, <3>1 DEF Loaded
  <2>6. Promised' = Promised /\ (Promised => typed' = typed)
    BY <1>2, <2>2 DEF Promised
  <2>7. Len(Contents') = Len(Contents) + 1
    BY <1>5, <2>1, <2>3
  <2>8. PICK q : Way(q, port', Now', Capital', down', typed, Len(Contents'), Promised')
    BY <1>2, <1>3, <1>9, <1>11, <2>6, <2>7
  <2>9. Way(q, port', Now', Capital', down', typed', Len(Contents'), Promised')
    BY <2>6, <2>8 DEF Way
  <2>10. Promised' => Starts(Contents', typed')
    <3> SUFFICES ASSUME Promised PROVE Starts(Append(Contents, kc), typed)
      BY <2>3, <2>6
    <3>1. Starts(Contents, typed)
      BY DEF KInv
    <3> QED BY <1>5, <1>6, <1>9, <1>11, <2>1, <3>1, StartsAppend
  <2> QED BY <1>7, <2>4, <2>5, <2>9, <2>10 DEF KInv, OnTheWay
<1>12. CASE Emits(Now, b) /\ Inc(g_tail) = g_head
  <2>1. dropped' = TRUE /\ UNCHANGED ring
    BY <1>3, <1>12 DEF put_key, ring
  <2>2. typed' = << >> /\ ~Promised'
    BY <1>2, <2>1 DEF Promised
  <2>3. Typing'
    BY <1>2, <1>4, <1>6, <2>1, <2>2 DEF Typing
  <2>4. Loaded'
    BY <1>2, <1>4, <2>1 DEF Loaded, ring
  <2>5. PICK q : Way(q, Tail(port), Decoded(Now, b), Capital, down, typed,
                    IF Emits(Now, b) THEN Len(Contents) + 1 ELSE Len(Contents), Promised)
    BY <1>9
  <2>6. Way(q, port', Now', Capital', down', typed', Len(Contents'), Promised')
    BY <1>2, <1>3, <2>2, <2>5 DEF Way
  <2> QED BY <1>7, <2>2, <2>3, <2>4, <2>6 DEF KInv, OnTheWay
<1> QED BY <1>10, <1>11, <1>12

\* The reader's second step.
LEMMA AdvanceKeeps ==
    ASSUME KInv, GetcAdvance
    PROVE  KInv'
<1>1. PICK st : Way(st, port, Now, Capital, down, typed, Len(Contents), Promised)
  BY DEF KInv, OnTheWay
<1>2. /\ getc = "read" /\ g_head' = Inc(g_head) /\ getc' = "idle" /\ code' = NoCode
      /\ typed' = IF typed = << >> THEN typed ELSE Tail(typed)
      /\ g_buf' = g_buf /\ g_tail' = g_tail /\ dropped' = dropped
      /\ port' = port /\ down' = down
      /\ shiftDown' = shiftDown /\ oneLeft' = oneLeft /\ Capital' = Capital
      /\ g_shift' = g_shift /\ g_extended' = g_extended /\ g_pressed' = g_pressed
  BY DEF GetcAdvance, decoder, device, shifts, Capital
<1>3. Typing /\ RInv /\ RingOK /\ g_head # g_tail
  BY <1>2 DEF KInv, RInv
<1>4. RingOK' /\ Contents # << >> /\ Contents' = Tail(Contents)
  BY <1>2, <1>3, AdvanceTails
<1>5. Contents \in Seq(Code) /\ port \in Seq(Byte) /\ typed \in Seq(Code)
  BY <1>3, ContentsSeq DEF Typing
<1>6. Now' = Now /\ Promised' = Promised
  BY <1>2 DEF Now, Promised
<1> HIDE DEF Contents, Now
<1>7. Len(Contents) \in Nat /\ Len(Contents) >= 1 /\ Len(Contents') = Len(Contents) - 1
  BY <1>4, <1>5
<1>8. /\ Way(st, port, Now, Capital, down, typed', Len(Contents) - 1, Promised)
      /\ (Promised => typed # << >>)
  BY <1>1, <1>2, <1>5, <1>7, TakeStep
<1>9. Way(st, port', Now', Capital', down', typed', Len(Contents'), Promised')
  BY <1>2, <1>6, <1>7, <1>8
<1>10. RInv' /\ Loaded'
  BY <1>2, <1>3, <1>4 DEF RInv, Loaded
<1>11. Typing'
  BY <1>2, <1>3, <1>5 DEF Typing
<1>12. Promised' => Starts(Contents', typed')
  <2> SUFFICES ASSUME Promised PROVE Starts(Tail(Contents), Tail(typed))
    BY <1>2, <1>4, <1>6, <1>8
  <2>1. Starts(Contents, typed)
    BY DEF KInv
  <2> QED BY <1>4, <1>5, <2>1, StartsTail
<1> QED BY <1>9, <1>10, <1>11, <1>12 DEF KInv, OnTheWay

\* Every step keeps the invariant.
LEMMA KInvStep ==
    ASSUME KInv, [Next]_vars
    PROVE  KInv'
<1>1. CASE keyboard_irq
  BY <1>1, IrqKeeps
<1>2. CASE GetcAdvance
  BY <1>2, AdvanceKeeps
<1>3. ASSUME UNCHANGED <<ring, decoder, device, typed, dropped>>, Loaded', RInv'
      PROVE  KInv'
  <2>1. Contents' = Contents
    BY <1>3, SameRing DEF KInv, RInv
  <2>2. Typing' /\ Promised' = Promised /\ Now' = Now
    BY <1>3 DEF KInv, Typing, Promised, Now, decoder, device, shifts
  <2>3. OnTheWay'
    BY <1>3, <2>1, <2>2 DEF KInv, OnTheWay, device, shifts, Capital
  <2> QED BY <1>3, <2>1, <2>2, <2>3 DEF KInv
<1>4. RInv'
  BY NextStep DEF KInv
<1>5. CASE GetcLoad
  <2>1. Loaded' /\ UNCHANGED <<ring, decoder, device, typed, dropped>>
    BY <1>5 DEF GetcLoad, Loaded, ring
  <2> QED BY <1>3, <1>4, <2>1
<1>6. CASE User
  <2>1. (\E k \in Key : Press(k) \/ Repeat(k) \/ Release(k))
        \/ (\E f \in Shifts, up \in BOOLEAN : ShiftKey(f, up)) \/ MouseByte
    BY <1>6 DEF User
  <2> QED BY <2>1, KeyStep, OtherStep
<1>7. CASE UNCHANGED vars
  <2>1. Loaded' /\ UNCHANGED <<ring, decoder, device, typed, dropped>>
    BY <1>7 DEF vars, KInv, Loaded, ring, decoder, device, shifts
  <2> QED BY <1>3, <1>4, <2>1
<1> QED BY <1>1, <1>2, <1>5, <1>6, <1>7 DEF Next

\* The invariant holds in every reachable state.
LEMMA KInvAlways == Spec => []KInv
<1>1. Init => KInv
  BY InitKInv
<1>2. KInv /\ [Next]_vars => KInv'
  BY KInvStep
<1> QED BY <1>1, <1>2, PTL DEF Spec

\* Whatever the user types, also with keys that share a scancode, the decoder,
\* the ring and the reader keep their types: in particular no break of a key
\* and no prefix byte ever makes g_pressed hold a scancode of no key, and the
\* reader never takes an empty slot for a code.
THEOREM KeyboardTypes == Spec => []TypeOK
<1>1. KInv => TypeOK
  BY KInvTypes
<1> QED BY <1>1, KInvAlways, PTL

\* With every key on its own scancode and until the ring overflows, what the
\* user typed reaches the reader in order, in the case the shift keys give it,
\* once: for every ring size, every set of keys and any number of bytes waiting
\* in the controller, interrupts between the reader's two steps included.
\* Letting go of one of two held shift keys gives lower case (Capital), because
\* keyboard_irq keeps one flag for both.  Keys that
\* share a scancode (an arrow and the keypad) shadow each other in g_pressed,
\* hence the hypothesis.
THEOREM TypedIsRead ==
    ASSUME Plain \cap Ext = {}
    PROVE  Spec => []NothingLostOrDoubled
<1>1. KInv => NothingLostOrDoubled
  <2>1. Apart
    BY DEF Apart
  <2> QED BY <2>1, KInvOrder
<1> QED BY <1>1, KInvAlways, PTL
=============================================================================
