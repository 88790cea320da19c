------------------------------ MODULE Keyboard ------------------------------
(***************************************************************************)
(* The keyboard, drivers/keyboard.c: keyboard_irq decodes the scancode     *)
(* bytes the controller delivers and puts key codes into a ring buffer;    *)
(* keyboard_getc, called by the shell with interrupts enabled, takes them  *)
(* out and can be interrupted half way.  The keyboard itself (keys going   *)
(* down, repeating and up, the bytes queued in the controller) is the      *)
(* environment.                                                            *)
(***************************************************************************)
EXTENDS Integers, Sequences

CONSTANTS
    BufSize,      \* KEYBUF_SIZE
    Plain,        \* scancodes of keys announced by one byte
    Ext,          \* scancodes of keys announced by 0xE0 first (arrows, Home, ...)
    Mapped,       \* keys with an entry in g_map / g_ext_map
    Repeatable,   \* keys that is_repeatable_[ext_]scancode accepts
    Shifts,       \* scancodes of the two shift keys
    E0,           \* the prefix byte
    Aux,          \* stands for a byte whose status says PS2_AUX_DATA (mouse)
    MaxPort,      \* bound: bytes waiting in the controller
    MaxTyped      \* bound: key codes typed and not yet read

Scancode == Plain \cup Ext

\* A key is a scancode with or without the 0xE0 prefix.
Key == [ext : {FALSE}, sc : Plain] \cup [ext : {TRUE}, sc : Ext]

ASSUME KeyboardSizes ==
    /\ BufSize \in Nat /\ BufSize > 1
    /\ (Shifts \cup {E0, Aux}) \cap Scancode = {} /\ E0 # Aux /\ {E0, Aux} \cap Shifts = {}
    /\ Mapped \subseteq Key /\ Repeatable \subseteq Key
    /\ MaxPort \in Nat /\ MaxTyped \in Nat

\* What put_key is given: a character of g_map or g_map_shift, or a KEY_ code.
Code == [key : Key, shift : BOOLEAN]

\* The code of a key; g_ext_map ignores the shift state.
CodeOf(k, shift) == [key |-> k, shift |-> shift /\ ~k.ext]

Byte == [sc : Scancode \cup Shifts \cup {E0, Aux}, up : BOOLEAN]

VARIABLES
    g_buf, g_head, g_tail,     \* the ring
    g_shift, g_extended,       \* decoder state
    g_pressed,                 \* scancodes whose make was seen and whose break was not
    getc,                      \* "idle", or "read": g_buf[g_head] is loaded and
    code,                      \*   g_head not yet advanced; the value loaded
    port,                      \* environment: bytes waiting in the controller
    down, shiftDown,           \* environment: keys and shift keys physically held
    oneLeft,                   \* environment: the last shift key to move was let go
                               \*   while the other one was held
    typed,                     \* history: codes owed to the reader, in order
    dropped                    \* history: put_key found the ring full

vars == <<g_buf, g_head, g_tail, g_shift, g_extended, g_pressed, getc, code,
          port, down, shiftDown, oneLeft, typed, dropped>>
ring == <<g_buf, g_head, g_tail>>
decoder == <<g_shift, g_extended, g_pressed>>
shifts == <<shiftDown, oneLeft>>
device == <<port, down, shifts>>

NoCode == <<>>

Init ==
    /\ g_buf = [i \in 0 .. BufSize - 1 |-> NoCode]
    /\ g_head = 0 /\ g_tail = 0
    /\ g_shift = FALSE /\ g_extended = FALSE /\ g_pressed = {}
    /\ getc = "idle" /\ code = NoCode
    /\ port = << >> /\ down = {} /\ shiftDown = {} /\ oneLeft = FALSE
    /\ typed = << >> /\ dropped = FALSE

-----------------------------------------------------------------------------
(* The ring buffer.                                                        *)

\* Mutant: the index is not reduced.
IncNoWrap(i) == i + 1

\* (i + 1) % KEYBUF_SIZE
Inc(i) == IF i = BufSize - 1 THEN 0 ELSE i + 1

Count == IF g_tail >= g_head THEN g_tail - g_head ELSE g_tail - g_head + BufSize

At(n) == g_buf[IF g_head + n - 1 < BufSize THEN g_head + n - 1
               ELSE g_head + n - 1 - BufSize]

\* The codes in the ring, oldest first.
Contents == [n \in 1 .. Count |-> At(n)]

\* Mutant: the full test is missing, so the tail runs over the head.
PutKeyUnchecked(c) ==
    /\ g_buf' = [g_buf EXCEPT ![g_tail] = c]
    /\ g_tail' = Inc(g_tail)
    /\ UNCHANGED <<g_head, dropped>>

put_key(c) ==
    /\ IF Inc(g_tail) # g_head
       THEN /\ g_buf' = [g_buf EXCEPT ![g_tail] = c]
            /\ g_tail' = Inc(g_tail)
            /\ UNCHANGED dropped
       ELSE dropped' = TRUE /\ UNCHANGED <<g_buf, g_tail>>
    /\ UNCHANGED g_head

-----------------------------------------------------------------------------
(* keyboard_irq: one byte, with interrupts disabled.                       *)

\* Mutant: typematic repeats of any key are accepted.
AcceptMakeAlways(k) == TRUE

\* A make of a key that is already down is a repeat; only some keys repeat.
\* g_pressed is indexed by the scancode alone, with or without 0xE0.
AcceptMake(k) == k.sc \notin g_pressed \/ k \in Repeatable

\* The make or break of a key, after the prefix and the shift keys were
\* filtered out.
KeyByte(k, up) ==
    /\ UNCHANGED g_shift
    /\ g_extended' = FALSE
    /\ \/ /\ up
          /\ g_pressed' = g_pressed \ {k.sc}
          /\ UNCHANGED <<ring, dropped>>
       \/ /\ ~up
          /\ g_pressed' = g_pressed \cup {k.sc}
          /\ IF AcceptMake(k) /\ k \in Mapped
             THEN put_key(CodeOf(k, g_shift))
             ELSE UNCHANGED <<ring, dropped>>

ReadByte(byte) ==
    \/ /\ byte.sc = Aux                     \* a mouse byte, discarded
       /\ UNCHANGED <<ring, decoder, dropped>>
    \/ /\ byte.sc = E0
       /\ g_extended' = TRUE
       /\ UNCHANGED <<ring, g_shift, g_pressed, dropped>>
    \/ /\ ~g_extended /\ byte.sc \in Shifts
       /\ g_shift' = ~byte.up
       /\ UNCHANGED <<ring, g_extended, g_pressed, dropped>>
    \/ /\ byte.sc \notin {Aux, E0}
       /\ g_extended \/ byte.sc \notin Shifts
       /\ KeyByte([ext |-> g_extended, sc |-> byte.sc], byte.up)

keyboard_irq ==
    /\ port # << >>
    /\ port' = Tail(port)
    /\ ReadByte(Head(port))
    /\ typed' = IF dropped' THEN << >> ELSE typed
    /\ UNCHANGED <<getc, code, down, shifts>>

-----------------------------------------------------------------------------
(* keyboard_getc, interruptible between the load and the advance.          *)

GetcLoad ==
    /\ getc = "idle"
    /\ g_head # g_tail
    /\ code' = g_buf[g_head]
    /\ getc' = "read"
    /\ UNCHANGED <<ring, decoder, device, typed, dropped>>

GetcAdvance ==
    /\ getc = "read"
    /\ g_head' = Inc(g_head)
    /\ getc' = "idle"
    /\ code' = NoCode
    /\ typed' = IF typed = << >> THEN typed ELSE Tail(typed)
    /\ UNCHANGED <<g_buf, g_tail, decoder, device, dropped>>

-----------------------------------------------------------------------------
(* The environment: a user at a keyboard, and the controller.              *)

Scan(k, up) ==
    (IF k.ext THEN <<[sc |-> E0, up |-> FALSE]>> ELSE << >>) \o <<[sc |-> k.sc, up |-> up]>>

Send(bytes) ==
    /\ Len(port) + Len(bytes) <= MaxPort
    /\ port' = port \o bytes

\* Whether a key gives its shifted character: a shift key is held, and not only
\* because one of two that were held is left (both share g_shift, and letting
\* go of either clears it).
Capital == shiftDown # {} /\ ~oneLeft

\* The reader is owed one code for every make of a mapped key that is fresh or
\* may repeat.  Once the ring has overflowed nothing is promised any more.
Owe(k, fresh) ==
    /\ Len(typed) < MaxTyped
    /\ typed' = IF k \in Mapped /\ (fresh \/ k \in Repeatable) /\ ~dropped
                THEN Append(typed, CodeOf(k, Capital))
                ELSE typed

Press(k) ==
    /\ k \notin down
    /\ Send(Scan(k, FALSE))
    /\ down' = down \cup {k}
    /\ Owe(k, TRUE)
    /\ UNCHANGED <<ring, decoder, getc, code, shifts, dropped>>

\* A held key repeats its make bytes.
Repeat(k) ==
    /\ k \in down
    /\ Send(Scan(k, FALSE))
    /\ Owe(k, FALSE)
    /\ UNCHANGED <<ring, decoder, getc, code, down, shifts, dropped>>

Release(k) ==
    /\ k \in down
    /\ Send(Scan(k, TRUE))
    /\ down' = down \ {k}
    /\ UNCHANGED <<ring, decoder, getc, code, shifts, typed, dropped>>

\* A shift key goes down, repeats its make byte while held, or goes up.
ShiftKey(s, up) ==
    /\ up => s \in shiftDown
    /\ Send(<<[sc |-> s, up |-> up]>>)
    /\ shiftDown' = IF up THEN shiftDown \ {s} ELSE shiftDown \cup {s}
    /\ oneLeft' = (up /\ shiftDown' # {})
    /\ UNCHANGED <<ring, decoder, getc, code, down, typed, dropped>>

\* A mouse byte that arrives while the keyboard line is raised.
MouseByte ==
    /\ Send(<<[sc |-> Aux, up |-> FALSE]>>)
    /\ UNCHANGED <<ring, decoder, getc, code, down, shifts, typed, dropped>>

User ==
    \/ \E k \in Key : Press(k) \/ Repeat(k) \/ Release(k)
    \/ \E s \in Shifts, up \in BOOLEAN : ShiftKey(s, up)
    \/ MouseByte

Next == keyboard_irq \/ GetcLoad \/ GetcAdvance \/ User

Spec == Init /\ [][Next]_vars

-----------------------------------------------------------------------------
TypeOK ==
    /\ g_buf \in [0 .. BufSize - 1 -> Code \cup {NoCode}]
    /\ g_head \in 0 .. BufSize - 1 /\ g_tail \in 0 .. BufSize - 1
    /\ g_shift \in BOOLEAN /\ g_extended \in BOOLEAN /\ g_pressed \subseteq Scancode
    /\ getc \in {"idle", "read"} /\ code \in Code \cup {NoCode}
    /\ port \in Seq(Byte)
    /\ down \subseteq Key /\ shiftDown \subseteq Shifts /\ oneLeft \in BOOLEAN
    /\ typed \in Seq(Code) /\ dropped \in BOOLEAN

\* keyboard.c:102 says that reading the port from one place only cured lost and
\* duplicated characters.  Until the ring overflows, what it holds is the first
\* part of what the user typed, in order, and the code a reader has loaded is
\* the oldest one owed to it.  Every character is in the right case, that of the
\* shift keys held when it was typed, with one exception: when one of two held
\* shift keys is let go, what follows is lower case until a shift key goes down
\* or repeats (keyboard.c:86-87), although the other is still held.
NothingLostOrDoubled ==
    ~dropped =>
        /\ Count <= Len(typed)
        /\ Contents = SubSeq(typed, 1, Count)
        /\ port = << >> => Count = Len(typed)
        /\ getc = "read" => typed # << >> /\ code = Head(typed)

\* The interrupt and the interrupted reader together behave like one bounded
\* queue: BufSize - 1 codes, first in, first out.
Fifo == INSTANCE BoundedFifo WITH Value <- Code, Capacity <- BufSize - 1, q <- Contents

RefinesFifo == Fifo!Spec
=============================================================================
