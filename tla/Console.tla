------------------------------ MODULE Console ------------------------------
(***************************************************************************)
(* The text console: the shell's line editor and history (kernel/shell.c), *)
(* the screen they and the programs draw on (drivers/gpu.c) and the escape *)
(* sequence parser between a program's SYS_WRITE and the screen            *)
(* (kernel/term.c).                                                        *)
(*                                                                         *)
(* The editor redraws the whole line after every key and counts on the     *)
(* cursor being on the line's row; a program leaves the cursor anywhere.   *)
(* Colours are left out, and Ctrl+C, a code no key of keyboard.c gives.    *)
(* What a command prints is any member of Outputs; the fixed messages the  *)
(* kernel prints when a program starts and exits are left out, since a     *)
(* program may print anything.                                             *)
(***************************************************************************)
EXTENDS Integers, Sequences, SequencesExt

CONSTANTS
    Rows, Cols,   \* the screen
    Prompt,       \* what shell_print_prompt prints
    Letters,      \* printable characters
    LineMax,      \* SHELL_LINE_MAX
    HistMax,      \* HIST_MAX
    Outputs,      \* what built-in commands print: sequences of characters
    MaxParams,    \* parameters of an escape sequence: params[16]
    Digits,       \* the digits programs write: a function from bytes to values
    MaxParam,     \* bound: value of a parameter
    MaxBytes,     \* bound: bytes a program writes
    MaxRuns,      \* bound: programs run
    MaxLines      \* bound: lines in the history

Controls == {"nl", "cr", "bs", "ff"}   \* characters gpu_putc does not draw

ASSUME ConsoleSizes ==
    /\ {Rows, Cols, LineMax, HistMax, MaxParams} \subseteq Nat \ {0}
    /\ {MaxParam, MaxBytes, MaxRuns, MaxLines} \subseteq Nat
    /\ Prompt \in Seq(Range(Prompt) \ Controls) /\ Cols > Len(Prompt) + 1
    /\ Letters \cap Controls = {} /\ \A o \in Outputs : o \in Seq(Range(o))
    /\ \A d \in DOMAIN Digits : Digits[d] \in 0 .. 9

Blank == "blank"
Cell == (0 .. Rows - 1) \X (0 .. Cols - 1)
Lines == UNION {[1 .. n -> Letters] : n \in 0 .. LineMax - 1}

VARIABLES
    screen,     \* [cell, row, col]: video memory, g_row, g_col
    term,       \* g_default_ctx
    buf, cpos,  \* readline's buffer and cursor; pos is the buffer's length
    ring,       \* g_history
    count,      \* g_hist_count
    idx,        \* g_hist_idx
    left,       \* bytes the running program may still write, -1 when none runs
    runs,       \* programs run so far
    drawn,      \* history: the line has been redrawn since the prompt
    entered     \* history: the lines entered, less immediate repetitions

editor == <<buf, cpos, ring, count, idx, entered>>
vars == <<screen, term, editor, left, runs, drawn>>

-----------------------------------------------------------------------------
\* drivers/gpu.c, each operation from a screen to a screen
Cleared == [cell |-> [x \in Cell |-> Blank], row |-> 0, col |-> 0]

console_scroll(g) ==
    [g EXCEPT !.cell = [x \in Cell |-> IF x[1] = Rows - 1 THEN Blank ELSE g.cell[<<x[1] + 1, x[2]>>]],
              !.row = Rows - 1]

NewLine(g) == [g EXCEPT !.row = @ + 1, !.col = 0]
Draw(g, c) ==
    LET n == [g EXCEPT !.cell[<<g.row, g.col>>] = c, !.col = @ + 1]
    IN IF n.col >= Cols THEN NewLine(n) ELSE n

gpu_putc(g, c) ==
    LET n == CASE c = "nl" -> NewLine(g)
               [] c = "cr" -> [g EXCEPT !.col = 0]
               [] c = "bs" -> [g EXCEPT !.col = IF @ > 0 THEN @ - 1 ELSE 0]
               [] c = "ff" -> Cleared
               [] OTHER    -> Draw(g, c)
    IN IF n.row >= Rows THEN console_scroll(n) ELSE n

gpu_print(g, s) ==
    LET Printed[k \in 0 .. Len(s)] == IF k = 0 THEN g ELSE gpu_putc(Printed[k - 1], s[k])
    IN Printed[Len(s)]

Least(a, b) == IF a < b THEN a ELSE b

\* Mutant: the row is taken as it is
SetCursorAnywhere(g, r, c) == [g EXCEPT !.row = r, !.col = Least(c, Cols - 1)]

gpu_set_cursor(g, r, c) == [g EXCEPT !.row = Least(r, Rows - 1), !.col = Least(c, Cols - 1)]

Erase(g, S) == [g EXCEPT !.cell = [x \in Cell |-> IF x \in S THEN Blank ELSE @[x]]]
ErasedInLine(g, mode) ==
    {x \in Cell : x[1] = g.row /\ (mode = 0 => x[2] >= g.col) /\ (mode = 1 => x[2] <= g.col)}
gpu_erase_line(g, mode) == Erase(g, ErasedInLine(g, mode))
gpu_erase_display(g, mode) ==
    Erase(g, ErasedInLine(g, mode) \cup
             {x \in Cell : IF mode = 0 THEN x[1] > g.row ELSE mode = 1 => x[1] < g.row})

-----------------------------------------------------------------------------
\* kernel/term.c
TermInit == [st |-> "ground", params |-> [i \in 1 .. MaxParams |-> 0], n |-> 0,
             active |-> FALSE, row |-> 0, col |-> 0]

params_reset(t) == [t EXCEPT !.params = TermInit.params, !.n = 0, !.active = FALSE]

param_digit(t, d) ==
    LET n == IF t.n = 0 THEN 1 ELSE t.n
        old == IF t.n = 0 \/ ~t.active THEN 0 ELSE t.params[n]
    IN [t EXCEPT !.n = n, !.active = TRUE, !.params[n] = old * 10 + d]

param_sep(t) ==
    IF t.n < MaxParams
    THEN [t EXCEPT !.n = @ + 1, !.active = FALSE, !.params[t.n + 1] = 0]
    ELSE t

\* csi_dispatch: the screen after the final byte b
Moved(g, t, b) ==
    LET p(i) == IF t.n >= i THEN t.params[i] ELSE 0
        n0 == IF p(1) > 0 THEN p(1) ELSE 1
        Less(a, k) == IF a >= k THEN a - k ELSE 0
    IN CASE b = "A" -> gpu_set_cursor(g, Less(g.row, n0), g.col)
         [] b = "B" -> gpu_set_cursor(g, g.row + n0, g.col)
         [] b = "C" -> gpu_set_cursor(g, g.row, g.col + n0)
         [] b = "D" -> gpu_set_cursor(g, g.row, Less(g.col, n0))
         [] b = "H" -> gpu_set_cursor(g, Less(p(1), 1), Less(p(2), 1))
         [] b = "J" -> gpu_erase_display(g, p(1))
         [] b = "K" -> gpu_erase_line(g, p(1))
         [] b = "u" -> gpu_set_cursor(g, t.row, t.col)
         [] OTHER   -> g

Finals == {"A", "B", "C", "D", "H", "J", "K", "m", "s", "u"}
SavedBy(t, b) ==
    LET s == IF b = "s" THEN [t EXCEPT !.row = screen.row, !.col = screen.col] ELSE t
    IN [s EXCEPT !.st = "ground"]

\* term_ctx_putc, one action for each state; bytes that a state treats alike
\* are represented by one of them
Ground(b) ==
    /\ term.st = "ground"
    /\ b \in {"esc"} \cup Controls \cup Letters
    /\ IF b = "esc" THEN term' = [term EXCEPT !.st = "escape"] /\ UNCHANGED screen
                    ELSE screen' = gpu_putc(screen, b) /\ UNCHANGED term

Escape(b) ==
    /\ term.st = "escape" /\ b \in {"[", "]", "esc"}
    /\ term' = CASE b = "[" -> [params_reset(term) EXCEPT !.st = "csi"]
                 [] b = "]" -> [term EXCEPT !.st = "osc"]
                 [] OTHER   -> [term EXCEPT !.st = "ground"]
    /\ UNCHANGED screen

CsiParam(b) ==
    /\ term.st = "csi" /\ b \in {";", "esc"} \cup DOMAIN Digits
    /\ term' = CASE b = ";"   -> param_sep(term)
                 [] b = "esc" -> term
                 [] OTHER     -> param_digit(term, Digits[b])
    /\ \A i \in 1 .. MaxParams : term'.params[i] <= MaxParam
    /\ UNCHANGED screen

CsiFinal(b) ==
    /\ term.st = "csi" /\ b \in Finals
    /\ screen' = Moved(screen, term, b) /\ term' = SavedBy(term, b)

Osc(b) ==
    /\ term.st = "osc" /\ b \in {"bel", "esc"} \cup Letters
    /\ term' = [term EXCEPT !.st = IF b \in {"bel", "esc"} THEN "ground" ELSE @]
    /\ UNCHANGED screen

Bytes == {"esc", "[", "]", ";", "bel"} \cup Controls \cup Letters \cup DOMAIN Digits \cup Finals

SysWrite ==
    /\ left > 0 /\ left' = left - 1
    /\ \E b \in Bytes : Ground(b) \/ Escape(b) \/ CsiParam(b) \/ CsiFinal(b) \/ Osc(b)
    /\ UNCHANGED <<editor, runs, drawn>>

-----------------------------------------------------------------------------
\* kernel/shell.c: the editor
Reading == left = -1

Blanks(n) == [i \in 1 .. (IF n > 0 THEN n ELSE 0) |-> Blank]

\* Mutant: the rest of the row is not cleared
RedrawKeepsRest(g, line, k) ==
    gpu_print(g, <<"cr">> \o Prompt \o line \o <<"cr">> \o Prompt \o SubSeq(line, 1, k))

shell_redraw_line(g, line, k) ==
    LET pad == Cols - 1 - Len(Prompt) - Len(line)
    IN gpu_print(g, <<"cr">> \o Prompt \o line \o Blanks(pad)
                    \o <<"cr">> \o Prompt \o SubSeq(line, 1, k))

\* the line becomes s with the cursor after k characters, and is redrawn
Edit(s, k) ==
    /\ buf' = s /\ cpos' = k
    /\ screen' = shell_redraw_line(screen, s, k) /\ drawn' = TRUE
    /\ UNCHANGED <<term, ring, count, left, runs, entered>>

shell_insert_char ==
    /\ Reading /\ Len(buf) < LineMax - 1
    /\ \E c \in Letters : Edit(InsertAt(buf, cpos + 1, c), cpos + 1)
    /\ UNCHANGED idx

shell_backspace_char ==
    /\ Reading /\ cpos > 0
    /\ Edit(RemoveAt(buf, cpos), cpos - 1)
    /\ UNCHANGED idx

shell_delete_char ==
    /\ Reading
    /\ Edit(IF cpos < Len(buf) THEN RemoveAt(buf, cpos + 1) ELSE buf, cpos)
    /\ UNCHANGED idx

\* left, right, home and end
CursorKey ==
    /\ Reading
    /\ \E k \in ({cpos - 1, cpos + 1} \cap (0 .. Len(buf))) \cup {0, Len(buf)} : Edit(buf, k)
    /\ UNCHANGED idx

history_get(i) == IF i < 0 \/ i >= count THEN << >> ELSE ring[i % HistMax]

UpDown ==
    /\ Reading
    /\ idx' \in {idx - 1, idx + 1} \cap (0 .. count)
    /\ LET h == history_get(idx') IN Edit(h, Len(h))

\* Mutant: the repetition test looks at the oldest line
HistoryAddOldest(line) ==
    IF count > 0 /\ ring[count % HistMax] = line
    THEN UNCHANGED <<ring, count, idx>>
    ELSE /\ ring' = [ring EXCEPT ![count % HistMax] = line]
         /\ count' = count + 1 /\ idx' = count + 1

history_add(line) ==
    IF count > 0 /\ ring[(count - 1) % HistMax] = line
    THEN UNCHANGED <<ring, count, idx>>
    ELSE /\ ring' = [ring EXCEPT ![count % HistMax] = line]
         /\ count' = count + 1 /\ idx' = count + 1

Remember(line) ==
    entered' = IF entered # << >> /\ Last(entered) = line THEN entered ELSE Append(entered, line)

PromptAfter(g) ==
    /\ screen' = gpu_print(g, Prompt) /\ drawn' = FALSE
    /\ buf' = << >> /\ cpos' = 0

\* Enter on an empty line
EmptyLine ==
    /\ Reading /\ buf = << >>
    /\ PromptAfter(gpu_putc(screen, "nl"))
    /\ UNCHANGED <<term, ring, count, idx, entered, left, runs>>

\* Enter: shell_dispatch_line runs a command and the next prompt is printed
shell_dispatch_line ==
    /\ Reading /\ buf # << >> /\ count < MaxLines
    /\ history_add(buf) /\ Remember(buf)
    /\ \E o \in Outputs : PromptAfter(gpu_print(gpu_putc(screen, "nl"), o))
    /\ UNCHANGED <<term, left, runs>>

\* Enter: the command is "run"
RunProgram ==
    /\ Reading /\ buf # << >> /\ count < MaxLines /\ runs < MaxRuns
    /\ history_add(buf) /\ Remember(buf)
    /\ screen' = gpu_putc(screen, "nl")
    /\ left' = MaxBytes /\ runs' = runs + 1
    /\ UNCHANGED <<term, buf, cpos, drawn>>

ProgramEnds ==
    /\ left >= 0 /\ left' = -1
    /\ PromptAfter(screen)
    /\ UNCHANGED <<term, ring, count, idx, entered, runs>>

Init ==
    /\ screen = gpu_print(Cleared, Prompt) /\ term = TermInit
    /\ buf = << >> /\ cpos = 0 /\ drawn = FALSE
    /\ ring = [i \in 0 .. HistMax - 1 |-> << >>] /\ count = 0 /\ idx = 0 /\ entered = << >>
    /\ left = -1 /\ runs = 0

Next ==
    \/ shell_insert_char \/ shell_backspace_char \/ shell_delete_char \/ CursorKey \/ UpDown
    \/ EmptyLine \/ shell_dispatch_line \/ RunProgram \/ SysWrite \/ ProgramEnds

Spec == Init /\ [][Next]_vars

-----------------------------------------------------------------------------
(***************************************************************************)
(* The cursor stays on the screen, whatever a program writes, so gpu_putc  *)
(* never draws outside video memory; the parser's parameter count stays    *)
(* within params[]; the editor's position stays within its line.           *)
(***************************************************************************)
TypeOK ==
    /\ <<screen.row, screen.col>> \in Cell /\ DOMAIN screen.cell = Cell
    /\ term.st \in {"ground", "escape", "csi", "osc"} /\ term.n \in 0 .. MaxParams
    /\ <<term.row, term.col>> \in Cell
    /\ buf \in Lines /\ cpos \in 0 .. Len(buf)
    /\ count \in 0 .. MaxLines /\ idx \in 0 .. count

(***************************************************************************)
(* After any key the cursor's row shows the prompt, the line and then      *)
(* blanks, up to its last column, which is not compared because the redraw *)
(* does not clear it; the cursor is where the next character will go.  For *)
(* every line that fits: also after lines that did not fit, after a        *)
(* history entry was recalled over a longer one, and wherever the last     *)
(* program left the cursor (shell_redraw_line).                            *)
(***************************************************************************)
LineShown ==
    Reading /\ drawn /\ Len(Prompt) + Len(buf) < Cols =>
        LET shown == Prompt \o buf \o Blanks(Cols)
        IN /\ \A c \in 0 .. Cols - 2 : screen.cell[<<screen.row, c>>] = shown[c + 1]
           /\ screen.col = Len(Prompt) + cpos

(***************************************************************************)
(* The ring holds the last HIST_MAX lines at the positions Up and Down     *)
(* visit, through wrap-around and repeated lines (history_add and          *)
(* history_get).                                                           *)
(***************************************************************************)
HistoryRight ==
    /\ count = Len(entered)
    /\ \A i \in 0 .. count - 1 : i >= count - HistMax => history_get(i) = entered[i + 1]

=============================================================================
