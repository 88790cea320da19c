-------------------------------- MODULE Gui --------------------------------
(***************************************************************************)
(* The desktop of kernel/gui.c: the window table, the stacking order, the  *)
(* keyboard focus, dragging and the menu, driven by the mouse and the      *)
(* Escape key.                                                             *)
(*                                                                         *)
(* Only the horizontal coordinate is kept.  The vertical one is free: any  *)
(* window under the pointer's column may be the topmost at its row.  What  *)
(* windows show is left out (Console has the line editor a terminal window *)
(* shares with the shell), as are "Shut Down" and the command gui typed in *)
(* a terminal window.  Positions in the stacking order count from 1, and   *)
(* None stands for -1.  A window whose pixels kmalloc could not give keeps *)
(* working here; the drawing functions, which do not look, write from      *)
(* address 0 on, and what that destroys is not modelled.                   *)
(***************************************************************************)
EXTENDS Integers, Sequences, FiniteSets, SequencesExt

CONSTANTS
    MaxWindows,  \* MAX_WINDOWS
    Width,       \* columns of a window of each kind
    Place,       \* where win_create puts a window of each kind
    ScreenW,     \* columns of the screen
    Buffers,     \* pixel buffers kmalloc may give
    NoBuf        \* NULL

Kind == {"terminal", "about", "fileman"}
None == 0

ASSUME GuiSizes ==
    /\ MaxWindows \in Nat /\ MaxWindows > 1
    /\ ScreenW \in Nat
    /\ NoBuf \notin Buffers
    /\ \A k \in Kind : Width[k] \in 1 .. ScreenW /\ Place[k] \in 0 .. ScreenW - Width[k]

Slot == 0 .. MaxWindows - 1
Column == 0 .. ScreenW - 1

VARIABLES
    desk,    \* [win, zorder, bufs]: g_win, g_zorder, the pixel buffers allocated
    focus,   \* g_focus_zpos
    drag,    \* g_drag_zpos
    dragdx,  \* g_drag_dx
    menu,    \* g_menu_open
    down,    \* last_buttons & 1
    on       \* gui_run_desktop is running

vars == <<desk, focus, drag, dragdx, menu, down, on>>

Unused == [used |-> FALSE, kind |-> "about", x |-> 0, buf |-> NoBuf]
NoWindows == [win |-> [s \in Slot |-> Unused], zorder |-> << >>, bufs |-> {}]

-----------------------------------------------------------------------------
\* window management, each operation from a desk to a desk
FreeSlots(d) == {s \in Slot : ~d.win[s].used}

FirstFree(d) == CHOOSE a \in FreeSlots(d) : \A b \in FreeSlots(d) : a <= b

\* what kmalloc may return: a buffer not in use, or NULL
Pixels(d) == (Buffers \ d.bufs) \cup {NoBuf}

\* Mutant: only a buffer that was given is entered into the window
CreateKeepsPointer(d, k, b) ==
    IF FreeSlots(d) = {} THEN d
    ELSE LET s == FirstFree(d)
         IN [win    |-> [d.win EXCEPT ![s] = [used |-> TRUE, kind |-> k, x |-> Place[k],
                                              buf |-> IF b = NoBuf THEN d.win[s].buf ELSE b]],
             zorder |-> Append(d.zorder, s),
             bufs   |-> d.bufs \cup ({b} \ {NoBuf})]

\* a window of kind k, whose pixels kmalloc puts at b
win_create(d, k, b) ==
    IF FreeSlots(d) = {} THEN d
    ELSE LET s == FirstFree(d)
         IN [win    |-> [d.win EXCEPT ![s] = [used |-> TRUE, kind |-> k, x |-> Place[k], buf |-> b]],
             zorder |-> Append(d.zorder, s),
             bufs   |-> d.bufs \cup ({b} \ {NoBuf})]

Created(d) == {win_create(d, k, b) : k \in Kind, b \in Pixels(d)}

win_raise(d, z) == [d EXCEPT !.zorder = Append(RemoveAt(@, z), d.zorder[z])]

win_close(d, z) ==
    LET s == d.zorder[z]
    IN [win    |-> [d.win EXCEPT ![s].used = FALSE],
        zorder |-> RemoveAt(d.zorder, z),
        bufs   |-> d.bufs \ {d.win[s].buf}]

WindowAt(d, z) == d.win[d.zorder[z]]
Under(d, px) ==
    {z \in DOMAIN d.zorder : WindowAt(d, z).x <= px /\ px < WindowAt(d, z).x + Width[WindowAt(d, z).kind]}

Init ==
    /\ desk = NoWindows /\ focus = None /\ drag = None /\ dragdx = 0
    /\ menu = FALSE /\ down = FALSE /\ on = FALSE

-----------------------------------------------------------------------------
\* gui_run_desktop up to its loop; it clears g_win_count and the flags only
Cleared == [desk EXCEPT !.win = [s \in Slot |-> [desk.win[s] EXCEPT !.used = FALSE]],
                        !.zorder = << >>]

gui_run_desktop ==
    /\ ~on /\ on' = TRUE
    /\ \E one \in {win_create(Cleared, "terminal", b) : b \in Pixels(Cleared)} :
       \E b \in Pixels(one) : desk' = win_create(one, "about", b)
    /\ focus' = Len(desk'.zorder)
    /\ drag' = None /\ down' = FALSE
    /\ UNCHANGED <<dragdx, menu>>

Clicked == on /\ ~down /\ down' = TRUE

MenuButton ==
    /\ Clicked /\ menu' = ~menu
    /\ UNCHANGED <<desk, focus, drag, dragdx, on>>

\* with the menu open: an item that makes a window, or any other place
MenuClick ==
    /\ Clicked /\ menu /\ menu' = FALSE
    /\ desk' \in {desk} \cup Created(desk)
    /\ UNCHANGED <<focus, drag, dragdx, on>>

CloseClick ==
    /\ Clicked /\ ~menu
    /\ \E px \in Column : \E z \in Under(desk, px) : desk' = win_close(desk, z)
    /\ focus' = Len(desk'.zorder)
    /\ UNCHANGED <<drag, dragdx, menu, on>>

WindowClick ==
    /\ Clicked /\ ~menu
    /\ \E px \in Column : \E z \in Under(desk, px), title \in BOOLEAN :
          /\ desk' = win_raise(desk, z)
          /\ drag' = IF title THEN Len(desk.zorder) ELSE drag
          /\ dragdx' = IF title THEN px - WindowAt(desk, z).x ELSE dragdx
    /\ focus' = Len(desk.zorder)
    /\ UNCHANGED <<menu, on>>

\* no window there: an icon that makes a window, or nothing
DesktopClick ==
    /\ Clicked /\ ~menu
    /\ desk' \in {desk} \cup Created(desk)
    /\ UNCHANGED <<focus, drag, dragdx, menu, on>>

\* Mutant: the drag goes on after the button is released
ReleaseKeepsDrag ==
    /\ on /\ down /\ down' = FALSE
    /\ UNCHANGED <<desk, focus, drag, dragdx, menu, on>>

Release ==
    /\ on /\ down /\ down' = FALSE
    /\ drag' = None
    /\ UNCHANGED <<desk, focus, dragdx, menu, on>>

Clamp(x, hi) == IF x < 0 THEN 0 ELSE IF x > hi THEN hi ELSE x
Drag ==
    /\ on /\ down /\ drag # None
    /\ \E px \in Column :
          desk' = [desk EXCEPT !.win[desk.zorder[drag]].x =
                      Clamp(px - dragdx, ScreenW - Width[WindowAt(desk, drag).kind])]
    /\ UNCHANGED <<focus, drag, dragdx, menu, down, on>>

\* Escape closes every window, from the top; the desk after k of them
Closing[k \in 0 .. Len(desk.zorder)] ==
    IF k = 0 THEN desk ELSE win_close(Closing[k - 1], Len(desk.zorder) + 1 - k)

Escape ==
    /\ on /\ on' = FALSE
    /\ desk' = Closing[Len(desk.zorder)]
    /\ UNCHANGED <<focus, drag, dragdx, menu, down>>

Next ==
    \/ gui_run_desktop \/ MenuButton \/ MenuClick \/ CloseClick \/ WindowClick
    \/ DesktopClick \/ Release \/ Drag \/ Escape

Spec == Init /\ [][Next]_vars

-----------------------------------------------------------------------------
(***************************************************************************)
(* The stacking order lists each open window exactly once, whatever is     *)
(* opened, raised, closed and left in whatever order (win_create,          *)
(* win_raise, win_close).  No two open windows share a pixel buffer, every *)
(* buffer allocated is that of an open window, and a buffer an open window *)
(* names is allocated, although kmalloc may fail and a closed window keeps *)
(* its pointer; leaving the desktop frees them all.                        *)
(***************************************************************************)
WindowsSound ==
    LET open == {s \in Slot : desk.win[s].used}
        Buf(s) == desk.win[s].buf
    IN /\ IsInjective(desk.zorder) /\ ToSet(desk.zorder) = open
       /\ \A s, t \in open : s # t => Buf(s) # Buf(t) \/ Buf(s) = NoBuf
       /\ desk.bufs = {Buf(s) : s \in open} \ {NoBuf}
       /\ ~on => open = {} /\ desk.bufs = {}

(***************************************************************************)
(* Keys and drags never reach a closed window: g_focus_zpos names an open  *)
(* window or none, and a drag lasts only while the button is down and      *)
(* moves the window on top (gui_run_desktop keeps positions across frames  *)
(* in which the order changes under them).                                 *)
(***************************************************************************)
PointersOpen ==
    on => /\ focus \in 0 .. Len(desk.zorder)
          /\ drag # None => down /\ drag = Len(desk.zorder)

=============================================================================
