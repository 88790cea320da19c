------------------------------ MODULE MCKeyboard ------------------------------
(* A letter, which does not repeat, and an arrow, which does; no              *)
(* scancode is shared by a plain and an extended key.                          *)
EXTENDS Keyboard, TLC

CONSTANTS letter, arrow, lshift, rshift

MCMapped == Key
MCRepeatable == [ext : {TRUE}, sc : {arrow}]

\* The two shift keys are alike: the code clears one flag for either.
MCShiftKeys == Permutations(Shifts)
================================================================================
