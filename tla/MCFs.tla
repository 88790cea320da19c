-------------------------------- MODULE MCFs --------------------------------
(* Two names in the root, the first of which may become a directory with a  *)
(* file in it, an upper-case spelling of the second, and a name that cannot *)
(* be written in 8.3 form.                                                  *)
EXTENDS Fs

CONSTANTS a, b, B, bad

MCPaths == {<<a>>, <<b>>, <<B>>, <<a, b>>, <<bad>>}
MCFold == [n \in {a, b, B, bad} |-> IF n = B THEN b ELSE n]

\* What follows the first mixture of cases is left out, and a second handle is
\* used only on a disk without directories, before the first crash and the first
\* node that could not be made.
OnlyFiles == \A k \in 1 .. Slots : dir[Root][k].st = "live" => dir[Root][k].kind = "file"
Bounds == ~mixed /\ (open[2] # NoFile => OnlyFiles /\ ~short /\ ~lost)
=============================================================================
