------------------------------- MODULE MCPmm --------------------------------
(* Small memory maps for Pmm: pages of 4 bytes, 8 frames of capacity.      *)
EXTENDS Pmm

Ram(b, l) == [base |-> b, len |-> l, type |-> 1]
Hole(b, l) == [base |-> b, len |-> l, type |-> 2]

\* One range; two ranges with a hole; ranges that start and stop inside a
\* frame; and more memory than the bitmap can describe.
MCE820Maps == {
    {Ram(0, 28)},
    {Ram(0, 13), Hole(13, 7), Ram(20, 12)},
    {Ram(2, 11), Ram(13, 18)},
    {Ram(0, 40), Hole(40, 4)} }
=============================================================================
