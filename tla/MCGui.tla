------------------------------- MODULE MCGui --------------------------------
\* A screen of four columns and three windows for Gui
EXTENDS Gui, TLC

MCWidth == [terminal |-> 3, about |-> 2, fileman |-> 2]
MCPlace == [terminal |-> 0, about |-> 2, fileman |-> 1]

MCBuffers == Permutations(Buffers)

=============================================================================
