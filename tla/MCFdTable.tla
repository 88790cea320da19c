----------------------------- MODULE MCFdTable ------------------------------
(* Three usable descriptors besides 0 to 2, three handles, two pipes.      *)
EXTENDS FdTable, TLC

\* No definition of FdTable tells one handle address from another.
HandleSymmetry == Permutations(Handles)

\* Programs that fork, and three kinds that duplicate descriptors.
MCCallSets == {{"open", "close", "pipe", "exit", "exec", "fork"},
               {"open", "close", "dup2", "exit", "exec"},
               {"close", "pipe", "dup2", "exit"},
               {"open", "pipe", "dup2"}}

\* Bound: with dup2 the counts of a pipe can fall without end.
CountsBounded ==
    "dup2" \in calls =>
        /\ Cardinality(shared) <= 1
        /\ \A p \in Pipe : pipes[p].readers >= 0 /\ pipes[p].writers >= 0

=============================================================================
