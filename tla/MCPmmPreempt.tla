---------------------------- MODULE MCPmmPreempt ----------------------------
(* One usable range behind the reserved low frames, two frames per byte.   *)
EXTENDS PmmPreempt

MCE820Maps == {{[base |-> 0, len |-> 28, type |-> 1]},
               {[base |-> 0, len |-> 13, type |-> 1],
                [base |-> 20, len |-> 12, type |-> 1]}}
=============================================================================
