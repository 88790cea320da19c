----------------------------- MODULE MCConsole ------------------------------
\* A screen of two rows and five columns for Console
EXTENDS Console

MCPrompt == <<"$">>
MCDigits == [d1 |-> 1, d2 |-> 2]
MCOutputs == {<<"x", "nl">>}

=============================================================================
