----------------------------- MODULE MCBoincModule -----------------------------
EXTENDS BoincModule

\* VMWrapper.py passes these; another program asks for trickle messages too.
WrapperOptions == [control |-> TRUE, heartbeat |-> TRUE, ups |-> FALSE,
                   downs |-> FALSE, direct |-> FALSE]
MCArguments == {WrapperOptions, [WrapperOptions EXCEPT !.ups = TRUE, !.downs = TRUE]}
=============================================================================
