------------------------------- MODULE MCPoll -------------------------------
(***************************************************************************)
(* Small instances of Poll for TLC.                                        *)
(***************************************************************************)
EXTENDS Poll

\* The defaults of poll (a bootstrap window, bodies) with --emit-new.
Default == [fromNow |-> FALSE, window |-> TRUE, bodies |-> TRUE, emit |-> TRUE]
DefaultFlags == {Default}

\* The defaults, --from-now, and --bodies=false; the last two with --bootstrap 0.
SomeFlags ==
    {Default, [Default EXCEPT !.fromNow = TRUE, !.window = FALSE],
              [Default EXCEPT !.bodies = FALSE, !.window = FALSE]}
=============================================================================
