------------------------------ MODULE MCIngest ------------------------------
(***************************************************************************)
(* A small instance of Ingest for TLC.                                     *)
(***************************************************************************)
EXTENDS Ingest

\* The defaults of poll: a bootstrap window, bodies and no --emit-new.
DefaultFlags == {[fromNow |-> FALSE, window |-> TRUE, bodies |-> TRUE, emit |-> FALSE]}
=============================================================================
