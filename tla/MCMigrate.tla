----------------------------- MODULE MCMigrate -----------------------------
(***************************************************************************)
(* A small instance of Migrate for TLC.                                    *)
(***************************************************************************)
EXTENDS Migrate

CONSTANT m1

\* Both rows are about one message, so that an extraction may find it again;
\* the other message is one that no old row is about.
AboutOne == [e \in Event |-> m1]
=============================================================================
