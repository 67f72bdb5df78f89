----------------------------- MODULE Generations -----------------------------
(***************************************************************************)
(* "Latest run wins": what a reader of the event store sees of a message.  *)
(* It is the whole answer of one run, it is replaced only by the whole     *)
(* answer of a newer run, an empty answer replaces like any other, and an  *)
(* answer that comes late, from an older run, is never seen.               *)
(***************************************************************************)
EXTENDS Integers

CONSTANTS
    GenMsg,     \* the messages
    GenEvent,   \* the events an answer may hold
    GenRun      \* the run ids, positive numbers

VARIABLE generation  \* generation[m]: what is current for message m

NoGeneration == [run |-> 0, events |-> {}]

GenInit == generation = [m \in GenMsg |-> NoGeneration]

Publish(m, r, answer) ==
    /\ r > generation[m].run
    /\ generation' = [generation EXCEPT ![m] = [run |-> r, events |-> answer]]

GenNext == \E m \in GenMsg, r \in GenRun, answer \in SUBSET GenEvent : Publish(m, r, answer)

GenSpec == GenInit /\ [][GenNext]_generation
=============================================================================
