-------------------------------- MODULE Feed --------------------------------
(***************************************************************************)
(* What polling promises for each role, whatever the number of processes,  *)
(* failures and crashes: a high-water mark that moves over a message only  *)
(* when that message is held, from the point where the role's history      *)
(* starts.  Only a start from above the mark may leave messages behind: a  *)
(* role's first poll, or the operator's set-last-id.                       *)
(***************************************************************************)
EXTENDS Integers

CONSTANTS
    FeedRole,   \* the roles
    FeedId      \* the message ids

VARIABLES
    listed,     \* listed[r]: ids in the role's inbox
    held,       \* held[r]: ids stored and linked to the role
    high,       \* high[r]: the mark, below every id while there is none
    start       \* start[r]: where the role's history starts

feedVars == <<listed, held, high, start>>

FeedInit ==
    /\ listed = [r \in FeedRole |-> {}]
    /\ held = [r \in FeedRole |-> {}]
    /\ high = [r \in FeedRole |-> -1]
    /\ start = [r \in FeedRole |-> -1]

\* Inboxes change, but no message turns up behind a mark.
Deliver ==
    /\ listed' \in [FeedRole -> SUBSET FeedId]
    /\ \A r \in FeedRole : \A i \in listed'[r] \ listed[r] :
          i <= start[r] \/ i > high[r]
    /\ UNCHANGED <<held, high, start>>

Hold(r, i) ==
    /\ held' = [held EXCEPT ![r] = @ \cup {i}]
    /\ UNCHANGED <<listed, high, start>>

\* The mark moves up over messages that are all held.
MoveUp(r, i) ==
    /\ \A j \in listed[r] : high[r] < j /\ j <= i => j \in held[r]
    /\ i > high[r]
    /\ high' = [high EXCEPT ![r] = i]
    /\ UNCHANGED <<listed, held, start>>

\* History starts (again) above the mark, at or below the new mark.
StartFrom(r, from, i) ==
    /\ from > high[r]
    /\ i >= from
    /\ \A j \in listed[r] : from < j /\ j <= i => j \in held[r]
    /\ high' = [high EXCEPT ![r] = i]
    /\ start' = [start EXCEPT ![r] = from]
    /\ UNCHANGED <<listed, held>>

FeedNext ==
    \/ Deliver
    \/ \E r \in FeedRole, i \in FeedId : Hold(r, i) \/ MoveUp(r, i)
    \/ \E r \in FeedRole, i \in FeedId \cup {0}, from \in FeedId \cup {0} :
          StartFrom(r, from, i)

FeedSpec == FeedInit /\ [][FeedNext]_feedVars
=============================================================================
