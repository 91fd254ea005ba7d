------------------------------- MODULE EventLog -------------------------------
(***************************************************************************)
(* What the event log of a run promises its reader, without processes,     *)
(* outboxes or crashes: events are posted in order until a verdict is      *)
(* reached, the verdict is never revised and nothing is posted after it,   *)
(* and the reader is shown every event once, in the order of posting.      *)
(***************************************************************************)
EXTENDS Naturals, Sequences

CONSTANTS
    Kinds,          \* what an event can report
    Final,          \* the kinds that end a run, a subset of Kinds
    Failed,         \* the one of them a run may end with unannounced
    Open            \* "no verdict yet", none of them

VARIABLES
    posted,         \* the kinds posted so far
    shown,          \* the events a reader can see
    verdict         \* the final kind the run ended with, or Open

vars == <<posted, shown, verdict>>

Init == posted = <<>> /\ shown = {} /\ verdict = Open

\* An event is posted; a final one is the verdict.
Post(kind) ==
    /\ verdict = Open
    /\ verdict' = IF kind \in Final THEN kind ELSE Open
    /\ UNCHANGED shown
    /\ posted' = Append(posted, kind)

\* A run that could not be published fails without an event.
FailUnannounced ==
    /\ verdict = Open
    /\ verdict' = Failed
    /\ UNCHANGED <<posted, shown>>

\* The reader has been shown the events before the next one, and is shown it.
Show ==
    \E next \in DOMAIN posted :
        /\ {event.seq : event \in shown} = 1 .. next - 1
        /\ shown' = shown \cup {[seq |-> next, kind |-> posted[next]]}
        /\ UNCHANGED <<posted, verdict>>

Next ==
    \/ \E kind \in Kinds : Post(kind)
    \/ FailUnannounced
    \/ Show

Spec == Init /\ [][Next]_vars

=============================================================================
