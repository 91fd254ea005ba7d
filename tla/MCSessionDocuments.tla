------------------------ MODULE MCSessionDocuments ------------------------
(* What a session owns: its documents, under clear and delete requests, and *)
(* its row, binding and history, under the clients that use it.  Both      *)
(* modules have the clear and the deletion of a session, one with the      *)
(* documents in it and one without.  A behaviour of the run is one of three *)
(* parts: two documents under a clear and a delete, one document under two *)
(* clears that may do the same work, or the rows; what has no part in it   *)
(* keeps the state it starts in.                                           *)
EXTENDS SessionDocuments, ChatSessions

CONSTANTS again,  \* the second clear
          x,      \* the delete request
          d2      \* the second document

VARIABLE part

ClearsAndDelete == [r \in Requests |-> IF r = x THEN "delete" ELSE "clear"]

\* Either of the two documents comes first, so let it be the other.
OneClear ==
    /\ part = "one clear" /\ req'[again].pc = "idle"
    /\ turn'[d2] # "idle" => \E d \in Docs \ {d2} : turn'[d] # "idle"
TwoClears == part = "two clears" /\ req'[x].pc = "idle" /\ turn'[d2] = "idle"

SessionsInit == part \in {"one clear", "two clears", "rows"} /\ Init /\ RowsInit

SessionsNext ==
    /\ UNCHANGED part
    /\ \/ Next /\ (OneClear \/ TwoClears) /\ UNCHANGED rowVars
       \/ part = "rows" /\ RowsNext /\ UNCHANGED vars

\* The fairness of SessionDocuments, in its own behaviours.
SessionsFairness ==
    /\ WF_vars(part # "rows" /\ Reconcile)
    /\ \A d \in Docs : SF_vars(part # "rows" /\ TakeExpired(d))

SessionsSpec == SessionsInit /\ [][SessionsNext]_<<part, vars, rowVars>> /\ SessionsFairness

===========================================================================
