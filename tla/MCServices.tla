----------------------------- MODULE MCServices -----------------------------
(* What the runs of tasks owe to others: the notification of their end, and *)
(* the slots and the budget of their calls to models.  The two share no     *)
(* state in the code; a behaviour of the run is one of one of them, the     *)
(* other keeps the state it starts in.                                     *)
(* Two workers of one run share its budget, its actor and the provider.     *)
EXTENDS CompletionNotification, ModelCalls, TLC

CONSTANTS w1, w2, r1, alice

VARIABLE part

MCRunOf == w1 :> r1 @@ w2 :> r1
MCActorOf == r1 :> alice

\* What the proofs about ModelCalls assume of its constants.
ASSUME ServicesAssumption == Sized

ServicesInit ==
    /\ part \in {"notice", "calls"}
    /\ Init /\ CallsInit
    /\ part = "notice" => store = "redis"

ServicesNext ==
    /\ UNCHANGED part
    /\ \/ part = "notice" /\ Next /\ UNCHANGED callVars
       \/ part = "calls" /\ CallsNext /\ UNCHANGED vars

\* Fairness of ModelCalls, in its own behaviours; that of the notification
\* asks for nothing before a run has ended.
ServicesFairness ==
    /\ Fairness
    /\ \A c \in Workers :
         /\ WF_callVars(part = "calls" /\ Step(c))
         /\ SF_callVars(part = "calls" /\ (Deadline(c) \/ Queued(c)))
    /\ \A k \in Keys : WF_callVars(part = "calls" /\ Expire(k))

ServicesSpec ==
    ServicesInit /\ [][ServicesNext]_<<part, vars, callVars>> /\ ServicesFairness

\* Every worker comes to its end and every slot is free again (ModelCalls).
CallsReturn == part = "calls" => AllReturned

=============================================================================
