------------------------------- MODULE MCChat -------------------------------
(* The browser chat: its stream, its turns, and connections to MCP         *)
(* servers.  The modules share no state (a turn runs in the task of a      *)
(* stream, its tools over a connection, and nothing else passes between    *)
(* them): a behaviour of the run is one of one of them, the others keep    *)
(* the state they start in.                                                *)
(* Two turns: that of "a" may delegate to "k", that of "b" may not.        *)
EXTENDS ChatStream, McpConnections, SessionTurns, FiniteSets, TLC

VARIABLE part

MCTurn == {"a", "b", "k"}
MCChild == "a" :> "k"
MCBatches ==
    LET first == {<<"ask", "agent">>, <<"risky", "unknown">>}
    IN  [a |-> <<first, {<<"risky", "unknown">>, <<"ask">>}>>, b |-> <<{<<"plain">>}>>,
         k |-> <<{<<"ask", "plain">>}>>]

ChatInit ==
    /\ part \in {"stream", "turns", "links"}
    /\ Init /\ TurnsInit /\ LinksInit

ChatNext ==
    /\ UNCHANGED part
    /\ \/ part = "stream" /\ Next /\ UNCHANGED <<loopVars, cvars>>
       \/ part = "turns" /\ TurnsNext /\ UNCHANGED <<vars, cvars>>
       \/ part = "links" /\ LinksNext /\ UNCHANGED <<vars, loopVars>>

\* The fairness of ChatStream and of SessionTurns, in their own behaviours.
ChatFairness ==
    /\ WF_vars(part = "stream" /\ Posts) /\ WF_vars(part = "stream" /\ Works)
    /\ \A c \in Consumers : WF_vars(part = "stream" /\ Reads(c))
    /\ \A t \in Turn : /\ WF_loopVars(part = "turns" /\ TurnStep(t))
                       /\ SF_loopVars(part = "turns" /\ Starts(t))
    /\ \A r \in Streams : WF_loopVars(part = "turns" /\ Clock(r))

ChatSpec ==
    ChatInit /\ [][ChatNext]_<<part, vars, loopVars, cvars>> /\ ChatFairness

=============================================================================
