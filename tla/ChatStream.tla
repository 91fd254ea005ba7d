------------------------------ MODULE ChatStream ------------------------------
(***************************************************************************)
(* One browser stream: the SSE manager of one user, agent and stream id.    *)
(* POST /agents/chat queues a turn, a GET connection takes it from the      *)
(* queue, starts a task of the manager for it and streams what the task     *)
(* emits.  The turn outlives the connection: a browser that reconnects      *)
(* supersedes its older connection and goes on with the same output.        *)
(*                                                                         *)
(* Everything runs in one event loop, so an action is the code between two  *)
(* awaits.  A connection claims a generation when its response is first     *)
(* iterated, and is called by it; a newer one supersedes it.  Events are    *)
(* numbered in the order they are emitted, the terminal event of a turn     *)
(* included; the turn waiting in the action queue is the item Action.       *)
(*                                                                         *)
(* The history variable lost records what a connection had taken and did    *)
(* not pass on: because its browser left, or because it was superseded      *)
(* between taking it and looking again.                                     *)
(*                                                                         *)
(* Left out: the requests that start no turn (history, sessions, generate), *)
(* the snapshot of a pending question, eviction from the registry.          *)
(***************************************************************************)
EXTENDS Naturals, Sequences

CONSTANTS
    QueueSize,   \* _SSE_QUEUE_MAXSIZE, of the output queue
    MaxConsumers,\* bound: GET connections of this stream
    MaxTurns,    \* bound: turns the browser posts
    MaxEvents    \* bound: events emitted before the last terminal event

ASSUME StreamAssumption ==
    /\ QueueSize \in Nat \ {0}
    /\ MaxConsumers \in Nat /\ MaxTurns \in Nat /\ MaxEvents \in Nat

Consumers == 1..MaxConsumers

VARIABLES
    pending,     \* turn_pending
    stop,        \* stop_requested
    posting,     \* the POST holds the turn and stages its attachments
    queued,      \* the action queue holds the turn
    task,        \* active_task: what the task of the turn is doing
    ending,      \* the terminal event the task would choose without a stop
    out,         \* turn_output_queue, turn_terminal and its event
    replay,      \* _replay_item, at most one
    generation,  \* _consumer_generation
    pc,          \* pc[c]: the await connection c is in
    hand,        \* hand[c]: the item c has taken from a queue, at most one
    sent,        \* events that have left on some connection
    emitted,     \* number of events emitted
    turns,       \* number of turns accepted
    verdict,     \* history: the terminal event of each turn
    stopped,     \* history: turns for which a stop was accepted
    withdrawn,   \* history: turns whose user cancelled a question of theirs
    lost         \* history: kinds of items taken and not passed on

turnVars == <<pending, stop, posting, turns, stopped>>
taskVars == <<task, ending, emitted, verdict, withdrawn>>
readVars == <<replay, generation, pc, hand, sent, lost>>
vars     == <<turnVars, taskVars, readVars, queued, out>>

Action == 0
Closed == [open |-> FALSE, items |-> <<>>, terminal |-> <<>>]

\* Inside the consumer lock.  "peek": in request.is_disconnected(); "wait": in
\* asyncio.wait; "got": the getter has an item, the wait has not returned;
\* "settle" and "ended": in the gather after it, with an item or the terminal
\* event; "send": the response sends what the generator yielded.
Inside == {"peek", "wait", "got", "settle", "ended", "send"}
AtMostOne(S) == {<<>>} \cup {<<x>> : x \in S}

\* One connection is inside the lock, it holds an item exactly where it has
\* taken one, and an item to be replayed is taken before anything else.
TypeOK ==
    /\ pending \in BOOLEAN /\ stop \in BOOLEAN /\ posting \in BOOLEAN /\ queued \in BOOLEAN
    /\ task \in {"none", "created", "running", "emitting", "cleanup"}
    /\ ending \in {"complete", "stopped"}
    /\ emitted \in Nat /\ generation \in Nat /\ turns \in 0..MaxTurns
    /\ out \in [open : BOOLEAN, items : Seq(Nat), terminal : AtMostOne(Nat)]
    /\ replay \in AtMostOne(Nat)
    /\ pc \in [Consumers -> {"new", "lock", "gone"} \cup Inside]
    /\ hand \in [Consumers -> AtMostOne(Nat)]
    /\ verdict \in [1..MaxTurns -> {"none", "complete", "stopped", "error"}]
    /\ stopped \cup withdrawn \subseteq 1..turns
    /\ \A c \in Consumers :
          /\ hand[c] # <<>> <=> pc[c] \in {"got", "settle", "send"}
          /\ replay # <<>> /\ pc[c] \in Inside => pc[c] = "peek"
          /\ \A d \in Consumers : pc[c] \in Inside /\ pc[d] \in Inside => c = d

\* get_sse_manager has built the manager for a GET.
Init ==
    /\ pending = FALSE /\ stop = FALSE /\ posting = FALSE /\ queued = FALSE
    /\ task = "none" /\ ending = "complete" /\ out = Closed /\ replay = <<>>
    /\ generation = 0
    /\ pc = [c \in Consumers |-> "new"]
    /\ hand = [c \in Consumers |-> <<>>]
    /\ sent = <<>> /\ emitted = 0 /\ turns = 0
    /\ verdict = [t \in 1..MaxTurns |-> "none"]
    /\ stopped = {} /\ withdrawn = {} /\ lost = {}

-----------------------------------------------------------------------------
(* The browser posts a turn and may stop it.                               *)

\* begin_turn, otherwise 409.
Post ==
    /\ ~pending /\ turns < MaxTurns
    /\ pending' = TRUE /\ stop' = FALSE /\ posting' = TRUE
    /\ turns' = turns + 1
    /\ UNCHANGED <<stopped, taskVars, readVars, queued, out>>

PostPut ==
    /\ posting /\ posting' = FALSE
    /\ queued' = TRUE
    /\ UNCHANGED <<pending, stop, turns, stopped, taskVars, readVars, out>>

FinishTurn == task' = "none" /\ pending' = FALSE /\ stop' = FALSE

\* Mutant: a failed POST forgets the turn it had reserved.
KeepTurn == UNCHANGED <<task, pending, stop>>

Release == FinishTurn

\* Staging failed, or the client of the POST left.
PostFail ==
    /\ posting /\ posting' = FALSE
    /\ Release
    /\ UNCHANGED <<turns, stopped, withdrawn, ending, emitted, verdict, readVars, queued, out>>

\* stop_current_turn cancels a task that has started; before its start and
\* while it cleans up, the flag is what counts.
Stop ==
    /\ pending
    /\ stop' = TRUE
    /\ stopped' = stopped \cup {turns}
    /\ IF task \in {"running", "emitting"}
       THEN task' = "cleanup" /\ ending' = "stopped"
       ELSE UNCHANGED <<task, ending>>
    /\ UNCHANGED <<pending, posting, turns, withdrawn, emitted, verdict, readVars, queued, out>>

-----------------------------------------------------------------------------
(* The task of the turn.                                                   *)

Start ==
    /\ task = "created"
    /\ IF stop THEN task' = "cleanup" /\ ending' = "stopped"
               ELSE task' = "running" /\ ending' = "complete"
    /\ UNCHANGED <<turnVars, withdrawn, emitted, verdict, readVars, queued, out>>

\* emit waits while the queue is full.
Want ==
    /\ task = "running" /\ emitted < MaxEvents
    /\ task' = "emitting"
    /\ UNCHANGED <<turnVars, withdrawn, ending, emitted, verdict, readVars, queued, out>>

Put ==
    /\ task = "emitting" /\ Len(out.items) < QueueSize
    /\ task' = "running"
    /\ emitted' = emitted + 1
    /\ out' = [out EXCEPT !.items = Append(@, emitted + 1)]
    /\ UNCHANGED <<turnVars, withdrawn, ending, verdict, readVars, queued>>

\* The turn is over; an error has become an event before.
Finish ==
    /\ task = "running"
    /\ task' = "cleanup"
    /\ UNCHANGED <<turnVars, withdrawn, ending, emitted, verdict, readVars, queued, out>>

\* The user cancels a question the turn waits for: QuestionTurnCancelled is a
\* CancelledError, like that of a stop, though none was requested.
WithdrawQuestion ==
    /\ task = "running"
    /\ task' = "cleanup" /\ ending' = "stopped"
    /\ withdrawn' = withdrawn \cup {turns}
    /\ UNCHANGED <<turnVars, emitted, verdict, readVars, queued, out>>

\* Mutant: the task reports what it knows itself.
OutcomeSeen(failed) == IF failed THEN "error" ELSE ending

Outcome(failed) == IF failed THEN "error" ELSE IF stop THEN "stopped" ELSE ending

\* _complete_turn_output: the terminal event bypasses the queue.
Complete ==
    /\ task = "cleanup"
    /\ \E failed \in BOOLEAN : verdict' = [verdict EXCEPT ![turns] = Outcome(failed)]
    /\ emitted' = emitted + 1
    /\ out' = [out EXCEPT !.terminal = <<emitted + 1>>]
    /\ FinishTurn
    /\ UNCHANGED <<posting, turns, stopped, withdrawn, ending, readVars, queued>>

-----------------------------------------------------------------------------
(* The connections.                                                        *)

Superseded(c) == c < generation
To(c, place)  == pc' = [pc EXCEPT ![c] = place]
Hold(c, h)    == hand' = [hand EXCEPT ![c] = h]

\* The loop looks whether the connection is superseded before it awaits again.
Again(c) == To(c, IF Superseded(c) THEN "gone" ELSE "peek")

Free == \A c \in Consumers : pc[c] \notin Inside

\* _claim_consumer, when the response is first iterated.
Claim(c) ==
    /\ pc[c] = "new" /\ c = generation + 1
    /\ generation' = c
    /\ To(c, "lock")
    /\ UNCHANGED <<turnVars, taskVars, replay, hand, sent, lost, queued, out>>

\* Only the newest connection goes on once it has the lock.
Acquire(c) ==
    /\ pc[c] = "lock" /\ Free
    /\ Again(c)
    /\ UNCHANGED <<turnVars, taskVars, replay, generation, hand, sent, lost, queued, out>>

\* An event is yielded, or dropped by a connection that finds itself superseded.
Yield(c, event) ==
    /\ IF Superseded(c)
       THEN To(c, "gone") /\ Hold(c, <<>>) /\ lost' = lost \cup {"event"}
       ELSE To(c, "send") /\ Hold(c, <<event>>) /\ UNCHANGED lost
    /\ UNCHANGED <<task, ending>>

\* _open_turn_output and _start_chat_action; nothing is yielded.
Launch(c) ==
    /\ out' = [Closed EXCEPT !.open = TRUE]
    /\ task' = "created" /\ ending' = "complete"
    /\ Again(c) /\ Hold(c, <<>>)
    /\ UNCHANGED lost

\* What the loop does with an item it got from a queue; o is what the output
\* is without it.
Handle(c, item, o) ==
    /\ IF item = Action THEN Launch(c) ELSE Yield(c, item) /\ out' = o
    /\ UNCHANGED <<turnVars, withdrawn, emitted, verdict, generation, sent>>

\* The queue the loop reads: the output of a turn while there is one.
Readable == IF out.open THEN out.items ELSE IF queued THEN <<Action>> ELSE <<>>
Rest == IF out.open THEN [out EXCEPT !.items = Tail(@)] ELSE out
Left == queued /\ out.open     \* is the turn still in the action queue?

\* _take_replay comes before the queue.
PeekReplay(c) ==
    /\ pc[c] = "peek" /\ replay # <<>>
    /\ replay' = <<>>
    /\ Handle(c, Head(replay), out)
    /\ UNCHANGED queued

PeekQueue(c) ==
    /\ pc[c] = "peek" /\ replay = <<>> /\ Readable # <<>>
    /\ Handle(c, Head(Readable), Rest)
    /\ queued' = Left
    /\ UNCHANGED replay

\* Mutant: a terminal event counts only while its turn is pending.
EndedPending == out.terminal # <<>> /\ Readable = <<>> /\ pending

Ended == out.terminal # <<>> /\ Readable = <<>>

\* The output is closed before its terminal event is yielded.
Close(c) ==
    /\ Yield(c, Head(out.terminal))
    /\ out' = Closed
    /\ UNCHANGED <<turnVars, withdrawn, emitted, verdict, replay, generation, sent, queued>>

PeekTerminal(c) == pc[c] = "peek" /\ replay = <<>> /\ Ended /\ Close(c)

PeekNothing(c) ==
    /\ pc[c] = "peek" /\ replay = <<>> /\ Readable = <<>> /\ ~Ended
    /\ To(c, "wait")
    /\ UNCHANGED <<turnVars, taskVars, replay, generation, hand, sent, lost, queued, out>>

\* The getter of the wait pops an item.
GetDone(c) ==
    /\ pc[c] = "wait" /\ Readable # <<>>
    /\ Hold(c, <<Head(Readable)>>)
    /\ out' = Rest /\ queued' = Left
    /\ To(c, "got")
    /\ UNCHANGED <<turnVars, taskVars, replay, generation, sent, lost>>

\* Mutant: the item of a superseded connection is not kept.
Dropped(c) == <<>>

Preserved(c) == hand[c]

\* The wait returns and has seen that the connection is superseded.
WakeSuperseded(c) ==
    /\ pc[c] = "got" /\ Superseded(c)
    /\ replay' = Preserved(c)
    /\ Hold(c, <<>>) /\ To(c, "gone")
    /\ UNCHANGED <<turnVars, taskVars, generation, sent, lost, queued, out>>

\* The wait returns with an item or the terminal event.  A connection superseded
\* in the same turn of the event loop may not see it yet.
Wake(c) ==
    /\ \/ pc[c] = "got" /\ To(c, "settle")
       \/ pc[c] = "wait" /\ Ended /\ To(c, "ended")
    /\ UNCHANGED <<turnVars, taskVars, replay, generation, hand, sent, lost, queued, out>>

\* After a second, or superseded: a ping, which a superseded connection drops.
Timeout(c) ==
    /\ pc[c] = "wait"
    /\ Again(c)
    /\ UNCHANGED <<turnVars, taskVars, replay, generation, hand, sent, lost, queued, out>>

Settle(c) ==
    \/ /\ pc[c] = "settle"
       /\ Handle(c, Head(hand[c]), out)
       /\ UNCHANGED <<replay, queued>>
    \/ pc[c] = "ended" /\ Close(c)

Sent(c) ==
    /\ pc[c] = "send"
    /\ sent' = sent \o hand[c]
    /\ Hold(c, <<>>) /\ Again(c)
    /\ UNCHANGED <<turnVars, taskVars, replay, generation, lost, queued, out>>

\* The browser leaves: the response is cancelled in whatever it awaits.
Disconnect(c) ==
    /\ pc[c] \notin {"new", "gone"}
    /\ To(c, "gone") /\ Hold(c, <<>>)
    /\ lost' = lost \cup (IF hand[c] = <<>> THEN {}
                          ELSE IF hand[c] = <<Action>> THEN {"action"} ELSE {"event"})
    /\ UNCHANGED <<turnVars, taskVars, replay, generation, sent, queued, out>>

-----------------------------------------------------------------------------

Reads(c) ==
    \/ Claim(c) \/ Acquire(c)
    \/ PeekReplay(c) \/ PeekQueue(c) \/ PeekTerminal(c) \/ PeekNothing(c)
    \/ GetDone(c) \/ WakeSuperseded(c) \/ Wake(c) \/ Timeout(c) \/ Settle(c)
    \/ Sent(c)

Posts == PostPut \/ PostFail
Works == Start \/ Want \/ Put \/ Finish \/ Complete

Next ==
    \/ Post \/ Posts \/ Stop \/ WithdrawQuestion \/ Works
    \/ \E c \in Consumers : Reads(c) \/ Disconnect(c)

\* The event loop runs what is ready; a response is sent or its connection breaks.
Fairness == WF_vars(Posts) /\ WF_vars(Works) /\ \A c \in Consumers : WF_vars(Reads(c))

Spec == Init /\ [][Next]_vars /\ Fairness

-----------------------------------------------------------------------------

InHand == IF \E c \in Consumers : hand[c] # <<>>
          THEN hand[CHOOSE c \in Consumers : hand[c] # <<>>]
          ELSE <<>>

\* The turn itself, which a connection may hold or leave to be replayed, is no event.
Shown(h) == IF h = <<Action>> THEN <<>> ELSE h

\* Everything on its way to the browser, in the order it will arrive.
Stream == sent \o Shown(InHand) \o Shown(replay) \o out.items \o out.terminal

\* Across reconnects no event is doubled or overtaken, and none is missing
\* unless a connection has dropped one (_replay_item, the consumer lock, the
\* terminal event beside the queue, output drained before the next turn).
InOrder ==
    /\ \A i, j \in 1..Len(Stream) : i < j => Stream[i] < Stream[j]
    /\ "event" \notin lost => Len(Stream) = emitted

Whereabouts ==
    {place \in {"post", "queue", "hand", "replay", "task", "lost"} :
        \/ place = "post"   /\ posting
        \/ place = "queue"  /\ queued
        \/ place = "hand"   /\ \E c \in Consumers : hand[c] = <<Action>>
        \/ place = "replay" /\ replay = <<Action>>
        \/ place = "task"   /\ task # "none"
        \/ place = "lost"   /\ "action" \in lost}

\* turn_pending says that there is a turn, and there is never more than one:
\* the browser is refused exactly as long as somebody holds its turn, or its
\* turn was lost with a connection.
TurnHeld ==
    /\ pending <=> Whereabouts # {}
    /\ \A p, q \in Whereabouts : p = q

\* A turn for which a stop was accepted, or whose question was cancelled, does
\* not report completion, however early or late the stop came; and no other turn
\* reports a stop: a stop never reaches the turn after it.
StopHonored ==
    \A t \in 1..turns :
        /\ t \in stopped \cup withdrawn => verdict[t] # "complete"
        /\ verdict[t] = "stopped" => t \in stopped \cup withdrawn

Abandoned == "action" \in lost \/ \A c \in Consumers : pc[c] = "gone"

\* A turn ends, and its output is read to its end, as long as the browser
\* comes back: a full queue, a reconnect or a stop do not block it for ever.
TurnEnds ==
    /\ pending ~> (~pending \/ Abandoned)
    /\ out.open ~> (~out.open \/ Abandoned)

=============================================================================
