--------------------------- MODULE SessionTurns ---------------------------
(***************************************************************************)
(* The turns of the browser chat (sessions/base.py, Session.__call__), the *)
(* batches of tool calls the model issues in them (agents/base.py,         *)
(* call_tools), the approvals and questions those calls wait for           *)
(* (safety/approval_gate.py, questions/broker.py) and the execution slots  *)
(* all turns of the process share.  A call of kind "agent" (tools/misc.py, *)
(* call_agent) runs another turn, of a fresh session, inside its slot.     *)
(*                                                                         *)
(* Everything runs on one event loop: a step is what happens between two   *)
(* awaits.  Text, tool arguments and results are left out; a result is     *)
(* its outcome.                                                            *)
(***************************************************************************)
EXTENDS Naturals, Sequences, FiniteSets, Functions

CONSTANTS
    Turn,       \* turns: those of browser streams, and the delegated ones
    Child,      \* the turn a call_agent call of a stream's turn runs, if any
    Batches,    \* for each turn and round, the batches its model may issue
    Slots,      \* MAX_CONCURRENT_TOOL_CALLS
    MaxRounds   \* MAX_TOOL_ROUNDS

CallKinds == {"plain", "risky", "ask", "agent", "unknown"}

(* call_agent runs its turn in a session of its own.  Bounds: the agent it  *)
(* calls delegates no further (the code lets it three deep), a batch        *)
(* delegates at most once.                                                 *)
ASSUME TurnsAssumption ==
    /\ "" \notin Turn
    /\ DOMAIN Child \subseteq Turn
    /\ \A r \in DOMAIN Child : Child[r] \in Turn \ DOMAIN Child
    /\ \A q, r \in DOMAIN Child : Child[q] = Child[r] => q = r
    /\ \A t \in Turn : Batches[t] \in Seq(SUBSET Seq(CallKinds))
    /\ \A t \in DOMAIN Child : \A n \in DOMAIN Batches[t] : \A b \in Batches[t][n] :
         \A i, k \in DOMAIN b : b[i] = "agent" /\ b[k] = "agent" => i = k

(* A call_agent call keeps its slot while the tools of its agent ask for   *)
(* one: as many delegations as slots would wait for each other.            *)
ASSUME DelegationAssumption == Cardinality(DOMAIN Child) < Slots

Streams == Turn \ Range(Child)
StreamOf(t) == IF t \in Streams THEN t ELSE CHOOSE r \in DOMAIN Child : Child[r] = t
ChildrenOf(t) == IF t \in DOMAIN Child THEN {Child[t]} ELSE {}
Family(r) == {r} \cup ChildrenOf(r)

VARIABLES
    phase,      \* where the turn is
    batch,      \* the kinds of the calls of the current batch
    job,        \* what has become of each of them
    denied,     \* the last batch, when all of it was denied
    hist,       \* the turn's part of session.chat
    saved,      \* the same part of the session's row
    cut,        \* a cancellation has been delivered to the turn's task
    question,   \* the pending question of each stream, or NoQuestion
    remembered, \* agents whose risky call was approved for the session
    halted,     \* streams whose user asked to stop the turn
    interrupted \* history: turns whose results a stop found recorded, and repeated

loopVars == <<phase, batch, job, denied, hist, saved, cut, question, remembered, halted,
              interrupted>>
recordVars == <<denied, hist, saved>>

Outcomes == {"answered", "denied"}
NoQuestion == [turn |-> "", call |-> 0]
User == [type |-> "user"]
Calls(n) == [type |-> "calls", n |-> n]
Result(i, o) == [type |-> "result", call |-> i, outcome |-> o]

Rounds(t) == Cardinality({k \in DOMAIN hist[t] : hist[t][k].type = "calls"})
Set(f, T, v) == [t \in Turn |-> IF t \in T THEN v ELSE f[t]]
Active(t) == phase[t] \notin {"idle", "over"}
Done(t, i) == job[t][i] \in Outcomes

TurnsTypeOK ==
    /\ phase \in [Turn -> {"idle", "model", "check", "run", "unwinding", "closing", "over"}]
    /\ \A t \in Turn : batch[t] \in Seq(CallKinds) /\ DOMAIN job[t] = DOMAIN batch[t]
    /\ \A t \in Turn : Range(job[t]) \subseteq
           Outcomes \cup {"unchecked", "asked", "queued", "running", "raised"}
    /\ cut \in [Turn -> BOOLEAN] /\ halted \in [Streams -> BOOLEAN]
    /\ remembered \cup interrupted \subseteq Turn

TurnsInit ==
    /\ phase = [t \in Turn |-> "idle"]
    /\ batch = [t \in Turn |-> <<>>] /\ job = [t \in Turn |-> <<>>]
    /\ denied = [t \in Turn |-> <<>>]
    /\ hist = [t \in Turn |-> <<>>] /\ saved = [t \in Turn |-> <<>>]
    /\ cut = [t \in Turn |-> FALSE] /\ halted = [r \in Streams |-> FALSE]
    /\ question = [r \in Streams |-> NoQuestion]
    /\ remembered = {} /\ interrupted = {}

-----------------------------------------------------------------------------
(* The loop of a turn.                                                     *)

Begin(r) ==
    /\ r \in Streams /\ phase[r] = "idle"
    /\ phase' = [phase EXCEPT ![r] = "model"]
    /\ hist' = [hist EXCEPT ![r] = <<User>>]
    /\ UNCHANGED <<batch, job, denied, saved, cut, question, remembered, halted, interrupted>>

(* The assistant message that issues the calls is recorded before any of   *)
(* them runs.                                                              *)
Issue(t) ==
    /\ phase[t] = "model" /\ ~cut[t] /\ Rounds(t) < MaxRounds
    /\ Rounds(t) < Len(Batches[t])
    /\ \E b \in Batches[t][Rounds(t) + 1] :
         /\ batch' = [batch EXCEPT ![t] = b]
         /\ job' = [job EXCEPT ![t] = [i \in DOMAIN b |-> "unchecked"]]
         /\ hist' = [hist EXCEPT ![t] = Append(@, Calls(Len(b)))]
    /\ phase' = [phase EXCEPT ![t] = "check"]
    /\ UNCHANGED <<denied, saved, cut, question, remembered, halted, interrupted>>

(* The model answers without a call, fails, or has had all its rounds.     *)
EndRounds(t) ==
    /\ phase[t] = "model" /\ ~cut[t]
    /\ phase' = [phase EXCEPT ![t] = "closing"]
    /\ UNCHANGED <<batch, job, cut, question, remembered, halted, interrupted>> /\ UNCHANGED recordVars

(* Only the session of a stream has a row; a delegated one is thrown away. *)
Save(t) == saved' = [saved EXCEPT ![t] = IF t \in Streams THEN hist'[t] ELSE @]

CloseTurn(t) ==
    /\ phase[t] = "closing" /\ ~cut[t]
    /\ phase' = [phase EXCEPT ![t] = "over"]
    /\ hist' = hist
    /\ Save(t)
    /\ UNCHANGED <<batch, job, denied, cut, question, remembered, halted, interrupted>>

-----------------------------------------------------------------------------
(* A batch: every call is checked in order, then all of them run.          *)

Unchecked(t) == {i \in DOMAIN job[t] : job[t][i] \in {"unchecked", "asked"}}
NextCheck(t) == CHOOSE i \in Unchecked(t) : \A k \in Unchecked(t) : i <= k
Become(t, i, s) == job' = [job EXCEPT ![t][i] = s]

(* check_approval: what is not of low risk, and not remembered.            *)
NeedsApproval(t, i) == batch[t][i] = "risky" /\ t \notin remembered

Check(t) ==
    /\ phase[t] = "check" /\ ~cut[t] /\ Unchecked(t) # {}
    /\ LET i == NextCheck(t)
       IN  /\ job[t][i] = "unchecked"
           /\ Become(t, i, CASE batch[t][i] = "unknown" -> "denied"
                             [] NeedsApproval(t, i) -> "asked"
                             [] OTHER -> "queued")
    /\ UNCHANGED <<phase, batch, cut, question, remembered, halted, interrupted>> /\ UNCHANGED recordVars

Asked(t) == phase[t] = "check" /\ ~cut[t] /\ Unchecked(t) # {} /\ job[t][NextCheck(t)] = "asked"

(* POST /agents/approval, and the gate that was waiting for it.            *)
Approve(t) ==
    /\ Asked(t)
    /\ Become(t, NextCheck(t), "queued")
    /\ \E remember \in BOOLEAN :
         remembered' = IF remember THEN remembered \cup {t} ELSE remembered
    /\ UNCHANGED <<phase, batch, cut, question, halted, interrupted>> /\ UNCHANGED recordVars

Deny(t) ==
    /\ Asked(t)
    /\ Become(t, NextCheck(t), "denied")
    /\ UNCHANGED <<phase, batch, cut, question, remembered, halted, interrupted>> /\ UNCHANGED recordVars

ApprovalTimesOut(t) == Deny(t)

Dispatch(t) ==
    /\ phase[t] = "check" /\ ~cut[t] /\ Unchecked(t) = {}
    /\ phase' = [phase EXCEPT ![t] = "run"]
    /\ UNCHANGED <<batch, job, cut, question, remembered, halted, interrupted>> /\ UNCHANGED recordVars

(* Questions are detached jobs: they take neither a worker nor a slot.     *)
EveryKindNeedsSlot(kind) == TRUE
NeedsSlot(kind) == kind # "ask"
HeldBy(t) == {i \in DOMAIN job[t] : job[t][i] = "running" /\ NeedsSlot(batch[t][i])}
Holders == UNION {{t} \X HeldBy(t) : t \in Turn}

Running(t) == phase[t] = "run" /\ ~cut[t]

(* The workers of a batch take its calls in order.  A call of call_agent   *)
(* begins the turn of its agent; there is none to begin when the agent is  *)
(* unknown or too deep, and the call answers at once.                      *)
Take(t, i) ==
    /\ Running(t) /\ job[t][i] = "queued" /\ batch[t][i] # "ask"
    /\ Cardinality(Holders) < Slots
    /\ \A k \in 1 .. i - 1 : batch[t][k] = "ask" \/ job[t][k] # "queued"
    /\ Become(t, i, "running")
    /\ LET begun == IF batch[t][i] = "agent" THEN ChildrenOf(t) ELSE {}
       IN  phase' = Set(phase, begun, "model") /\ hist' = Set(hist, begun, <<User>>)
    /\ UNCHANGED <<batch, denied, saved, cut, question, remembered, halted, interrupted>>

(* A tool returns or fails; the retries with corrected parameters are part *)
(* of its run.                                                             *)
Return(t, i) ==
    /\ Running(t) /\ job[t][i] = "running"
    /\ batch[t][i] # "ask" /\ (batch[t][i] = "agent" => ChildrenOf(t) = {})
    /\ Become(t, i, "answered")
    /\ UNCHANGED <<phase, batch, cut, question, remembered, halted, interrupted>> /\ UNCHANGED recordVars

(* call_agent returns what its turn produced, whose session is thrown      *)
(* away; the cancellation of the turn goes on through the call.            *)
ReturnAgent(t, i) ==
    /\ Running(t) /\ job[t][i] = "running" /\ batch[t][i] = "agent"
    /\ \E c \in ChildrenOf(t) :
         /\ phase[c] = "over"
         /\ Become(t, i, IF cut[c] THEN "raised" ELSE "answered")
         /\ phase' = Set(phase, {c}, "idle") /\ cut' = Set(cut, {c}, FALSE)
         /\ hist' = Set(hist, {c}, <<>>) /\ denied' = Set(denied, {c}, <<>>)
         /\ interrupted' = interrupted \ {c}
    /\ UNCHANGED <<batch, saved, question, remembered, halted>>

OutcomeOf(t, i) == IF Done(t, i) THEN job[t][i] ELSE "stopped"
ResultsOfCompleted(t) ==
    LET done == SelectSeq([i \in DOMAIN job[t] |-> i], LAMBDA i : Done(t, i))
    IN  [k \in DOMAIN done |-> Result(done[k], OutcomeOf(t, done[k]))]
Results(t) == [i \in DOMAIN job[t] |-> Result(i, OutcomeOf(t, i))]

(* Every call has its result: they are recorded before anything is sent to *)
(* the browser, and the model is asked again, unless the same batch was    *)
(* denied as a whole twice in a row.                                       *)
SettleBatch(t) ==
    /\ Running(t) /\ \A i \in DOMAIN job[t] : Done(t, i)
    /\ hist' = [hist EXCEPT ![t] = @ \o Results(t)]
    /\ LET blocked == \A i \in DOMAIN job[t] : job[t][i] = "denied"
       IN  /\ phase' = [phase EXCEPT ![t] =
                       IF blocked /\ denied[t] = batch[t] THEN "closing" ELSE "model"]
           /\ denied' = [denied EXCEPT ![t] = IF blocked THEN batch[t] ELSE <<>>]
    /\ batch' = [batch EXCEPT ![t] = <<>>] /\ job' = [job EXCEPT ![t] = <<>>]
    /\ UNCHANGED <<saved, cut, question, remembered, halted, interrupted>>

-----------------------------------------------------------------------------
(* Questions.  One may be pending per stream; the future of a question is  *)
(* resolved once.                                                          *)

Pending(r) == question[r] # NoQuestion
Open(r) == Pending(r) /\ question[r].future = "open"
Resolve(r, how) == question' = [question EXCEPT ![r].future = how]

Park(t, i) ==
    /\ Running(t) /\ job[t][i] = "queued" /\ batch[t][i] = "ask"
    /\ IF Pending(StreamOf(t))
       THEN Become(t, i, "answered") /\ question' = question
       ELSE /\ Become(t, i, "running")
            /\ \E timer \in BOOLEAN :
                 question' = [question EXCEPT ![StreamOf(t)] =
                   [turn |-> t, call |-> i, future |-> "open", timer |-> timer, due |-> FALSE]]
    /\ UNCHANGED <<phase, batch, cut, remembered, halted, interrupted>> /\ UNCHANGED recordVars

(* POST /agents/question.                                                  *)
AnswerQuestion(r) ==
    /\ Open(r)
    /\ Resolve(r, "answer")
    /\ UNCHANGED <<phase, batch, job, cut, remembered, halted, interrupted>> /\ UNCHANGED recordVars

CancelQuestion(r) ==
    /\ Open(r)
    /\ Resolve(r, "cancelled")
    /\ UNCHANGED <<phase, batch, job, cut, remembered, halted, interrupted>> /\ UNCHANGED recordVars

StopTimer(r) ==
    /\ Open(r) /\ question[r].timer
    /\ question' = [question EXCEPT ![r].timer = FALSE]
    /\ UNCHANGED <<phase, batch, job, cut, remembered, halted, interrupted>> /\ UNCHANGED recordVars

(* The wait of sixty seconds ends; the question is looked at again when    *)
(* its task runs, and the user may have been faster.                       *)
Expire(r) ==
    /\ Open(r) /\ question[r].timer /\ ~question[r].due
    /\ question' = [question EXCEPT ![r].due = TRUE]
    /\ UNCHANGED <<phase, batch, job, cut, remembered, halted, interrupted>> /\ UNCHANGED recordVars

AutoSubmitUnchecked(r) ==
    /\ Open(r) /\ question[r].due
    /\ Resolve(r, "auto")
    /\ UNCHANGED <<phase, batch, job, cut, remembered, halted, interrupted>> /\ UNCHANGED recordVars

AutoSubmit(r) ==
    /\ Open(r) /\ question[r].due /\ question[r].timer
    /\ Resolve(r, "auto")
    /\ UNCHANGED <<phase, batch, job, cut, remembered, halted, interrupted>> /\ UNCHANGED recordVars

(* The task of the question resumes with the future's result.              *)
ForgetResumed(t, q) ==
    [r \in Streams |-> IF q[r].turn = t /\ ~cut[t] THEN NoQuestion ELSE q[r]]
ForgetQuestion(t, q) == [r \in Streams |-> IF q[r].turn = t THEN NoQuestion ELSE q[r]]

Resume(t) ==
    /\ Running(t)
    /\ LET q == question[StreamOf(t)]
       IN  /\ q.turn = t /\ q.future # "open"
           /\ Become(t, q.call, IF q.future = "cancelled" THEN "raised" ELSE "answered")
    /\ question' = ForgetQuestion(t, question)
    /\ UNCHANGED <<phase, batch, cut, remembered, halted, interrupted>> /\ UNCHANGED recordVars

-----------------------------------------------------------------------------
(* Cancellation.  A stop reaches at once everything the turn's task waits  *)
(* for, delegated turns included, and may be repeated.                     *)

CutAll(T) == cut' = [t \in Turn |-> cut[t] \/ (t \in T /\ Active(t))]

(* A stop that meets the wait for cancelled calls (cancel_workers) makes   *)
(* the batch forget which of its calls had completed.                      *)
Ending(t) == phase[t] = "run" /\ cut[t]
Forgotten(t) == [i \in DOMAIN job[t] |-> IF Done(t, i) THEN "raised" ELSE job[t][i]]

StopTurn(r) ==
    /\ Active(r)
    /\ halted' = [halted EXCEPT ![r] = TRUE]
    /\ IF Open(r) THEN Resolve(r, "cancelled") ELSE question' = question
    /\ CutAll(Family(r))
    /\ \E T \in SUBSET Family(r) :
         job' = [t \in Turn |-> IF t \in T /\ Ending(t) THEN Forgotten(t) ELSE job[t]]
    /\ UNCHANGED <<phase, batch, remembered, interrupted>> /\ UNCHANGED recordVars

(* A call raised the cancellation of its question: the batch is cancelled, *)
(* and so are the calls that still run in it.                              *)
CancelBatch(t) ==
    /\ Running(t) /\ \E i \in DOMAIN job[t] : job[t][i] = "raised"
    /\ CutAll(Family(t))
    /\ UNCHANGED <<phase, batch, job, question, remembered, halted, interrupted>>
    /\ UNCHANGED recordVars

(* The turn ends as stopped once the turn it delegated to has: completed   *)
(* calls keep their results, the others get a stopped one.                 *)
Stopped(t) ==
    /\ cut[t] /\ Active(t) /\ phase[t] # "unwinding"
    /\ \A c \in ChildrenOf(t) : ~Active(c)

StopResults(t) == [i \in DOMAIN job[t] |-> Result(i, "stopped")]

(* The history is saved in a shielded write.                               *)
UnwindTurn(t) ==
    /\ Stopped(t)
    /\ LET C == ChildrenOf(t)
       IN  /\ phase' = [Set(phase, C, "idle") EXCEPT ![t] = "over"] /\ cut' = Set(cut, C, FALSE)
           /\ hist' = [Set(hist, C, <<>>) EXCEPT ![t] = @ \o Results(t)]
           /\ denied' = Set(denied, C, <<>>) /\ interrupted' = interrupted \ C
    /\ Save(t)
    /\ batch' = [batch EXCEPT ![t] = <<>>] /\ job' = [job EXCEPT ![t] = <<>>]
    /\ question' = ForgetQuestion(t, question)
    /\ UNCHANGED <<remembered, halted>>

(* The results of completed calls are recorded, then sent to the browser,  *)
(* which may have to wait: only after that the batch is forgotten.         *)
SendCompleted(t) ==
    /\ Stopped(t) /\ \E i \in DOMAIN job[t] : Done(t, i)
    /\ LET C == ChildrenOf(t)
       IN  /\ phase' = [Set(phase, C, "idle") EXCEPT ![t] = "unwinding"]
           /\ cut' = Set(cut, C \cup {t}, FALSE)
           /\ hist' = [Set(hist, C, <<>>) EXCEPT ![t] = @ \o Results(t)]
           /\ denied' = Set(denied, C, <<>>) /\ interrupted' = interrupted \ C
    /\ job' = [job EXCEPT ![t] = [i \in DOMAIN @ |-> "raised"]]
    /\ question' = ForgetQuestion(t, question)
    /\ UNCHANGED <<batch, saved, remembered, halted>>

(* Stopped while it sends, the turn records a stopped result for each call *)
(* of the batch once more.                                                 *)
EndUnwind(t) ==
    /\ phase[t] = "unwinding"
    /\ phase' = [phase EXCEPT ![t] = "over"] /\ cut' = [cut EXCEPT ![t] = TRUE]
    /\ hist' = [hist EXCEPT ![t] = IF cut[t] THEN @ \o StopResults(t) ELSE @]
    /\ interrupted' = IF cut[t] THEN interrupted \cup {t} ELSE interrupted
    /\ Save(t)
    /\ batch' = [batch EXCEPT ![t] = <<>>] /\ job' = [job EXCEPT ![t] = <<>>]
    /\ UNCHANGED <<denied, question, remembered, halted>>

-----------------------------------------------------------------------------
Starts(t) == \E i \in DOMAIN job[t] : Take(t, i)

TurnStep(t) ==
    \/ Issue(t) \/ EndRounds(t) \/ CloseTurn(t) \/ Check(t) \/ Dispatch(t) \/ SettleBatch(t)
    \/ ApprovalTimesOut(t) \/ Resume(t) \/ CancelBatch(t)
    \/ UnwindTurn(t) \/ SendCompleted(t) \/ EndUnwind(t)
    \/ \E i \in DOMAIN job[t] : Return(t, i) \/ ReturnAgent(t, i) \/ Park(t, i)

Clock(r) == Expire(r) \/ AutoSubmit(r)

TurnsNext ==
    \/ \E t \in Turn : TurnStep(t) \/ Starts(t) \/ Approve(t) \/ Deny(t)
    \/ \E r \in Streams : Begin(r) \/ Clock(r) \/ StopTurn(r)
    \/ \E r \in Streams : AnswerQuestion(r) \/ CancelQuestion(r) \/ StopTimer(r)

(* Nothing is expected of the user: the loop runs its ready tasks, timers  *)
(* fire, models answer or time out, tools return, and the semaphore of the *)
(* slots serves its waiters in order.                                      *)
TurnsFairness ==
    /\ \A t \in Turn : WF_loopVars(TurnStep(t)) /\ SF_loopVars(Starts(t))
    /\ \A r \in Streams : WF_loopVars(Clock(r))

TurnsSpec == TurnsInit /\ [][TurnsNext]_loopVars /\ TurnsFairness

-----------------------------------------------------------------------------
(* The tool-call protocol (agents/base.py: every call gets exactly one     *)
(* answer): what the model is asked with, and what a turn that is over     *)
(* leaves in the session's row, has the results of every batch right after *)
(* the message that issued it, one per call and in its order; unless a     *)
(* stop came while the results of a cancelled batch were being sent.       *)
Paired(h) ==
    \A k \in DOMAIN h : h[k].type = "calls" =>
        /\ k + h[k].n <= Len(h)
        /\ \A i \in 1 .. h[k].n : h[k + i].type = "result" /\ h[k + i].call = i
        /\ k + h[k].n < Len(h) => h[k + h[k].n + 1].type # "result"

ProtocolClosed ==
    \A t \in Turn :
        /\ phase[t] = "model" \/ (phase[t] = "over" /\ t \notin interrupted) => Paired(hist[t])
        /\ phase[t] = "over" /\ t \in Streams => saved[t] = hist[t]

(* A pending question is that of a call that waits for it in a live turn:  *)
(* every way a turn can end removes the entry, which would otherwise make  *)
(* the stream refuse its next question.                                    *)
QuestionsWaited ==
    \A r \in Streams : Pending(r) =>
        LET q == question[r]
        IN  /\ q.turn \in Family(r) /\ phase[q.turn] = "run"
            /\ q.call \in DOMAIN job[q.turn] /\ job[q.turn][q.call] = "running"

(* The user's word on a question holds: one that was answered or cancelled *)
(* keeps that result until its call resumes, and one whose timer was       *)
(* stopped is never submitted for the user, however late the click.        *)
UsersWord ==
    [][\A r \in Streams : Pending(r) /\ question'[r] # NoQuestion =>
         LET old == question[r]  new == question'[r]
         IN  /\ old.future # "open" => new.future = old.future
             /\ ~old.timer => ~new.timer /\ (new.future = "auto" => old.future = "auto")]_loopVars

(* A question and the word given on it live exactly as long as the call.   *)
QuestionsHold == []QuestionsWaited /\ UsersWord

(* A turn ends without the user, except while it waits for the answer to a *)
(* question that has no timer; nobody else's question holds it up, and a   *)
(* turn its user stopped ends whatever it was waiting for.                 *)
AwaitsUser(r) == Open(r) /\ ~question[r].timer
LoopEnds == \A r \in Streams : Active(r) ~> (phase[r] = "over" \/ (AwaitsUser(r) /\ ~halted[r]))
=============================================================================
