----------------------------- MODULE Chat_proofs -----------------------------
(***************************************************************************)
(* The turn of a browser stream, the loop it runs and the connections its  *)
(* tools work over.                                                        *)
(*                                                                         *)
(* ChatStream, for any number of connections, turns and events and any     *)
(* queue size: somebody has the turn as long as the browser is refused a   *)
(* new one, a stop is reported as a stop, and its events arrive in their   *)
(* order.  One connection is inside the consumer lock, what it holds tells *)
(* where it is, and only the turn itself is an Action.  Held: exactly one  *)
(* place has the turn.  Stops: the stop flag is the word of the browser on *)
(* the turn that is pending, and a turn that stops without it had its      *)
(* question cancelled.  Drained and Ordered: see below.                    *)
(*                                                                         *)
(* McpConnections, for any number of tool calls, servers, connections,     *)
(* failures and restarts.  A connection belongs to one server (Owned).     *)
(* Tool calls that change a server at the same time have spoiled what they *)
(* work on (Met); a single one works on the connection its server has      *)
(* registered, or both are spoiled (Follows).  So a stack that is          *)
(* overwritten or removed takes no open connection with it that nobody     *)
(* spoiled (Closable), and at a server nobody has doubts about the         *)
(* registrations agree, and the connection they name is open or died on    *)
(* its own (Steady).                                                       *)
(*                                                                         *)
(* SessionTurns, for any number of turns and slots and any batches: the    *)
(* history of a turn is in order up to the batch that runs, and that one   *)
(* waits for as many results as it has calls; a cancelled batch whose      *)
(* results are being sent has them, until a stop meets the turn there      *)
(* (InProtocol); a delegated turn goes on only while the call that runs it *)
(* does (Delegating), a question only while the call that asked it does    *)
(* (Awaited).                                                              *)
(***************************************************************************)
EXTENDS ChatStream, McpConnections, SessionTurns, FiniteSetTheorems, TLAPS

Number == Nat \ {0}
Outs == [open : BOOLEAN, items : Seq(Number), terminal : AtMostOne(Number)]

Types ==
    /\ pending \in BOOLEAN /\ stop \in BOOLEAN /\ posting \in BOOLEAN /\ queued \in BOOLEAN
    /\ task \in {"none", "created", "running", "emitting", "cleanup"}
    /\ ending \in {"complete", "stopped"}
    /\ emitted \in Nat /\ generation \in Nat
    /\ out \in Outs
    /\ replay \in AtMostOne(Nat)
    /\ pc \in [Consumers -> {"new", "lock", "gone"} \cup Inside]
    /\ hand \in [Consumers -> AtMostOne(Nat)]

\* A connection at this place may hold h while r waits to be replayed and t is
\* the terminal event.
Fits(place, h, r, t) ==
    /\ place \in {"got", "settle", "send"} => h # <<>>
    /\ h # <<>> => place \in {"got", "settle", "send"}
    /\ place = "send" => h # <<Action>>
    /\ r # <<>> /\ place \in Inside => place = "peek"
    /\ place = "ended" => t # <<>>

Shape ==
    /\ Types
    /\ \A c \in Consumers : Fits(pc[c], hand[c], replay, out.terminal)
    /\ \A c, d \in Consumers : pc[c] \in Inside /\ pc[d] \in Inside => c = d

InHands == \E c \in Consumers : hand[c] = <<Action>>

Held ==
    /\ pending <=> (posting \/ queued \/ InHands \/ replay = <<Action>>
                      \/ task # "none" \/ "action" \in lost)
    /\ posting => ~(queued \/ InHands \/ replay = <<Action>> \/ task # "none" \/ "action" \in lost)
    /\ queued => ~(InHands \/ replay = <<Action>> \/ task # "none" \/ "action" \in lost)
    /\ InHands => ~(replay = <<Action>> \/ task # "none" \/ "action" \in lost)
    /\ replay = <<Action>> => ~(task # "none" \/ "action" \in lost)
    /\ task # "none" => "action" \notin lost

Stops ==
    /\ turns \in 0..MaxTurns
    /\ stopped \subseteq 1..turns /\ withdrawn \subseteq 1..turns
    /\ verdict \in [1..MaxTurns -> {"none", "complete", "stopped", "error"}]
    /\ pending => turns \in 1..MaxTurns /\ verdict[turns] = "none" /\ (stop <=> turns \in stopped)
    /\ \A t \in 1..MaxTurns : t > turns => verdict[t] = "none"
    /\ task # "none" /\ ending = "stopped" => stop \/ turns \in withdrawn
    /\ pending /\ turns \in withdrawn => task = "cleanup" /\ ending = "stopped"
    /\ StopHonored

IInv == Shape /\ Held /\ Stops

-----------------------------------------------------------------------------

\* Where the turn is, one place at most, is what the property says of the set
\* of places.
LEMMA HeldSuffices == Held => TurnHeld
BY DEF Held, TurnHeld, Whereabouts, InHands

\* The items of the two kinds of sequence.
LEMMA OneItem ==
    ASSUME NEW S, NEW s \in AtMostOne(S), s # <<>>
    PROVE  Head(s) \in S /\ s = <<Head(s)>>
BY DEF AtMostOne

LEMMA FirstItem ==
    ASSUME NEW s \in Seq(Number), s # <<>>
    PROVE  Head(s) \in Number /\ Tail(s) \in Seq(Number)
OBVIOUS

\* An output that is closed, or has just been opened.
LEMMA NewOuts == Closed \in Outs /\ [Closed EXCEPT !.open = TRUE] \in Outs
<1>1. <<>> \in Seq(Number)
    OBVIOUS
<1>2. <<>> \in AtMostOne(Number)
    BY DEF AtMostOne
<1> QED
    BY <1>1, <1>2 DEF Outs, Closed

\* One connection moves while no other is inside the lock.
LEMMA Moves ==
    ASSUME Shape, Types', NEW c \in Consumers,
           NEW place \in {"new", "lock", "gone"} \cup Inside, NEW h \in AtMostOne(Nat),
           pc' = [pc EXCEPT ![c] = place], hand' = [hand EXCEPT ![c] = h],
           \A d \in Consumers : d # c => pc[d] \notin Inside,
           Fits(place, h, replay', out'.terminal)
    PROVE  Shape'
BY DEF Shape, Types, Fits, Inside

LEMMA InitInv == Init => IInv
<1> SUFFICES ASSUME Init PROVE IInv
    OBVIOUS
<1> USE StreamAssumption DEF Init
<1>0. out \in Outs
    BY NewOuts
<1>1. Types
    BY <1>0 DEF Types, AtMostOne, Inside
<1>2. Shape
    BY <1>1 DEF Shape, Fits, Inside
<1>3. Held
    BY DEF Held, InHands, Action
<1>4. Stops
    BY DEF Stops, StopHonored
<1> QED
    BY <1>2, <1>3, <1>4 DEF IInv

\* A connection yields an event, or drops it and leaves.
LEMMA Yielded ==
    ASSUME Shape, NEW c \in Consumers, pc[c] \in Inside, NEW event \in Number,
           Yield(c, event), out' \in Outs, queued' \in BOOLEAN, replay' = <<>>,
           UNCHANGED <<turnVars, emitted, generation>>
    PROVE  Shape'
<1>1. Types /\ \A d \in Consumers : d # c => pc[d] \notin Inside
    BY DEF Shape
<1>2. PICK place \in {"gone", "send"}, h \in {<<>>, <<event>>} :
          /\ pc' = [pc EXCEPT ![c] = place] /\ hand' = [hand EXCEPT ![c] = h]
          /\ h = IF place = "send" THEN <<event>> ELSE <<>>
    BY DEF Yield, To, Hold
<1>3. h \in AtMostOne(Nat) /\ <<>> \in AtMostOne(Nat)
    BY DEF AtMostOne, Number
<1>4. Types'
  <2>1. pc' \in [Consumers -> {"new", "lock", "gone"} \cup Inside]
      BY <1>1, <1>2 DEF Types, Inside
  <2>2. hand' \in [Consumers -> AtMostOne(Nat)]
      BY <1>1, <1>2, <1>3 DEF Types
  <2>3. UNCHANGED <<task, ending>>
      BY DEF Yield
  <2> QED
      BY <1>1, <1>3, <2>1, <2>2, <2>3 DEF Types, turnVars
<1>5. Fits(place, h, replay', out'.terminal)
  <2>1. <<event>> # <<Action>> /\ <<event>> # <<>>
      BY DEF Number, Action
  <2> QED
      BY <1>2, <2>1 DEF Fits
<1> QED
    BY <1>1, <1>2, <1>3, <1>4, <1>5, Moves DEF Inside

\* An item from a queue is the turn, which is started, or an event.
LEMMA Handled ==
    ASSUME Shape, NEW c \in Consumers, pc[c] \in Inside, NEW item \in Nat,
           NEW o \in Outs, Handle(c, item, o), queued' \in BOOLEAN, replay' = <<>>
    PROVE  Shape'
<1>1. Types /\ \A d \in Consumers : d # c => pc[d] \notin Inside
    BY DEF Shape
<1>2. CASE item = Action
  <2>1. PICK place \in {"gone", "peek"} : pc' = [pc EXCEPT ![c] = place]
      BY <1>2 DEF Handle, Launch, Again, To
  <2>2. hand' = [hand EXCEPT ![c] = <<>>] /\ <<>> \in AtMostOne(Nat)
      BY <1>2 DEF Handle, Launch, Hold, AtMostOne
  <2>3. Types'
    <3>1. pc' \in [Consumers -> {"new", "lock", "gone"} \cup Inside]
        BY <1>1, <2>1 DEF Types, Inside
    <3>2. hand' \in [Consumers -> AtMostOne(Nat)]
        BY <1>1, <2>2 DEF Types
    <3>3. out' \in Outs /\ task' = "created" /\ ending' = "complete"
        BY <1>2, NewOuts DEF Handle, Launch
    <3> QED
        BY <1>1, <2>2, <3>1, <3>2, <3>3 DEF Types, Handle, turnVars
  <2>4. Fits(place, <<>>, replay', out'.terminal)
      BY <2>1 DEF Fits, Action
  <2> QED
      BY <1>1, <2>1, <2>2, <2>3, <2>4, Moves DEF Inside
<1>3. CASE item # Action
  <2>1. Yield(c, item) /\ out' = o /\ item \in Number
      BY <1>3 DEF Handle, Number, Action
  <2> QED
      BY <2>1, Yielded DEF Handle
<1> QED
    BY <1>2, <1>3

\* The turn and its task do not touch the connections.
LEMMA ShapeOfTurn ==
    Shape /\ (Post \/ Posts \/ Stop \/ WithdrawQuestion \/ Works) => Shape'
<1> SUFFICES ASSUME Shape, Post \/ Posts \/ Stop \/ WithdrawQuestion \/ Works PROVE Shape'
    OBVIOUS
<1>1. UNCHANGED <<pc, hand, replay, generation>>
    BY DEF Post, Posts, PostPut, PostFail, Stop, WithdrawQuestion, Works, Start, Want, Put,
        Finish, Complete, readVars
<1>2. out' \in Outs
  <2>1. CASE Put
    <3>1. Append(out.items, emitted + 1) \in Seq(Number)
        BY DEF Shape, Types, Outs, Number
    <3> QED
        BY <2>1, <3>1 DEF Put, Shape, Types, Outs
  <2>2. CASE Complete
    <3>1. <<emitted + 1>> \in AtMostOne(Number)
        BY DEF Shape, Types, AtMostOne, Number
    <3> QED
        BY <2>2, <3>1 DEF Complete, Shape, Types, Outs
  <2>3. CASE ~(Put \/ Complete)
      BY <2>3 DEF Shape, Types, Post, Posts, PostPut, PostFail, Stop, WithdrawQuestion, Works, Start, Want,
          Finish
  <2> QED
      BY <2>1, <2>2, <2>3
<1>3. Types
    BY DEF Shape
<1>4. /\ pending' \in BOOLEAN /\ stop' \in BOOLEAN /\ posting' \in BOOLEAN /\ queued' \in BOOLEAN
      /\ task' \in {"none", "created", "running", "emitting", "cleanup"}
      /\ ending' \in {"complete", "stopped"}
      /\ emitted' \in Nat
      /\ out.terminal # <<>> => out'.terminal # <<>>
  <2> USE <1>3 DEF Types, Release, FinishTurn, turnVars, taskVars
  <2>1. CASE Post \/ Posts
      BY <2>1 DEF Post, Posts, PostPut, PostFail
  <2>2. CASE Stop
      BY <2>2 DEF Stop
  <2>3. CASE Start \/ Want \/ Finish \/ WithdrawQuestion
      BY <2>3 DEF Start, Want, Finish, WithdrawQuestion
  <2>4. CASE Put
      BY <2>4 DEF Put, Outs
  <2>5. CASE Complete
    <3>1. /\ UNCHANGED <<posting, queued, ending>>
          /\ task' = "none" /\ pending' = FALSE /\ stop' = FALSE
          /\ emitted' = emitted + 1
        BY <2>5 DEF Complete
    <3>2. out'.terminal = <<emitted + 1>> /\ <<emitted + 1>> # <<>>
        BY <2>5 DEF Complete, Outs
    <3>3. out'.terminal # <<>>
        BY <3>2
    <3>4. posting' \in BOOLEAN /\ queued' \in BOOLEAN /\ pending' \in BOOLEAN /\ stop' \in BOOLEAN
        BY <3>1, Zenon
    <3>5. task' \in {"none", "created", "running", "emitting", "cleanup"}
        BY <3>1
    <3>6. ending' \in {"complete", "stopped"} /\ emitted' \in Nat
        BY <3>1
    <3> QED
        BY <3>3, <3>4, <3>5, <3>6
  <2> QED
      BY <2>1, <2>2, <2>3, <2>4, <2>5 DEF Works
<1>5. Types'
    BY <1>1, <1>2, <1>3, <1>4 DEF Types
<1> QED
    BY <1>1, <1>4, <1>5 DEF Shape, Fits

LEMMA ShapeOfReader ==
    ASSUME Shape, NEW c \in Consumers, Reads(c) \/ Disconnect(c)
    PROVE  Shape'
<1>0. /\ Types /\ <<>> \in AtMostOne(Nat)
      /\ hand[c] \in AtMostOne(Nat) /\ replay \in AtMostOne(Nat)
      /\ Fits(pc[c], hand[c], replay, out.terminal)
      /\ pc[c] \in Inside => \A d \in Consumers : d # c => pc[d] \notin Inside
    BY DEF Shape, Types, AtMostOne
<1>1. ASSUME NEW place \in {"new", "lock", "gone"} \cup Inside, NEW h \in AtMostOne(Nat),
             pc' = [pc EXCEPT ![c] = place], hand' = [hand EXCEPT ![c] = h],
             replay' \in AtMostOne(Nat), out' \in Outs, queued' \in BOOLEAN, generation' \in Nat,
             UNCHANGED <<turnVars, taskVars>>
      PROVE  Types'
    BY <1>0, <1>1 DEF Types, turnVars, taskVars
<1>a. ASSUME NEW place \in {"new", "lock", "gone"} \cup Inside, NEW h \in AtMostOne(Nat),
             pc' = [pc EXCEPT ![c] = place], hand' = [hand EXCEPT ![c] = h],
             replay' \in AtMostOne(Nat), out' \in Outs, queued' \in BOOLEAN,
             UNCHANGED <<turnVars, taskVars, generation>>,
             \A d \in Consumers : d # c => pc[d] \notin Inside,
             Fits(place, h, replay', out'.terminal)
      PROVE  Shape'
    BY <1>0, <1>1, <1>a, Moves DEF Types
<1>b. hand = [hand EXCEPT ![c] = hand[c]]
    BY <1>0 DEF Types
<1>2. CASE Claim(c)
  <2>1. pc' = [pc EXCEPT ![c] = "lock"] /\ hand[c] = <<>>
      BY <1>0, <1>2 DEF Claim, To, Fits, Types
  <2>2. Types'
    <3>1. c \in Nat
        BY StreamAssumption DEF Consumers
    <3> QED
        BY <1>0, <1>1, <1>b, <1>2, <2>1, <3>1 DEF Types, Claim
  <2>3. \A d \in Consumers : Fits(pc'[d], hand'[d], replay', out'.terminal)
      BY <1>0, <1>2, <2>1 DEF Shape, Types, Claim, Fits, Inside
  <2>4. \A d \in Consumers : pc'[d] \in Inside => pc[d] \in Inside
      BY <1>0, <2>1 DEF Types, Inside
  <2> QED
      BY <2>2, <2>3, <2>4 DEF Shape
<1>3. CASE Acquire(c)
  <2>1. PICK place \in {"gone", "peek"} : pc' = [pc EXCEPT ![c] = place]
      BY <1>3 DEF Acquire, Again, To
  <2>2. Fits(place, hand[c], replay, out.terminal)
      BY <1>0, <1>3, <2>1 DEF Acquire, Fits, Inside
  <2>3. \A d \in Consumers : pc[d] \notin Inside
      BY <1>3 DEF Acquire, Free
  <2> QED
      BY <1>0, <1>3, <1>a, <1>b, <2>1, <2>2, <2>3 DEF Acquire, Types, Inside
<1>4. CASE PeekReplay(c)
  <2>1. Head(replay) \in Nat /\ pc[c] \in Inside /\ replay' = <<>>
      BY <1>0, <1>4, OneItem DEF PeekReplay, Inside
  <2> QED
      BY <1>0, <1>4, <2>1, Handled DEF PeekReplay, Types
<1>5. Readable # <<>> => Head(Readable) \in Nat /\ Rest \in Outs /\ Left \in BOOLEAN
                           /\ Rest.terminal = out.terminal
  <2>1. CASE out.open
      BY <1>0, <2>1, FirstItem DEF Readable, Rest, Left, Types, Outs, Number
  <2>2. CASE ~out.open
      BY <1>0, <2>2 DEF Readable, Rest, Left, Types, Action, Outs
  <2> QED
      BY <2>1, <2>2
<1>6. CASE PeekQueue(c)
  <2>1. pc[c] \in Inside /\ replay' = <<>>
      BY <1>6 DEF PeekQueue, Inside
  <2> QED
      BY <1>5, <1>6, <2>1, Handled DEF PeekQueue
<1>7. ASSUME pc[c] \in Inside, replay = <<>>, out.terminal # <<>>, Close(c)
      PROVE  Shape'
  <2>1. Head(out.terminal) \in Number
      BY <1>0, <1>7, OneItem DEF Types, Outs
  <2> QED
      BY <1>0, <1>7, <2>1, NewOuts, Yielded DEF Close, Types
<1>8. CASE PeekTerminal(c)
    BY <1>7, <1>8 DEF PeekTerminal, Ended, Inside
<1>9. CASE PeekNothing(c)
  <2>1. pc' = [pc EXCEPT ![c] = "wait"] /\ pc[c] \in Inside /\ Fits("wait", hand[c], replay, out.terminal)
      BY <1>0, <1>9 DEF PeekNothing, To, Fits, Inside
  <2> QED
      BY <1>0, <1>9, <1>a, <1>b, <2>1 DEF PeekNothing, Types, Inside
<1>10. CASE GetDone(c)
  <2> DEFINE item == Head(Readable)
  <2>1. item \in Nat /\ <<item>> \in AtMostOne(Nat)
      BY <1>5, <1>10 DEF GetDone, AtMostOne
  <2>2. pc[c] \in Inside /\ replay = <<>> /\ Fits("got", <<item>>, replay, out.terminal)
      BY <1>0, <1>10 DEF GetDone, Fits, Inside
  <2> HIDE DEF item
  <2>3. pc' = [pc EXCEPT ![c] = "got"] /\ hand' = [hand EXCEPT ![c] = <<item>>]
      BY <1>10 DEF GetDone, To, Hold, item
  <2> QED
      BY <1>0, <1>5, <1>10, <1>a, <2>1, <2>2, <2>3 DEF GetDone, Types, Inside
<1>11. CASE WakeSuperseded(c)
  <2>1. /\ pc' = [pc EXCEPT ![c] = "gone"] /\ hand' = [hand EXCEPT ![c] = <<>>]
        /\ replay' = hand[c] /\ pc[c] \in Inside /\ Fits("gone", <<>>, replay', out'.terminal)
      BY <1>11 DEF WakeSuperseded, Preserved, To, Hold, Fits, Inside
  <2> QED
      BY <1>0, <1>11, <1>a, <2>1 DEF WakeSuperseded, Types, Inside
<1>12. CASE Wake(c)
  <2>1. PICK place \in {"settle", "ended"} :
            pc' = [pc EXCEPT ![c] = place] /\ pc[c] \in Inside /\ Fits(place, hand[c], replay, out.terminal)
      BY <1>0, <1>12 DEF Wake, Ended, To, Fits, Inside
  <2> QED
      BY <1>0, <1>12, <1>a, <1>b, <2>1 DEF Wake, Types, Inside
<1>13. CASE Timeout(c)
  <2>1. PICK place \in {"gone", "peek"} :
            pc' = [pc EXCEPT ![c] = place] /\ pc[c] \in Inside /\ Fits(place, hand[c], replay, out.terminal)
      BY <1>0, <1>13 DEF Timeout, Again, To, Fits, Inside
  <2> QED
      BY <1>0, <1>13, <1>a, <1>b, <2>1 DEF Timeout, Types, Inside
<1>14. CASE Settle(c)
  <2>1. pc[c] \in Inside /\ replay = <<>>
      BY <1>0, <1>14 DEF Settle, Fits, Inside
  <2>2. CASE pc[c] = "settle"
    <3>1. Head(hand[c]) \in Nat
        BY <1>0, <2>2, OneItem DEF Fits
    <3> QED
        BY <1>0, <1>14, <2>1, <2>2, <3>1, Handled DEF Settle, Types
  <2>3. CASE pc[c] = "ended"
      BY <1>0, <1>7, <1>14, <2>1, <2>3 DEF Settle, Fits
  <2> QED
      BY <1>14, <2>2, <2>3 DEF Settle
<1>15. CASE Sent(c)
  <2>1. PICK place \in {"gone", "peek"} :
            /\ pc' = [pc EXCEPT ![c] = place] /\ hand' = [hand EXCEPT ![c] = <<>>]
            /\ pc[c] \in Inside /\ Fits(place, <<>>, replay, out.terminal)
      BY <1>0, <1>15 DEF Sent, Again, To, Hold, Fits, Inside
  <2> QED
      BY <1>0, <1>15, <1>a, <2>1 DEF Sent, Types, Inside
<1>16. CASE Disconnect(c)
  <2>1. pc' = [pc EXCEPT ![c] = "gone"] /\ hand' = [hand EXCEPT ![c] = <<>>]
      BY <1>16 DEF Disconnect, To, Hold
  <2>2. Types'
      BY <1>0, <1>1, <1>16, <2>1 DEF Types, Disconnect
  <2>3. \A d \in Consumers : Fits(pc'[d], hand'[d], replay', out'.terminal)
      BY <1>0, <1>16, <2>1 DEF Shape, Types, Disconnect, Fits, Inside
  <2>4. \A d \in Consumers : pc'[d] \in Inside => pc[d] \in Inside
      BY <1>0, <2>1 DEF Types, Inside
  <2> QED
      BY <2>2, <2>3, <2>4 DEF Shape
<1> QED
    BY <1>2, <1>3, <1>4, <1>6, <1>8, <1>9, <1>10, <1>11, <1>12, <1>13, <1>14, <1>15, <1>16 DEF Reads

-----------------------------------------------------------------------------

\* A connection inside the lock is the only one that holds anything.
LEMMA OneHand ==
    ASSUME Shape, NEW c \in Consumers, pc[c] \in Inside
    PROVE  /\ InHands <=> hand[c] = <<Action>>
           /\ \A d \in Consumers : d # c => hand[d] # <<Action>>
<1>1. \A d \in Consumers : d # c => hand[d] # <<Action>>
    BY DEF Shape, Fits, Inside
<1> QED
    BY <1>1 DEF InHands

LEMMA HandChanges ==
    ASSUME Shape, NEW c \in Consumers, pc[c] \in Inside, NEW h,
           hand' = [hand EXCEPT ![c] = h]
    PROVE  InHands' <=> h = <<Action>>
BY OneHand DEF Shape, Types, InHands

LEMMA HandEmpties ==
    ASSUME Shape, NEW c \in Consumers, pc[c] \in Inside, hand' = [hand EXCEPT ![c] = <<>>]
    PROVE  ~InHands'
<1>1. <<>> # <<Action>>
    OBVIOUS
<1>2. \A h : h = <<>> => (InHands' <=> h = <<Action>>)
    BY HandChanges
<1> QED
    BY <1>1, <1>2

LEMMA NoTurn ==
    ASSUME NEW event \in Number
    PROVE  <<event>> # <<Action>> /\ <<>> # <<Action>>
BY DEF Number, Action

\* Yielding an event moves no turn.
LEMMA YieldMovesNoTurn ==
    ASSUME Shape, NEW c \in Consumers, pc[c] \in Inside, NEW event \in Number, Yield(c, event)
    PROVE  ~InHands' /\ task' = task /\ ("action" \in lost' <=> "action" \in lost)
<1>1. PICK h \in {<<>>, <<event>>} : hand' = [hand EXCEPT ![c] = h]
    BY DEF Yield, Hold
<1>2. h # <<Action>>
    BY <1>1, NoTurn
<1>3. ~InHands'
    BY <1>1, <1>2, HandChanges
<1> QED
    BY <1>3 DEF Yield

\* A connection that handles the turn starts it and holds it no longer.
LEMMA HandleMovesTurn ==
    ASSUME Shape, NEW c \in Consumers, pc[c] \in Inside, NEW item \in Nat,
           NEW o, Handle(c, item, o)
    PROVE  /\ ~InHands' /\ UNCHANGED <<pending, posting>>
           /\ item = Action => task' # "none" /\ lost' = lost
           /\ item # Action => task' = task /\ ("action" \in lost' <=> "action" \in lost)
<1>1. CASE item = Action
  <2>1. hand' = [hand EXCEPT ![c] = <<>>]
      BY <1>1 DEF Handle, Launch, Hold
  <2>3. ~InHands'
      BY <2>1, HandEmpties
  <2> QED
      BY <1>1, <2>3 DEF Handle, Launch, turnVars
<1>2. CASE item # Action
    BY <1>2, YieldMovesNoTurn DEF Handle, Number, Action, turnVars
<1> QED
    BY <1>1, <1>2

\* What is in the queue a connection reads.
LEMMA QueueItems ==
    ASSUME Shape, Readable # <<>>
    PROVE  /\ Head(Readable) \in Nat
           /\ Head(Readable) = Action => queued /\ ~Left
           /\ Head(Readable) # Action => Left = queued
<1>1. Types
    BY DEF Shape
<1>2. CASE out.open
    BY <1>1, <1>2, FirstItem DEF Readable, Left, Types, Outs, Number, Action
<1>3. CASE ~out.open
    BY <1>1, <1>3 DEF Readable, Left, Types, Action
<1> QED
    BY <1>2, <1>3

LEMMA HeldOfTurn ==
    Shape /\ Held /\ (Post \/ Posts \/ Stop \/ WithdrawQuestion \/ Works) => Held'
<1> SUFFICES ASSUME Shape, Held, Post \/ Posts \/ Stop \/ WithdrawQuestion \/ Works PROVE Held'
    OBVIOUS
<1>1. UNCHANGED <<hand, replay, lost>> /\ (InHands' <=> InHands)
    BY DEF Post, Posts, PostPut, PostFail, Stop, WithdrawQuestion, Works, Start, Want, Put,
        Finish, Complete, readVars,
        InHands
<1> USE <1>1 DEF Held
<1>2. CASE Post
    BY <1>2 DEF Post, taskVars
<1>3. CASE PostPut
    BY <1>3 DEF PostPut, taskVars
<1>4. CASE PostFail
    BY <1>4 DEF PostFail, Release, FinishTurn
<1>5. CASE Stop
    BY <1>5 DEF Stop
<1>6. CASE Start \/ Want \/ Put \/ Finish \/ WithdrawQuestion
    BY <1>6 DEF Start, Want, Put, Finish, WithdrawQuestion, turnVars
<1>7. CASE Complete
    BY <1>7 DEF Complete, FinishTurn
<1> QED
    BY <1>2, <1>3, <1>4, <1>5, <1>6, <1>7 DEF Posts, Works

LEMMA HeldOfReader ==
    ASSUME Shape, Held, NEW c \in Consumers, Reads(c) \/ Disconnect(c)
    PROVE  Held'
<1>0. Types /\ Fits(pc[c], hand[c], replay, out.terminal)
    BY DEF Shape
<1>1. CASE Claim(c) \/ Acquire(c) \/ PeekNothing(c) \/ Wake(c) \/ Timeout(c)
    BY <1>1 DEF Claim, Acquire, PeekNothing, Wake, Timeout, turnVars, taskVars, Held, InHands
<1>2. CASE PeekReplay(c)
  <2>1. pc[c] \in Inside /\ hand[c] = <<>> /\ ~InHands
      BY <1>0, <1>2, OneHand DEF PeekReplay, Fits, Inside
  <2>2. Head(replay) \in Nat /\ replay = <<Head(replay)>>
      BY <1>0, <1>2, OneItem DEF PeekReplay, Types
  <2> QED
      BY <1>2, <2>1, <2>2, HandleMovesTurn DEF PeekReplay, Held
<1>3. CASE PeekQueue(c)
  <2>1. pc[c] \in Inside /\ hand[c] = <<>> /\ ~InHands
      BY <1>0, <1>3, OneHand DEF PeekQueue, Fits, Inside
  <2> QED
      BY <1>3, <2>1, QueueItems, HandleMovesTurn DEF PeekQueue, Held
<1>4. ASSUME pc[c] \in Inside, ~InHands, out.terminal # <<>>, Close(c)
      PROVE  Held'
  <2>1. Head(out.terminal) \in Number
      BY <1>0, <1>4, OneItem DEF Types, Outs
  <2> QED
      BY <1>4, <2>1, YieldMovesNoTurn DEF Close, Held, turnVars
<1>5. CASE PeekTerminal(c)
  <2>1. pc[c] \in Inside /\ ~InHands
      BY <1>0, <1>5, OneHand DEF PeekTerminal, Fits, Inside
  <2> QED
      BY <1>4, <1>5, <2>1 DEF PeekTerminal, Ended
<1>6. CASE GetDone(c)
  <2>1. pc[c] \in Inside /\ hand[c] = <<>> /\ ~InHands
      BY <1>0, <1>6, OneHand DEF GetDone, Fits, Inside
  <2>2. InHands' <=> Head(Readable) = Action
    <3>1. hand' = [hand EXCEPT ![c] = <<Head(Readable)>>]
        BY <1>6 DEF GetDone, Hold
    <3>2. InHands' <=> <<Head(Readable)>> = <<Action>>
        BY <2>1, <3>1, HandChanges
    <3> QED
        BY <3>2
  <2> QED
      BY <1>6, <2>1, <2>2, QueueItems DEF GetDone, Held, turnVars, taskVars
<1>7. CASE WakeSuperseded(c)
  <2>1. pc[c] \in Inside /\ replay = <<>> /\ (InHands <=> hand[c] = <<Action>>)
      BY <1>0, <1>7, OneHand DEF WakeSuperseded, Fits, Inside
  <2>2. ~InHands'
    <3>1. hand' = [hand EXCEPT ![c] = <<>>]
        BY <1>7 DEF WakeSuperseded, Hold
    <3> QED
        BY <2>1, <3>1, HandEmpties
  <2> QED
      BY <1>7, <2>1, <2>2 DEF WakeSuperseded, Preserved, Held, turnVars, taskVars
<1>8. CASE Settle(c)
  <2>1. pc[c] \in Inside /\ (InHands <=> hand[c] = <<Action>>)
      BY <1>8, OneHand DEF Settle, Inside
  <2>2. CASE pc[c] = "settle"
    <3>1. Head(hand[c]) \in Nat /\ hand[c] = <<Head(hand[c])>>
        BY <1>0, <2>2, OneItem DEF Fits, Types
    <3> QED
        BY <1>8, <2>1, <2>2, <3>1, HandleMovesTurn DEF Settle, Held
  <2>3. CASE pc[c] = "ended"
      BY <1>0, <1>4, <1>8, <2>1, <2>3 DEF Settle, Fits
  <2> QED
      BY <1>8, <2>2, <2>3 DEF Settle
<1>9. CASE Sent(c)
  <2>1. pc[c] \in Inside /\ ~InHands
      BY <1>0, <1>9, OneHand DEF Sent, Fits, Inside
  <2>2. ~InHands'
    <3>1. hand' = [hand EXCEPT ![c] = <<>>]
        BY <1>9 DEF Sent, Hold
    <3> QED
        BY <2>1, <3>1, HandEmpties
  <2> QED
      BY <1>9, <2>1, <2>2 DEF Sent, Held, turnVars, taskVars
<1>10. CASE Disconnect(c)
  <2>1. CASE pc[c] \in Inside
    <3>1. hand' = [hand EXCEPT ![c] = <<>>] /\ <<>> # <<Action>>
        BY <1>10 DEF Disconnect, Hold
    <3>2. ~InHands' /\ (InHands <=> hand[c] = <<Action>>)
        BY <2>1, <3>1, HandEmpties, OneHand
    <3>3. "action" \in lost' <=> "action" \in lost \/ InHands
        BY <1>10, <3>2, <3>1 DEF Disconnect
    <3> QED
        BY <1>10, <3>2, <3>3 DEF Disconnect, Held, turnVars, taskVars
  <2>2. CASE pc[c] \notin Inside
    <3>1. hand[c] = <<>> /\ hand' = hand
        BY <1>0, <1>10, <2>2 DEF Disconnect, Hold, Types, Fits, Inside
    <3> QED
        BY <1>10, <3>1 DEF Disconnect, Held, InHands, turnVars, taskVars
  <2> QED
      BY <2>1, <2>2
<1> QED
    BY <1>1, <1>2, <1>3, <1>5, <1>6, <1>7, <1>8, <1>9, <1>10 DEF Reads

-----------------------------------------------------------------------------

\* A connection starts the turn at most, which no task has had before.
LEMMA LaunchesOnce ==
    ASSUME Shape, Held, NEW c \in Consumers, Reads(c) \/ Disconnect(c)
    PROVE  UNCHANGED <<task, ending>> \/ (task = "none" /\ ending' = "complete")
<1>0. Types /\ Fits(pc[c], hand[c], replay, out.terminal)
    BY DEF Shape
<1>1. ASSUME NEW item, NEW o, Handle(c, item, o), item = Action => task = "none"
      PROVE  UNCHANGED <<task, ending>> \/ (task = "none" /\ ending' = "complete")
    BY <1>1 DEF Handle, Launch, Yield
<1>2. CASE PeekReplay(c)
  <2>1. replay = <<Head(replay)>>
      BY <1>0, <1>2, OneItem DEF PeekReplay, Types
  <2> QED
      BY <1>1, <1>2, <2>1 DEF PeekReplay, Held
<1>3. CASE PeekQueue(c)
  <2>1. Head(Readable) = Action => queued
      BY <1>3, QueueItems DEF PeekQueue
  <2> QED
      BY <1>1, <1>3, <2>1 DEF PeekQueue, Held
<1>4. CASE Settle(c)
  <2>1. CASE pc[c] = "settle"
    <3>1. hand[c] = <<Head(hand[c])>>
        BY <1>0, <2>1, OneItem DEF Fits, Types
    <3>2. Head(hand[c]) = Action => InHands
        BY <3>1 DEF InHands
    <3> QED
        BY <1>1, <1>4, <2>1, <3>2 DEF Settle, Held
  <2>2. CASE pc[c] = "ended"
      BY <1>4, <2>2 DEF Settle, Close, Yield
  <2> QED
      BY <1>4, <2>1, <2>2 DEF Settle
<1>5. CASE ~(PeekReplay(c) \/ PeekQueue(c) \/ Settle(c))
    BY <1>5 DEF Reads, Claim, Acquire, PeekTerminal, PeekNothing, GetDone, WakeSuperseded, Wake,
        Timeout, Sent, Disconnect, Close, Yield, taskVars
<1> QED
    BY <1>2, <1>3, <1>4, <1>5

LEMMA StopsOfReader ==
    ASSUME Shape, Held, Stops, NEW c \in Consumers, Reads(c) \/ Disconnect(c)
    PROVE  Stops'
<1>1. UNCHANGED <<turnVars, verdict, withdrawn>>
    BY DEF Reads, Claim, Acquire, PeekReplay, PeekQueue, PeekTerminal, PeekNothing, GetDone,
        WakeSuperseded, Wake, Timeout, Settle, Sent, Disconnect, Handle, Close, taskVars
<1>2. UNCHANGED <<task, ending>> \/ (task = "none" /\ ending' = "complete")
    BY LaunchesOnce
<1> QED
    BY <1>1, <1>2 DEF Stops, StopHonored, turnVars

LEMMA StopsOfTurn ==
    Shape /\ Held /\ Stops /\ (Post \/ Posts \/ Stop \/ WithdrawQuestion \/ Works) => Stops'
<1> SUFFICES ASSUME Shape, Held, Stops, Post \/ Posts \/ Stop \/ WithdrawQuestion \/ Works PROVE Stops'
    OBVIOUS
<1>0. /\ task # "none" => pending /\ ~posting
      /\ posting => pending /\ task = "none"
      /\ Types
    BY DEF Held, Shape
<1>1. CASE Post
  <2>1. turns + 1 \in 1..MaxTurns /\ turns + 1 \notin stopped \cup withdrawn /\ task = "none"
      BY <1>0, <1>1, StreamAssumption DEF Post, Stops
  <2> QED
      BY <1>1, <2>1 DEF Post, Stops, StopHonored, taskVars
<1>2. CASE PostPut
    BY <1>2 DEF PostPut, Stops, StopHonored, taskVars
<1>3. CASE PostFail
    BY <1>3 DEF PostFail, Release, FinishTurn, Stops, StopHonored
<1>4. CASE Stop
  <2>1. turns \in 1..MaxTurns /\ verdict[turns] = "none"
      BY <1>4 DEF Stop, Stops
  <2>2. /\ stopped' = stopped \cup {turns} /\ stop' = TRUE
        /\ UNCHANGED <<pending, turns, verdict, withdrawn>>
        /\ UNCHANGED <<task, ending>> \/ (task' = "cleanup" /\ ending' = "stopped")
      BY <1>4 DEF Stop
  <2> QED
      BY <2>1, <2>2, StreamAssumption DEF Stops, StopHonored
<1>5. CASE Start
  <2>1. ending' = "stopped" => stop
      BY <1>5 DEF Start
  <2>2. UNCHANGED <<turnVars, verdict, withdrawn>>
      BY <1>5 DEF Start
  <2>3. pending /\ turns \notin withdrawn
      BY <1>0, <1>5 DEF Start, Stops
  <2>4. StopHonored'
      BY <2>2 DEF Stops, StopHonored, turnVars
  <2>5. UNCHANGED <<pending, stop, turns, stopped, withdrawn, verdict>>
      BY <2>2 DEF turnVars
  <2> HIDE <1>5
  <2> QED
      BY <2>1, <2>3, <2>4, <2>5 DEF Stops
<1>6. CASE Want \/ Put \/ Finish
  <2>1. pending /\ task # "none" /\ turns \notin withdrawn
      BY <1>0, <1>6 DEF Want, Put, Finish, Stops
  <2>2. UNCHANGED <<pending, stop, turns, stopped, withdrawn, verdict, ending>>
      BY <1>6 DEF Want, Put, Finish, turnVars
  <2>3. StopHonored'
      BY <2>2 DEF Stops, StopHonored
  <2> QED
      BY <2>1, <2>2, <2>3 DEF Stops
<1>8. CASE WithdrawQuestion
  <2>1. /\ turns \in 1..MaxTurns /\ verdict[turns] = "none"
        /\ withdrawn' = withdrawn \cup {turns}
        /\ task' = "cleanup" /\ ending' = "stopped" /\ UNCHANGED <<turnVars, verdict>>
      BY <1>0, <1>8 DEF WithdrawQuestion, Stops
  <2> QED
      BY <2>1, StreamAssumption DEF Stops, StopHonored, turnVars
<1>7. CASE Complete
  <2>1. PICK failed \in BOOLEAN : verdict' = [verdict EXCEPT ![turns] = Outcome(failed)]
      BY <1>7 DEF Complete
  <2>2. /\ turns \in 1..MaxTurns /\ (stop <=> turns \in stopped)
        /\ ending = "stopped" => turns \in stopped \cup withdrawn
        /\ turns \in withdrawn => ending = "stopped"
      BY <1>0, <1>7 DEF Complete, Stops
  <2>3. /\ Outcome(failed) \in {"complete", "stopped", "error"}
        /\ turns \in stopped \cup withdrawn => Outcome(failed) # "complete"
        /\ Outcome(failed) = "stopped" => turns \in stopped \cup withdrawn
      BY <1>0, <2>2 DEF Outcome, Types
  <2>4. /\ task' = "none" /\ pending' = FALSE /\ UNCHANGED <<turns, stopped, withdrawn>>
      BY <1>7 DEF Complete, FinishTurn
  <2> QED
      BY <2>1, <2>2, <2>3, <2>4 DEF Stops, StopHonored
<1> QED
    BY <1>1, <1>2, <1>3, <1>4, <1>5, <1>6, <1>7, <1>8 DEF Posts, Works

LEMMA Step == IInv /\ [Next]_vars => IInv'
<1> SUFFICES ASSUME IInv, [Next]_vars PROVE IInv'
    OBVIOUS
<1>1. Shape /\ Held /\ Stops
    BY DEF IInv
<1>2. CASE Post \/ Posts \/ Stop \/ WithdrawQuestion \/ Works
    BY <1>1, <1>2, ShapeOfTurn, HeldOfTurn, StopsOfTurn DEF IInv
<1>3. ASSUME NEW c \in Consumers, Reads(c) \/ Disconnect(c) PROVE IInv'
    BY <1>1, <1>3, ShapeOfReader, HeldOfReader, StopsOfReader DEF IInv
<1>4. CASE UNCHANGED vars
  <2>1. Shape'
      BY <1>1, <1>4 DEF vars, turnVars, taskVars, readVars, Shape, Types, Fits
  <2>2. Held'
      BY <1>1, <1>4 DEF vars, turnVars, taskVars, readVars, Held, InHands
  <2>3. Stops'
      BY <1>1, <1>4 DEF vars, turnVars, taskVars, Stops, StopHonored
  <2> QED
      BY <2>1, <2>2, <2>3 DEF IInv
<1> QED
    BY <1>2, <1>3, <1>4 DEF Next

LEMMA ShapeTypes == Shape /\ Stops => TypeOK
<1> SUFFICES ASSUME Shape, Stops PROVE TypeOK
    OBVIOUS
<1>1. out \in [open : BOOLEAN, items : Seq(Nat), terminal : AtMostOne(Nat)]
  <2>1. \A s \in Seq(Number) : s \in Seq(Nat)
      BY DEF Number
  <2>2. \A s \in AtMostOne(Number) : s \in AtMostOne(Nat)
      BY DEF Number, AtMostOne
  <2> QED
      BY <2>1, <2>2 DEF Shape, Types, Outs
<1>2. \A c \in Consumers :
         /\ hand[c] # <<>> <=> pc[c] \in {"got", "settle", "send"}
         /\ replay # <<>> /\ pc[c] \in Inside => pc[c] = "peek"
         /\ \A d \in Consumers : pc[c] \in Inside /\ pc[d] \in Inside => c = d
    BY DEF Shape, Fits
<1> QED
    BY <1>1, <1>2 DEF TypeOK, Shape, Types, Stops

-----------------------------------------------------------------------------
(* The order of the events.  An output is drained before the next turn     *)
(* opens its own (Drained), so that a connection always moves the first    *)
(* event of the stream, and a new event is always its last.                *)

\* The events of s come in their order, and none is later than n.
Climbs(s, n) ==
    /\ \A i, j \in 1..Len(s) : i < j => s[i] < s[j]
    /\ \A i \in 1..Len(s) : s[i] <= n

Drained ==
    /\ ~out.open => out.items = <<>> /\ out.terminal = <<>>
    /\ task # "none" => out.open /\ out.terminal = <<>>
    /\ InHands \/ replay = <<Action>> => ~out.open
    /\ \A c \in Consumers : pc[c] = "ended" => out.items = <<>>

Ordered ==
    /\ sent \in Seq(Number)
    /\ Climbs(Stream, emitted)
    /\ "event" \notin lost => Len(Stream) = emitted

OrderInv == Shape /\ Held /\ Drained /\ Ordered

\* An event that is dropped leaves the others in their order.
LEMMA Removal ==
    ASSUME NEW p \in Seq(Number), NEW e \in Number, NEW q \in Seq(Number), NEW n \in Nat,
           Climbs(p \o <<e>> \o q, n)
    PROVE  Climbs(p \o q, n)
<1> DEFINE s == p \o <<e>> \o q
           t == p \o q
           f(i) == IF i <= Len(p) THEN i ELSE i + 1
<1>1. /\ s \in Seq(Number) /\ Len(s) = Len(p) + 1 + Len(q)
      /\ \A i \in 1..Len(p) : s[i] = p[i]
      /\ \A i \in 1..Len(q) : s[i + Len(p) + 1] = q[i]
  <2>1. s \in Seq(Number)
      OBVIOUS
  <2>2. Len(s) = Len(p) + 1 + Len(q)
      OBVIOUS
  <2>3. \A i \in 1..Len(p) : s[i] = p[i]
      OBVIOUS
  <2>4. \A i \in 1..Len(q) : s[i + Len(p) + 1] = q[i]
      OBVIOUS
  <2> QED
      BY <2>1, <2>2, <2>3, <2>4
<1>2. /\ Len(t) = Len(p) + Len(q)
      /\ \A i \in 1..Len(p) : t[i] = p[i]
      /\ \A i \in 1..Len(p) + Len(q) : i > Len(p) => t[i] = q[i - Len(p)]
  <2>1. Len(t) = Len(p) + Len(q)
      OBVIOUS
  <2>2. \A i \in 1..Len(p) : t[i] = p[i]
      OBVIOUS
  <2>3. \A i \in 1..Len(p) + Len(q) : i > Len(p) => t[i] = q[i - Len(p)]
      OBVIOUS
  <2> QED
      BY <2>1, <2>2, <2>3
<1>3. Climbs(s, n)
    OBVIOUS
<1>4. Len(p) \in Nat /\ Len(q) \in Nat
    OBVIOUS
<1>5. \A i \in 1..Len(t) : f(i) \in 1..Len(s) /\ t[i] = s[f(i)]
    BY <1>1, <1>2, <1>4
<1>6. \A i, j \in 1..Len(t) : i < j => f(i) < f(j)
    BY <1>2, <1>4
<1> HIDE DEF s, t, f
<1>7. Climbs(t, n)
    BY <1>3, <1>5, <1>6 DEF Climbs
<1> QED
    BY <1>7 DEF t

\* A new event is later than all before.
LEMMA Growth ==
    ASSUME NEW p \in Seq(Number), NEW n \in Nat, Climbs(p, n)
    PROVE  Climbs(p \o <<n + 1>>, n + 1) /\ Len(p \o <<n + 1>>) = Len(p) + 1
<1>1. /\ Len(p \o <<n + 1>>) = Len(p) + 1
      /\ \A i \in 1..Len(p) : (p \o <<n + 1>>)[i] = p[i]
      /\ (p \o <<n + 1>>)[Len(p) + 1] = n + 1
      /\ \A i \in 1..Len(p) : p[i] \in Nat
    BY DEF Number
<1> QED
    BY <1>1 DEF Climbs

\* The parts of a stream, when some are empty.
LEMMA PartsTerminal ==
    ASSUME NEW s \in Seq(Number), NEW a \in Seq(Number), NEW b \in Seq(Number),
           NEW i \in Seq(Number), NEW t \in Seq(Number)
    PROVE  s \o a \o b \o i \o t = (s \o a \o b \o i \o <<>>) \o t
OBVIOUS

LEMMA PartsQueue ==
    ASSUME NEW s \in Seq(Number), NEW i \in Seq(Number), NEW t \in Seq(Number)
    PROVE  s \o <<>> \o <<>> \o i \o t = s \o (i \o t)
OBVIOUS

LEMMA ShownType ==
    ASSUME NEW h \in AtMostOne(Nat)
    PROVE  Shown(h) \in Seq(Number)
<1>0. <<>> \in Seq(Number)
    OBVIOUS
<1>1. CASE h = <<>> \/ h = <<Action>>
    BY <1>0, <1>1, Zenon DEF Shown
<1>2. CASE ~(h = <<>> \/ h = <<Action>>)
  <2>1. PICK x \in Nat : h = <<x>>
      BY <1>2 DEF AtMostOne
  <2>2. x \in Number /\ Shown(h) = <<x>>
      BY <1>2, <2>1 DEF Number, Action, Shown
  <2> QED
      BY <2>2
<1> QED
    BY <1>1, <1>2

LEMMA ShownEvent ==
    ASSUME NEW event \in Number
    PROVE  Shown(<<event>>) = <<event>> /\ Shown(<<>>) = <<>> /\ Shown(<<Action>>) = <<>>
BY NoTurn DEF Shown

\* What a connection inside the lock has taken is what is in hand.
LEMMA HandOf ==
    ASSUME Shape, NEW c \in Consumers, pc[c] \in Inside
    PROVE  /\ InHand = hand[c]
           /\ \A h : hand' = [hand EXCEPT ![c] = h] => InHand' = h
<1>1. \A d \in Consumers : d # c => hand[d] = <<>>
    BY DEF Shape, Fits, Inside
<1>2. DOMAIN hand = Consumers
    BY DEF Shape, Types
<1>3. InHand = hand[c]
    BY <1>1 DEF InHand
<1>4. ASSUME NEW h, hand' = [hand EXCEPT ![c] = h]
      PROVE  InHand' = h
  <2>1. hand'[c] = h /\ \A d \in Consumers : d # c => hand'[d] = <<>>
      BY <1>1, <1>2, <1>4
  <2> QED
      BY <2>1 DEF InHand
<1> QED
    BY <1>3, <1>4

LEMMA StreamParts ==
    ASSUME Shape, Ordered
    PROVE  /\ InHand \in AtMostOne(Nat)
           /\ sent \in Seq(Number) /\ Shown(InHand) \in Seq(Number)
           /\ Shown(replay) \in Seq(Number) /\ out.items \in Seq(Number)
           /\ out.terminal \in Seq(Number) /\ out.terminal \in AtMostOne(Number)
           /\ Stream \in Seq(Number)
<1>1. InHand \in AtMostOne(Nat)
  <2>1. CASE \E c \in Consumers : hand[c] # <<>>
      BY <2>1 DEF InHand, Shape, Types
  <2>2. CASE ~\E c \in Consumers : hand[c] # <<>>
      BY <2>2 DEF InHand, AtMostOne
  <2> QED
      BY <2>1, <2>2
<1>2. Shown(InHand) \in Seq(Number) /\ Shown(replay) \in Seq(Number)
    BY <1>1, ShownType DEF Shape, Types
<1>3. out.items \in Seq(Number) /\ out.terminal \in AtMostOne(Number)
    BY DEF Shape, Types, Outs
<1>4. out.terminal \in Seq(Number)
  <2>1. ASSUME NEW x \in Number PROVE <<x>> \in Seq(Number)
      OBVIOUS
  <2>2. <<>> \in Seq(Number)
      OBVIOUS
  <2> QED
      BY <1>3, <2>1, <2>2, Zenon DEF AtMostOne
<1>5. sent \in Seq(Number)
    BY DEF Ordered
<1>6. Stream \in Seq(Number)
    BY <1>2, <1>3, <1>4, <1>5 DEF Stream
<1> QED
    BY <1>1, <1>2, <1>3, <1>4, <1>5, <1>6

LEMMA StreamKept ==
    ASSUME Ordered, Stream' = Stream, sent' \in Seq(Number), emitted' = emitted,
           "event" \in lost => "event" \in lost'
    PROVE  Ordered'
BY DEF Ordered, Climbs

LEMMA StreamGrown ==
    ASSUME Shape, Ordered, Stream' = Stream \o <<emitted + 1>>, emitted' = emitted + 1,
           UNCHANGED <<sent, lost>>
    PROVE  Ordered'
<1>1. Stream \in Seq(Number) /\ emitted \in Nat
    BY StreamParts DEF Shape, Types
<1>2. Climbs(Stream', emitted') /\ Len(Stream') = Len(Stream) + 1
    BY <1>1, Growth DEF Ordered
<1> QED
    BY <1>1, <1>2 DEF Ordered

-----------------------------------------------------------------------------

LEMMA DrainedOfTurn ==
    ASSUME Shape, Held, Drained, Post \/ Posts \/ Stop \/ WithdrawQuestion \/ Works
    PROVE  Drained'
<1>1. UNCHANGED <<pc, hand, replay>> /\ (InHands' <=> InHands)
    BY DEF Post, Posts, PostPut, PostFail, Stop, WithdrawQuestion, Works, Start, Want, Put,
        Finish, Complete, readVars,
        InHands
<1>2. out \in Outs /\ \A c \in Consumers : pc[c] = "ended" => out.terminal # <<>>
    BY DEF Shape, Types, Fits
<1>3. InHands \/ replay = <<Action>> => task = "none"
    BY DEF Held
<1>4. CASE Post \/ PostPut \/ PostFail
    BY <1>1, <1>4 DEF Drained, Post, PostPut, PostFail, Release, FinishTurn, taskVars
<1>5. CASE Stop \/ Start \/ Want \/ Finish \/ WithdrawQuestion
    BY <1>1, <1>5 DEF Drained, Stop, Start, Want, Finish, WithdrawQuestion
<1>6. CASE Put
  <2>1. /\ task = "emitting" /\ task' = "running"
        /\ out' = [out EXCEPT !.items = Append(@, emitted + 1)]
      BY <1>6 DEF Put
  <2>2. out'.open = out.open /\ out'.terminal = out.terminal
      BY <1>2, <2>1 DEF Outs
  <2> QED
      BY <1>1, <1>2, <1>3, <2>1, <2>2 DEF Drained
<1>7. CASE Complete
  <2>1. task = "cleanup" /\ task' = "none" /\ out' = [out EXCEPT !.terminal = <<emitted + 1>>]
      BY <1>7 DEF Complete, FinishTurn
  <2>2. out'.open = out.open /\ out'.items = out.items
      BY <1>2, <2>1 DEF Outs
  <2> QED
      BY <1>1, <1>2, <1>3, <2>1, <2>2 DEF Drained
<1> QED
    BY <1>4, <1>5, <1>6, <1>7 DEF Posts, Works

\* An output that is drained is closed, or its turn starts anew.
LEMMA DrainedAnew ==
    ASSUME Shape, NEW c \in Consumers, pc[c] \in Inside, Shape', ~InHands', replay' = <<>>,
           NEW place, pc' = [pc EXCEPT ![c] = place], place # "ended",
           \/ out' = Closed /\ task' = "none"
           \/ out' = [Closed EXCEPT !.open = TRUE]
    PROVE  Drained'
<1>1. \A d \in Consumers : pc'[d] # "ended"
    BY DEF Shape, Types, Inside
<1>2. replay' # <<Action>>
    OBVIOUS
<1> QED
    BY <1>1, <1>2 DEF Drained, Closed

\* A connection that moves on and leaves the output as it is.
LEMMA DrainedQuiet ==
    ASSUME Shape, Held, Drained, NEW c \in Consumers, NEW place,
           pc' = [pc EXCEPT ![c] = place], place = "ended" => out.items = <<>>,
           UNCHANGED <<out, task>>,
           InHands' \/ replay' = <<Action>> => InHands \/ replay = <<Action>>
    PROVE  Drained'
BY DEF Drained, Shape, Types

\* A connection takes the first item of the queue it reads.
LEMMA ReadableRest ==
    ASSUME Shape, Drained, Readable # <<>>
    PROVE  /\ Rest \in Outs /\ Rest.open = out.open /\ Rest.terminal = out.terminal
           /\ Head(Readable) = Action => ~out.open /\ Rest = out
           /\ Head(Readable) # Action =>
                 /\ out.open /\ Head(Readable) \in Number
                 /\ out.items = <<Head(Readable)>> \o Rest.items
<1>1. out \in Outs
    BY DEF Shape, Types
<1>2. CASE out.open
  <2>1. Readable = out.items /\ Rest = [out EXCEPT !.items = Tail(@)]
      BY <1>2 DEF Readable, Rest
  <2>2. out.items \in Seq(Number) /\ out.items # <<>>
      BY <1>1, <2>1 DEF Outs
  <2>3. Head(out.items) \in Number /\ Tail(out.items) \in Seq(Number)
      BY <2>2, FirstItem
  <2>4. out.items = <<Head(out.items)>> \o Tail(out.items)
      BY <2>2
  <2>5. Rest.items = Tail(out.items) /\ Rest.open = out.open /\ Rest.terminal = out.terminal
        /\ Rest \in Outs
      BY <1>1, <2>1, <2>3 DEF Outs
  <2>6. Head(Readable) # Action
      BY <2>1, <2>3 DEF Number, Action
  <2> QED
      BY <1>2, <2>1, <2>3, <2>4, <2>5, <2>6
<1>3. CASE ~out.open
    BY <1>1, <1>3 DEF Readable, Rest, Action
<1> QED
    BY <1>2, <1>3

\* A connection handles an item: the turn opens its output, or an event is yielded.
LEMMA DrainedHandle ==
    ASSUME Shape, Shape', Held, Drained, NEW c \in Consumers, pc[c] \in Inside,
           NEW item \in Nat, NEW o, Handle(c, item, o), replay' = <<>>,
           item # Action => /\ o.open = out.open /\ o.terminal = out.terminal
                            /\ out.open \/ o.items = out.items
    PROVE  Drained'
<1>1. ~InHands'
    BY HandleMovesTurn
<1>2. CASE item = Action
  <2>1. PICK place \in {"gone", "peek"} : pc' = [pc EXCEPT ![c] = place]
      BY <1>2 DEF Handle, Launch, Again, To
  <2>2. out' = [Closed EXCEPT !.open = TRUE] /\ place # "ended"
      BY <1>2, <2>1 DEF Handle, Launch
  <2> QED
      BY <1>1, <2>1, <2>2, DrainedAnew
<1>3. CASE item # Action
  <2>1. Yield(c, item) /\ out' = o
      BY <1>3 DEF Handle
  <2>2. PICK place \in {"gone", "send"} : pc' = [pc EXCEPT ![c] = place]
      BY <2>1 DEF Yield, To
  <2>3. task' = task /\ replay' # <<Action>>
      BY <2>1 DEF Yield
  <2>4. \A d \in Consumers : pc'[d] # "ended"
      BY <2>2 DEF Shape, Types, Inside
  <2>5. /\ out'.open = out.open /\ out'.terminal = out.terminal
        /\ out.open \/ out'.items = out.items
      BY <1>3, <2>1
  <2> QED
      BY <1>1, <2>3, <2>4, <2>5 DEF Drained
<1> QED
    BY <1>2, <1>3

LEMMA DrainedOfReader ==
    ASSUME Shape, Shape', Held, Drained, NEW c \in Consumers, Reads(c) \/ Disconnect(c)
    PROVE  Drained'
<1>0. Types /\ Fits(pc[c], hand[c], replay, out.terminal)
    BY DEF Shape
<1>1. CASE Claim(c)
    BY <1>1, DrainedQuiet DEF Claim, To, InHands, taskVars
<1>2. CASE Acquire(c)
  <2>1. PICK place \in {"gone", "peek"} : pc' = [pc EXCEPT ![c] = place]
      BY <1>2 DEF Acquire, Again, To
  <2> QED
      BY <1>2, <2>1, DrainedQuiet DEF Acquire, InHands, taskVars
<1>3. CASE PeekReplay(c)
  <2>1. pc[c] \in Inside /\ Head(replay) \in Nat /\ replay' = <<>>
      BY <1>0, <1>3, OneItem DEF PeekReplay, Types, Inside
  <2> QED
      BY <1>3, <2>1, DrainedHandle DEF PeekReplay
<1>4. CASE PeekQueue(c)
  <2>1. pc[c] \in Inside /\ Head(Readable) \in Nat /\ replay' = <<>>
      BY <1>4, QueueItems DEF PeekQueue, Inside
  <2>2. Head(Readable) # Action =>
           Rest.open = out.open /\ Rest.terminal = out.terminal /\ out.open
      BY <1>4, ReadableRest DEF PeekQueue
  <2> QED
      BY <1>4, <2>1, <2>2, DrainedHandle DEF PeekQueue
<1>5. ASSUME pc[c] \in Inside, hand[c] = <<>>, replay = <<>>, out.terminal # <<>>, Close(c)
      PROVE  Drained'
  <2>1. Head(out.terminal) \in Number /\ Yield(c, Head(out.terminal))
      BY <1>0, <1>5, OneItem DEF Types, Outs, Close
  <2>2. PICK place \in {"gone", "send"} : pc' = [pc EXCEPT ![c] = place]
      BY <2>1 DEF Yield, To
  <2>3. ~InHands' /\ task' = task
      BY <1>5, <2>1, YieldMovesNoTurn
  <2>4. task' = "none" /\ out' = Closed /\ replay' = <<>>
      BY <1>5, <2>3 DEF Drained, Close
  <2> QED
      BY <1>5, <2>2, <2>3, <2>4, DrainedAnew
<1>6. CASE PeekTerminal(c)
    BY <1>0, <1>5, <1>6 DEF PeekTerminal, Ended, Fits, Inside
<1>7. CASE PeekNothing(c)
    BY <1>7, DrainedQuiet DEF PeekNothing, To, InHands, taskVars
<1>8. CASE GetDone(c)
  <2>1. pc[c] \in Inside /\ replay = <<>> /\ pc' = [pc EXCEPT ![c] = "got"]
      BY <1>0, <1>8 DEF GetDone, To, Fits, Inside
  <2>2. hand' = [hand EXCEPT ![c] = <<Head(Readable)>>]
      BY <1>8 DEF GetDone, Hold
  <2>3. InHands' <=> <<Head(Readable)>> = <<Action>>
    <3>1. \A h : hand' = [hand EXCEPT ![c] = h] => (InHands' <=> h = <<Action>>)
        BY <2>1, HandChanges
    <3> QED
        BY <2>2, <3>1, Zenon
  <2>4. InHands' => Head(Readable) = Action
      BY <2>3
  <2>5. /\ out' = Rest /\ out'.open = out.open /\ out'.terminal = out.terminal
        /\ Head(Readable) = Action => ~out.open /\ out' = out
        /\ Head(Readable) # Action => out.open
      BY <1>8, ReadableRest DEF GetDone
  <2>6. \A d \in Consumers : pc'[d] # "ended"
      BY <2>1 DEF Shape, Types, Inside
  <2>7. task' = task /\ replay' # <<Action>>
      BY <1>8, <2>1 DEF GetDone, taskVars
  <2> QED
      BY <2>4, <2>5, <2>6, <2>7 DEF Drained
<1>9. CASE WakeSuperseded(c)
  <2>1. pc[c] \in Inside /\ pc' = [pc EXCEPT ![c] = "gone"] /\ replay' = hand[c]
        /\ hand' = [hand EXCEPT ![c] = <<>>] /\ UNCHANGED <<out, task>>
      BY <1>9 DEF WakeSuperseded, Preserved, To, Hold, Inside, taskVars
  <2>2. ~InHands' /\ (InHands <=> hand[c] = <<Action>>)
      BY <2>1, HandEmpties, OneHand
  <2> QED
      BY <2>1, <2>2, DrainedQuiet
<1>10. CASE Wake(c)
  <2>1. PICK place \in {"settle", "ended"} : /\ pc' = [pc EXCEPT ![c] = place]
                                             /\ place = "ended" => Ended
      BY <1>10 DEF Wake, To
  <2>2. Ended => out.items = <<>>
      BY DEF Ended, Readable, Drained
  <2> QED
      BY <1>10, <2>1, <2>2, DrainedQuiet DEF Wake, InHands, taskVars
<1>11. CASE Timeout(c)
  <2>1. PICK place \in {"gone", "peek"} : pc' = [pc EXCEPT ![c] = place]
      BY <1>11 DEF Timeout, Again, To
  <2> QED
      BY <1>11, <2>1, DrainedQuiet DEF Timeout, InHands, taskVars
<1>12. CASE Settle(c)
  <2>1. pc[c] \in Inside /\ replay = <<>>
      BY <1>0, <1>12 DEF Settle, Fits, Inside
  <2>2. CASE pc[c] = "settle"
    <3>1. Head(hand[c]) \in Nat /\ replay' = <<>> /\ Handle(c, Head(hand[c]), out)
        BY <1>0, <1>12, <2>1, <2>2, OneItem DEF Fits, Types, Settle
    <3> QED
        BY <2>1, <3>1, DrainedHandle
  <2>3. CASE pc[c] = "ended"
      BY <1>0, <1>5, <1>12, <2>1, <2>3 DEF Settle, Fits
  <2> QED
      BY <1>12, <2>2, <2>3 DEF Settle
<1>13. CASE Sent(c)
  <2>1. PICK place \in {"gone", "peek"} : pc' = [pc EXCEPT ![c] = place]
      BY <1>13 DEF Sent, Again, To
  <2>2. pc[c] \in Inside /\ hand' = [hand EXCEPT ![c] = <<>>] /\ UNCHANGED <<out, task, replay>>
      BY <1>13 DEF Sent, Hold, Inside, taskVars
  <2>3. ~InHands'
      BY <2>2, HandEmpties
  <2> QED
      BY <2>1, <2>2, <2>3, DrainedQuiet
<1>14. CASE Disconnect(c)
  <2>1. /\ pc' = [pc EXCEPT ![c] = "gone"] /\ hand' = [hand EXCEPT ![c] = <<>>]
        /\ UNCHANGED <<out, task, replay>>
      BY <1>14 DEF Disconnect, To, Hold, taskVars
  <2>2. InHands' => InHands
    <3>1. <<>> # <<Action>>
        OBVIOUS
    <3>2. hand'[c] = <<>> /\ \A d \in Consumers : d # c => hand'[d] = hand[d]
        BY <1>0, <2>1 DEF Types
    <3> QED
        BY <3>1, <3>2 DEF InHands
  <2> QED
      BY <2>1, <2>2, DrainedQuiet
<1> QED
    BY <1>1, <1>2, <1>3, <1>4, <1>6, <1>7, <1>8, <1>9, <1>10, <1>11, <1>12, <1>13, <1>14 DEF Reads


-----------------------------------------------------------------------------

LEMMA OrderedOfTurn ==
    ASSUME Shape, Held, Drained, Ordered, Post \/ Posts \/ Stop \/ WithdrawQuestion \/ Works
    PROVE  Ordered'
<1>1. UNCHANGED <<hand, replay, sent, lost>> /\ InHand' = InHand
    BY DEF Post, Posts, PostPut, PostFail, Stop, WithdrawQuestion, Works, Start, Want, Put,
        Finish, Complete, readVars,
        InHand
<1>2. out \in Outs /\ emitted \in Nat
    BY DEF Shape, Types
<1>3. CASE Put
  <2>1. emitted' = emitted + 1 /\ out.terminal = <<>>
        /\ out' = [out EXCEPT !.items = Append(@, emitted + 1)]
      BY <1>3 DEF Put, Drained
  <2>2. out'.items = out.items \o <<emitted + 1>> /\ out'.terminal = <<>>
      BY <1>2, <2>1 DEF Outs
  <2>3. Stream' = Stream \o <<emitted + 1>>
    <3>1. Stream' = sent \o Shown(InHand) \o Shown(replay) \o (out.items \o <<emitted + 1>>) \o <<>>
        BY <1>1, <2>2 DEF Stream, Shown
    <3>2. Stream = sent \o Shown(InHand) \o Shown(replay) \o out.items \o <<>>
        BY <2>1 DEF Stream
    <3>3. emitted + 1 \in Number
        BY <1>2 DEF Number
    <3>4. <<emitted + 1>> \in Seq(Number)
        BY <3>3
    <3> DEFINE u == <<emitted + 1>>
               s == sent
               a == Shown(InHand)
               b == Shown(replay)
               i == out.items
    <3>5. /\ u \in Seq(Number) /\ s \in Seq(Number) /\ a \in Seq(Number)
          /\ b \in Seq(Number) /\ i \in Seq(Number)
        BY <3>4, StreamParts, Zenon
    <3> HIDE DEF u, s, a, b, i
    <3>6. s \o a \o b \o (i \o u) \o <<>> = (s \o a \o b \o i \o <<>>) \o u
        BY <3>5
    <3> QED
        BY <3>1, <3>2, <3>6, Zenon DEF u, s, a, b, i
  <2> QED
      BY <1>1, <2>1, <2>3, StreamGrown
<1>4. CASE Complete
  <2>1. emitted' = emitted + 1 /\ out.terminal = <<>>
        /\ out' = [out EXCEPT !.terminal = <<emitted + 1>>]
      BY <1>4 DEF Complete, Drained
  <2>2. out'.items = out.items /\ out'.terminal = <<emitted + 1>>
      BY <1>2, <2>1 DEF Outs
  <2>3. Stream' = Stream \o <<emitted + 1>>
    <3>1. Stream' = sent \o Shown(InHand) \o Shown(replay) \o out.items \o <<emitted + 1>>
        BY <1>1, <2>2 DEF Stream, Shown
    <3>2. Stream = sent \o Shown(InHand) \o Shown(replay) \o out.items \o <<>>
        BY <2>1 DEF Stream
    <3>3. emitted + 1 \in Number
        BY <1>2 DEF Number
    <3>4. <<emitted + 1>> \in Seq(Number)
        BY <3>3
    <3> DEFINE u == <<emitted + 1>>
               s == sent
               a == Shown(InHand)
               b == Shown(replay)
               i == out.items
    <3>5. /\ u \in Seq(Number) /\ s \in Seq(Number) /\ a \in Seq(Number)
          /\ b \in Seq(Number) /\ i \in Seq(Number)
        BY <3>4, StreamParts, Zenon
    <3> HIDE DEF u, s, a, b, i
    <3>6. s \o a \o b \o i \o u = (s \o a \o b \o i \o <<>>) \o u
        BY <3>5, PartsTerminal
    <3> QED
        BY <3>1, <3>2, <3>6, Zenon DEF u, s, a, b, i
  <2> QED
      BY <1>1, <2>1, <2>3, StreamGrown
<1>5. CASE Post \/ Posts \/ Stop \/ WithdrawQuestion \/ Start \/ Want \/ Finish
  <2>1. UNCHANGED <<out, emitted>>
      BY <1>5 DEF Post, Posts, PostPut, PostFail, Stop, WithdrawQuestion, Start, Want, Finish,
          taskVars
  <2>2. Stream' = Stream
      BY <1>1, <2>1 DEF Stream, Shown
  <2>3. sent' \in Seq(Number)
      BY <1>1 DEF Ordered
  <2> QED
      BY <1>1, <2>1, <2>2, <2>3, StreamKept
<1> QED
    BY <1>3, <1>4, <1>5 DEF Works

\* A connection yields the first event of the stream, or drops it.
LEMMA OrderedYield ==
    ASSUME Shape, Shape', Ordered, NEW c \in Consumers, pc[c] \in Inside, NEW event \in Number,
           Yield(c, event), replay' = <<>>, UNCHANGED <<sent, emitted>>,
           Stream = sent \o <<event>> \o (out'.items \o out'.terminal)
    PROVE  Ordered'
<1> DEFINE rest == out'.items \o out'.terminal
<1>0. sent \in Seq(Number) /\ emitted \in Nat
    BY DEF Ordered, Shape, Types
<1>1. /\ out'.items \in Seq(Number) /\ out'.terminal \in Seq(Number)
      /\ rest \in Seq(Number)
  <2>1. out'.items \in Seq(Number) /\ out'.terminal \in AtMostOne(Number)
      BY DEF Shape, Types, Outs
  <2>2. \A x \in Number : <<x>> \in Seq(Number)
      OBVIOUS
  <2>3. <<>> \in Seq(Number)
      OBVIOUS
  <2>4. out'.terminal \in Seq(Number)
      BY <2>1, <2>2, <2>3, Zenon DEF AtMostOne
  <2> QED
      BY <2>1, <2>4
<1>2. CASE Superseded(c)
  <2>1. hand' = [hand EXCEPT ![c] = <<>>] /\ "event" \in lost'
      BY <1>2 DEF Yield, Hold
  <2>2. Shown(InHand') = <<>> /\ Shown(replay') = <<>>
      BY <2>1, HandOf DEF Shown
  <2>3. Stream' = sent \o <<>> \o <<>> \o out'.items \o out'.terminal
      BY <2>2 DEF Stream
  <2>4. Stream' = sent \o rest
      BY <1>0, <1>1, <2>3, PartsQueue, Zenon
  <2>5. Climbs(sent \o <<event>> \o rest, emitted)
      BY DEF Ordered
  <2>6. Climbs(sent \o rest, emitted)
      BY <1>0, <1>1, <2>5, Removal
  <2> QED
      BY <1>0, <2>1, <2>4, <2>6 DEF Ordered
<1>3. CASE ~Superseded(c)
  <2>1. hand' = [hand EXCEPT ![c] = <<event>>] /\ lost' = lost
      BY <1>3 DEF Yield, Hold
  <2>2. InHand' = <<event>>
      BY <2>1, HandOf
  <2>3. Shown(InHand') = <<event>> /\ Shown(replay') = <<>>
      BY <2>2, ShownEvent
  <2>4. Stream' = sent \o <<event>> \o <<>> \o out'.items \o out'.terminal
      BY <2>3 DEF Stream
  <2>5. Stream' = Stream
    <3>1. <<event>> \in Seq(Number)
        OBVIOUS
    <3> DEFINE u == <<event>>
               i == out'.items
               t == out'.terminal
    <3>2. u \in Seq(Number) /\ i \in Seq(Number) /\ t \in Seq(Number)
        BY <1>1, <3>1, Zenon
    <3> HIDE DEF u, i, t
    <3>3. sent \o u \o <<>> \o i \o t = sent \o u \o (i \o t)
        BY <1>0, <3>2
    <3> QED
        BY <2>4, <3>3, Zenon DEF u, i, t
  <2> QED
      BY <1>0, <2>1, <2>5, StreamKept
<1> QED
    BY <1>2, <1>3

LEMMA OrderedHandle ==
    ASSUME Shape, Shape', Ordered, NEW c \in Consumers, pc[c] \in Inside,
           NEW item \in Nat, NEW o, Handle(c, item, o), replay' = <<>>,
           item = Action => Stream = sent,
           item # Action => Stream = sent \o <<item>> \o (o.items \o o.terminal)
    PROVE  Ordered'
<1>0. sent \in Seq(Number) /\ UNCHANGED <<sent, emitted>>
    BY DEF Ordered, Handle
<1>1. CASE item = Action
  <2>1. /\ hand' = [hand EXCEPT ![c] = <<>>] /\ lost' = lost
        /\ out'.items = <<>> /\ out'.terminal = <<>>
      BY <1>1 DEF Handle, Launch, Hold, Closed
  <2>2. Shown(InHand') = <<>> /\ Shown(replay') = <<>>
      BY <2>1, HandOf DEF Shown
  <2>3. Stream' = sent \o <<>> \o <<>> \o <<>> \o <<>>
      BY <1>0, <2>1, <2>2 DEF Stream
  <2>4. Stream' = Stream
      BY <1>0, <1>1, <2>3
  <2> QED
      BY <1>0, <2>1, <2>4, StreamKept
<1>2. CASE item # Action
  <2>1. Yield(c, item) /\ out' = o /\ item \in Number
      BY <1>2 DEF Handle, Number, Action
  <2> QED
      BY <1>0, <1>2, <2>1, OrderedYield
<1> QED
    BY <1>1, <1>2


\* Nothing of the stream moves.
LEMMA OrderedQuiet ==
    ASSUME Shape, Ordered, UNCHANGED <<sent, emitted, lost, hand, replay, out>>
    PROVE  Ordered'
<1>1. InHand' = InHand
    BY DEF InHand
<1>2. Stream' = Stream
    BY <1>1 DEF Stream, Shown
<1> QED
    BY <1>2, StreamKept DEF Ordered

\* The stream of a connection that holds nothing and has nothing to replay.
LEMMA StreamOfQueue ==
    ASSUME Shape, Ordered, NEW c \in Consumers, pc[c] \in Inside, hand[c] = <<>>, replay = <<>>
    PROVE  Stream = sent \o (out.items \o out.terminal)
<1> DEFINE i == out.items
           t == out.terminal
<1>1. sent \in Seq(Number) /\ i \in Seq(Number) /\ t \in Seq(Number)
    BY StreamParts
<1>2. Shown(InHand) = <<>> /\ Shown(replay) = <<>>
    BY HandOf DEF Shown
<1>3. Stream = sent \o <<>> \o <<>> \o i \o t
    BY <1>2, Zenon DEF Stream
<1> HIDE DEF i, t
<1>4. sent \o <<>> \o <<>> \o i \o t = sent \o (i \o t)
    BY <1>1
<1> QED
    BY <1>3, <1>4, Zenon DEF i, t

LEMMA OrderedOfClose ==
    ASSUME Shape, Shape', Drained, Ordered, NEW c \in Consumers, pc[c] \in Inside,
           hand[c] = <<>>, replay = <<>>, out.items = <<>>, out.terminal # <<>>, Close(c)
    PROVE  Ordered'
<1> DEFINE event == Head(out.terminal)
<1>1. event \in Number /\ out.terminal = <<event>>
    BY OneItem DEF Shape, Types, Outs
<1> HIDE DEF event
<1>2. /\ Yield(c, event) /\ replay' = <<>> /\ UNCHANGED <<sent, emitted>>
      /\ out'.items = <<>> /\ out'.terminal = <<>>
    BY DEF Close, Closed, event
<1>3. Stream = sent \o (<<>> \o <<event>>)
    BY <1>1, StreamOfQueue, Zenon
<1>4. sent \o (<<>> \o <<event>>) = sent \o <<event>> \o (<<>> \o <<>>)
  <2>1. sent \in Seq(Number)
      BY DEF Ordered
  <2> QED
      BY <1>1, <2>1
<1>5. Stream = sent \o <<event>> \o (out'.items \o out'.terminal)
    BY <1>2, <1>3, <1>4, Zenon
<1> QED
    BY <1>1, <1>2, <1>5, OrderedYield

LEMMA OrderedOfPeek ==
    ASSUME Shape, Shape', Held, Drained, Ordered, NEW c \in Consumers,
           PeekReplay(c) \/ PeekQueue(c) \/ PeekTerminal(c)
    PROVE  Ordered'
<1>0. /\ pc[c] \in Inside /\ hand[c] = <<>> /\ replay \in AtMostOne(Nat) /\ sent \in Seq(Number)
      /\ out.items \in Seq(Number) /\ out.terminal \in Seq(Number)
  <2>1. pc[c] \in Inside /\ hand[c] = <<>>
      BY DEF Shape, Fits, PeekReplay, PeekQueue, PeekTerminal, Inside
  <2> QED
      BY <2>1, StreamParts DEF Shape, Types
<1>1. CASE PeekReplay(c)
  <2> DEFINE item == Head(replay)
             i == out.items
             t == out.terminal
  <2>1. item \in Nat /\ replay = <<item>> /\ replay' = <<>>
      BY <1>0, <1>1, OneItem DEF PeekReplay
  <2>2. Handle(c, item, out)
      BY <1>1 DEF PeekReplay
  <2>3. Stream = sent \o <<>> \o Shown(replay) \o i \o t
      BY <1>0, HandOf DEF Stream, Shown
  <2>4. sent \in Seq(Number) /\ i \in Seq(Number) /\ t \in Seq(Number)
      BY <1>0
  <2>5. item = Action => i = <<>> /\ t = <<>>
      BY <2>1 DEF Drained
  <2> HIDE DEF item, i, t
  <2>6. ASSUME item = Action PROVE Stream = sent
    <3>1. Shown(replay) = <<>>
        BY <2>1, <2>6 DEF Shown
    <3>2. Stream = sent \o <<>> \o <<>> \o <<>> \o <<>>
        BY <2>3, <2>5, <2>6, <3>1, Zenon
    <3>3. sent \o <<>> \o <<>> \o <<>> \o <<>> = sent
        BY <2>4
    <3> QED
        BY <3>2, <3>3, Zenon
  <2>7. ASSUME item # Action PROVE Stream = sent \o <<item>> \o (i \o t)
    <3>1. item \in Number
        BY <2>1, <2>7 DEF Number, Action
    <3>2. Shown(replay) = <<item>>
        BY <2>1, <3>1, ShownEvent
    <3>3. Stream = sent \o <<>> \o <<item>> \o i \o t
        BY <2>3, <3>2, Zenon
    <3>4. sent \o <<>> \o <<item>> \o i \o t = sent \o <<item>> \o (i \o t)
        BY <2>4, <3>1
    <3> QED
        BY <3>3, <3>4, Zenon
  <2>8. item # Action => Stream = sent \o <<item>> \o (out.items \o out.terminal)
      BY <2>7, Zenon DEF i, t
  <2> QED
      BY <1>0, <2>1, <2>2, <2>6, <2>8, OrderedHandle
<1>2. CASE PeekQueue(c)
  <2> DEFINE item == Head(Readable)
             i == Rest.items
             t == out.terminal
  <2>1. replay = <<>> /\ replay' = <<>> /\ Handle(c, item, Rest) /\ Readable # <<>>
      BY <1>2 DEF PeekQueue
  <2>2. /\ item \in Nat /\ Rest.terminal = t /\ i \in Seq(Number) /\ t \in Seq(Number)
        /\ item = Action => ~out.open
        /\ item # Action => item \in Number /\ out.items = <<item>> \o i
    <3>1. Rest \in Outs
        BY <2>1, ReadableRest
    <3> QED
        BY <1>0, <2>1, <3>1, ReadableRest, QueueItems DEF Outs
  <2>3. Stream = sent \o (out.items \o t)
      BY <1>0, <2>1, StreamOfQueue
  <2>4. item = Action => out.items = <<>> /\ t = <<>>
      BY <2>2 DEF Drained
  <2> HIDE DEF item, i, t
  <2>5. ASSUME item = Action PROVE Stream = sent
    <3>1. Stream = sent \o (<<>> \o <<>>)
        BY <2>3, <2>4, <2>5, Zenon
    <3>2. sent \o (<<>> \o <<>>) = sent
        BY <1>0
    <3> QED
        BY <3>1, <3>2, Zenon
  <2>6. ASSUME item # Action PROVE Stream = sent \o <<item>> \o (i \o t)
    <3>1. Stream = sent \o ((<<item>> \o i) \o t)
        BY <2>2, <2>3, <2>6, Zenon
    <3>2. sent \in Seq(Number) /\ item \in Number /\ i \in Seq(Number) /\ t \in Seq(Number)
        BY <1>0, <2>2, <2>6, Zenon
    <3>3. sent \o ((<<item>> \o i) \o t) = sent \o <<item>> \o (i \o t)
        BY <3>2
    <3> QED
        BY <3>1, <3>3, Zenon
  <2>7. item # Action => Stream = sent \o <<item>> \o (Rest.items \o Rest.terminal)
      BY <2>2, <2>6, Zenon DEF i
  <2> QED
      BY <1>0, <2>1, <2>2, <2>5, <2>7, OrderedHandle
<1>3. CASE PeekTerminal(c)
  <2>1. replay = <<>> /\ Close(c) /\ Ended
      BY <1>3 DEF PeekTerminal
  <2>2. out.items = <<>> /\ out.terminal # <<>>
      BY <2>1 DEF Ended, Readable, Drained
  <2> QED
      BY <1>0, <2>1, <2>2, OrderedOfClose
<1> QED
    BY <1>1, <1>2, <1>3


\* The getter takes the first item; the stream does not notice.
LEMMA OrderedOfGet ==
    ASSUME Shape, Held, Drained, Ordered, NEW c \in Consumers, GetDone(c)
    PROVE  Ordered'
<1> DEFINE item == Head(Readable)
           i == Rest.items
           t == out.terminal
<1>1. /\ pc[c] \in Inside /\ hand[c] = <<>> /\ replay = <<>> /\ replay' = <<>> /\ Readable # <<>>
      /\ out' = Rest /\ UNCHANGED <<sent, emitted, lost>>
  <2>1. pc[c] \in Inside /\ hand[c] = <<>> /\ replay = <<>>
      BY DEF Shape, Fits, GetDone, Inside
  <2> QED
      BY <2>1 DEF GetDone, taskVars
<1>2. hand' = [hand EXCEPT ![c] = <<item>>]
    BY DEF GetDone, Hold
<1>3. /\ out'.items = i /\ out'.terminal = t /\ i \in Seq(Number) /\ t \in Seq(Number)
      /\ sent \in Seq(Number) /\ out.items \in Seq(Number)
      /\ item = Action => i = out.items
      /\ item # Action => item \in Number /\ out.items = <<item>> \o i
  <2>1. Rest \in Outs
      BY <1>1, ReadableRest
  <2> QED
      BY <1>1, <2>1, ReadableRest, StreamParts DEF Outs
<1>4. Stream = sent \o (out.items \o t)
    BY <1>1, StreamOfQueue
<1> HIDE DEF item, i, t
<1>5. InHand' = <<item>>
    BY <1>1, <1>2, HandOf
<1>6. Shown(replay') = <<>>
    BY <1>1 DEF Shown
<1>7. Stream' = sent \o Shown(<<item>>) \o <<>> \o i \o t
    BY <1>1, <1>3, <1>5, <1>6, Zenon DEF Stream
<1>8. CASE item = Action
  <2>1. Stream' = sent \o <<>> \o <<>> \o i \o t
      BY <1>7, <1>8, Zenon DEF Shown
  <2>2. sent \o <<>> \o <<>> \o i \o t = sent \o (i \o t)
      BY <1>3, PartsQueue
  <2> QED
      BY <1>1, <1>3, <1>4, <1>8, <2>1, <2>2, StreamKept
<1>9. CASE item # Action
  <2>1. Shown(<<item>>) = <<item>>
      BY <1>3, <1>9, ShownEvent
  <2>2. sent \in Seq(Number) /\ item \in Number /\ i \in Seq(Number) /\ t \in Seq(Number)
      BY <1>3, <1>9, Zenon
  <2>3. sent \o <<item>> \o <<>> \o i \o t = sent \o ((<<item>> \o i) \o t)
      BY <2>2
  <2>4. Stream' = Stream
      BY <1>3, <1>4, <1>7, <1>9, <2>1, <2>3, Zenon
  <2> QED
      BY <1>1, <1>3, <2>4, StreamKept
<1> QED
    BY <1>8, <1>9

\* The stream of a connection that has taken an item.
LEMMA StreamOfHand ==
    ASSUME Shape, Ordered, NEW c \in Consumers, pc[c] \in {"got", "settle", "send"}
    PROVE  /\ pc[c] \in Inside /\ replay = <<>>
           /\ hand[c] = <<Head(hand[c])>> /\ Head(hand[c]) \in Nat
           /\ Stream = sent \o Shown(hand[c]) \o <<>> \o out.items \o out.terminal
<1>1. /\ pc[c] \in Inside /\ replay = <<>> /\ hand[c] # <<>> /\ hand[c] \in AtMostOne(Nat)
    BY DEF Shape, Types, Fits, Inside
<1>2. hand[c] = <<Head(hand[c])>> /\ Head(hand[c]) \in Nat
    BY <1>1, OneItem
<1>3. Shown(replay) = <<>> /\ InHand = hand[c]
    BY <1>1, HandOf DEF Shown
<1> QED
    BY <1>1, <1>2, <1>3 DEF Stream

\* What it hands on to the next connection, sends, or drops.
LEMMA OrderedOfHand ==
    ASSUME Shape, Shape', Held, Drained, Ordered, NEW c \in Consumers,
           pc[c] \in {"got", "settle", "send"},
           \/ WakeSuperseded(c)
           \/ Handle(c, Head(hand[c]), out) /\ UNCHANGED replay
           \/ Sent(c)
           \/ Disconnect(c)
    PROVE  Ordered'
<1> DEFINE item == Head(hand[c])
           i == out.items
           t == out.terminal
<1>1. /\ pc[c] \in Inside /\ replay = <<>> /\ hand[c] = <<item>> /\ item \in Nat
      /\ Stream = sent \o Shown(<<item>>) \o <<>> \o i \o t
    BY StreamOfHand
<1>2. /\ sent \in Seq(Number) /\ i \in Seq(Number) /\ t \in Seq(Number)
      /\ Shown(<<item>>) \in Seq(Number)
    BY <1>1, StreamParts, ShownType DEF AtMostOne
<1>3. item = Action => i = <<>> /\ t = <<>>
    BY <1>1 DEF Drained, InHands
<1>4. item # Action => item \in Number /\ Shown(<<item>>) = <<item>>
    BY <1>1, ShownEvent DEF Number, Action
<1>5. item = Action => Shown(<<item>>) = <<>>
    BY DEF Shown
<1>6. InHand' = <<>> \/ ~(hand' = [hand EXCEPT ![c] = <<>>])
    BY <1>1, HandOf
<1> DEFINE a == Shown(<<item>>)
<1> HIDE DEF i, t, a
<1>7. CASE WakeSuperseded(c)
  <2>1. /\ hand' = [hand EXCEPT ![c] = <<>>] /\ replay' = <<item>>
        /\ UNCHANGED <<sent, emitted, lost, out>>
      BY <1>1, <1>7 DEF WakeSuperseded, Preserved, Hold, taskVars
  <2>2. Shown(InHand') = <<>>
      BY <1>6, <2>1 DEF Shown
  <2>3. Stream' = sent \o <<>> \o a \o i \o t
      BY <2>1, <2>2, Zenon DEF Stream, i, t, a
  <2>4. sent \in Seq(Number) /\ i \in Seq(Number) /\ t \in Seq(Number) /\ a \in Seq(Number)
      BY <1>2 DEF a
  <2>5. sent \o <<>> \o a \o i \o t = sent \o a \o <<>> \o i \o t
      BY <2>4
  <2>6. Stream' = Stream
      BY <1>1, <2>3, <2>5, Zenon DEF a
  <2> QED
      BY <1>2, <2>1, <2>6, StreamKept
<1>8. CASE Handle(c, Head(hand[c]), out) /\ UNCHANGED replay
  <2>1. Handle(c, item, out) /\ replay' = <<>>
      BY <1>1, <1>8
  <2> HIDE DEF item
  <2>2. ASSUME item = Action PROVE Stream = sent
    <3>1. Stream = sent \o <<>> \o <<>> \o <<>> \o <<>>
        BY <1>1, <1>3, <1>5, <2>2, Zenon
    <3>2. sent \o <<>> \o <<>> \o <<>> \o <<>> = sent
        BY <1>2
    <3> QED
        BY <3>1, <3>2, Zenon
  <2>3. ASSUME item # Action PROVE Stream = sent \o <<item>> \o (i \o t)
    <3>1. Stream = sent \o <<item>> \o <<>> \o i \o t
        BY <1>1, <1>4, <2>3, Zenon
    <3>2. sent \in Seq(Number) /\ item \in Number /\ i \in Seq(Number) /\ t \in Seq(Number)
        BY <1>2, <1>4, <2>3, Zenon
    <3>3. sent \o <<item>> \o <<>> \o i \o t = sent \o <<item>> \o (i \o t)
        BY <3>2
    <3> QED
        BY <3>1, <3>3, Zenon
  <2>4. item # Action => Stream = sent \o <<item>> \o (out.items \o out.terminal)
      BY <2>3, Zenon DEF i, t
  <2> QED
      BY <1>1, <2>1, <2>2, <2>4, OrderedHandle
<1>9. CASE Sent(c)
  <2>1. /\ hand' = [hand EXCEPT ![c] = <<>>] /\ sent' = sent \o <<item>>
        /\ UNCHANGED <<replay, emitted, lost, out>>
      BY <1>1, <1>9 DEF Sent, Hold, taskVars
  <2>2. item # Action
      BY <1>1, <1>9 DEF Sent, Shape, Fits
  <2>3. Shown(InHand') = <<>> /\ Shown(replay') = <<>>
      BY <1>1, <1>6, <2>1 DEF Shown
  <2> HIDE DEF item
  <2>4. Stream' = (sent \o <<item>>) \o <<>> \o <<>> \o i \o t
      BY <2>1, <2>3, Zenon DEF Stream, i, t
  <2>5. sent \in Seq(Number) /\ item \in Number /\ i \in Seq(Number) /\ t \in Seq(Number)
      BY <1>2, <1>4, <2>2, Zenon
  <2>6. (sent \o <<item>>) \o <<>> \o <<>> \o i \o t = sent \o <<item>> \o <<>> \o i \o t
      BY <2>5
  <2>7. Stream' = Stream
      BY <1>1, <1>4, <2>2, <2>4, <2>6, Zenon
  <2>8. sent' \in Seq(Number)
      BY <2>1, <2>5
  <2> QED
      BY <2>1, <2>7, <2>8, StreamKept
<1>10. CASE Disconnect(c)
  <2>1. /\ hand' = [hand EXCEPT ![c] = <<>>] /\ UNCHANGED <<sent, replay, emitted, out>>
        /\ "event" \in lost => "event" \in lost'
      BY <1>10 DEF Disconnect, Hold, taskVars
  <2>2. item # Action => "event" \in lost'
    <3>1. hand[c] # <<>> /\ (item # Action => hand[c] # <<Action>>)
        BY <1>1
    <3> QED
        BY <1>10, <3>1 DEF Disconnect
  <2>3. Shown(InHand') = <<>> /\ Shown(replay') = <<>>
      BY <1>1, <1>6, <2>1 DEF Shown
  <2> HIDE DEF item
  <2>4. Stream' = sent \o <<>> \o <<>> \o i \o t
      BY <2>1, <2>3, Zenon DEF Stream, i, t
  <2>5. CASE item = Action
    <3>1. Stream' = Stream
        BY <1>1, <1>5, <2>4, <2>5, Zenon
    <3> QED
        BY <1>2, <2>1, <3>1, StreamKept
  <2>6. CASE item # Action
    <3> DEFINE rest == i \o t
    <3>1. sent \in Seq(Number) /\ item \in Number /\ i \in Seq(Number) /\ t \in Seq(Number)
        BY <1>2, <1>4, <2>6, Zenon
    <3>2. sent \o <<>> \o <<>> \o i \o t = sent \o rest /\ rest \in Seq(Number)
        BY <3>1
    <3>3. sent \o <<item>> \o <<>> \o i \o t = sent \o <<item>> \o rest
        BY <3>1
    <3> HIDE DEF rest
    <3>4. Climbs(sent \o <<item>> \o rest, emitted) /\ emitted \in Nat
        BY <1>1, <1>4, <2>6, <3>3 DEF Ordered, Shape, Types
    <3>5. Climbs(sent \o rest, emitted)
        BY <3>1, <3>2, <3>4, Removal
    <3> QED
        BY <1>2, <2>1, <2>2, <2>4, <2>6, <3>2, <3>5 DEF Ordered
  <2> QED
      BY <2>5, <2>6
<1> QED
    BY <1>7, <1>8, <1>9, <1>10

LEMMA OrderedOfReader ==
    ASSUME Shape, Shape', Held, Drained, Ordered, NEW c \in Consumers, Reads(c) \/ Disconnect(c)
    PROVE  Ordered'
<1>0. Types /\ Fits(pc[c], hand[c], replay, out.terminal)
    BY DEF Shape
<1>1. CASE Claim(c) \/ Acquire(c) \/ PeekNothing(c) \/ Wake(c) \/ Timeout(c)
  <2>1. UNCHANGED <<sent, emitted, lost, hand, replay, out>>
      BY <1>1 DEF Claim, Acquire, PeekNothing, Wake, Timeout, taskVars
  <2> QED
      BY <2>1, OrderedQuiet
<1>2. CASE PeekReplay(c) \/ PeekQueue(c) \/ PeekTerminal(c)
    BY <1>2, OrderedOfPeek
<1>3. CASE GetDone(c)
    BY <1>3, OrderedOfGet
<1>4. CASE WakeSuperseded(c)
  <2>1. pc[c] \in {"got", "settle", "send"}
      BY <1>4 DEF WakeSuperseded
  <2> QED
      BY <1>4, <2>1, OrderedOfHand
<1>7. CASE Sent(c)
  <2>1. pc[c] \in {"got", "settle", "send"}
      BY <1>7 DEF Sent
  <2> QED
      BY <1>7, <2>1, OrderedOfHand
<1>5. CASE Settle(c)
  <2>1. CASE pc[c] = "settle"
      BY <1>5, <2>1, OrderedOfHand DEF Settle
  <2>2. CASE pc[c] = "ended"
    <3>1. /\ Close(c) /\ pc[c] \in Inside /\ hand[c] = <<>> /\ replay = <<>>
          /\ out.terminal # <<>> /\ out.items = <<>>
        BY <1>0, <1>5, <2>2 DEF Settle, Fits, Drained, Inside
    <3> QED
        BY <3>1, OrderedOfClose
  <2> QED
      BY <1>5, <2>1, <2>2 DEF Settle
<1>6. CASE Disconnect(c)
  <2>1. CASE hand[c] # <<>>
      BY <1>0, <1>6, <2>1, OrderedOfHand DEF Fits
  <2>2. CASE hand[c] = <<>>
    <3>1. hand' = hand /\ lost' = lost /\ UNCHANGED <<sent, emitted, replay, out>>
        BY <1>0, <1>6, <2>2 DEF Disconnect, Hold, Types, taskVars
    <3> QED
        BY <3>1, OrderedQuiet
  <2> QED
      BY <2>1, <2>2
<1> QED
    BY <1>1, <1>2, <1>3, <1>4, <1>5, <1>6, <1>7 DEF Reads

LEMMA OrderInit == Init => OrderInv
<1> SUFFICES ASSUME Init PROVE OrderInv
    OBVIOUS
<1>1. Shape /\ Held
    BY InitInv DEF IInv
<1>2. Drained
    BY DEF Init, Drained, InHands, Closed
<1>3. /\ Shown(InHand) = <<>> /\ Shown(replay) = <<>>
      /\ out.items = <<>> /\ out.terminal = <<>> /\ sent = <<>>
    BY DEF Init, InHand, Shown, Closed
<1>4. Stream = <<>> \o <<>> \o <<>> \o <<>> \o <<>>
    BY <1>3 DEF Stream
<1>5. Stream = <<>>
    BY <1>4
<1>6. Ordered
    BY <1>3, <1>5 DEF Init, Ordered, Climbs
<1> QED
    BY <1>1, <1>2, <1>6 DEF OrderInv

LEMMA OrderStep == OrderInv /\ [Next]_vars => OrderInv'
<1> SUFFICES ASSUME OrderInv, [Next]_vars PROVE OrderInv'
    OBVIOUS
<1>1. Shape /\ Held /\ Drained /\ Ordered
    BY DEF OrderInv
<1>2. CASE Post \/ Posts \/ Stop \/ WithdrawQuestion \/ Works
    BY <1>1, <1>2, ShapeOfTurn, HeldOfTurn, DrainedOfTurn, OrderedOfTurn DEF OrderInv
<1>3. ASSUME NEW c \in Consumers, Reads(c) \/ Disconnect(c) PROVE OrderInv'
  <2>1. Shape' /\ Held'
      BY <1>1, <1>3, ShapeOfReader, HeldOfReader
  <2>2. Drained'
      BY <1>1, <1>3, <2>1, DrainedOfReader
  <2>3. Ordered'
      BY <1>1, <1>3, <2>1, OrderedOfReader
  <2> QED
      BY <2>1, <2>2, <2>3 DEF OrderInv
<1>4. CASE UNCHANGED vars
  <2>1. Shape'
      BY <1>1, <1>4 DEF vars, turnVars, taskVars, readVars, Shape, Types, Fits
  <2>2. Held' /\ Drained'
      BY <1>1, <1>4 DEF vars, turnVars, taskVars, readVars, Held, InHands, Drained
  <2>3. UNCHANGED <<sent, emitted, lost, hand, replay, out>>
      BY <1>4 DEF vars, taskVars, readVars
  <2>4. Ordered'
      BY <1>1, <2>3, OrderedQuiet
  <2> QED
      BY <2>1, <2>2, <2>4 DEF OrderInv
<1> QED
    BY <1>2, <1>3, <1>4 DEF Next


\* One connection is inside the consumer lock and holds an item exactly where it
\* has taken one (the async with of stream_actions, _replay_item).
THEOREM StreamTyping == Spec => []TypeOK
<1>1. Init => IInv
    BY InitInv
<1>2. IInv /\ [Next]_vars => IInv'
    BY Step
<1>3. IInv => TypeOK
    BY ShapeTypes DEF IInv
<1> QED
    BY <1>1, <1>2, <1>3, PTL DEF Spec

\* At all times exactly one place has the turn that is pending: the POST that
\* stages it, the action queue, a connection, the replay slot, its task, or a
\* connection that was lost with it (turn_pending, _consumer_lock, _replay_item).
THEOREM TurnIsHeld == Spec => []TurnHeld
<1>1. Init => IInv
    BY InitInv
<1>2. IInv /\ [Next]_vars => IInv'
    BY Step
<1>3. IInv => TurnHeld
    BY HeldSuffices DEF IInv
<1> QED
    BY <1>1, <1>2, <1>3, PTL DEF Spec

\* A turn with an accepted stop, or whose question was cancelled, never reports
\* completion and no other turn reports a stop, wherever the stop finds the turn
\* (stop_current_turn, begin_turn, QuestionTurnCancelled, the choice of the
\* terminal event in _process_chat_action).
THEOREM StopIsHonored == Spec => []StopHonored
<1>1. Init => IInv
    BY InitInv
<1>2. IInv /\ [Next]_vars => IInv'
    BY Step
<1>3. IInv => StopHonored
    BY DEF IInv, Stops
<1> QED
    BY <1>1, <1>2, <1>3, PTL DEF Spec

\* Whatever the browser reconnects, posts and stops, the events it gets and is
\* still to get are in the order of their emission and none comes twice; while
\* no connection has dropped one, none is missing (stream_actions, _replay_item,
\* the bounded queue and the terminal event beside it, _close_turn_output).
THEOREM StreamInOrder == Spec => []InOrder
<1>1. Init => OrderInv
    BY OrderInit
<1>2. OrderInv /\ [Next]_vars => OrderInv'
    BY OrderStep
<1>3. OrderInv => InOrder
    BY DEF OrderInv, Ordered, Climbs, InOrder
<1> QED
    BY <1>1, <1>2, <1>3, PTL DEF Spec



-----------------------------------------------------------------------------
(* The connections of the tools.                                           *)

Changes == {"opening", "handshake", "undo", "close"}
Changer(u) == use[u].pc \in Changes

Uses == [pc : {"idle", "call"} \cup Changes, on : Servers \cup {"none"}, conn : Nat]

\* The connection that is registered at a server, in its maps or in a hand.
Names(s, c) ==
    /\ c # 0
    /\ \/ c = stacks[s] \/ c = sessions[s]
       \/ \E u \in Users : Changer(u) /\ use[u].on = s /\ use[u].conn = c

Doings ==
    /\ use \in [Users -> Uses]
    /\ stacks \in [Servers -> Nat] /\ sessions \in [Servers -> Nat] /\ made \in Nat
    /\ 0 \notin open
    /\ \A u \in Users : Changer(u) => use[u].on \in Servers /\ use[u].conn # 0
    /\ \A s \in Servers : \A c : Names(s, c) => c \in Nat /\ c <= made

Owned == \A s, t \in Servers : \A c : Names(s, c) /\ Names(t, c) => s = t

Met ==
    \A u, v \in Users :
        u # v /\ Changer(u) /\ Changer(v) /\ use[u].on = use[v].on =>
            /\ use[u].conn \in crossed
            /\ stacks[use[u].on] = 0 \/ stacks[use[u].on] \in crossed

Follows ==
    \A u \in Users :
        Changer(u) =>
            \/ use[u].conn = stacks[use[u].on]
            \/ /\ use[u].conn \in crossed
               /\ stacks[use[u].on] = 0 \/ stacks[use[u].on] \in crossed

\* The registrations of a server, and those who change them.
Agrees(s) ==
    /\ sessions[s] # 0 => sessions[s] \in open \cup broken /\ sessions[s] = stacks[s]
    /\ s \notin tested => (s \in status <=> sessions[s] # 0)

WorksOn(u, s) ==
    /\ use[u].conn = stacks[s]
    /\ \A v \in Users : Changer(v) /\ use[v].on = s => v = u
    /\ use[u].pc # "close" => sessions[s] = 0

Steady ==
    \A s \in Servers \ doubtful :
        /\ Agrees(s)
        /\ \A u \in Users : Changer(u) /\ use[u].on = s => WorksOn(u, s)

Closable == \A c \in open : c \in crossed \/ \E s \in Servers : c = stacks[s]

LinksInv == Doings /\ Owned /\ Met /\ Follows /\ Steady /\ Closable

-----------------------------------------------------------------------------
(* What a step touches.                                                    *)

Only(u) == \A v \in Users \ {u} : use'[v] = use[v]

\* Another server keeps what it has.
Apart(s) ==
    \A t \in Servers \ {s} :
        /\ stacks'[t] = stacks[t] /\ sessions'[t] = sessions[t]
        /\ (t \in status') <=> (t \in status)
        /\ t \in doubtful => t \in doubtful'

LEMMA InitLinks == LinksInit => LinksInv
  <1> SUFFICES ASSUME LinksInit PROVE LinksInv
    OBVIOUS
  <1>1. /\ use = [u \in Users |-> Resting] /\ stacks = [s \in Servers |-> 0]
        /\ sessions = [s \in Servers |-> 0] /\ made = 0 /\ open = {} /\ status = {}
    BY DEF LinksInit
  <1>2. Resting \in Uses /\ Resting.pc = "idle"
    BY DEF Resting, Uses
  <1>3. /\ \A u \in Users : ~Changer(u)
        /\ \A s \in Servers : \A c : ~Names(s, c)
    BY <1>1, <1>2 DEF Changer, Changes, Names
  <1>4. Doings
    BY <1>1, <1>2, <1>3 DEF Doings
  <1> QED
    BY <1>1, <1>3, <1>4 DEF LinksInv, Owned, Met, Follows, Steady, Agrees, Closable

\* A connection that gets a name gets one of its server's or is a new one.
LEMMA OwnedKeeps ==
    ASSUME Doings, Owned, NEW x, made' \in {made, made + 1},
           \A s \in Servers : \A c :
               Names(s, c)' => Names(s, c) \/ (s = x /\ c = made + 1 /\ made' = made + 1)
    PROVE  /\ Owned'
           /\ \A s \in Servers : \A c : Names(s, c)' => c \in Nat /\ c <= made'
  <1>1. /\ made \in Nat
        /\ \A s \in Servers : \A c : Names(s, c) => c \in Nat /\ c <= made
    BY DEF Doings
  <1>2. ~(made + 1 <= made)
    BY <1>1
  <1>3. \A s \in Servers : ~Names(s, made + 1)
    BY <1>1, <1>2
  <1>4. Owned'
    BY <1>3 DEF Owned
  <1>5. ASSUME NEW s \in Servers, NEW c, Names(s, c)' PROVE c \in Nat /\ c <= made'
    <2>1. CASE Names(s, c)
      BY <1>1, <2>1
    <2>2. CASE c = made + 1 /\ made' = made + 1
      BY <1>1, <2>2
    <2> QED
      BY <1>5, <2>1, <2>2
  <1> QED
    BY <1>4, <1>5

\* A call that is no change, or the end of one, and leaves the connections alone;
\* or one of them dies.
LEMMA Rests ==
    ASSUME LinksInv, NEW u \in Users, Only(u), use' \in [Users -> Uses],
           Changer(u)' => use'[u] = use[u],
           UNCHANGED <<stacks, sessions, made, crossed, doubtful>>,
           open' \subseteq open, open \cup broken \subseteq open' \cup broken',
           \A s \in Servers \ doubtful : s \notin tested' => (s \in status' <=> sessions[s] # 0)
    PROVE  LinksInv'
  <1>1. \A v \in Users : Changer(v)' => Changer(v) /\ use'[v] = use[v]
    BY DEF Only, Changer
  <1>2. Doings /\ Owned /\ Met /\ Follows /\ Steady /\ Closable
    BY DEF LinksInv
  <1>3. \A s \in Servers : \A c : Names(s, c)' => Names(s, c)
    BY <1>1 DEF Names
  <1>4. Owned'
    BY <1>2, <1>3 DEF Owned
  <1>5. Doings'
    BY <1>1, <1>2, <1>3 DEF Doings
  <1>6. Met' /\ Follows'
    BY <1>1, <1>2 DEF Met, Follows
  <1>7. Steady'
    BY <1>1, <1>2 DEF Steady, Agrees, WorksOn
  <1>8. Closable'
    BY <1>2 DEF Closable
  <1> QED
    BY <1>4, <1>5, <1>6, <1>7, <1>8 DEF LinksInv

LEMMA UseSet ==
    ASSUME Doings, NEW u \in Users, NEW w \in Uses, use' = [use EXCEPT ![u] = w]
    PROVE  use' \in [Users -> Uses] /\ use'[u] = w /\ Only(u)
  BY DEF Doings, Only

LEMMA RestingUse == Resting \in Uses /\ Resting.pc = "idle"
  BY DEF Resting, Uses

LEMMA LeaveUse ==
    ASSUME Doings, NEW u \in Users, Leave(u)
    PROVE  use' \in [Users -> Uses] /\ Only(u) /\ ~Changer(u)'
  BY UseSet, RestingUse DEF Leave, Changer, Changes

LEMMA StopKeeps ==
    ASSUME LinksInv, NEW u \in Users, StopTool(u) \/ Answered(u) PROVE LinksInv'
  <1>1. Leave(u) /\ UNCHANGED <<stacks, sessions, open, status, made, crossed, doubtful, broken, tested>>
    BY DEF StopTool, Answered, bad
  <1>2. \A s \in Servers \ doubtful : s \notin tested' => (s \in status' <=> sessions[s] # 0)
    BY <1>1 DEF LinksInv, Steady, Agrees
  <1> QED
    BY <1>1, <1>2, LeaveUse, Rests DEF LinksInv

LEMMA CallKeeps ==
    ASSUME LinksInv, NEW u \in Users, NEW s \in Servers, Add(u, s) \/ Call(u, s) PROVE LinksInv'
  <1>1. \/ use' = use
        \/ use' = [use EXCEPT ![u] = [pc |-> "call", on |-> s, conn |-> sessions[s]]]
    BY DEF Add, Call
  <1>2. UNCHANGED <<stacks, sessions, open, status, made, crossed, doubtful, broken, tested>>
    BY DEF Add, Call, bad
  <1>3. [pc |-> "call", on |-> s, conn |-> sessions[s]] \in Uses
    BY DEF LinksInv, Doings, Uses
  <1>4. use' \in [Users -> Uses] /\ Only(u) /\ (Changer(u)' => use'[u] = use[u])
    <2>1. CASE use' = use
      BY <2>1 DEF LinksInv, Doings, Only
    <2>2. CASE use' = [use EXCEPT ![u] = [pc |-> "call", on |-> s, conn |-> sessions[s]]]
      BY <1>3, <2>2, UseSet DEF LinksInv, Changer, Changes
    <2> QED
      BY <1>1, <2>1, <2>2
  <1>5. \A t \in Servers \ doubtful : t \notin tested' => (t \in status' <=> sessions[t] # 0)
    BY <1>2 DEF LinksInv, Steady, Agrees
  <1> QED
    BY <1>2, <1>4, <1>5, Rests

-----------------------------------------------------------------------------
(* A connection is opened.                                                 *)

\* What a change that begins at s finds, and leaves spoiled.
LEMMA Meets ==
    ASSUME LinksInv, NEW s \in Servers, NEW conns, NEW alone \in BOOLEAN, Meet(s, conns, alone),
           alone => Changing(s) = {}
    PROVE  /\ crossed \subseteq crossed' /\ doubtful \subseteq doubtful'
           /\ doubtful' \subseteq doubtful \cup {s}
           /\ alone => \A v \in Users : ~(Changer(v) /\ use[v].on = s)
           /\ ~alone => /\ s \in doubtful' /\ conns \subseteq crossed'
                        /\ \A c : Names(s, c) => c \in crossed'
  <1>1. \A v \in Users : Changer(v) /\ use[v].on = s => use[v].conn \in Changing(s)
    BY DEF Changing, Changer, Changes, At
  <1>2. CASE alone
    BY <1>1, <1>2 DEF Meet
  <1>3. CASE ~alone
    <2>1. crossed' = crossed \cup Registered(s) \cup conns /\ doubtful' = doubtful \cup {s}
      BY <1>3 DEF Meet
    <2>2. \A c : Names(s, c) => c \in Registered(s)
      BY <1>1 DEF Names, Registered
    <2> QED
      BY <1>3, <2>1, <2>2
  <1> QED
    BY <1>2, <1>3

LEMMA ConnectKeeps ==
    ASSUME LinksInv, NEW u \in Users, NEW s \in Servers, Connect(u, s) PROVE LinksInv'
  <1>0. Doings /\ Owned /\ Met /\ Follows /\ Steady /\ Closable
    BY DEF LinksInv
  <1>1. CASE sessions[s] # 0
    <2>1. /\ status' = status \cup {s}
          /\ UNCHANGED <<use, stacks, sessions, open, made, crossed, doubtful, broken, tested>>
      BY <1>1 DEF Connect
    <2>2. \A t \in Servers \ doubtful : t \notin tested' => (t \in status' <=> sessions[t] # 0)
      BY <1>0, <1>1, <2>1 DEF Steady, Agrees
    <2>3. use' \in [Users -> Uses] /\ Only(u)
      BY <1>0, <2>1 DEF Doings, Only
    <2> QED
      BY <2>1, <2>2, <2>3, Rests
  <1>2. CASE sessions[s] = 0
    <2> DEFINE n == made + 1
               new == [pc |-> "opening", on |-> s, conn |-> n]
               alone == stacks[s] = 0 /\ Changing(s) = {}
    <2>1. /\ made' = n /\ use' = [use EXCEPT ![u] = new] /\ stacks' = [stacks EXCEPT ![s] = n]
          /\ Meet(s, {n}, alone) /\ ~Changer(u)
          /\ UNCHANGED <<sessions, open, status, broken, tested>>
      BY <1>2 DEF Connect, At, Changer, Changes
    <2>2. made \in Nat /\ n \in Nat /\ n # 0
      BY <1>0 DEF Doings
    <2>3. new \in Uses /\ new.pc = "opening" /\ new.on = s /\ new.conn = n
      BY <2>2 DEF Uses, Changes
    <2> HIDE DEF n, new
    <2>4. use' \in [Users -> Uses] /\ use'[u] = new /\ Only(u)
      BY <1>0, <2>1, <2>3, UseSet
    <2>5. /\ stacks' \in [Servers -> Nat] /\ stacks'[s] = n
          /\ \A t \in Servers \ {s} : stacks'[t] = stacks[t]
      BY <1>0, <2>1, <2>2 DEF Doings
    <2>6. /\ crossed \subseteq crossed' /\ doubtful \subseteq doubtful'
          /\ doubtful' \subseteq doubtful \cup {s}
          /\ alone => \A v \in Users : ~(Changer(v) /\ use[v].on = s)
          /\ ~alone => /\ s \in doubtful' /\ n \in crossed'
                       /\ \A c : Names(s, c) => c \in crossed'
      BY <2>1, Meets
    <2>7. alone => stacks[s] = 0
      OBVIOUS
    <2> HIDE DEF alone
    <2>8. \A v \in Users \ {u} : use'[v] = use[v] /\ (Changer(v)' <=> Changer(v))
      BY <2>4 DEF Only, Changer
    <2>9. Changer(u)' /\ use'[u].on = s /\ use'[u].conn = n /\ use'[u].pc = "opening"
      BY <2>3, <2>4 DEF Changer, Changes
    <2>10. \A t \in Servers : \A c : Names(t, c)' => Names(t, c) \/ (t = s /\ c = n /\ made' = n)
      BY <2>1, <2>5, <2>8, <2>9 DEF Names
    <2>11. Owned' /\ \A t \in Servers : \A c : Names(t, c)' => c \in Nat /\ c <= made'
      BY <1>0, <2>1, <2>10, OwnedKeeps DEF n
    <2>12. Doings'
      BY <1>0, <2>1, <2>2, <2>4, <2>5, <2>8, <2>9, <2>11 DEF Doings
    <2>13. \A v \in Users : Changer(v) /\ use[v].on = s => ~alone /\ use[v].conn \in crossed'
      BY <1>0, <2>6 DEF Names, Doings
    <2>14. Met'
      <3>1. ASSUME NEW v \in Users, NEW w \in Users, v # w, Changer(v)', Changer(w)', use'[v].on = use'[w].on
            PROVE  /\ use'[v].conn \in crossed'
                   /\ stacks'[use'[v].on] = 0 \/ stacks'[use'[v].on] \in crossed'
        <4>1. CASE use'[v].on = s
          BY <2>5, <2>6, <2>8, <2>9, <2>13, <3>1, <4>1
        <4>2. CASE use'[v].on # s
          BY <1>0, <2>5, <2>6, <2>8, <2>9, <3>1, <4>2 DEF Met, Doings
        <4> QED
          BY <4>1, <4>2
      <3> QED
        BY <3>1 DEF Met
    <2>15. Follows'
      <3>1. ASSUME NEW v \in Users, Changer(v)'
            PROVE  \/ use'[v].conn = stacks'[use'[v].on]
                   \/ /\ use'[v].conn \in crossed'
                      /\ stacks'[use'[v].on] = 0 \/ stacks'[use'[v].on] \in crossed'
        <4>1. CASE v = u
          BY <2>5, <2>9, <4>1
        <4>2. CASE v # u /\ use[v].on = s
          BY <2>5, <2>6, <2>8, <2>13, <3>1, <4>2
        <4>3. CASE v # u /\ use[v].on # s
          BY <1>0, <2>5, <2>6, <2>8, <3>1, <4>3 DEF Follows, Doings
        <4> QED
          BY <4>1, <4>2, <4>3
      <3> QED
        BY <3>1 DEF Follows
    <2>16. Steady'
      <3>1. ASSUME NEW t \in Servers, t \notin doubtful', t # s
            PROVE  /\ Agrees(t)'
                   /\ \A v \in Users : Changer(v)' /\ use'[v].on = t => WorksOn(v, t)'
        BY <1>0, <2>1, <2>5, <2>6, <2>8, <2>9, <3>1 DEF Steady, Agrees, WorksOn
      <3>2. ASSUME s \notin doubtful'
            PROVE  /\ Agrees(s)'
                   /\ \A v \in Users : Changer(v)' /\ use'[v].on = s => WorksOn(v, s)'
        <4>1. alone /\ s \notin doubtful
          BY <2>6, <3>2
        <4>2. Agrees(s)'
          BY <1>0, <1>2, <2>1, <4>1 DEF Steady, Agrees
        <4>3. \A v \in Users : Changer(v)' /\ use'[v].on = s => v = u
          BY <2>6, <2>8, <4>1
        <4> QED
          BY <1>2, <2>1, <2>5, <2>9, <4>2, <4>3 DEF WorksOn
      <3> QED
        BY <3>1, <3>2 DEF Steady
    <2>17. Closable'
      <3>1. ASSUME NEW c \in open PROVE c \in crossed' \/ \E t \in Servers : c = stacks'[t]
        <4>1. CASE c \in crossed
          BY <2>6, <4>1
        <4>2. ASSUME NEW t \in Servers, c = stacks[t]
              PROVE  c \in crossed' \/ \E r \in Servers : c = stacks'[r]
          <5>1. CASE t # s
            BY <2>5, <4>2, <5>1
          <5>2. CASE t = s /\ ~alone /\ c # 0
            BY <2>6, <4>2, <5>2 DEF Names
          <5>3. CASE c = 0
            BY <1>0, <5>3 DEF Doings
          <5> QED
            BY <2>7, <4>2, <5>1, <5>2, <5>3
        <4> QED
          BY <1>0, <4>1, <4>2 DEF Closable
      <3> QED
        BY <2>1, <3>1 DEF Closable
    <2> QED
      BY <2>11, <2>12, <2>14, <2>15, <2>16, <2>17 DEF LinksInv
  <1> QED
    BY <1>1, <1>2

\* The client has a transport: its connection is one that can be closed.
LEMMA TransportKeeps ==
    ASSUME LinksInv, NEW u \in Users, Transport(u) PROVE LinksInv'
  <1>0. Doings /\ Owned /\ Met /\ Follows /\ Steady /\ Closable
    BY DEF LinksInv
  <1> DEFINE new == [use[u] EXCEPT !.pc = "handshake"]
  <1>1. /\ use' = [use EXCEPT ![u] = new] /\ use[u].pc = "opening"
        /\ open' = open \cup {use[u].conn}
        /\ UNCHANGED <<stacks, sessions, status, made, crossed, doubtful, broken, tested>>
    BY DEF Transport, At, bad
  <1>2. new \in Uses /\ new.pc = "handshake" /\ new.on = use[u].on /\ new.conn = use[u].conn
    BY <1>0 DEF Doings, Uses, Changes
  <1> HIDE DEF new
  <1>3. use' \in [Users -> Uses] /\ use'[u] = new /\ Only(u)
    BY <1>0, <1>1, <1>2, UseSet
  <1>4. /\ Changer(u)
        /\ \A v \in Users : /\ Changer(v)' <=> Changer(v)
                            /\ use'[v].on = use[v].on /\ use'[v].conn = use[v].conn
                            /\ use'[v].pc = "close" <=> use[v].pc = "close"
    BY <1>1, <1>2, <1>3 DEF Only, Changer, Changes
  <1>5. \A s \in Servers : \A c : Names(s, c)' => Names(s, c)
    BY <1>1, <1>4 DEF Names
  <1>6. Doings'
    BY <1>0, <1>1, <1>3, <1>4, <1>5 DEF Doings
  <1>7. Owned'
    BY <1>0, <1>5 DEF Owned
  <1>8. Met' /\ Follows'
    BY <1>0, <1>1, <1>4 DEF Met, Follows
  <1>9. Steady'
    BY <1>0, <1>1, <1>4 DEF Steady, Agrees, WorksOn
  <1>10. Closable'
    BY <1>0, <1>1, <1>4 DEF Closable, Follows, Doings
  <1> QED
    BY <1>6, <1>7, <1>8, <1>9, <1>10 DEF LinksInv

\* A change that ends names nothing new and meets nobody.
LEMMA Leaving ==
    ASSUME Doings, NEW u \in Users, Leave(u)
    PROVE  /\ use' \in [Users -> Uses] /\ ~Changer(u)'
           /\ \A v \in Users : Changer(v)' => v # u /\ Changer(v) /\ use'[v] = use[v]
  BY LeaveUse DEF Only, Changer

\* The server has answered: its session is the connection it has on its stack.
LEMMA HandshakeKeeps ==
    ASSUME LinksInv, NEW u \in Users, Handshake(u) PROVE LinksInv'
  <1>0. Doings /\ Owned /\ Met /\ Follows /\ Steady /\ Closable
    BY DEF LinksInv
  <1>s. PICK s : s = use[u].on
    OBVIOUS
  <1>c. PICK c : c = use[u].conn
    OBVIOUS
  <1>1. /\ Leave(u) /\ Changer(u) /\ c \in open /\ use[u].pc = "handshake"
        /\ sessions' = [sessions EXCEPT ![s] = c] /\ status' = status \cup {s}
        /\ UNCHANGED <<stacks, open, made, crossed, doubtful, broken, tested>>
    BY <1>s, <1>c DEF Handshake, At, Changer, Changes, bad
  <1>2. s \in Servers /\ c # 0 /\ c \in Nat
    BY <1>0, <1>s, <1>c, <1>1 DEF Doings, Uses
  <1>3. /\ use' \in [Users -> Uses] /\ ~Changer(u)'
        /\ \A v \in Users : Changer(v)' => v # u /\ Changer(v) /\ use'[v] = use[v]
    BY <1>0, <1>1, Leaving
  <1>4. /\ sessions' \in [Servers -> Nat] /\ sessions'[s] = c
        /\ \A t \in Servers \ {s} : sessions'[t] = sessions[t]
    BY <1>0, <1>1, <1>2 DEF Doings
  <1>5. \A t \in Servers : \A d : Names(t, d)' => Names(t, d)
    BY <1>s, <1>c, <1>1, <1>2, <1>3, <1>4 DEF Names
  <1>6. Doings'
    BY <1>0, <1>1, <1>3, <1>4, <1>5 DEF Doings
  <1>7. Owned'
    BY <1>0, <1>5 DEF Owned
  <1>8. Met' /\ Follows'
    BY <1>0, <1>1, <1>3 DEF Met, Follows
  <1>9. Steady'
    <2>1. ASSUME NEW t \in Servers, t \notin doubtful, t # s
          PROVE  /\ Agrees(t)'
                 /\ \A v \in Users : Changer(v)' /\ use'[v].on = t => WorksOn(v, t)'
      BY <1>0, <1>1, <1>3, <1>4, <2>1 DEF Steady, Agrees, WorksOn
    <2>2. ASSUME s \notin doubtful
          PROVE  /\ Agrees(s)'
                 /\ \A v \in Users : Changer(v)' /\ use'[v].on = s => WorksOn(v, s)'
      <3>1. WorksOn(u, s)
        BY <1>0, <1>s, <1>1, <1>2, <2>2 DEF Steady
      <3>2. \A v \in Users : ~(Changer(v)' /\ use'[v].on = s)
        BY <1>3, <3>1 DEF WorksOn
      <3>3. Agrees(s)'
        BY <1>c, <1>1, <1>2, <1>4, <3>1 DEF Agrees, WorksOn
      <3> QED
        BY <3>2, <3>3
    <2> QED
      BY <1>1, <2>1, <2>2 DEF Steady
  <1>10. Closable'
    BY <1>0, <1>1 DEF Closable
  <1> QED
    BY <1>6, <1>7, <1>8, <1>9, <1>10 DEF LinksInv

\* A connect that failed goes on to close what its server has registered.
LEMMA FailConnectKeeps ==
    ASSUME LinksInv, NEW u \in Users, FailConnect(u) PROVE LinksInv'
  <1>0. Doings /\ Owned /\ Met /\ Follows /\ Steady /\ Closable
    BY DEF LinksInv
  <1> DEFINE s == use[u].on
             new == [use[u] EXCEPT !.pc = "undo", !.conn = stacks[s]]
  <1>1. /\ use[u].pc \in {"opening", "handshake"} /\ Changer(u) /\ Unwind(u)
        /\ UNCHANGED <<stacks, sessions, open, made, crossed, doubtful, broken, tested>>
    BY DEF FailConnect, Changer, Changes, bad
  <1>2. s \in Servers /\ use[u].conn # 0
    BY <1>0, <1>1 DEF Doings
  <1>3. CASE stacks[s] = 0
    <2>1. Leave(u) /\ status' = status \ {s}
      BY <1>1, <1>3 DEF Unwind
    <2>2. s \in doubtful
      BY <1>0, <1>1, <1>2, <1>3 DEF Steady, WorksOn
    <2>3. \A t \in Servers \ doubtful : t \notin tested' => (t \in status' <=> sessions[t] # 0)
      BY <1>0, <1>1, <2>1, <2>2 DEF Steady, Agrees
    <2>4. use' \in [Users -> Uses] /\ Only(u) /\ ~Changer(u)'
      BY <1>0, <2>1, LeaveUse
    <2> QED
      BY <1>1, <2>3, <2>4, Rests
  <1>4. CASE stacks[s] # 0
    <2>1. use' = [use EXCEPT ![u] = new] /\ status' = status
      BY <1>1, <1>4 DEF Unwind
    <2>2. new \in Uses /\ new.pc = "undo" /\ new.on = s /\ new.conn = stacks[s]
      BY <1>0, <1>2 DEF Doings, Uses, Changes
    <2> HIDE DEF new
    <2>3. use' \in [Users -> Uses] /\ use'[u] = new /\ Only(u)
      BY <1>0, <2>1, <2>2, UseSet
    <2>4. /\ Changer(u)'
          /\ \A v \in Users : /\ Changer(v)' <=> Changer(v)
                              /\ use'[v].on = use[v].on
                              /\ v # u => use'[v] = use[v]
      BY <1>1, <2>2, <2>3 DEF Only, Changer, Changes
    <2>5. \A t \in Servers : \A c : Names(t, c)' => Names(t, c)
      BY <1>1, <2>2, <2>3, <2>4 DEF Names
    <2>6. Doings'
      BY <1>0, <1>1, <1>4, <2>2, <2>3, <2>4, <2>5 DEF Doings
    <2>7. Owned'
      BY <1>0, <2>5 DEF Owned
    <2>8. Met'
      <3>1. ASSUME NEW v \in Users, v # u, Changer(v), use[v].on = s PROVE stacks[s] \in crossed
        BY <1>0, <1>1, <1>4, <3>1 DEF Met
      <3> QED
        BY <1>0, <1>1, <2>2, <2>3, <2>4, <3>1 DEF Met
    <2>9. Follows'
      BY <1>0, <1>1, <2>2, <2>3, <2>4 DEF Follows
    <2>10. Steady'
      <3>1. ASSUME NEW t \in Servers, t \notin doubtful, NEW v \in Users, Changer(v)', use'[v].on = t
            PROVE  WorksOn(v, t)'
        <4>1. WorksOn(v, t) /\ use[v].on = t
          BY <1>0, <2>4, <3>1 DEF Steady
        <4>2. CASE v # u
          BY <1>1, <2>4, <4>1, <4>2 DEF WorksOn
        <4>3. CASE v = u
          BY <1>1, <2>2, <2>3, <2>4, <4>1, <4>3 DEF WorksOn
        <4> QED
          BY <4>2, <4>3
      <3>2. \A t \in Servers \ doubtful : Agrees(t)'
        BY <1>0, <1>1, <2>1 DEF Steady, Agrees
      <3> QED
        BY <1>1, <3>1, <3>2 DEF Steady
    <2>11. Closable'
      BY <1>0, <1>1 DEF Closable
    <2> QED
      BY <2>6, <2>7, <2>8, <2>9, <2>10, <2>11 DEF LinksInv
  <1> QED
    BY <1>3, <1>4

-----------------------------------------------------------------------------
(* A connection is closed.                                                 *)

\* The connection is gone, and all its server had registered.
LEMMA CloseKeeps ==
    ASSUME LinksInv, NEW u \in Users, Leave(u), use[u].pc \in {"undo", "close"},
           open' = open \ {use[u].conn}, stacks' = [stacks EXCEPT ![use[u].on] = 0],
           \/ sessions' = [sessions EXCEPT ![use[u].on] = 0]
           \/ sessions' = sessions /\ use[u].pc = "undo",
           status' = status \ {use[u].on}, UNCHANGED <<made, crossed, doubtful, broken, tested>>
    PROVE  LinksInv'
  <1>0. Doings /\ Owned /\ Met /\ Follows /\ Steady /\ Closable
    BY DEF LinksInv
  <1>s. PICK s : s = use[u].on
    OBVIOUS
  <1>c. PICK c : c = use[u].conn
    OBVIOUS
  <1>1. Changer(u) /\ s \in Servers /\ c # 0 /\ Names(s, c)
    BY <1>0, <1>s, <1>c DEF Changer, Changes, Doings, Names
  <1>2. /\ use' \in [Users -> Uses] /\ ~Changer(u)'
        /\ \A v \in Users : Changer(v)' => v # u /\ Changer(v) /\ use'[v] = use[v]
    BY <1>0, Leaving
  <1>3. /\ stacks' \in [Servers -> Nat] /\ sessions' \in [Servers -> Nat]
        /\ stacks'[s] = 0 /\ sessions'[s] \in {0, sessions[s]}
        /\ \A t \in Servers \ {s} : stacks'[t] = stacks[t] /\ sessions'[t] = sessions[t]
    BY <1>0, <1>s, <1>1 DEF Doings
  <1>4. \A t \in Servers : \A d : Names(t, d)' => Names(t, d)
    BY <1>2, <1>3 DEF Names
  <1>5. Doings'
    BY <1>0, <1>2, <1>3, <1>4 DEF Doings
  <1>6. Owned'
    BY <1>0, <1>4 DEF Owned
  <1>7. Met'
    BY <1>0, <1>2, <1>3 DEF Met, Doings
  <1>8. Follows'
    <2>1. ASSUME NEW v \in Users, Changer(v)'
          PROVE  \/ use'[v].conn = stacks'[use'[v].on]
                 \/ /\ use'[v].conn \in crossed
                    /\ stacks'[use'[v].on] = 0 \/ stacks'[use'[v].on] \in crossed
      <3>1. v # u /\ Changer(v) /\ use'[v] = use[v] /\ use[v].on \in Servers
        BY <1>0, <1>2, <2>1 DEF Doings
      <3>2. CASE use[v].on = s
        BY <1>0, <1>s, <1>1, <1>3, <3>1, <3>2 DEF Met
      <3>3. CASE use[v].on # s
        BY <1>0, <1>3, <3>1, <3>3 DEF Follows
      <3> QED
        BY <3>2, <3>3
    <2> QED
      BY <2>1 DEF Follows
  <1>9. Steady'
    <2>1. ASSUME NEW t \in Servers, t \notin doubtful, t # s
          PROVE  /\ Agrees(t)'
                 /\ \A v \in Users : Changer(v)' /\ use'[v].on = t => WorksOn(v, t)'
      <3>1. sessions[t] # c
        BY <1>0, <1>1, <2>1 DEF Owned, Names
      <3>2. Agrees(t)'
        BY <1>0, <1>s, <1>c, <1>3, <2>1, <3>1 DEF Steady, Agrees
      <3>3. \A v \in Users : Changer(v)' /\ use'[v].on = t => WorksOn(v, t)'
        BY <1>0, <1>2, <1>3, <2>1 DEF Steady, WorksOn
      <3> QED
        BY <3>2, <3>3
    <2>2. ASSUME s \notin doubtful
          PROVE  /\ Agrees(s)'
                 /\ \A v \in Users : Changer(v)' /\ use'[v].on = s => WorksOn(v, s)'
      <3>1. WorksOn(u, s)
        BY <1>0, <1>s, <1>1, <2>2 DEF Steady
      <3>2. \A v \in Users : ~(Changer(v)' /\ use'[v].on = s)
        BY <1>2, <3>1 DEF WorksOn
      <3>3. sessions'[s] = 0
        BY <1>0, <1>s, <1>1, <3>1 DEF WorksOn, Doings
      <3> QED
        BY <1>s, <3>2, <3>3 DEF Agrees
    <2> QED
      BY <2>1, <2>2 DEF Steady
  <1>10. Closable'
    <2>1. ASSUME NEW d \in open, d # c, d \notin crossed, NEW t \in Servers, d = stacks[t]
          PROVE  t # s
      BY <1>0, <1>s, <1>c, <1>1, <2>1 DEF Follows, Doings
    <2> QED
      BY <1>0, <1>c, <1>3, <2>1 DEF Closable
  <1> QED
    BY <1>5, <1>6, <1>7, <1>8, <1>9, <1>10 DEF LinksInv

\* A close whose stack somebody else has removed takes the connection only.
LEMMA LateCloseKeeps ==
    ASSUME LinksInv, NEW u \in Users, Leave(u), Changer(u), stacks[use[u].on] = 0,
           open' = open \ {use[u].conn},
           UNCHANGED <<stacks, sessions, status, made, crossed, doubtful, broken, tested>>
    PROVE  LinksInv'
  <1>0. Doings /\ Owned /\ Met /\ Follows /\ Steady /\ Closable
    BY DEF LinksInv
  <1> DEFINE s == use[u].on
             c == use[u].conn
  <1>1. s \in Servers /\ c # 0 /\ Names(s, c)
    BY <1>0 DEF Doings, Names
  <1>2. s \in doubtful
    BY <1>0, <1>1 DEF Steady, WorksOn
  <1>3. /\ use' \in [Users -> Uses] /\ ~Changer(u)'
        /\ \A v \in Users : Changer(v)' => v # u /\ Changer(v) /\ use'[v] = use[v]
    BY <1>0, Leaving
  <1>4. \A t \in Servers : \A d : Names(t, d)' => Names(t, d)
    BY <1>3 DEF Names
  <1>5. Doings'
    BY <1>0, <1>3, <1>4 DEF Doings
  <1>6. Owned'
    BY <1>0, <1>4 DEF Owned
  <1>7. Met' /\ Follows'
    BY <1>0, <1>3 DEF Met, Follows
  <1>8. Steady'
    <2>1. \A t \in Servers \ doubtful : sessions[t] # c
      BY <1>0, <1>1, <1>2 DEF Owned, Names
    <2> QED
      BY <1>0, <1>3, <2>1 DEF Steady, Agrees, WorksOn
  <1>9. Closable'
    BY <1>0 DEF Closable
  <1> QED
    BY <1>5, <1>6, <1>7, <1>8, <1>9 DEF LinksInv

LEMMA ClosedKeeps ==
    ASSUME LinksInv, NEW u \in Users, Undone(u) \/ Disconnected(u) PROVE LinksInv'
  <1>1. CASE Undone(u)
    <2>1. /\ Leave(u) /\ use[u].pc = "undo" /\ open' = open \ {use[u].conn}
          /\ stacks' = [stacks EXCEPT ![use[u].on] = 0] /\ status' = status \ {use[u].on}
          /\ UNCHANGED <<sessions, made, crossed, doubtful, broken, tested>>
      BY <1>1 DEF Undone, At, bad
    <2> QED
      BY <2>1, CloseKeeps
  <1>2. CASE Disconnected(u)
    <2>1. /\ Leave(u) /\ use[u].pc = "close" /\ open' = open \ {use[u].conn} /\ Changer(u)
          /\ UNCHANGED <<made, crossed, doubtful, broken, tested>>
      BY <1>2 DEF Disconnected, At, Changer, Changes, bad
    <2>2. CASE stacks[use[u].on] = 0
      <3>1. UNCHANGED <<sessions, status, stacks>>
        BY <1>2, <2>2 DEF Disconnected
      <3> QED
        BY <2>1, <2>2, <3>1, LateCloseKeeps
    <2>3. CASE stacks[use[u].on] # 0
      <3>1. /\ stacks' = [stacks EXCEPT ![use[u].on] = 0] /\ status' = status \ {use[u].on}
            /\ sessions' = [sessions EXCEPT ![use[u].on] = 0]
        BY <1>2, <2>3 DEF Disconnected, DropSession
      <3> QED
        BY <2>1, <3>1, CloseKeeps
    <2> QED
      BY <2>2, <2>3
  <1> QED
    BY <1>1, <1>2

\* A close that failed spoils its connection.
LEMMA FailCloseKeeps ==
    ASSUME LinksInv, NEW u \in Users, FailClose(u) PROVE LinksInv'
  <1>0. Doings /\ Owned /\ Met /\ Follows /\ Steady /\ Closable
    BY DEF LinksInv
  <1> DEFINE s == use[u].on
             c == use[u].conn
  <1>1. /\ Leave(u) /\ Changer(u) /\ open' \in {open, open \ {c}}
        /\ crossed' = crossed \cup {c} /\ doubtful' = doubtful \cup {s}
        /\ status' \in {status, status \ {s}}
        /\ UNCHANGED <<stacks, sessions, made, broken, tested>>
    BY DEF FailClose, Changer, Changes
  <1>2. s \in Servers /\ c # 0 /\ Names(s, c)
    BY <1>0, <1>1 DEF Doings, Names
  <1>3. /\ use' \in [Users -> Uses] /\ ~Changer(u)'
        /\ \A v \in Users : Changer(v)' => v # u /\ Changer(v) /\ use'[v] = use[v]
    BY <1>0, <1>1, Leaving
  <1>4. \A t \in Servers : \A d : Names(t, d)' => Names(t, d)
    BY <1>1, <1>3 DEF Names
  <1>5. Doings'
    BY <1>0, <1>1, <1>3, <1>4 DEF Doings
  <1>6. Owned'
    BY <1>0, <1>4 DEF Owned
  <1>7. Met' /\ Follows'
    BY <1>0, <1>1, <1>3 DEF Met, Follows
  <1>8. Steady'
    <2>1. ASSUME NEW t \in Servers, t \notin doubtful'
          PROVE  Agrees(t)' /\ \A v \in Users : Changer(v)' /\ use'[v].on = t => WorksOn(v, t)'
      <3>1. t \notin doubtful /\ t # s
        BY <1>1, <2>1
      <3>2. sessions[t] # c
        BY <1>0, <1>2, <2>1, <3>1 DEF Owned, Names
      <3>3. Agrees(t)'
        BY <1>0, <1>1, <2>1, <3>1, <3>2 DEF Steady, Agrees
      <3>4. \A v \in Users : Changer(v)' /\ use'[v].on = t => WorksOn(v, t)'
        BY <1>0, <1>1, <1>3, <2>1, <3>1 DEF Steady, WorksOn
      <3> QED
        BY <3>3, <3>4
    <2> QED
      BY <2>1 DEF Steady
  <1>9. Closable'
    BY <1>0, <1>1 DEF Closable
  <1> QED
    BY <1>5, <1>6, <1>7, <1>8, <1>9 DEF LinksInv

\* A disconnect begins, or finds nothing it could close.
LEMMA DisconnectKeeps ==
    ASSUME LinksInv, NEW u \in Users, NEW s \in Servers, NEW remove \in BOOLEAN,
           DisconnectServer(u, s, remove)
    PROVE  LinksInv'
  <1>0. Doings /\ Owned /\ Met /\ Follows /\ Steady /\ Closable
    BY DEF LinksInv
  <1> DEFINE alone == Changing(s) = {}
             new == [pc |-> "close", on |-> s, conn |-> stacks[s]]
  <1>1. /\ ~Changer(u) /\ Meet(s, {}, alone) /\ UNCHANGED <<stacks, open, made, broken, tested>>
        /\ \/ stacks[s] # 0 /\ use' = [use EXCEPT ![u] = new] /\ UNCHANGED <<sessions, status>>
           \/ /\ sessions' = [sessions EXCEPT ![s] = 0] /\ status' = status \ {s}
              /\ UNCHANGED use
    BY DEF DisconnectServer, At, Changer, Changes
  <1>2. /\ crossed \subseteq crossed' /\ doubtful \subseteq doubtful'
        /\ doubtful' \subseteq doubtful \cup {s}
        /\ alone => \A v \in Users : ~(Changer(v) /\ use[v].on = s)
        /\ ~alone => s \in doubtful' /\ \A c : Names(s, c) => c \in crossed'
    BY <1>1, Meets
  <1> HIDE DEF alone
  <1>3. CASE stacks[s] # 0 /\ use' = [use EXCEPT ![u] = new] /\ UNCHANGED <<sessions, status>>
    <2>1. new \in Uses /\ new.pc = "close" /\ new.on = s /\ new.conn = stacks[s]
      BY <1>0 DEF Doings, Uses, Changes
    <2> HIDE DEF new
    <2>2. use' \in [Users -> Uses] /\ use'[u] = new /\ Only(u)
      BY <1>0, <1>3, <2>1, UseSet
    <2>3. /\ Changer(u)'
          /\ \A v \in Users \ {u} : use'[v] = use[v] /\ (Changer(v)' <=> Changer(v))
      BY <2>1, <2>2 DEF Only, Changer, Changes
    <2>4. \A t \in Servers : \A c : Names(t, c)' => Names(t, c)
      BY <1>1, <1>3, <2>1, <2>2, <2>3 DEF Names
    <2>5. Doings'
      BY <1>0, <1>1, <1>3, <2>1, <2>2, <2>3, <2>4 DEF Doings
    <2>6. Owned'
      BY <1>0, <2>4 DEF Owned
    <2>7. \A v \in Users : Changer(v) /\ use[v].on = s => use[v].conn \in crossed' /\ stacks[s] \in crossed'
      BY <1>0, <1>2, <1>3 DEF Names, Doings
    <2>8. Met'
      <3>1. ASSUME NEW v \in Users, NEW w \in Users, v # w, Changer(v)', Changer(w)', use'[v].on = use'[w].on
            PROVE  /\ use'[v].conn \in crossed'
                   /\ stacks'[use'[v].on] = 0 \/ stacks'[use'[v].on] \in crossed'
        <4>1. CASE v # u /\ w # u
          BY <1>0, <1>1, <1>2, <2>3, <3>1, <4>1 DEF Met
        <4>2. CASE v = u \/ w = u
          BY <1>1, <2>1, <2>2, <2>3, <2>7, <3>1, <4>2
        <4> QED
          BY <4>1, <4>2
      <3> QED
        BY <3>1 DEF Met
    <2>9. Follows'
      <3>1. ASSUME NEW v \in Users, Changer(v)'
            PROVE  \/ use'[v].conn = stacks'[use'[v].on]
                   \/ /\ use'[v].conn \in crossed'
                      /\ stacks'[use'[v].on] = 0 \/ stacks'[use'[v].on] \in crossed'
        <4>1. CASE v = u
          BY <1>1, <2>1, <2>2, <4>1
        <4>2. CASE v # u
          BY <1>0, <1>1, <1>2, <2>3, <3>1, <4>2 DEF Follows
        <4> QED
          BY <4>1, <4>2
      <3> QED
        BY <3>1 DEF Follows
    <2>10. Steady'
      <3>1. ASSUME NEW t \in Servers, t \notin doubtful' PROVE Agrees(t)'
        BY <1>0, <1>1, <1>2, <1>3, <3>1 DEF Steady, Agrees
      <3>2. ASSUME NEW t \in Servers, t \notin doubtful', t # s
            PROVE  \A v \in Users : Changer(v)' /\ use'[v].on = t => WorksOn(v, t)'
        BY <1>0, <1>1, <1>2, <1>3, <2>1, <2>2, <2>3, <3>2 DEF Steady, WorksOn
      <3>3. ASSUME s \notin doubtful', NEW v \in Users, Changer(v)', use'[v].on = s
            PROVE  WorksOn(v, s)'
        <4>1. \A w \in Users : Changer(w)' /\ use'[w].on = s => w = u
          BY <1>2, <2>3, <3>3
        <4> QED
          BY <1>1, <2>1, <2>2, <3>3, <4>1 DEF WorksOn
      <3> QED
        BY <3>1, <3>2, <3>3 DEF Steady
    <2>11. Closable'
      BY <1>0, <1>1, <1>2 DEF Closable
    <2> QED
      BY <2>5, <2>6, <2>8, <2>9, <2>10, <2>11 DEF LinksInv
  <1>4. CASE /\ sessions' = [sessions EXCEPT ![s] = 0] /\ status' = status \ {s}
             /\ UNCHANGED use
    <2>1. \A v \in Users : Changer(v)' <=> Changer(v)
      BY <1>4 DEF Changer
    <2>2. /\ sessions' \in [Servers -> Nat] /\ sessions'[s] = 0
          /\ \A t \in Servers \ {s} : sessions'[t] = sessions[t]
      BY <1>0, <1>4 DEF Doings
    <2>3. \A t \in Servers : \A c : Names(t, c)' => Names(t, c)
      BY <1>1, <1>4, <2>1, <2>2 DEF Names
    <2>4. Doings'
      BY <1>0, <1>1, <1>4, <2>1, <2>2, <2>3 DEF Doings
    <2>5. Owned'
      BY <1>0, <2>3 DEF Owned
    <2>6. Met' /\ Follows'
      BY <1>0, <1>1, <1>2, <1>4, <2>1 DEF Met, Follows
    <2>7. Steady'
      <3>1. ASSUME NEW t \in Servers, t \notin doubtful'
            PROVE  Agrees(t)' /\ \A v \in Users : Changer(v)' /\ use'[v].on = t => WorksOn(v, t)'
        <4>1. CASE t = s
          BY <1>2, <1>4, <2>1, <2>2, <3>1, <4>1 DEF Agrees
        <4>2. CASE t # s
          BY <1>0, <1>1, <1>2, <1>4, <2>1, <2>2, <3>1, <4>2 DEF Steady, Agrees, WorksOn
        <4> QED
          BY <4>1, <4>2
      <3> QED
        BY <3>1 DEF Steady
    <2>8. Closable'
      BY <1>0, <1>1, <1>2 DEF Closable
    <2> QED
      BY <2>4, <2>5, <2>6, <2>7, <2>8 DEF LinksInv
  <1> QED
    BY <1>1, <1>3, <1>4

-----------------------------------------------------------------------------
(* The process, and the theorem.                                           *)

LEMMA RestartKeeps == LinksInv /\ Restart => LinksInv'
  <1> SUFFICES ASSUME LinksInv, Restart PROVE LinksInv'
    OBVIOUS
  <1>1. /\ use' = [u \in Users |-> Resting] /\ stacks' = [s \in Servers |-> 0]
        /\ sessions' = [s \in Servers |-> 0] /\ open' = {}
        /\ doubtful' = status /\ status' = status /\ made' = made
    BY DEF Restart
  <1>2. /\ \A u \in Users : ~Changer(u)'
        /\ \A s \in Servers : \A c : ~Names(s, c)'
    BY <1>1, RestingUse DEF Changer, Changes, Names
  <1>3. Doings'
    BY <1>1, <1>2, RestingUse DEF LinksInv, Doings
  <1> QED
    BY <1>1, <1>2, <1>3 DEF LinksInv, Owned, Met, Follows, Steady, Agrees, Closable

\* A connection that dies stays registered, and a test changes the status only.
LEMMA BreakKeeps ==
    ASSUME LinksInv, NEW c \in open, Break(c) PROVE LinksInv'
  <1>1. CASE Users = {}
    BY <1>1 DEF Break, LinksInv, Doings, Owned, Met, Follows, Steady, Agrees, Closable, Names
  <1>2. ASSUME NEW u \in Users PROVE LinksInv'
    <2>1. Only(u) /\ use' \in [Users -> Uses] /\ use'[u] = use[u]
      BY DEF Break, Only, LinksInv, Doings
    <2>2. \A s \in Servers \ doubtful : s \notin tested' => (s \in status' <=> sessions[s] # 0)
      BY DEF Break, LinksInv, Steady, Agrees
    <2> QED
      BY <2>1, <2>2, Rests DEF Break
  <1> QED
    BY <1>1, <1>2

LEMMA TestKeeps ==
    ASSUME LinksInv, NEW s \in Servers, TestConnection(s) PROVE LinksInv'
  <1>1. /\ UNCHANGED <<stacks, sessions, open, use, made, crossed, doubtful, broken>>
        /\ \A t \in Servers : t \notin tested' => t \notin tested /\ (t \in status' <=> t \in status)
    BY DEF TestConnection
  <1> QED
    BY <1>1 DEF LinksInv, Doings, Owned, Met, Follows, Steady, Agrees, WorksOn, Closable, Names,
        Changer

LEMMA LinksStep == LinksInv /\ [LinksNext]_cvars => LinksInv'
  <1> SUFFICES ASSUME LinksInv, [LinksNext]_cvars PROVE LinksInv'
    OBVIOUS
  <1>1. ASSUME NEW u \in Users, Tool(u) PROVE LinksInv'
    <2>1. CASE Transport(u) \/ Handshake(u) \/ FailConnect(u)
      BY <2>1, TransportKeeps, HandshakeKeeps, FailConnectKeeps
    <2>2. CASE Undone(u) \/ Disconnected(u) \/ FailClose(u)
      BY <2>2, ClosedKeeps, FailCloseKeeps
    <2>3. CASE StopTool(u) \/ Answered(u)
      BY <2>3, StopKeeps
    <2>4. ASSUME NEW s \in Servers,
                 \/ Connect(u, s) \/ Add(u, s) \/ Call(u, s)
                 \/ DisconnectServer(u, s, TRUE) \/ DisconnectServer(u, s, FALSE)
          PROVE  LinksInv'
      BY <2>4, ConnectKeeps, CallKeeps, DisconnectKeeps
    <2> QED
      BY <1>1, <2>1, <2>2, <2>3, <2>4 DEF Tool
  <1>2. CASE Restart
    BY <1>2, RestartKeeps
  <1>3. ASSUME NEW c \in open, Break(c) PROVE LinksInv'
    BY <1>3, BreakKeeps
  <1>4. ASSUME NEW s \in Servers, TestConnection(s) PROVE LinksInv'
    BY <1>4, TestKeeps
  <1>5. CASE UNCHANGED cvars
    <2>1. UNCHANGED <<stacks, sessions, open, status, use, made, crossed, doubtful, broken, tested>>
      BY <1>5 DEF cvars, bad
    <2> QED
      BY <2>1 DEF LinksInv, Doings, Owned, Met, Follows, Steady, Agrees, WorksOn, Closable, Names, Changer
  <1> QED
    BY <1>1, <1>2, <1>3, <1>4, <1>5 DEF LinksNext

\* A tool call on a server finds an open connection, or one whose server or
\* transport died on its own; every open connection has a stack that closes it;
\* and the status file says what is connected, unless a test wrote it: as long as
\* no changes of the server met and no close failed.
THEOREM LinksHold == LinksSpec => []ConnectionsHeld
  <1>1. LinksInit => LinksInv
    BY InitLinks
  <1>2. LinksInv /\ [LinksNext]_cvars => LinksInv'
    BY LinksStep
  <1>3. LinksInv => ConnectionsHeld
    BY DEF LinksInv, Steady, Agrees, Closable, ConnectionsHeld
  <1> QED
    BY <1>1, <1>2, <1>3, PTL DEF LinksSpec

\* However tools interleave, fail and are stopped, a connection is that of one
\* server: what is closed, used or forgotten for a server was opened for it
\* (mcp/client.py keeps stacks and sessions by name and locks neither).
THEOREM LinksOwned == LinksSpec => []Owned
  <1>1. LinksInv => Owned
    BY DEF LinksInv
  <1> QED
    BY <1>1, InitLinks, LinksStep, PTL DEF LinksSpec



-----------------------------------------------------------------------------
(* The turn loop.                                                          *)

Message ==
    [type : {"user"}] \cup [type : {"calls"}, n : Nat]
        \cup [type : {"result"}, call : Nat, outcome : Outcomes \cup {"stopped"}]
Phases == {"idle", "model", "check", "run", "unwinding", "closing", "over"}
CallStates == Outcomes \cup {"unchecked", "asked", "queued", "running", "raised"}
Questions ==
    [turn : Turn, call : Nat, future : {"open", "answer", "cancelled", "auto"},
     timer : BOOLEAN, due : BOOLEAN]

\* At most one call of the batch delegates.
OneAgent(b) == \A i, k \in DOMAIN b : b[i] = "agent" /\ b[k] = "agent" => i = k

LoopTypes ==
    /\ phase \in [Turn -> Phases]
    /\ batch \in [Turn -> Seq(CallKinds)]
    /\ job \in [Turn -> Seq(CallStates)]
    /\ \A t \in Turn : DOMAIN job[t] = DOMAIN batch[t]
    /\ \A t \in DOMAIN Child : OneAgent(batch[t])
    /\ hist \in [Turn -> Seq(Message)]
    /\ saved \in [Turn -> Seq(Message)]
    /\ question \in [Streams -> Questions \cup {NoQuestion}]

\* The history ends with the message that issued n calls, and is in order up to it.
Waiting(h, n) == \E g \in Seq(Message) : Paired(g) /\ h = Append(g, Calls(n))

InProtocol(t) ==
    /\ phase[t] \in {"model", "closing", "unwinding"} => Paired(hist[t])
    /\ phase[t] = "over" /\ t \notin interrupted => Paired(hist[t])
    /\ phase[t] \in {"check", "run"} => Waiting(hist[t], Len(batch[t]))
    /\ phase[t] \notin {"check", "run", "unwinding"} => batch[t] = <<>> /\ job[t] = <<>>
    /\ phase[t] = "over" /\ t \in Streams => saved[t] = hist[t]

\* A delegated turn goes on only while the call that runs it does.
Delegating(t) ==
    \A c \in ChildrenOf(t) : phase[c] # "idle" =>
        /\ phase[t] = "run"
        /\ \E i \in DOMAIN job[t] : batch[t][i] = "agent" /\ job[t][i] = "running"

Awaited(r) ==
    Pending(r) =>
        /\ question[r].turn \in Family(r)
        /\ phase[question[r].turn] = "run"
        /\ question[r].call \in DOMAIN job[question[r].turn]
        /\ job[question[r].turn][question[r].call] = "running"
        /\ batch[question[r].turn][question[r].call] = "ask"

LoopInv ==
    /\ LoopTypes
    /\ \A t \in Turn : InProtocol(t) /\ Delegating(t)
    /\ \A r \in Streams : Awaited(r)

-----------------------------------------------------------------------------
(* Histories.                                                              *)

LEMMA MessageForms ==
    ASSUME NEW m \in Message
    PROVE  m.type = "calls" => m.n \in Nat
BY DEF Message

LEMMA MessageOf ==
    /\ User \in Message /\ User.type = "user"
    /\ \A n \in Nat : Calls(n) \in Message /\ Calls(n).type = "calls" /\ Calls(n).n = n
    /\ \A i \in Nat, o \in Outcomes \cup {"stopped"} :
         Result(i, o) \in Message /\ Result(i, o).type = "result" /\ Result(i, o).call = i
BY DEF Message, User, Calls, Result

LEMMA FirstWordPaired == Paired(<<User>>) /\ <<User>> \in Seq(Message)
BY MessageOf DEF Paired

\* A history that goes on with n calls and their n results in their order.
LEMMA GoingOnPaired ==
    ASSUME NEW g \in Seq(Message), Paired(g), NEW n \in Nat, NEW s \in Seq(Message),
           Len(s) = Len(g) + 1 + n, \A k \in 1 .. Len(g) : s[k] = g[k],
           s[Len(g) + 1].type = "calls", s[Len(g) + 1].n = n,
           \A i \in 1 .. n : s[Len(g) + 1 + i].type = "result" /\ s[Len(g) + 1 + i].call = i
    PROVE  Paired(s)
<1> SUFFICES ASSUME NEW k \in DOMAIN s, s[k].type = "calls"
             PROVE  /\ k + s[k].n <= Len(s)
                    /\ \A i \in 1 .. s[k].n : s[k + i].type = "result" /\ s[k + i].call = i
                    /\ k + s[k].n < Len(s) => s[k + s[k].n + 1].type # "result"
  BY DEF Paired
<1>1. k \in Nat \ {0} /\ k <= Len(s) /\ Len(g) \in Nat /\ DOMAIN g = 1 .. Len(g)
  OBVIOUS
<1>2. CASE k <= Len(g)
  <2>1. k \in DOMAIN g /\ s[k] = g[k] /\ g[k].type = "calls" /\ g[k] \in Message
    BY <1>1, <1>2
  <2>2. PICK w \in Nat : w = g[k].n
    BY <2>1, MessageForms
  <2>3. /\ k + w <= Len(g)
        /\ \A i \in 1 .. w : g[k + i].type = "result" /\ g[k + i].call = i
        /\ k + w < Len(g) => g[k + w + 1].type # "result"
    BY <2>1, <2>2 DEF Paired
  <2>4. s[k].n = w
    BY <2>1, <2>2
  <2>5. \A i \in 1 .. w : s[k + i] = g[k + i]
    BY <1>1, <2>2, <2>3
  <2>6. s[k + w + 1].type # "result"
    <3>1. CASE k + w < Len(g)
      BY <1>1, <2>2, <2>3, <3>1
    <3>2. CASE k + w = Len(g)
      BY <3>2
    <3> QED
      BY <1>1, <2>2, <2>3, <3>1, <3>2
  <2>7. k + w <= Len(s)
    BY <1>1, <2>2, <2>3
  <2>8. \A i \in 1 .. w : s[k + i].type = "result" /\ s[k + i].call = i
    BY <2>3, <2>5
  <2> QED
    BY <2>4, <2>6, <2>7, <2>8
<1>3. CASE k = Len(g) + 1
  BY <1>1, <1>3
<1>4. CASE k > Len(g) + 1
  <2>1. k - (Len(g) + 1) \in 1 .. n /\ k = Len(g) + 1 + (k - (Len(g) + 1))
    BY <1>1, <1>4
  <2>2. s[k].type = "result"
    BY <2>1
  <2> QED
    BY <2>2
<1> QED
  BY <1>1, <1>2, <1>3, <1>4

LEMMA AnsweredPairs ==
    ASSUME NEW g \in Seq(Message), Paired(g), NEW n \in Nat, NEW R \in Seq(Message), Len(R) = n,
           \A i \in 1 .. n : R[i].type = "result" /\ R[i].call = i
    PROVE  Paired(Append(g, Calls(n)) \o R)
<1>1. Append(g, Calls(n)) \in Seq(Message)
  BY MessageOf
<1>2. PICK s : s = Append(g, Calls(n)) \o R
  OBVIOUS
<1>3. s \in Seq(Message) /\ Len(s) = Len(g) + 1 + n
  BY <1>1, <1>2
<1>4. \A k \in 1 .. Len(g) : s[k] = g[k]
  BY <1>1, <1>2
<1>5. s[Len(g) + 1] = Calls(n)
  BY <1>1, <1>2
<1>6. \A i \in 1 .. n : s[Len(g) + 1 + i] = R[i]
  BY <1>1, <1>2
<1>7. s[Len(g) + 1].type = "calls" /\ s[Len(g) + 1].n = n
  BY <1>5, MessageOf
<1>8. \A i \in 1 .. n : s[Len(g) + 1 + i].type = "result" /\ s[Len(g) + 1 + i].call = i
  BY <1>6
<1>9. Paired(s)
  BY <1>3, <1>4, <1>7, <1>8, GoingOnPaired
<1> QED
  BY <1>2, <1>9

LEMMA WaitingAnswered ==
    ASSUME NEW h, NEW n \in Nat, Waiting(h, n), NEW R \in Seq(Message), Len(R) = n,
           \A i \in 1 .. n : R[i].type = "result" /\ R[i].call = i
    PROVE  Paired(h \o R)
BY AnsweredPairs DEF Waiting

LEMMA WaitingIssued ==
    ASSUME NEW h \in Seq(Message), Paired(h), NEW n \in Nat
    PROVE  Waiting(Append(h, Calls(n)), n) /\ Append(h, Calls(n)) \in Seq(Message)
BY MessageOf DEF Waiting

-----------------------------------------------------------------------------
(* Turns and those they delegate to.                                       *)

LEMMA Families ==
    ASSUME NEW t \in Turn
    PROVE  /\ ChildrenOf(t) \subseteq Turn
           /\ \A c \in ChildrenOf(t) :
                c # t /\ c \notin Streams /\ ChildrenOf(c) = {} /\ t \in Streams
           /\ \A u \in Turn, c \in ChildrenOf(t) : c \in ChildrenOf(u) => u = t
           /\ t \in Streams => Family(t) \subseteq Turn
           /\ StreamOf(t) \in Streams /\ t \in Family(StreamOf(t))
<1>1. \A c \in ChildrenOf(t) : t \in DOMAIN Child /\ c = Child[t]
  BY DEF ChildrenOf
<1>2. ASSUME NEW c \in ChildrenOf(t)
      PROVE  c \in Turn /\ c \notin DOMAIN Child
  <2>1. t \in DOMAIN Child /\ c = Child[t]
    BY <1>1
  <2>2. Child[t] \in Turn \ DOMAIN Child
    BY <2>1, TurnsAssumption
  <2> QED
    BY <2>1, <2>2
<1>3. t \in DOMAIN Child => t \in Streams
  <2>1. ASSUME t \in DOMAIN Child, t \in Range(Child)
        PROVE  FALSE
    <3>1. PICK r \in DOMAIN Child : t = Child[r]
      BY <2>1 DEF Range
    <3> QED
      BY <2>1, <3>1, TurnsAssumption
  <2> QED
    BY <2>1 DEF Streams
<1>4. \A c \in ChildrenOf(t) : c \in Range(Child)
  BY <1>1 DEF Range
<1>5. \A u \in Turn, c \in ChildrenOf(t) : c \in ChildrenOf(u) => u = t
  BY <1>1, TurnsAssumption DEF ChildrenOf
<1>6. StreamOf(t) \in Streams /\ t \in Family(StreamOf(t))
  <2>1. CASE t \in Streams
    BY <2>1 DEF StreamOf, Family
  <2>2. CASE t \notin Streams
    <3>1. \E r \in DOMAIN Child : Child[r] = t
      BY <2>2 DEF Streams, Range
    <3>2. PICK r : r = StreamOf(t)
      OBVIOUS
    <3>3. r = CHOOSE q \in DOMAIN Child : Child[q] = t
      BY <2>2, <3>2 DEF StreamOf
    <3>4. r \in DOMAIN Child /\ Child[r] = t
      BY <3>1, <3>3
    <3>5. r \in Turn /\ r \notin Range(Child)
      <4>1. ASSUME r \in Range(Child)
            PROVE  FALSE
        <5>1. PICK q \in DOMAIN Child : r = Child[q]
          BY <4>1 DEF Range
        <5> QED
          BY <3>4, <5>1, TurnsAssumption
      <4> QED
        BY <3>4, <4>1, TurnsAssumption
    <3> QED
      BY <3>2, <3>4, <3>5 DEF Streams, Family, ChildrenOf
  <2> QED
    BY <2>1, <2>2
<1>7. \A c \in ChildrenOf(t) : ChildrenOf(c) = {} /\ t \in Streams /\ c \notin Streams
  BY <1>1, <1>2, <1>3, <1>4 DEF ChildrenOf, Streams
<1> QED
  BY <1>1, <1>2, <1>5, <1>6, <1>7 DEF Family

LEMMA StreamTurns == Streams \subseteq Turn
BY DEF Streams

LEMMA SetAt ==
    ASSUME NEW f, NEW T, NEW v, NEW t \in Turn
    PROVE  /\ t \in T => Set(f, T, v)[t] = v
           /\ t \notin T => Set(f, T, v)[t] = f[t]
BY DEF Set

\* What keeps a part of the invariant where nothing happens.
LEMMA ProtocolElsewhere ==
    ASSUME NEW u, InProtocol(u), phase'[u] = phase[u], batch'[u] = batch[u], job'[u] = job[u],
           hist'[u] = hist[u], saved'[u] = saved[u], u \in interrupted => u \in interrupted'
    PROVE  InProtocol(u)'
BY DEF InProtocol

LEMMA DelegatingElsewhere ==
    ASSUME NEW u, Delegating(u), phase'[u] = phase[u], batch'[u] = batch[u], job'[u] = job[u],
           \A c \in ChildrenOf(u) : phase'[c] # "idle" => phase[c] # "idle"
    PROVE  Delegating(u)'
BY DEF Delegating

LEMMA AwaitedElsewhere ==
    ASSUME NEW r, Awaited(r), question'[r] = question[r],
           Pending(r) => LET u == question[r].turn
                         IN  phase'[u] = phase[u] /\ batch'[u] = batch[u] /\ job'[u] = job[u]
    PROVE  Awaited(r)'
BY DEF Awaited, Pending

LEMMA NothingAwaited ==
    ASSUME NEW r, question'[r] = NoQuestion
    PROVE  Awaited(r)'
BY DEF Awaited, Pending

\* A stream's pending question names a turn.
LEMMA AskingTurn ==
    ASSUME LoopInv, NEW r \in Streams, Pending(r)
    PROVE  question[r].turn \in Turn /\ question[r] \in Questions
BY Families, StreamTurns DEF LoopInv, LoopTypes, Awaited, Pending

LEMMA NoTurnOfNone == \A t \in Turn : NoQuestion.turn # t
BY TurnsAssumption DEF NoQuestion

-----------------------------------------------------------------------------
(* One call of a batch moves.                                              *)

LEMMA CallTypes ==
    ASSUME LoopTypes, NEW t \in Turn, NEW i \in DOMAIN job[t], NEW s \in CallStates,
           Become(t, i, s)
    PROVE  /\ job' \in [Turn -> Seq(CallStates)]
           /\ DOMAIN job'[t] = DOMAIN job[t] /\ job'[t][i] = s
           /\ \A k \in DOMAIN job[t] : k # i => job'[t][k] = job[t][k]
           /\ \A u \in Turn : u # t => job'[u] = job[u]
<1>1. job \in [Turn -> Seq(CallStates)] /\ job' = [job EXCEPT ![t][i] = s]
  BY DEF LoopTypes, Become
<1>2. [job[t] EXCEPT ![i] = s] \in Seq(CallStates)
  BY <1>1
<1> QED
  BY <1>1, <1>2

LEMMA CallMoveKeeps ==
    ASSUME LoopInv, NEW t \in Turn, NEW i \in DOMAIN job[t], NEW s \in CallStates,
           Become(t, i, s), phase[t] \in {"check", "run"},
           job[t][i] = "running" =>
             batch[t][i] # "ask" /\ (batch[t][i] = "agent" => ChildrenOf(t) = {}),
           UNCHANGED <<phase, batch, hist, saved, question, interrupted>>
    PROVE  LoopInv'
<1>1. /\ job' \in [Turn -> Seq(CallStates)]
      /\ DOMAIN job'[t] = DOMAIN job[t] /\ job'[t][i] = s
      /\ \A k \in DOMAIN job[t] : k # i => job'[t][k] = job[t][k]
      /\ \A u \in Turn : u # t => job'[u] = job[u]
  BY CallTypes DEF LoopInv
<1>2. LoopTypes'
  BY <1>1 DEF LoopInv, LoopTypes
<1>3. \A u \in Turn : InProtocol(u)'
  <2>1. InProtocol(t)'
    BY DEF LoopInv, InProtocol
  <2> QED
    BY <1>1, <2>1, ProtocolElsewhere DEF LoopInv
<1>4. \A u \in Turn : Delegating(u)'
  <2>1. Delegating(t)'
    <3> SUFFICES ASSUME NEW c \in ChildrenOf(t), phase[c] # "idle"
                 PROVE  phase[t] = "run"
                        /\ \E k \in DOMAIN job'[t] : batch[t][k] = "agent" /\ job'[t][k] = "running"
      BY DEF Delegating
    <3>1. PICK k \in DOMAIN job[t] : batch[t][k] = "agent" /\ job[t][k] = "running"
      BY DEF LoopInv, Delegating
    <3>2. k # i
      BY <3>1
    <3> QED
      BY <1>1, <3>1, <3>2 DEF LoopInv, Delegating
  <2> QED
    BY <1>1, <2>1, DelegatingElsewhere DEF LoopInv
<1>5. ASSUME NEW r \in Streams
      PROVE  Awaited(r)'
  <2>1. CASE ~Pending(r)
    BY <2>1, NothingAwaited DEF Pending
  <2>2. CASE Pending(r) /\ question[r].turn # t
    BY <1>1, <2>2, AskingTurn, AwaitedElsewhere DEF LoopInv
  <2>3. CASE Pending(r) /\ question[r].turn = t
    <3>1. question[r].call \in DOMAIN job[t] /\ question[r].call # i
      BY <2>3 DEF LoopInv, Awaited
    <3> QED
      BY <1>1, <2>3, <3>1 DEF LoopInv, Awaited, Pending
  <2> QED
    BY <2>1, <2>2, <2>3
<1> QED
  BY <1>2, <1>3, <1>4, <1>5 DEF LoopInv

-----------------------------------------------------------------------------
(* The question of a stream moves.                                         *)

LEMMA QuestionKeeps ==
    ASSUME LoopInv, UNCHANGED <<phase, batch, job, hist, saved, interrupted>>,
           question' \in [Streams -> Questions \cup {NoQuestion}],
           \A r \in Streams : \/ question'[r] = NoQuestion
                              \/ /\ Pending(r)
                                 /\ question'[r].turn = question[r].turn
                                 /\ question'[r].call = question[r].call
    PROVE  LoopInv'
<1>1. LoopTypes'
  BY DEF LoopInv, LoopTypes
<1>2. \A u \in Turn : InProtocol(u)' /\ Delegating(u)'
  BY ProtocolElsewhere, DelegatingElsewhere DEF LoopInv
<1>3. \A r \in Streams : Awaited(r)'
  BY NothingAwaited DEF LoopInv, Awaited, Pending
<1> QED
  BY <1>1, <1>2, <1>3 DEF LoopInv

\* What anybody may do to an open question.
LEMMA OpenKeeps ==
    ASSUME LoopInv, NEW r \in Streams, Open(r),
           UNCHANGED <<phase, batch, job, hist, saved, interrupted>>, NEW q \in Questions, q.turn = question[r].turn, q.call = question[r].call,
           question' = [question EXCEPT ![r] = q]
    PROVE  LoopInv'
<1>1. question \in [Streams -> Questions \cup {NoQuestion}] /\ Pending(r)
  BY DEF LoopInv, LoopTypes, Open
<1>2. question' \in [Streams -> Questions \cup {NoQuestion}]
  BY <1>1
<1>3. \A s \in Streams : \/ question'[s] = NoQuestion
                         \/ /\ Pending(s)
                            /\ question'[s].turn = question[s].turn
                            /\ question'[s].call = question[s].call
  BY <1>1 DEF Pending
<1> QED
  BY <1>2, <1>3, QuestionKeeps

LEMMA OpenRecord ==
    ASSUME LoopInv, NEW r \in Streams, Open(r)
    PROVE  /\ \A how \in {"answer", "cancelled", "auto"} : Resolve(r, how) =>
                \E q \in Questions :
                  /\ question' = [question EXCEPT ![r] = q]
                  /\ q.turn = question[r].turn /\ q.call = question[r].call
           /\ question' = [question EXCEPT ![r].timer = FALSE] =>
                \E q \in Questions :
                  /\ question' = [question EXCEPT ![r] = q]
                  /\ q.turn = question[r].turn /\ q.call = question[r].call
           /\ question' = [question EXCEPT ![r].due = TRUE] =>
                \E q \in Questions :
                  /\ question' = [question EXCEPT ![r] = q]
                  /\ q.turn = question[r].turn /\ q.call = question[r].call
<1>1. question[r] \in Questions /\ Pending(r)
  BY AskingTurn DEF Open
<1>2. ASSUME NEW how \in {"answer", "cancelled", "auto"}, Resolve(r, how)
      PROVE  \E q \in Questions :
                  /\ question' = [question EXCEPT ![r] = q]
                  /\ q.turn = question[r].turn /\ q.call = question[r].call
  <2>1. [question[r] EXCEPT !.future = how] \in Questions
    BY <1>1 DEF Questions
  <2> WITNESS [question[r] EXCEPT !.future = how] \in Questions
  <2> QED
    BY <1>1, <1>2 DEF Resolve, Questions
<1>3. ASSUME question' = [question EXCEPT ![r].timer = FALSE]
      PROVE  \E q \in Questions :
                  /\ question' = [question EXCEPT ![r] = q]
                  /\ q.turn = question[r].turn /\ q.call = question[r].call
  <2>1. [question[r] EXCEPT !.timer = FALSE] \in Questions
    BY <1>1 DEF Questions
  <2> WITNESS [question[r] EXCEPT !.timer = FALSE] \in Questions
  <2> QED
    BY <1>1, <1>3 DEF Questions
<1>4. ASSUME question' = [question EXCEPT ![r].due = TRUE]
      PROVE  \E q \in Questions :
                  /\ question' = [question EXCEPT ![r] = q]
                  /\ q.turn = question[r].turn /\ q.call = question[r].call
  <2>1. [question[r] EXCEPT !.due = TRUE] \in Questions
    BY <1>1 DEF Questions
  <2> WITNESS [question[r] EXCEPT !.due = TRUE] \in Questions
  <2> QED
    BY <1>1, <1>4 DEF Questions
<1> QED
  BY <1>2, <1>3, <1>4

LEMMA UserKeeps ==
    ASSUME LoopInv, NEW r \in Streams,
           \/ AnswerQuestion(r) \/ CancelQuestion(r) \/ StopTimer(r)
           \/ Expire(r) \/ AutoSubmit(r)
    PROVE  LoopInv'
<1>1. UNCHANGED <<phase, batch, job, hist, saved, interrupted>>
  BY DEF AnswerQuestion, CancelQuestion, StopTimer, Expire, AutoSubmit, recordVars
<1>2. ASSUME Open(r), NEW how \in {"answer", "cancelled", "auto"}, Resolve(r, how)
      PROVE  LoopInv'
  BY <1>1, <1>2, OpenRecord, OpenKeeps
<1>3. CASE StopTimer(r)
  BY <1>1, <1>3, OpenRecord, OpenKeeps DEF StopTimer
<1>4. CASE Expire(r)
  BY <1>1, <1>4, OpenRecord, OpenKeeps DEF Expire
<1> QED
  BY <1>2, <1>3, <1>4 DEF AnswerQuestion, CancelQuestion, AutoSubmit

\* A stop cancels the open question, and no call that still runs ends by it.
LEMMA StopTurnKeeps ==
    ASSUME LoopInv, NEW r \in Streams, StopTurn(r)
    PROVE  LoopInv'
<1>1. UNCHANGED <<phase, batch, hist, saved, interrupted>>
  BY DEF StopTurn, recordVars
<1>2. PICK T : job' = [t \in Turn |-> IF t \in T /\ Ending(t) THEN Forgotten(t) ELSE job[t]]
  BY DEF StopTurn
<1>3. ASSUME NEW t \in Turn
      PROVE  /\ job'[t] \in Seq(CallStates) /\ DOMAIN job'[t] = DOMAIN job[t]
             /\ \A i \in DOMAIN job[t] : job[t][i] = "running" => job'[t][i] = "running"
  <2>1. job[t] \in Seq(CallStates)
    BY DEF LoopInv, LoopTypes
  <2>2. PICK f : f = Forgotten(t)
    OBVIOUS
  <2>3. /\ DOMAIN f = DOMAIN job[t]
        /\ \A i \in DOMAIN job[t] : f[i] = IF Done(t, i) THEN "raised" ELSE job[t][i]
    BY <2>2 DEF Forgotten
  <2>4. f \in Seq(CallStates)
    <3>1. \A i \in DOMAIN job[t] : f[i] \in CallStates
      BY <2>1, <2>3 DEF CallStates
    <3>2. PICK n \in Nat : DOMAIN job[t] = 1 .. n
      BY <2>1
    <3>3. f \in [1 .. n -> CallStates]
      BY <2>2, <2>3, <3>1, <3>2 DEF Forgotten
    <3> QED
      BY <3>2, <3>3
  <2>5. \A i \in DOMAIN job[t] : job[t][i] = "running" => f[i] = "running"
    BY <2>3 DEF Done, Outcomes
  <2>6. job'[t] = f \/ job'[t] = job[t]
    BY <1>2, <2>2
  <2> QED
    BY <2>1, <2>3, <2>4, <2>5, <2>6
<1>4. job' \in [Turn -> Seq(CallStates)]
  BY <1>2, <1>3
<1>5. /\ question' \in [Streams -> Questions \cup {NoQuestion}]
      /\ \A s \in Streams : \/ question'[s] = NoQuestion
                            \/ /\ Pending(s)
                               /\ question'[s].turn = question[s].turn
                               /\ question'[s].call = question[s].call
  <2>1. CASE Open(r)
    <3>1. PICK q \in Questions : /\ question' = [question EXCEPT ![r] = q]
                                 /\ q.turn = question[r].turn /\ q.call = question[r].call
      BY <2>1, OpenRecord DEF StopTurn
    <3> QED
      BY <2>1, <3>1 DEF LoopInv, LoopTypes, Open, Pending
  <2>2. CASE ~Open(r)
    BY <2>2 DEF StopTurn, LoopInv, LoopTypes, Pending
  <2> QED
    BY <2>1, <2>2
<1>6. LoopTypes'
  BY <1>1, <1>3, <1>4, <1>5 DEF LoopInv, LoopTypes
<1>7. ASSUME NEW t \in Turn
      PROVE  InProtocol(t)' /\ Delegating(t)'
  <2>1. job[t] = <<>> => job'[t] = <<>>
    BY <1>3
  <2>2. InProtocol(t)'
    BY <1>1, <2>1 DEF LoopInv, InProtocol
  <2>3. Delegating(t)'
    BY <1>1, <1>3 DEF LoopInv, Delegating
  <2> QED
    BY <2>2, <2>3
<1>8. ASSUME NEW s \in Streams
      PROVE  Awaited(s)'
  <2>1. CASE question'[s] = NoQuestion
    BY <2>1, NothingAwaited
  <2>2. CASE /\ Pending(s)
             /\ question'[s].turn = question[s].turn /\ question'[s].call = question[s].call
    <3>1. PICK u, i : u = question[s].turn /\ i = question[s].call
      OBVIOUS
    <3>2. /\ u \in Turn /\ u \in Family(s) /\ phase[u] = "run"
          /\ i \in DOMAIN job[u] /\ job[u][i] = "running" /\ batch[u][i] = "ask"
      BY <2>2, <3>1, AskingTurn DEF LoopInv, Awaited
    <3> QED
      BY <1>1, <1>3, <2>2, <3>1, <3>2 DEF Awaited
  <2> QED
    BY <1>5, <2>1, <2>2
<1> QED
  BY <1>6, <1>7, <1>8 DEF LoopInv

LEMMA CutKeeps ==
    ASSUME LoopInv, NEW t \in Turn, CancelBatch(t)
    PROVE  LoopInv'
<1>1. UNCHANGED <<phase, batch, job, hist, saved, question, interrupted>>
  BY DEF CancelBatch, recordVars
<1> QED
  BY <1>1, QuestionKeeps DEF LoopInv, LoopTypes, Pending

-----------------------------------------------------------------------------
(* Batches.                                                                *)

LEMMA FirstOf ==
    ASSUME NEW S \in SUBSET Nat, S # {}
    PROVE  \E i \in S : \A k \in S : i <= k
<1> DEFINE Before == OpToRel(<, Nat)
<1>1. IsWellFoundedOn(Before, Nat)
  BY NatLessThanWellFounded, Zenon
<1>2. Before = {pair \in Nat \X Nat : pair[1] < pair[2]}
  BY Zenon DEF OpToRel
<1> HIDE DEF Before
<1>3. \E i \in S : \A k \in S : ~(<<k, i>> \in Before)
  BY <1>1, WFMin, Zenon
<1>4. \E i \in S : \A k \in S : ~(k < i)
  BY <1>2, <1>3
<1> QED
  BY <1>4

LEMMA CheckedCall ==
    ASSUME LoopTypes, NEW t \in Turn, Unchecked(t) # {}
    PROVE  NextCheck(t) \in DOMAIN job[t] /\ NextCheck(t) \in Unchecked(t)
<1>1. Unchecked(t) \subseteq DOMAIN job[t] /\ DOMAIN job[t] \subseteq Nat
  BY DEF LoopTypes, Unchecked
<1>2. \E i \in Unchecked(t) : \A k \in Unchecked(t) : i <= k
  BY <1>1, FirstOf
<1>3. NextCheck(t) \in Unchecked(t)
  BY <1>2 DEF NextCheck
<1> QED
  BY <1>1, <1>3

LEMMA ChecksKeep ==
    ASSUME LoopInv, NEW t \in Turn, Check(t) \/ Approve(t) \/ Deny(t)
    PROVE  LoopInv'
<1>1. phase[t] = "check" /\ Unchecked(t) # {}
  BY DEF Check, Approve, Deny, Asked
<1>2. PICK i \in DOMAIN job[t] : i = NextCheck(t) /\ job[t][i] \in {"unchecked", "asked"}
  BY <1>1, CheckedCall DEF LoopInv, Unchecked
<1>3. \E s \in {"denied", "asked", "queued"} : Become(t, i, s)
  <2>1. CASE Check(t)
    <3>1. CASE batch[t][i] = "unknown"
      BY <1>2, <2>1, <3>1 DEF Check
    <3>2. CASE batch[t][i] # "unknown" /\ NeedsApproval(t, i)
      BY <1>2, <2>1, <3>2 DEF Check
    <3>3. CASE batch[t][i] # "unknown" /\ ~NeedsApproval(t, i)
      BY <1>2, <2>1, <3>3 DEF Check
    <3> QED
      BY <3>1, <3>2, <3>3
  <2> QED
    BY <1>2, <2>1 DEF Approve, Deny
<1>4. UNCHANGED <<phase, batch, hist, saved, question, interrupted>>
  BY DEF Check, Approve, Deny, recordVars
<1>5. PICK s \in {"denied", "asked", "queued"} : Become(t, i, s)
  BY <1>3
<1>6. s \in CallStates /\ job[t][i] # "running"
  BY <1>2 DEF CallStates, Outcomes
<1> QED
  BY <1>1, <1>4, <1>5, <1>6, CallMoveKeeps

LEMMA ReturnKeeps ==
    ASSUME LoopInv, NEW t \in Turn, NEW i \in DOMAIN job[t], Return(t, i)
    PROVE  LoopInv'
<1>1. UNCHANGED <<phase, batch, hist, saved, question, interrupted>> /\ phase[t] = "run"
  BY DEF Return, recordVars, Running
<1> QED
  BY <1>1, CallMoveKeeps DEF Return, CallStates, Outcomes

\* A call that asks a question waits from now on.
LEMMA ParkKeeps ==
    ASSUME LoopInv, NEW t \in Turn, NEW i \in DOMAIN job[t], Park(t, i)
    PROVE  LoopInv'
<1>1. /\ UNCHANGED <<phase, batch, hist, saved, interrupted>>
      /\ phase[t] = "run" /\ job[t][i] = "queued"
  BY DEF Park, recordVars, Running
<1>2. CASE Pending(StreamOf(t))
  BY <1>1, <1>2, CallMoveKeeps DEF Park, CallStates, Outcomes
<1>3. CASE ~Pending(StreamOf(t))
  <2>1. Become(t, i, "running") /\ batch[t][i] = "ask" /\ "running" \in CallStates
    BY <1>3 DEF Park, CallStates
  <2>2. PICK timer \in BOOLEAN :
          question' = [question EXCEPT ![StreamOf(t)] =
            [turn |-> t, call |-> i, future |-> "open", timer |-> timer, due |-> FALSE]]
    BY <1>3 DEF Park
  <2>3. /\ job' \in [Turn -> Seq(CallStates)]
        /\ DOMAIN job'[t] = DOMAIN job[t] /\ job'[t][i] = "running"
        /\ \A k \in DOMAIN job[t] : k # i => job'[t][k] = job[t][k]
        /\ \A u \in Turn : u # t => job'[u] = job[u]
    BY <2>1, CallTypes DEF LoopInv
  <2>4. StreamOf(t) \in Streams /\ t \in Family(StreamOf(t))
    BY Families
  <2>5. i \in Nat
    BY DEF LoopInv, LoopTypes
  <2>6. LoopTypes'
    <3>1. question' \in [Streams -> Questions \cup {NoQuestion}]
      BY <2>2, <2>4, <2>5 DEF LoopInv, LoopTypes, Questions
    <3> QED
      BY <1>1, <2>3, <3>1 DEF LoopInv, LoopTypes
  <2>7. \A u \in Turn : InProtocol(u)'
    <3>1. InProtocol(t)'
      BY <1>1 DEF LoopInv, InProtocol
    <3> QED
      BY <1>1, <2>3, <3>1, ProtocolElsewhere DEF LoopInv
  <2>8. \A u \in Turn : Delegating(u)'
    <3>1. Delegating(t)'
      BY <1>1, <2>3 DEF LoopInv, Delegating
    <3> QED
      BY <1>1, <2>3, <3>1, DelegatingElsewhere DEF LoopInv
  <2>9. ASSUME NEW r \in Streams
        PROVE  Awaited(r)'
    <3>1. CASE r = StreamOf(t)
      <4>1. /\ question'[r].turn = t /\ question'[r].call = i
        BY <2>2, <3>1 DEF LoopInv, LoopTypes
      <4> QED
        BY <1>1, <2>1, <2>3, <2>4, <3>1, <4>1 DEF Awaited
    <3>2. CASE r # StreamOf(t) /\ ~Pending(r)
      BY <2>2, <3>2, NothingAwaited DEF Pending, LoopInv, LoopTypes
    <3>3. CASE r # StreamOf(t) /\ Pending(r)
      <4>1. question'[r] = question[r]
        BY <2>2, <3>3 DEF LoopInv, LoopTypes
      <4>2. question[r].turn \in Turn
        BY <3>3, AskingTurn
      <4>3. job[question[r].turn][question[r].call] = "running" /\ Awaited(r)
        BY <3>3 DEF LoopInv, Awaited
      <4>4. CASE question[r].turn = t
        <5>1. question[r].call # i /\ question[r].call \in DOMAIN job[t]
          BY <1>1, <3>3, <4>3, <4>4 DEF Awaited
        <5> QED
          BY <1>1, <2>3, <4>1, <4>3, <4>4, <5>1 DEF Awaited, Pending
      <4>5. CASE question[r].turn # t
        BY <1>1, <2>3, <4>1, <4>2, <4>3, <4>5, AwaitedElsewhere
      <4> QED
        BY <4>4, <4>5
    <3> QED
      BY <3>1, <3>2, <3>3
  <2> QED
    BY <2>6, <2>7, <2>8, <2>9 DEF LoopInv
<1> QED
  BY <1>2, <1>3

\* A question stays with its call while another call moves.
LEMMA AwaitedBeside ==
    ASSUME LoopInv, NEW r \in Streams, question'[r] = question[r], NEW t \in Turn, NEW i,
           \A u \in Turn : u # t /\ phase[u] = "run" =>
             phase'[u] = "run" /\ batch'[u] = batch[u] /\ job'[u] = job[u],
           phase'[t] = phase[t], batch'[t] = batch[t], DOMAIN job'[t] = DOMAIN job[t],
           \A k \in DOMAIN job[t] : k # i => job'[t][k] = job[t][k],
           Pending(r) /\ question[r].turn = t => question[r].call # i
    PROVE  Awaited(r)'
<1>1. CASE ~Pending(r)
  BY <1>1, NothingAwaited DEF Pending
<1>2. CASE Pending(r)
  <2>1. PICK q : q = question[r]
    OBVIOUS
  <2>2. /\ q.turn \in Turn /\ q.turn \in Family(r) /\ phase[q.turn] = "run"
        /\ q.call \in DOMAIN job[q.turn] /\ job[q.turn][q.call] = "running"
        /\ batch[q.turn][q.call] = "ask"
    BY <1>2, <2>1, AskingTurn DEF LoopInv, Awaited
  <2>3. CASE q.turn = t
    BY <1>2, <2>1, <2>2, <2>3 DEF Awaited
  <2>4. CASE q.turn # t
    BY <1>2, <2>1, <2>2, <2>4 DEF Awaited
  <2> QED
    BY <2>3, <2>4
<1> QED
  BY <1>1, <1>2

\* The same where the turn itself asks nothing.
LEMMA AwaitedApart ==
    ASSUME LoopInv, NEW r \in Streams, question'[r] = question[r], NEW t \in Turn,
           \A u \in Turn : u # t /\ phase[u] = "run" =>
             phase'[u] = "run" /\ batch'[u] = batch[u] /\ job'[u] = job[u],
           Pending(r) => question[r].turn # t
    PROVE  Awaited(r)'
<1>1. CASE ~Pending(r)
  BY <1>1, NothingAwaited DEF Pending
<1>2. CASE Pending(r)
  <2>1. PICK q : q = question[r]
    OBVIOUS
  <2>2. /\ q.turn \in Turn /\ q.turn \in Family(r) /\ phase[q.turn] = "run"
        /\ q.call \in DOMAIN job[q.turn] /\ job[q.turn][q.call] = "running"
        /\ batch[q.turn][q.call] = "ask"
    BY <1>2, <2>1, AskingTurn DEF LoopInv, Awaited
  <2> QED
    BY <1>2, <2>1, <2>2 DEF Awaited
<1> QED
  BY <1>1, <1>2

\* The question of the turn comes to its end, and nobody else's.
LEMMA QuestionForgotten ==
    ASSUME LoopInv, NEW t \in Turn, question' = ForgetQuestion(t, question)
    PROVE  /\ question' \in [Streams -> Questions \cup {NoQuestion}]
           /\ \A r \in Streams : \/ question'[r] = NoQuestion
                                 \/ question'[r] = question[r] /\ question[r].turn # t
BY DEF ForgetQuestion, LoopInv, LoopTypes

LEMMA ResumeKeeps ==
    ASSUME LoopInv, NEW t \in Turn, Resume(t)
    PROVE  LoopInv'
<1>1. UNCHANGED <<phase, batch, hist, saved, interrupted>> /\ phase[t] = "run"
  BY DEF Resume, recordVars, Running
<1>2. PICK r \in Streams : r = StreamOf(t)
  BY Families
<1>3. question[r].turn = t /\ Pending(r)
  BY <1>2, NoTurnOfNone DEF Resume, Pending
<1>4. PICK i \in DOMAIN job[t] : i = question[r].call /\ batch[t][i] = "ask" /\ job[t][i] = "running"
  BY <1>3 DEF LoopInv, Awaited
<1>5. PICK s \in {"raised", "answered"} : Become(t, i, s)
  <2>1. CASE question[r].future = "cancelled"
    BY <1>2, <1>4, <2>1 DEF Resume
  <2>2. CASE question[r].future # "cancelled"
    BY <1>2, <1>4, <2>2 DEF Resume
  <2> QED
    BY <2>1, <2>2
<1>6. /\ job' \in [Turn -> Seq(CallStates)]
      /\ DOMAIN job'[t] = DOMAIN job[t] /\ job'[t][i] = s
      /\ \A k \in DOMAIN job[t] : k # i => job'[t][k] = job[t][k]
      /\ \A u \in Turn : u # t => job'[u] = job[u]
  BY <1>5, CallTypes DEF LoopInv, CallStates, Outcomes
<1>7. /\ question' \in [Streams -> Questions \cup {NoQuestion}]
      /\ \A q \in Streams : \/ question'[q] = NoQuestion
                            \/ question'[q] = question[q] /\ question[q].turn # t
  BY QuestionForgotten DEF Resume
<1>8. LoopTypes'
  BY <1>1, <1>6, <1>7 DEF LoopInv, LoopTypes
<1>9. \A u \in Turn : InProtocol(u)'
  <2>1. InProtocol(t)'
    BY <1>1 DEF LoopInv, InProtocol
  <2> QED
    BY <1>1, <1>6, <2>1, ProtocolElsewhere DEF LoopInv
<1>10. \A u \in Turn : Delegating(u)'
  <2>1. Delegating(t)'
    <3> SUFFICES ASSUME NEW c \in ChildrenOf(t), phase[c] # "idle"
                 PROVE  phase[t] = "run"
                        /\ \E k \in DOMAIN job'[t] : batch[t][k] = "agent" /\ job'[t][k] = "running"
      BY <1>1 DEF Delegating
    <3>1. PICK k \in DOMAIN job[t] : batch[t][k] = "agent" /\ job[t][k] = "running"
      BY DEF LoopInv, Delegating
    <3>2. k # i
      BY <1>4, <3>1
    <3> QED
      BY <1>1, <1>6, <3>1, <3>2
  <2> QED
    BY <1>1, <1>6, <2>1, DelegatingElsewhere DEF LoopInv
<1>11. \A q \in Streams : Awaited(q)'
  BY <1>1, <1>6, <1>7, NothingAwaited, AwaitedApart
<1> QED
  BY <1>8, <1>9, <1>10, <1>11 DEF LoopInv

LEMMA TakeKeeps ==
    ASSUME LoopInv, NEW t \in Turn, NEW i \in DOMAIN job[t], Take(t, i)
    PROVE  LoopInv'
<1> DEFINE C == IF batch[t][i] = "agent" THEN ChildrenOf(t) ELSE {}
<1>1. /\ UNCHANGED <<batch, saved, question, interrupted>> /\ phase[t] = "run"
      /\ job[t][i] = "queued" /\ batch[t][i] # "ask"
      /\ Become(t, i, "running") /\ "running" \in CallStates
  BY DEF Take, Running, CallStates
<1>2. phase' = Set(phase, C, "model") /\ hist' = Set(hist, C, <<User>>)
  BY DEF Take
<1>3. C \subseteq ChildrenOf(t) /\ (C # {} => batch[t][i] = "agent")
  OBVIOUS
<1> HIDE DEF C
<1>4. \A c \in C : /\ c \in Turn /\ c # t /\ ChildrenOf(c) = {} /\ c \notin Streams
                   /\ \A u \in Turn : u # t => c \notin ChildrenOf(u)
  BY <1>3, Families
<1>5. /\ job' \in [Turn -> Seq(CallStates)]
      /\ DOMAIN job'[t] = DOMAIN job[t] /\ job'[t][i] = "running"
      /\ \A k \in DOMAIN job[t] : k # i => job'[t][k] = job[t][k]
      /\ \A u \in Turn : u # t => job'[u] = job[u]
  BY <1>1, CallTypes DEF LoopInv
<1>6. ASSUME NEW c \in C
      PROVE  phase[c] = "idle"
  <2>1. SUFFICES ASSUME phase[c] # "idle"
                 PROVE  FALSE
    OBVIOUS
  <2>2. PICK k \in DOMAIN job[t] : batch[t][k] = "agent" /\ job[t][k] = "running"
    BY <1>3, <2>1 DEF LoopInv, Delegating
  <2>3. t \in DOMAIN Child
    BY <1>3 DEF ChildrenOf
  <2>4. k = i
    BY <1>3, <2>2, <2>3 DEF LoopInv, LoopTypes, OneAgent
  <2> QED
    BY <1>1, <2>2, <2>4
<1>7. \A u \in Turn : /\ u \in C => phase'[u] = "model" /\ hist'[u] = <<User>>
                      /\ u \notin C => phase'[u] = phase[u] /\ hist'[u] = hist[u]
  BY <1>2, SetAt
<1>8. LoopTypes'
  <2>1. phase' \in [Turn -> Phases]
    BY <1>2 DEF Set, LoopInv, LoopTypes, Phases
  <2>2. hist' \in [Turn -> Seq(Message)]
    BY <1>2, FirstWordPaired DEF Set, LoopInv, LoopTypes
  <2> QED
    BY <1>1, <1>5, <2>1, <2>2 DEF LoopInv, LoopTypes
<1>9. ASSUME NEW u \in Turn
      PROVE  InProtocol(u)'
  <2>1. CASE u = t
    <3>1. t \notin C /\ phase'[t] = "run" /\ hist'[t] = hist[t]
      BY <1>1, <1>4, <1>7
    <3> QED
      BY <1>1, <2>1, <3>1 DEF LoopInv, InProtocol
  <2>2. CASE u \in C
    <3>1. batch[u] = <<>> /\ job[u] = <<>> /\ u # t /\ u \notin Streams
      BY <1>4, <1>6, <2>2 DEF LoopInv, InProtocol
    <3> QED
      BY <1>1, <1>5, <1>7, <2>2, <3>1, FirstWordPaired DEF InProtocol
  <2>3. CASE u # t /\ u \notin C
    BY <1>1, <1>5, <1>7, <2>3, ProtocolElsewhere DEF LoopInv
  <2> QED
    BY <2>1, <2>2, <2>3
<1>10. ASSUME NEW u \in Turn
       PROVE  Delegating(u)'
  <2>1. CASE u = t
    <3>1. phase'[t] = "run"
      BY <1>1, <1>4, <1>7
    <3> SUFFICES ASSUME NEW c \in ChildrenOf(t), phase'[c] # "idle"
                 PROVE  \E k \in DOMAIN job'[t] : batch'[t][k] = "agent" /\ job'[t][k] = "running"
      BY <2>1, <3>1 DEF Delegating
    <3>2. CASE c \in C
      BY <1>1, <1>3, <1>5, <3>2
    <3>3. CASE c \notin C
      <4>1. phase[c] # "idle"
        BY <1>7, <3>3, Families
      <4>2. PICK k \in DOMAIN job[t] : batch[t][k] = "agent" /\ job[t][k] = "running"
        BY <4>1 DEF LoopInv, Delegating
      <4>3. k # i
        BY <1>1, <4>2
      <4> QED
        BY <1>1, <1>5, <4>2, <4>3
    <3> QED
      BY <3>2, <3>3
  <2>2. CASE u \in C
    BY <1>4, <2>2 DEF Delegating
  <2>3. CASE u # t /\ u \notin C
    <3>1. \A c \in ChildrenOf(u) : c \in Turn /\ c \notin C
      BY <1>4, <2>3, Families
    <3> QED
      BY <1>1, <1>5, <1>7, <2>3, <3>1, DelegatingElsewhere DEF LoopInv
  <2> QED
    BY <2>1, <2>2, <2>3
<1>11. ASSUME NEW r \in Streams
       PROVE  Awaited(r)'
  <2>1. \A u \in Turn : u # t /\ phase[u] = "run" =>
          phase'[u] = "run" /\ batch'[u] = batch[u] /\ job'[u] = job[u]
    BY <1>1, <1>5, <1>6, <1>7
  <2>2. Pending(r) /\ question[r].turn = t => question[r].call # i
    BY <1>1 DEF LoopInv, Awaited
  <2>3. phase'[t] = phase[t] /\ batch'[t] = batch[t] /\ question'[r] = question[r]
    BY <1>1, <1>4, <1>7
  <2> QED
    BY <1>5, <2>1, <2>2, <2>3, AwaitedBeside
<1> QED
  BY <1>8, <1>9, <1>10, <1>11 DEF LoopInv

-----------------------------------------------------------------------------
(* A turn moves on by itself.                                              *)

LEMMA TurnKeeps ==
    ASSUME LoopInv, NEW t \in Turn, LoopTypes', InProtocol(t)',
           \A u \in Turn : u # t =>
             /\ phase'[u] = phase[u] /\ batch'[u] = batch[u] /\ job'[u] = job[u]
             /\ hist'[u] = hist[u] /\ saved'[u] = saved[u]
             /\ u \in interrupted => u \in interrupted',
           phase[t] # "idle" \/ t \in Streams,
           \A c \in ChildrenOf(t) : phase[c] = "idle",
           UNCHANGED question,
           \A r \in Streams : Pending(r) => question[r].turn # t
    PROVE  LoopInv'
<1>1. \A u \in Turn : InProtocol(u)'
  BY ProtocolElsewhere DEF LoopInv
<1>2. ASSUME NEW u \in Turn
      PROVE  Delegating(u)'
  <2>1. CASE u = t
    <3>1. \A c \in ChildrenOf(t) : phase'[c] = "idle"
      BY Families
    <3> QED
      BY <2>1, <3>1 DEF Delegating
  <2>2. CASE u # t
    <3>1. \A c \in ChildrenOf(u) : phase'[c] # "idle" => phase[c] # "idle"
      BY Families
    <3> QED
      BY <2>2, <3>1, DelegatingElsewhere DEF LoopInv
  <2> QED
    BY <2>1, <2>2
<1>3. \A r \in Streams : Awaited(r)'
  BY AwaitedApart
<1> QED
  BY <1>1, <1>2, <1>3 DEF LoopInv

\* Nothing is asked, and nobody delegated to, outside a running batch.
LEMMA AloneOutside ==
    ASSUME LoopInv, NEW t \in Turn, phase[t] # "run"
    PROVE  /\ \A c \in ChildrenOf(t) : phase[c] = "idle"
           /\ \A r \in Streams : Pending(r) => question[r].turn # t
BY DEF LoopInv, Delegating, Awaited

LEMMA RoundsCounted ==
    ASSUME LoopTypes, NEW t \in Turn
    PROVE  Rounds(t) \in Nat
<1>1. DOMAIN hist[t] = 1 .. Len(hist[t]) /\ Len(hist[t]) \in Nat
  BY DEF LoopTypes
<1>2. IsFiniteSet(1 .. Len(hist[t]))
  BY <1>1, FS_Interval
<1>3. PICK S : S = {k \in DOMAIN hist[t] : hist[t][k].type = "calls"}
  OBVIOUS
<1>4. IsFiniteSet(S)
  BY <1>1, <1>2, <1>3, FS_Subset
<1>5. Cardinality(S) \in Nat
  BY <1>4, FS_CardinalityType
<1> QED
  BY <1>3, <1>5 DEF Rounds

LEMMA BeginKeeps ==
    ASSUME LoopInv, NEW r \in Streams, Begin(r)
    PROVE  LoopInv'
<1>1. /\ r \in Turn /\ phase[r] = "idle" /\ UNCHANGED <<batch, job, saved, question, interrupted>>
      /\ phase' = [phase EXCEPT ![r] = "model"] /\ hist' = [hist EXCEPT ![r] = <<User>>]
  BY StreamTurns DEF Begin
<1>2. LoopTypes'
  BY <1>1, FirstWordPaired DEF LoopInv, LoopTypes, Phases
<1>3. InProtocol(r)'
  BY <1>1, FirstWordPaired DEF LoopInv, LoopTypes, InProtocol
<1>4. \A u \in Turn : u # r => phase'[u] = phase[u] /\ hist'[u] = hist[u]
  BY <1>1 DEF LoopInv, LoopTypes
<1> QED
  BY <1>1, <1>2, <1>3, <1>4, AloneOutside, TurnKeeps

LEMMA IssueKeeps ==
    ASSUME LoopInv, NEW t \in Turn, Issue(t)
    PROVE  LoopInv'
<1>1. /\ phase[t] = "model" /\ UNCHANGED <<saved, question, interrupted>>
      /\ Rounds(t) < Len(Batches[t])
      /\ phase' = [phase EXCEPT ![t] = "check"]
  BY DEF Issue
<1>2. Rounds(t) + 1 \in DOMAIN Batches[t] /\ Batches[t][Rounds(t) + 1] \in SUBSET Seq(CallKinds)
  <2>1. Batches[t] \in Seq(SUBSET Seq(CallKinds))
    BY TurnsAssumption
  <2>2. PICK n \in Nat : n = Rounds(t)
    BY RoundsCounted DEF LoopInv
  <2>3. n + 1 \in DOMAIN Batches[t]
    BY <1>1, <2>1, <2>2
  <2> QED
    BY <2>1, <2>2, <2>3
<1>3. PICK b \in Batches[t][Rounds(t) + 1] :
        /\ batch' = [batch EXCEPT ![t] = b]
        /\ job' = [job EXCEPT ![t] = [i \in DOMAIN b |-> "unchecked"]]
        /\ hist' = [hist EXCEPT ![t] = Append(@, Calls(Len(b)))]
  BY DEF Issue
<1>4. b \in Seq(CallKinds) /\ (t \in DOMAIN Child => OneAgent(b))
  <2>1. ASSUME t \in DOMAIN Child
        PROVE  OneAgent(b)
    <3>1. \A n \in DOMAIN Batches[t] : \A d \in Batches[t][n] :
            \A i, k \in DOMAIN d : d[i] = "agent" /\ d[k] = "agent" => i = k
      BY <2>1, TurnsAssumption
    <3> QED
      BY <1>2, <3>1 DEF OneAgent
  <2> QED
    BY <1>2, <2>1
<1>5. PICK j : j = [i \in DOMAIN b |-> "unchecked"]
  OBVIOUS
<1>6. j \in Seq(CallStates) /\ DOMAIN j = DOMAIN b
  BY <1>4, <1>5 DEF CallStates
<1>7. PICK h : h = Append(hist[t], Calls(Len(b)))
  OBVIOUS
<1>8. h \in Seq(Message) /\ Waiting(h, Len(b))
  BY <1>1, <1>4, <1>7, WaitingIssued DEF LoopInv, LoopTypes, InProtocol
<1>9. /\ job' = [job EXCEPT ![t] = j] /\ hist' = [hist EXCEPT ![t] = h]
  BY <1>3, <1>5, <1>7 DEF LoopInv, LoopTypes
<1>10. LoopTypes'
  <2>1. batch' \in [Turn -> Seq(CallKinds)] /\ job' \in [Turn -> Seq(CallStates)]
    BY <1>3, <1>4, <1>6, <1>9 DEF LoopInv, LoopTypes
  <2>2. /\ \A u \in Turn : DOMAIN job'[u] = DOMAIN batch'[u]
        /\ \A u \in DOMAIN Child : OneAgent(batch'[u])
    BY <1>3, <1>4, <1>6, <1>9, TurnsAssumption DEF LoopInv, LoopTypes
  <2>3. phase' \in [Turn -> Phases] /\ hist' \in [Turn -> Seq(Message)]
    BY <1>1, <1>8, <1>9 DEF LoopInv, LoopTypes, Phases
  <2> QED
    BY <1>1, <2>1, <2>2, <2>3 DEF LoopInv, LoopTypes
<1>11. InProtocol(t)'
  BY <1>1, <1>3, <1>8, <1>9 DEF LoopInv, LoopTypes, InProtocol
<1>12. \A u \in Turn : u # t =>
         /\ phase'[u] = phase[u] /\ batch'[u] = batch[u] /\ job'[u] = job[u]
         /\ hist'[u] = hist[u] /\ saved'[u] = saved[u]
  BY <1>1, <1>3, <1>9 DEF LoopInv, LoopTypes
<1> QED
  BY <1>1, <1>10, <1>11, <1>12, AloneOutside, TurnKeeps

LEMMA EndRoundsKeeps ==
    ASSUME LoopInv, NEW t \in Turn, EndRounds(t)
    PROVE  LoopInv'
<1>1. /\ phase[t] = "model" /\ UNCHANGED <<batch, job, hist, saved, question, interrupted>>
      /\ phase' = [phase EXCEPT ![t] = "closing"]
  BY DEF EndRounds, recordVars
<1>2. LoopTypes'
  BY <1>1 DEF LoopInv, LoopTypes, Phases
<1>3. InProtocol(t)'
  BY <1>1 DEF LoopInv, LoopTypes, InProtocol
<1>4. \A u \in Turn : u # t => phase'[u] = phase[u]
  BY <1>1 DEF LoopInv, LoopTypes
<1> QED
  BY <1>1, <1>2, <1>3, <1>4, AloneOutside, TurnKeeps

LEMMA CloseTurnKeeps ==
    ASSUME LoopInv, NEW t \in Turn, CloseTurn(t)
    PROVE  LoopInv'
<1>1. /\ phase[t] = "closing" /\ UNCHANGED <<batch, job, hist, question, interrupted>>
      /\ phase' = [phase EXCEPT ![t] = "over"]
      /\ saved' = [saved EXCEPT ![t] = IF t \in Streams THEN hist[t] ELSE @]
  BY DEF CloseTurn, Save
<1>2. LoopTypes'
  BY <1>1 DEF LoopInv, LoopTypes, Phases
<1>3. InProtocol(t)'
  BY <1>1 DEF LoopInv, LoopTypes, InProtocol
<1>4. \A u \in Turn : u # t => phase'[u] = phase[u] /\ saved'[u] = saved[u]
  BY <1>1 DEF LoopInv, LoopTypes
<1> QED
  BY <1>1, <1>2, <1>3, <1>4, AloneOutside, TurnKeeps

LEMMA DispatchKeeps ==
    ASSUME LoopInv, NEW t \in Turn, Dispatch(t)
    PROVE  LoopInv'
<1>1. /\ phase[t] = "check" /\ UNCHANGED <<batch, job, hist, saved, question, interrupted>>
      /\ phase' = [phase EXCEPT ![t] = "run"]
  BY DEF Dispatch, recordVars
<1>2. LoopTypes'
  BY <1>1 DEF LoopInv, LoopTypes, Phases
<1>3. InProtocol(t)'
  BY <1>1 DEF LoopInv, LoopTypes, InProtocol
<1>4. \A u \in Turn : u # t => phase'[u] = phase[u]
  BY <1>1 DEF LoopInv, LoopTypes
<1> QED
  BY <1>1, <1>2, <1>3, <1>4, AloneOutside, TurnKeeps

-----------------------------------------------------------------------------
(* A batch has its results.                                                *)

LEMMA ResultsAnswer ==
    ASSUME LoopTypes, NEW t \in Turn
    PROVE  /\ Results(t) \in Seq(Message) /\ Len(Results(t)) = Len(batch[t])
           /\ \A i \in 1 .. Len(batch[t]) :
                Results(t)[i].type = "result" /\ Results(t)[i].call = i
<1>1. DOMAIN job[t] = 1 .. Len(batch[t]) /\ Len(batch[t]) \in Nat
  BY DEF LoopTypes
<1>2. \A i \in DOMAIN job[t] : OutcomeOf(t, i) \in Outcomes \cup {"stopped"}
  BY DEF OutcomeOf, Done
<1>3. \A i \in DOMAIN job[t] : /\ Result(i, OutcomeOf(t, i)) \in Message
                               /\ Result(i, OutcomeOf(t, i)).type = "result"
                               /\ Result(i, OutcomeOf(t, i)).call = i
  BY <1>1, <1>2, MessageOf
<1>4. Results(t) \in Seq(Message) /\ Len(Results(t)) = Len(batch[t])
  BY <1>1, <1>3 DEF Results
<1>5. \A i \in 1 .. Len(batch[t]) : Results(t)[i] = Result(i, OutcomeOf(t, i))
  BY <1>1 DEF Results
<1> QED
  BY <1>1, <1>3, <1>4, <1>5

\* The history of a turn with the results of its batch, whatever it was doing.
LEMMA RecordAnswered ==
    ASSUME LoopInv, NEW t \in Turn, phase[t] \notin {"idle", "unwinding", "over"}
    PROVE  hist[t] \o Results(t) \in Seq(Message) /\ Paired(hist[t] \o Results(t))
<1>1. /\ hist[t] \in Seq(Message) /\ Results(t) \in Seq(Message)
      /\ Len(batch[t]) \in Nat /\ Len(Results(t)) = Len(batch[t])
      /\ \A i \in 1 .. Len(batch[t]) :
           Results(t)[i].type = "result" /\ Results(t)[i].call = i
  BY ResultsAnswer DEF LoopInv, LoopTypes
<1>2. CASE phase[t] \in {"check", "run"}
  <2>1. Waiting(hist[t], Len(batch[t]))
    BY <1>2 DEF LoopInv, InProtocol
  <2> QED
    BY <1>1, <2>1, WaitingAnswered
<1>3. CASE phase[t] \notin {"check", "run"}
  <2>1. batch[t] = <<>> /\ Paired(hist[t])
    BY <1>3 DEF LoopInv, LoopTypes, Phases, InProtocol
  <2>2. Results(t) = <<>>
    BY <1>1, <2>1
  <2>3. hist[t] \o Results(t) = hist[t]
    BY <1>1, <2>2
  <2> QED
    BY <1>1, <2>1, <2>3
<1> QED
  BY <1>2, <1>3

LEMMA SettleKeeps ==
    ASSUME LoopInv, NEW t \in Turn, SettleBatch(t)
    PROVE  LoopInv'
<1>1. /\ phase[t] = "run" /\ UNCHANGED <<saved, question, interrupted>>
      /\ \A i \in DOMAIN job[t] : Done(t, i)
      /\ batch' = [batch EXCEPT ![t] = <<>>] /\ job' = [job EXCEPT ![t] = <<>>]
      /\ hist' = [hist EXCEPT ![t] = @ \o Results(t)]
  BY DEF SettleBatch, Running
<1>2. PICK p \in {"closing", "model"} : phase' = [phase EXCEPT ![t] = p]
  BY DEF SettleBatch
<1>3. PICK h : h = hist[t] \o Results(t)
  OBVIOUS
<1>4. h \in Seq(Message) /\ Paired(h) /\ hist' = [hist EXCEPT ![t] = h]
  BY <1>1, <1>3, RecordAnswered DEF LoopInv, LoopTypes
<1>5. \A i \in DOMAIN job[t] : job[t][i] # "running"
  BY <1>1 DEF Done, Outcomes
<1>6. /\ \A c \in ChildrenOf(t) : phase[c] = "idle"
      /\ \A r \in Streams : Pending(r) => question[r].turn # t
  BY <1>5 DEF LoopInv, Delegating, Awaited
<1>7. LoopTypes'
  <2>1. batch' \in [Turn -> Seq(CallKinds)] /\ job' \in [Turn -> Seq(CallStates)]
    BY <1>1 DEF LoopInv, LoopTypes
  <2>2. /\ \A u \in Turn : DOMAIN job'[u] = DOMAIN batch'[u]
        /\ \A u \in DOMAIN Child : OneAgent(batch'[u])
    <3>1. \A u \in Turn : DOMAIN job'[u] = DOMAIN batch'[u]
      BY <1>1 DEF LoopInv, LoopTypes
    <3>2. ASSUME NEW u \in DOMAIN Child
          PROVE  OneAgent(batch'[u])
      <4>1. u \in Turn
        BY TurnsAssumption
      <4>2. CASE u = t
        BY <1>1, <4>1, <4>2 DEF LoopInv, LoopTypes, OneAgent
      <4>3. CASE u # t
        BY <1>1, <4>1, <4>3 DEF LoopInv, LoopTypes
      <4> QED
        BY <4>2, <4>3
    <3> QED
      BY <3>1, <3>2
  <2>3. phase' \in [Turn -> Phases] /\ hist' \in [Turn -> Seq(Message)]
    BY <1>2, <1>4 DEF LoopInv, LoopTypes, Phases
  <2> QED
    BY <1>1, <2>1, <2>2, <2>3 DEF LoopInv, LoopTypes
<1>8. InProtocol(t)'
  BY <1>1, <1>2, <1>4 DEF LoopInv, LoopTypes, InProtocol
<1>9. \A u \in Turn : u # t =>
         /\ phase'[u] = phase[u] /\ batch'[u] = batch[u] /\ job'[u] = job[u]
         /\ hist'[u] = hist[u] /\ saved'[u] = saved[u]
  BY <1>1, <1>2, <1>4 DEF LoopInv, LoopTypes
<1> QED
  BY <1>1, <1>6, <1>7, <1>8, <1>9, TurnKeeps

\* The call of a delegated turn comes back, and the turn is thrown away.
LEMMA ReturnAgentKeeps ==
    ASSUME LoopInv, NEW t \in Turn, NEW i \in DOMAIN job[t], ReturnAgent(t, i)
    PROVE  LoopInv'
<1>1. /\ phase[t] = "run" /\ job[t][i] = "running" /\ batch[t][i] = "agent"
      /\ UNCHANGED <<batch, saved, question>>
  BY DEF ReturnAgent, Running
<1>2. PICK c \in ChildrenOf(t) :
        /\ phase[c] = "over"
        /\ Become(t, i, IF cut[c] THEN "raised" ELSE "answered")
        /\ phase' = Set(phase, {c}, "idle") /\ hist' = Set(hist, {c}, <<>>)
        /\ interrupted' = interrupted \ {c}
  BY DEF ReturnAgent
<1>3. PICK s \in {"raised", "answered"} : Become(t, i, s)
  BY <1>2
<1>4. /\ c \in Turn /\ c # t /\ ChildrenOf(c) = {} /\ c \notin Streams
      /\ \A u \in Turn : u # t => c \notin ChildrenOf(u)
      /\ ChildrenOf(t) = {c}
  BY Families DEF ChildrenOf
<1>5. /\ job' \in [Turn -> Seq(CallStates)]
      /\ DOMAIN job'[t] = DOMAIN job[t] /\ job'[t][i] = s
      /\ \A k \in DOMAIN job[t] : k # i => job'[t][k] = job[t][k]
      /\ \A u \in Turn : u # t => job'[u] = job[u]
  BY <1>3, CallTypes DEF LoopInv, CallStates, Outcomes
<1>6. /\ phase'[c] = "idle" /\ hist'[c] = <<>>
      /\ \A u \in Turn : u # c => phase'[u] = phase[u] /\ hist'[u] = hist[u]
  BY <1>2, <1>4, SetAt
<1>7. LoopTypes'
  <2>1. phase' \in [Turn -> Phases]
    BY <1>2 DEF Set, LoopInv, LoopTypes, Phases
  <2>2. hist' \in [Turn -> Seq(Message)]
    BY <1>2 DEF Set, LoopInv, LoopTypes
  <2> QED
    BY <1>1, <1>5, <2>1, <2>2 DEF LoopInv, LoopTypes
<1>8. ASSUME NEW u \in Turn
      PROVE  InProtocol(u)'
  <2>1. CASE u = t
    BY <1>1, <1>4, <1>6, <2>1 DEF LoopInv, InProtocol
  <2>2. CASE u = c
    <3>1. batch[c] = <<>> /\ job[c] = <<>>
      BY <1>2, <1>4 DEF LoopInv, InProtocol
    <3> QED
      BY <1>1, <1>4, <1>5, <1>6, <2>2, <3>1 DEF InProtocol
  <2>3. CASE u # t /\ u # c
    BY <1>1, <1>2, <1>5, <1>6, <2>3, ProtocolElsewhere DEF LoopInv
  <2> QED
    BY <2>1, <2>2, <2>3
<1>9. ASSUME NEW u \in Turn
      PROVE  Delegating(u)'
  <2>1. CASE u = t
    BY <1>4, <1>6, <2>1 DEF Delegating
  <2>2. CASE u = c
    BY <1>4, <2>2 DEF Delegating
  <2>3. CASE u # t /\ u # c
    <3>1. \A d \in ChildrenOf(u) : d \in Turn /\ d # c
      BY <1>4, <2>3, Families
    <3> QED
      BY <1>1, <1>5, <1>6, <2>3, <3>1, DelegatingElsewhere DEF LoopInv
  <2> QED
    BY <2>1, <2>2, <2>3
<1>10. ASSUME NEW r \in Streams
       PROVE  Awaited(r)'
  <2>1. \A u \in Turn : u # t /\ phase[u] = "run" =>
          phase'[u] = "run" /\ batch'[u] = batch[u] /\ job'[u] = job[u]
    BY <1>1, <1>2, <1>5, <1>6
  <2>2. Pending(r) /\ question[r].turn = t => question[r].call # i
    BY <1>1 DEF LoopInv, Awaited
  <2>3. phase'[t] = phase[t] /\ batch'[t] = batch[t] /\ question'[r] = question[r]
    BY <1>1, <1>4, <1>6
  <2> QED
    BY <1>5, <2>1, <2>2, <2>3, AwaitedBeside
<1> QED
  BY <1>7, <1>8, <1>9, <1>10 DEF LoopInv

\* A cancelled turn records its results, with what is left of the turn it
\* delegated to: it is over, or has its batch until the results are sent.
LEMMA RecordKeeps ==
    ASSUME LoopInv, NEW t \in Turn, Stopped(t),
           NEW p \in {"unwinding", "over"}, NEW b \in Seq(CallKinds), NEW j \in Seq(CallStates),
           DOMAIN j = DOMAIN b, b \in {<<>>, batch[t]}, p = "over" => b = <<>> /\ j = <<>>,
           phase' = [Set(phase, ChildrenOf(t), "idle") EXCEPT ![t] = p],
           hist' = [Set(hist, ChildrenOf(t), <<>>) EXCEPT ![t] = @ \o Results(t)],
           saved' = [saved EXCEPT ![t] = IF t \in Streams /\ p = "over" THEN hist'[t] ELSE @],
           batch' = [batch EXCEPT ![t] = b], job' = [job EXCEPT ![t] = j],
           interrupted' = interrupted \ ChildrenOf(t), question' = ForgetQuestion(t, question)
    PROVE  LoopInv'
<1>1. PICK C : C = ChildrenOf(t)
  OBVIOUS
<1>2. /\ phase[t] \notin {"idle", "unwinding", "over"}
      /\ \A c \in C : phase[c] \in {"idle", "over"}
      /\ phase' = [Set(phase, C, "idle") EXCEPT ![t] = p]
      /\ hist' = [Set(hist, C, <<>>) EXCEPT ![t] = @ \o Results(t)]
      /\ interrupted' = interrupted \ C
  BY <1>1 DEF Stopped, Active
<1>3. /\ t \notin C /\ C \subseteq Turn
      /\ \A c \in C : ChildrenOf(c) = {} /\ c \notin Streams
      /\ \A u \in Turn, c \in C : u # t => c \notin ChildrenOf(u)
  BY <1>1, Families
<1>4. PICK h : h = hist[t] \o Results(t)
  OBVIOUS
<1>5. h \in Seq(Message) /\ Paired(h)
  BY <1>2, <1>4, RecordAnswered
<1>6. /\ phase'[t] = p /\ hist'[t] = h
      /\ \A c \in C : phase'[c] = "idle" /\ hist'[c] = <<>>
      /\ \A u \in Turn : u # t /\ u \notin C => phase'[u] = phase[u] /\ hist'[u] = hist[u]
  BY <1>2, <1>3, <1>4 DEF Set
<1>7. /\ batch'[t] = b /\ job'[t] = j /\ (t \in Streams /\ p = "over" => saved'[t] = h)
      /\ \A u \in Turn : u # t =>
           batch'[u] = batch[u] /\ job'[u] = job[u] /\ saved'[u] = saved[u]
  BY <1>6 DEF LoopInv, LoopTypes
<1>8. /\ question' \in [Streams -> Questions \cup {NoQuestion}]
      /\ \A r \in Streams : \/ question'[r] = NoQuestion
                            \/ question'[r] = question[r] /\ question[r].turn # t
  BY QuestionForgotten
<1>9. LoopTypes'
  <2>1. phase' \in [Turn -> Phases]
    BY <1>2 DEF Set, LoopInv, LoopTypes, Phases
  <2>2. hist' \in [Turn -> Seq(Message)]
    <3>1. Set(hist, C, <<>>) \in [Turn -> Seq(Message)]
      BY DEF Set, LoopInv, LoopTypes
    <3>2. Set(hist, C, <<>>)[t] = hist[t]
      BY <1>3, SetAt
    <3> QED
      BY <1>2, <1>4, <1>5, <3>1, <3>2
  <2>3. saved' \in [Turn -> Seq(Message)]
    BY <1>5, <1>6 DEF LoopInv, LoopTypes
  <2>4. batch' \in [Turn -> Seq(CallKinds)] /\ job' \in [Turn -> Seq(CallStates)]
    BY DEF LoopInv, LoopTypes
  <2>5. \A u \in Turn : DOMAIN job'[u] = DOMAIN batch'[u]
    BY <1>7 DEF LoopInv, LoopTypes
  <2>6. ASSUME NEW u \in DOMAIN Child
        PROVE  OneAgent(batch'[u])
    <3>1. u \in Turn
      BY TurnsAssumption
    <3>2. CASE u = t
      BY <1>7, <3>2 DEF LoopInv, LoopTypes, OneAgent
    <3>3. CASE u # t
      BY <1>7, <3>1, <3>3 DEF LoopInv, LoopTypes
    <3> QED
      BY <3>2, <3>3
  <2> QED
    BY <1>8, <2>1, <2>2, <2>3, <2>4, <2>5, <2>6 DEF LoopTypes
<1>10. ASSUME NEW u \in Turn
       PROVE  InProtocol(u)'
  <2>1. CASE u = t
    BY <1>5, <1>6, <1>7, <2>1 DEF InProtocol
  <2>2. CASE u \in C
    <3>1. batch'[u] = <<>> /\ job'[u] = <<>>
      BY <1>2, <1>3, <1>7, <2>2 DEF LoopInv, InProtocol
    <3> QED
      BY <1>3, <1>6, <2>2, <3>1 DEF InProtocol
  <2>3. CASE u # t /\ u \notin C
    BY <1>2, <1>6, <1>7, <2>3, ProtocolElsewhere DEF LoopInv
  <2> QED
    BY <2>1, <2>2, <2>3
<1>11. ASSUME NEW u \in Turn
       PROVE  Delegating(u)'
  <2>1. CASE u = t
    BY <1>1, <1>6, <2>1 DEF Delegating
  <2>2. CASE u \in C
    BY <1>3, <2>2 DEF Delegating
  <2>3. CASE u # t /\ u \notin C
    <3>1. \A c \in ChildrenOf(u) : phase'[c] # "idle" => phase[c] # "idle"
      BY <1>2, <1>3, <1>6, <2>3, Families
    <3> QED
      BY <1>6, <1>7, <2>3, <3>1, DelegatingElsewhere DEF LoopInv
  <2> QED
    BY <2>1, <2>2, <2>3
<1>12. ASSUME NEW r \in Streams
       PROVE  Awaited(r)'
  <2>1. CASE question'[r] = NoQuestion
    BY <2>1, NothingAwaited
  <2>2. CASE question'[r] = question[r] /\ question[r].turn # t
    <3>1. \A u \in Turn : u # t /\ phase[u] = "run" =>
            phase'[u] = "run" /\ batch'[u] = batch[u] /\ job'[u] = job[u]
      BY <1>2, <1>6, <1>7
    <3> QED
      BY <2>2, <3>1, AwaitedApart
  <2> QED
    BY <1>8, <2>1, <2>2
<1> QED
  BY <1>9, <1>10, <1>11, <1>12 DEF LoopInv

LEMMA UnwindKeeps ==
    ASSUME LoopInv, NEW t \in Turn, UnwindTurn(t) \/ SendCompleted(t)
    PROVE  LoopInv'
<1>1. CASE UnwindTurn(t)
  <2>0. <<>> \in Seq(CallKinds) /\ <<>> \in Seq(CallStates)
    OBVIOUS
  <2>1. PICK e : e = <<>>
    OBVIOUS
  <2>3. e \in Seq(CallKinds) /\ e \in Seq(CallStates)
    BY <2>0, <2>1
  <2>2. /\ Stopped(t)
        /\ phase' = [Set(phase, ChildrenOf(t), "idle") EXCEPT ![t] = "over"]
        /\ hist' = [Set(hist, ChildrenOf(t), <<>>) EXCEPT ![t] = @ \o Results(t)]
        /\ saved' = [saved EXCEPT ![t] = IF t \in Streams /\ "over" = "over" THEN hist'[t] ELSE @]
        /\ batch' = [batch EXCEPT ![t] = e] /\ job' = [job EXCEPT ![t] = e]
        /\ interrupted' = interrupted \ ChildrenOf(t) /\ question' = ForgetQuestion(t, question)
    BY <1>1, <2>1 DEF UnwindTurn, Save
  <2> QED
    BY <2>1, <2>2, <2>3, RecordKeeps
<1>2. CASE SendCompleted(t)
  <2>1. PICK j : j = [i \in DOMAIN job[t] |-> "raised"]
    OBVIOUS
  <2>2. j \in Seq(CallStates) /\ DOMAIN j = DOMAIN batch[t] /\ batch[t] \in Seq(CallKinds)
    <3>1. job[t] \in Seq(CallStates) /\ DOMAIN job[t] = DOMAIN batch[t] /\ batch[t] \in Seq(CallKinds)
      BY DEF LoopInv, LoopTypes
    <3>2. j = [i \in 1 .. Len(job[t]) |-> "raised"] /\ Len(job[t]) \in Nat
      BY <2>1, <3>1
    <3>3. "raised" \in CallStates
      BY DEF CallStates
    <3> QED
      BY <3>1, <3>2, <3>3
  <2>3. /\ Stopped(t)
        /\ phase' = [Set(phase, ChildrenOf(t), "idle") EXCEPT ![t] = "unwinding"]
        /\ hist' = [Set(hist, ChildrenOf(t), <<>>) EXCEPT ![t] = @ \o Results(t)]
        /\ interrupted' = interrupted \ ChildrenOf(t) /\ question' = ForgetQuestion(t, question)
        /\ UNCHANGED <<batch, saved>>
    BY <1>2 DEF SendCompleted
  <2>4. job' = [job EXCEPT ![t] = j]
    BY <1>2, <2>1 DEF SendCompleted, LoopInv, LoopTypes
  <2>5. batch' = [batch EXCEPT ![t] = batch[t]]
    BY <2>3 DEF LoopInv, LoopTypes
  <2>6. saved' = [saved EXCEPT ![t] = IF t \in Streams /\ "unwinding" = "over" THEN hist'[t] ELSE @]
    BY <2>3 DEF LoopInv, LoopTypes
  <2> QED
    BY <2>2, <2>3, <2>4, <2>5, <2>6, RecordKeeps
<1> QED
  BY <1>1, <1>2

\* The results have been sent, or a stop came meanwhile.
LEMMA EndUnwindKeeps ==
    ASSUME LoopInv, NEW t \in Turn, EndUnwind(t)
    PROVE  LoopInv'
<1>1. PICK h : h = IF cut[t] THEN hist[t] \o StopResults(t) ELSE hist[t]
  OBVIOUS
<1>2. h \in Seq(Message) /\ (~cut[t] => h = hist[t])
  <2>1. hist[t] \in Seq(Message) /\ job[t] \in Seq(CallStates)
    BY DEF LoopInv, LoopTypes
  <2>2. \A i \in Nat : Result(i, "stopped") \in Message
    BY MessageOf
  <2>3. PICK R : R = StopResults(t)
    OBVIOUS
  <2>4. R = [i \in 1 .. Len(job[t]) |-> Result(i, "stopped")] /\ Len(job[t]) \in Nat
    BY <2>1, <2>3 DEF StopResults
  <2>5. R \in Seq(Message)
    BY <2>2, <2>4
  <2> QED
    BY <1>1, <2>1, <2>3, <2>5
<1>3. /\ phase[t] = "unwinding" /\ UNCHANGED question
      /\ phase' = [phase EXCEPT ![t] = "over"]
      /\ batch' = [batch EXCEPT ![t] = <<>>] /\ job' = [job EXCEPT ![t] = <<>>]
      /\ interrupted' = IF cut[t] THEN interrupted \cup {t} ELSE interrupted
  BY DEF EndUnwind
<1>4. hist' = [hist EXCEPT ![t] = h]
  BY <1>1 DEF EndUnwind, LoopInv, LoopTypes
<1>5. saved' = [saved EXCEPT ![t] = IF t \in Streams THEN h ELSE @]
  BY <1>4 DEF EndUnwind, Save, LoopInv, LoopTypes
<1>6. Paired(hist[t]) /\ t \in Turn
  BY <1>3 DEF LoopInv, InProtocol
<1>7. /\ phase'[t] = "over" /\ batch'[t] = <<>> /\ job'[t] = <<>> /\ hist'[t] = h
      /\ t \in Streams => saved'[t] = h
  BY <1>3, <1>4, <1>5 DEF LoopInv, LoopTypes
<1>8. \A u \in Turn : u # t =>
        /\ phase'[u] = phase[u] /\ batch'[u] = batch[u] /\ job'[u] = job[u]
        /\ hist'[u] = hist[u] /\ saved'[u] = saved[u]
        /\ u \in interrupted => u \in interrupted'
  BY <1>3, <1>4, <1>5 DEF LoopInv, LoopTypes
<1>9. LoopTypes'
  <2>1. batch' \in [Turn -> Seq(CallKinds)] /\ job' \in [Turn -> Seq(CallStates)]
    BY <1>3 DEF LoopInv, LoopTypes
  <2>2. \A u \in Turn : DOMAIN job'[u] = DOMAIN batch'[u]
    BY <1>7, <1>8 DEF LoopInv, LoopTypes
  <2>3. ASSUME NEW u \in DOMAIN Child
        PROVE  OneAgent(batch'[u])
    <3>1. u \in Turn
      BY TurnsAssumption
    <3>2. CASE u = t
      BY <1>7, <3>2 DEF OneAgent
    <3>3. CASE u # t
      BY <1>8, <3>1, <3>3 DEF LoopInv, LoopTypes
    <3> QED
      BY <3>2, <3>3
  <2>4. phase' \in [Turn -> Phases] /\ hist' \in [Turn -> Seq(Message)]
    BY <1>2, <1>3, <1>4 DEF LoopInv, LoopTypes, Phases
  <2>5. saved' \in [Turn -> Seq(Message)]
    BY <1>2, <1>5 DEF LoopInv, LoopTypes
  <2> QED
    BY <1>3, <2>1, <2>2, <2>3, <2>4, <2>5 DEF LoopInv, LoopTypes
<1>10. InProtocol(t)'
  BY <1>2, <1>3, <1>6, <1>7 DEF InProtocol
<1> QED
  BY <1>3, <1>8, <1>9, <1>10, AloneOutside, TurnKeeps

-----------------------------------------------------------------------------
LEMMA LoopInit == TurnsInit => LoopInv
<1> SUFFICES ASSUME TurnsInit
             PROVE  LoopInv
  OBVIOUS
<1>1. LoopTypes
  <2>1. /\ \A t \in Turn : batch[t] = <<>> /\ job[t] = <<>>
        /\ \A t \in DOMAIN Child : t \in Turn
    BY TurnsAssumption DEF TurnsInit
  <2>2. \A t \in DOMAIN Child : OneAgent(batch[t])
    BY <2>1 DEF OneAgent
  <2> QED
    BY <2>1, <2>2 DEF TurnsInit, LoopTypes, Phases
<1>2. \A t \in Turn : InProtocol(t) /\ Delegating(t)
  BY Families DEF TurnsInit, InProtocol, Delegating
<1>3. \A r \in Streams : Awaited(r)
  BY DEF TurnsInit, Awaited, Pending
<1> QED
  BY <1>1, <1>2, <1>3 DEF LoopInv

LEMMA LoopStep == LoopInv /\ [TurnsNext]_loopVars => LoopInv'
<1> SUFFICES ASSUME LoopInv, [TurnsNext]_loopVars
             PROVE  LoopInv'
  OBVIOUS
<1>1. ASSUME NEW t \in Turn, TurnStep(t)
      PROVE  LoopInv'
  <2>1. CASE Issue(t)
    BY <2>1, IssueKeeps
  <2>2. CASE EndRounds(t)
    BY <2>2, EndRoundsKeeps
  <2>3. CASE CloseTurn(t)
    BY <2>3, CloseTurnKeeps
  <2>4. CASE Check(t)
    BY <2>4, ChecksKeep
  <2>5. CASE Dispatch(t)
    BY <2>5, DispatchKeeps
  <2>6. CASE SettleBatch(t)
    BY <2>6, SettleKeeps
  <2>7. CASE ApprovalTimesOut(t)
    BY <2>7, ChecksKeep DEF ApprovalTimesOut
  <2>8. CASE Resume(t)
    BY <2>8, ResumeKeeps
  <2>9. CASE CancelBatch(t)
    BY <2>9, CutKeeps
  <2>10. CASE UnwindTurn(t) \/ SendCompleted(t)
    BY <2>10, UnwindKeeps
  <2>12. CASE EndUnwind(t)
    BY <2>12, EndUnwindKeeps
  <2>11. CASE \E i \in DOMAIN job[t] : Return(t, i) \/ ReturnAgent(t, i) \/ Park(t, i)
    BY <2>11, ReturnKeeps, ReturnAgentKeeps, ParkKeeps
  <2> QED
    BY <1>1, <2>1, <2>2, <2>3, <2>4, <2>5, <2>6, <2>7, <2>8, <2>9, <2>10, <2>11, <2>12
    DEF TurnStep
<1>2. ASSUME NEW t \in Turn, Starts(t) \/ Approve(t) \/ Deny(t)
      PROVE  LoopInv'
  BY <1>2, TakeKeeps, ChecksKeep DEF Starts
<1>3. ASSUME NEW r \in Streams, Begin(r) \/ Clock(r) \/ StopTurn(r)
      PROVE  LoopInv'
  BY <1>3, BeginKeeps, UserKeeps, StopTurnKeeps DEF Clock
<1>4. ASSUME NEW r \in Streams, AnswerQuestion(r) \/ CancelQuestion(r) \/ StopTimer(r)
      PROVE  LoopInv'
  BY <1>4, UserKeeps
<1>5. CASE UNCHANGED loopVars
  <2>1. UNCHANGED <<phase, batch, job, hist, saved, question, interrupted>>
    BY <1>5 DEF loopVars
  <2> QED
    BY <2>1, QuestionKeeps DEF LoopInv, LoopTypes, Pending
<1> QED
  BY <1>1, <1>2, <1>3, <1>4, <1>5 DEF TurnsNext

\* What a step may do to the question of a stream, for as long as it is pending.
WordKept ==
    \A r \in Streams : Pending(r) /\ question'[r] # NoQuestion =>
        LET old == question[r]  new == question'[r]
        IN  /\ old.future # "open" => new.future = old.future
            /\ ~old.timer => ~new.timer /\ (new.future = "auto" => old.future = "auto")

LEMMA Unasked ==
    ASSUME \A r \in Streams : \/ question'[r] = question[r]
                              \/ question'[r] = NoQuestion
                              \/ ~Pending(r)
    PROVE  WordKept
BY DEF WordKept

\* What is done to an open question keeps to the word given on it.
LEMMA ToldOnce ==
    ASSUME LoopInv, NEW r \in Streams, Open(r), NEW q,
           question' = [question EXCEPT ![r] = q],
           ~question[r].timer => ~q.timer /\ q.future # "auto"
    PROVE  WordKept
<1> SUFFICES ASSUME NEW s \in Streams, Pending(s), question'[s] # NoQuestion
             PROVE  /\ question[s].future # "open" => question'[s].future = question[s].future
                    /\ ~question[s].timer =>
                         /\ ~question'[s].timer
                         /\ question'[s].future = "auto" => question[s].future = "auto"
  BY DEF WordKept
<1>1. CASE s = r
  BY <1>1 DEF Open, LoopInv, LoopTypes
<1>2. CASE s # r
  BY <1>2 DEF LoopInv, LoopTypes
<1> QED
  BY <1>1, <1>2

LEMMA UserKeepsWord ==
    ASSUME LoopInv, NEW r \in Streams,
           \/ AnswerQuestion(r) \/ CancelQuestion(r) \/ StopTimer(r)
           \/ Expire(r) \/ AutoSubmit(r) \/ StopTurn(r)
    PROVE  WordKept
<1>1. Open(r) => question[r] \in Questions
  BY AskingTurn DEF Open
<1>2. ASSUME Open(r), NEW how \in {"answer", "cancelled", "auto"}, Resolve(r, how),
             how = "auto" => question[r].timer
      PROVE  WordKept
  <2>1. PICK q : q = [question[r] EXCEPT !.future = how]
    OBVIOUS
  <2>2. question' = [question EXCEPT ![r] = q]
    BY <1>2, <2>1 DEF Resolve
  <2>3. q.timer = question[r].timer /\ q.future = how
    BY <1>1, <1>2, <2>1 DEF Questions
  <2>4. ~question[r].timer => ~q.timer /\ q.future # "auto"
    BY <1>2, <2>3
  <2> QED
    BY <1>2, <2>2, <2>4, ToldOnce
<1>3. CASE StopTimer(r)
  <2>1. PICK q : q = [question[r] EXCEPT !.timer = FALSE]
    OBVIOUS
  <2>2. question' = [question EXCEPT ![r] = q] /\ question[r].timer /\ Open(r)
    BY <1>3, <2>1 DEF StopTimer
  <2> QED
    BY <2>2, ToldOnce
<1>4. CASE Expire(r)
  <2>1. PICK q : q = [question[r] EXCEPT !.due = TRUE]
    OBVIOUS
  <2>2. question' = [question EXCEPT ![r] = q] /\ question[r].timer /\ Open(r)
    BY <1>4, <2>1 DEF Expire
  <2> QED
    BY <2>2, ToldOnce
<1>5. CASE StopTurn(r) /\ ~Open(r)
  BY <1>5, Unasked DEF StopTurn
<1> QED
  BY <1>2, <1>3, <1>4, <1>5 DEF AnswerQuestion, CancelQuestion, AutoSubmit, StopTurn

LEMMA StepKeepsWord ==
    ASSUME LoopInv, NEW t \in Turn, TurnStep(t) \/ Starts(t) \/ Approve(t) \/ Deny(t)
    PROVE  WordKept
<1>1. ASSUME NEW i, Park(t, i)
      PROVE  WordKept
  <2>1. CASE Pending(StreamOf(t))
    BY <1>1, <2>1, Unasked DEF Park
  <2>2. CASE ~Pending(StreamOf(t))
    <3>1. \A r \in Streams : r # StreamOf(t) => question'[r] = question[r]
      BY <1>1, <2>2 DEF Park, LoopInv, LoopTypes
    <3> QED
      BY <2>2, <3>1, Unasked
  <2> QED
    BY <2>1, <2>2
<1>2. CASE Resume(t) \/ UnwindTurn(t) \/ SendCompleted(t)
  <2>1. question' = ForgetQuestion(t, question)
    BY <1>2 DEF Resume, UnwindTurn, SendCompleted
  <2> QED
    BY <2>1, QuestionForgotten, Unasked
<1>3. CASE UNCHANGED question
  BY <1>3, Unasked
<1> QED
  BY <1>1, <1>2, <1>3 DEF TurnStep, Starts, Approve, Deny, Issue, EndRounds, CloseTurn, Check,
     Dispatch, SettleBatch, ApprovalTimesOut, CancelBatch, Return, ReturnAgent, Take, EndUnwind

LEMMA WordStep == LoopInv /\ [TurnsNext]_loopVars => [WordKept]_loopVars
<1> SUFFICES ASSUME LoopInv, TurnsNext
             PROVE  WordKept
  OBVIOUS
<1>1. ASSUME NEW r \in Streams, Begin(r)
      PROVE  WordKept
  BY <1>1, Unasked DEF Begin
<1> QED
  BY <1>1, StepKeepsWord, UserKeepsWord DEF TurnsNext, Clock

\* The parts of the histories: what the model is asked with, and what is left
\* behind, answers every call, except in a turn that was stopped while it sent
\* the results of a cancelled batch (agents/base.py, call_tools; sessions/base.py).
THEOREM ProtocolIsClosed == TurnsSpec => []ProtocolClosed
<1>1. LoopInv => ProtocolClosed
  BY DEF LoopInv, InProtocol, ProtocolClosed
<1> QED
  BY <1>1, LoopInit, LoopStep, PTL DEF TurnsSpec

\* A question lives exactly as long as the call that waits for its answer, and
\* what the user said of it holds (questions/broker.py).
THEOREM QuestionsAreHeld == TurnsSpec => QuestionsHold
<1>1. LoopInv => QuestionsWaited
  BY DEF LoopInv, Awaited, QuestionsWaited
<1>2. [WordKept]_loopVars =>
        [\A r \in Streams : Pending(r) /\ question'[r] # NoQuestion =>
           LET old == question[r]  new == question'[r]
           IN  /\ old.future # "open" => new.future = old.future
               /\ ~old.timer => ~new.timer /\ (new.future = "auto" => old.future = "auto")]_loopVars
  BY DEF WordKept
<1> QED
  BY <1>1, <1>2, LoopInit, LoopStep, WordStep, PTL DEF TurnsSpec, QuestionsHold, UsersWord
=============================================================================
