---------------------------- MODULE ChatSessions ----------------------------
(***************************************************************************)
(* A user's sessions as the WebSocket endpoint, the session routes and the *)
(* agent routes create, use, clear and delete them.  A session is two rows  *)
(* no transaction spans: the Session with its history and the binding that  *)
(* says whose it is (session_ownership.py).  A creation that fails or is    *)
(* cancelled takes both back.  Every connection keeps the Session it used   *)
(* last in memory; other connections change the stored one.                 *)
(*                                                                         *)
(* One user and one agent: the binding is only asked whether it is there.   *)
(* Documents are in SessionDocuments, what a turn does in SessionTurns.     *)
(***************************************************************************)
EXTENDS Naturals, FiniteSets

CONSTANTS
    Clients,        \* connections and requests; each does one thing at a time
    Ids,            \* bound: sessions that are ever created
    NoId,
    MaxUses,        \* bound: turns
    MaxAge,         \* bound: clears and deletions of one session
    MaxFaults       \* bound: failed calls, cancelled requests, deaths

ASSUME RowsAssumption ==
    /\ NoId \notin Ids
    /\ MaxUses \in Nat /\ MaxAge \in Nat /\ MaxFaults \in Nat

VARIABLES
    rows,           \* stored Session rows
    chat,           \* chat[i]: the turns the stored history holds
    binding,        \* binding[i]: the binding's state, or "none"
    age,            \* age[i]: its generation
    op,             \* op[c]: what a client does, to which session, how far
    loaded,         \* loaded[c]: the history of the session a connection has loaded
    cur,            \* cur[c]: that session
    uses,           \* turns begun so far
    owed,           \* owed[i]: turns that ended, saved, and had the session to themselves
    shared,         \* clients whose turn did not
    revived,        \* sessions whose deletion a late save followed
    lost,           \* sessions a dead process was creating
    faults

rowVars ==
    <<rows, chat, binding, age, op, loaded, cur, uses, owed, shared, revived, lost, faults>>

Resting == [pc |-> "idle", id |-> NoId, todo |-> {}, gen |-> 0, turn |-> 0, resumed |-> FALSE]

BindingStates == {"none", "active", "clearing", "deleting"}
Stages == {"idle", "check", "fetch", "create", "claim", "undo", "undo rest", "load", "run",
           "save", "empty", "clean", "drop", "finish"}

RowsTypeOK ==
    /\ rows \subseteq Ids /\ revived \subseteq Ids /\ lost \subseteq Ids
    /\ chat \in [Ids -> SUBSET (1..MaxUses)] /\ owed \in [Ids -> SUBSET (1..MaxUses)]
    /\ binding \in [Ids -> BindingStates] /\ age \in [Ids -> 0..MaxAge]
    /\ \A c \in Clients : op[c].pc \in Stages /\ op[c].id \in Ids \cup {NoId}
    /\ shared \subseteq Clients /\ uses <= MaxUses /\ faults <= MaxFaults

RowsInit ==
    /\ rows = {} /\ chat = [i \in Ids |-> {}] /\ binding = [i \in Ids |-> "none"]
    /\ age = [i \in Ids |-> 0]
    /\ op = [c \in Clients |-> Resting]
    /\ loaded = [c \in Clients |-> {}] /\ cur = [c \in Clients |-> NoId]
    /\ uses = 0 /\ owed = [i \in Ids |-> {}] /\ shared = {}
    /\ revived = {} /\ lost = {} /\ faults = 0

-----------------------------------------------------------------------------
At(c, pc) == op[c].pc = pc
Goto(c, pc) == op' = [op EXCEPT ![c].pc = pc]
End(c) == op' = [op EXCEPT ![c] = Resting]
Trouble == faults < MaxFaults /\ faults' = faults + 1

Turning(c) == op[c].pc \in {"load", "run", "save"}
Changing(c) == op[c].pc \in {"empty", "clean", "drop", "finish"}
Others(c, i) == {d \in Clients \ {c} : op[d].id = i /\ (Turning(d) \/ Changing(d))}

\* Whoever works on a session another one works on does not have it to himself.
Meet(c, i) ==
    shared' = IF Others(c, i) = {} THEN shared \ {c} ELSE shared \cup Others(c, i) \cup {c}

Stored == <<rows, chat, binding, age>>
InMemory == <<loaded, cur>>
Ghosts == <<owed, shared, revived, lost>>

-----------------------------------------------------------------------------
(* A session to talk in: get_or_create_owned_session, load_session.        *)

Open(c) ==
    /\ At(c, "idle")
    /\ op' = [op EXCEPT ![c] = [Resting EXCEPT !.pc = "check",
                                            !.todo = {i \in Ids : binding[i] = "active"}]]
    /\ UNCHANGED <<Stored, InMemory, uses, Ghosts, faults>>

\* The bindings were listed first; each is looked at again.
CheckBinding(c) ==
    /\ At(c, "check")
    /\ IF op[c].todo = {} THEN Goto(c, "create")
       ELSE \E i \in op[c].todo :
              op' = [op EXCEPT ![c].todo = @ \ {i}, ![c].id = i,
                               ![c].pc = IF binding[i] = "active" THEN "fetch" ELSE "check"]
    /\ UNCHANGED <<Stored, InMemory, uses, Ghosts, faults>>

FetchRow(c) ==
    /\ At(c, "fetch")
    /\ LET i == op[c].id IN
       IF i \in rows THEN /\ End(c) /\ cur' = [cur EXCEPT ![c] = i]
                          /\ loaded' = [loaded EXCEPT ![c] = chat[i]]
                     ELSE Goto(c, "check") /\ UNCHANGED InMemory
    /\ UNCHANGED <<Stored, uses, Ghosts, faults>>

\* POST /sessions always creates.
New(c) ==
    /\ At(c, "idle") /\ Goto(c, "create")
    /\ UNCHANGED <<Stored, InMemory, uses, Ghosts, faults>>

Unused(i) == i \notin rows \cup revived \cup lost /\ binding[i] = "none" /\ age[i] = 0
            /\ \A c \in Clients : op[c].id # i

\* The save is settled before a cancellation is heard.
CreateRow(c) ==
    /\ At(c, "create")
    /\ \/ \E i \in {j \in Ids : Unused(j)} :
            /\ rows' = rows \cup {i}
            /\ \/ op' = [op EXCEPT ![c].pc = "claim", ![c].id = i] /\ UNCHANGED faults
               \/ op' = [op EXCEPT ![c].pc = "undo", ![c].id = i] /\ Trouble
       \/ ~(\E i \in Ids : Unused(i)) /\ End(c) /\ UNCHANGED <<rows, faults>>    \* bound
    /\ UNCHANGED <<chat, binding, age, InMemory, uses, Ghosts>>

\* claim_new: the binding is inserted, read back, and the session returned.
Claim(c) ==
    /\ At(c, "claim")
    /\ LET i == op[c].id IN
       \/ /\ binding' = [binding EXCEPT ![i] = "active"] /\ End(c) /\ UNCHANGED faults
          /\ cur' = [cur EXCEPT ![c] = i] /\ loaded' = [loaded EXCEPT ![c] = {}]
       \/ /\ Trouble /\ Goto(c, "undo") /\ UNCHANGED InMemory
          /\ binding' \in {binding, [binding EXCEPT ![i] = "active"]}
    /\ UNCHANGED <<rows, chat, age, uses, Ghosts>>

\* Mutant: the binding is taken back before the row.
BindingFirst == <<"binding", "row">>

\* compensate: half of it leaves a binding without a row, never the other way.
CompensationOrder == <<"row", "binding">>

\* Either half may fail, and the other is then not tried; discard_fresh_claim
\* leaves a binding somebody has begun to use.
Compensate(c) ==
    /\ op[c].pc \in {"undo", "undo rest"}
    /\ LET i == op[c].id
           half == CompensationOrder[IF At(c, "undo") THEN 1 ELSE 2]
       IN \/ /\ rows' = IF half = "row" THEN rows \ {i} ELSE rows
             /\ binding' = IF half = "binding" /\ binding[i] = "active" /\ age[i] = 0
                       THEN [binding EXCEPT ![i] = "none"] ELSE binding
             /\ IF At(c, "undo") THEN Goto(c, "undo rest") ELSE End(c)
             /\ UNCHANGED <<lost, faults>>
          \/ /\ Trouble /\ End(c) /\ UNCHANGED <<rows, binding>>
             /\ lost' = IF binding[i] = "none" THEN lost \cup ({i} \cap rows) ELSE lost
    /\ UNCHANGED <<chat, age, InMemory, uses, owed, shared, revived>>

-----------------------------------------------------------------------------
(* Turns.                                                                  *)

\* chat_history get and sessions get: another of the user's sessions.
Select(c, i) ==
    /\ At(c, "idle") /\ binding[i] = "active" /\ i \in rows
    /\ cur' = [cur EXCEPT ![c] = i] /\ loaded' = [loaded EXCEPT ![c] = chat[i]]
    /\ UNCHANGED <<Stored, op, uses, Ghosts, faults>>

\* _authorize_turn asks for the binding first ...
BeginTurn(c) ==
    /\ At(c, "idle") /\ uses < MaxUses
    /\ cur[c] # NoId /\ binding[cur[c]] = "active"
    /\ uses' = uses + 1
    /\ op' = [op EXCEPT ![c] = [Resting EXCEPT !.pc = "load", !.id = cur[c], !.turn = uses + 1]]
    /\ Meet(c, cur[c])
    /\ UNCHANGED <<Stored, InMemory, owed, revived, lost, faults>>

\* Mutant: the turn starts from the history the connection has in memory.
AsLoaded(c) == UNCHANGED loaded

\* ... and the stored row is the one the turn works on.
Reload(c) == loaded' = [loaded EXCEPT ![c] = chat[op[c].id]]

LoadTurn(c) ==
    /\ At(c, "load")
    /\ IF op[c].id \in rows THEN Reload(c) /\ Goto(c, "run") ELSE End(c) /\ UNCHANGED loaded
    /\ UNCHANGED <<Stored, cur, uses, Ghosts, faults>>

\* The helper prompts (generate) empty the history in memory and do not save it.
Helper(c) ==
    /\ At(c, "idle") /\ cur[c] \in rows /\ binding[cur[c]] = "active"
    /\ loaded' = [loaded EXCEPT ![c] = {}]
    /\ UNCHANGED <<Stored, op, cur, uses, Ghosts, faults>>

\* It ends, times out or loses its reader: all three save (generate,
\* _stream_generate), and a failed save is only logged.
Exchange(c) ==
    /\ At(c, "run")
    /\ loaded' = [loaded EXCEPT ![c] = @ \cup {op[c].turn}]
    /\ Goto(c, "save")
    /\ UNCHANGED <<Stored, cur, uses, Ghosts, faults>>

\* The whole row is written.  One that was deleted may be inserted again.
SaveTurn(c) ==
    /\ At(c, "save") /\ End(c)
    /\ LET i == op[c].id IN
       \/ /\ i \in rows \/ binding[i] # "active"
          /\ rows' = rows \cup {i} /\ chat' = [chat EXCEPT ![i] = loaded[c]]
          /\ revived' = IF i \in rows THEN revived ELSE revived \cup {i}
          /\ owed' = IF c \in shared THEN owed ELSE [owed EXCEPT ![i] = @ \cup {op[c].turn}]
          /\ UNCHANGED faults
       \/ i \notin rows /\ UNCHANGED <<rows, chat, revived, owed, faults>>
       \/ Trouble /\ UNCHANGED <<rows, chat, revived, owed>>
    /\ UNCHANGED <<binding, age, InMemory, uses, shared, lost>>

-----------------------------------------------------------------------------
(* Clear and delete: _begin_lifecycle, _clear_owned_session,               *)
(* _delete_owned_session, and the same over HTTP.                          *)

During == [clear |-> "clearing", delete |-> "deleting"]
FirstOf == [clear |-> "empty", delete |-> "clean"]

BeginChange(c, i, what) ==
    /\ At(c, "idle")
    /\ \/ /\ binding[i] = "active" /\ i \in rows /\ age[i] < MaxAge
          /\ binding' = [binding EXCEPT ![i] = During[what]] /\ age' = [age EXCEPT ![i] = @ + 1]
       \/ binding[i] = During[what] /\ (what = "clear" => i \in rows) /\ UNCHANGED <<binding, age>>
    /\ op' = [op EXCEPT ![c] = [Resting EXCEPT !.pc = FirstOf[what], !.id = i, !.gen = age'[i],
                                            !.resumed = (binding[i] # "active")]]
    /\ Meet(c, i)
    /\ UNCHANGED <<rows, chat, InMemory, uses, owed, revived, lost, faults>>

\* The row as it was read, with an empty history.
Empty(c) ==
    /\ At(c, "empty") /\ Goto(c, "clean")
    /\ LET i == op[c].id IN
       /\ rows' \in {rows, rows \cup {i}}
       /\ revived' = revived \cup (rows' \ rows)
       /\ chat' = [chat EXCEPT ![i] = {}] /\ owed' = [owed EXCEPT ![i] = {}]
    /\ UNCHANGED <<binding, age, InMemory, uses, shared, lost, faults>>

Held(c) == age[op[c].id] = op[c].gen

\* delete_owned_session_artifacts checks the generation, then deletes.
Clean(c) ==
    /\ At(c, "clean")
    /\ IF Held(c) /\ binding[op[c].id] \in {"clearing", "deleting"}
       THEN Goto(c, IF binding[op[c].id] = "clearing" THEN "finish" ELSE "drop")
       ELSE End(c)
    /\ UNCHANGED <<Stored, InMemory, uses, Ghosts, faults>>

DropRow(c) ==
    /\ At(c, "drop")
    /\ LET i == op[c].id IN
       /\ IF i \in rows \/ op[c].resumed THEN Goto(c, "finish") ELSE End(c)
       /\ rows' = rows \ {i} /\ chat' = [chat EXCEPT ![i] = {}]
       /\ owed' = [owed EXCEPT ![i] = {}]
    /\ UNCHANGED <<binding, age, InMemory, uses, shared, revived, lost, faults>>

\* The token must still name the binding (finish_clear, finish_delete).
FinishChange(c) ==
    /\ At(c, "finish") /\ End(c)
    /\ LET i == op[c].id IN
       binding' = [binding EXCEPT ![i] = IF ~Held(c) THEN @ ELSE IF @ = "clearing" THEN "active"
                                 ELSE IF @ = "deleting" THEN "none" ELSE @]
    /\ UNCHANGED <<rows, chat, age, InMemory, uses, Ghosts, faults>>

\* A failed clear or deletion stays begun, for a request that resumes it.
Abort(c) ==
    /\ Changing(c) /\ Trouble /\ End(c)
    /\ UNCHANGED <<Stored, InMemory, uses, Ghosts>>

\* The process dies: the rows stay as they are.
Die ==
    /\ Trouble /\ \E c \in Clients : ~At(c, "idle")
    /\ op' = [c \in Clients |-> Resting]
    /\ loaded' = [c \in Clients |-> {}] /\ cur' = [c \in Clients |-> NoId]
    /\ lost' = lost \cup {i \in rows : binding[i] = "none"}
    /\ UNCHANGED <<Stored, uses, owed, shared, revived>>

Use(c) ==
    \/ Open(c) \/ CheckBinding(c) \/ FetchRow(c) \/ New(c) \/ CreateRow(c) \/ Claim(c)
    \/ Compensate(c)
    \/ BeginTurn(c) \/ LoadTurn(c) \/ Helper(c) \/ Exchange(c) \/ SaveTurn(c)
    \/ Empty(c) \/ Clean(c) \/ DropRow(c) \/ FinishChange(c) \/ Abort(c)
    \/ \E i \in Ids : Select(c, i) \/ BeginChange(c, i, "clear") \/ BeginChange(c, i, "delete")

RowsNext == (\E c \in Clients : Use(c)) \/ Die

RowsSpec == RowsInit /\ [][RowsNext]_rowVars

-----------------------------------------------------------------------------
\* A Session row always has a binding, so that whoever may read it is known:
\* creation, its compensation and deletion fail closed.  Left over are the row
\* of a creation under way, of one whose process died or whose row could not be
\* taken back, and a row a late save wrote over a finished deletion.
RowsAreOwned ==
    \A i \in rows \ (revived \cup lost) :
        binding[i] # "none" \/ \E c \in Clients : op[c].id = i /\ op[c].pc \in {"claim", "undo"}

\* What a turn added stays until the history is cleared, on whatever connection
\* the next turns run and whatever they had in memory, if no other turn, clear
\* or deletion of the session overlapped it (_authorize_turn).
TurnsKept == \A i \in Ids : i \in rows \ revived => owed[i] \subseteq chat[i]

\* Sessions and their bindings agree through failures, and a turn keeps what
\* the earlier ones said (utils/ws.py, session_ownership.py).
SessionsKept == RowsAreOwned /\ TurnsKept

=============================================================================
