--------------------------- MODULE McpConnections ---------------------------
(***************************************************************************)
(* The connections to MCP servers one process holds (mcp/client.py) and    *)
(* the tools that open, use and close them (mcp/manager.py, mcp/api.py).   *)
(* A batch of tool calls runs them at the same time, nothing locks, and    *)
(* every call on a server awaits: the stack that can close a connection is *)
(* registered before the connection is open, the session after it.         *)
(*                                                                         *)
(* The three transports differ in how a connection is opened; what they    *)
(* register, and what they undo, is the same.                              *)
(***************************************************************************)
EXTENDS Naturals

CONSTANTS
    Users,          \* tool calls, each does one thing at a time
    Servers,
    MaxConnections, \* bound: connections that are ever opened
    MaxFaults       \* bound: failures, timeouts, stops, restarts, deaths, tests

VARIABLES
    configured,     \* servers in the configuration, and enabled
    stacks,         \* stacks[s]: the connection the exit stack of s closes, or 0
    sessions,       \* sessions[s]: the connection calls to s use, or 0
    open,           \* connections with a live transport
    status,         \* servers the status file calls connected
    use,            \* use[u]: what a call does, to which server, which connection
    made,           \* connections so far
    crossed,        \* connections that met another change of their server, or a failed close
    doubtful,       \* servers with such a connection, or before the first call of a process
    broken,         \* history: connections whose server or transport died on its own
    tested,         \* history: servers whose status a connection test has written
    mfaults

bad == <<crossed, doubtful, broken, tested>>
cvars == <<configured, stacks, sessions, open, status, use, made, bad, mfaults>>

Resting == [pc |-> "idle", on |-> "none", conn |-> 0]

LinksTypeOK ==
    /\ configured \subseteq Servers /\ status \subseteq Servers /\ doubtful \subseteq Servers
    /\ {stacks, sessions} \subseteq [Servers -> 0..MaxConnections]
    /\ open \cup crossed \cup broken \subseteq 1..made /\ made <= MaxConnections
    /\ tested \subseteq Servers
    /\ \A u \in Users : use[u].pc \in {"idle", "opening", "handshake", "undo", "close", "call"}

LinksInit ==
    /\ configured = Servers /\ status = {}
    /\ stacks = [s \in Servers |-> 0] /\ sessions = [s \in Servers |-> 0]
    /\ open = {} /\ made = 0 /\ mfaults = 0
    /\ crossed = {} /\ doubtful = {} /\ broken = {} /\ tested = {}
    /\ use = [u \in Users |-> Resting]

-----------------------------------------------------------------------------
At(u, pc) == use[u].pc = pc
Leave(u) == use' = [use EXCEPT ![u] = Resting]
Trouble == mfaults < MaxFaults /\ mfaults' = mfaults + 1
Fine == UNCHANGED mfaults

\* Connections of s that are being opened or closed, and the one registered.
Changing(s) == {use[v].conn : v \in {w \in Users : use[w].on = s /\ ~At(w, "call")}}
Registered(s) == ({stacks[s], sessions[s]} \cup Changing(s)) \ {0}

\* A change that meets another one spoils both.
Meet(s, conns, alone) ==
    IF alone THEN UNCHANGED <<crossed, doubtful>>
    ELSE crossed' = crossed \cup Registered(s) \cup conns /\ doubtful' = doubtful \cup {s}

\* connect_to_server: a session that is there is the answer.
Connect(u, s) ==
    /\ At(u, "idle") /\ s \in configured
    /\ IF sessions[s] # 0
       THEN status' = status \cup {s} /\ UNCHANGED <<stacks, use, made, crossed, doubtful>>
       ELSE /\ made < MaxConnections /\ made' = made + 1
            /\ use' = [use EXCEPT ![u] = [pc |-> "opening", on |-> s, conn |-> made + 1]]
            /\ stacks' = [stacks EXCEPT ![s] = made + 1]
            /\ Meet(s, {made + 1}, stacks[s] = 0 /\ Changing(s) = {})
            /\ UNCHANGED status
    /\ UNCHANGED <<configured, sessions, open, broken, tested>> /\ Fine

\* stdio_client, sse_client, streamablehttp_client.
Transport(u) ==
    /\ At(u, "opening") /\ use' = [use EXCEPT ![u].pc = "handshake"]
    /\ open' = open \cup {use[u].conn}
    /\ UNCHANGED <<configured, stacks, sessions, status, made, bad>> /\ Fine

\* The session is registered when the server has answered.
Handshake(u) ==
    /\ At(u, "handshake") /\ use[u].conn \in open /\ Leave(u)
    /\ sessions' = [sessions EXCEPT ![use[u].on] = use[u].conn]
    /\ status' = status \cup {use[u].on}
    /\ UNCHANGED <<configured, stacks, open, made, bad>> /\ Fine

\* Mutant: a failed connection leaves its stack to the next one.
Forget(u) == Leave(u) /\ status' = status \ {use[u].on}

\* The stack that is registered now is closed, whoever registered it.
Unwind(u) ==
    IF stacks[use[u].on] = 0 THEN Leave(u) /\ status' = status \ {use[u].on}
    ELSE /\ use' = [use EXCEPT ![u].pc = "undo", ![u].conn = stacks[use[u].on]]
         /\ UNCHANGED status

\* Refused, broken, or slower than DEFAULT_MCP_TIMEOUT.
FailConnect(u) ==
    /\ use[u].pc \in {"opening", "handshake"}
    /\ IF At(u, "handshake") /\ use[u].conn \notin open THEN Fine ELSE Trouble
    /\ Unwind(u)
    /\ UNCHANGED <<configured, stacks, sessions, open, made, bad>>

\* The stack is closed and removed; a second removal raises, and is caught.
Undone(u) ==
    /\ At(u, "undo") /\ Leave(u)
    /\ open' = open \ {use[u].conn}
    /\ stacks' = [stacks EXCEPT ![use[u].on] = 0]
    /\ status' = status \ {use[u].on}
    /\ UNCHANGED <<configured, sessions, made, bad>> /\ Fine

\* The turn is stopped: the stack stays, with what was opened.
StopTool(u) ==
    /\ use[u].pc \in {"opening", "handshake", "call"} /\ Trouble /\ Leave(u)
    /\ UNCHANGED <<configured, stacks, sessions, open, status, made, bad>>

-----------------------------------------------------------------------------
\* disconnect_from_server, alone or from mcp_remove_server, which forgets the
\* server whether or not it could be closed.
DisconnectServer(u, s, remove) ==
    /\ At(u, "idle") /\ remove \in BOOLEAN
    /\ IF stacks[s] # 0 /\ (remove => sessions[s] # 0)
       THEN /\ use' = [use EXCEPT ![u] = [pc |-> "close", on |-> s, conn |-> stacks[s]]]
            /\ UNCHANGED <<sessions, status>>
            /\ Meet(s, {}, Changing(s) = {})
       ELSE /\ (sessions[s] # 0 \/ ~remove)
            /\ sessions' = [sessions EXCEPT ![s] = 0] /\ status' = status \ {s} /\ UNCHANGED use
            /\ Meet(s, {}, Changing(s) = {})
    /\ configured' = IF remove THEN configured \ {s} ELSE configured
    /\ UNCHANGED <<stacks, open, made, broken, tested>> /\ Fine

\* Mutant: the session outlives its connection.
KeepSession(s) == UNCHANGED sessions

DropSession(s) == sessions' = [sessions EXCEPT ![s] = 0]

\* With the stack gone already the removal raises: the session stays.
Disconnected(u) ==
    /\ At(u, "close") /\ Leave(u)
    /\ LET s == use[u].on IN
       /\ open' = open \ {use[u].conn}
       /\ IF stacks[s] = 0
          THEN UNCHANGED <<sessions, status, stacks>>
          ELSE stacks' = [stacks EXCEPT ![s] = 0] /\ DropSession(s) /\ status' = status \ {s}
    /\ UNCHANGED <<configured, made, bad>> /\ Fine

\* aclose raises: everything stays registered, closed or not.
FailClose(u) ==
    /\ use[u].pc \in {"undo", "close"} /\ Trouble /\ Leave(u)
    /\ open' \in {open, open \ {use[u].conn}}
    /\ crossed' = crossed \cup {use[u].conn} /\ doubtful' = doubtful \cup {use[u].on}
    /\ status' = IF At(u, "undo") THEN status \ {use[u].on} ELSE status
    /\ UNCHANGED <<configured, stacks, sessions, made, broken, tested>>

Add(u, s) ==
    /\ At(u, "idle") /\ configured' = configured \cup {s}
    /\ UNCHANGED <<stacks, sessions, open, status, use, made, bad>> /\ Fine

\* call_tool, list_tools: the session is looked up, then awaited.
Call(u, s) ==
    /\ At(u, "idle") /\ sessions[s] # 0
    /\ use' = [use EXCEPT ![u] = [pc |-> "call", on |-> s, conn |-> sessions[s]]]
    /\ UNCHANGED <<configured, stacks, sessions, open, status, made, bad>> /\ Fine

\* An answer, an error or the timeout; the connection stays as it is.
Answered(u) ==
    /\ At(u, "call") /\ Leave(u)
    /\ UNCHANGED <<configured, stacks, sessions, open, status, made, bad>> /\ Fine

\* A server exits or a transport breaks: nobody is told, everything stays
\* registered, and connect_to_server goes on to answer "Already connected".
Break(c) ==
    /\ Trouble /\ open' = open \ {c} /\ broken' = broken \cup {c}
    /\ UNCHANGED <<configured, stacks, sessions, status, use, made, crossed, doubtful, tested>>

\* test_connection: a client of its own connects and disconnects, or fails to;
\* the status file is shared.
TestConnection(s) ==
    /\ Trouble /\ s \in configured
    /\ status' \in {status \cup {s}, status \ {s}} /\ tested' = tested \cup {s}
    /\ UNCHANGED <<configured, stacks, sessions, open, use, made, crossed, doubtful, broken>>

\* The process starts again, with the configuration and the status file.
Restart ==
    /\ Trouble /\ made > 0
    /\ use' = [u \in Users |-> Resting]
    /\ stacks' = [s \in Servers |-> 0] /\ sessions' = [s \in Servers |-> 0] /\ open' = {}
    /\ doubtful' = status
    /\ UNCHANGED <<configured, status, made, crossed, broken, tested>>

Tool(u) ==
    \/ Transport(u) \/ Handshake(u) \/ FailConnect(u) \/ Undone(u) \/ StopTool(u)
    \/ Disconnected(u) \/ FailClose(u) \/ Answered(u)
    \/ \E s \in Servers : \/ Connect(u, s) \/ Add(u, s) \/ Call(u, s)
                          \/ DisconnectServer(u, s, TRUE) \/ DisconnectServer(u, s, FALSE)

LinksNext ==
    \/ \E u \in Users : Tool(u)
    \/ \E c \in open : Break(c)
    \/ \E s \in Servers : TestConnection(s)
    \/ Restart

LinksSpec == LinksInit /\ [][LinksNext]_cvars

-----------------------------------------------------------------------------
\* A call finds a live connection under the session, or one that died without
\* anybody's doing; every live connection can still be closed; and the status file
\* agrees unless a test wrote it: as long as no connect or disconnect met another
\* one of the server or what a stopped connect left, and no close failed
\* (mcp/client.py, mcp/status.py).
ConnectionsHeld ==
    /\ \A s \in Servers \ doubtful :
          /\ sessions[s] # 0 => sessions[s] \in open \cup broken /\ sessions[s] = stacks[s]
          /\ s \notin tested => (s \in status <=> sessions[s] # 0)
    /\ open \ crossed \subseteq {stacks[s] : s \in Servers}

=============================================================================
