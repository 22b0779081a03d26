------------------------------ MODULE TcpServer ------------------------------
(***************************************************************************)
(* The Server of src/src/net/tcp.ts: a listening socket, the map of the    *)
(* connections it has accepted and the limit on them, and its shutdown.    *)
(* Of a Connection this keeps what TcpConnection shows: it is open, told   *)
(* to close, disconnected (CLOSED), and its onceClosed settles later, when *)
(* the calls to its provider have returned.                                *)
(***************************************************************************)
EXTENDS Counter

CONSTANTS
  Clients,        \* bound: connections that clients make
  MaxConnections  \* maxConnections_

ASSUME TcpServerAssumption ==
  /\ Calls = {"listen", "close"} /\ MaxDiscards = 1
  /\ MaxConnections \in Nat /\ Clients \in Nat

\* The ids the provider gives to connections, in this order.
Sockets == 1..Clients

VARIABLES
  socket,         \* what the provider has: "new", "bound", "closed" or "dead"
  onceListening,
  onceShutdown,
  conn,           \* the state of each connection, and whether onceClosed settled
  connections,    \* connections_
  shutdown,       \* how far shutdown() is
  awaited         \* the connections whose end closeAll() awaits

serverVars == <<counterVars, socket, onceListening, onceShutdown, conn, connections,
                shutdown, awaited>>

ServerTypeOK ==
  /\ CounterTypeOK
  /\ socket \in {"new", "bound", "closed", "dead"}
  /\ onceListening \in {"pending", "fulfilled", "rejected"}
  /\ onceShutdown \in BOOLEAN
  /\ conn \in [Sockets -> {"none", "open", "closing", "gone", "closed", "dropped", "destroyed"}]
  /\ connections \subseteq Sockets
  /\ shutdown \in {"idle", "stopListening", "closeAll", "done", "rejected"}
  /\ awaited \subseteq Sockets

ServerInit ==
  /\ CounterInit
  /\ socket = "new" /\ onceListening = "pending" /\ onceShutdown = FALSE
  /\ conn = [c \in Sockets |-> "none"] /\ connections = {}
  /\ shutdown = "idle" /\ awaited = {}

-----------------------------------------------------------------------------
(* The listening socket *)

\* listen(): the calls of listen() and of getInfo() are one for the counter.
Listen ==
  /\ Wrap("listen")
  /\ UNCHANGED <<socket, onceListening, onceShutdown, conn, connections, shutdown, awaited>>

\* From here on clients are accepted, before listen() has been answered.
Bound ==
  /\ call["listen"] = "pending" /\ socket = "new"
  /\ socket' = "bound"
  /\ UNCHANGED <<counterVars, onceListening, onceShutdown, conn, connections, shutdown, awaited>>

\* The reaction to onceDestroyed, which only a discard can make settle.
ShutdownFollows(failed) ==
  onceShutdown' = (onceShutdown \/ failed \/ onceDestroyed' # "pending")

\* getInfo() answers, or either call fails.
Listening ==
  /\ call["listen"] = "pending" /\ socket # "new"
  /\ Resolve("listen")
  /\ onceListening' = "fulfilled"
  /\ ShutdownFollows(FALSE)
  /\ UNCHANGED <<socket, conn, connections, shutdown, awaited>>

ListenFails ==
  /\ call["listen"] = "pending"
  /\ Resolve("listen")
  /\ onceListening' = "rejected"
  /\ ShutdownFollows(TRUE)
  /\ UNCHANGED <<socket, conn, connections, shutdown, awaited>>

\* The socket closes, because it was told to or by itself.
SocketCloses ==
  /\ call["close"] = "pending" /\ socket \in {"new", "bound"}
  /\ socket' = "closed"
  /\ UNCHANGED <<counterVars, onceListening, onceShutdown, conn, connections, shutdown, awaited>>

SocketDies ==
  /\ call["close"] = "idle" /\ socket = "bound"
  /\ socket' = "dead"
  /\ UNCHANGED <<counterVars, onceListening, onceShutdown, conn, connections, shutdown, awaited>>

\* onDisconnectHandler_.
ServerOnDisconnect ==
  /\ socket \in {"closed", "dead"} /\ Discard
  /\ ShutdownFollows(FALSE)
  /\ UNCHANGED <<socket, onceListening, conn, connections, shutdown, awaited>>

-----------------------------------------------------------------------------
(* Connections *)

Live == {c \in Sockets : conn[c] \in {"open", "closing", "gone"}}

\* onConnectionHandler_: above the limit the socket is closed again.
Accept(c) ==
  /\ conn[c] = "none" /\ \A b \in Sockets : b < c => conn[b] # "none"
  /\ socket = "bound"
  /\ \/ /\ Cardinality(connections) >= MaxConnections
        /\ conn' = [conn EXCEPT ![c] = "dropped"]
        /\ UNCHANGED connections
     \/ /\ Cardinality(connections) < MaxConnections
        /\ conn' = [conn EXCEPT ![c] = "open"]
        /\ connections' = connections \cup {c}

OnConnection(c) ==
  /\ Accept(c)
  /\ UNCHANGED <<counterVars, socket, onceListening, onceShutdown, shutdown, awaited>>

\* Its close() settles, either way, and its provider is destroyed.
Dropped(c) ==
  /\ conn[c] = "dropped"
  /\ conn' = [conn EXCEPT ![c] = "destroyed"]
  /\ UNCHANGED <<counterVars, socket, onceListening, onceShutdown, connections, shutdown, awaited>>

\* Connection.close().
Closing(cs) == [c \in Sockets |-> IF c \in cs /\ conn[c] = "open" THEN "closing" ELSE conn[c]]

\* The owner of a connection closes it; onDisconnect, also when the client left.
CloseConnection(c) ==
  /\ conn[c] = "open" /\ conn' = Closing({c})
  /\ UNCHANGED <<counterVars, socket, onceListening, onceShutdown, connections, shutdown, awaited>>

ConnectionGone(c) ==
  /\ conn[c] \in {"open", "closing"} /\ conn' = [conn EXCEPT ![c] = "gone"]
  /\ UNCHANGED <<counterVars, socket, onceListening, onceShutdown, connections, shutdown, awaited>>

\* onceClosed settles: discard().
ConnectionClosed(c) ==
  /\ conn[c] = "gone"
  /\ conn' = [conn EXCEPT ![c] = "closed"]
  /\ connections' = connections \ {c}
  /\ UNCHANGED <<counterVars, socket, onceListening, onceShutdown, shutdown, awaited>>

-----------------------------------------------------------------------------
(* Shutdown *)

\* stopListening(), the first step of shutdown().
StopListening ==
  /\ shutdown = "idle"
  /\ Wrap("close")
  /\ shutdown' = "stopListening"
  /\ UNCHANGED <<socket, onceListening, onceShutdown, conn, connections, awaited>>

\* Fault: the connections are left to their clients.
CloseNone ==
  /\ shutdown' = "closeAll"
  /\ awaited' = connections
  /\ UNCHANGED conn

\* closeAll(), what is in the map when it is called.
CloseAll ==
  /\ shutdown' = "closeAll"
  /\ conn' = Closing(connections)
  /\ awaited' = connections

\* The answer to close().  A socket that has died may fail to close; a call to
\* a provider that has been destroyed need not be answered at all.
StoppedListening ==
  /\ shutdown = "stopListening" /\ Resolve("close")
  /\ ShutdownFollows(FALSE)
  /\ \/ socket \in {"closed", "dead"} /\ CloseAll
     \/ /\ socket = "dead"
        /\ shutdown' = "rejected"
        /\ UNCHANGED <<conn, awaited>>
  /\ UNCHANGED <<socket, onceListening, connections>>

AllClosed ==
  /\ shutdown = "closeAll" /\ \A c \in awaited : conn[c] = "closed"
  /\ shutdown' = "done"
  /\ UNCHANGED <<counterVars, socket, onceListening, onceShutdown, conn, connections, awaited>>

-----------------------------------------------------------------------------
ListeningSocket == Bound \/ Listening \/ ListenFails \/ SocketCloses \/ ServerOnDisconnect

-----------------------------------------------------------------------------
(* Properties *)

\* The limit is one of sockets, not of entries in a map: what has not reported
\* its end is in the map, whoever closed it, and is never more than allowed.
LimitKept == connections = Live /\ Cardinality(Live) <= MaxConnections

\* shutdown() fulfils when nothing of the server is left: the comment in it says
\* that its order makes sure of this, clients that connect meanwhile included.
ShutdownIsComplete == shutdown = "done" => socket \in {"closed", "dead"} /\ Live = {}
=============================================================================
