---------------------------- MODULE TcpConnection ----------------------------
(***************************************************************************)
(* The Connection class of src/src/net/tcp.ts: a TCP socket of freedom.js  *)
(* as two handler queues and two promises.  The calls to the provider and  *)
(* its destruction go through a Counter.                                   *)
(*                                                                         *)
(* A callback and the promise reactions it sets off are one step: no event *)
(* of the provider comes between them.  The provider (the environment)     *)
(* answers each call, delivers data while it is listened to, and reports   *)
(* the disconnection, also of a socket whose calls are still outstanding.  *)
(***************************************************************************)
EXTENDS Counter

CONSTANTS
  Sends,          \* the messages given to send(), each once
  MaxReceives,    \* bound: calls of receiveNext()
  MaxData,        \* bound: onData events
  MaxDisconnects  \* bound: onDisconnect events

\* "open" is the getInfo() of an accepted socket, or the connect(), pause()
\* and getInfo() of a new one, which are one call of wrap().
ASSUME ConnectionAssumption ==
  /\ IsFiniteSet(Sends) /\ MaxReceives \in Nat /\ MaxData \in Nat
  /\ MaxDisconnects \in Nat /\ MaxDiscards = MaxDisconnects
  /\ Calls = {"open", "close"}

VARIABLES
  kind,           \* which connectionKind the constructor was given
  state,          \* state_
  onceConnected, onceClosed,     \* the two promises
  disconnectKind, \* the kind the reaction to onDisconnect will fulfil with
  disconnects,    \* history: onDisconnect events
  sent,           \* state of each send()
  writing,        \* dataToSocketQueue has its handler
  fromQueue,      \* number of buffers in dataFromSocketQueue
  fromHandler,    \* its handler: none, one for all, or receiveNext's
  listening,      \* onData_ is attached to the socket
  receives,       \* calls of receiveNext() so far
  receive,        \* state of the latest
  data,           \* history: onData events
  closeCalled     \* history: close() was called

sendVars == <<sent, writing>>
recvVars == <<fromQueue, fromHandler, listening, receives, receive, data>>
connectionVars == <<kind, state, onceConnected, onceClosed, counterVars, disconnectKind,
          disconnects, sendVars, recvVars, closeCalled>>

States == {"ERROR", "CONNECTING", "CONNECTED", "CLOSING", "CLOSED"}
CloseKinds == {"WE_CLOSED_IT", "REMOTELY_CLOSED", "NEVER_CONNECTED", "UNKOWN"}

ConnectionTypeOK ==
  /\ kind \in {"bad", "existing", "endpoint"}
  /\ state \in States
  /\ onceConnected \in {"pending", "fulfilled", "rejected"}
  /\ onceClosed \in CloseKinds \cup {"pending"}
  /\ disconnectKind \in CloseKinds \cup {"none"}
  /\ disconnects \in 0..MaxDisconnects
  /\ sent \in [Sends -> {"absent", "queued", "written", "rejected"}]
  /\ writing \in BOOLEAN /\ listening \in BOOLEAN /\ closeCalled \in BOOLEAN
  /\ fromQueue \in 0..MaxData
  /\ fromHandler \in {"none", "all", "next"}
  /\ receives \in 0..MaxReceives
  /\ receive \in {"absent", "waiting", "got", "aborted"}
  /\ data \in 0..MaxData

\* The constructor.  connectionKind must have exactly one of its two fields.
ConnectionInit ==
  /\ kind \in {"bad", "existing", "endpoint"}
  /\ state = CASE kind = "bad" -> "ERROR"
               [] kind = "existing" -> "CONNECTED"
               [] kind = "endpoint" -> "CONNECTING"
  /\ onceConnected = IF kind = "bad" THEN "rejected" ELSE "pending"
  /\ onceClosed = IF kind = "bad" THEN "NEVER_CONNECTED" ELSE "pending"
  /\ counter = IF kind = "bad" THEN 0 ELSE 1
  /\ call = [c \in Calls |->
               IF c = "open" /\ kind # "bad" THEN "pending" ELSE "idle"]
  /\ discards = 0 /\ destructions = 0 /\ onceDestroyed = "pending"
  /\ disconnectKind = "none" /\ disconnects = 0
  /\ sent = [m \in Sends |-> "absent"] /\ writing = FALSE
  /\ fromQueue = 0 /\ fromHandler = "none" /\ listening = (kind # "bad")
  /\ receives = 0 /\ receive = "absent" /\ data = 0
  /\ closeCalled = FALSE

-----------------------------------------------------------------------------
\* The reactions to a step of the counter: onceClosed gets the kind of the
\* disconnection once the provider is destroyed, and otherwise, if the step
\* is a failure to connect, NEVER_CONNECTED.  A receiveNext() that waits is
\* aborted when onceClosed settles.
SettleClosed(k, otherwise) ==
  /\ onceClosed' = IF onceClosed # "pending" THEN onceClosed
                   ELSE IF k # "none" /\ onceDestroyed' = "fulfilled" THEN k
                   ELSE otherwise
  /\ receive' = IF receive = "waiting" /\ onceClosed' # "pending"
                THEN "aborted" ELSE receive

\* Fault: a connection is CONNECTED when its calls return, whatever happened.
ConnectedRegardless == "CONNECTED"

\* The guard in the constructor's reaction to onceConnected.
StateOnceOpen == IF state = "CONNECTING" THEN "CONNECTED" ELSE state

\* The provider's answer to the calls that open the connection.  State
\* CONNECTING is left only if nothing else has happened; the queue of
\* outgoing data gets its handler, and is written, in any case.
Opened ==
  /\ Resolve("open")
  /\ state' = StateOnceOpen
  /\ onceConnected' = "fulfilled"
  /\ writing' = TRUE
  /\ sent' = [m \in Sends |-> IF sent[m] = "queued" THEN "written" ELSE sent[m]]
  /\ SettleClosed(disconnectKind, "pending")
  /\ UNCHANGED <<kind, disconnectKind, disconnects, fromQueue, fromHandler,
                 listening, receives, data, closeCalled>>

OpenFails ==
  /\ Resolve("open")
  /\ onceConnected' = "rejected"
  /\ SettleClosed(disconnectKind, "NEVER_CONNECTED")
  /\ UNCHANGED <<kind, state, disconnectKind, disconnects, sendVars, fromQueue,
                 fromHandler, listening, receives, data, closeCalled>>

\* The answer to the close() of the socket.
CloseResolves ==
  /\ Resolve("close")
  /\ SettleClosed(disconnectKind, "pending")
  /\ UNCHANGED <<kind, state, onceConnected, disconnectKind, disconnects, sendVars,
                 fromQueue, fromHandler, listening, receives, data,
                 closeCalled>>

\* dataToSocketQueue.clear()
QueueRejected ==
  [m \in Sends |-> IF sent[m] = "queued" THEN "rejected" ELSE sent[m]]

\* onDisconnectHandler_ in any state but CLOSED.
Disconnected(k) ==
  /\ Discard
  /\ state' = "CLOSED"
  /\ disconnectKind' = k
  /\ writing' = FALSE
  /\ sent' = QueueRejected
  /\ SettleClosed(k, "pending")
  /\ UNCHANGED <<kind, onceConnected, fromQueue, fromHandler, listening,
                 receives, data, closeCalled>>

\* Fault: every onDisconnect is handled.
OnDisconnectUnguarded ==
  /\ kind # "bad" /\ disconnects < MaxDisconnects
  /\ disconnects' = disconnects + 1
  /\ \E k \in {"WE_CLOSED_IT", "REMOTELY_CLOSED", "UNKOWN"} : Disconnected(k)

OnDisconnect ==
  /\ kind # "bad" /\ disconnects < MaxDisconnects
  /\ disconnects' = disconnects + 1
  /\ \/ /\ state = "CLOSED"
        /\ UNCHANGED <<kind, state, onceConnected, onceClosed, counterVars,
                       disconnectKind, sendVars, recvVars, closeCalled>>
     \/ /\ state # "CLOSED"
        /\ \E k \in {"WE_CLOSED_IT", "REMOTELY_CLOSED", "UNKOWN"} : Disconnected(k)

-----------------------------------------------------------------------------
\* dataFromSocketQueue.stopHandling(): receiveNext() is rejected if it waits.
StopFrom ==
  /\ fromHandler' = "none"
  /\ receive' = IF receive = "waiting" THEN "aborted" ELSE receive

\* clear() of the queue of incoming data and off('onData').
DataOff == fromQueue' = 0 /\ listening' = FALSE

\* close()
Close ==
  /\ kind # "bad" /\ state \in {"CONNECTING", "CONNECTED"}
  /\ closeCalled' = TRUE
  /\ state' = "CLOSING"
  /\ StopFrom
  /\ DataOff
  /\ Wrap("close")
  /\ UNCHANGED <<kind, onceConnected, onceClosed, disconnectKind, disconnects,
                 sendVars, receives, data>>

\* close() of a connection in state ERROR, which has no socket: the call
\* throws at connectionSocket_.off.
CloseBad ==
  /\ state = "ERROR"
  /\ closeCalled' = TRUE
  /\ state' = "CLOSING"
  /\ StopFrom
  /\ fromQueue' = 0
  /\ UNCHANGED <<kind, onceConnected, onceClosed, counterVars, disconnectKind,
                 disconnects, sendVars, listening, receives, data>>

\* send(m)
Send(m) ==
  /\ sent[m] = "absent"
  /\ sent' = [sent EXCEPT ![m] = IF writing THEN "written" ELSE "queued"]
  /\ UNCHANGED <<kind, state, onceConnected, onceClosed, counterVars, disconnectKind,
                 disconnects, writing, recvVars, closeCalled>>

\* receiveNext() when there is no data.
NothingToReceive == IF onceClosed = "pending" THEN "waiting" ELSE "aborted"

\* Fault: receiveNext() takes a buffer from an empty queue.
ReceiveUnchecked ==
  /\ receives < MaxReceives
  /\ receives' = receives + 1
  /\ receive' = "got"
  /\ fromHandler' = "none"
  /\ fromQueue' = fromQueue - 1
  /\ UNCHANGED <<kind, state, onceConnected, onceClosed, counterVars, disconnectKind,
                 disconnects, sendVars, listening, data, closeCalled>>

\* receiveNext(): the next buffer, or an error if the connection is closed
\* and there is none.  An earlier call that waits is rejected.
ReceiveNext ==
  /\ receives < MaxReceives
  /\ receives' = receives + 1
  /\ IF fromQueue > 0
       THEN /\ receive' = "got"
            /\ fromHandler' = "none"
            /\ fromQueue' = fromQueue - 1
       ELSE /\ receive' = NothingToReceive
            /\ fromHandler' = "next"
            /\ UNCHANGED fromQueue
  /\ UNCHANGED <<kind, state, onceConnected, onceClosed, counterVars, disconnectKind,
                 disconnects, sendVars, listening, data, closeCalled>>

\* The owner sets a handler for all data.
SetDataHandler ==
  /\ fromHandler' = "all"
  /\ receive' = IF receive = "waiting" THEN "aborted" ELSE receive
  /\ fromQueue' = 0
  /\ UNCHANGED <<kind, state, onceConnected, onceClosed, counterVars, disconnectKind,
                 disconnects, sendVars, listening, receives, data, closeCalled>>

\* onData_: the socket delivers while it is connected.
OnData ==
  /\ listening /\ disconnects = 0 /\ data < MaxData
  /\ data' = data + 1
  /\ \/ /\ fromHandler = "none"
        /\ fromQueue' = fromQueue + 1
        /\ UNCHANGED <<fromHandler, receive>>
     \/ /\ fromHandler = "all"
        /\ UNCHANGED <<fromQueue, fromHandler, receive>>
     \/ /\ fromHandler = "next"
        /\ fromHandler' = "none"
        /\ receive' = IF receive = "waiting" THEN "got" ELSE receive
        /\ UNCHANGED fromQueue
  /\ UNCHANGED <<kind, state, onceConnected, onceClosed, counterVars, disconnectKind,
                 disconnects, sendVars, listening, receives, closeCalled>>

Provider == Opened \/ OpenFails \/ CloseResolves \/ OnDisconnect \/ OnData

Owner == Close \/ CloseBad \/ (\E m \in Sends : Send(m)) \/ ReceiveNext
         \/ SetDataHandler

ConnectionNext == Provider \/ Owner

ConnectionSpec == ConnectionInit /\ [][ConnectionNext]_connectionVars

\* freedom.js answers every call, and reports the end of a socket that was
\* closed.
FairConnectionSpec ==
  /\ ConnectionSpec
  /\ WF_connectionVars(Opened \/ OpenFails)
  /\ WF_connectionVars(CloseResolves)
  /\ WF_connectionVars(state = "CLOSING" /\ OnDisconnect)

-----------------------------------------------------------------------------
(* Properties *)

\* The provider is destroyed once, and not while a call to it is outstanding
\* or before it has disconnected, whatever the order of the answers, the
\* disconnection and close(); and onceClosed reports an end only when nothing
\* is left to come: the connection was never made, or the provider is gone.
DestroyedSafely ==
  /\ destructions <= 1
  /\ destructions = 1 => Pending = {} /\ disconnectKind # "none"
  /\ onceClosed \notin {"pending", "NEVER_CONNECTED"} =>
       state = "CLOSED" /\ destructions = 1

\* A connection that has begun to close does not come back, in particular not
\* when the calls that open it return late.
NoRevival ==
  [][/\ state = "CLOSING" => state' \in {"CLOSING", "CLOSED"}
     /\ state = "CLOSED" => state' = "CLOSED"]_connectionVars

\* receiveNext() does not wait for a connection that has ended.
NoHangingReceive == onceClosed # "pending" => receive # "waiting"

\* When the end is reported it has come: to the provider, and to whoever waits
\* for data.
EndIsSafe == DestroyedSafely /\ NoHangingReceive

\* close() ends, also that of a connection that was never made, whose onceClosed has
\* fulfilled long before: the connection is CLOSED, its provider is destroyed, and
\* onceClosed settles, unless destroying the provider throws.
CloseCompletes ==
  (closeCalled /\ kind # "bad")
    ~> /\ state = "CLOSED" /\ onceDestroyed # "pending"
       /\ onceClosed # "pending" \/ onceDestroyed = "rejected"

\* A connection that is closed ends once and for all: it does not come back, its
\* provider stays as long as a call is outstanding, and the end is reported.
ConnectionEnds == DestroyedOnlyIfQuiet /\ NoRevival /\ CloseCompletes
=============================================================================
