-------------------------------- MODULE Pool --------------------------------
(***************************************************************************)
(* The pool of data channels of src/src/pool/pool.ts, both peers of it:    *)
(* the LocalPool of one, the RemotePool of the other, and the PoolChannels *)
(* at the two ends of each data channel.  A PoolChannel is opened and      *)
(* closed by OPEN and CLOSE messages in the stream of the data channel,    *)
(* which stays open and is used for one session after another.             *)
(*                                                                         *)
(* The data channel is reliable and ordered (see OrderedChannel), until it *)
(* closes, of which each end learns on its own.  A message that arrives is *)
(* put on dc_.dataFromPeerQueue and, if the queue has its handler, taken   *)
(* off again before anything else happens at that end (Busy).              *)
(*                                                                         *)
(* The data channels are those of a PeerConnection, whose channels_, at    *)
(* the end of the LocalPool, is here without the control channel.          *)
(***************************************************************************)
EXTENDS Naturals, Sequences, FiniteSets

CONSTANTS
  maxChannels,  \* maxChannels_ of the PeerConnection, the control channel included
  MaxOpens,     \* bound: calls of openDataChannel()
  MaxData,      \* bound: messages of the sessions
  MaxFailures,  \* bound: channels that cannot be created, handlers that fail
  MaxDeaths     \* bound: data channels that close

ASSUME PoolAssumption ==
  /\ maxChannels \in Nat \ {0} /\ MaxOpens \in Nat /\ MaxData \in Nat
  /\ MaxFailures \in Nat /\ MaxDeaths \in Nat

\* The ids that openDataChannel() of the PeerConnection accepts.
Channels == 1..(maxChannels - 1)
Ports == Channels \X {"local", "remote"}
Peer(p) == <<p[1], IF p[2] = "local" THEN "remote" ELSE "local">>

VARIABLES
  pool, nextId,  \* pool_ and nextChannelId_
  pending,       \* calls of openNewChannel_ outstanding for each id
  channels,      \* channels_ of the PeerConnection
  state,         \* state_ of the PoolChannel, ABSENT before it is constructed
  inbox, on,     \* dc_.dataFromPeerQueue and whether it has its handler
  data,          \* dataFromPeerQueue: messages not yet handled by the session
  last,          \* lastDataFromPeerHandled_
  drain,         \* the answer to CLOSE: waiting to drain, or for its sending
  reopen,        \* doOpen_ was put off until onceClosed
  dead,          \* the data channel has closed, as this end knows
  wire,          \* messages on their way to the port
  session,       \* history: sessions the port has opened
  closer,        \* history: close() was called in this session
  opens, sends, failures, deaths  \* counters of the bounds

localVars == <<pool, nextId, pending, channels>>
countVars == <<opens, sends, failures, deaths>>
vars == <<localVars, state, inbox, on, data, last, drain, reopen, dead, wire,
          session, closer, countVars>>

States == {"OPEN", "CLOSING", "CLOSED", "PERMANENTLY_CLOSED"}
Message == [kind : {"OPEN", "CLOSE", "data"}, session : 0..MaxOpens]

TypeOK ==
  /\ pool \in Seq(Channels) /\ Len(pool) < maxChannels
  /\ nextId \in 0..(maxChannels - 1) /\ channels \subseteq Channels
  /\ pending \in [Channels -> 0..MaxOpens]
  /\ state \in [Ports -> States \cup {"ABSENT"}]
  /\ inbox \in [Ports -> Seq(Message)] /\ wire \in [Ports -> Seq(Message)]
  /\ on \in [Ports -> BOOLEAN]
  /\ data \in [Ports -> Seq(0..MaxOpens)]
  /\ last \in [Ports -> {"resolved", "pending", "failed"}]
  /\ drain \in [Ports -> {"idle", "draining", "acking"}]
  /\ reopen \in [Ports -> BOOLEAN]
  /\ dead \in [Ports -> BOOLEAN]
  /\ session \in [Ports -> 0..MaxOpens]
  /\ closer \in [Ports -> BOOLEAN]
  /\ opens \in 0..MaxOpens /\ sends \in 0..MaxData
  /\ failures \in 0..MaxFailures /\ deaths \in 0..MaxDeaths

Init ==
  /\ pool = <<>> /\ nextId = 0 /\ pending = [c \in Channels |-> 0] /\ channels = {}
  /\ state = [p \in Ports |-> "ABSENT"]
  /\ inbox = [p \in Ports |-> <<>>] /\ wire = [p \in Ports |-> <<>>]
  /\ on = [p \in Ports |-> FALSE]
  /\ data = [p \in Ports |-> <<>>]
  /\ last = [p \in Ports |-> "resolved"]
  /\ drain = [p \in Ports |-> "idle"]
  /\ reopen = [p \in Ports |-> FALSE]
  /\ dead = [p \in Ports |-> FALSE]
  /\ session = [p \in Ports |-> 0]
  /\ closer = [p \in Ports |-> FALSE]
  /\ opens = 0 /\ sends = 0 /\ failures = 0 /\ deaths = 0

-----------------------------------------------------------------------------
Busy(p) == on[p] /\ inbox[p] # <<>>

\* dc_.send(): nothing arrives on a data channel that has closed.
Post(p, kind, s) ==
  wire' = IF dead[p] \/ dead[Peer(p)] THEN wire
          ELSE [wire EXCEPT ![Peer(p)] = Append(@, [kind |-> kind, session |-> s])]

\* doOpen_ in reaction to openDataChannel() or to OPEN.
DoOpen(p) ==
  /\ state' = [state EXCEPT ![p] = "OPEN"]
  /\ session' = [session EXCEPT ![p] = @ + 1]

\* Fault: the RemotePool keeps the channel too.
PooledByBoth(p) == Append(pool, p[1])

\* onChannelClosed_ of the LocalPool.
Pooled(p) == IF p[2] = "local" THEN Append(pool, p[1]) ELSE pool

\* Fault: the next session is given the queue of the last one.
QueueOfLast(p) == data[p]

\* The queue that reset() creates.
NewQueue(p) == <<>>

\* doClose_ and the reactions to onceClosed: reset(), the return of the
\* channel to its pool and, if it was put off, doOpen_.
DoClose(p) ==
  /\ state' = [state EXCEPT ![p] = IF reopen[p] THEN "OPEN" ELSE "CLOSED"]
  /\ session' = [session EXCEPT ![p] = IF reopen[p] THEN @ + 1 ELSE @]
  /\ reopen' = [reopen EXCEPT ![p] = FALSE]
  /\ data' = [data EXCEPT ![p] = NewQueue(p)]
  /\ last' = [last EXCEPT ![p] = "resolved"]
  /\ on' = [on EXCEPT ![p] = TRUE]
  /\ closer' = [closer EXCEPT ![p] = FALSE]
  /\ pool' = Pooled(p)

-----------------------------------------------------------------------------
\* openDataChannel() when pool_ has a channel: open() of the first.  Its state
\* is not looked at beyond not being OPEN.
Reuse ==
  /\ opens < MaxOpens /\ pool # <<>>
  /\ LET p == <<Head(pool), "local">>
     IN /\ ~Busy(p)
        /\ DoOpen(p)
        /\ Post(p, "OPEN", session[p] + 1)
  /\ pool' = Tail(pool)
  /\ opens' = opens + 1
  /\ UNCHANGED <<nextId, pending, channels, inbox, on, data, last, drain, reopen, dead,
                 closer, sends, failures, deaths>>

\* openDataChannel() of the PeerConnection does not reject at once.
Allowed(id) == Cardinality(channels) + 1 < maxChannels /\ id < maxChannels

\* openDataChannel() when pool_ has none: openNewChannel_.  The id of a call that is
\* rejected at once is given back before anything else happens.
Create ==
  /\ opens < MaxOpens /\ pool = <<>>
  /\ IF Allowed(nextId + 1)
       THEN nextId' = nextId + 1 /\ pending' = [pending EXCEPT ![nextId + 1] = @ + 1]
       ELSE UNCHANGED <<nextId, pending>>
  /\ opens' = opens + 1
  /\ UNCHANGED <<pool, channels, state, inbox, on, data, last, drain, reopen, dead, wire,
                 session, closer, sends, failures, deaths>>

\* The browser has created the channel, and addRtcDataChannel_ of the PeerConnection
\* enters it.  An id is not used again once the channel was open.
Added(c) ==
  /\ pending[c] > 0 /\ c \notin channels /\ state[<<c, "local">>] = "ABSENT"
  /\ channels' = channels \cup {c}
  /\ UNCHANGED <<pool, nextId, pending, state, inbox, on, data, last, drain, reopen, dead,
                 wire, session, closer, countVars>>

\* The channel has opened: it is wrapped and its first session opened.
Created(c) ==
  LET p == <<c, "local">>
  IN /\ c \in channels /\ state[p] = "ABSENT"
     /\ pending' = [pending EXCEPT ![c] = @ - 1]
     /\ on' = [on EXCEPT ![p] = TRUE]
     /\ DoOpen(p)
     /\ Post(p, "OPEN", 1)
     /\ UNCHANGED <<pool, nextId, channels, inbox, data, last, drain, reopen, dead, closer,
                    countVars>>

\* The browser rejects; always when the id is in use.  Which id is given back depends on
\* the calls that came after.
CreateFails(c) ==
  LET taken == c \in channels \/ state[<<c, "local">>] # "ABSENT"
      opening == c \in channels /\ state[<<c, "local">>] = "ABSENT"
  IN /\ pending[c] > IF opening THEN 1 ELSE 0
     /\ \/ ~taken /\ failures < MaxFailures /\ failures' = failures + 1
        \/ taken /\ UNCHANGED failures
     /\ pending' = [pending EXCEPT ![c] = @ - 1]
     /\ nextId' = nextId - 1
     /\ UNCHANGED <<pool, channels, state, inbox, on, data, last, drain, reopen, dead, wire,
                    session, closer, opens, sends, deaths>>

\* The channel closes before it has opened: openDataChannel() rejects and the
\* id is not given back.
CreatedDead(c) ==
  /\ c \in channels /\ state[<<c, "local">>] = "ABSENT" /\ deaths < MaxDeaths
  /\ pending' = [pending EXCEPT ![c] = @ - 1]
  /\ channels' = channels \ {c}
  /\ deaths' = deaths + 1
  /\ UNCHANGED <<pool, nextId, state, inbox, on, data, last, drain, reopen, dead, wire,
                 session, closer, opens, sends, failures>>

\* RemotePool.onNewChannel_, once the channel is open at its end.
RemoteCreated(c) ==
  LET p == <<c, "remote">>
  IN /\ state[p] = "ABSENT" /\ state[Peer(p)] # "ABSENT" /\ ~dead[p]
     /\ state' = [state EXCEPT ![p] = "CLOSED"]
     /\ on' = [on EXCEPT ![p] = TRUE]
     /\ UNCHANGED <<localVars, inbox, data, last, drain, reopen, dead, wire, session,
                    closer, countVars>>

-----------------------------------------------------------------------------
\* A message arrives on the data channel.
Receive(p) ==
  /\ wire[p] # <<>> /\ ~Busy(p)
  /\ inbox' = [inbox EXCEPT ![p] = Append(@, Head(wire[p]))]
  /\ wire' = [wire EXCEPT ![p] = Tail(@)]
  /\ UNCHANGED <<localVars, state, on, data, last, drain, reopen, dead, session, closer,
                 countVars>>

\* onDataFromPeer_ with data of the session.
OnData(p, m) ==
  /\ data' = [data EXCEPT ![p] = Append(@, m.session)]
  /\ last' = [last EXCEPT ![p] = "pending"]
  /\ UNCHANGED <<pool, state, on, drain, reopen, session, closer>>

\* onControlMessage_(OPEN).
OnOpen(p) ==
  /\ UNCHANGED <<pool, on, data, last, drain, closer>>
  /\ CASE state[p] = "CLOSING" ->
            /\ reopen' = [reopen EXCEPT ![p] = TRUE]
            /\ UNCHANGED <<state, session>>
       [] state[p] = "PERMANENTLY_CLOSED" -> UNCHANGED <<reopen, state, session>>
       [] OTHER -> DoOpen(p) /\ UNCHANGED reopen

\* dc_.dataFromPeerQueue.stopHandling()
HandlingStopped(p) == [on EXCEPT ![p] = FALSE]

\* Both ends have sent CLOSE: the channel is closed without draining.
CloseCrossed(p) == DoClose(p)

\* onControlMessage_(CLOSE).  The queue of the data channel is stopped so that
\* an OPEN behind the CLOSE waits until reset().
OnClose(p) ==
  CASE state[p] = "OPEN" ->
         /\ on' = HandlingStopped(p)
         /\ state' = [state EXCEPT ![p] = "CLOSING"]
         /\ drain' = [drain EXCEPT ![p] = "draining"]
         /\ UNCHANGED <<pool, data, last, reopen, session, closer>>
    [] state[p] = "CLOSING" -> CloseCrossed(p) /\ UNCHANGED drain
    [] OTHER ->
         /\ on' = HandlingStopped(p)
         /\ UNCHANGED <<pool, state, data, last, drain, reopen, session, closer>>

\* The handler of dc_.dataFromPeerQueue takes the next message.
Process(p) ==
  /\ Busy(p)
  /\ inbox' = [inbox EXCEPT ![p] = Tail(@)]
  /\ LET m == Head(inbox[p])
     IN CASE m.kind = "data" -> OnData(p, m)
          [] m.kind = "OPEN" -> OnOpen(p)
          [] m.kind = "CLOSE" -> OnClose(p)
  /\ UNCHANGED <<nextId, pending, channels, dead, wire, countVars>>

\* Fault: the answer to CLOSE does not wait for the session.
AckAtOnce(p) == TRUE

\* The answer to CLOSE waits for the last message to have been handled.
DrainedForAck(p) == last[p] = "resolved"

\* The CLOSE that answers the peer's is sent ...
Ack(p) ==
  /\ drain[p] = "draining" /\ ~Busy(p) /\ DrainedForAck(p)
  /\ drain' = [drain EXCEPT ![p] = "acking"]
  /\ Post(p, "CLOSE", session[p])
  /\ UNCHANGED <<localVars, state, inbox, on, data, last, reopen, dead, session, closer,
                 countVars>>

\* ... and the promise of its sending resolves.
AckSent(p) ==
  /\ drain[p] = "acking" /\ ~Busy(p)
  /\ drain' = [drain EXCEPT ![p] = "idle"]
  /\ IF state[p] = "PERMANENTLY_CLOSED"
       THEN UNCHANGED <<pool, state, on, data, last, reopen, session, closer>>
       ELSE DoClose(p)
  /\ UNCHANGED <<nextId, pending, channels, inbox, dead, wire, countVars>>

\* The data channel closes: at one end first.
ChannelDies(p) ==
  /\ ~dead[p] /\ state[<<p[1], "local">>] # "ABSENT" /\ ~Busy(p)
  /\ \/ deaths < MaxDeaths /\ ~dead[Peer(p)] /\ deaths' = deaths + 1
     \/ dead[Peer(p)] /\ UNCHANGED deaths
  /\ dead' = [dead EXCEPT ![p] = TRUE]
  /\ channels' = IF p[2] = "local" THEN channels \ {p[1]} ELSE channels
  /\ state' = [state EXCEPT ![p] = IF @ = "ABSENT" THEN @
                                   ELSE IF reopen[p] THEN "OPEN"
                                   ELSE "PERMANENTLY_CLOSED"]
  /\ wire' = [wire EXCEPT ![p] = <<>>]
  /\ UNCHANGED <<pool, nextId, pending, inbox, on, data, last, drain, reopen, session, closer,
                 opens, sends, failures>>

-----------------------------------------------------------------------------
\* The session at p sends a message; send() rejects unless the state is OPEN.
Send(p) ==
  /\ sends < MaxData /\ state[p] = "OPEN" /\ ~Busy(p)
  /\ sends' = sends + 1
  /\ Post(p, "data", session[p])
  /\ UNCHANGED <<localVars, state, inbox, on, data, last, drain, reopen, dead, session,
                 closer, opens, failures, deaths>>

\* The session at p has handled a message, or its handler has failed: the
\* promise of a failed one that is the last never resolves for the drain.
HandleData(p) ==
  /\ data[p] # <<>> /\ ~Busy(p)
  /\ data' = [data EXCEPT ![p] = Tail(@)]
  /\ \/ /\ last' = [last EXCEPT ![p] = IF Len(data[p]) = 1 THEN "resolved" ELSE @]
        /\ UNCHANGED failures
     \/ /\ failures < MaxFailures
        /\ failures' = failures + 1
        /\ last' = [last EXCEPT ![p] = IF Len(data[p]) = 1 THEN "failed" ELSE @]
  /\ UNCHANGED <<localVars, state, inbox, on, drain, reopen, dead, wire, session, closer,
                 opens, sends, deaths>>

\* The state of a channel after close().
AwaitAnswer(p) ==
  /\ state' = [state EXCEPT ![p] = "CLOSING"]
  /\ closer' = [closer EXCEPT ![p] = TRUE]
  /\ UNCHANGED <<localVars, on, data, last, reopen, session>>

\* The session at p calls close(), which is ignored unless the state is OPEN.
Close(p) ==
  /\ state[p] = "OPEN" /\ ~Busy(p)
  /\ AwaitAnswer(p)
  /\ Post(p, "CLOSE", session[p])
  /\ UNCHANGED <<inbox, drain, dead, countVars>>

Next ==
  \/ Reuse \/ Create
  \/ \E c \in Channels : Added(c) \/ Created(c) \/ CreateFails(c) \/ CreatedDead(c) \/ RemoteCreated(c)
  \/ \E p \in Ports :
       \/ Receive(p) \/ Process(p) \/ Ack(p) \/ AckSent(p) \/ ChannelDies(p)
       \/ Send(p) \/ HandleData(p) \/ Close(p)

Spec == Init /\ [][Next]_vars

\* Data channels deliver, and report at both ends that they have closed;
\* sessions handle the data they are sent.
FairSpec ==
  /\ Spec
  /\ \A c \in Channels : WF_vars(RemoteCreated(c))
  /\ \A p \in Ports :
       /\ WF_vars(Receive(p)) /\ WF_vars(Process(p))
       /\ WF_vars(Ack(p)) /\ WF_vars(AckSent(p)) /\ WF_vars(HandleData(p))
       /\ WF_vars(dead[Peer(p)] /\ ChannelDies(p))

-----------------------------------------------------------------------------
(* Properties *)

\* A session is given only its own data, although the next session may begin
\* while the end of the last one is under way.
SessionIsolation ==
  \A p \in Ports :
    /\ \A i \in DOMAIN data[p] : data[p][i] = session[p]
    /\ session[Peer(p)] <= session[p] + 1

\* No message finds the channel in a state in which onControlMessage_ only
\* warns: OPEN comes to a closed channel, CLOSE and data to a session.
ControlInOrder ==
  \A p \in Ports : Busy(p) =>
    state[p] \in CASE Head(inbox[p]).kind = "OPEN" -> {"CLOSED"}
                   [] OTHER -> {"OPEN", "CLOSING"}

\* A channel waits in the pool at most once, not in use, and nothing of its
\* last session is still to come.
PooledIsQuiet ==
  /\ \A i, j \in DOMAIN pool : i # j => pool[i] # pool[j]
  /\ \A i \in DOMAIN pool :
       LET p == <<pool[i], "local">>
       IN /\ state[p] \in {"CLOSED", "PERMANENTLY_CLOSED"}
          /\ wire[p] = <<>> /\ inbox[p] = <<>>

\* The number of channels was looked at before the channels that were being created are
\* entered; the ids of the pool keep it within the limit of the SDP all the same, as long
\* as an entry lives exactly as long as its channel.
ChannelsWithinLimit ==
  /\ Cardinality(channels) + 1 <= maxChannels
  /\ \A c \in Channels : LET p == <<c, "local">> IN
       /\ state[p] # "ABSENT" => (c \in channels <=> ~dead[p])
       /\ state[p] = "ABSENT" /\ c \in channels => pending[c] > 0

\* A channel may be used for one session after the other: none meets what is left
\* of another, be it data, control messages or the place of the channel in the pool
\* and in the PeerConnection.
ReuseIsClean == SessionIsolation /\ ControlInOrder /\ PooledIsQuiet /\ ChannelsWithinLimit

\* A session whose peer closes loses no data: all of it was handled before
\* the channel closes, unless the session had called close() itself.
DrainBeforeClosed ==
  [][\A p \in Ports :
       (state[p] = "CLOSING" /\ state'[p] = "CLOSED" /\ ~closer[p])
         => data[p] = <<>>]_vars

\* close() completes, unless the handler of the last message failed: the
\* channel is closed, or onceClosed fulfilled because the data channel is.
CloseCompletes ==
  \A p \in Ports :
    state[p] = "CLOSING"
      ~> \/ state[p] # "CLOSING" \/ dead[p]
         \/ last[p] = "failed" \/ last[Peer(p)] = "failed"

\* A session that is closed comes to its end, but not before its data was handled.
CloseIsClean == DrainBeforeClosed /\ CloseCompletes
=============================================================================
