------------------------------- MODULE Session -------------------------------
(***************************************************************************)
(* One proxied connection: the Session of the getter (src/src/socks-to-rtc *)
(* /socks-to-rtc.ts) between a SOCKS client and a pooled data channel, and *)
(* the Session of the giver (src/src/rtc-to-net/rtc-to-net.ts) between the *)
(* channel and a host.                                                     *)
(*                                                                         *)
(* Of the socket this uses what TcpConnection shows, and of the channel    *)
(* what Pool and DataChannel show: messages arrive in order; a CLOSE is    *)
(* behind them and is answered once they are handled; the data channel may *)
(* overflow when it is sent data, and overflow ends.  A callback and the   *)
(* promise reactions it sets off are one step.                             *)
(***************************************************************************)
EXTENDS Naturals, Sequences, SequencesExt

CONSTANTS
  Clients,   \* what the client may be: see Kinds of client
  Hosts,     \* what the host may be
  MaxData    \* bound: buffers of data from each socket

Sides == {"getter", "giver"}
Peer(s) == IF s = "getter" THEN "giver" ELSE "getter"

\* A client may send a bad greeting, an unreadable request, or a request
\* other than TCP_CONNECT; a host may not be there, may have an address that
\* is forbidden, or a name for one that is.
ASSUME SessionAssumption ==
  /\ Clients \subseteq {"good", "badAuth", "badRequest", "badCommand"}
  /\ Hosts \subseteq {"good", "absent", "forbidden", "named"}
  /\ MaxData \in Nat

VARIABLES
  client, host,
  phase,     \* how far the handshake of each Session is
  stopping,  \* fulfillStopping_ was called
  failing,   \* replyToPeer_ will stop() the giver's Session once it has sent
  tcp,       \* state_ of tcpConnection_, "none" before it is made
  gone,      \* its onceClosed
  left,      \* history: the other end of the socket closed it
  wants,     \* the latest of pause() and resume()
  paused,    \* what the provider has made of it
  arrived,   \* history: packets from the socket
  fromSocket,  \* dataFromSocketQueue
  toSocket,  \* history: what was written to the socket
  channel,   \* state of the end of the pooled channel
  overflow,  \* its data channel is in overflow
  sent, got, \* what the end has sent, and how much of the other's has arrived
  inbox,     \* dataFromPeerQueue
  up         \* the data channel has not failed

socketVars == <<left, arrived>>
flowVars == <<wants, paused, overflow>>
vars == <<client, host, phase, stopping, failing, tcp, gone, socketVars, flowVars,
          fromSocket, toSocket, channel, sent, got, inbox, up>>

Packets == 1..(MaxData + 2)
Msg(kind) == <<kind, 0>>
Packet(n) == <<"data", n>>
Message == {Msg(k) : k \in {"OPEN", "CLOSE", "request", "ok", "fail", "auth"}}
             \cup {Packet(n) : n \in Packets}
Phases == {"opening", "unopened", "auth", "request", "awaiting", "responding",
           "waiting", "refused", "endpoint", "connecting", "linked", "failed"}

TypeOK ==
  /\ client \in Clients /\ host \in Hosts
  /\ phase \in [Sides -> Phases]
  /\ stopping \in [Sides -> BOOLEAN] /\ failing \in BOOLEAN
  /\ tcp \in [Sides -> {"none", "connecting", "open", "closing", "closed"}]
  /\ gone \in [Sides -> BOOLEAN] /\ left \in [Sides -> BOOLEAN]
  /\ wants \in [Sides -> {"run", "pause"}] /\ paused \in [Sides -> BOOLEAN]
  /\ overflow \in [Sides -> BOOLEAN]
  /\ arrived \in [Sides -> 0..(MaxData + 2)]
  /\ fromSocket \in [Sides -> Seq(Packets)]
  /\ toSocket \in [Sides -> Seq(Message)]
  /\ channel \in [Sides -> {"POOLED", "OPEN", "CLOSING", "DRAINING", "CLOSED", "DEAD"}]
  /\ sent \in [Sides -> Seq(Message)] /\ got \in [Sides -> Nat]
  /\ \A s \in Sides : got[s] <= Len(sent[Peer(s)])
  /\ inbox \in [Sides -> Seq(Message)]
  /\ up \in BOOLEAN

\* A client has connected to the getter, which asks its pool for a channel.
Init ==
  /\ client \in Clients /\ host \in Hosts
  /\ phase = [s \in Sides |-> IF s = "getter" THEN "opening" ELSE "waiting"]
  /\ stopping = [s \in Sides |-> FALSE] /\ failing = FALSE
  /\ tcp = [s \in Sides |-> IF s = "getter" THEN "open" ELSE "none"]
  /\ gone = [s \in Sides |-> FALSE] /\ left = [s \in Sides |-> FALSE]
  /\ wants = [s \in Sides |-> "run"] /\ paused = [s \in Sides |-> FALSE]
  /\ overflow = [s \in Sides |-> FALSE]
  /\ arrived = [s \in Sides |-> 0]
  /\ fromSocket = [s \in Sides |-> <<>>] /\ toSocket = [s \in Sides |-> <<>>]
  /\ channel = [s \in Sides |-> "POOLED"]
  /\ sent = [s \in Sides |-> <<>>] /\ got = [s \in Sides |-> 0]
  /\ inbox = [s \in Sides |-> <<>>]
  /\ up = TRUE

Set(f, s, v) == [f EXCEPT ![s] = v]

-----------------------------------------------------------------------------
(* The socket, the channel, and the end of a Session *)

\* tcpConnection_.send(): what is given to a socket that is being closed is
\* not written any more.
Write(s, msgs) ==
  toSocket' = IF tcp[s] = "open" THEN Set(toSocket, s, toSocket[s] \o msgs) ELSE toSocket

\* What PoolChannel.send() accepts of msgs: it rejects unless it is OPEN.
Accepted(s, msgs) == IF channel[s] = "OPEN" THEN msgs ELSE <<>>

Post(s, msgs) == sent' = Set(sent, s, sent[s] \o msgs)

\* fulfillStopping_ and, the first time, its reaction stopResources_: the
\* channel, which has come to state now, is told to close behind msgs, and so
\* is the socket, if there is one that is not closing.
StopAt(s, now, msgs) ==
  /\ stopping' = Set(stopping, s, TRUE)
  /\ IF now = "OPEN" /\ ~stopping[s]
     THEN channel' = Set(channel, s, "CLOSING") /\ Post(s, Append(msgs, Msg("CLOSE")))
     ELSE channel' = Set(channel, s, now) /\ Post(s, msgs)
  /\ tcp' = IF tcp[s] \in {"open", "connecting"} /\ ~stopping[s]
            THEN Set(tcp, s, "closing") ELSE tcp

GetterStop(msgs) == StopAt("getter", channel["getter"], Accepted("getter", msgs))
GiverStop(msgs) == StopAt("giver", channel["giver"], Accepted("giver", msgs))
Stop(s, msgs) == IF s = "getter" THEN GetterStop(msgs) ELSE GiverStop(msgs)

\* close() of the socket drops what has come from it.
DropQueue(s) ==
  fromSocket' = IF tcp'[s] = "closing" THEN Set(fromSocket, s, <<>>) ELSE fromSocket

\* A buffer that is sent may put the data channel into overflow.
MayOverflow(s, buffers) ==
  \/ UNCHANGED overflow
  \/ /\ buffers # <<>> /\ channel[s] = "OPEN"
     /\ overflow' = Set(overflow, s, TRUE)

Buffers(s) == [i \in 1..Len(fromSocket[s]) |-> Packet(fromSocket[s][i])]

\* Fault: the socket is resumed whether or not there is room.
LinkResuming(s, msgs, reply) ==
  /\ phase' = Set(phase, s, "linked")
  /\ MayOverflow(s, Buffers(s))
  /\ wants' = Set(wants, s, "run")
  /\ Write(s, reply \o inbox[s]) /\ inbox' = Set(inbox, s, <<>>)
  /\ Post(s, Accepted(s, msgs \o Buffers(s))) /\ fromSocket' = Set(fromSocket, s, <<>>)
  /\ tcp' = IF tcp[s] = "connecting" THEN Set(tcp, s, "open") ELSE tcp
  /\ UNCHANGED <<stopping, channel>>

\* linkSocketAndChannel_, once the socket has connected and msgs were sent: what
\* has come from the socket is sent, what has come from the peer is written
\* behind reply; the socket is resumed if there is room.  It cannot have closed:
\* the getter's was written to and the giver's has just connected.
Link(s, msgs, reply) ==
  /\ phase' = Set(phase, s, "linked")
  /\ MayOverflow(s, Buffers(s))
  /\ wants' = IF overflow'[s] THEN wants ELSE Set(wants, s, "run")
  /\ Write(s, reply \o inbox[s]) /\ inbox' = Set(inbox, s, <<>>)
  /\ Post(s, Accepted(s, msgs \o Buffers(s))) /\ fromSocket' = Set(fromSocket, s, <<>>)
  /\ tcp' = IF tcp[s] = "connecting" THEN Set(tcp, s, "open") ELSE tcp
  /\ UNCHANGED <<stopping, channel>>

GetterLink(reply) == Link("getter", <<>>, reply)
GiverLink(msgs) == Link("giver", msgs, <<>>)

-----------------------------------------------------------------------------
(* The getter *)

\* makeTcpToRtcSession_: the pool opens a channel, whose other end is told,
\* and the Session starts.
OpenDataChannel ==
  /\ phase["getter"] = "opening" /\ up
  /\ phase' = Set(phase, "getter", "auth")
  /\ channel' = Set(channel, "getter", "OPEN")
  /\ sent' = Set(sent, "getter", <<Msg("OPEN")>>)
  /\ UNCHANGED <<client, host, stopping, failing, tcp, gone, socketVars, flowVars,
                 fromSocket, toSocket, got, inbox, up>>

\* No channel can be had: the client is told, and its connection left alone.
OpenFails ==
  /\ phase["getter"] = "opening"
  /\ phase' = Set(phase, "getter", "unopened")
  /\ Write("getter", <<Msg("fail")>>)
  /\ UNCHANGED <<client, host, stopping, failing, tcp, gone, socketVars, flowVars,
                 fromSocket, channel, sent, got, inbox, up>>

\* receiveNext() rejects: the connection closed or was closed before a packet.
NothingReceived == fromSocket["getter"] = <<>> /\ (gone["getter"] \/ tcp["getter"] = "closing")

\* The greeting.
DoAuthHandshake ==
  /\ phase["getter"] = "auth"
  /\ \/ /\ fromSocket["getter"] # <<>> /\ client # "badAuth"
        /\ phase' = Set(phase, "getter", "request")
        /\ Write("getter", <<Msg("auth")>>)
        /\ fromSocket' = Set(fromSocket, "getter", Tail(fromSocket["getter"]))
        /\ UNCHANGED <<stopping, tcp, channel, sent>>
     \/ /\ (fromSocket["getter"] # <<>> /\ client = "badAuth") \/ NothingReceived
        /\ phase' = Set(phase, "getter", "failed")
        /\ GetterStop(<<>>) /\ DropQueue("getter")
        /\ UNCHANGED toSocket
  /\ UNCHANGED <<client, host, failing, gone, socketVars, flowVars, got, inbox, up>>

\* Fault: the Session is linked whatever the reply.
ReplyUnread(kind) == tcp["getter"] # "closed" /\ GetterLink(<<Msg(kind)>>)

\* The last step of doRequestHandshake_: the reply is written and, once that
\* is done, the Session is linked or ends.  Nothing is ever done about a
\* write to a socket that has closed.
Reply(kind) ==
  IF tcp["getter"] = "closed"
  THEN /\ phase' = Set(phase, "getter", "responding")
       /\ UNCHANGED <<stopping, tcp, channel, sent, fromSocket, toSocket, inbox,
                      wants, overflow>>
  ELSE \/ /\ kind = "ok"
          /\ GetterLink(<<Msg("ok")>>)
       \/ /\ kind # "ok"
          /\ phase' = Set(phase, "getter", "failed")
          /\ Write("getter", <<Msg(kind)>>)
          /\ GetterStop(<<>>) /\ DropQueue("getter")
          /\ UNCHANGED <<inbox, wants, overflow>>

\* The request is sent to the giver, and the socket paused.  send() settles
\* before an answer can come, so the Session awaits it at once.
SendRequest ==
  /\ phase["getter"] = "request"
  /\ fromSocket["getter"] # <<>> /\ client # "badRequest"
  /\ channel["getter"] = "OPEN"
  /\ phase' = Set(phase, "getter", "awaiting")
  /\ wants' = Set(wants, "getter", "pause")
  /\ fromSocket' = Set(fromSocket, "getter", Tail(fromSocket["getter"]))
  /\ Post("getter", <<Msg("request")>>)
  /\ UNCHANGED <<client, host, stopping, failing, tcp, gone, socketVars, paused,
                 overflow, toSocket, channel, got, inbox, up>>

\* There is no request to send, or it cannot be sent.
NoRequest ==
  /\ phase["getter"] = "request"
  /\ \/ fromSocket["getter"] # <<>> /\ (client = "badRequest" \/ channel["getter"] # "OPEN")
     \/ NothingReceived
  /\ Reply("fail")
  /\ UNCHANGED <<client, host, failing, gone, socketVars, paused, got, up>>

-----------------------------------------------------------------------------
(* Messages of the peer *)

\* Fault: a message is lost behind the one that arrives.
ArrivesSkipping(s, kinds) ==
  /\ got[s] < Len(sent[Peer(s)]) /\ channel[s] # "DEAD"
  /\ sent[Peer(s)][got[s] + 1][1] \in kinds
  /\ got' = Set(got, s, got[s] + 2)

\* The next message for s, which is alive as long as the end knows.
Arrives(s, kinds) ==
  /\ got[s] < Len(sent[Peer(s)]) /\ channel[s] # "DEAD"
  /\ sent[Peer(s)][got[s] + 1][1] \in kinds
  /\ got' = Set(got, s, got[s] + 1)

Arriving(s) == sent[Peer(s)][got[s] + 1]

\* The answer of the giver, which setSyncNextHandler awaits.
Response ==
  /\ phase["getter"] = "awaiting"
  /\ Arrives("getter", {"ok", "fail"})
  /\ Reply(Arriving("getter")[1])
  /\ UNCHANGED <<client, host, failing, gone, socketVars, paused, up>>

\* onPeerOpenedChannel_: a Session starts, unless the user has too many.
PeerOpenedChannel ==
  /\ Arrives("giver", {"OPEN"})
  /\ \/ /\ phase' = Set(phase, "giver", "endpoint")
        /\ channel' = Set(channel, "giver", "OPEN")
        /\ UNCHANGED sent
     \/ /\ phase' = Set(phase, "giver", "refused")
        /\ channel' = Set(channel, "giver", "CLOSING")
        /\ Post("giver", <<Msg("CLOSE")>>)
  /\ UNCHANGED <<client, host, stopping, failing, tcp, gone, socketVars, flowVars,
                 fromSocket, toSocket, inbox, up>>

\* receiveEndpointFromPeer_ and getTcpConnection_: the connection is made, or
\* the peer is told that it will not be, and the Session ends.
ReceiveEndpoint ==
  /\ phase["giver"] = "endpoint"
  /\ Arrives("giver", {"request"})
  /\ \/ /\ client # "badCommand" /\ host # "forbidden"
        /\ phase' = Set(phase, "giver", "connecting")
        /\ tcp' = Set(tcp, "giver", "connecting")
        /\ wants' = Set(wants, "giver", "pause")
        /\ UNCHANGED <<stopping, channel, sent>>
     \/ /\ client = "badCommand" \/ host = "forbidden"
        /\ phase' = Set(phase, "giver", "failed")
        /\ GiverStop(<<Msg("fail")>>)
        /\ UNCHANGED wants
  /\ UNCHANGED <<client, host, failing, gone, socketVars, paused, overflow,
                 fromSocket, toSocket, inbox, up>>

\* sendOnSocket_, or no handler to call: a buffer, or a message for a Session
\* that does not await it.
Receive(s) ==
  /\ channel[s] \in {"OPEN", "CLOSING"}
  /\ \/ Arrives(s, {"data"})
     \/ Arrives(s, {"request"}) /\ phase[s] # "endpoint"
     \/ Arrives(s, {"ok", "fail"}) /\ phase[s] # "awaiting"
  /\ IF phase[s] = "linked"
     THEN Write(s, <<Arriving(s)>>) /\ UNCHANGED inbox
     ELSE inbox' = Set(inbox, s, Append(inbox[s], Arriving(s))) /\ UNCHANGED toSocket
  /\ UNCHANGED <<client, host, phase, stopping, failing, tcp, gone, socketVars,
                 flowVars, fromSocket, channel, sent, up>>

\* A Session exists whose onceClosed reaction stops it.
Started(s) == phase[s] \notin {"opening", "unopened", "waiting", "refused"}

\* The channel has come to state now, after sending msgs; onceClosed stops the
\* Session.
ChannelClosed(s, now, msgs) ==
  IF Started(s)
  THEN StopAt(s, now, msgs) /\ DropQueue(s)
  ELSE /\ channel' = Set(channel, s, now)
       /\ UNCHANGED <<stopping, tcp, fromSocket, sent>>

\* CLOSE, from an end that did it first or, if both did, the answer.
CloseArrives(s) ==
  /\ Arrives(s, {"CLOSE"})
  /\ \/ /\ channel[s] = "OPEN"
        /\ channel' = Set(channel, s, "DRAINING")
        /\ UNCHANGED <<stopping, tcp, fromSocket, sent>>
     \/ /\ channel[s] = "CLOSING"
        /\ ChannelClosed(s, "CLOSED", <<>>)
  /\ UNCHANGED <<client, host, phase, failing, gone, socketVars, flowVars, toSocket,
                 inbox, up>>

\* The answer to CLOSE is sent when what came before it has been handled.
Drained(s) ==
  /\ channel[s] = "DRAINING" /\ inbox[s] = <<>>
  /\ ChannelClosed(s, "CLOSED", <<Msg("CLOSE")>>)
  /\ UNCHANGED <<client, host, phase, failing, gone, socketVars, flowVars, toSocket,
                 got, inbox, up>>

\* The data channel, or the connection of the peers, fails ...
ChannelFails ==
  /\ up /\ up' = FALSE
  /\ UNCHANGED <<client, host, phase, stopping, failing, tcp, gone, socketVars, flowVars,
                 fromSocket, toSocket, channel, sent, got, inbox>>

\* ... of which each end learns.
ChannelLost(s) ==
  /\ ~up /\ channel[s] # "DEAD"
  /\ ChannelClosed(s, "DEAD", <<>>)
  /\ UNCHANGED <<client, host, phase, failing, gone, socketVars, flowVars, toSocket,
                 got, inbox, up>>

-----------------------------------------------------------------------------
(* The giver's connection *)

\* onceConnected, also when the socket has been closed since.  A host whose
\* name turns out to be one of a forbidden address is linked like any other
\* but the Session is to stop once the FAILURE is sent.
Connected ==
  /\ phase["giver"] = "connecting" /\ host \in {"good", "named"}
  /\ failing' = (host = "named" /\ channel["giver"] = "OPEN")
  /\ GiverLink(<<Msg(IF host = "named" THEN "fail" ELSE "ok")>>)
  /\ UNCHANGED <<client, host, gone, socketVars, paused, got, up>>

\* onceConnected rejects, and onceClosed settles; the peer is told why.
ConnectFails ==
  /\ phase["giver"] = "connecting" /\ (host = "absent" \/ stopping["giver"])
  /\ phase' = Set(phase, "giver", "failed")
  /\ gone' = Set(gone, "giver", TRUE)
  /\ GiverStop(<<Msg("fail")>>) /\ DropQueue("giver")
  /\ UNCHANGED <<client, host, failing, socketVars, flowVars, toSocket, got, inbox, up>>

\* The reaction to the sending of a reply other than SUCCEEDED.
FailureSent ==
  /\ failing /\ failing' = FALSE
  /\ GiverStop(<<>>) /\ DropQueue("giver")
  /\ UNCHANGED <<client, host, phase, gone, socketVars, flowVars, toSocket, got, inbox, up>>

-----------------------------------------------------------------------------
(* Events of the sockets *)

\* onData: a packet is put on the queue or, if the Session is linked, sent to
\* the peer; the listener is called if that puts the data channel in overflow.
OnData(s) ==
  /\ ~paused[s]
  /\ tcp[s] = "open" \/ (tcp[s] = "connecting" /\ host # "absent")
  /\ arrived[s] < (IF s = "getter" THEN MaxData + 2 ELSE MaxData)
  /\ arrived' = Set(arrived, s, arrived[s] + 1)
  /\ \/ /\ phase[s] # "linked"
        /\ fromSocket' = Set(fromSocket, s, Append(fromSocket[s], arrived'[s]))
        /\ UNCHANGED <<wants, overflow, sent>>
     \/ /\ phase[s] = "linked"
        /\ Post(s, Accepted(s, <<Packet(arrived'[s])>>))
        /\ MayOverflow(s, <<Packet(arrived'[s])>>)
        /\ wants' = IF overflow' = overflow THEN wants ELSE Set(wants, s, "pause")
        /\ UNCHANGED fromSocket
  /\ UNCHANGED <<client, host, phase, stopping, failing, tcp, gone, left, paused,
                 toSocket, channel, got, inbox, up>>

\* The data channel has room again; the listener resumes a socket that has not
\* closed.
OverflowEnds(s) ==
  /\ overflow[s]
  /\ overflow' = Set(overflow, s, FALSE)
  /\ wants' = IF phase[s] = "linked" /\ tcp[s] # "closed" THEN Set(wants, s, "run")
              ELSE wants
  /\ UNCHANGED <<client, host, phase, stopping, failing, tcp, gone, socketVars, paused,
                 fromSocket, toSocket, channel, sent, got, inbox, up>>

\* pause() and resume() take effect some time after the call.
PauseTakesEffect(s) ==
  /\ paused[s] # (wants[s] = "pause")
  /\ paused' = Set(paused, s, wants[s] = "pause")
  /\ UNCHANGED <<client, host, phase, stopping, failing, tcp, gone, socketVars, wants,
                 overflow, fromSocket, toSocket, channel, sent, got, inbox, up>>

\* onDisconnect, of a socket that was told to close or that the other side closed.
OnDisconnect(s) ==
  /\ tcp[s] \in {"open", "closing"}
  /\ tcp' = Set(tcp, s, "closed")
  /\ left' = Set(left, s, tcp[s] = "open")
  /\ UNCHANGED <<client, host, phase, stopping, failing, gone, arrived, flowVars,
                 fromSocket, toSocket, channel, sent, got, inbox, up>>

\* Fault: nobody listens to onceClosed.
OnceClosedUnheard(s) ==
  /\ tcp[s] = "closed" /\ ~gone[s] /\ phase[s] # "connecting"
  /\ gone' = Set(gone, s, TRUE)
  /\ UNCHANGED <<client, host, phase, stopping, failing, tcp, socketVars, flowVars,
                 fromSocket, toSocket, channel, sent, got, inbox, up>>

\* onceClosed, once the calls to the provider have returned.  A Session that is
\* linked listens to it.
OnceClosed(s) ==
  /\ tcp[s] = "closed" /\ ~gone[s] /\ phase[s] # "connecting"
  /\ gone' = Set(gone, s, TRUE)
  /\ IF phase[s] = "linked" THEN Stop(s, <<>>) ELSE UNCHANGED <<stopping, tcp, channel, sent>>
  /\ UNCHANGED <<client, host, phase, failing, socketVars, flowVars, fromSocket, toSocket,
                 got, inbox, up>>

-----------------------------------------------------------------------------
Getter == OpenDataChannel \/ OpenFails \/ DoAuthHandshake \/ SendRequest \/ NoRequest \/ Response

Giver == PeerOpenedChannel \/ ReceiveEndpoint \/ Connected \/ ConnectFails \/ FailureSent

Channel(s) == Receive(s) \/ CloseArrives(s) \/ Drained(s) \/ ChannelLost(s)

Socket(s) == OnData(s) \/ OnDisconnect(s)

Next ==
  \/ Getter \/ Giver \/ ChannelFails
  \/ \E s \in Sides : Channel(s) \/ Socket(s) \/ OverflowEnds(s) \/ PauseTakesEffect(s)
                        \/ OnceClosed(s)

Spec == Init /\ [][Next]_vars

\* Promises settle, messages arrive, a data channel transmits what it holds, a
\* failure is learnt of, and a socket that was told to close does.  Nobody has
\* to send anything, to leave or to fail.
FairSpec ==
  /\ Spec
  /\ WF_vars(Getter) /\ WF_vars(Giver)
  /\ \A s \in Sides :
       /\ WF_vars(Channel(s)) /\ WF_vars(OverflowEnds(s)) /\ WF_vars(OnceClosed(s))
       /\ WF_vars(tcp[s] = "closing" /\ OnDisconnect(s))

-----------------------------------------------------------------------------
(* Properties *)

Data(s) == [i \in 1..arrived[s] |-> Packet(i)]

\* The host is given what the client sent after its request, and the client
\* what the host sent, but only behind a reply of success, and each in order.
\* Nothing of the handshakes is taken for data and nothing is lost in between,
\* whenever the packets come.
StreamsInOrder ==
  /\ IsPrefix(toSocket["giver"], SubSeq(Data("getter"), 3, arrived["getter"]))
  /\ \/ IsPrefix(toSocket["getter"], <<Msg("auth"), Msg("ok")>> \o Data("giver"))
     \/ toSocket["getter"] \in {<<Msg("fail")>>, <<Msg("auth"), Msg("fail")>>}

\* A client that has greeted is told how its request fared before its socket is
\* closed, unless the giver had too many Sessions or the channel failed: the
\* CLOSE of a giver that gives up is behind its reply.
AnsweredBeforeClose ==
  tcp["getter"] = "closing" =>
    \/ Len(toSocket["getter"]) >= 2
    \/ client = "badAuth" \/ phase["giver"] = "refused" \/ ~up

\* While a Session lasts its socket is paused exactly as long as the channel is
\* in overflow, also if that happened before there was a listener.
PauseFollowsOverflow ==
  \A s \in Sides : phase[s] = "linked" /\ tcp[s] = "open" =>
                     wants[s] = IF overflow[s] THEN "pause" ELSE "run"

\* The comment at linkSocketAndChannel_ says why it is safe to close the channel
\* once the socket has: what the socket delivered has been sent, and arrives.
NothingLostAtClose ==
  \A s \in Sides :
    (left[s] /\ phase[s] = "linked" /\ channel[s] = "CLOSED" /\ up
       /\ phase[Peer(s)] = "linked" /\ ~left[Peer(s)])
      => IF s = "getter"
         THEN toSocket["giver"] = SubSeq(Data("getter"), 3, arrived["getter"])
         ELSE toSocket["getter"] = <<Msg("auth"), Msg("ok")>> \o Data("giver")

\* What one socket delivers the other is given, in order, behind the handshake's
\* replies, and to the last byte although the sockets and the channel close.
StreamsComplete == StreamsInOrder /\ AnsweredBeforeClose /\ NothingLostAtClose

Released(s) ==
  /\ channel[s] \in {"CLOSED", "DEAD"}
  /\ stopping[s] /\ (tcp[s] = "none" \/ gone[s])

\* When a linked Session loses its socket, or stops, both Sessions come to their
\* end, with both sockets and both ends of the channel closed, unless the getter is
\* caught in its reply to a client that has left (it waits for a write that is never
\* answered).
ReleasedInTheEnd ==
  (\E s \in Sides : phase[s] = "linked" /\ (gone[s] \/ stopping[s]))
    ~> \/ \A s \in Sides : Released(s)
       \/ phase["getter"] = "responding"

\* What socks-to-rtc.ts:252-257 says of onceStopped, "Fulfills once the SOCKS session
\* has terminated ... in response to: startup (negotiation) failure, TCP connection or
\* datachannel termination": a Session of the getter whose socket has ended stops.
\* It does not while it is waiting to reply.
DocumentedStop == (Started("getter") /\ gone["getter"]) ~> stopping["getter"]
=============================================================================
