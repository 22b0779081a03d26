-------------------------------- MODULE Proxy --------------------------------
(***************************************************************************)
(* The life of the two ends of a proxy: SocksToRtc of src/src/socks-to-rtc *)
(* /socks-to-rtc.ts (the getter: a TCP server and a peer connection) and   *)
(* RtcToNet of src/src/rtc-to-net/rtc-to-net.ts (the giver), from start()  *)
(* to the end of their last session, with the limit of sessions per user.  *)
(*                                                                         *)
(* A session is what Session shows of it: it lasts until its socket or its *)
(* channel closes, then closes the other, and the CLOSE of one end of a    *)
(* channel is answered by the other end.  The labels of pooled channels    *)
(* are used again, as in Pool.                                             *)
(***************************************************************************)
EXTENDS TcpServer

CONSTANTS
  Labels,        \* the data channels the pool may hold
  SESSION_LIMIT,
  MaxElsewhere   \* bound: sessions of the user in another RtcToNet

Sides == {"getter", "giver"}
Peer(s) == IF s = "getter" THEN "giver" ELSE "getter"

ASSUME ProxyAssumption ==
  /\ IsFiniteSet(Labels) /\ SESSION_LIMIT \in Nat \ {0} /\ MaxElsewhere \in Nat
  /\ Labels \cap Sockets = {}

None == 0  \* no socket is numbered 0

VARIABLES
  elsewhere,    \* live sessions of the user in another RtcToNet
  numSessions,  \* numSessions_ of the user, 0 if there is no entry
  stopping,     \* fulfillStopping_ and stopResources_ have run
  pc,           \* the peer connection of each side
  session,      \* the sessions of each side, named by the client's socket
  channel,      \* the ends of their pooled channels
  label,        \* and the labels of these
  sessions      \* sessions_ of the giver

sessionVars == <<elsewhere, numSessions, session, channel, label, sessions>>
lifeVars == <<stopping, pc>>
vars == <<serverVars, sessionVars, lifeVars>>

TypeOK ==
  /\ ServerTypeOK
  /\ elsewhere \in 0..MaxElsewhere /\ numSessions \in Nat
  /\ stopping \in [Sides -> BOOLEAN]
  /\ pc \in [Sides -> {"waiting", "connected", "closed"}]
  /\ session \in [Sides -> [Sockets ->
       {"none", "opening", "unopened", "live", "refused", "stopping", "stopped"}]]
  /\ channel \in [Sides -> [Sockets -> {"none", "open", "closing", "closed"}]]
  /\ label \in [Sockets -> Labels \cup {None}]
  /\ sessions \in [Labels -> Sockets \cup {None}]

\* The giver keeps the sessions of each label and, for all RtcToNets, the counts.
RtcToNetInit ==
  /\ elsewhere = 0 /\ numSessions = 0
  /\ sessions = [l \in Labels |-> None]

Init ==
  /\ ServerInit /\ RtcToNetInit
  /\ stopping = [s \in Sides |-> FALSE]
  /\ pc = [s \in Sides |-> "waiting"]
  /\ session = [s \in Sides |-> [c \in Sockets |-> "none"]]
  /\ channel = [s \in Sides |-> [c \in Sockets |-> "none"]]
  /\ label = [c \in Sockets |-> None]

Put(f, s, c, v) == [f EXCEPT ![s][c] = v]

-----------------------------------------------------------------------------
(* Start and stop *)

\* start() of the getter, whose server listens, and of the giver.
Start ==
  /\ Listen
  /\ UNCHANGED <<sessionVars, lifeVars>>

Started == call["listen"] # "idle"

\* fulfillStopping_ and its reaction stopResources_: the peer connection is
\* closed and, by the getter, the server shut down.
StopResources(s) ==
  /\ ~stopping[s]
  /\ stopping' = [stopping EXCEPT ![s] = TRUE]
  /\ pc' = [pc EXCEPT ![s] = "closed"]
  /\ IF s = "getter" THEN StopListening ELSE UNCHANGED serverVars
  /\ UNCHANGED sessionVars

\* stop(), by the user.
Stop(s) == Started /\ StopResources(s)

\* The other reasons: the server has ended, which it does also if it cannot
\* listen, or the peer connection has.
GetterEnded == pc["getter"] = "closed" \/ onceShutdown
GiverEnded == pc["giver"] = "closed"

MustStop(s) ==
  /\ IF s = "getter" THEN GetterEnded ELSE GiverEnded
  /\ StopResources(s)

\* onceStopped of the getter fulfils.
OnceStopped == stopping["getter"] /\ shutdown = "done"

\* The peers connect; a side fails, or learns that the other has closed.
Connected(s) ==
  /\ Started /\ pc[s] = "waiting" /\ pc[Peer(s)] # "closed"
  /\ pc' = [pc EXCEPT ![s] = "connected"]
  /\ UNCHANGED <<serverVars, sessionVars, stopping>>

Disconnected(s) ==
  /\ Started /\ pc[s] # "closed"
  /\ pc' = [pc EXCEPT ![s] = "closed"]
  /\ UNCHANGED <<serverVars, sessionVars, stopping>>

-----------------------------------------------------------------------------
(* The steps of the server while the getter runs *)

ServerStep ==
  /\ ListeningSocket \/ SocketDies \/ StoppedListening \/ AllClosed
  /\ UNCHANGED <<sessionVars, lifeVars>>

ConnectionStep(c) ==
  /\ Dropped(c) \/ ConnectionGone(c) \/ ConnectionClosed(c)
  /\ UNCHANGED <<sessionVars, lifeVars>>

\* makeTcpToRtcSession_: the pool is asked for a channel.
NewClient(c) ==
  /\ OnConnection(c)
  /\ session' = IF conn'[c] = "open" THEN Put(session, "getter", c, "opening") ELSE session
  /\ UNCHANGED <<elsewhere, numSessions, channel, label, sessions, lifeVars>>

\* A label is free when the session before has closed its channel at this end.
Free(s, l) == \A c \in Sockets : label[c] = l => channel[s][c] \in {"none", "closed"}

ChannelOpened(c) ==
  /\ session["getter"][c] = "opening" /\ pc["getter"] = "connected"
  /\ \E l \in Labels : Free("getter", l) /\ label' = [label EXCEPT ![c] = l]
  /\ session' = Put(session, "getter", c, "live")
  /\ channel' = Put(channel, "getter", c, "open")
  /\ UNCHANGED <<serverVars, elsewhere, numSessions, sessions, lifeVars>>

\* The client is told, and its connection left to itself.
ChannelRefused(c) ==
  /\ session["getter"][c] = "opening"
  /\ session' = Put(session, "getter", c, "unopened")
  /\ UNCHANGED <<serverVars, elsewhere, numSessions, channel, label, sessions, lifeVars>>

-----------------------------------------------------------------------------
(* The giver's count of sessions; without a userId it does not count *)

\* addUserSession_ succeeds, and fails.
AddUserSession ==
  /\ numSessions = 0 \/ numSessions < SESSION_LIMIT
  /\ numSessions' = numSessions + 1

UserSessionLimit == numSessions # 0 /\ numSessions >= SESSION_LIMIT

RemoveUserSession == numSessions' = numSessions - 1

\* Fault: a channel that is refused is counted.
PeerOpenedCounting(c) ==
  /\ channel["getter"][c] # "none" /\ channel["giver"][c] = "none"
  /\ pc["giver"] = "connected" /\ Free("giver", label[c])
  /\ \/ /\ AddUserSession
        /\ session' = Put(session, "giver", c, "live")
        /\ channel' = Put(channel, "giver", c, "open")
        /\ sessions' = [sessions EXCEPT ![label[c]] = c]
     \/ /\ UserSessionLimit
        /\ session' = Put(session, "giver", c, "refused")
        /\ channel' = Put(channel, "giver", c, "closing")
        /\ numSessions' = numSessions + 1
        /\ UNCHANGED sessions
  /\ UNCHANGED <<serverVars, elsewhere, label, lifeVars>>

\* onPeerOpenedChannel_.
OnPeerOpenedChannel(c) ==
  /\ channel["getter"][c] # "none" /\ channel["giver"][c] = "none"
  /\ pc["giver"] = "connected" /\ Free("giver", label[c])
  /\ \/ /\ AddUserSession
        /\ session' = Put(session, "giver", c, "live")
        /\ channel' = Put(channel, "giver", c, "open")
        /\ sessions' = [sessions EXCEPT ![label[c]] = c]
     \/ /\ UserSessionLimit
        /\ session' = Put(session, "giver", c, "refused")
        /\ channel' = Put(channel, "giver", c, "closing")
        /\ UNCHANGED <<numSessions, sessions>>
  /\ UNCHANGED <<serverVars, elsewhere, label, lifeVars>>

\* Another RtcToNet of the same user.
SessionElsewhere ==
  /\ \/ elsewhere < MaxElsewhere /\ AddUserSession /\ elsewhere' = elsewhere + 1
     \/ elsewhere > 0 /\ RemoveUserSession /\ elsewhere' = elsewhere - 1
  /\ UNCHANGED <<serverVars, session, channel, label, sessions, lifeVars>>

-----------------------------------------------------------------------------
(* The end of a session *)

\* The getter's session, whose channel comes to state now, closes its socket.
EndGetter(c, now) ==
  /\ session' = Put(session, "getter", c, "stopping")
  /\ channel' = Put(channel, "getter", c, now)
  /\ conn' = Closing({c})
  /\ UNCHANGED <<counterVars, socket, onceListening, onceShutdown, connections, shutdown,
                 awaited, elsewhere, numSessions, label, sessions, lifeVars>>

EndGiver(c, now) ==
  /\ session' = IF session["giver"][c] = "live" THEN Put(session, "giver", c, "stopping")
                ELSE session
  /\ channel' = Put(channel, "giver", c, now)
  /\ UNCHANGED <<serverVars, elsewhere, numSessions, label, sessions, lifeVars>>

End(s, c, now) == IF s = "getter" THEN EndGetter(c, now) ELSE EndGiver(c, now)

\* A session stops: its socket has closed, or it gave up.  The end of the
\* client's is known when onceClosed settles.
SessionStops(s, c) ==
  /\ session[s][c] = "live" /\ channel[s][c] = "open"
  /\ s = "getter" => conn[c] \in {"open", "closed"}
  /\ End(s, c, "closing")

\* The CLOSE of the peer, or its answer; or all channels are gone.
ChannelCloses(s, c) ==
  /\ channel[s][c] \in {"open", "closing"}
  /\ channel[Peer(s)][c] \in {"closing", "closed"} \/ pc[s] = "closed"
  /\ End(s, c, "closed")

\* onceStopped of the sessions: the socket has closed.  discard() of the giver
\* removes what it finds under the label.
GetterSessionStopped(c) ==
  /\ session["getter"][c] = "stopping" /\ conn[c] = "closed"
  /\ session' = Put(session, "getter", c, "stopped")
  /\ UNCHANGED <<serverVars, elsewhere, numSessions, channel, label, sessions, lifeVars>>

\* Fault: a session that was refused is taken off the count as well.
DiscardRefused(c) ==
  /\ session["giver"][c] \in {"stopping", "refused"}
  /\ session' = Put(session, "giver", c, "stopped")
  /\ sessions' = [sessions EXCEPT ![label[c]] = None]
  /\ RemoveUserSession
  /\ UNCHANGED <<serverVars, elsewhere, channel, label, lifeVars>>

GiverSessionStopped(c) ==
  /\ session["giver"][c] = "stopping"
  /\ session' = Put(session, "giver", c, "stopped")
  /\ sessions' = [sessions EXCEPT ![label[c]] = None]
  /\ RemoveUserSession
  /\ UNCHANGED <<serverVars, elsewhere, channel, label, lifeVars>>

-----------------------------------------------------------------------------
SessionStep(c) ==
  \/ ConnectionStep(c) \/ ChannelOpened(c) \/ ChannelRefused(c) \/ OnPeerOpenedChannel(c)
  \/ GetterSessionStopped(c) \/ GiverSessionStopped(c)
  \/ \E s \in Sides : ChannelCloses(s, c)

Next ==
  \/ Start \/ ServerStep \/ SessionElsewhere
  \/ \E s \in Sides : Stop(s) \/ MustStop(s) \/ Connected(s) \/ Disconnected(s)
  \/ \E c \in Sockets : \/ NewClient(c) \/ SessionStep(c)
                        \/ \E s \in Sides : SessionStops(s, c)

Spec == Init /\ [][Next]_vars

\* Promises settle, providers answer, sockets that were told to close do, and a
\* peer learns that the other has closed (PeerGoneCloses of PeerConnection).
\* No client has to come or to go, and nobody has to stop.
FairSpec ==
  /\ Spec
  /\ WF_vars((ListeningSocket \/ AllClosed) /\ UNCHANGED <<sessionVars, lifeVars>>)
  /\ WF_vars(destructions = 0 /\ StoppedListening /\ UNCHANGED <<sessionVars, lifeVars>>)
  /\ WF_vars(pc["getter"] = "closed" /\ Disconnected("giver"))
  /\ WF_vars(pc["giver"] = "closed" /\ Disconnected("getter"))
  /\ \A s \in Sides : WF_vars(MustStop(s))
  /\ \A c \in Sockets :
       /\ WF_vars(conn[c] = "closing" /\ ConnectionGone(c) /\ UNCHANGED <<sessionVars, lifeVars>>)
       /\ WF_vars(ConnectionClosed(c) /\ UNCHANGED <<sessionVars, lifeVars>>)
       /\ WF_vars(conn[c] = "closed" /\ SessionStops("getter", c))
       /\ \A s \in Sides : WF_vars(ChannelCloses(s, c))
       /\ WF_vars(GetterSessionStopped(c)) /\ WF_vars(GiverSessionStopped(c))

-----------------------------------------------------------------------------
(* Properties *)

LiveSessions == {c \in Sockets : session["giver"][c] \in {"live", "stopping"}}

\* The count of the user is the number of the sessions that have not ended, here
\* and elsewhere, and within the limit: refusals, failures and ends in any order
\* neither leak a session nor count one twice.  A label that is used again is
\* not left with a session that has ended.
SessionsCounted ==
  /\ numSessions = Cardinality(LiveSessions) + elsewhere
  /\ numSessions <= SESSION_LIMIT
  /\ \A l \in Labels : sessions[l] # None => sessions[l] \in LiveSessions

\* Both limits count what there is: sockets at the getter, sessions at the giver.
LimitsCountTheLiving == LimitKept /\ SessionsCounted

\* When the getter is to stop, it does, and nothing is left on either side: no
\* socket, no channel, no session; unless its server had died by itself.
StopReleasesAll ==
  stopping["getter"] ~>
    \/ socket = "dead"
    \/ /\ OnceStopped
       /\ Live = {} /\ LiveSessions = {}
       /\ \A s \in Sides, c \in Sockets : channel[s][c] \in {"none", "closed"}

\* A shutdown is over when, and only when, nothing is left of what it stops.
ReleasesAll == []ShutdownIsComplete /\ StopReleasesAll
=============================================================================
