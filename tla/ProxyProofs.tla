----------------------------- MODULE ProxyProofs -----------------------------
(* Proofs about Proxy and the TcpServer in it, for any number of clients, any *)
(* labels and any limits.                                                      *)
EXTENDS Proxy, FiniteSetTheorems, TLAPS

-----------------------------------------------------------------------------
(* The limit of the server *)

ConnectionStates == {"none", "open", "closing", "gone", "closed", "dropped", "destroyed"}

ServerInv == conn \in [Sockets -> ConnectionStates] /\ LimitKept

LEMMA LiveFinite == IsFiniteSet(Live) /\ Cardinality(Live) \in Nat
<1>1. IsFiniteSet(Sockets)
  BY TcpServerAssumption, FS_Interval DEF Sockets
<1>2. Live \subseteq Sockets
  BY DEF Live
<1> QED
  BY <1>1, <1>2, FS_Subset, FS_CardinalityType

LEMMA ConnectionsSame ==
  ASSUME ServerInv, UNCHANGED <<conn, connections>>
  PROVE  ServerInv'
<1>1. Live' = Live
  BY DEF Live
<1> QED
  BY <1>1 DEF ServerInv, LimitKept

\* A connection that is told to close lives on, whoever tells it.
LEMMA ClosingKeeps ==
  ASSUME ServerInv, NEW cs, conn' = Closing(cs), connections' = connections
  PROVE  ServerInv' /\ \A c \in Sockets : conn'[c] = "none" <=> conn[c] = "none"
<1>1. \A c \in Sockets : /\ conn'[c] \in ConnectionStates
                         /\ conn'[c] = "none" <=> conn[c] = "none"
                         /\ conn'[c] \in {"open", "closing", "gone"}
                              <=> conn[c] \in {"open", "closing", "gone"}
  BY DEF ServerInv, Closing, ConnectionStates
<1>2. conn' \in [Sockets -> ConnectionStates]
  BY <1>1 DEF Closing
<1>3. Live' = Live
  BY <1>1 DEF Live
<1> QED
  BY <1>1, <1>2, <1>3 DEF ServerInv, LimitKept

\* A connection is taken into the map only below the limit.
LEMMA AcceptKeeps ==
  ASSUME ServerInv, NEW c \in Sockets, Accept(c)
  PROVE  /\ ServerInv'
         /\ conn[c] = "none" /\ conn'[c] \in {"open", "dropped"}
         /\ \A d \in Sockets \ {c} : conn'[d] = conn[d]
<1>0. conn \in [Sockets -> ConnectionStates] /\ conn[c] = "none"
  BY DEF ServerInv, Accept
<1>1. CASE Cardinality(connections) >= MaxConnections /\ UNCHANGED connections
           /\ conn' = [conn EXCEPT ![c] = "dropped"]
  <2>1. Live' = Live
    BY <1>0, <1>1 DEF Live
  <2> QED
    BY <1>0, <1>1, <2>1 DEF ServerInv, LimitKept, ConnectionStates
<1>2. CASE Cardinality(connections) < MaxConnections /\ connections' = connections \cup {c}
           /\ conn' = [conn EXCEPT ![c] = "open"]
  <2>1. Live' = Live \cup {c} /\ c \notin Live
    BY <1>0, <1>2 DEF Live
  <2>2. Cardinality(Live') = Cardinality(Live) + 1
    BY <2>1, LiveFinite, FS_AddElement
  <2>3. Cardinality(Live') <= MaxConnections
    BY <1>2, <2>2, LiveFinite, TcpServerAssumption DEF ServerInv, LimitKept
  <2>4. connections' = Live'
    BY <1>2, <2>1 DEF ServerInv, LimitKept
  <2>5. conn' \in [Sockets -> ConnectionStates] /\ conn'[c] = "open"
        /\ \A d \in Sockets \ {c} : conn'[d] = conn[d]
    BY <1>0, <1>2 DEF ConnectionStates
  <2> QED
    BY <1>0, <2>3, <2>4, <2>5 DEF ServerInv, LimitKept
<1> QED
  BY <1>1, <1>2 DEF Accept

LEMMA GoneKeeps ==
  ASSUME ServerInv, NEW c \in Sockets, Dropped(c) \/ ConnectionGone(c)
  PROVE  ServerInv' /\ \A d \in Sockets : conn'[d] = "none" <=> conn[d] = "none"
<1>0. conn \in [Sockets -> ConnectionStates] /\ connections' = connections
  BY DEF ServerInv, Dropped, ConnectionGone
<1>1. CASE Dropped(c)
  <2>1. conn[c] = "dropped" /\ conn' = [conn EXCEPT ![c] = "destroyed"]
    BY <1>1 DEF Dropped
  <2>2. Live' = Live
    BY <1>0, <2>1 DEF Live
  <2> QED
    BY <1>0, <2>1, <2>2 DEF ServerInv, LimitKept, ConnectionStates
<1>2. CASE ConnectionGone(c)
  <2>1. conn[c] \in {"open", "closing"} /\ conn' = [conn EXCEPT ![c] = "gone"]
    BY <1>2 DEF ConnectionGone
  <2>2. Live' = Live
    BY <1>0, <2>1 DEF Live
  <2> QED
    BY <1>0, <2>1, <2>2 DEF ServerInv, LimitKept, ConnectionStates
<1> QED
  BY <1>1, <1>2

\* One that has closed leaves the map in the same step in which it stops counting.
LEMMA ClosedKeeps ==
  ASSUME ServerInv, NEW c \in Sockets, ConnectionClosed(c)
  PROVE  ServerInv' /\ \A d \in Sockets : conn'[d] = "none" <=> conn[d] = "none"
<1>0. conn \in [Sockets -> ConnectionStates] /\ conn[c] = "gone"
      /\ conn' = [conn EXCEPT ![c] = "closed"] /\ connections' = connections \ {c}
  BY DEF ServerInv, ConnectionClosed
<1>1. Live' = Live \ {c} /\ c \in Live
  BY <1>0 DEF Live
<1>2. Cardinality(Live') = Cardinality(Live) - 1
  BY <1>1, LiveFinite, FS_RemoveElement
<1>3. Cardinality(Live') <= MaxConnections
  BY <1>2, LiveFinite, TcpServerAssumption DEF ServerInv, LimitKept
<1>4. connections' = Live'
  BY <1>0, <1>1 DEF ServerInv, LimitKept
<1>5. conn' \in [Sockets -> ConnectionStates]
      /\ \A d \in Sockets : conn'[d] = "none" <=> conn[d] = "none"
  BY <1>0 DEF ConnectionStates
<1> QED
  BY <1>3, <1>4, <1>5 DEF ServerInv, LimitKept

\* What the socket does by itself leaves the connections alone, but for closeAll().
LEMMA SocketKeeps ==
  ASSUME ServerInv, ListeningSocket \/ SocketDies \/ StoppedListening \/ AllClosed
  PROVE  ServerInv' /\ \A c \in Sockets : conn'[c] = "none" <=> conn[c] = "none"
<1>1. CASE ListeningSocket \/ SocketDies \/ AllClosed
  <2>1. UNCHANGED <<conn, connections>>
    BY <1>1 DEF ListeningSocket, Bound, Listening, ListenFails, SocketCloses,
                ServerOnDisconnect, SocketDies, AllClosed
  <2> QED
    BY <2>1, ConnectionsSame
<1>2. CASE StoppedListening
  <2>1. connections' = connections /\ (conn' = conn \/ conn' = Closing(connections))
    BY <1>2 DEF StoppedListening, CloseAll
  <2> QED
    BY <2>1, ConnectionsSame, ClosingKeeps
<1> QED
  BY <1>1, <1>2

-----------------------------------------------------------------------------
(* The sessions *)

SessionStates == {"none", "opening", "unopened", "live", "refused", "stopping", "stopped"}
ChannelStates == {"none", "open", "closing", "closed"}
Early == {"none", "opening", "unopened"}

SessionTypes ==
  /\ elsewhere \in Nat /\ numSessions \in Nat
  /\ session \in [Sides -> [Sockets -> SessionStates]]
  /\ channel \in [Sides -> [Sockets -> ChannelStates]]
  /\ label \in [Sockets -> Labels \cup {None}]
  /\ sessions \in [Labels -> Sockets \cup {None}]

\* A session has its steps in order: a client, a channel here, a channel there.
InSteps ==
  \A c \in Sockets :
    /\ conn[c] = "none" => session["getter"][c] = "none"
    /\ session["getter"][c] \in Early => channel["getter"][c] = "none"
    /\ channel["getter"][c] = "none" => channel["giver"][c] = "none"
    /\ channel["giver"][c] = "none" => session["giver"][c] = "none"

\* What the giver finds under a label is a session that has not ended, and has it.
Labelled ==
  \A l \in Labels, c \in Sockets :
    sessions[l] = c => c \in LiveSessions /\ label[c] = l

Counted ==
  /\ numSessions = Cardinality(LiveSessions) + elsewhere
  /\ numSessions <= SESSION_LIMIT

SessionInv == SessionTypes /\ InSteps /\ Labelled /\ Counted

Inv == ServerInv /\ SessionInv

\* What a step does that brings the session or the channel of one client to v.
LEMMA SessionGetter ==
  ASSUME session \in [Sides -> [Sockets -> SessionStates]], NEW c \in Sockets, NEW v \in SessionStates,
         session' = Put(session, "getter", c, v)
  PROVE  /\ session' \in [Sides -> [Sockets -> SessionStates]]
         /\ \A d \in Sockets : session'["getter"][d] = IF d = c THEN v ELSE session["getter"][d]
         /\ session'["giver"] = session["giver"]
  BY DEF Put, Sides

LEMMA SessionGiver ==
  ASSUME session \in [Sides -> [Sockets -> SessionStates]], NEW c \in Sockets, NEW v \in SessionStates,
         session' = Put(session, "giver", c, v)
  PROVE  /\ session' \in [Sides -> [Sockets -> SessionStates]]
         /\ \A d \in Sockets : session'["giver"][d] = IF d = c THEN v ELSE session["giver"][d]
         /\ session'["getter"] = session["getter"]
  BY DEF Put, Sides

LEMMA ChannelGetter ==
  ASSUME channel \in [Sides -> [Sockets -> ChannelStates]], NEW c \in Sockets, NEW v \in ChannelStates,
         channel' = Put(channel, "getter", c, v)
  PROVE  /\ channel' \in [Sides -> [Sockets -> ChannelStates]]
         /\ \A d \in Sockets : channel'["getter"][d] = IF d = c THEN v ELSE channel["getter"][d]
         /\ channel'["giver"] = channel["giver"]
  BY DEF Put, Sides

LEMMA ChannelGiver ==
  ASSUME channel \in [Sides -> [Sockets -> ChannelStates]], NEW c \in Sockets, NEW v \in ChannelStates,
         channel' = Put(channel, "giver", c, v)
  PROVE  /\ channel' \in [Sides -> [Sockets -> ChannelStates]]
         /\ \A d \in Sockets : channel'["giver"][d] = IF d = c THEN v ELSE channel["giver"][d]
         /\ channel'["getter"] = channel["getter"]
  BY DEF Put, Sides

LEMMA LiveSessionsFinite ==
  IsFiniteSet(LiveSessions) /\ Cardinality(LiveSessions) \in Nat
<1>1. IsFiniteSet(Sockets)
  BY TcpServerAssumption, FS_Interval DEF Sockets
<1>2. LiveSessions \subseteq Sockets
  BY DEF LiveSessions
<1> QED
  BY <1>1, <1>2, FS_Subset, FS_CardinalityType

\* Steps that leave the sessions alone.
LEMMA SessionsSame ==
  ASSUME SessionInv, UNCHANGED sessionVars,
         \A c \in Sockets : conn'[c] = "none" => conn[c] = "none"
  PROVE  SessionInv'
<1>1. /\ elsewhere' = elsewhere /\ numSessions' = numSessions /\ session' = session
      /\ channel' = channel /\ label' = label /\ sessions' = sessions
  BY DEF sessionVars
<1>2. LiveSessions' = LiveSessions
  BY <1>1 DEF LiveSessions
<1>3. InSteps'
  BY <1>1 DEF SessionInv, InSteps
<1>4. Labelled'
  BY <1>1, <1>2 DEF SessionInv, Labelled
<1> QED
  BY <1>1, <1>2, <1>3, <1>4 DEF SessionInv, SessionTypes, Counted

LEMMA NewClientKeeps ==
  ASSUME Inv, NEW c \in Sockets, NewClient(c)
  PROVE  Inv'
<1>1. Accept(c)
  BY DEF NewClient, OnConnection
<1>2. /\ ServerInv' /\ conn[c] = "none" /\ conn'[c] \in {"open", "dropped"}
      /\ \A d \in Sockets \ {c} : conn'[d] = conn[d]
  BY <1>1, AcceptKeeps DEF Inv
<1>3. /\ elsewhere' = elsewhere /\ numSessions' = numSessions /\ channel' = channel
      /\ label' = label /\ sessions' = sessions
  BY DEF NewClient
<1>4. session["getter"][c] = "none" /\ session \in [Sides -> [Sockets -> SessionStates]]
  BY <1>2 DEF Inv, SessionInv, InSteps, SessionTypes
<1>5. CASE session' = session
  <2>1. UNCHANGED sessionVars
    BY <1>3, <1>5 DEF sessionVars
  <2>2. \A d \in Sockets : conn'[d] = "none" => conn[d] = "none"
    BY <1>2
  <2> QED
    BY <1>2, <2>1, <2>2, SessionsSame DEF Inv
<1>6. CASE session' = Put(session, "getter", c, "opening")
  <2>1. "opening" \in SessionStates
    BY DEF SessionStates
  <2>2. /\ session' \in [Sides -> [Sockets -> SessionStates]]
        /\ session'["giver"] = session["giver"]
        /\ \A d \in Sockets :
             session'["getter"][d] = IF d = c THEN "opening" ELSE session["getter"][d]
    BY <1>4, <1>6, <2>1, SessionGetter
  <2>4. LiveSessions' = LiveSessions
    BY <2>2 DEF LiveSessions
  <2>6. InSteps'
    BY <1>2, <1>3, <1>4, <2>2 DEF Inv, SessionInv, InSteps, Early
  <2>7. Labelled' /\ Counted' /\ SessionTypes'
    BY <1>3, <2>2, <2>4 DEF Inv, SessionInv, Labelled, Counted, SessionTypes
  <2> QED
    BY <1>2, <2>6, <2>7 DEF Inv, SessionInv
<1> QED
  BY <1>5, <1>6 DEF NewClient

\* A step that leaves the giver's sessions and labels alone and brings the getter's
\* session of a client, its channel or both to a later state.
LEMMA GetterKeeps ==
  ASSUME SessionInv, NEW c \in Sockets, NEW now \in SessionStates, NEW end \in ChannelStates,
         session' = Put(session, "getter", c, now),
         channel' = Put(channel, "getter", c, end) \/ (channel' = channel /\ end = channel["getter"][c]),
         UNCHANGED <<elsewhere, numSessions, label, sessions>>,
         session["getter"][c] # "none", now # "none",
         now \in Early => end = "none",
         end = "none" => channel["getter"][c] = "none",
         \A d \in Sockets : conn'[d] = "none" => conn[d] = "none"
  PROVE  SessionInv'
<1>1. /\ session \in [Sides -> [Sockets -> SessionStates]]
      /\ channel \in [Sides -> [Sockets -> ChannelStates]]
  BY DEF SessionInv, SessionTypes
<1>2. /\ session' \in [Sides -> [Sockets -> SessionStates]]
      /\ session'["giver"] = session["giver"]
      /\ \A d \in Sockets : session'["getter"][d] = IF d = c THEN now ELSE session["getter"][d]
  BY <1>1, SessionGetter
<1>3. /\ channel' \in [Sides -> [Sockets -> ChannelStates]]
      /\ channel'["giver"] = channel["giver"]
      /\ \A d \in Sockets : channel'["getter"][d] = IF d = c THEN end ELSE channel["getter"][d]
  <2>1. CASE channel' = channel /\ end = channel["getter"][c]
    BY <1>1, <2>1
  <2>2. CASE channel' = Put(channel, "getter", c, end)
    BY <1>1, <2>2, ChannelGetter
  <2> QED
    BY <2>1, <2>2
<1>4. LiveSessions' = LiveSessions
  BY <1>2 DEF LiveSessions
<1>5. InSteps'
  BY <1>2, <1>3 DEF SessionInv, InSteps, Early
<1>6. Labelled' /\ Counted' /\ SessionTypes'
  BY <1>2, <1>3, <1>4 DEF SessionInv, Labelled, Counted, SessionTypes
<1> QED
  BY <1>5, <1>6 DEF SessionInv

LEMMA ChannelOpenedKeeps ==
  ASSUME Inv, NEW c \in Sockets, ChannelOpened(c)
  PROVE  Inv'
<1>1. /\ session["getter"][c] = "opening"
      /\ session' = Put(session, "getter", c, "live")
      /\ channel' = Put(channel, "getter", c, "open")
      /\ UNCHANGED <<serverVars, elsewhere, numSessions, sessions>>
  BY DEF ChannelOpened
<1>2. PICK l \in Labels : label' = [label EXCEPT ![c] = l]
  BY DEF ChannelOpened
<1>3. /\ session \in [Sides -> [Sockets -> SessionStates]]
      /\ channel \in [Sides -> [Sockets -> ChannelStates]]
      /\ label \in [Sockets -> Labels \cup {None}]
  BY DEF Inv, SessionInv, SessionTypes
<1>4. /\ session' \in [Sides -> [Sockets -> SessionStates]]
      /\ session'["giver"] = session["giver"]
      /\ \A d \in Sockets : session'["getter"][d] = IF d = c THEN "live" ELSE session["getter"][d]
  <2>1. "live" \in SessionStates
    BY DEF SessionStates
  <2> QED
    BY <1>1, <1>3, <2>1, SessionGetter
<1>5. /\ channel' \in [Sides -> [Sockets -> ChannelStates]]
      /\ channel'["giver"] = channel["giver"]
      /\ \A d \in Sockets : channel'["getter"][d] = IF d = c THEN "open" ELSE channel["getter"][d]
  <2>1. "open" \in ChannelStates
    BY DEF ChannelStates
  <2> QED
    BY <1>1, <1>3, <2>1, ChannelGetter
<1>6. /\ label' \in [Sockets -> Labels \cup {None}]
      /\ \A d \in Sockets : d # c => label'[d] = label[d]
  BY <1>2, <1>3
<1>7. conn' = conn /\ connections' = connections
  BY <1>1 DEF serverVars
<1>8. conn[c] # "none" /\ channel["getter"][c] = "none" /\ c \notin LiveSessions
  BY <1>1 DEF Inv, SessionInv, InSteps, Early, LiveSessions
<1>9. LiveSessions' = LiveSessions
  BY <1>4 DEF LiveSessions
<1>10. InSteps'
  BY <1>4, <1>5, <1>7, <1>8 DEF Inv, SessionInv, InSteps, Early
<1>11. Labelled'
  BY <1>1, <1>6, <1>8, <1>9 DEF Inv, SessionInv, Labelled
<1>12. Counted' /\ SessionTypes'
  BY <1>1, <1>4, <1>5, <1>6, <1>9 DEF Inv, SessionInv, SessionTypes, Counted
<1> QED
  BY <1>7, <1>10, <1>11, <1>12, ConnectionsSame DEF Inv, SessionInv

\* The giver learns of a channel: a session is counted and put under its label, or
\* neither.
LEMMA PeerOpenedKeeps ==
  ASSUME Inv, NEW c \in Sockets, OnPeerOpenedChannel(c)
  PROVE  Inv'
<1>1. /\ channel["getter"][c] # "none" /\ channel["giver"][c] = "none"
      /\ UNCHANGED <<serverVars, elsewhere, label>>
  BY DEF OnPeerOpenedChannel
<1>2. /\ session \in [Sides -> [Sockets -> SessionStates]]
      /\ channel \in [Sides -> [Sockets -> ChannelStates]]
      /\ sessions \in [Labels -> Sockets \cup {None}]
  BY DEF Inv, SessionInv, SessionTypes
<1>3. conn' = conn /\ connections' = connections
  BY <1>1 DEF serverVars
<1>4. session["giver"][c] = "none" /\ c \notin LiveSessions
  BY <1>1 DEF Inv, SessionInv, InSteps, LiveSessions
<1>5. {"live", "refused"} \subseteq SessionStates /\ {"open", "closing"} \subseteq ChannelStates
  BY DEF SessionStates, ChannelStates
<1>6. CASE /\ AddUserSession
           /\ session' = Put(session, "giver", c, "live")
           /\ channel' = Put(channel, "giver", c, "open")
           /\ sessions' = [sessions EXCEPT ![label[c]] = c]
  <2>1. /\ session' \in [Sides -> [Sockets -> SessionStates]]
        /\ session'["getter"] = session["getter"]
        /\ \A d \in Sockets : session'["giver"][d] = IF d = c THEN "live" ELSE session["giver"][d]
    BY <1>2, <1>5, <1>6, SessionGiver
  <2>2. /\ channel' \in [Sides -> [Sockets -> ChannelStates]]
        /\ channel'["getter"] = channel["getter"]
        /\ \A d \in Sockets : channel'["giver"][d] = IF d = c THEN "open" ELSE channel["giver"][d]
    BY <1>2, <1>5, <1>6, ChannelGiver
  <2>3. LiveSessions' = LiveSessions \cup {c}
    BY <2>1 DEF LiveSessions
  <2>4. Cardinality(LiveSessions') = Cardinality(LiveSessions) + 1
    BY <1>4, <2>3, LiveSessionsFinite, FS_AddElement
  <2>5. Counted' /\ numSessions' \in Nat
    BY <1>1, <1>6, <2>4, LiveSessionsFinite, ProxyAssumption
    DEF AddUserSession, Inv, SessionInv, SessionTypes, Counted
  <2>6. InSteps'
    BY <1>1, <1>3, <2>1, <2>2 DEF Inv, SessionInv, InSteps, Early
  <2>7. /\ sessions' \in [Labels -> Sockets \cup {None}]
        /\ \A l \in Labels : sessions'[l] = IF l = label[c] THEN c ELSE sessions[l]
    BY <1>2, <1>6
  <2>8. Labelled'
    BY <1>1, <2>3, <2>7 DEF Inv, SessionInv, Labelled
  <2>9. SessionTypes'
    BY <1>1, <2>1, <2>2, <2>5, <2>7 DEF Inv, SessionInv, SessionTypes
  <2> QED
    BY <1>3, <2>5, <2>6, <2>8, <2>9, ConnectionsSame DEF Inv, SessionInv
<1>7. CASE /\ session' = Put(session, "giver", c, "refused")
           /\ channel' = Put(channel, "giver", c, "closing")
           /\ UNCHANGED <<numSessions, sessions>>
  <2>1. /\ session' \in [Sides -> [Sockets -> SessionStates]]
        /\ session'["getter"] = session["getter"]
        /\ \A d \in Sockets : session'["giver"][d] = IF d = c THEN "refused" ELSE session["giver"][d]
    BY <1>2, <1>5, <1>7, SessionGiver
  <2>2. /\ channel' \in [Sides -> [Sockets -> ChannelStates]]
        /\ channel'["getter"] = channel["getter"]
        /\ \A d \in Sockets : channel'["giver"][d] = IF d = c THEN "closing" ELSE channel["giver"][d]
    BY <1>2, <1>5, <1>7, ChannelGiver
  <2>3. LiveSessions' = LiveSessions
    BY <1>4, <2>1 DEF LiveSessions
  <2>4. InSteps'
    BY <1>1, <1>3, <2>1, <2>2 DEF Inv, SessionInv, InSteps, Early
  <2>5. Labelled' /\ Counted' /\ SessionTypes'
    BY <1>1, <1>7, <2>1, <2>2, <2>3 DEF Inv, SessionInv, Labelled, Counted, SessionTypes
  <2> QED
    BY <1>3, <2>4, <2>5, ConnectionsSame DEF Inv, SessionInv
<1> QED
  BY <1>6, <1>7 DEF OnPeerOpenedChannel

LEMMA ElsewhereKeeps ==
  ASSUME Inv, SessionElsewhere
  PROVE  Inv'
<1>1. /\ UNCHANGED <<serverVars, session, channel, label, sessions>>
      /\ \/ AddUserSession /\ elsewhere' = elsewhere + 1
         \/ elsewhere > 0 /\ RemoveUserSession /\ elsewhere' = elsewhere - 1
  BY DEF SessionElsewhere
<1>2. conn' = conn /\ connections' = connections /\ LiveSessions' = LiveSessions
  BY <1>1 DEF serverVars, LiveSessions
<1>3. Counted' /\ elsewhere' \in Nat /\ numSessions' \in Nat
  BY <1>1, <1>2, LiveSessionsFinite, ProxyAssumption
  DEF AddUserSession, RemoveUserSession, Inv, SessionInv, SessionTypes, Counted
<1>4. InSteps' /\ Labelled' /\ SessionTypes'
  BY <1>1, <1>2, <1>3 DEF Inv, SessionInv, SessionTypes, InSteps, Labelled
<1> QED
  BY <1>2, <1>3, <1>4, ConnectionsSame DEF Inv, SessionInv

\* A session of the giver ends: it is taken off the count once, and what is under its
\* label is forgotten, be it this session or a later one's.
LEMMA GiverStoppedKeeps ==
  ASSUME Inv, NEW c \in Sockets, GiverSessionStopped(c)
  PROVE  Inv'
<1>1. /\ session["giver"][c] = "stopping"
      /\ session' = Put(session, "giver", c, "stopped")
      /\ sessions' = [sessions EXCEPT ![label[c]] = None]
      /\ numSessions' = numSessions - 1
      /\ UNCHANGED <<serverVars, elsewhere, channel, label>>
  BY DEF GiverSessionStopped, RemoveUserSession
<1>2. /\ session \in [Sides -> [Sockets -> SessionStates]]
      /\ sessions \in [Labels -> Sockets \cup {None}]
  BY DEF Inv, SessionInv, SessionTypes
<1>3. conn' = conn /\ connections' = connections
  BY <1>1 DEF serverVars
<1>4. /\ session' \in [Sides -> [Sockets -> SessionStates]]
      /\ session'["getter"] = session["getter"]
      /\ \A d \in Sockets : session'["giver"][d] = IF d = c THEN "stopped" ELSE session["giver"][d]
  <2>1. "stopped" \in SessionStates
    BY DEF SessionStates
  <2> QED
    BY <1>1, <1>2, <2>1, SessionGiver
<1>5. LiveSessions' = LiveSessions \ {c} /\ c \in LiveSessions
  BY <1>1, <1>4 DEF LiveSessions
<1>6. Cardinality(LiveSessions') = Cardinality(LiveSessions) - 1 /\ Cardinality(LiveSessions) > 0
  BY <1>5, LiveSessionsFinite, FS_RemoveElement, FS_EmptySet
<1>7. Counted' /\ numSessions' \in Nat
  BY <1>1, <1>6, LiveSessionsFinite, ProxyAssumption
  DEF Inv, SessionInv, SessionTypes, Counted
<1>8. InSteps'
  BY <1>1, <1>3, <1>4 DEF Inv, SessionInv, InSteps, Early
<1>9. /\ sessions' \in [Labels -> Sockets \cup {None}]
      /\ \A l \in Labels : sessions'[l] = IF l = label[c] THEN None ELSE sessions[l]
  BY <1>1, <1>2
<1>10. None \notin Sockets
  BY DEF None, Sockets
<1>11. Labelled'
  BY <1>1, <1>5, <1>9, <1>10 DEF Inv, SessionInv, Labelled
<1>12. SessionTypes'
  BY <1>1, <1>4, <1>7, <1>9 DEF Inv, SessionInv, SessionTypes
<1> QED
  BY <1>3, <1>7, <1>8, <1>11, <1>12, ConnectionsSame DEF Inv, SessionInv

LEMMA ChannelRefusedKeeps ==
  ASSUME Inv, NEW c \in Sockets, ChannelRefused(c)
  PROVE  Inv'
<1>1. /\ session["getter"][c] = "opening"
      /\ session' = Put(session, "getter", c, "unopened")
      /\ UNCHANGED <<serverVars, elsewhere, numSessions, channel, label, sessions>>
  BY DEF ChannelRefused
<1>2. conn' = conn /\ connections' = connections
  BY <1>1 DEF serverVars
<1>3. channel["getter"][c] = "none" /\ channel' = channel
  BY <1>1 DEF Inv, SessionInv, InSteps, Early
<1>4. "unopened" \in SessionStates /\ "none" \in ChannelStates
  BY DEF SessionStates, ChannelStates
<1>5. SessionInv'
  BY <1>1, <1>2, <1>3, <1>4, GetterKeeps DEF Inv
<1> QED
  BY <1>2, <1>5, ConnectionsSame DEF Inv

LEMMA GetterStoppedKeeps ==
  ASSUME Inv, NEW c \in Sockets, GetterSessionStopped(c)
  PROVE  Inv'
<1>1. /\ session["getter"][c] = "stopping"
      /\ session' = Put(session, "getter", c, "stopped")
      /\ UNCHANGED <<serverVars, elsewhere, numSessions, channel, label, sessions>>
  BY DEF GetterSessionStopped
<1>2. conn' = conn /\ connections' = connections
  BY <1>1 DEF serverVars
<1>3. channel["getter"][c] \in ChannelStates /\ channel' = channel
  BY <1>1 DEF Inv, SessionInv, SessionTypes, Sides
<1>4. "stopped" \in SessionStates /\ "stopped" \notin Early
  BY DEF SessionStates, Early
<1>5. SessionInv'
  BY <1>1, <1>2, <1>3, <1>4, GetterKeeps DEF Inv
<1> QED
  BY <1>2, <1>5, ConnectionsSame DEF Inv

\* The end of a session at the getter closes its socket, which stays in the map.
LEMMA EndGetterKeeps ==
  ASSUME Inv, NEW c \in Sockets, NEW now \in {"closing", "closed"},
         channel["getter"][c] # "none", EndGetter(c, now)
  PROVE  Inv'
<1>1. /\ session' = Put(session, "getter", c, "stopping")
      /\ channel' = Put(channel, "getter", c, now)
      /\ conn' = Closing({c})
      /\ UNCHANGED <<connections, elsewhere, numSessions, label, sessions>>
  BY DEF EndGetter
<1>2. ServerInv' /\ \A d \in Sockets : conn'[d] = "none" <=> conn[d] = "none"
  BY <1>1, ClosingKeeps DEF Inv
<1>3. session["getter"][c] # "none"
  BY DEF Inv, SessionInv, InSteps, Early
<1>4. "stopping" \in SessionStates \ Early /\ now \in ChannelStates /\ now # "none"
  BY DEF SessionStates, ChannelStates, Early
<1>5. SessionInv'
  BY <1>1, <1>2, <1>3, <1>4, GetterKeeps DEF Inv
<1> QED
  BY <1>2, <1>5 DEF Inv

\* At the giver it counts until it has stopped.
LEMMA EndGiverKeeps ==
  ASSUME Inv, NEW c \in Sockets, NEW now \in {"closing", "closed"},
         channel["giver"][c] # "none", EndGiver(c, now)
  PROVE  Inv'
<1>1. /\ channel' = Put(channel, "giver", c, now)
      /\ UNCHANGED <<serverVars, elsewhere, numSessions, label, sessions>>
  BY DEF EndGiver
<1>2. /\ session \in [Sides -> [Sockets -> SessionStates]]
      /\ channel \in [Sides -> [Sockets -> ChannelStates]]
  BY DEF Inv, SessionInv, SessionTypes
<1>3. conn' = conn /\ connections' = connections
  BY <1>1 DEF serverVars
<1>4. /\ session' \in [Sides -> [Sockets -> SessionStates]]
      /\ session'["getter"] = session["getter"]
      /\ \A d \in Sockets : d # c => session'["giver"][d] = session["giver"][d]
      /\ session'["giver"][c] \in {"live", "stopping"}
           <=> session["giver"][c] \in {"live", "stopping"}
  <2>1. CASE session["giver"][c] = "live"
    <3>1. session' = Put(session, "giver", c, "stopping") /\ "stopping" \in SessionStates
      BY <2>1 DEF EndGiver, SessionStates
    <3> QED
      BY <1>2, <2>1, <3>1, SessionGiver
  <2>2. CASE session["giver"][c] # "live"
    <3>1. session' = session
      BY <2>2 DEF EndGiver
    <3> QED
      BY <1>2, <3>1
  <2> QED
    BY <2>1, <2>2
<1>5. /\ channel' \in [Sides -> [Sockets -> ChannelStates]]
      /\ channel'["getter"] = channel["getter"]
      /\ \A d \in Sockets : channel'["giver"][d] = IF d = c THEN now ELSE channel["giver"][d]
  <2>1. now \in ChannelStates
    BY DEF ChannelStates
  <2> QED
    BY <1>1, <1>2, <2>1, ChannelGiver
<1>6. LiveSessions' = LiveSessions
  BY <1>4 DEF LiveSessions
<1>7. InSteps'
  BY <1>3, <1>4, <1>5 DEF Inv, SessionInv, InSteps, Early
<1>8. Labelled' /\ Counted' /\ SessionTypes'
  BY <1>1, <1>4, <1>5, <1>6 DEF Inv, SessionInv, Labelled, Counted, SessionTypes
<1> QED
  BY <1>3, <1>7, <1>8, ConnectionsSame DEF Inv, SessionInv

LEMMA EndKeeps ==
  ASSUME Inv, NEW s \in Sides, NEW c \in Sockets, SessionStops(s, c) \/ ChannelCloses(s, c)
  PROVE  Inv'
<1>1. channel[s][c] # "none"
  BY DEF SessionStops, ChannelCloses
<1>2. PICK now \in {"closing", "closed"} : End(s, c, now)
  BY DEF SessionStops, ChannelCloses
<1>3. CASE s = "getter"
  BY <1>1, <1>2, <1>3, EndGetterKeeps DEF End
<1>4. CASE s = "giver"
  BY <1>1, <1>2, <1>4, EndGiverKeeps DEF End
<1> QED
  BY <1>3, <1>4 DEF Sides

-----------------------------------------------------------------------------
(* Both limits are kept *)

\* Starting, stopping, connecting and the loss of the peer.
LEMMA LifeKeeps ==
  ASSUME Inv, NEW s \in Sides,
         Start \/ StopResources(s) \/ Connected(s) \/ Disconnected(s)
  PROVE  Inv'
<1>1. UNCHANGED <<conn, connections>> /\ UNCHANGED sessionVars
  <2>1. CASE Start
    BY <2>1 DEF Start, Listen
  <2>2. CASE StopResources(s)
    BY <2>2 DEF StopResources, StopListening, serverVars
  <2>3. CASE Connected(s) \/ Disconnected(s)
    BY <2>3 DEF Connected, Disconnected, serverVars
  <2> QED
    BY <2>1, <2>2, <2>3
<1>2. ServerInv'
  BY <1>1, ConnectionsSame DEF Inv
<1>3. SessionInv'
  BY <1>1, SessionsSame DEF Inv
<1> QED
  BY <1>2, <1>3 DEF Inv

LEMMA ServerKeeps ==
  ASSUME Inv, ServerStep \/ \E c \in Sockets : ConnectionStep(c)
  PROVE  Inv'
<1>1. UNCHANGED sessionVars
  BY DEF ServerStep, ConnectionStep
<1>2. ServerInv' /\ \A d \in Sockets : conn'[d] = "none" <=> conn[d] = "none"
  <2>1. CASE ServerStep
    BY <2>1, SocketKeeps DEF Inv, ServerStep
  <2>2. ASSUME NEW c \in Sockets, ConnectionStep(c)
        PROVE  ServerInv' /\ \A d \in Sockets : conn'[d] = "none" <=> conn[d] = "none"
    BY <2>2, GoneKeeps, ClosedKeeps DEF Inv, ConnectionStep
  <2> QED
    BY <2>1, <2>2
<1>3. SessionInv'
  BY <1>1, <1>2, SessionsSame DEF Inv
<1> QED
  BY <1>2, <1>3 DEF Inv

LEMMA InvInit == Init => Inv
<1> SUFFICES ASSUME Init PROVE Inv
  OBVIOUS
<1>1. /\ conn = [c \in Sockets |-> "none"] /\ connections = {}
      /\ elsewhere = 0 /\ numSessions = 0 /\ sessions = [l \in Labels |-> None]
      /\ session = [s \in Sides |-> [c \in Sockets |-> "none"]]
      /\ channel = [s \in Sides |-> [c \in Sockets |-> "none"]]
      /\ label = [c \in Sockets |-> None]
  BY DEF Init, ServerInit, RtcToNetInit
<1>2. Live = {} /\ LiveSessions = {}
  BY <1>1 DEF Live, LiveSessions, Sides
<1>3. ServerInv
  BY <1>1, <1>2, FS_EmptySet, TcpServerAssumption DEF ServerInv, LimitKept, ConnectionStates
<1>4. SessionTypes /\ InSteps
  BY <1>1 DEF SessionTypes, InSteps, SessionStates, ChannelStates, Sides
<1>5. None \notin Sockets
  BY DEF None, Sockets
<1>6. Labelled /\ Counted
  BY <1>1, <1>2, <1>5, FS_EmptySet, ProxyAssumption DEF Labelled, Counted
<1> QED
  BY <1>3, <1>4, <1>6 DEF Inv, SessionInv

LEMMA InvStep == Inv /\ [Next]_vars => Inv'
<1> SUFFICES ASSUME Inv, [Next]_vars PROVE Inv'
  OBVIOUS
<1>1. CASE Start
  BY <1>1, LifeKeeps DEF Sides
<1>2. CASE ServerStep
  BY <1>2, ServerKeeps
<1>3. CASE SessionElsewhere
  BY <1>3, ElsewhereKeeps
<1>4. ASSUME NEW s \in Sides, Stop(s) \/ MustStop(s) \/ Connected(s) \/ Disconnected(s)
      PROVE  Inv'
  BY <1>4, LifeKeeps DEF Stop, MustStop
<1>5. ASSUME NEW c \in Sockets, NewClient(c)
      PROVE  Inv'
  BY <1>5, NewClientKeeps
<1>6. ASSUME NEW c \in Sockets, SessionStep(c)
      PROVE  Inv'
  BY <1>6, ServerKeeps, ChannelOpenedKeeps, ChannelRefusedKeeps, PeerOpenedKeeps,
     GetterStoppedKeeps, GiverStoppedKeeps, EndKeeps DEF SessionStep
<1>7. ASSUME NEW c \in Sockets, NEW s \in Sides, SessionStops(s, c)
      PROVE  Inv'
  BY <1>7, EndKeeps
<1>8. CASE UNCHANGED vars
  <2>1. UNCHANGED <<conn, connections>> /\ UNCHANGED sessionVars
    BY <1>8 DEF vars, serverVars
  <2> QED
    BY <2>1, ConnectionsSame, SessionsSame DEF Inv
<1> QED
  BY <1>1, <1>2, <1>3, <1>4, <1>5, <1>6, <1>7, <1>8 DEF Next

\* However clients come and go, channels open, close and are used again, sessions are
\* refused, fail and end on either side, the server holds no more sockets than its
\* limit, and the user no more sessions than theirs: what counts is what lives.
THEOREM LimitsHold == Spec => []LimitsCountTheLiving
<1>1. Inv => LimitsCountTheLiving
  <2>1. SessionTypes /\ Labelled =>
          \A l \in Labels : sessions[l] # None => sessions[l] \in LiveSessions
    BY DEF SessionTypes, Labelled
  <2> QED
    BY <2>1 DEF Inv, ServerInv, SessionInv, Counted, LimitsCountTheLiving, SessionsCounted
<1> QED
  BY <1>1, InvInit, InvStep, PTL DEF Spec

-----------------------------------------------------------------------------
(* The types of the two ends *)

\* The counter of the server's provider: the calls outstanding less the discard.
Outstanding(c) == IF call[c] = "pending" THEN 1 ELSE 0

Balance ==
  /\ call \in [Calls -> {"idle", "pending", "done"}]
  /\ discards \in 0..MaxDiscards /\ destructions \in Nat
  /\ onceDestroyed \in {"pending", "fulfilled", "rejected"}
  /\ counter = Outstanding("listen") + Outstanding("close") - discards

\* What the invariant above says nothing of.
Life ==
  /\ socket \in {"new", "bound", "closed", "dead"}
  /\ onceListening \in {"pending", "fulfilled", "rejected"}
  /\ onceShutdown \in BOOLEAN
  /\ shutdown \in {"idle", "stopListening", "closeAll", "done", "rejected"}
  /\ awaited \subseteq Sockets
  /\ elsewhere \in 0..MaxElsewhere
  /\ stopping \in [Sides -> BOOLEAN]
  /\ pc \in [Sides -> {"waiting", "connected", "closed"}]

LEMMA TwoCalls ==
  /\ Calls = {"listen", "close"} /\ MaxDiscards = 1 /\ MaxElsewhere \in Nat
  /\ Cardinality(Calls) = 2
<1>1. Calls = {"listen", "close"} /\ MaxDiscards = 1 /\ MaxElsewhere \in Nat
  BY TcpServerAssumption, ProxyAssumption
<1>2. Cardinality({"listen"}) = 1 /\ IsFiniteSet({"listen"})
  BY FS_Singleton
<1>3. Cardinality({"listen"} \cup {"close"}) = 2
  BY <1>2, FS_AddElement
<1>4. {"listen"} \cup {"close"} = Calls
  BY <1>1
<1> QED
  BY <1>1, <1>3, <1>4

LEMMA AfterCounts ==
  ASSUME After, destructions \in Nat, onceDestroyed \in {"pending", "fulfilled", "rejected"}
  PROVE  /\ counter' = counter - 1 /\ destructions' \in Nat
         /\ onceDestroyed' \in {"pending", "fulfilled", "rejected"}
  BY DEF After

LEMMA BalanceKeeps ==
  ASSUME Balance,
         UNCHANGED counterVars \/ Discard \/ \E c \in Calls : Wrap(c) \/ Resolve(c)
  PROVE  Balance'
<1>1. /\ Calls = {"listen", "close"} /\ MaxDiscards = 1
      /\ call \in [Calls -> {"idle", "pending", "done"}]
      /\ discards \in 0..MaxDiscards /\ destructions \in Nat
      /\ onceDestroyed \in {"pending", "fulfilled", "rejected"}
      /\ counter = Outstanding("listen") + Outstanding("close") - discards
  BY TwoCalls DEF Balance
<1>2. CASE UNCHANGED counterVars
  BY <1>2 DEF counterVars, Balance, Outstanding
<1>3. CASE Discard
  <2>1. discards' = discards + 1 /\ discards < MaxDiscards /\ call' = call /\ After
    BY <1>3 DEF Discard
  <2>2. discards' \in 0..MaxDiscards
    BY <1>1, <2>1
  <2> QED
    BY <1>1, <2>1, <2>2, AfterCounts DEF Balance, Outstanding
<1>4. ASSUME NEW c \in Calls, Wrap(c)
      PROVE  Balance'
  <2>1. /\ call[c] = "idle" /\ call' = [call EXCEPT ![c] = "pending"] /\ counter' = counter + 1
        /\ UNCHANGED <<discards, destructions, onceDestroyed>>
    BY <1>4 DEF Wrap
  <2>2. c = "listen" \/ c = "close"
    BY <1>1
  <2> QED
    BY <1>1, <2>1, <2>2 DEF Balance, Outstanding
<1>5. ASSUME NEW c \in Calls, Resolve(c)
      PROVE  Balance'
  <2>1. /\ call[c] = "pending" /\ call' = [call EXCEPT ![c] = "done"] /\ After
        /\ discards' = discards
    BY <1>5 DEF Resolve
  <2>2. c = "listen" \/ c = "close"
    BY <1>1
  <2> QED
    BY <1>1, <2>1, <2>2, AfterCounts DEF Balance, Outstanding
<1> QED
  BY <1>2, <1>3, <1>4, <1>5

\* Every step is one of these for the counter.
LEMMA BalanceNext ==
  ASSUME Balance, [Next]_vars
  PROVE  Balance'
<1>1. "listen" \in Calls /\ "close" \in Calls
  BY TwoCalls
<1>2. UNCHANGED counterVars \/ Discard \/ \E c \in Calls : Wrap(c) \/ Resolve(c)
  <2>1. CASE Start
    BY <1>1, <2>1 DEF Start, Listen
  <2>2. CASE ServerStep
    <3>1. CASE Bound \/ SocketCloses \/ SocketDies \/ AllClosed
      BY <3>1 DEF Bound, SocketCloses, SocketDies, AllClosed
    <3>2. CASE Listening \/ ListenFails
      BY <1>1, <3>2 DEF Listening, ListenFails
    <3>3. CASE ServerOnDisconnect
      BY <3>3 DEF ServerOnDisconnect
    <3>4. CASE StoppedListening
      BY <1>1, <3>4 DEF StoppedListening
    <3> QED
      BY <2>2, <3>1, <3>2, <3>3, <3>4 DEF ServerStep, ListeningSocket
  <2>3. CASE SessionElsewhere
    BY <2>3 DEF SessionElsewhere, serverVars
  <2>4. ASSUME NEW s \in Sides, StopResources(s)
        PROVE  UNCHANGED counterVars \/ \E c \in Calls : Wrap(c)
    BY <1>1, <2>4 DEF StopResources, StopListening, serverVars
  <2>5. ASSUME NEW s \in Sides, Connected(s) \/ Disconnected(s)
        PROVE  UNCHANGED counterVars
    BY <2>5 DEF Connected, Disconnected, serverVars
  <2>6. ASSUME NEW c \in Sockets, NewClient(c)
        PROVE  UNCHANGED counterVars
    BY <2>6 DEF NewClient, OnConnection
  <2>7. ASSUME NEW c \in Sockets, NEW s \in Sides, SessionStops(s, c) \/ ChannelCloses(s, c)
        PROVE  UNCHANGED counterVars
    BY <2>7 DEF SessionStops, ChannelCloses, End, EndGetter, EndGiver, serverVars
  <2>8. ASSUME NEW c \in Sockets, ConnectionStep(c)
        PROVE  UNCHANGED counterVars
    BY <2>8 DEF ConnectionStep, Dropped, ConnectionGone, ConnectionClosed
  <2>9. ASSUME NEW c \in Sockets,
               \/ ChannelOpened(c) \/ ChannelRefused(c) \/ OnPeerOpenedChannel(c)
               \/ GetterSessionStopped(c) \/ GiverSessionStopped(c)
        PROVE  UNCHANGED counterVars
    BY <2>9 DEF ChannelOpened, ChannelRefused, OnPeerOpenedChannel, GetterSessionStopped,
                GiverSessionStopped, serverVars
  <2>10. CASE UNCHANGED vars
    BY <2>10 DEF vars, serverVars
  <2> QED
    BY <2>1, <2>2, <2>3, <2>4, <2>5, <2>6, <2>7, <2>8, <2>9, <2>10
       DEF Next, Stop, MustStop, SessionStep
<1> QED
  BY <1>2, BalanceKeeps

LEMMA LifeSame ==
  ASSUME Life,
         UNCHANGED <<socket, onceListening, onceShutdown, shutdown, awaited, elsewhere, stopping, pc>>
  PROVE  Life'
  BY DEF Life

LEMMA LifeNext ==
  ASSUME Inv, Life, [Next]_vars
  PROVE  Life'
<1>1. CASE Start
  BY <1>1, LifeSame DEF Start, Listen, sessionVars, lifeVars
<1>2. CASE ServerStep
  <2>1. UNCHANGED <<elsewhere, stopping, pc>>
    BY <1>2 DEF ServerStep, sessionVars, lifeVars
  <2>2. connections \subseteq Sockets
    BY DEF Inv, ServerInv, LimitKept, Live
  <2>3. CASE Bound \/ SocketCloses \/ SocketDies
    BY <2>1, <2>3 DEF Life, Bound, SocketCloses, SocketDies
  <2>4. CASE AllClosed
    BY <2>1, <2>4 DEF Life, AllClosed
  <2>5. CASE Listening \/ ListenFails \/ ServerOnDisconnect
    <3>1. onceShutdown' \in BOOLEAN
      BY <2>5 DEF Listening, ListenFails, ServerOnDisconnect, ShutdownFollows
    <3> QED
      BY <2>1, <2>5, <3>1 DEF Life, Listening, ListenFails, ServerOnDisconnect
  <2>6. CASE StoppedListening
    <3>1. onceShutdown' \in BOOLEAN
      BY <2>6 DEF StoppedListening, ShutdownFollows
    <3> QED
      BY <2>1, <2>2, <2>6, <3>1 DEF Life, StoppedListening, CloseAll
  <2> QED
    BY <1>2, <2>3, <2>4, <2>5, <2>6 DEF ServerStep, ListeningSocket
<1>3. CASE SessionElsewhere
  <2>1. elsewhere' \in 0..MaxElsewhere
    BY <1>3, TwoCalls DEF SessionElsewhere, Life
  <2> QED
    BY <1>3, <2>1 DEF SessionElsewhere, serverVars, lifeVars, Life
<1>4. ASSUME NEW s \in Sides, StopResources(s)
      PROVE  Life'
  <2>1. /\ stopping' = [stopping EXCEPT ![s] = TRUE] /\ pc' = [pc EXCEPT ![s] = "closed"]
        /\ shutdown' \in {shutdown, "stopListening"}
        /\ UNCHANGED <<socket, onceListening, onceShutdown, awaited, elsewhere>>
    BY <1>4 DEF StopResources, StopListening, serverVars, sessionVars
  <2> QED
    BY <2>1 DEF Life
<1>5. ASSUME NEW s \in Sides, Connected(s) \/ Disconnected(s)
      PROVE  Life'
  <2>1. /\ pc' \in {[pc EXCEPT ![s] = "connected"], [pc EXCEPT ![s] = "closed"]}
        /\ UNCHANGED <<socket, onceListening, onceShutdown, shutdown, awaited, elsewhere, stopping>>
    BY <1>5 DEF Connected, Disconnected, serverVars, sessionVars
  <2> QED
    BY <2>1 DEF Life
<1>6. ASSUME NEW c \in Sockets, NewClient(c) \/ ConnectionStep(c)
      PROVE  Life'
  BY <1>6, LifeSame DEF NewClient, OnConnection, ConnectionStep, Dropped, ConnectionGone,
                        ConnectionClosed, sessionVars, lifeVars
<1>7. ASSUME NEW c \in Sockets, NEW s \in Sides, SessionStops(s, c) \/ ChannelCloses(s, c)
      PROVE  Life'
  BY <1>7, LifeSame DEF SessionStops, ChannelCloses, End, EndGetter, EndGiver, serverVars, lifeVars
<1>8. ASSUME NEW c \in Sockets,
             \/ ChannelOpened(c) \/ ChannelRefused(c) \/ OnPeerOpenedChannel(c)
             \/ GetterSessionStopped(c) \/ GiverSessionStopped(c)
      PROVE  Life'
  BY <1>8, LifeSame DEF ChannelOpened, ChannelRefused, OnPeerOpenedChannel, GetterSessionStopped,
                        GiverSessionStopped, serverVars, lifeVars
<1>9. CASE UNCHANGED vars
  BY <1>9, LifeSame DEF vars, serverVars, sessionVars, lifeVars
<1> QED
  BY <1>1, <1>2, <1>3, <1>4, <1>5, <1>6, <1>7, <1>8, <1>9 DEF Next, Stop, MustStop, SessionStep

\* Whatever the order of the answers, the failures and the stops, at either end:
\* every variable of the getter, the giver and the server keeps its type. In it
\* are the bounds of the counter of src/src/net/counter.ts and, with the count of
\* sessions, that a discard never takes it below zero.
THEOREM ProxyTyped == Spec => []TypeOK
<1>1. Inv /\ Balance /\ Life /\ [Next]_vars => (Inv /\ Balance /\ Life)'
  BY InvStep, BalanceNext, LifeNext
<1>2. Init => Inv /\ Balance /\ Life
  <2> SUFFICES ASSUME Init PROVE Inv /\ Balance /\ Life
    OBVIOUS
  <2>1. Balance
    BY TwoCalls DEF Init, ServerInit, CounterInit, Balance, Outstanding
  <2>2. Life
    <3>1. elsewhere \in 0..MaxElsewhere
      BY TwoCalls DEF Init, RtcToNetInit
    <3>2. /\ stopping \in [Sides -> BOOLEAN]
          /\ pc \in [Sides -> {"waiting", "connected", "closed"}]
      BY DEF Init
    <3> QED
      BY <3>1, <3>2 DEF Init, ServerInit, Life
  <2> QED
    BY <2>1, <2>2, InvInit
<1>3. Inv /\ Balance /\ Life => TypeOK
  <2> SUFFICES ASSUME Inv, Balance, Life PROVE TypeOK
    OBVIOUS
  <2>1. counter \in (0 - MaxDiscards)..Cardinality(Calls)
    BY TwoCalls DEF Balance, Outstanding
  <2>2. CounterTypeOK
    BY <2>1 DEF Balance, CounterTypeOK
  <2>3. ServerTypeOK
    BY <2>2 DEF Inv, ServerInv, LimitKept, Live, ConnectionStates, Life, ServerTypeOK
  <2> QED
    BY <2>3 DEF Inv, SessionInv, SessionTypes, SessionStates, ChannelStates, Life, TypeOK
<1> QED
  BY <1>1, <1>2, <1>3, PTL DEF Spec

-----------------------------------------------------------------------------
(* A shutdown is complete *)

\* Once closeAll() has been called the socket is not listening, and it awaits
\* everything that lives; when that has ended nothing does.
Swept ==
  /\ shutdown \in {"closeAll", "done"} => socket \in {"closed", "dead"} /\ Live \subseteq awaited
  /\ shutdown = "done" => Live = {}

\* Without a listening socket nothing comes to life.
LEMMA NothingNew ==
  ASSUME Inv, [Next]_vars, socket \in {"closed", "dead"}
  PROVE  Live' \subseteq Live
<1>0. conn \in [Sockets -> ConnectionStates]
  BY DEF Inv, ServerInv
<1>1. CASE conn' = conn
  BY <1>1 DEF Live
<1>2. ASSUME NEW cs, conn' = Closing(cs)
      PROVE  Live' \subseteq Live
  BY <1>0, <1>2 DEF Closing, Live
<1>3. ASSUME NEW c \in Sockets, ConnectionStep(c)
      PROVE  Live' \subseteq Live
  BY <1>0, <1>3 DEF ConnectionStep, Dropped, ConnectionGone, ConnectionClosed, Live
<1>4. ASSUME NEW c \in Sockets, NewClient(c)
      PROVE  FALSE
  BY <1>4 DEF NewClient, OnConnection, Accept
<1>5. CASE Start
  BY <1>1, <1>5 DEF Start, Listen
<1>6. CASE ServerStep
  BY <1>1, <1>2, <1>6 DEF ServerStep, ListeningSocket, Bound, Listening, ListenFails, SocketCloses,
     ServerOnDisconnect, SocketDies, AllClosed, StoppedListening, CloseAll
<1>7. CASE SessionElsewhere
  BY <1>1, <1>7 DEF SessionElsewhere, serverVars
<1>8. ASSUME NEW s \in Sides, StopResources(s) \/ Connected(s) \/ Disconnected(s)
      PROVE  Live' \subseteq Live
  BY <1>1, <1>8 DEF StopResources, StopListening, Connected, Disconnected, serverVars
<1>9. ASSUME NEW c \in Sockets, NEW s \in Sides, SessionStops(s, c) \/ ChannelCloses(s, c)
      PROVE  Live' \subseteq Live
  BY <1>1, <1>2, <1>9 DEF SessionStops, ChannelCloses, End, EndGetter, EndGiver, serverVars
<1>10. ASSUME NEW c \in Sockets,
              \/ ChannelOpened(c) \/ ChannelRefused(c) \/ OnPeerOpenedChannel(c)
              \/ GetterSessionStopped(c) \/ GiverSessionStopped(c)
       PROVE  Live' \subseteq Live
  BY <1>1, <1>10 DEF ChannelOpened, ChannelRefused, OnPeerOpenedChannel, GetterSessionStopped,
                     GiverSessionStopped, serverVars
<1>11. CASE UNCHANGED vars
  BY <1>1, <1>11 DEF vars, serverVars
<1> QED
  BY <1>3, <1>4, <1>5, <1>6, <1>7, <1>8, <1>9, <1>10, <1>11
     DEF Next, Stop, MustStop, SessionStep

\* What a step does to a shutdown: it is closeAll's, the end of one, or neither.
Shuts ==
  \/ StoppedListening
  \/ AllClosed
  \/ /\ shutdown' \in {"closeAll", "done"} => shutdown' = shutdown
     /\ awaited' = awaited
     /\ socket \in {"closed", "dead"} => socket' = socket

LEMMA ShutsNext ==
  ASSUME [Next]_vars
  PROVE  Shuts
<1>1. CASE Start
  BY <1>1 DEF Shuts, Start, Listen
<1>2. CASE ServerStep
  <2>1. CASE Bound \/ SocketCloses \/ SocketDies
    BY <2>1 DEF Shuts, Bound, SocketCloses, SocketDies
  <2>2. CASE Listening \/ ListenFails \/ ServerOnDisconnect
    BY <2>2 DEF Shuts, Listening, ListenFails, ServerOnDisconnect
  <2> QED
    BY <1>2, <2>1, <2>2 DEF Shuts, ServerStep, ListeningSocket
<1>3. CASE SessionElsewhere
  BY <1>3 DEF Shuts, SessionElsewhere, serverVars
<1>4. ASSUME NEW s \in Sides, StopResources(s)
      PROVE  Shuts
  BY <1>4 DEF Shuts, StopResources, StopListening, serverVars
<1>5. ASSUME NEW s \in Sides, Connected(s) \/ Disconnected(s)
      PROVE  Shuts
  BY <1>5 DEF Shuts, Connected, Disconnected, serverVars
<1>6. ASSUME NEW c \in Sockets, NewClient(c) \/ ConnectionStep(c)
      PROVE  Shuts
  BY <1>6 DEF Shuts, NewClient, OnConnection, ConnectionStep, Dropped, ConnectionGone,
              ConnectionClosed
<1>7. ASSUME NEW c \in Sockets, NEW s \in Sides, SessionStops(s, c) \/ ChannelCloses(s, c)
      PROVE  Shuts
  BY <1>7 DEF Shuts, SessionStops, ChannelCloses, End, EndGetter, EndGiver, serverVars
<1>8. ASSUME NEW c \in Sockets,
             \/ ChannelOpened(c) \/ ChannelRefused(c) \/ OnPeerOpenedChannel(c)
             \/ GetterSessionStopped(c) \/ GiverSessionStopped(c)
      PROVE  Shuts
  BY <1>8 DEF Shuts, ChannelOpened, ChannelRefused, OnPeerOpenedChannel, GetterSessionStopped,
              GiverSessionStopped, serverVars
<1>9. CASE UNCHANGED vars
  BY <1>9 DEF Shuts, vars, serverVars
<1> QED
  BY <1>1, <1>2, <1>3, <1>4, <1>5, <1>6, <1>7, <1>8, <1>9 DEF Next, Stop, MustStop, SessionStep

LEMMA SweptNext ==
  ASSUME Inv, Swept, [Next]_vars
  PROVE  Swept'
<1>1. connections = Live /\ connections' = Live'
  BY InvStep DEF Inv, ServerInv, LimitKept
<1>2. CASE StoppedListening
  <2>1. socket' = socket /\ connections' = connections
    BY <1>2 DEF StoppedListening
  <2>2. \/ socket \in {"closed", "dead"} /\ shutdown' = "closeAll" /\ awaited' = connections
        \/ shutdown' = "rejected"
    BY <1>2 DEF StoppedListening, CloseAll
  <2> QED
    BY <1>1, <2>1, <2>2 DEF Swept
<1>3. CASE AllClosed
  <2>1. /\ shutdown = "closeAll" /\ \A c \in awaited : conn[c] = "closed"
        /\ UNCHANGED <<socket, conn, awaited>>
    BY <1>3 DEF AllClosed
  <2>2. Live \subseteq awaited /\ socket \in {"closed", "dead"}
    BY <2>1 DEF Swept
  <2>3. Live = {} /\ Live' = {}
    BY <2>1, <2>2 DEF Live
  <2> QED
    BY <2>1, <2>2, <2>3 DEF Swept
<1>4. CASE /\ shutdown' \in {"closeAll", "done"} => shutdown' = shutdown
           /\ awaited' = awaited
           /\ socket \in {"closed", "dead"} => socket' = socket
  <2>1. socket \in {"closed", "dead"} => Live' \subseteq Live
    BY NothingNew
  <2> QED
    BY <1>4, <2>1 DEF Swept
<1> QED
  BY <1>2, <1>3, <1>4, ShutsNext DEF Shuts

\* shutdown() of src/src/net/tcp.ts: when it fulfils the server does not listen and
\* none of its sockets lives, whoever connected or left while it stopped.
THEOREM ShutdownsComplete == Spec => []ShutdownIsComplete
<1>1. Init => Inv /\ Swept
  BY InvInit DEF Init, ServerInit, Swept
<1>2. Inv /\ Swept /\ [Next]_vars => (Inv /\ Swept)'
  BY InvStep, SweptNext
<1>3. Swept => ShutdownIsComplete
  BY DEF Swept, ShutdownIsComplete
<1> QED
  BY <1>1, <1>2, <1>3, PTL DEF Spec
=============================================================================
