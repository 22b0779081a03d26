---------------------------- MODULE SessionProofs ----------------------------
(***************************************************************************)
(* Flow control of a Session, and the streams of two that are linked, for  *)
(* every kind of client and host and any amount of data.                   *)
(***************************************************************************)
EXTENDS Session, SequenceTheorems, TLAPS

TcpStates == {"none", "connecting", "open", "closing", "closed"}

\* What the flow control reads and sets.
FlowTyped ==
  /\ phase \in [Sides -> Phases]
  /\ tcp \in [Sides -> TcpStates]
  /\ wants \in [Sides -> {"run", "pause"}]
  /\ overflow \in [Sides -> BOOLEAN]

\* From the request, or the making of the connection, to the link the socket is
\* paused, whatever the data channel does.
PausedInHandshake ==
  \A s \in Sides : phase[s] \in {"awaiting", "connecting"} => wants[s] = "pause"

FlowInv == FlowTyped /\ PausedInHandshake /\ PauseFollowsOverflow

\* Initially no Session is linked or in its handshake.
LEMMA FlowInit == Init => FlowInv
  BY DEF Init, FlowInv, FlowTyped, PausedInHandshake, PauseFollowsOverflow, Sides,
         Phases, TcpStates

\* A step after which nobody is further than before with the handshake, and that
\* opens no socket.
Idle ==
  /\ wants' = wants /\ overflow' = overflow
  /\ phase' \in [Sides -> Phases] /\ tcp' \in [Sides -> TcpStates]
  /\ \A s \in Sides :
       /\ phase'[s] \in {"awaiting", "connecting", "linked"} => phase'[s] = phase[s]
       /\ tcp'[s] = "open" => tcp[s] = "open"

\* Such a step keeps what is known of the flow.
LEMMA IdleKeeps == FlowInv /\ Idle => FlowInv'
  BY DEF FlowInv, FlowTyped, PausedInHandshake, PauseFollowsOverflow, Idle

\* stopResources_ does not open a socket.
LEMMA StopCloses ==
  ASSUME FlowTyped, NEW s \in Sides, NEW now, NEW msgs, StopAt(s, now, msgs)
  PROVE  /\ tcp' \in [Sides -> TcpStates]
         /\ \A t \in Sides : tcp'[t] = "open" => tcp[t] = "open"
  BY DEF StopAt, Set, FlowTyped, TcpStates

\* Nor does the end of the channel.
LEMMA EndCloses ==
  ASSUME FlowTyped, NEW s \in Sides, NEW now, NEW msgs, ChannelClosed(s, now, msgs)
  PROVE  /\ tcp' \in [Sides -> TcpStates]
         /\ \A t \in Sides : tcp'[t] = "open" => tcp[t] = "open"
  BY StopCloses DEF ChannelClosed, FlowTyped

\* linkSocketAndChannel_ resumes the socket if, and only if, there is room.
LEMMA LinkKeeps ==
  ASSUME FlowInv, NEW s \in Sides, NEW msgs, NEW reply,
         phase[s] \in {"awaiting", "connecting"}, Link(s, msgs, reply)
  PROVE  FlowInv'
<1>1. wants[s] = "pause"
  BY DEF FlowInv, PausedInHandshake
<1>2. phase' = [phase EXCEPT ![s] = "linked"]
  BY DEF Link, Set
<1>3. \/ overflow' = overflow
      \/ overflow' = [overflow EXCEPT ![s] = TRUE]
  BY DEF Link, MayOverflow, Set
<1>4. wants' = IF overflow'[s] THEN wants ELSE [wants EXCEPT ![s] = "run"]
  BY DEF Link, Set
<1>5. tcp' = IF tcp[s] = "connecting" THEN [tcp EXCEPT ![s] = "open"] ELSE tcp
  BY DEF Link, Set
<1>6. FlowTyped'
  BY <1>2, <1>3, <1>4, <1>5 DEF FlowInv, FlowTyped, Phases, TcpStates
<1>7. PausedInHandshake'
  BY <1>2, <1>4 DEF FlowInv, FlowTyped, PausedInHandshake
<1>8. PauseFollowsOverflow'
  <2> SUFFICES ASSUME NEW t \in Sides, phase'[t] = "linked", tcp'[t] = "open"
               PROVE  wants'[t] = IF overflow'[t] THEN "pause" ELSE "run"
    BY DEF PauseFollowsOverflow
  <2>1. CASE t = s
    BY <2>1, <1>1, <1>4 DEF FlowInv, FlowTyped
  <2>2. CASE t # s
    BY <2>2, <1>2, <1>3, <1>4, <1>5 DEF FlowInv, FlowTyped, PauseFollowsOverflow
  <2> QED BY <2>1, <2>2
<1> QED BY <1>6, <1>7, <1>8 DEF FlowInv

\* The getter's answer to its client: linked, ended, or caught.
LEMMA ReplyKeeps ==
  ASSUME FlowInv, NEW kind, Reply(kind), kind = "ok" => phase["getter"] = "awaiting"
  PROVE  FlowInv'
<1>1. CASE tcp["getter"] = "closed"
  <2>1. phase' = [phase EXCEPT !["getter"] = "responding"] /\ UNCHANGED <<tcp, wants, overflow>>
    BY <1>1 DEF Reply, Set
  <2> QED BY <2>1, IdleKeeps DEF Idle, FlowInv, FlowTyped, Sides, Phases
<1>2. CASE tcp["getter"] # "closed" /\ kind = "ok"
  <2>1. Link("getter", <<>>, <<Msg("ok")>>)
    BY <1>2 DEF Reply, GetterLink
  <2> QED BY <2>1, <1>2, LinkKeeps DEF Sides
<1>3. CASE tcp["getter"] # "closed" /\ kind # "ok"
  <2>1. /\ phase' = [phase EXCEPT !["getter"] = "failed"] /\ UNCHANGED <<wants, overflow>>
        /\ GetterStop(<<>>)
    BY <1>3 DEF Reply, Set
  <2>2. /\ tcp' \in [Sides -> TcpStates]
        /\ \A t \in Sides : tcp'[t] = "open" => tcp[t] = "open"
    BY <2>1, StopCloses DEF GetterStop, Sides, FlowInv
  <2> QED BY <2>1, <2>2, IdleKeeps DEF Idle, FlowInv, FlowTyped, Sides, Phases
<1> QED BY <1>1, <1>2, <1>3

\* Every step of the getter, the giver, the channel and the sockets.
LEMMA FlowNext == FlowInv /\ [Next]_vars => FlowInv'
<1> SUFFICES ASSUME FlowInv, [Next]_vars PROVE FlowInv'
  OBVIOUS
<1> USE DEF FlowInv
<1>1. ASSUME OpenDataChannel PROVE FlowInv'
  BY <1>1, IdleKeeps DEF OpenDataChannel, Idle, FlowTyped, Set, Sides, Phases, flowVars
<1>2. ASSUME OpenFails PROVE FlowInv'
  BY <1>2, IdleKeeps DEF OpenFails, Idle, FlowTyped, Set, Sides, Phases, flowVars
<1>3. ASSUME DoAuthHandshake PROVE FlowInv'
  <2>1. UNCHANGED <<wants, overflow>>
    BY <1>3 DEF DoAuthHandshake, flowVars
  <2>2. CASE UNCHANGED tcp /\ phase' = [phase EXCEPT !["getter"] = "request"]
    BY <2>1, <2>2, IdleKeeps DEF Idle, FlowTyped, Sides, Phases
  <2>3. CASE GetterStop(<<>>) /\ phase' = [phase EXCEPT !["getter"] = "failed"]
    BY <2>1, <2>3, IdleKeeps, StopCloses DEF GetterStop, Idle, FlowTyped, Sides, Phases
  <2> QED BY <1>3, <2>2, <2>3 DEF DoAuthHandshake, Set
<1>4. ASSUME SendRequest PROVE FlowInv'
  <2>1. /\ phase["getter"] = "request" /\ phase' = [phase EXCEPT !["getter"] = "awaiting"]
        /\ wants' = [wants EXCEPT !["getter"] = "pause"]
        /\ UNCHANGED <<tcp, overflow>>
    BY <1>4 DEF SendRequest, Set
  <2> QED BY <2>1 DEF FlowTyped, PausedInHandshake, PauseFollowsOverflow, Sides, Phases
<1>5. ASSUME NoRequest PROVE FlowInv'
  BY <1>5, ReplyKeeps DEF NoRequest
<1>6. ASSUME Response PROVE FlowInv'
  BY <1>6, ReplyKeeps DEF Response
<1>7. ASSUME PeerOpenedChannel PROVE FlowInv'
  BY <1>7, IdleKeeps DEF PeerOpenedChannel, Idle, FlowTyped, Set, Sides, Phases, flowVars
<1>8. ASSUME ReceiveEndpoint PROVE FlowInv'
  <2>1. phase["giver"] = "endpoint" /\ UNCHANGED overflow
    BY <1>8 DEF ReceiveEndpoint
  <2>2. CASE /\ phase' = [phase EXCEPT !["giver"] = "connecting"]
             /\ tcp' = [tcp EXCEPT !["giver"] = "connecting"]
             /\ wants' = [wants EXCEPT !["giver"] = "pause"]
    BY <2>1, <2>2 DEF FlowTyped, PausedInHandshake, PauseFollowsOverflow, Sides, Phases,
                      TcpStates
  <2>3. CASE /\ phase' = [phase EXCEPT !["giver"] = "failed"]
             /\ GiverStop(<<Msg("fail")>>) /\ UNCHANGED wants
    BY <2>1, <2>3, IdleKeeps, StopCloses DEF GiverStop, Idle, FlowTyped, Sides, Phases
  <2> QED BY <1>8, <2>2, <2>3 DEF ReceiveEndpoint, Set
<1>9. ASSUME Connected PROVE FlowInv'
  BY <1>9, LinkKeeps DEF Connected, GiverLink, Sides
<1>10. ASSUME ConnectFails PROVE FlowInv'
  <2>1. /\ phase' = [phase EXCEPT !["giver"] = "failed"] /\ UNCHANGED <<wants, overflow>>
        /\ GiverStop(<<Msg("fail")>>)
    BY <1>10 DEF ConnectFails, Set, flowVars
  <2> QED BY <2>1, IdleKeeps, StopCloses DEF GiverStop, Idle, FlowTyped, Sides, Phases
<1>11. ASSUME FailureSent PROVE FlowInv'
  BY <1>11, IdleKeeps, StopCloses DEF FailureSent, GiverStop, Idle, FlowTyped, Sides, flowVars
<1>12. ASSUME ChannelFails PROVE FlowInv'
  BY <1>12, IdleKeeps DEF ChannelFails, Idle, FlowTyped, flowVars
<1>13. ASSUME NEW s \in Sides, Channel(s) PROVE FlowInv'
  <2>1. UNCHANGED <<phase, wants, overflow>>
    BY <1>13 DEF Channel, Receive, CloseArrives, Drained, ChannelLost, flowVars
  <2>2. UNCHANGED tcp \/ \E now, msgs : ChannelClosed(s, now, msgs)
    BY <1>13 DEF Channel, Receive, CloseArrives, Drained, ChannelLost
  <2> QED BY <2>1, <2>2, IdleKeeps, EndCloses DEF Idle, FlowTyped
<1>14. ASSUME NEW s \in Sides, OnData(s) PROVE FlowInv'
  <2>1. UNCHANGED <<phase, tcp>>
    BY <1>14 DEF OnData
  <2>2. CASE UNCHANGED <<wants, overflow>>
    BY <2>1, <2>2, IdleKeeps DEF Idle, FlowTyped
  <2>3. CASE /\ phase[s] = "linked" /\ overflow' = [overflow EXCEPT ![s] = TRUE]
             /\ wants' = IF overflow' = overflow THEN wants ELSE [wants EXCEPT ![s] = "pause"]
    BY <2>1, <2>3 DEF FlowTyped, PausedInHandshake, PauseFollowsOverflow
  <2> QED BY <1>14, <2>2, <2>3 DEF OnData, MayOverflow, Set
<1>15. ASSUME NEW s \in Sides, OnDisconnect(s) PROVE FlowInv'
  BY <1>15, IdleKeeps DEF OnDisconnect, Idle, FlowTyped, Set, TcpStates, flowVars
<1>16. ASSUME NEW s \in Sides, OverflowEnds(s) PROVE FlowInv'
  <2>1. /\ overflow' = [overflow EXCEPT ![s] = FALSE] /\ UNCHANGED <<phase, tcp>>
        /\ wants' = IF phase[s] = "linked" /\ tcp[s] # "closed"
                    THEN [wants EXCEPT ![s] = "run"] ELSE wants
    BY <1>16 DEF OverflowEnds, Set
  <2> QED BY <2>1 DEF FlowTyped, PausedInHandshake, PauseFollowsOverflow
<1>17. ASSUME NEW s \in Sides, PauseTakesEffect(s) PROVE FlowInv'
  BY <1>17, IdleKeeps DEF PauseTakesEffect, Idle, FlowTyped
<1>18. ASSUME NEW s \in Sides, OnceClosed(s) PROVE FlowInv'
  <2>1. UNCHANGED <<phase, wants, overflow>>
    BY <1>18 DEF OnceClosed, flowVars
  <2>2. UNCHANGED tcp \/ \E now, msgs : StopAt(s, now, msgs)
    BY <1>18 DEF OnceClosed, Stop, GetterStop, GiverStop, Sides
  <2> QED BY <2>1, <2>2, IdleKeeps, StopCloses DEF Idle, FlowTyped
<1>19. CASE UNCHANGED vars
  BY <1>19, IdleKeeps DEF vars, flowVars, Idle, FlowTyped
<1> QED BY <1>1, <1>2, <1>3, <1>4, <1>5, <1>6, <1>7, <1>8, <1>9, <1>10, <1>11, <1>12,
           <1>13, <1>14, <1>15, <1>16, <1>17, <1>18, <1>19
        DEF Next, Getter, Giver, Socket

\* The socket of a Session that is linked is paused exactly as long as its data
\* channel is in overflow, for any amount of data, also if the channel came into
\* overflow before linkSocketAndChannel_ had given it the listener.
THEOREM SocketFollowsOverflow == Spec => []PauseFollowsOverflow
<1>1. FlowInv => PauseFollowsOverflow
  BY DEF FlowInv
<1> QED BY <1>1, FlowInit, FlowNext, PTL DEF Spec

-----------------------------------------------------------------------------
(* The streams.  What an end sends is a number of words, each settled by its *)
(* place but for the reply of the giver, and then maybe CLOSE.               *)

Word(s, i) ==
  IF s = "getter"
  THEN {IF i = 1 THEN Msg("OPEN") ELSE IF i = 2 THEN Msg("request") ELSE Packet(i)}
  ELSE IF i = 1 THEN {Msg("ok"), Msg("fail")} ELSE {Packet(i - 1)}

Ending(q) == q # <<>> /\ q[Len(q)] = Msg("CLOSE")
Words(q) == IF Ending(q) THEN Len(q) - 1 ELSE Len(q)

\* The ends that have sent CLOSE, and the words that each has sent.
ended == {s \in Sides : Ending(sent[s])}
told == [s \in Sides |-> Words(sent[s])]
\* The ends at which the CLOSE of the other has arrived, and the words that have.
heardAll == {s \in Sides : got[s] > told[Peer(s)]}
heard == [s \in Sides |-> IF got[s] > told[Peer(s)] THEN told[Peer(s)] ELSE got[s]]
\* The words written to each socket, and the packets that wait to be read.
written == [s \in Sides |-> Len(toSocket[s])]
queued == [s \in Sides |-> Len(fromSocket[s])]

\* The giver has told the getter that it is connected.
Succeeded == told["giver"] >= 1 /\ sent["giver"][1] = Msg("ok")

Spoken == \A s \in Sides : \A i \in 1..told[s] : sent[s][i] \in Word(s, i)

\* The queue of a socket holds the packets behind those that are skipped.
QueueFrom(s, skipped) ==
  /\ queued[s] = arrived[s] - skipped
  /\ \A i \in 1..queued[s] : fromSocket[s][i] = i + skipped

Queued ==
  /\ ~stopping["getter"] =>
       /\ phase["getter"] \in {"opening", "auth"} => QueueFrom("getter", 0)
       /\ phase["getter"] = "request" => QueueFrom("getter", 1)
       /\ phase["getter"] = "awaiting" => QueueFrom("getter", 2)
  /\ ~stopping["giver"] /\ phase["giver"] \in {"waiting", "endpoint", "connecting"} =>
       QueueFrom("giver", 0)

\* What was written to the sockets, for as far as anything was.
GiverWrote == \A j \in 1..written["giver"] : toSocket["giver"][j] = Packet(j + 2)
Answer(j) == IF j = 1 THEN Msg("auth") ELSE IF j = 2 THEN Msg("ok") ELSE Packet(j - 2)
GetterWrote ==
  \/ toSocket["getter"] \in {<<>>, <<Msg("auth")>>}
  \/ /\ phase["getter"] # "linked"
     /\ toSocket["getter"] \in {<<Msg("fail")>>, <<Msg("auth"), Msg("fail")>>}
  \/ /\ phase["getter"] = "linked" /\ written["getter"] >= 2
     /\ \A j \in 1..written["getter"] : toSocket["getter"][j] = Answer(j)

\* The state of an end of the channel, what it has sent and heard, and its Session.
ChannelSide(s) ==
  /\ channel[s] \in {"OPEN", "DRAINING", "POOLED"} => s \notin ended
  /\ channel[s] \in {"CLOSING", "CLOSED"} => s \in ended
  /\ channel[s] = "DEAD" => ~up
  /\ channel[s] \in {"DRAINING", "CLOSED"} => s \in heardAll
  /\ s \in heardAll => channel[s] \in {"DRAINING", "CLOSED", "DEAD"}
  /\ phase[s] \in {"opening", "unopened", "waiting"} =>
       channel[s] \in {"POOLED", "DEAD"} /\ sent[s] = <<>> /\ got[s] = 0
  /\ phase[s] = "refused" => channel[s] \in {"CLOSING", "CLOSED", "DEAD"}
  /\ Started(s) => channel[s] # "POOLED"
  /\ stopping[s] => Started(s) /\ channel[s] # "OPEN"
  /\ Started(s) /\ channel[s] \in {"CLOSING", "CLOSED", "DEAD"} => stopping[s]
  /\ phase[s] \in {"auth", "request", "awaiting", "endpoint", "connecting"} =>
       channel[s] # "CLOSING"
  /\ phase[s] = "failed" => stopping[s]

\* The state of a socket.
SocketSide(s) ==
  /\ stopping[s] => tcp[s] \notin {"open", "connecting"}
  /\ tcp[s] = "closing" => stopping[s]
  /\ tcp[s] = "closed" => left[s] \/ stopping[s]
  /\ left[s] => tcp[s] = "closed"
  /\ phase[s] = "linked" => tcp[s] \in {"open", "closing", "closed"}
  /\ tcp[s] = "connecting" => phase[s] = "connecting"

\* What each phase of the getter has said, heard and written.
GetterSide ==
  /\ phase["getter"] \in {"opening", "unopened", "auth", "request", "awaiting", "responding",
                          "linked", "failed"}
  /\ tcp["getter"] \in {"open", "closing", "closed"}
  /\ gone["getter"] => tcp["getter"] = "closed"
  /\ phase["getter"] = "responding" => tcp["getter"] = "closed"
  /\ phase["getter"] \in {"auth", "request"} => told["getter"] = 1
  /\ phase["getter"] = "awaiting" => told["getter"] = 2
  /\ phase["getter"] \in {"responding", "failed"} => told["getter"] \in 1..2
  /\ phase["getter"] = "linked" =>
       /\ told["getter"] >= 2
       /\ channel["getter"] \in {"OPEN", "CLOSING"} => told["getter"] = arrived["getter"]
  /\ phase["getter"] \in {"opening", "unopened", "auth", "request", "awaiting"} =>
       heard["getter"] = 0
  /\ phase["getter"] = "linked" => heard["getter"] >= 1 /\ Succeeded
  /\ phase["getter"] \in {"opening", "auth"} => toSocket["getter"] = <<>>
  /\ phase["getter"] \in {"request", "awaiting"} =>
       /\ toSocket["getter"] \in {<<>>, <<Msg("auth")>>}
       /\ tcp["getter"] = "open" => toSocket["getter"] = <<Msg("auth")>>
  /\ phase["getter"] \notin {"responding", "failed"} => inbox["getter"] = <<>>

\* The same of the giver.
GiverSide ==
  /\ phase["giver"] \in {"waiting", "refused", "endpoint", "connecting", "linked", "failed"}
  /\ phase["giver"] \in {"waiting", "refused", "endpoint"} => tcp["giver"] = "none"
  /\ phase["giver"] = "connecting" => tcp["giver"] # "none"
  /\ tcp["giver"] = "none" => arrived["giver"] = 0
  /\ phase["giver"] \in {"refused", "endpoint", "connecting"} => told["giver"] = 0
  /\ phase["giver"] = "failed" => told["giver"] <= 1
  /\ phase["giver"] = "linked" /\ channel["giver"] \in {"OPEN", "CLOSING"} =>
       told["giver"] = arrived["giver"] + 1
  /\ phase["giver"] \in {"connecting", "linked", "failed"} => heard["giver"] >= 2
  /\ phase["giver"] = "refused" => got["giver"] >= 1
  /\ phase["giver"] = "endpoint" => heard["giver"] = 1
  /\ phase["giver"] \in {"waiting", "endpoint", "connecting", "linked"} => inbox["giver"] = <<>>
  /\ phase["giver"] # "linked" => toSocket["giver"] = <<>>
  /\ failing => host = "named" /\ told["giver"] >= 1 /\ phase["giver"] = "linked"
  /\ Succeeded => phase["giver"] = "linked" /\ host = "good"
  /\ "giver" \in ended /\ told["giver"] = 0 => phase["giver"] = "refused" \/ "getter" \in ended

\* No end says more than its socket delivered.
Covered ==
  /\ told["getter"] <= 2 \/ told["getter"] <= arrived["getter"]
  /\ told["giver"] <= arrived["giver"] + 1
  /\ written["giver"] = 0 \/ written["giver"] + 2 <= told["getter"]
  /\ phase["getter"] = "linked" => written["getter"] <= told["giver"] + 1

\* Nothing but its peer makes this Session stop.
Kept(s) == ~left[s] /\ up /\ host # "named"

\* Such a Session is never the first to close, ...
QuitsOnce == \A s \in Sides : phase[s] = "linked" /\ Kept(s) => channel[s] # "CLOSING"

\* ... its peer closes only behind all that came from its socket, ...
SaidAll ==
  \A s \in Sides :
    phase[s] = "linked" /\ phase[Peer(s)] = "linked" /\ Kept(Peer(s)) /\ channel[s] = "CLOSED"
      => told[s] = IF s = "getter" THEN arrived[s] ELSE arrived[s] + 1

\* ... and what it hears it writes.
Written ==
  /\ phase["giver"] = "linked" /\ (tcp["giver"] = "open" \/ Kept("giver")) =>
       written["giver"] = heard["giver"] - 2
  /\ phase["getter"] = "linked" /\ (tcp["getter"] = "open" \/ Kept("getter")) =>
       written["getter"] = heard["getter"] + 1

Control ==
  /\ \A s \in Sides : ChannelSide(s) /\ SocketSide(s)
  /\ GetterSide /\ GiverSide /\ Covered /\ QuitsOnce /\ SaidAll /\ Written
  /\ AnsweredBeforeClose

Content == Spoken /\ Queued /\ GiverWrote /\ GetterWrote

StreamInv == TypeOK /\ Control /\ Content

-----------------------------------------------------------------------------
(* Facts about sequences of messages *)

LEMMA WordIsMessage ==
  ASSUME NEW s \in Sides, NEW i, NEW w \in Word(s, i)
  PROVE  w # Msg("CLOSE")
BY DEF Word, Msg, Packet, Sides

\* Words behind words.
LEMMA Saying ==
  ASSUME NEW q \in Seq(Message), NEW m \in Seq(Message), ~Ending(q),
         \A i \in 1..Len(m) : m[i] # Msg("CLOSE")
  PROVE  /\ q \o m \in Seq(Message) /\ ~Ending(q \o m)
         /\ Len(q \o m) = Len(q) + Len(m)
         /\ Words(q) = Len(q) /\ Words(q \o m) = Words(q) + Len(m)
         /\ \A i \in 1..Words(q) : (q \o m)[i] = q[i]
         /\ \A i \in 1..Len(m) : (q \o m)[Words(q) + i] = m[i]
<1> DEFINE r == q \o m
<1>1. /\ r \in Seq(Message) /\ Len(r) = Len(q) + Len(m) /\ Len(q) \in Nat /\ Len(m) \in Nat
      /\ \A i \in 1..Len(q) : r[i] = q[i]
      /\ \A i \in 1..Len(m) : r[Len(q) + i] = m[i]
  OBVIOUS
<1>2. q = <<>> <=> Len(q) = 0
  OBVIOUS
<1>3. r = <<>> <=> Len(r) = 0
  BY <1>1
<1>4. ~Ending(r)
  <2>1. CASE Len(m) = 0
    <3>1. Len(r) = Len(q)
      BY <1>1, <2>1
    <3>2. CASE Len(q) = 0
      BY <3>1, <3>2, <1>3 DEF Ending
    <3>3. CASE Len(q) # 0
      <4>1. r[Len(r)] = q[Len(q)] /\ q # <<>>
        BY <3>1, <3>3, <1>1, <1>2
      <4> QED BY <4>1 DEF Ending
    <3> QED BY <3>2, <3>3
  <2>2. CASE Len(m) # 0
    <3>1. Len(m) \in 1..Len(m) /\ r[Len(r)] = m[Len(m)]
      BY <1>1, <2>2
    <3> QED BY <3>1 DEF Ending
  <2> QED BY <2>1, <2>2
<1> HIDE DEF r
<1>5. Words(q) = Len(q) /\ Words(r) = Len(q) + Len(m)
  BY <1>1, <1>4 DEF Words
<1>6. QED BY <1>1, <1>4, <1>5 DEF r

\* CLOSE behind words.
LEMMA SayingLast ==
  ASSUME NEW q \in Seq(Message), ~Ending(q)
  PROVE  /\ Append(q, Msg("CLOSE")) \in Seq(Message) /\ Ending(Append(q, Msg("CLOSE")))
         /\ Len(Append(q, Msg("CLOSE"))) = Len(q) + 1
         /\ Words(Append(q, Msg("CLOSE"))) = Words(q) /\ Words(q) = Len(q)
         /\ \A i \in 1..Words(q) : Append(q, Msg("CLOSE"))[i] = q[i]
<1> DEFINE r == Append(q, Msg("CLOSE"))
<1>0. Msg("CLOSE") \in Message
  BY DEF Message
<1>1. /\ r \in Seq(Message) /\ Len(r) = Len(q) + 1 /\ Len(q) \in Nat
      /\ \A i \in 1..Len(q) : r[i] = q[i]
      /\ r[Len(q) + 1] = Msg("CLOSE")
  BY <1>0
<1>2. r # <<>>
  BY <1>1
<1> HIDE DEF r
<1>3. Ending(r)
  BY <1>1, <1>2 DEF Ending
<1>4. Words(q) = Len(q) /\ Words(r) = Len(q)
  BY <1>1, <1>3 DEF Words
<1> QED BY <1>1, <1>3, <1>4 DEF r

LEMMA AppendJoins ==
  ASSUME NEW q \in Seq(Message), NEW m \in Seq(Message)
  PROVE  q \o Append(m, Msg("CLOSE")) = Append(q \o m, Msg("CLOSE"))
<1>1. Msg("CLOSE") \in Message
  BY DEF Message
<1> QED BY <1>1

LEMMA WordsBound ==
  ASSUME NEW q \in Seq(Message)
  PROVE  /\ Words(q) \in Nat /\ Words(q) <= Len(q)
         /\ ~Ending(q) => Words(q) = Len(q)
         /\ Ending(q) => Len(q) = Words(q) + 1 /\ q[Words(q) + 1] = Msg("CLOSE")
<1>1. Len(q) \in Nat /\ (Len(q) = 0 => q = <<>>)
  OBVIOUS
<1> QED BY <1>1 DEF Words, Ending

-----------------------------------------------------------------------------
(* What is sent, and what is heard of it *)

LEMMA Peers ==
  /\ "getter" \in Sides /\ "giver" \in Sides
  /\ Peer("getter") = "giver" /\ Peer("giver") = "getter"
  /\ \A s \in Sides : Peer(s) \in Sides /\ Peer(s) # s /\ Peer(Peer(s)) = s
  /\ \A s \in Sides : \A t \in Sides : t # s <=> t = Peer(s)
BY DEF Sides, Peer

SentTyped ==
  /\ sent \in [Sides -> Seq(Message)] /\ got \in [Sides -> Nat]
  /\ \A s \in Sides : got[s] <= Len(sent[Peer(s)])

LEMMA ToldTyped ==
  ASSUME SentTyped
  PROVE  /\ told \in [Sides -> Nat] /\ ended \subseteq Sides
         /\ \A s \in Sides :
              /\ told[s] = Words(sent[s]) /\ told[s] <= Len(sent[s])
              /\ s \in ended <=> Ending(sent[s])
              /\ s \notin ended => told[s] = Len(sent[s])
              /\ s \in ended => Len(sent[s]) = told[s] + 1 /\ sent[s][told[s] + 1] = Msg("CLOSE")
<1>1. \A s \in Sides : sent[s] \in Seq(Message)
  BY DEF SentTyped
<1>2. \A s \in Sides : told[s] = Words(sent[s]) /\ (s \in ended <=> Ending(sent[s]))
  BY DEF told, ended
<1>3. \A s \in Sides : Words(sent[s]) \in Nat
  BY <1>1, WordsBound
<1>4. told \in [Sides -> Nat]
  BY <1>3 DEF told
<1>5. ended \subseteq Sides
  BY DEF ended
<1> QED BY <1>1, <1>2, <1>4, <1>5, WordsBound

LEMMA HeardTyped ==
  ASSUME SentTyped
  PROVE  /\ heard \in [Sides -> Nat] /\ heardAll \subseteq Sides
         /\ \A s \in Sides :
              /\ heard[s] <= told[Peer(s)]
              /\ s \in heardAll => /\ Peer(s) \in ended /\ heard[s] = told[Peer(s)]
                                   /\ got[s] = told[Peer(s)] + 1 /\ got[s] = Len(sent[Peer(s)])
              /\ s \notin heardAll => heard[s] = got[s] /\ got[s] <= told[Peer(s)]
              /\ s \in heardAll <=> got[s] > told[Peer(s)]
<1>1. \A s \in Sides : got[s] \in Nat /\ told[Peer(s)] \in Nat /\ got[s] <= Len(sent[Peer(s)])
  BY ToldTyped, Peers DEF SentTyped
<1>2. \A s \in Sides : heard[s] = IF got[s] > told[Peer(s)] THEN told[Peer(s)] ELSE got[s]
  BY DEF heard
<1>3. heard \in [Sides -> Nat]
  <2>1. \A s \in Sides : (IF got[s] > told[Peer(s)] THEN told[Peer(s)] ELSE got[s]) \in Nat
    BY <1>1
  <2> QED BY <2>1 DEF heard
<1>4. heardAll \subseteq Sides /\ \A s \in Sides : s \in heardAll <=> got[s] > told[Peer(s)]
  BY DEF heardAll
<1>5. ASSUME NEW s \in Sides
      PROVE  /\ heard[s] <= told[Peer(s)]
             /\ s \in heardAll => /\ Peer(s) \in ended /\ heard[s] = told[Peer(s)]
                                  /\ got[s] = told[Peer(s)] + 1 /\ got[s] = Len(sent[Peer(s)])
             /\ s \notin heardAll => heard[s] = got[s] /\ got[s] <= told[Peer(s)]
             /\ s \in heardAll <=> got[s] > told[Peer(s)]
  <2>1. /\ Peer(s) \notin ended => told[Peer(s)] = Len(sent[Peer(s)])
        /\ Peer(s) \in ended => Len(sent[Peer(s)]) = told[Peer(s)] + 1
    BY ToldTyped, Peers
  <2> QED BY <1>1, <1>2, <1>4, <2>1
<1> QED BY <1>3, <1>4, <1>5

\* Nothing that was sent is taken back, and nothing is sent behind CLOSE.
Grew ==
  /\ sent' \in [Sides -> Seq(Message)]
  /\ \A t \in Sides :
       /\ Len(sent'[t]) >= Len(sent[t]) /\ told'[t] >= told[t]
       /\ t \in ended => t \in ended' /\ told'[t] = told[t]
       /\ \A i \in 1..told[t] : sent'[t][i] = sent[t][i]

LEMMA SameSent ==
  ASSUME SentTyped, sent' = sent
  PROVE  Grew /\ told' = told /\ ended' = ended /\ (Spoken => Spoken')
<1>1. told' = told /\ ended' = ended
  BY DEF told, ended
<1>2. \A t \in Sides : told[t] \in Nat /\ Len(sent[t]) \in Nat
  BY ToldTyped DEF SentTyped
<1> QED BY <1>1, <1>2 DEF Grew, Spoken, SentTyped

\* Words are sent.
LEMMA WordsSent ==
  ASSUME SentTyped, Spoken, NEW s \in Sides, s \notin ended, NEW m \in Seq(Message),
         \A j \in 1..Len(m) : m[j] \in Word(s, told[s] + j), Post(s, m)
  PROVE  /\ Grew /\ told' = [told EXCEPT ![s] = told[s] + Len(m)] /\ ended' = ended /\ Spoken'
         /\ \A j \in 1..Len(m) : sent'[s][told[s] + j] = m[j]
<1>1. sent' = [sent EXCEPT ![s] = sent[s] \o m] /\ sent[s] \in Seq(Message) /\ ~Ending(sent[s])
  BY ToldTyped DEF Post, Set, SentTyped
<1>2. \A j \in 1..Len(m) : m[j] # Msg("CLOSE")
  BY WordIsMessage
<1>3. /\ sent'[s] \in Seq(Message) /\ ~Ending(sent'[s])
      /\ Len(sent'[s]) = Len(sent[s]) + Len(m)
      /\ Words(sent'[s]) = Words(sent[s]) + Len(m)
      /\ \A i \in 1..Words(sent[s]) : sent'[s][i] = sent[s][i]
      /\ \A i \in 1..Len(m) : sent'[s][Words(sent[s]) + i] = m[i]
  <2>1. sent'[s] = sent[s] \o m
    BY <1>1 DEF SentTyped
  <2> QED BY <2>1, <1>1, <1>2, Saying
<1>4. \A t \in Sides : t # s => sent'[t] = sent[t]
  BY <1>1 DEF SentTyped
<1>5. sent' \in [Sides -> Seq(Message)]
  <2>1. sent' = [sent EXCEPT ![s] = sent'[s]]
    BY <1>1 DEF SentTyped
  <2> QED BY <2>1, <1>3 DEF SentTyped
<1>6. told[s] = Words(sent[s]) /\ told[s] \in Nat /\ Len(m) \in Nat /\ Len(sent[s]) \in Nat
  BY ToldTyped, <1>1
<1>7. told' = [told EXCEPT ![s] = told[s] + Len(m)]
  <2>1. told' = [t \in Sides |-> Words(sent'[t])]
    BY DEF told
  <2>2. told = [t \in Sides |-> Words(sent[t])]
    BY DEF told
  <2> QED BY <2>1, <2>2, <1>3, <1>4, <1>6
<1>8. ended' = ended
  <2>1. \A t \in Sides : Ending(sent'[t]) <=> Ending(sent[t])
    BY <1>1, <1>3, <1>4
  <2> QED BY <2>1 DEF ended
<1>9. \A t \in Sides : told[t] \in Nat /\ Len(sent[t]) \in Nat
  BY ToldTyped DEF SentTyped
<1>10. Grew
  BY <1>3, <1>4, <1>5, <1>6, <1>7, <1>8, <1>9, ToldTyped, SMTT(20) DEF Grew
<1>11. Spoken'
  <2> SUFFICES ASSUME NEW t \in Sides, NEW i \in 1..told'[t] PROVE sent'[t][i] \in Word(t, i)
    BY DEF Spoken
  <2>1. CASE t # s
    BY <2>1, <1>4, <1>7, ToldTyped DEF Spoken
  <2>2. CASE t = s /\ i <= told[s]
    BY <2>2, <1>3, <1>6, <1>7 DEF Spoken
  <2>3. CASE t = s /\ i > told[s]
    <3>1. told'[s] = told[s] + Len(m)
      BY <1>7, ToldTyped
    <3>2. i - told[s] \in 1..Len(m) /\ i = told[s] + (i - told[s])
      BY <2>3, <3>1, <1>6
    <3>3. sent'[s][told[s] + (i - told[s])] = m[i - told[s]]
      BY <3>2, <1>3, <1>6
    <3> QED BY <3>2, <3>3, <2>3
  <2> QED BY <2>1, <2>2, <2>3, <1>6
<1> QED BY <1>3, <1>6, <1>7, <1>8, <1>10, <1>11

\* Words are sent, and CLOSE behind them.
LEMMA LastSent ==
  ASSUME SentTyped, Spoken, NEW s \in Sides, s \notin ended, NEW m \in Seq(Message),
         \A j \in 1..Len(m) : m[j] \in Word(s, told[s] + j), Post(s, Append(m, Msg("CLOSE")))
  PROVE  /\ Grew /\ told' = [told EXCEPT ![s] = told[s] + Len(m)] /\ ended' = ended \cup {s}
         /\ Spoken' /\ \A j \in 1..Len(m) : sent'[s][told[s] + j] = m[j]
<1>1. /\ sent' = [sent EXCEPT ![s] = sent[s] \o Append(m, Msg("CLOSE"))]
      /\ sent[s] \in Seq(Message) /\ ~Ending(sent[s])
  BY ToldTyped DEF Post, Set, SentTyped
<1>2. \A j \in 1..Len(m) : m[j] # Msg("CLOSE")
  BY WordIsMessage
<1>3. /\ sent'[s] \in Seq(Message) /\ Ending(sent'[s])
      /\ Len(sent'[s]) = Len(sent[s]) + Len(m) + 1
      /\ Words(sent'[s]) = Words(sent[s]) + Len(m)
      /\ \A i \in 1..Words(sent[s]) : sent'[s][i] = sent[s][i]
      /\ \A i \in 1..Len(m) : sent'[s][Words(sent[s]) + i] = m[i]
  <2> DEFINE r == sent[s] \o m
  <2>1. sent'[s] = Append(r, Msg("CLOSE"))
    BY <1>1, AppendJoins DEF SentTyped
  <2>2. /\ r \in Seq(Message) /\ ~Ending(r)
        /\ Len(r) = Len(sent[s]) + Len(m)
        /\ Words(r) = Words(sent[s]) + Len(m)
        /\ \A i \in 1..Words(sent[s]) : r[i] = sent[s][i]
        /\ \A i \in 1..Len(m) : r[Words(sent[s]) + i] = m[i]
    BY <1>1, <1>2, Saying
  <2> HIDE DEF r
  <2>3. /\ sent'[s] \in Seq(Message) /\ Ending(sent'[s]) /\ Len(sent'[s]) = Len(r) + 1
        /\ Words(sent'[s]) = Words(r) /\ \A i \in 1..Words(r) : sent'[s][i] = r[i]
    BY <2>1, <2>2, SayingLast
  <2>4. Words(sent[s]) \in Nat /\ Len(m) \in Nat
    BY <1>1, WordsBound
  <2>5. /\ Len(sent'[s]) = Len(sent[s]) + Len(m) + 1
        /\ Words(sent'[s]) = Words(sent[s]) + Len(m)
    BY <2>2, <2>3
  <2>6. \A i \in 1..Words(sent[s]) : sent'[s][i] = sent[s][i]
    <3>1. \A i \in 1..Words(sent[s]) : i \in 1..Words(r)
      BY <2>2, <2>4
    <3> QED BY <3>1, <2>2, <2>3
  <2>7. \A i \in 1..Len(m) : sent'[s][Words(sent[s]) + i] = m[i]
    <3>1. \A i \in 1..Len(m) : Words(sent[s]) + i \in 1..Words(r)
      BY <2>2, <2>4
    <3> QED BY <3>1, <2>2, <2>3
  <2> QED BY <2>3, <2>5, <2>6, <2>7
<1>4. \A t \in Sides : t # s => sent'[t] = sent[t]
  BY <1>1 DEF SentTyped
<1>5. sent' \in [Sides -> Seq(Message)]
  <2>1. sent' = [sent EXCEPT ![s] = sent'[s]]
    BY <1>1 DEF SentTyped
  <2> QED BY <2>1, <1>3 DEF SentTyped
<1>6. told[s] = Words(sent[s]) /\ told[s] \in Nat /\ Len(m) \in Nat /\ Len(sent[s]) \in Nat
  BY ToldTyped, <1>1
<1>7. told' = [told EXCEPT ![s] = told[s] + Len(m)]
  <2>1. told' = [t \in Sides |-> Words(sent'[t])]
    BY DEF told
  <2>2. told = [t \in Sides |-> Words(sent[t])]
    BY DEF told
  <2> QED BY <2>1, <2>2, <1>3, <1>4, <1>6
<1>8. ended' = ended \cup {s}
  BY <1>3, <1>4 DEF ended
<1>9. \A t \in Sides : told[t] \in Nat /\ Len(sent[t]) \in Nat
  BY ToldTyped DEF SentTyped
<1>10. Grew
  BY <1>3, <1>4, <1>5, <1>6, <1>7, <1>8, <1>9, ToldTyped DEF Grew
<1>11. Spoken'
  <2> SUFFICES ASSUME NEW t \in Sides, NEW i \in 1..told'[t] PROVE sent'[t][i] \in Word(t, i)
    BY DEF Spoken
  <2>1. CASE t # s
    BY <2>1, <1>4, <1>7, ToldTyped DEF Spoken
  <2>2. CASE t = s /\ i <= told[s]
    BY <2>2, <1>3, <1>6, <1>7 DEF Spoken
  <2>3. CASE t = s /\ i > told[s]
    <3>1. told'[s] = told[s] + Len(m)
      BY <1>7, ToldTyped
    <3>2. i - told[s] \in 1..Len(m) /\ i = told[s] + (i - told[s])
      BY <2>3, <3>1, <1>6
    <3>3. sent'[s][told[s] + (i - told[s])] = m[i - told[s]]
      BY <3>2, <1>3, <1>6
    <3> QED BY <3>2, <3>3, <2>3
  <2> QED BY <2>1, <2>2, <2>3, <1>6
<1> QED BY <1>3, <1>6, <1>7, <1>8, <1>10, <1>11

\* What was heard does not depend on what is sent meanwhile.
LEMMA HeardStays ==
  ASSUME SentTyped, Grew, got' = got
  PROVE  heard' = heard /\ heardAll' = heardAll /\ SentTyped'
<1>1. \A s \in Sides : /\ got[s] \in Nat /\ told[Peer(s)] \in Nat /\ told'[Peer(s)] >= told[Peer(s)]
                       /\ s \in heardAll => told'[Peer(s)] = told[Peer(s)]
                       /\ Len(sent'[Peer(s)]) >= Len(sent[Peer(s)])
  BY ToldTyped, HeardTyped, Peers DEF SentTyped, Grew
<1>2. \A s \in Sides : Len(sent[Peer(s)]) \in Nat /\ Len(sent'[Peer(s)]) \in Nat
  BY Peers DEF SentTyped, Grew
<1>3. \A s \in Sides : got[s] > told[Peer(s)] <=> s \in heardAll
  BY HeardTyped
<1>4. told' \in [Sides -> Nat]
  <2>1. \A s \in Sides : sent'[s] \in Seq(Message)
    BY DEF Grew
  <2>2. \A s \in Sides : Words(sent'[s]) \in Nat
    BY <2>1, WordsBound
  <2> QED BY <2>2 DEF told
<1>5. \A s \in Sides : told'[Peer(s)] \in Nat
  BY <1>4, Peers
<1>6. \A s \in Sides : /\ got[s] > told'[Peer(s)] <=> got[s] > told[Peer(s)]
                       /\ got[s] > told[Peer(s)] => told'[Peer(s)] = told[Peer(s)]
  BY <1>1, <1>3, <1>5
<1>7. heard' = heard /\ heardAll' = heardAll
  BY <1>6 DEF heard, heardAll
<1>8. SentTyped'
  BY <1>1, <1>2 DEF SentTyped, Grew
<1> QED BY <1>7, <1>8

\* A word is heard.
LEMMA HeardWord ==
  ASSUME SentTyped, Grew, NEW s \in Sides, got[s] < told[Peer(s)],
         got' = [got EXCEPT ![s] = got[s] + 1]
  PROVE  heard' = [heard EXCEPT ![s] = heard[s] + 1] /\ heardAll' = heardAll /\ SentTyped'
<1>1. \A t \in Sides : /\ got[t] \in Nat /\ told[Peer(t)] \in Nat /\ told'[Peer(t)] >= told[Peer(t)]
                       /\ t \in heardAll => told'[Peer(t)] = told[Peer(t)]
                       /\ Len(sent'[Peer(t)]) >= Len(sent[Peer(t)])
  BY ToldTyped, HeardTyped, Peers DEF SentTyped, Grew
<1>2. \A t \in Sides : Len(sent[Peer(t)]) \in Nat /\ Len(sent'[Peer(t)]) \in Nat
  BY Peers DEF SentTyped, Grew
<1>3. \A t \in Sides : got[t] > told[Peer(t)] <=> t \in heardAll
  BY HeardTyped
<1>4. told' \in [Sides -> Nat]
  <2>1. \A t \in Sides : sent'[t] \in Seq(Message)
    BY DEF Grew
  <2>2. \A t \in Sides : Words(sent'[t]) \in Nat
    BY <2>1, WordsBound
  <2> QED BY <2>2 DEF told
<1>5. \A t \in Sides : told'[Peer(t)] \in Nat
  BY <1>4, Peers
<1>6. \A t \in Sides : got'[t] = IF t = s THEN got[s] + 1 ELSE got[t]
  BY DEF SentTyped
<1>7. \A t \in Sides : /\ got'[t] > told'[Peer(t)] <=> got[t] > told[Peer(t)]
                       /\ got[t] > told[Peer(t)] => told'[Peer(t)] = told[Peer(t)]
  BY <1>1, <1>3, <1>5, <1>6
<1>8. heardAll' = heardAll
  BY <1>7 DEF heardAll
<1>9. \A t \in Sides : heard'[t] = IF t = s THEN heard[s] + 1 ELSE heard[t]
  BY <1>1, <1>6, <1>7 DEF heard
<1>10. heard' = [heard EXCEPT ![s] = heard[s] + 1]
  <2>1. heard' = [t \in Sides |-> heard'[t]]
    BY DEF heard
  <2>2. heard = [t \in Sides |-> heard[t]]
    BY DEF heard
  <2> QED BY <2>1, <2>2, <1>9
<1>11. SentTyped'
  <2>1. got' \in [Sides -> Nat]
    BY <1>1 DEF SentTyped
  <2>2. \A t \in Sides : told[Peer(t)] <= Len(sent[Peer(t)]) /\ got[t] <= Len(sent[Peer(t)])
    BY ToldTyped, Peers DEF SentTyped
  <2>3. \A t \in Sides : got'[t] <= Len(sent'[Peer(t)])
    BY <2>2, <1>1, <1>2, <1>6
  <2> QED BY <2>1, <2>3 DEF SentTyped, Grew
<1> QED BY <1>8, <1>10, <1>11

\* The CLOSE is heard.
LEMMA HeardClose ==
  ASSUME SentTyped, Grew, NEW s \in Sides, got[s] = told[Peer(s)], Peer(s) \in ended,
         got' = [got EXCEPT ![s] = got[s] + 1]
  PROVE  heard' = heard /\ heardAll' = heardAll \cup {s} /\ SentTyped'
<1>1. \A t \in Sides : /\ got[t] \in Nat /\ told[Peer(t)] \in Nat /\ told'[Peer(t)] >= told[Peer(t)]
                       /\ t \in heardAll => told'[Peer(t)] = told[Peer(t)]
                       /\ Len(sent'[Peer(t)]) >= Len(sent[Peer(t)])
  BY ToldTyped, HeardTyped, Peers DEF SentTyped, Grew
<1>2. \A t \in Sides : Len(sent[Peer(t)]) \in Nat /\ Len(sent'[Peer(t)]) \in Nat
  BY Peers DEF SentTyped, Grew
<1>3. \A t \in Sides : got[t] > told[Peer(t)] <=> t \in heardAll
  BY HeardTyped
<1>4. told' \in [Sides -> Nat]
  <2>1. \A t \in Sides : sent'[t] \in Seq(Message)
    BY DEF Grew
  <2>2. \A t \in Sides : Words(sent'[t]) \in Nat
    BY <2>1, WordsBound
  <2> QED BY <2>2 DEF told
<1>5. \A t \in Sides : told'[Peer(t)] \in Nat
  BY <1>4, Peers
<1>6. \A t \in Sides : got'[t] = IF t = s THEN got[s] + 1 ELSE got[t]
  BY DEF SentTyped
<1>0. told'[Peer(s)] = told[Peer(s)] /\ Len(sent[Peer(s)]) = told[Peer(s)] + 1
  BY ToldTyped, Peers DEF Grew
<1>7. \A t \in Sides : /\ got'[t] > told'[Peer(t)] <=> (t = s \/ got[t] > told[Peer(t)])
                       /\ got[t] > told[Peer(t)] => told'[Peer(t)] = told[Peer(t)]
  BY <1>0, <1>1, <1>3, <1>5, <1>6
<1>8. heardAll' = heardAll \cup {s}
  BY <1>7 DEF heardAll
<1>9. heard' = heard
  <2>1. \A t \in Sides : heard'[t] = heard[t]
    BY <1>0, <1>1, <1>6, <1>7 DEF heard
  <2>2. heard' = [t \in Sides |-> heard'[t]]
    BY DEF heard
  <2>3. heard = [t \in Sides |-> heard[t]]
    BY DEF heard
  <2> QED BY <2>1, <2>2, <2>3
<1>10. SentTyped'
  <2>1. got' \in [Sides -> Nat]
    BY <1>1 DEF SentTyped
  <2>2. \A t \in Sides : got[t] <= Len(sent[Peer(t)])
    BY DEF SentTyped
  <2>3. \A t \in Sides : got'[t] <= Len(sent'[Peer(t)])
    BY <2>2, <1>0, <1>1, <1>2, <1>6
  <2> QED BY <2>1, <2>3 DEF SentTyped, Grew
<1> QED BY <1>8, <1>9, <1>10

\* What arrives is the next word, or CLOSE behind the last.
LEMMA ArrivingIs ==
  ASSUME SentTyped, Spoken, NEW s \in Sides, NEW kinds, Arrives(s, kinds)
  PROVE  /\ s \notin heardAll /\ channel[s] # "DEAD" /\ got' = [got EXCEPT ![s] = got[s] + 1]
         /\ heard[s] = got[s] /\ Arriving(s)[1] \in kinds /\ Arriving(s) \in Message
         /\ \/ got[s] < told[Peer(s)] /\ Arriving(s) \in Word(Peer(s), heard[s] + 1)
            \/ got[s] = told[Peer(s)] /\ Peer(s) \in ended /\ Arriving(s) = Msg("CLOSE")
<1>1. /\ got[s] < Len(sent[Peer(s)]) /\ channel[s] # "DEAD" /\ Arriving(s)[1] \in kinds
      /\ got' = [got EXCEPT ![s] = got[s] + 1] /\ Arriving(s) = sent[Peer(s)][got[s] + 1]
  BY DEF Arrives, Arriving, Set
<1>2. sent[Peer(s)] \in Seq(Message) /\ Peer(s) \in Sides /\ got[s] \in Nat
  BY Peers DEF SentTyped
<1>3. Arriving(s) \in Message
  BY <1>1, <1>2
<1>4. s \notin heardAll /\ heard[s] = got[s]
  <2>1. Len(sent[Peer(s)]) \in Nat
    BY <1>2
  <2> QED BY <2>1, <1>1, <1>2, HeardTyped
<1>5. CASE got[s] < told[Peer(s)]
  <2>1. got[s] + 1 \in 1..told[Peer(s)]
    BY <1>5, <1>2, ToldTyped
  <2> QED BY <2>1, <1>1, <1>2, <1>3, <1>4, <1>5 DEF Spoken
<1>6. CASE got[s] >= told[Peer(s)]
  <2>1. got[s] = told[Peer(s)] /\ Peer(s) \in ended
    BY <1>1, <1>2, <1>6, ToldTyped
  <2>2. Arriving(s) = Msg("CLOSE")
    BY <2>1, <1>1, <1>2, ToldTyped
  <2> QED BY <2>1, <2>2, <1>1, <1>3, <1>4
<1> QED BY <1>2, <1>5, <1>6, ToldTyped

-----------------------------------------------------------------------------
(* The end of a Session, and of its end of the channel *)

LEMMA TypedSent == TypeOK => SentTyped
BY DEF TypeOK, SentTyped

LEMMA NothingJoins ==
  ASSUME NEW q \in Seq(Message)
  PROVE  q \o <<>> = q
OBVIOUS

LEMMA Nothing ==
  /\ <<>> \in Seq(Message) /\ Len(<<>>) = 0 /\ Append(<<>>, Msg("CLOSE")) = <<Msg("CLOSE")>>
  /\ Msg("CLOSE") \in Message /\ <<Msg("CLOSE")>> \in Seq(Message)
<1>1. Msg("CLOSE") \in Message
  BY DEF Message
<1> QED BY <1>1

LEMMA PostElsewhere ==
  ASSUME SentTyped, NEW s \in Sides, NEW m, Post(s, m)
  PROVE  sent'[Peer(s)] = sent[Peer(s)]
BY Peers DEF Post, Set, SentTyped

LEMMA NothingPosted ==
  ASSUME SentTyped, NEW s \in Sides, Post(s, <<>>)
  PROVE  sent' = sent
<1>1. sent[s] \o <<>> = sent[s]
  BY NothingJoins DEF SentTyped
<1> QED BY <1>1 DEF Post, Set, SentTyped

\* What becomes of the socket of a Session that stops, ...
SocketStops(s) ==
  /\ stopping' = [stopping EXCEPT ![s] = TRUE]
  /\ tcp' = IF tcp[s] \in {"open", "connecting"} THEN [tcp EXCEPT ![s] = "closing"] ELSE tcp

\* ... and of its end of the channel, which sends n words more if it is open.
ChannelStops(s, n) ==
  /\ Grew /\ Spoken' /\ sent'[Peer(s)] = sent[Peer(s)]
  /\ channel[s] = "OPEN" =>
       /\ channel' = [channel EXCEPT ![s] = "CLOSING"]
       /\ told' = [told EXCEPT ![s] = told[s] + n] /\ ended' = ended \cup {s}
  /\ channel[s] # "OPEN" => UNCHANGED <<channel, sent>> /\ told' = told /\ ended' = ended

LEMMA StopEffect ==
  ASSUME TypeOK, Spoken, NEW s \in Sides, ChannelSide(s), SocketSide(s),
         NEW m \in Seq(Message), \A j \in 1..Len(m) : m[j] \in Word(s, told[s] + j),
         StopAt(s, channel[s], Accepted(s, m))
  PROVE  /\ SocketStops(s) /\ ChannelStops(s, Len(m))
         /\ channel[s] = "OPEN" => \A j \in 1..Len(m) : sent'[s][told[s] + j] = m[j]
<1> USE TypedSent
<1>1. SocketStops(s)
  BY DEF SocketStops, StopAt, Set, SocketSide
<1>2. CASE channel[s] = "OPEN"
  <2>1. s \notin ended /\ ~stopping[s]
    BY <1>2 DEF ChannelSide
  <2>2. channel' = [channel EXCEPT ![s] = "CLOSING"] /\ Post(s, Append(m, Msg("CLOSE")))
    BY <1>2, <2>1 DEF StopAt, Set, Accepted
  <2>3. /\ Grew /\ told' = [told EXCEPT ![s] = told[s] + Len(m)] /\ ended' = ended \cup {s}
        /\ Spoken' /\ \A j \in 1..Len(m) : sent'[s][told[s] + j] = m[j]
        /\ sent'[Peer(s)] = sent[Peer(s)]
    BY <2>1, <2>2, LastSent, PostElsewhere
  <2> QED BY <1>1, <1>2, <2>2, <2>3 DEF ChannelStops
<1>3. CASE channel[s] # "OPEN"
  <2>1. channel' = [channel EXCEPT ![s] = channel[s]] /\ Post(s, <<>>)
    BY <1>3 DEF StopAt, Set, Accepted
  <2>2. channel' = channel /\ sent' = sent
    BY <2>1, NothingPosted DEF TypeOK
  <2>3. Grew /\ told' = told /\ ended' = ended /\ Spoken'
    BY <2>2, SameSent
  <2> QED BY <1>1, <1>3, <2>2, <2>3 DEF ChannelStops
<1> QED BY <1>2, <1>3

\* stop() without a word more.
LEMMA StopQuietly ==
  ASSUME TypeOK, Spoken, NEW s \in Sides, ChannelSide(s), SocketSide(s), Stop(s, <<>>)
  PROVE  SocketStops(s) /\ ChannelStops(s, 0)
<1>1. StopAt(s, channel[s], Accepted(s, <<>>))
  BY DEF Stop, GetterStop, GiverStop, Sides
<1>2. \A j \in 1..Len(<<>>) : <<>>[j] \in Word(s, told[s] + j)
  BY Nothing
<1> QED BY <1>1, <1>2, StopEffect, Nothing

\* The end of the channel comes to its end.
LEMMA EndEffect ==
  ASSUME TypeOK, Spoken, NEW s \in Sides, SocketSide(s), NEW now \in {"CLOSED", "DEAD"},
         ChannelClosed(s, now, <<>>)
  PROVE  /\ channel' = [channel EXCEPT ![s] = now] /\ sent' = sent
         /\ Started(s) => SocketStops(s)
         /\ ~Started(s) => UNCHANGED <<stopping, tcp>>
         /\ fromSocket' = fromSocket \/ (fromSocket' = [fromSocket EXCEPT ![s] = <<>>] /\ Started(s))
<1> USE TypedSent
<1>1. CASE Started(s)
  <2>1. StopAt(s, now, <<>>) /\ DropQueue(s)
    BY <1>1 DEF ChannelClosed
  <2>2. channel' = [channel EXCEPT ![s] = now] /\ Post(s, <<>>)
    BY <2>1 DEF StopAt, Set
  <2>3. SocketStops(s)
    BY <2>1 DEF SocketStops, StopAt, Set, SocketSide
  <2> QED BY <1>1, <2>1, <2>2, <2>3, NothingPosted DEF DropQueue, Set
<1>2. CASE ~Started(s)
  BY <1>2 DEF ChannelClosed, Set
<1> QED BY <1>1, <1>2

\* The answer to CLOSE is the last that is sent.
LEMMA DrainEffect ==
  ASSUME TypeOK, Spoken, NEW s \in Sides, ChannelSide(s), SocketSide(s), Drained(s)
  PROVE  /\ channel[s] = "DRAINING" /\ channel' = [channel EXCEPT ![s] = "CLOSED"]
         /\ Grew /\ Spoken' /\ told' = told /\ ended' = ended \cup {s}
         /\ sent'[Peer(s)] = sent[Peer(s)] /\ SocketStops(s)
         /\ fromSocket' = fromSocket \/ fromSocket' = [fromSocket EXCEPT ![s] = <<>>]
<1> USE TypedSent
<1>1. channel[s] = "DRAINING" /\ ChannelClosed(s, "CLOSED", <<Msg("CLOSE")>>)
  BY DEF Drained
<1>2. Started(s) /\ s \notin ended
  BY <1>1 DEF ChannelSide, Started
<1>3. StopAt(s, "CLOSED", <<Msg("CLOSE")>>) /\ DropQueue(s)
  BY <1>1, <1>2 DEF ChannelClosed
<1>4. channel' = [channel EXCEPT ![s] = "CLOSED"] /\ Post(s, <<Msg("CLOSE")>>)
  BY <1>3 DEF StopAt, Set
<1>5. SocketStops(s)
  BY <1>3 DEF SocketStops, StopAt, Set, SocketSide
<1>6. \A j \in 1..Len(<<>>) : <<>>[j] \in Word(s, told[s] + j)
  BY Nothing
<1>7. Post(s, Append(<<>>, Msg("CLOSE")))
  BY <1>4, Nothing
<1>8. Grew /\ told' = [told EXCEPT ![s] = told[s] + Len(<<>>)] /\ ended' = ended \cup {s} /\ Spoken'
  BY <1>2, <1>6, <1>7, LastSent, Nothing
<1>10. sent'[Peer(s)] = sent[Peer(s)]
  BY <1>4, PostElsewhere
<1>9. told' = told
  <2>1. told \in [Sides -> Nat] /\ Len(<<>>) = 0
    BY ToldTyped, Nothing
  <2> QED BY <2>1, <1>8
<1> QED BY <1>1, <1>3, <1>4, <1>5, <1>8, <1>9, <1>10 DEF DropQueue, Set

-----------------------------------------------------------------------------
(* Every step keeps the invariant *)

StreamVars == <<client, host, phase, stopping, failing, tcp, gone, left, arrived, fromSocket,
                toSocket, channel, sent, got, inbox, up>>

\* The derived values of what does not change.
LEMMA SameDerived ==
  /\ sent' = sent /\ got' = got => heard' = heard /\ heardAll' = heardAll
  /\ sent' = sent => told' = told /\ ended' = ended /\ (Succeeded' <=> Succeeded)
  /\ toSocket' = toSocket => written' = written
  /\ fromSocket' = fromSocket => queued' = queued
BY DEF heard, heardAll, told, ended, written, queued, Succeeded

LEMMA StreamStutter ==
  ASSUME Control, Content, UNCHANGED StreamVars
  PROVE  Control' /\ Content'
<1> USE SameDerived DEF StreamVars
<1>1. (\A s \in Sides : ChannelSide(s) /\ SocketSide(s))'
  BY DEF Control, ChannelSide, SocketSide, Started
<1>2. GetterSide' /\ GiverSide' /\ Covered'
  BY DEF Control, GetterSide, GiverSide, Covered
<1>3. QuitsOnce' /\ SaidAll' /\ Written' /\ AnsweredBeforeClose'
  BY DEF Control, QuitsOnce, SaidAll, Written, AnsweredBeforeClose, Kept
<1>4. Content'
  BY DEF Content, Spoken, Queued, QueueFrom, GiverWrote, GetterWrote
<1> QED BY <1>1, <1>2, <1>3, <1>4 DEF Control

\* The counts, and what they count.
LEMMA Numbers ==
  ASSUME TypeOK
  PROVE  /\ told \in [Sides -> Nat] /\ heard \in [Sides -> Nat] /\ arrived \in [Sides -> Nat]
         /\ written \in [Sides -> Nat] /\ queued \in [Sides -> Nat]
         /\ ended \subseteq Sides /\ heardAll \subseteq Sides /\ SentTyped
<1>1. SentTyped /\ arrived \in [Sides -> Nat]
  BY TypedSent, SessionAssumption DEF TypeOK
<1>2. written \in [Sides -> Nat] /\ queued \in [Sides -> Nat]
  BY DEF TypeOK, written, queued
<1> QED BY <1>1, <1>2, ToldTyped, HeardTyped

\* The side of the end that does not take the step.
SideSame(t) ==
  /\ phase'[t] = phase[t] /\ stopping'[t] = stopping[t] /\ tcp'[t] = tcp[t] /\ left'[t] = left[t]
  /\ channel'[t] = channel[t] /\ sent'[t] = sent[t] /\ got'[t] = got[t] /\ up' = up
  /\ t \in ended' <=> t \in ended
  /\ t \in heardAll' <=> t \in heardAll

LEMMA OtherSide ==
  ASSUME NEW t \in Sides, ChannelSide(t), SocketSide(t), SideSame(t)
  PROVE  ChannelSide(t)' /\ SocketSide(t)'
BY DEF ChannelSide, SocketSide, SideSame, Started

LEMMA BothSides ==
  ASSUME NEW s \in Sides, Control, SideSame(Peer(s)), ChannelSide(s)', SocketSide(s)'
  PROVE  (\A t \in Sides : ChannelSide(t) /\ SocketSide(t))'
<1>1. \A t \in Sides : t # s => ChannelSide(t)' /\ SocketSide(t)'
  BY OtherSide, Peers DEF Control
<1> QED BY <1>1

LEMMA PauseStep ==
  ASSUME StreamInv, NEW s \in Sides, PauseTakesEffect(s)
  PROVE  StreamInv'
<1>1. Control' /\ Content'
  BY StreamStutter DEF StreamInv, StreamVars, PauseTakesEffect, socketVars
<1>2. TypeOK'
  BY DEF StreamInv, TypeOK, PauseTakesEffect, socketVars, Set
<1> QED BY <1>1, <1>2 DEF StreamInv

LEMMA OverflowEndsStep ==
  ASSUME StreamInv, NEW s \in Sides, OverflowEnds(s)
  PROVE  StreamInv'
<1>1. Control' /\ Content'
  BY StreamStutter DEF StreamInv, StreamVars, OverflowEnds, socketVars
<1>2. TypeOK'
  BY DEF StreamInv, TypeOK, OverflowEnds, socketVars, Set
<1> QED BY <1>1, <1>2 DEF StreamInv

\* The channel fails: the ends do not yet know.
LEMMA ChannelFailsStep ==
  ASSUME StreamInv, ChannelFails
  PROVE  StreamInv'
<1> USE SameDerived DEF StreamInv, ChannelFails, socketVars
<1>1. (\A s \in Sides : ChannelSide(s) /\ SocketSide(s))'
  BY DEF Control, ChannelSide, SocketSide, Started
<1>2. GetterSide' /\ GiverSide' /\ Covered'
  BY DEF Control, GetterSide, GiverSide, Covered
<1>3. QuitsOnce' /\ SaidAll' /\ Written' /\ AnsweredBeforeClose'
  BY DEF Control, QuitsOnce, SaidAll, Written, AnsweredBeforeClose, Kept
<1>4. Content'
  BY DEF Content, Spoken, Queued, QueueFrom, GiverWrote, GetterWrote
<1>5. TypeOK'
  BY DEF TypeOK, flowVars
<1> QED BY <1>1, <1>2, <1>3, <1>4, <1>5 DEF Control

\* The pool opens a channel.
LEMMA OpenDataChannelStep ==
  ASSUME StreamInv, OpenDataChannel
  PROVE  StreamInv'
<1> USE DEF StreamInv
<1>0. TypeOK /\ Control /\ Content /\ SentTyped /\ ChannelSide("getter") /\ SocketSide("getter")
  BY TypedSent, Peers DEF Control
<1>1. /\ phase["getter"] = "opening" /\ up /\ phase' = [phase EXCEPT !["getter"] = "auth"]
      /\ channel' = [channel EXCEPT !["getter"] = "OPEN"]
      /\ sent' = [sent EXCEPT !["getter"] = <<Msg("OPEN")>>]
      /\ UNCHANGED <<client, host, stopping, failing, tcp, gone, socketVars, flowVars,
                 fromSocket, toSocket, got, inbox, up>>
  BY DEF OpenDataChannel, Set
<1>2. channel["getter"] = "POOLED" /\ sent["getter"] = <<>> /\ got["getter"] = 0 /\ "getter" \notin ended
      /\ told["getter"] = 0
  <2>1. channel["getter"] = "POOLED" /\ sent["getter"] = <<>> /\ got["getter"] = 0 /\ "getter" \notin ended
    BY <1>0, <1>1 DEF ChannelSide
  <2> QED BY <2>1, <1>0, ToldTyped, Peers, Nothing
<1>3. /\ Grew /\ told' = [told EXCEPT !["getter"] = 1] /\ ended' = ended /\ Spoken'
      /\ (Succeeded' <=> Succeeded)
  <2>1. Msg("OPEN") \in Message /\ <<Msg("OPEN")>> \in Seq(Message) /\ Len(<<Msg("OPEN")>>) = 1
        /\ <<Msg("OPEN")>>[1] = Msg("OPEN") /\ <<>> \o <<Msg("OPEN")>> = <<Msg("OPEN")>>
    BY DEF Message
  <2>2. Post("getter", <<Msg("OPEN")>>)
    BY <2>1, <1>1, <1>2 DEF Post, Set
  <2>3. \A j \in 1..Len(<<Msg("OPEN")>>) : <<Msg("OPEN")>>[j] \in Word("getter", told["getter"] + j)
    BY <2>1, <1>2 DEF Word
  <2>4. /\ Grew /\ told' = [told EXCEPT !["getter"] = told["getter"] + Len(<<Msg("OPEN")>>)] /\ ended' = ended /\ Spoken'
    BY <2>1, <2>2, <2>3, <1>0, <1>2, WordsSent, Peers DEF Content
  <2>5. told["getter"] + Len(<<Msg("OPEN")>>) = 1
    BY <2>1, <1>2
  <2>6. sent'["giver"] = sent["giver"] /\ told'["giver"] = told["giver"]
    BY <2>4, <1>0, <1>1, ToldTyped, Peers DEF SentTyped
  <2> QED BY <2>4, <2>5, <2>6 DEF Succeeded
<1>4. heard' = heard /\ heardAll' = heardAll /\ SentTyped' /\ written' = written /\ queued' = queued
  BY <1>0, <1>1, <1>3, HeardStays, SameDerived
<1> USE Numbers, Peers
<1>5. TypeOK'
  BY <1>0, <1>1, <1>4 DEF TypeOK, SentTyped, flowVars, socketVars, Phases
<1>6. (\A s \in Sides : ChannelSide(s) /\ SocketSide(s))'
  <2>1. ChannelSide("getter")'
    BY <1>0, <1>1, <1>2, <1>3, <1>4 DEF TypeOK, ChannelSide, Started
  <2>2. SocketSide("getter")'
    BY <1>0, <1>1 DEF TypeOK, SocketSide, socketVars
  <2>3. SideSame("giver")
    BY <1>0, <1>1, <1>3, <1>4 DEF TypeOK, SideSame, socketVars
  <2> QED BY <2>1, <2>2, <2>3, <1>0, BothSides
<1>7. GetterSide'
  BY <1>0, <1>1, <1>2, <1>3, <1>4 DEF TypeOK, Control, GetterSide, flowVars, socketVars
<1>8. GiverSide'
  BY <1>0, <1>1, <1>2, <1>3, <1>4 DEF TypeOK, Control, GiverSide, flowVars, socketVars
<1>9. Covered'
  BY <1>0, <1>1, <1>2, <1>3, <1>4 DEF TypeOK, Control, Covered, flowVars, socketVars
<1>10. QuitsOnce' /\ SaidAll'
  BY <1>0, <1>1, <1>2, <1>3, <1>4 DEF TypeOK, Control, QuitsOnce, SaidAll, Kept, flowVars, socketVars
<1>12. Written'
  BY <1>0, <1>1, <1>2, <1>3, <1>4 DEF TypeOK, Control, Written, Kept, flowVars, socketVars
<1>13. AnsweredBeforeClose'
  BY <1>0, <1>1, <1>2, <1>3, <1>4 DEF TypeOK, Control, AnsweredBeforeClose, flowVars, socketVars
<1>11. Content'
  BY <1>0, <1>1, <1>2, <1>3, <1>4 DEF TypeOK, Content, Queued, QueueFrom, GiverWrote, GetterWrote, flowVars, socketVars
<1> QED BY <1>5, <1>6, <1>7, <1>8, <1>9, <1>10, <1>11, <1>12, <1>13 DEF Control

\* What a word says of its place.
LEMMA WordKinds ==
  ASSUME NEW i \in Nat
  PROVE  /\ \A w \in Word("getter", i) :
              /\ w[1] \in {"OPEN", "request", "data"}
              /\ w[1] = "OPEN" <=> i = 1
              /\ w[1] = "request" <=> i = 2
              /\ w[1] = "data" => w = Packet(i)
         /\ \A w \in Word("giver", i) :
              /\ w[1] \in {"ok", "fail", "data"}
              /\ w[1] \in {"ok", "fail"} <=> i = 1
              /\ w[1] = "data" => w = Packet(i - 1)
         /\ Msg("CLOSE")[1] = "CLOSE"
BY DEF Word, Msg, Packet

\* Once told, the reply stands.
LEMMA SameReply ==
  ASSUME SentTyped, Grew, told'["giver"] = told["giver"] \/ told["giver"] >= 1
  PROVE  Succeeded' <=> Succeeded
<1>1. told["giver"] \in Nat /\ told'["giver"] >= told["giver"] /\ told'["giver"] \in Nat
  <2>1. sent'["giver"] \in Seq(Message)
    BY Peers DEF Grew
  <2>2. Words(sent'["giver"]) \in Nat
    BY <2>1, WordsBound
  <2>3. told'["giver"] \in Nat
    BY <2>2, Peers DEF told
  <2> QED BY <2>3, ToldTyped, Peers DEF Grew
<1>2. told["giver"] >= 1 => sent'["giver"][1] = sent["giver"][1]
  BY <1>1, Peers DEF Grew
<1> QED BY <1>1, <1>2 DEF Succeeded

\* Words written to a socket.
LEMMA WriteEffect ==
  ASSUME TypeOK, NEW s \in Sides, NEW m \in Seq(Message), Write(s, m)
  PROVE  /\ toSocket' \in [Sides -> Seq(Message)]
         /\ tcp[s] = "open" =>
              /\ toSocket' = [toSocket EXCEPT ![s] = toSocket[s] \o m]
              /\ written' = [written EXCEPT ![s] = written[s] + Len(m)]
              /\ \A i \in 1..written[s] : toSocket'[s][i] = toSocket[s][i]
              /\ \A j \in 1..Len(m) : toSocket'[s][written[s] + j] = m[j]
         /\ tcp[s] # "open" => toSocket' = toSocket /\ written' = written
<1>1. CASE tcp[s] = "open"
  <2> DEFINE q == toSocket[s] \o m
  <2>1. toSocket' = [toSocket EXCEPT ![s] = q]
    BY <1>1 DEF Write, Set
  <2>2. toSocket[s] \in Seq(Message) /\ toSocket \in [Sides -> Seq(Message)]
    BY DEF TypeOK
  <2>3. /\ q \in Seq(Message) /\ Len(q) = Len(toSocket[s]) + Len(m)
        /\ \A i \in 1..Len(toSocket[s]) : q[i] = toSocket[s][i]
        /\ \A j \in 1..Len(m) : q[Len(toSocket[s]) + j] = m[j]
    BY <2>2
  <2> HIDE DEF q
  <2>4. toSocket' \in [Sides -> Seq(Message)] /\ toSocket'[s] = q
    BY <2>1, <2>2, <2>3
  <2>5. written[s] = Len(toSocket[s])
    BY DEF written
  <2>6. written' = [written EXCEPT ![s] = written[s] + Len(m)]
    <3>1. written' = [t \in Sides |-> Len(toSocket'[t])] /\ written = [t \in Sides |-> Len(toSocket[t])]
      BY DEF written
    <3>2. \A t \in Sides : Len(toSocket'[t]) = IF t = s THEN written[s] + Len(m) ELSE written[t]
      BY <2>1, <2>2, <2>3, <2>4, <2>5 DEF written
    <3> QED BY <3>1, <3>2
  <2> QED BY <1>1, <2>1, <2>3, <2>4, <2>5, <2>6 DEF q
<1>2. CASE tcp[s] # "open"
  BY <1>2, SameDerived DEF Write, TypeOK
<1> QED BY <1>1, <1>2

\* All of a side but its queue of data, when the other takes the step.
AllSame(t) ==
  /\ SideSame(t) /\ gone'[t] = gone[t] /\ arrived'[t] = arrived[t] /\ toSocket'[t] = toSocket[t]
  /\ inbox'[t] = inbox[t] /\ told'[t] = told[t] /\ heard'[t] = heard[t] /\ written'[t] = written[t]
  /\ host' = host

LEMMA GiverStays ==
  ASSUME GiverSide, AllSame("giver"), failing' = failing, Succeeded' <=> Succeeded,
         "getter" \in ended => "getter" \in ended'
  PROVE  GiverSide'
BY DEF GiverSide, AllSame, SideSame

LEMMA GetterStays ==
  ASSUME GetterSide, AllSame("getter"), Succeeded => Succeeded'
  PROVE  GetterSide'
BY DEF GetterSide, AllSame, SideSame

\* No channel can be had.
LEMMA OpenFailsStep ==
  ASSUME StreamInv, OpenFails
  PROVE  StreamInv'
<1>0. TypeOK /\ Control /\ Content /\ ChannelSide("getter") /\ SocketSide("getter")
  BY Peers DEF Control, StreamInv
<1>1. /\ phase["getter"] = "opening" /\ phase' = [phase EXCEPT !["getter"] = "unopened"]
      /\ Write("getter", <<Msg("fail")>>)
      /\ UNCHANGED <<client, host, stopping, failing, tcp, gone, socketVars, flowVars,
                 fromSocket, channel, sent, got, inbox, up>>
  BY DEF OpenFails, Set
<1>2. toSocket["getter"] = <<>>
  BY <1>0, <1>1 DEF Control, GetterSide
<1>3. /\ toSocket' \in [Sides -> Seq(Message)]
      /\ toSocket'["giver"] = toSocket["giver"]
      /\ toSocket'["getter"] \in {<<>>, <<Msg("fail")>>}
      /\ written'["giver"] = written["giver"]
  <2>1. Msg("fail") \in Message /\ <<Msg("fail")>> \in Seq(Message) /\ <<>> \o <<Msg("fail")>> = <<Msg("fail")>>
    BY DEF Message
  <2>2. toSocket' \in [Sides -> Seq(Message)]
    BY <2>1, <1>0, <1>1, WriteEffect, Peers
  <2>3. toSocket'["giver"] = toSocket["giver"] /\ toSocket'["getter"] \in {<<>>, <<Msg("fail")>>}
    BY <2>1, <1>0, <1>1, <1>2, Peers DEF Write, Set, TypeOK
  <2> QED BY <2>2, <2>3, Peers DEF written
<1>4. /\ heard' = heard /\ heardAll' = heardAll /\ told' = told /\ ended' = ended
      /\ (Succeeded' <=> Succeeded) /\ queued' = queued
  BY <1>1, SameDerived
<1> USE Numbers, Peers
<1>5. TypeOK'
  BY <1>0, <1>1, <1>3 DEF TypeOK, flowVars, socketVars, Phases
<1>6. (\A s \in Sides : ChannelSide(s) /\ SocketSide(s))'
  <2>1. ChannelSide("getter")'
    BY <1>0, <1>1, <1>4 DEF TypeOK, ChannelSide, Started
  <2>2. SocketSide("getter")'
    BY <1>0, <1>1 DEF TypeOK, SocketSide, socketVars
  <2>3. SideSame("giver")
    BY <1>0, <1>1, <1>4 DEF TypeOK, SideSame, socketVars
  <2> QED BY <2>1, <2>2, <2>3, <1>0, BothSides
<1>7. GetterSide' /\ GiverSide'
  BY <1>0, <1>1, <1>3, <1>4 DEF TypeOK, Control, GetterSide, GiverSide, flowVars, socketVars
<1>8. Covered' /\ Written'
  BY <1>0, <1>1, <1>3, <1>4 DEF TypeOK, Control, Covered, Written, Kept, flowVars, socketVars
<1>9. QuitsOnce' /\ SaidAll'
  BY <1>0, <1>1, <1>4 DEF TypeOK, Control, QuitsOnce, SaidAll, Kept, flowVars, socketVars
<1>10. AnsweredBeforeClose'
  BY <1>0, <1>1 DEF TypeOK, Control, AnsweredBeforeClose, SocketSide, ChannelSide, Started
<1>11. Content'
  BY <1>0, <1>1, <1>3, <1>4 DEF TypeOK, Content, Spoken, Queued, QueueFrom, GiverWrote, GetterWrote, flowVars, socketVars
<1> QED BY <1>5, <1>6, <1>7, <1>8, <1>9, <1>10, <1>11 DEF Control, StreamInv

\* The request is sent.
LEMMA SendRequestStep ==
  ASSUME StreamInv, SendRequest
  PROVE  StreamInv'
<1>0. TypeOK /\ Control /\ Content /\ SentTyped /\ ChannelSide("getter") /\ SocketSide("getter")
  BY TypedSent, Peers DEF Control, StreamInv
<1>1. /\ phase["getter"] = "request" /\ channel["getter"] = "OPEN"
      /\ phase' = [phase EXCEPT !["getter"] = "awaiting"]
      /\ wants' = [wants EXCEPT !["getter"] = "pause"]
      /\ fromSocket["getter"] # <<>>
      /\ fromSocket' = [fromSocket EXCEPT !["getter"] = Tail(fromSocket["getter"])]
      /\ Post("getter", <<Msg("request")>>)
      /\ UNCHANGED <<client, host, stopping, failing, tcp, gone, socketVars, paused,
                 overflow, toSocket, channel, got, inbox, up>>
  BY DEF SendRequest, Set
<1>2. "getter" \notin ended /\ told["getter"] = 1
  BY <1>0, <1>1 DEF Control, GetterSide, ChannelSide
<1>3. /\ Grew /\ told' = [told EXCEPT !["getter"] = 2] /\ ended' = ended /\ Spoken'
      /\ sent'["giver"] = sent["giver"]
      /\ (Succeeded' <=> Succeeded)
  <2>1. Msg("request") \in Message /\ <<Msg("request")>> \in Seq(Message) /\ Len(<<Msg("request")>>) = 1
        /\ <<Msg("request")>>[1] = Msg("request")
    BY DEF Message
  <2>2. \A j \in 1..Len(<<Msg("request")>>) : <<Msg("request")>>[j] \in Word("getter", told["getter"] + j)
    BY <2>1, <1>2 DEF Word
  <2>3. /\ Grew /\ told' = [told EXCEPT !["getter"] = told["getter"] + Len(<<Msg("request")>>)] /\ ended' = ended /\ Spoken'
    BY <2>1, <2>2, <1>0, <1>1, <1>2, WordsSent, Peers DEF Content
  <2>4. told["getter"] + Len(<<Msg("request")>>) = 2
    BY <2>1, <1>2
  <2>5. sent'["giver"] = sent["giver"] /\ told'["giver"] = told["giver"]
    BY <2>3, <1>0, <1>1, ToldTyped, Peers DEF SentTyped, Post, Set
  <2> QED BY <2>3, <2>4, <2>5, <1>0, SameReply
<1>4. heard' = heard /\ heardAll' = heardAll /\ SentTyped' /\ written' = written
  BY <1>0, <1>1, <1>3, HeardStays, SameDerived
<1>5. /\ fromSocket' \in [Sides -> Seq(Packets)] /\ fromSocket'["giver"] = fromSocket["giver"]
      /\ queued'["giver"] = queued["giver"]
      /\ QueueFrom("getter", 1) => QueueFrom("getter", 2)'
  <2>1. fromSocket["getter"] \in Seq(Packets) /\ fromSocket \in [Sides -> Seq(Packets)]
    BY <1>0, Peers DEF TypeOK
  <2>2. /\ Tail(fromSocket["getter"]) \in Seq(Packets)
        /\ Len(Tail(fromSocket["getter"])) = Len(fromSocket["getter"]) - 1
        /\ \A i \in 1..Len(Tail(fromSocket["getter"])) : Tail(fromSocket["getter"])[i] = fromSocket["getter"][i + 1]
    BY <2>1, <1>1
  <2>3. fromSocket' \in [Sides -> Seq(Packets)] /\ fromSocket'["giver"] = fromSocket["giver"]
        /\ fromSocket'["getter"] = Tail(fromSocket["getter"])
    BY <2>1, <2>2, <1>1, Peers
  <2>4. queued["getter"] = Len(fromSocket["getter"]) /\ queued'["getter"] = Len(fromSocket'["getter"])
        /\ queued'["giver"] = queued["giver"]
    BY <2>3, Peers DEF queued
  <2>5. queued["getter"] \in Nat /\ arrived["getter"] \in Nat /\ arrived' = arrived
    BY <1>0, <1>1, Numbers, Peers DEF socketVars
  <2>6. ASSUME QueueFrom("getter", 1) PROVE QueueFrom("getter", 2)'
    <3>1. queued'["getter"] = queued["getter"] - 1
      BY <2>2, <2>3, <2>4
    <3>2. queued["getter"] = arrived["getter"] - 1 /\ \A i \in 1..queued["getter"] : fromSocket["getter"][i] = i + 1
      BY <2>6 DEF QueueFrom
    <3>3. \A i \in 1..queued'["getter"] : fromSocket'["getter"][i] = i + 2
      BY <3>1, <3>2, <2>2, <2>3, <2>4, <2>5
    <3> QED BY <3>1, <3>2, <3>3, <2>5 DEF QueueFrom
  <2> QED BY <2>3, <2>4, <2>6
<1> USE Numbers, Peers
<1>6. TypeOK'
  BY <1>0, <1>1, <1>4, <1>5 DEF TypeOK, SentTyped, flowVars, socketVars, Phases
<1>7. (\A s \in Sides : ChannelSide(s) /\ SocketSide(s))'
  <2>1. ChannelSide("getter")'
    BY <1>0, <1>1, <1>3, <1>4 DEF TypeOK, ChannelSide, Started
  <2>2. SocketSide("getter")'
    BY <1>0, <1>1 DEF TypeOK, SocketSide, socketVars
  <2>3. SideSame("giver")
    BY <1>0, <1>1, <1>3, <1>4 DEF TypeOK, SideSame, socketVars
  <2> QED BY <2>1, <2>2, <2>3, <1>0, BothSides
<1>8. GetterSide'
  BY <1>0, <1>1, <1>3, <1>4 DEF TypeOK, Control, GetterSide, flowVars, socketVars
<1>13. GiverSide'
  <2>1. AllSame("giver")
    BY <1>0, <1>1, <1>3, <1>4 DEF TypeOK, SideSame, AllSame, socketVars
  <2> QED BY <2>1, <1>0, <1>1, <1>3, GiverStays DEF Control
<1>9. Covered'
  <2>1. /\ told'["getter"] = 2 /\ told'["giver"] = told["giver"] /\ arrived' = arrived
        /\ phase'["getter"] = "awaiting"
    BY <1>0, <1>1, <1>3 DEF TypeOK, socketVars
  <2> QED BY <2>1, <1>0, <1>2, <1>4 DEF Control, Covered
<1>14. Written'
  <2>1. phase'["getter"] = "awaiting" /\ phase'["giver"] = phase["giver"] /\ tcp' = tcp
        /\ left' = left /\ up' = up /\ host' = host
    BY <1>0, <1>1 DEF TypeOK, socketVars
  <2> QED BY <2>1, <1>0, <1>4 DEF Control, Written, Kept
<1>10. QuitsOnce' /\ SaidAll'
  BY <1>0, <1>1, <1>3, <1>4 DEF TypeOK, Control, QuitsOnce, SaidAll, Kept, flowVars, socketVars
<1>11. AnsweredBeforeClose'
  BY <1>0, <1>1 DEF TypeOK, Control, AnsweredBeforeClose, SocketSide, ChannelSide, Started
<1>12. Content'
  BY <1>0, <1>1, <1>3, <1>4, <1>5 DEF TypeOK, Content, Queued, QueueFrom, GiverWrote, GetterWrote, flowVars, socketVars
<1> QED BY <1>6, <1>7, <1>8, <1>9, <1>10, <1>11, <1>12, <1>13, <1>14 DEF Control, StreamInv

\* A step in which nothing is said or written: an end of the channel, its Session and
\* its socket may come closer to their end.
Quiet ==
  /\ phase' = phase /\ arrived' = arrived /\ left' = left /\ toSocket' = toSocket
  /\ inbox' = inbox /\ up' = up /\ host' = host /\ client' = client
  /\ failing' => failing
  /\ Grew /\ Spoken' /\ told' = told /\ heard' = heard /\ ended \subseteq ended'
  /\ got' \in [Sides -> Nat]
  /\ \A t \in Sides :
       /\ got'[t] >= got[t]
       /\ tcp'[t] # tcp[t] => tcp[t] \in {"open", "connecting"} /\ tcp'[t] = "closing"
       /\ gone'[t] => gone[t] \/ tcp[t] = "closed"
       /\ channel'[t] \in {"OPEN", "CLOSING"} => channel[t] \in {"OPEN", "CLOSING"}
       /\ stopping[t] => stopping'[t]
       /\ fromSocket'[t] = fromSocket[t] \/ stopping'[t]

LEMMA QuietStep ==
  ASSUME StreamInv, Quiet,
         "giver" \in ended' /\ told["giver"] = 0 => phase["giver"] = "refused" \/ "getter" \in ended
  PROVE  GetterSide' /\ GiverSide' /\ Covered' /\ Written' /\ Content'
<1>0. TypeOK /\ Control /\ Content /\ SentTyped
  BY TypedSent DEF StreamInv
<1>1. written' = written /\ (Succeeded' <=> Succeeded)
  BY <1>0, SameDerived, SameReply DEF Quiet
<1>2. \A t \in Sides : fromSocket'[t] = fromSocket[t] => queued'[t] = queued[t]
  BY DEF queued
<1>3. GetterSide'
  BY <1>0, <1>1, Peers DEF Control, GetterSide, Quiet
<1>4. GiverSide'
  <2>1. got["giver"] \in Nat /\ got'["giver"] \in Nat /\ got'["giver"] >= got["giver"]
    BY <1>0, Peers DEF SentTyped, Quiet
  <2>2. phase["giver"] = "refused" => got'["giver"] >= 1
    BY <2>1, <1>0 DEF Control, GiverSide
  <2> QED BY <2>2, <1>0, <1>1, Peers DEF Control, GiverSide, Quiet
<1>5. Covered' /\ Written'
  BY <1>0, <1>1, Peers DEF Control, Covered, Written, Kept, Quiet
<1>6. Content'
  BY <1>0, <1>1, <1>2, Peers DEF Content, Queued, QueueFrom, GiverWrote, GetterWrote, Quiet
<1> QED BY <1>3, <1>4, <1>5, <1>6

LEMMA SocketSideStops ==
  ASSUME TypeOK, NEW s \in Sides, SocketSide(s), SocketStops(s), left' = left,
         phase'[s] = "linked" => phase[s] = "linked"
  PROVE  SocketSide(s)'
BY DEF SocketSide, SocketStops, TypeOK

LEMMA StopsTyped ==
  ASSUME TypeOK, NEW s \in Sides, SocketStops(s)
  PROVE  /\ stopping' \in [Sides -> BOOLEAN] /\ stopping'[s]
         /\ tcp' \in [Sides -> {"none", "connecting", "open", "closing", "closed"}]
         /\ tcp'[s] # tcp[s] => tcp[s] \in {"open", "connecting"} /\ tcp'[s] = "closing"
         /\ tcp'[Peer(s)] = tcp[Peer(s)] /\ stopping'[Peer(s)] = stopping[Peer(s)]
BY Peers DEF SocketStops, TypeOK

LEMMA DroppedTyped ==
  ASSUME TypeOK, NEW s \in Sides,
         fromSocket' = fromSocket \/ fromSocket' = [fromSocket EXCEPT ![s] = <<>>]
  PROVE  fromSocket' \in [Sides -> Seq(Packets)] /\ fromSocket'[Peer(s)] = fromSocket[Peer(s)]
<1>1. <<>> \in Seq(Packets)
  OBVIOUS
<1>2. fromSocket \in [Sides -> Seq(Packets)]
  BY DEF TypeOK
<1>3. fromSocket' \in [Sides -> Seq(Packets)]
  BY <1>1, <1>2
<1> QED BY <1>2, <1>3, Peers

\* onceClosed stops a Session that is linked, if it has not been stopped.
LEMMA OnceClosedStep ==
  ASSUME StreamInv, NEW s \in Sides, OnceClosed(s)
  PROVE  StreamInv'
<1>0. /\ TypeOK /\ Control /\ Content /\ SentTyped /\ Spoken /\ ChannelSide(s) /\ SocketSide(s)
      /\ GiverSide /\ ended \subseteq Sides
  BY TypedSent, ToldTyped DEF StreamInv, Control, Content
<1>1. /\ tcp[s] = "closed" /\ gone' = [gone EXCEPT ![s] = TRUE]
      /\ UNCHANGED <<client, host, phase, failing, socketVars, flowVars, fromSocket, toSocket,
                 got, inbox, up>>
  BY DEF OnceClosed, Set
<1>2. \/ phase[s] = "linked" /\ SocketStops(s) /\ ChannelStops(s, 0)
      \/ phase[s] # "linked" /\ UNCHANGED <<stopping, tcp, channel, sent>>
  BY <1>0, StopQuietly DEF OnceClosed
<1>3. /\ Grew /\ Spoken' /\ told' = told /\ sent'[Peer(s)] = sent[Peer(s)]
      /\ \/ phase[s] = "linked" /\ channel[s] = "OPEN" /\ channel' = [channel EXCEPT ![s] = "CLOSING"]
            /\ ended' = ended \cup {s}
         \/ channel' = channel /\ ended' = ended /\ sent' = sent
  <2>1. CASE phase[s] = "linked" /\ ChannelStops(s, 0)
    <3>1. told[s] + 0 = told[s] /\ told \in [Sides -> Nat]
      BY <1>0, ToldTyped
    <3>2. [told EXCEPT ![s] = told[s] + 0] = told
      BY <3>1
    <3> QED BY <2>1, <3>2 DEF ChannelStops
  <2>2. CASE UNCHANGED <<channel, sent>>
    BY <2>2, <1>0, SameSent
  <2> QED BY <1>2, <2>1, <2>2
<1>4. heard' = heard /\ heardAll' = heardAll /\ SentTyped'
  BY <1>0, <1>1, <1>3, HeardStays
<1>5. /\ tcp' = tcp /\ stopping' \in [Sides -> BOOLEAN]
      /\ \A t \in Sides : /\ stopping[t] => stopping'[t]
                          /\ t # s => stopping'[t] = stopping[t]
                          /\ phase[t] # "linked" => stopping'[t] = stopping[t]
  BY <1>0, <1>1, <1>2 DEF SocketStops, TypeOK
<1>6. TypeOK'
  BY <1>0, <1>1, <1>3, <1>4, <1>5 DEF TypeOK, SentTyped, flowVars, socketVars
<1>7. Quiet
  <2>1. \A t \in Sides : /\ got'[t] >= got[t] /\ tcp'[t] = tcp[t]
                         /\ gone'[t] => gone[t] \/ tcp[t] = "closed"
    BY <1>0, <1>1, <1>5 DEF TypeOK
  <2>2. \A t \in Sides : channel'[t] \in {"OPEN", "CLOSING"} => channel[t] \in {"OPEN", "CLOSING"}
    BY <1>0, <1>3 DEF TypeOK
  <2>3. got' \in [Sides -> Nat] /\ ended \subseteq ended'
    BY <1>3, <1>4 DEF SentTyped
  <2> QED BY <2>1, <2>2, <2>3, <1>1, <1>3, <1>4, <1>5 DEF Quiet, socketVars
<1>8. "giver" \in ended' /\ told["giver"] = 0 => phase["giver"] = "refused" \/ "getter" \in ended
  <2>1. CASE ended' = ended
    BY <2>1, <1>0 DEF GiverSide
  <2>2. CASE /\ phase[s] = "linked" /\ channel[s] = "OPEN" /\ ended' = ended \cup {s}
    <3>1. CASE s = "getter"
      BY <3>1, <2>2, <1>0 DEF GiverSide
    <3>2. CASE s = "giver"
      BY <3>2, <2>2, <1>0, Numbers, Peers DEF GiverSide
    <3> QED BY <3>1, <3>2 DEF Sides
  <2> QED BY <1>3, <2>1, <2>2
<1>9. GetterSide' /\ GiverSide' /\ Covered' /\ Written' /\ Content'
  BY <1>7, <1>8, QuietStep
<1>10. (\A t \in Sides : ChannelSide(t) /\ SocketSide(t))'
  <2>1. ChannelSide(s)'
    <3>1. \/ phase[s] = "linked" /\ channel[s] = "OPEN" /\ channel'[s] = "CLOSING" /\ s \in ended'
          \/ channel'[s] = channel[s] /\ (s \in ended' <=> s \in ended) /\ sent' = sent
      BY <1>0, <1>3 DEF TypeOK
    <3>2. phase[s] = "linked" => Started(s) /\ stopping'[s]
      BY <1>0, <1>2, Peers DEF Started, SocketStops, TypeOK
    <3>3. /\ phase'[s] = phase[s] /\ up' = up /\ got'[s] = got[s] /\ (s \in heardAll' <=> s \in heardAll)
          /\ (Started(s)' <=> Started(s)) /\ (phase[s] # "linked" => stopping'[s] = stopping[s])
          /\ (phase[s] # "linked" => channel'[s] = channel[s])
      BY <1>0, <1>1, <1>2, <1>4, <1>5 DEF Started
    <3>4. phase[s] = "linked" => channel'[s] # "OPEN"
      BY <1>0, <1>2 DEF ChannelStops, TypeOK
    <3> QED BY <1>0, <3>1, <3>2, <3>3, <3>4 DEF ChannelSide, Started
  <2>2. SocketSide(s)'
    BY <1>0, <1>1, <1>5 DEF SocketSide, socketVars
  <2>3. SideSame(Peer(s))
    <3> DEFINE t == Peer(s)
    <3>1. t \in Sides /\ t # s
      BY Peers
    <3>2. phase'[t] = phase[t] /\ left'[t] = left[t] /\ got'[t] = got[t] /\ up' = up
      BY <1>1 DEF socketVars
    <3>3. stopping'[t] = stopping[t] /\ tcp'[t] = tcp[t] /\ sent'[t] = sent[t]
      BY <1>3, <1>5, <3>1
    <3>4. channel'[t] = channel[t] /\ (t \in ended' <=> t \in ended)
      BY <1>0, <1>3, <3>1 DEF TypeOK
    <3>5. t \in heardAll' <=> t \in heardAll
      BY <1>4
    <3> QED
      BY <3>2, <3>3, <3>4, <3>5 DEF SideSame
  <2>4. Control
    BY <1>0
  <2> QED BY <2>1, <2>2, <2>3, <2>4, BothSides
<1>11. QuitsOnce'
  <2>1. ASSUME NEW t \in Sides, phase[t] = "linked", Kept(t), channel'[t] = "CLOSING" PROVE FALSE
    <3>1. channel[t] # "CLOSING"
      BY <2>1, <1>0 DEF Control, QuitsOnce
    <3>2. t = s /\ channel[s] = "OPEN"
      BY <2>1, <3>1, <1>0, <1>3 DEF TypeOK
    <3>3. ~stopping[s] /\ ~left[s]
      BY <3>2, <2>1, <1>0 DEF ChannelSide, Kept
    <3> QED BY <3>3, <1>0, <1>1 DEF SocketSide
  <2> QED BY <2>1, <1>1 DEF QuitsOnce, Kept, socketVars
<1>12. SaidAll'
  <2>1. \A t \in Sides : channel'[t] = "CLOSED" => channel[t] = "CLOSED"
    BY <1>0, <1>3 DEF TypeOK
  <2> QED BY <2>1, <1>0, <1>1, <1>3 DEF Control, SaidAll, Kept, socketVars
<1>13. AnsweredBeforeClose'
  BY <1>0, <1>1, <1>5 DEF Control, AnsweredBeforeClose
<1> QED BY <1>6, <1>9, <1>10, <1>11, <1>12, <1>13 DEF Control, StreamInv

\* A giver whose reply was FAILURE stops once it is sent.
LEMMA FailureSentStep ==
  ASSUME StreamInv, FailureSent
  PROVE  StreamInv'
<1>0. /\ TypeOK /\ Control /\ Content /\ SentTyped /\ Spoken /\ GiverSide
      /\ ChannelSide("giver") /\ SocketSide("giver")
  BY TypedSent, Peers DEF StreamInv, Control, Content
<1>1. /\ failing /\ failing' = FALSE /\ GiverStop(<<>>) /\ DropQueue("giver")
      /\ UNCHANGED <<client, host, phase, gone, socketVars, flowVars, toSocket, got, inbox, up>>
  BY DEF FailureSent
<1>2. SocketStops("giver") /\ ChannelStops("giver", 0) /\ phase["giver"] = "linked"
      /\ host = "named" /\ told["giver"] >= 1
  BY <1>0, <1>1, StopQuietly, Peers DEF Stop, GiverSide
<1>3. /\ Grew /\ Spoken' /\ told' = told /\ sent'["getter"] = sent["getter"]
      /\ \/ channel["giver"] = "OPEN" /\ channel' = [channel EXCEPT !["giver"] = "CLOSING"]
            /\ ended' = ended \cup {"giver"}
         \/ channel["giver"] # "OPEN" /\ channel' = channel /\ ended' = ended
  <2>1. told["giver"] + 0 = told["giver"] /\ told \in [Sides -> Nat]
    BY <1>0, ToldTyped, Peers
  <2>2. [told EXCEPT !["giver"] = told["giver"] + 0] = told
    BY <2>1
  <2> QED BY <1>2, <2>2, Peers DEF ChannelStops
<1>4. heard' = heard /\ heardAll' = heardAll /\ SentTyped'
  BY <1>0, <1>1, <1>3, HeardStays
<1>5. fromSocket' = fromSocket \/ fromSocket' = [fromSocket EXCEPT !["giver"] = <<>>]
  BY <1>1 DEF DropQueue, Set
<1>6. TypeOK'
  <2>1. /\ stopping' \in [Sides -> BOOLEAN]
        /\ tcp' \in [Sides -> {"none", "connecting", "open", "closing", "closed"}]
        /\ fromSocket' \in [Sides -> Seq(Packets)]
    BY <1>0, <1>2, <1>5, StopsTyped, DroppedTyped, Peers
  <2>2. channel' \in [Sides -> {"POOLED", "OPEN", "CLOSING", "DRAINING", "CLOSED", "DEAD"}]
    BY <1>0, <1>3, Peers DEF TypeOK
  <2> QED BY <2>1, <2>2, <1>0, <1>1, <1>4 DEF TypeOK, SentTyped, flowVars, socketVars
<1>7. Quiet
  <2>1. \A t \in Sides : /\ got'[t] >= got[t] /\ gone'[t] => gone[t] \/ tcp[t] = "closed"
    BY <1>0, <1>1 DEF TypeOK
  <2>2. \A t \in Sides : channel'[t] \in {"OPEN", "CLOSING"} => channel[t] \in {"OPEN", "CLOSING"}
    BY <1>0, <1>3 DEF TypeOK
  <2>3. got' \in [Sides -> Nat] /\ ended \subseteq ended'
    BY <1>3, <1>4 DEF SentTyped
  <2>4. \A t \in Sides : /\ tcp'[t] # tcp[t] => tcp[t] \in {"open", "connecting"} /\ tcp'[t] = "closing"
                         /\ stopping[t] => stopping'[t]
                         /\ fromSocket'[t] = fromSocket[t] \/ stopping'[t]
    BY <1>0, <1>2, <1>5, StopsTyped, DroppedTyped, Peers
  <2> QED BY <2>1, <2>2, <2>3, <2>4, <1>1, <1>3, <1>4 DEF Quiet, socketVars
<1>8. GetterSide' /\ GiverSide' /\ Covered' /\ Written' /\ Content'
  <2>1. told["giver"] # 0
    BY <1>2
  <2> QED BY <2>1, <1>7, QuietStep
<1>9. (\A t \in Sides : ChannelSide(t) /\ SocketSide(t))'
  <2>1. ChannelSide("giver")'
    <3>1. \/ channel["giver"] = "OPEN" /\ channel'["giver"] = "CLOSING" /\ "giver" \in ended'
          \/ channel["giver"] # "OPEN" /\ channel'["giver"] = channel["giver"] /\ ended' = ended
      BY <1>0, <1>3, Peers DEF TypeOK
    <3>2. phase'["giver"] = "linked" /\ up' = up /\ heardAll' = heardAll /\ stopping'["giver"]
      BY <1>0, <1>1, <1>2, <1>4, StopsTyped, Peers
    <3> QED BY <1>0, <1>2, <3>1, <3>2 DEF ChannelSide, Started
  <2>2. SocketSide("giver")'
    BY <1>0, <1>1, <1>2, SocketSideStops, Peers DEF socketVars
  <2>3. SideSame("getter")
    BY <1>0, <1>1, <1>2, <1>3, <1>4, StopsTyped, Peers DEF TypeOK, SideSame, socketVars
  <2> QED BY <2>1, <2>2, <2>3, <1>0, BothSides, Peers
<1>10. QuitsOnce'
  BY <1>1, <1>2 DEF QuitsOnce, Kept
<1>11. SaidAll'
  BY <1>1, <1>2 DEF SaidAll, Kept
<1>12. AnsweredBeforeClose'
  <2>1. tcp'["getter"] = tcp["getter"]
    BY <1>0, <1>2, StopsTyped, Peers
  <2> QED BY <2>1, <1>0, <1>1 DEF Control, AnsweredBeforeClose
<1> QED BY <1>6, <1>8, <1>9, <1>10, <1>11, <1>12 DEF Control, StreamInv

\* An end of the channel comes to its end without a message more.
LEMMA EndStep ==
  ASSUME StreamInv, NEW s \in Sides, NEW now \in {"CLOSED", "DEAD"}, ChannelClosed(s, now, <<>>),
         UNCHANGED <<client, host, phase, failing, gone, socketVars, flowVars, toSocket, inbox, up>>,
         heard' = heard, SentTyped', \A t \in Sides : got'[t] >= got[t],
         got' = got \/ Started(s) \/ phase[s] = "refused", got'[Peer(s)] = got[Peer(s)],
         \/ heardAll' = heardAll
         \/ heardAll' = heardAll \cup {s} /\ now = "CLOSED",
         now = "DEAD" => ~up,
         now = "CLOSED" => s \in heardAll' /\ channel[s] = "CLOSING"
  PROVE  StreamInv'
<1>0. /\ TypeOK /\ Control /\ Content /\ SentTyped /\ Spoken /\ GiverSide
      /\ ChannelSide(s) /\ SocketSide(s) /\ heardAll \subseteq Sides
  BY Numbers DEF StreamInv, Control, Content
<1>1. /\ channel' = [channel EXCEPT ![s] = now] /\ sent' = sent
      /\ Started(s) => SocketStops(s)
      /\ ~Started(s) => UNCHANGED <<stopping, tcp>>
      /\ fromSocket' = fromSocket \/ (fromSocket' = [fromSocket EXCEPT ![s] = <<>>] /\ Started(s))
  BY <1>0, EndEffect
<1>2. Grew /\ told' = told /\ ended' = ended /\ Spoken'
  BY <1>0, <1>1, SameSent
<1>3. /\ stopping' \in [Sides -> BOOLEAN] /\ (Started(s) => stopping'[s])
      /\ tcp' \in [Sides -> {"none", "connecting", "open", "closing", "closed"}]
      /\ tcp'[s] # tcp[s] => Started(s) /\ tcp[s] \in {"open", "connecting"} /\ tcp'[s] = "closing"
      /\ tcp'[Peer(s)] = tcp[Peer(s)] /\ stopping'[Peer(s)] = stopping[Peer(s)]
      /\ stopping[s] => stopping'[s]
      /\ ~Started(s) => stopping'[s] = stopping[s]
  BY <1>0, <1>1, StopsTyped DEF TypeOK
<1>4. TypeOK'
  BY <1>0, <1>1, <1>3, DroppedTyped DEF TypeOK, SentTyped, flowVars, socketVars
<1>5. Quiet
  <2>1. \A t \in Sides : gone'[t] => gone[t] \/ tcp[t] = "closed"
    BY <1>0 DEF TypeOK
  <2>2. \A t \in Sides : channel'[t] \in {"OPEN", "CLOSING"} => channel[t] \in {"OPEN", "CLOSING"}
    BY <1>0, <1>1 DEF TypeOK
  <2>3. got' \in [Sides -> Nat] /\ ended \subseteq ended'
    BY <1>2 DEF SentTyped
  <2>4. \A t \in Sides : /\ tcp'[t] # tcp[t] => tcp[t] \in {"open", "connecting"} /\ tcp'[t] = "closing"
                         /\ stopping[t] => stopping'[t]
                         /\ fromSocket'[t] = fromSocket[t] \/ stopping'[t]
    BY <1>0, <1>1, <1>3, DroppedTyped, Peers
  <2> QED BY <2>1, <2>2, <2>3, <2>4, <1>1, <1>2 DEF Quiet, socketVars
<1>6. GetterSide' /\ GiverSide' /\ Covered' /\ Written' /\ Content'
  <2>1. "giver" \in ended' /\ told["giver"] = 0 => phase["giver"] = "refused" \/ "getter" \in ended
    BY <1>0, <1>2 DEF GiverSide
  <2> QED BY <2>1, <1>5, QuietStep
<1>7. (\A t \in Sides : ChannelSide(t) /\ SocketSide(t))'
  <2>1. ChannelSide(s)'
    <3>1. channel'[s] = now /\ phase'[s] = phase[s] /\ up' = up
      BY <1>0, <1>1 DEF TypeOK
    <3>2. phase[s] \in {"opening", "unopened", "waiting"} => got'[s] = got[s] /\ ~Started(s)
      BY DEF Started
    <3>3. (Started(s)' <=> Started(s)) /\ now # "OPEN"
      BY <3>1 DEF Started
    <3>4. now = "CLOSED" => s \in ended
      BY <1>0 DEF ChannelSide
    <3>5. s \in heardAll' => now \in {"CLOSED", "DEAD"}
      OBVIOUS
    <3>6. now = "CLOSED" => phase[s] \notin {"opening", "unopened", "waiting"}
      BY <1>0 DEF ChannelSide
    <3>7. /\ stopping'[s] => Started(s)
          /\ phase[s] = "failed" => stopping'[s]
      BY <1>0, <1>3 DEF ChannelSide
    <3> QED BY <1>0, <1>1, <1>2, <1>3, <3>1, <3>2, <3>3, <3>4, <3>5, <3>6, <3>7 DEF ChannelSide
  <2>2. SocketSide(s)'
    <3>1. CASE Started(s)
      BY <3>1, <1>0, <1>1, SocketSideStops DEF socketVars
    <3>2. CASE ~Started(s)
      BY <3>2, <1>0, <1>1 DEF SocketSide, socketVars
    <3> QED BY <3>1, <3>2
  <2>3. SideSame(Peer(s))
    BY <1>0, <1>1, <1>2, <1>3, Peers DEF TypeOK, SideSame, socketVars
  <2> QED BY <2>1, <2>2, <2>3, <1>0, BothSides
<1>8. QuitsOnce'
  <2>1. \A t \in Sides : channel'[t] = "CLOSING" => channel[t] = "CLOSING"
    BY <1>0, <1>1 DEF TypeOK
  <2> QED BY <2>1, <1>0 DEF Control, QuitsOnce, Kept, socketVars
<1>9. SaidAll'
  <2> SUFFICES ASSUME NEW t \in Sides, phase[t] = "linked", phase[Peer(t)] = "linked", Kept(Peer(t)),
                      channel'[t] = "CLOSED"
               PROVE  told[t] = IF t = "getter" THEN arrived[t] ELSE arrived[t] + 1
    BY <1>2 DEF SaidAll, Kept, socketVars
  <2>1. CASE t # s
    BY <2>1, <1>0, <1>1 DEF TypeOK, Control, SaidAll
  <2>2. CASE t = s
    <3>1. channel[s] = "CLOSING"
      BY <2>2, <1>0, <1>1 DEF TypeOK
    <3> QED BY <3>1, <2>2, <1>0 DEF Control, GetterSide, GiverSide, Sides
  <2> QED BY <2>1, <2>2
<1>10. AnsweredBeforeClose'
  <2>1. CASE tcp'["getter"] = tcp["getter"]
    BY <2>1, <1>0 DEF Control, AnsweredBeforeClose
  <2>2. CASE tcp'["getter"] # tcp["getter"]
    <3>1. s = "getter" /\ Started(s) /\ tcp[s] \in {"open", "connecting"}
      BY <2>2, <1>3, Peers
    <3>2. now = "DEAD"
      BY <3>1, <1>0 DEF ChannelSide, SocketSide
    <3> QED BY <3>2 DEF AnsweredBeforeClose
  <2> QED BY <2>1, <2>2
<1> QED BY <1>4, <1>6, <1>7, <1>8, <1>9, <1>10 DEF Control, StreamInv

\* The data channel has failed, and an end learns of it.
LEMMA ChannelLostStep ==
  ASSUME StreamInv, NEW s \in Sides, ChannelLost(s)
  PROVE  StreamInv'
<1>0. TypeOK /\ SentTyped /\ Spoken
  BY TypedSent DEF StreamInv, Content
<1>1. /\ ~up /\ ChannelClosed(s, "DEAD", <<>>)
      /\ UNCHANGED <<client, host, phase, failing, gone, socketVars, flowVars, toSocket,
                 got, inbox, up>>
  BY DEF ChannelLost
<1>2. SocketSide(s)
  BY DEF StreamInv, Control
<1>3. sent' = sent
  BY <1>0, <1>1, <1>2, EndEffect
<1>4. heard' = heard /\ heardAll' = heardAll /\ SentTyped'
  BY <1>0, <1>1, <1>3, SameSent, HeardStays
<1>5. \A t \in Sides : got'[t] >= got[t]
  BY <1>0, <1>1 DEF SentTyped
<1> QED BY <1>1, <1>4, <1>5, EndStep

\* CLOSE arrives.
LEMMA CloseArrivesStep ==
  ASSUME StreamInv, NEW s \in Sides, CloseArrives(s)
  PROVE  StreamInv'
<1>0. /\ TypeOK /\ Control /\ Content /\ SentTyped /\ Spoken /\ GiverSide
      /\ ChannelSide(s) /\ SocketSide(s) /\ heardAll \subseteq Sides
  BY Numbers DEF StreamInv, Control, Content
<1>1. /\ Arrives(s, {"CLOSE"})
      /\ UNCHANGED <<client, host, phase, failing, gone, socketVars, flowVars, toSocket,
                 inbox, up>>
  BY DEF CloseArrives
<1>2. /\ s \notin heardAll /\ channel[s] # "DEAD" /\ got' = [got EXCEPT ![s] = got[s] + 1]
      /\ got[s] = told[Peer(s)] /\ Peer(s) \in ended
  <2>1. \A i \in Nat : \A w \in Word(Peer(s), i) : w[1] # "CLOSE"
    BY WordKinds DEF Peer, Sides
  <2>2. heard[s] + 1 \in Nat
    BY <1>0, HeardTyped
  <2> QED BY <2>1, <2>2, <1>0, <1>1, ArrivingIs
<1>3. \/ channel[s] = "OPEN" /\ channel' = [channel EXCEPT ![s] = "DRAINING"]
         /\ UNCHANGED <<stopping, tcp, fromSocket, sent>>
      \/ channel[s] = "CLOSING" /\ ChannelClosed(s, "CLOSED", <<>>)
  BY DEF CloseArrives, Set
<1>4. sent' = sent
  BY <1>0, <1>3, EndEffect
<1>5. Grew /\ told' = told /\ ended' = ended /\ Spoken'
  BY <1>0, <1>4, SameSent
<1>6. heard' = heard /\ heardAll' = heardAll \cup {s} /\ SentTyped'
  BY <1>0, <1>2, <1>5, HeardClose
<1>7. got'[Peer(s)] = got[Peer(s)] /\ \A t \in Sides : got'[t] >= got[t]
  BY <1>0, <1>2, Peers DEF SentTyped
<1>8. CASE channel[s] = "CLOSING" /\ ChannelClosed(s, "CLOSED", <<>>)
  <2>1. Started(s) \/ phase[s] = "refused"
    BY <1>8, <1>0 DEF ChannelSide, Started
  <2> QED BY <2>1, <1>8, <1>1, <1>6, <1>7, EndStep
<1>9. CASE channel[s] = "OPEN" /\ channel' = [channel EXCEPT ![s] = "DRAINING"]
           /\ UNCHANGED <<stopping, tcp, fromSocket, sent>>
  <2>1. TypeOK'
    BY <1>9, <1>0, <1>1, <1>6 DEF TypeOK, SentTyped, flowVars, socketVars
  <2>2. Quiet
    <3>1. \A t \in Sides : gone'[t] => gone[t] \/ tcp[t] = "closed"
      BY <1>0, <1>1 DEF TypeOK
    <3>2. \A t \in Sides : channel'[t] \in {"OPEN", "CLOSING"} => channel[t] \in {"OPEN", "CLOSING"}
      BY <1>0, <1>9 DEF TypeOK
    <3>3. got' \in [Sides -> Nat] /\ ended \subseteq ended'
      BY <1>5, <1>6 DEF SentTyped
    <3> QED BY <3>1, <3>2, <3>3, <1>1, <1>5, <1>6, <1>7, <1>9 DEF Quiet, socketVars
  <2>3. GetterSide' /\ GiverSide' /\ Covered' /\ Written' /\ Content'
    <3>1. "giver" \in ended' /\ told["giver"] = 0 => phase["giver"] = "refused" \/ "getter" \in ended
      BY <1>0, <1>5 DEF GiverSide
    <3> QED BY <3>1, <2>2, QuietStep
  <2>4. (\A t \in Sides : ChannelSide(t) /\ SocketSide(t))'
    <3>1. ChannelSide(s)'
      BY <1>0, <1>1, <1>5, <1>6, <1>9 DEF TypeOK, ChannelSide, Started
    <3>2. SocketSide(s)'
      BY <1>0, <1>1, <1>9 DEF SocketSide, socketVars
    <3>3. SideSame(Peer(s))
      BY <1>0, <1>1, <1>5, <1>6, <1>7, <1>9, Peers DEF TypeOK, SideSame, socketVars
    <3> QED BY <3>1, <3>2, <3>3, <1>0, BothSides
  <2>5. QuitsOnce' /\ SaidAll'
    <3>1. \A t \in Sides : /\ channel'[t] = "CLOSING" => channel[t] = "CLOSING"
                           /\ channel'[t] = "CLOSED" => channel[t] = "CLOSED"
      BY <1>0, <1>9 DEF TypeOK
    <3>2. QuitsOnce'
      BY <3>1, <1>0, <1>1 DEF Control, QuitsOnce, Kept, socketVars
    <3>3. SaidAll'
      BY <3>1, <1>0, <1>1, <1>5 DEF Control, SaidAll, Kept, socketVars
    <3> QED BY <3>2, <3>3
  <2>6. AnsweredBeforeClose'
    BY <1>0, <1>1, <1>9 DEF Control, AnsweredBeforeClose
  <2> QED BY <2>1, <2>3, <2>4, <2>5, <2>6 DEF Control, StreamInv
<1> QED BY <1>3, <1>8, <1>9

\* CLOSE is answered.  An end that has heard all the other said did not say all it had to
\* only if its Session goes on to read from a socket that it must not close itself.
LEMMA DrainedStep ==
  ASSUME StreamInv, NEW s \in Sides, Drained(s)
  PROVE  StreamInv'
<1>0. /\ TypeOK /\ Control /\ Content /\ SentTyped /\ Spoken /\ GiverSide
      /\ ChannelSide(s) /\ SocketSide(s) /\ ended \subseteq Sides
  BY Numbers DEF StreamInv, Control, Content
<1>1. UNCHANGED <<client, host, phase, failing, gone, socketVars, flowVars, toSocket,
                 got, inbox, up>>
  BY DEF Drained
<1>2. /\ channel[s] = "DRAINING" /\ channel' = [channel EXCEPT ![s] = "CLOSED"]
      /\ Grew /\ Spoken' /\ told' = told /\ ended' = ended \cup {s}
      /\ sent'[Peer(s)] = sent[Peer(s)] /\ SocketStops(s)
      /\ fromSocket' = fromSocket \/ fromSocket' = [fromSocket EXCEPT ![s] = <<>>]
  BY <1>0, DrainEffect
<1>3. heard' = heard /\ heardAll' = heardAll /\ SentTyped'
  BY <1>0, <1>1, <1>2, HeardStays
<1>4. /\ s \in heardAll /\ Peer(s) \in ended /\ heard[s] = told[Peer(s)] /\ s \notin ended
      /\ Started(s)
  BY <1>0, <1>2, HeardTyped DEF ChannelSide, Started
<1>5. /\ stopping' \in [Sides -> BOOLEAN]
      /\ tcp' \in [Sides -> {"none", "connecting", "open", "closing", "closed"}]
      /\ fromSocket' \in [Sides -> Seq(Packets)] /\ fromSocket'[Peer(s)] = fromSocket[Peer(s)]
      /\ stopping'[s] /\ (tcp'[s] # tcp[s] => tcp[s] \in {"open", "connecting"} /\ tcp'[s] = "closing")
      /\ tcp'[Peer(s)] = tcp[Peer(s)] /\ stopping'[Peer(s)] = stopping[Peer(s)]
  BY <1>0, <1>2, StopsTyped, DroppedTyped
<1>6. TypeOK'
  BY <1>0, <1>1, <1>2, <1>3, <1>5 DEF TypeOK, SentTyped, flowVars, socketVars
<1>7. Quiet
  <2>1. \A t \in Sides : got'[t] >= got[t] /\ (gone'[t] => gone[t] \/ tcp[t] = "closed")
    BY <1>0, <1>1 DEF TypeOK
  <2>2. \A t \in Sides : channel'[t] \in {"OPEN", "CLOSING"} => channel[t] \in {"OPEN", "CLOSING"}
    BY <1>0, <1>2 DEF TypeOK
  <2>3. got' \in [Sides -> Nat] /\ ended \subseteq ended'
    BY <1>2, <1>3 DEF SentTyped
  <2>4. \A t \in Sides : /\ tcp'[t] # tcp[t] => tcp[t] \in {"open", "connecting"} /\ tcp'[t] = "closing"
                         /\ stopping[t] => stopping'[t]
                         /\ fromSocket'[t] = fromSocket[t] \/ stopping'[t]
    BY <1>0, <1>5, Peers
  <2> QED BY <2>1, <2>2, <2>3, <2>4, <1>1, <1>2, <1>3 DEF Quiet, socketVars
<1>8. GetterSide' /\ GiverSide' /\ Covered' /\ Written' /\ Content'
  <2>1. "giver" \in ended' /\ told["giver"] = 0 => phase["giver"] = "refused" \/ "getter" \in ended
    <3>1. CASE s = "giver"
      BY <3>1, <1>4, Peers
    <3>2. CASE s # "giver"
      BY <3>2, <1>0, <1>2 DEF GiverSide
    <3> QED BY <3>1, <3>2
  <2> QED BY <2>1, <1>7, QuietStep
<1>9. (\A t \in Sides : ChannelSide(t) /\ SocketSide(t))'
  <2>1. ChannelSide(s)'
    <3>1. channel'[s] = "CLOSED" /\ phase'[s] = phase[s] /\ up' = up /\ s \in ended' /\ s \in heardAll'
      BY <1>0, <1>1, <1>2, <1>3, <1>4 DEF TypeOK
    <3> QED BY <1>4, <1>5, <3>1 DEF ChannelSide, Started
  <2>2. SocketSide(s)'
    BY <1>0, <1>1, <1>2, SocketSideStops DEF socketVars
  <2>3. SideSame(Peer(s))
    BY <1>0, <1>1, <1>2, <1>3, <1>5, Peers DEF TypeOK, SideSame, socketVars
  <2> QED BY <2>1, <2>2, <2>3, <1>0, BothSides
<1>10. QuitsOnce'
  <2>1. \A t \in Sides : channel'[t] = "CLOSING" => channel[t] = "CLOSING"
    BY <1>0, <1>2 DEF TypeOK
  <2> QED BY <2>1, <1>0, <1>1 DEF Control, QuitsOnce, Kept, socketVars
<1>11. SaidAll'
  <2> SUFFICES ASSUME NEW t \in Sides, phase[t] = "linked", phase[Peer(t)] = "linked", Kept(Peer(t)),
                      channel'[t] = "CLOSED"
               PROVE  told[t] = IF t = "getter" THEN arrived[t] ELSE arrived[t] + 1
    BY <1>1, <1>2 DEF SaidAll, Kept, socketVars
  <2>1. CASE t # s
    BY <2>1, <1>0, <1>2 DEF TypeOK, Control, SaidAll
  <2>2. CASE t = s
    <3>1. Peer(s) \in Sides /\ ChannelSide(Peer(s))
      BY <1>0, Peers DEF Control
    <3>2. channel[Peer(s)] = "CLOSED"
      <4>1. channel[Peer(s)] # "CLOSING" /\ up
        BY <2>2, <3>1, <1>0 DEF Control, QuitsOnce, Kept
      <4>2. channel[Peer(s)] \in {"POOLED", "OPEN", "CLOSING", "DRAINING", "CLOSED", "DEAD"}
        BY <3>1, <1>0 DEF TypeOK
      <4> QED BY <4>1, <4>2, <3>1, <1>4 DEF ChannelSide
    <3>3. Peer(s) \in heardAll
      BY <3>1, <3>2 DEF ChannelSide
    <3>4. s \in ended
      BY <3>1, <3>3, <1>0, HeardTyped, Peers
    <3> QED BY <3>4, <1>4
  <2> QED BY <2>1, <2>2
<1>12. AnsweredBeforeClose'
  <2>1. CASE tcp'["getter"] = tcp["getter"]
    BY <2>1, <1>0, <1>1 DEF Control, AnsweredBeforeClose
  <2>2. CASE tcp'["getter"] # tcp["getter"]
    <3>1. s = "getter" /\ tcp["getter"] = "open"
      BY <2>2, <1>0, <1>5, Peers DEF Control, GetterSide
    <3>2. ~stopping["getter"] /\ heard["getter"] = told["giver"] /\ "giver" \in ended
          /\ "getter" \notin ended
      BY <3>1, <1>0, <1>4, Peers DEF SocketSide
    <3>3. CASE phase["getter"] = "linked"
      <4>1. written["getter"] >= 2 /\ written["getter"] = Len(toSocket["getter"])
        BY <3>1, <3>3, <1>0, Numbers, Peers DEF Control, Written, GetterSide, written
      <4> QED BY <4>1, <1>1 DEF AnsweredBeforeClose
    <3>4. CASE phase["getter"] # "linked"
      <4>1. heard["getter"] = 0
        BY <3>1, <3>2, <3>4, <1>0 DEF Control, GetterSide, ChannelSide
      <4>2. phase["giver"] = "refused"
        BY <4>1, <3>2, <1>0 DEF GiverSide
      <4> QED BY <4>2, <1>1 DEF AnsweredBeforeClose
    <3> QED BY <3>3, <3>4
  <2> QED BY <2>1, <2>2
<1> QED BY <1>6, <1>8, <1>9, <1>10, <1>11, <1>12 DEF Control, StreamInv

\* A socket closes.
LEMMA OnDisconnectStep ==
  ASSUME StreamInv, NEW s \in Sides, OnDisconnect(s)
  PROVE  StreamInv'
<1>0. /\ TypeOK /\ Control /\ Content /\ SentTyped /\ ChannelSide(s) /\ SocketSide(s)
  BY TypedSent DEF StreamInv, Control
<1>1. /\ tcp[s] \in {"open", "closing"} /\ tcp' = [tcp EXCEPT ![s] = "closed"]
      /\ left' = [left EXCEPT ![s] = (tcp[s] = "open")]
      /\ UNCHANGED <<client, host, phase, stopping, failing, gone, arrived, flowVars,
                 fromSocket, toSocket, channel, sent, got, inbox, up>>
  BY DEF OnDisconnect, Set
<1>2. /\ heard' = heard /\ heardAll' = heardAll /\ told' = told /\ ended' = ended
      /\ (Succeeded' <=> Succeeded) /\ queued' = queued /\ written' = written
  BY <1>1, SameDerived
<1>3. /\ tcp'[s] = "closed" /\ (left'[s] <=> tcp[s] = "open") /\ ~left[s]
      /\ \A t \in Sides : t # s => tcp'[t] = tcp[t] /\ left'[t] = left[t]
  BY <1>0, <1>1 DEF TypeOK, SocketSide
<1>4. TypeOK'
  <2>1. /\ tcp' \in [Sides -> {"none", "connecting", "open", "closing", "closed"}]
        /\ left' \in [Sides -> BOOLEAN]
    BY <1>0, <1>1 DEF TypeOK
  <2> QED BY <2>1, <1>0, <1>1 DEF TypeOK, flowVars
<1>5. (\A t \in Sides : ChannelSide(t) /\ SocketSide(t))'
  <2>1. ChannelSide(s)'
    BY <1>0, <1>1, <1>2 DEF ChannelSide, Started
  <2>2. SocketSide(s)'
    BY <1>0, <1>1, <1>3 DEF SocketSide
  <2>3. SideSame(Peer(s))
    BY <1>1, <1>2, <1>3, Peers DEF SideSame
  <2> QED BY <2>1, <2>2, <2>3, <1>0, BothSides
<1>6. GetterSide' /\ GiverSide'
  BY <1>0, <1>1, <1>2, <1>3, Peers DEF Control, GetterSide, GiverSide
<1>7. Covered' /\ Written' /\ QuitsOnce' /\ SaidAll' /\ AnsweredBeforeClose'
  <2>1. \A t \in Sides : Kept(t)' => Kept(t)
    BY <1>1, <1>3 DEF Kept
  <2>2. \A t \in Sides : tcp'[t] = "open" => tcp[t] = "open"
    BY <1>3
  <2>3. \A t \in Sides : tcp'[t] = "closing" => tcp[t] = "closing"
    BY <1>3
  <2>4. Covered'
    BY <1>0, <1>1, <1>2 DEF Control, Covered
  <2>5. Written'
    BY <2>1, <2>2, <1>0, <1>1, <1>2, Peers DEF Control, Written
  <2>6. QuitsOnce' /\ SaidAll'
    BY <2>1, <1>0, <1>1, <1>2, Peers DEF Control, QuitsOnce, SaidAll
  <2>7. AnsweredBeforeClose'
    BY <2>3, <1>0, <1>1, Peers DEF Control, AnsweredBeforeClose
  <2> QED BY <2>4, <2>5, <2>6, <2>7
<1>8. Content'
  BY <1>0, <1>1, <1>2 DEF Content, Spoken, Queued, QueueFrom, GiverWrote, GetterWrote
<1> QED BY <1>4, <1>5, <1>6, <1>7, <1>8 DEF Control, StreamInv

LEMMA QueueGrows ==
  ASSUME NEW q \in Seq(Packets), NEW p \in Packets
  PROVE  /\ Append(q, p) \in Seq(Packets) /\ Len(Append(q, p)) = Len(q) + 1
         /\ \A i \in 1..Len(q) : Append(q, p)[i] = q[i]
         /\ Append(q, p)[Len(q) + 1] = p
OBVIOUS

LEMMA Single ==
  ASSUME NEW m \in Message
  PROVE  <<m>> \in Seq(Message) /\ Len(<<m>>) = 1 /\ <<m>>[1] = m
OBVIOUS

LEMMA PacketIsMessage ==
  ASSUME NEW n \in Packets
  PROVE  Packet(n) \in Message
BY DEF Message

\* A packet comes from a socket.
LEMMA OnDataStep ==
  ASSUME StreamInv, NEW s \in Sides, OnData(s)
  PROVE  StreamInv'
<1>0. /\ TypeOK /\ Control /\ Content /\ SentTyped /\ Spoken /\ ChannelSide(s) /\ SocketSide(s)
      /\ GiverSide /\ GetterSide
  BY TypedSent DEF StreamInv, Control, Content
<1>1. /\ tcp[s] \in {"open", "connecting"}
      /\ arrived' = [arrived EXCEPT ![s] = arrived[s] + 1]
      /\ arrived[s] < (IF s = "getter" THEN MaxData + 2 ELSE MaxData)
      /\ UNCHANGED <<client, host, phase, stopping, failing, tcp, gone, left, paused,
                 toSocket, channel, got, inbox, up>>
  BY DEF OnData, Set
<1>2. /\ arrived[s] \in Nat /\ arrived'[s] = arrived[s] + 1 /\ arrived'[s] \in Packets
      /\ \A t \in Sides : t # s => arrived'[t] = arrived[t]
      /\ arrived' \in [Sides -> 0..(MaxData + 2)]
  BY <1>0, <1>1, SessionAssumption DEF TypeOK, Packets
<1>3. ~stopping[s] /\ (phase[s] = "linked" => channel[s] \notin {"CLOSING", "CLOSED", "DEAD"})
  BY <1>0, <1>1 DEF SocketSide, ChannelSide, Started
<1>4. \/ /\ phase[s] # "linked"
         /\ fromSocket' = [fromSocket EXCEPT ![s] = Append(fromSocket[s], arrived'[s])]
         /\ UNCHANGED <<wants, overflow, sent>>
      \/ /\ phase[s] = "linked"
         /\ Post(s, Accepted(s, <<Packet(arrived'[s])>>))
         /\ UNCHANGED fromSocket
  BY DEF OnData, Set
<1>5. /\ Grew /\ Spoken' /\ ended' = ended /\ sent'[Peer(s)] = sent[Peer(s)]
      /\ told'[Peer(s)] = told[Peer(s)]
      /\ phase[s] # "linked" => sent' = sent
      /\ \/ phase[s] = "linked" /\ channel[s] = "OPEN" /\ told'[s] = told[s] + 1
         \/ (phase[s] = "linked" => channel[s] # "OPEN") /\ told'[s] = told[s]
  <2>1. CASE phase[s] = "linked" /\ channel[s] = "OPEN" /\ Post(s, <<Packet(arrived'[s])>>)
    <3>1. s \notin ended
      BY <2>1, <1>0 DEF ChannelSide
    <3>2. /\ <<Packet(arrived'[s])>> \in Seq(Message) /\ Len(<<Packet(arrived'[s])>>) = 1
          /\ <<Packet(arrived'[s])>>[1] = Packet(arrived'[s])
      BY <1>2, PacketIsMessage, Single
    <3>3. Packet(arrived'[s]) \in Word(s, told[s] + 1)
      <4>1. CASE s = "getter"
        <5>1. told[s] = arrived[s] /\ told[s] >= 2
          BY <4>1, <2>1, <1>0 DEF GetterSide
        <5> QED BY <5>1, <4>1, <1>2 DEF Word
      <4>2. CASE s = "giver"
        <5>1. told[s] = arrived[s] + 1
          BY <4>2, <2>1, <1>0 DEF GiverSide
        <5>2. told[s] + 1 # 1 /\ (told[s] + 1) - 1 = arrived'[s]
          BY <5>1, <1>2
        <5> QED BY <5>2, <4>2 DEF Word
      <4> QED BY <4>1, <4>2 DEF Sides
    <3>4. \A j \in 1..Len(<<Packet(arrived'[s])>>) :
            <<Packet(arrived'[s])>>[j] \in Word(s, told[s] + j)
      BY <3>2, <3>3
    <3>5. /\ Grew /\ told' = [told EXCEPT ![s] = told[s] + Len(<<Packet(arrived'[s])>>)]
          /\ ended' = ended /\ Spoken'
      BY <3>1, <3>2, <3>4, <2>1, <1>0, WordsSent
    <3>6. told'[s] = told[s] + 1 /\ told'[Peer(s)] = told[Peer(s)]
      BY <3>2, <3>5, <1>0, ToldTyped, Peers
    <3> QED BY <3>5, <3>6, <2>1, <1>0, PostElsewhere
  <2>2. CASE sent' = sent /\ (phase[s] = "linked" => channel[s] # "OPEN")
    BY <2>2, <1>0, SameSent
  <2>3. CASE phase[s] = "linked" /\ channel[s] # "OPEN" /\ Post(s, <<>>)
    BY <2>2, <2>3, <1>0, NothingPosted
  <2> QED BY <1>4, <2>1, <2>2, <2>3 DEF Accepted
<1>6. heard' = heard /\ heardAll' = heardAll /\ SentTyped' /\ written' = written
  BY <1>0, <1>1, <1>5, HeardStays, SameDerived
<1>7. (Succeeded' <=> Succeeded)
  <2>1. told'["giver"] = told["giver"] \/ told["giver"] >= 1
    <3>1. CASE s = "getter"
      BY <3>1, <1>5, Peers
    <3>2. CASE s = "giver"
      BY <3>2, <1>0, <1>2, <1>5 DEF GiverSide
    <3> QED BY <3>1, <3>2 DEF Sides
  <2> QED BY <2>1, <1>0, <1>5, SameReply
<1>8. /\ fromSocket' \in [Sides -> Seq(Packets)] /\ fromSocket'[Peer(s)] = fromSocket[Peer(s)]
      /\ queued'[Peer(s)] = queued[Peer(s)]
      /\ phase[s] # "linked" =>
           /\ queued'[s] = queued[s] + 1 /\ fromSocket'[s][queued[s] + 1] = arrived[s] + 1
           /\ \A i \in 1..queued[s] : fromSocket'[s][i] = fromSocket[s][i]
  <2>1. fromSocket \in [Sides -> Seq(Packets)] /\ fromSocket[s] \in Seq(Packets)
    BY <1>0 DEF TypeOK
  <2>2. CASE fromSocket' = [fromSocket EXCEPT ![s] = Append(fromSocket[s], arrived'[s])]
    <3> DEFINE q == Append(fromSocket[s], arrived'[s])
    <3>1. /\ q \in Seq(Packets) /\ Len(q) = Len(fromSocket[s]) + 1
          /\ \A i \in 1..Len(fromSocket[s]) : q[i] = fromSocket[s][i]
          /\ q[Len(fromSocket[s]) + 1] = arrived'[s]
      BY <2>1, <1>2, QueueGrows
    <3>2. fromSocket' = [fromSocket EXCEPT ![s] = q]
      BY <2>2
    <3> HIDE DEF q
    <3>3. fromSocket' \in [Sides -> Seq(Packets)] /\ fromSocket'[s] = q
          /\ fromSocket'[Peer(s)] = fromSocket[Peer(s)]
      BY <3>1, <3>2, <2>1, Peers
    <3>4. /\ queued[s] = Len(fromSocket[s]) /\ queued'[s] = Len(q)
          /\ queued'[Peer(s)] = queued[Peer(s)]
      BY <3>3, Peers DEF queued
    <3> QED BY <3>1, <3>3, <3>4, <1>2
  <2>3. CASE fromSocket' = fromSocket /\ phase[s] = "linked"
    BY <2>1, <2>3, Peers DEF queued
  <2> QED BY <1>4, <2>2, <2>3
<1>9. TypeOK'
  <2>1. wants' \in [Sides -> {"run", "pause"}] /\ overflow' \in [Sides -> BOOLEAN]
    BY <1>0 DEF TypeOK, OnData, MayOverflow, Set
  <2> QED BY <2>1, <1>0, <1>1, <1>2, <1>6, <1>8 DEF TypeOK, SentTyped
<1>10. (\A t \in Sides : ChannelSide(t) /\ SocketSide(t))'
  <2>1. ChannelSide(s)'
    BY <1>0, <1>1, <1>5, <1>6 DEF ChannelSide, Started
  <2>2. SocketSide(s)'
    BY <1>0, <1>1 DEF SocketSide
  <2>3. SideSame(Peer(s))
    BY <1>1, <1>5, <1>6 DEF SideSame
  <2> QED BY <2>1, <2>2, <2>3, <1>0, BothSides
<1>11. /\ AllSame(Peer(s))
       /\ told'[s] \in Nat /\ told[s] \in Nat /\ told'[s] >= told[s]
  <2>1. SideSame(Peer(s))
    BY <1>1, <1>5, <1>6 DEF SideSame
  <2>2. told[s] \in Nat
    BY <1>0, ToldTyped
  <2> QED BY <2>1, <2>2, <1>1, <1>2, <1>5, <1>6, Peers DEF AllSame
<1>12. GetterSide' /\ GiverSide'
  <2>1. CASE s = "getter"
    <3>1. GiverSide'
      BY <2>1, <1>0, <1>1, <1>5, <1>7, <1>11, GiverStays, Peers
    <3>2. GetterSide'
      BY <2>1, <1>0, <1>1, <1>2, <1>3, <1>5, <1>6, <1>7 DEF GetterSide
    <3> QED BY <3>1, <3>2
  <2>2. CASE s = "giver"
    <3>1. GetterSide'
      BY <2>2, <1>0, <1>7, <1>11, GetterStays, Peers
    <3>2. GiverSide'
      BY <2>2, <1>0, <1>1, <1>2, <1>3, <1>5, <1>6, <1>7 DEF GiverSide
    <3> QED BY <3>1, <3>2
  <2> QED BY <2>1, <2>2 DEF Sides
<1>13. Covered'
  <2>0. /\ Covered /\ written["giver"] \in Nat /\ written["getter"] \in Nat
        /\ told["giver"] \in Nat /\ told["getter"] \in Nat
    BY <1>0, Numbers, Peers DEF Control
  <2>1. CASE s = "getter"
    <3>1. /\ told'["giver"] = told["giver"] /\ arrived'["giver"] = arrived["giver"]
          /\ told'["getter"] <= 2 \/ told'["getter"] <= arrived'["getter"]
      BY <2>0, <2>1, <1>0, <1>2, <1>5, <1>11, Peers DEF Covered, GetterSide
    <3> QED BY <3>1, <2>0, <2>1, <1>1, <1>6, <1>11 DEF Covered
  <2>2. CASE s = "giver"
    <3>1. /\ told'["getter"] = told["getter"] /\ arrived'["getter"] = arrived["getter"]
          /\ told'["giver"] <= arrived'["giver"] + 1
      BY <2>0, <2>2, <1>0, <1>2, <1>5, <1>11, Peers DEF Covered, GiverSide
    <3> QED BY <3>1, <2>0, <2>2, <1>1, <1>6, <1>11 DEF Covered
  <2> QED BY <2>1, <2>2 DEF Sides
<1>14. Written' /\ QuitsOnce' /\ AnsweredBeforeClose'
  BY <1>0, <1>1, <1>6 DEF Control, Written, QuitsOnce, AnsweredBeforeClose, Kept
<1>15. SaidAll'
  <2> SUFFICES ASSUME NEW t \in Sides, phase[t] = "linked", phase[Peer(t)] = "linked", Kept(Peer(t)),
                      channel[t] = "CLOSED"
               PROVE  told'[t] = IF t = "getter" THEN arrived'[t] ELSE arrived'[t] + 1
    BY <1>1 DEF SaidAll, Kept
  <2>1. t # s
    BY <1>3
  <2>2. told'[t] = told[t] /\ arrived'[t] = arrived[t]
    BY <2>1, <1>2, <1>5, Peers
  <2> QED BY <2>2, <1>0 DEF Control, SaidAll
<1>16. Content'
  <2>1. \A k \in {0, 1, 2} : phase[s] # "linked" /\ QueueFrom(s, k) => QueueFrom(s, k)'
    <3> SUFFICES ASSUME NEW k \in {0, 1, 2}, phase[s] # "linked", QueueFrom(s, k)
                 PROVE  QueueFrom(s, k)'
      OBVIOUS
    <3>1. queued[s] \in Nat /\ queued[s] = arrived[s] - k
      BY <1>0, Numbers DEF QueueFrom
    <3>2. \A i \in 1..queued[s] : fromSocket[s][i] = i + k
      BY DEF QueueFrom
    <3>3. queued'[s] = arrived'[s] - k
      BY <3>1, <1>2, <1>8
    <3>4. ASSUME NEW i \in 1..queued'[s] PROVE fromSocket'[s][i] = i + k
      <4>1. CASE i \in 1..queued[s]
        BY <4>1, <3>2, <1>8
      <4>2. CASE i = queued[s] + 1
        BY <4>2, <3>1, <1>2, <1>8
      <4> QED BY <4>1, <4>2, <3>1, <1>8
    <3> QED BY <3>3, <3>4 DEF QueueFrom
  <2>2. \A k \in {0, 1, 2} : QueueFrom(Peer(s), k) => QueueFrom(Peer(s), k)'
    BY <1>2, <1>8, Peers DEF QueueFrom
  <2>3. \A t \in Sides : \A k \in {0, 1, 2} : phase[t] # "linked" /\ QueueFrom(t, k) => QueueFrom(t, k)'
    BY <2>1, <2>2, Peers
  <2>4. Queued'
    BY <2>3, <1>0, <1>1, Peers DEF Content, Queued
  <2>5. GiverWrote' /\ GetterWrote'
    BY <1>0, <1>1, <1>6 DEF Content, GiverWrote, GetterWrote
  <2> QED BY <2>4, <2>5, <1>5 DEF Content
<1> QED BY <1>9, <1>10, <1>12, <1>13, <1>14, <1>15, <1>16 DEF Control, StreamInv

LEMMA Short ==
  ASSUME NEW q \in {<<>>, <<Msg("auth")>>}
  PROVE  Len(q) \in Nat /\ ~(Len(q) >= 2)
<1>1. CASE q = <<>>
  BY <1>1
<1>2. CASE q = <<Msg("auth")>>
  BY <1>2
<1> QED BY <1>1, <1>2

\* A message comes for a Session that is linked, which writes it, or for one that has
\* ended or waits for its client, which leaves it.
LEMMA ReceiveIs ==
  ASSUME StreamInv, NEW s \in Sides, Receive(s)
  PROVE  /\ s \notin heardAll /\ got[s] < told[Peer(s)] /\ heard[s] = got[s]
         /\ got' = [got EXCEPT ![s] = got[s] + 1] /\ Arriving(s) \in Message
         /\ phase[s] \in {"linked", "responding", "failed", "refused"}
         /\ phase[s] = "linked" =>
              Arriving(s) = Packet(IF s = "getter" THEN heard[s] ELSE heard[s] + 1)
<1>0. /\ TypeOK /\ Control /\ SentTyped /\ Spoken /\ ChannelSide(s) /\ GetterSide /\ GiverSide
      /\ channel[s] \in {"OPEN", "CLOSING"}
  BY TypedSent DEF StreamInv, Control, Content, Receive
<1>1. /\ \E kinds : Arrives(s, kinds) /\ kinds \in SUBSET {"data", "request", "ok", "fail"}
      /\ \/ Arriving(s)[1] = "data"
         \/ Arriving(s)[1] = "request" /\ phase[s] # "endpoint"
         \/ Arriving(s)[1] \in {"ok", "fail"} /\ phase[s] # "awaiting"
  BY DEF Receive, Arrives, Arriving
<1>2. /\ s \notin heardAll /\ got' = [got EXCEPT ![s] = got[s] + 1] /\ heard[s] = got[s]
      /\ Arriving(s) \in Message
      /\ got[s] < told[Peer(s)] /\ Arriving(s) \in Word(Peer(s), heard[s] + 1)
  <2>1. PICK kinds : Arrives(s, kinds) /\ kinds \in SUBSET {"data", "request", "ok", "fail"}
    BY <1>1
  <2>2. Msg("CLOSE")[1] \notin kinds
    BY <2>1 DEF Msg
  <2> QED BY <2>1, <2>2, <1>0, ArrivingIs
<1>3. heard[s] \in Nat /\ heard[s] + 1 \in Nat /\ told[Peer(s)] \in Nat /\ heard[s] + 1 <= told[Peer(s)]
  BY <1>0, <1>2, ToldTyped, HeardTyped, Peers
<1>4. phase[s] \notin {"opening", "unopened", "waiting"}
  BY <1>0 DEF ChannelSide
<1>5. CASE s = "getter"
  <2>1. /\ Arriving(s)[1] \in {"ok", "fail", "data"}
        /\ (Arriving(s)[1] \in {"ok", "fail"} <=> heard[s] + 1 = 1)
        /\ (Arriving(s)[1] = "data" => Arriving(s) = Packet((heard[s] + 1) - 1))
    BY <1>2, <1>3, <1>5, WordKinds, Peers
  <2>2. told["giver"] >= 1 /\ told["giver"] \in Nat
    BY <1>3, <1>5, Peers
  <2>3. phase["giver"] \in {"linked", "failed"} /\ told["getter"] >= 2
    <3>1. phase["giver"] # "waiting"
      BY <2>2, <1>0, ToldTyped, Peers DEF Control, ChannelSide
    <3>2. phase["giver"] \in {"linked", "failed"}
      BY <3>1, <2>2, <1>0 DEF GiverSide
    <3>3. heard["giver"] >= 2 /\ heard["giver"] <= told["getter"]
      BY <3>2, <1>0, HeardTyped, Peers DEF GiverSide
    <3> QED BY <3>2, <3>3, <1>0, Numbers, Peers
  <2>4. phase[s] \notin {"auth", "request"}
    BY <2>3, <1>0, <1>5 DEF GetterSide
  <2>5. phase[s] # "awaiting"
    <3>1. phase[s] = "awaiting" => heard[s] = 0
      BY <1>0, <1>5 DEF GetterSide
    <3> QED BY <3>1, <2>1, <1>1
  <2>6. phase[s] = "linked" => Arriving(s) = Packet(heard[s])
    <3>1. phase[s] = "linked" => heard[s] >= 1
      BY <1>0, <1>5 DEF GetterSide
    <3>2. (heard[s] + 1) - 1 = heard[s]
      BY <1>3
    <3> QED BY <3>1, <3>2, <2>1, <1>3
  <2> QED BY <2>4, <2>5, <2>6, <1>0, <1>2, <1>4, <1>5 DEF GetterSide
<1>6. CASE s = "giver"
  <2>1. /\ Arriving(s)[1] \in {"OPEN", "request", "data"}
        /\ (Arriving(s)[1] = "request" <=> heard[s] + 1 = 2)
        /\ (Arriving(s)[1] = "data" => Arriving(s) = Packet(heard[s] + 1))
    BY <1>2, <1>3, <1>6, WordKinds, Peers
  <2>2. phase[s] # "endpoint"
    <3>1. phase[s] = "endpoint" => heard[s] = 1
      BY <1>0, <1>6 DEF GiverSide
    <3> QED BY <3>1, <2>1, <1>1
  <2>3. phase[s] # "connecting"
    <3> SUFFICES ASSUME phase["giver"] = "connecting" PROVE FALSE
      BY <1>6
    <3>1. heard["giver"] >= 2 /\ told["giver"] = 0
      BY <1>0 DEF GiverSide
    <3>2. told["getter"] > 2 /\ told["getter"] \in Nat
      BY <3>1, <1>3, <1>6, Peers
    <3>3. phase["getter"] = "linked"
      <4>1. phase["getter"] \notin {"opening", "unopened"}
        BY <3>2, <1>0, ToldTyped, Peers DEF Control, ChannelSide
      <4> QED BY <4>1, <3>2, <1>0 DEF GetterSide
    <3>4. Succeeded
      BY <3>3, <1>0 DEF GetterSide
    <3> QED BY <3>1, <3>4 DEF Succeeded
  <2>4. phase[s] = "linked" => Arriving(s) = Packet(heard[s] + 1)
    <3>1. phase[s] = "linked" => heard[s] >= 2
      BY <1>0, <1>6 DEF GiverSide
    <3> QED BY <3>1, <2>1, <1>1, <1>3
  <2> QED BY <2>2, <2>3, <2>4, <1>0, <1>2, <1>4, <1>6 DEF GiverSide
<1> QED BY <1>5, <1>6 DEF Sides

LEMMA ReceiveStep ==
  ASSUME StreamInv, NEW s \in Sides, Receive(s)
  PROVE  StreamInv'
<1>0. /\ TypeOK /\ Control /\ Content /\ SentTyped /\ Spoken /\ ChannelSide(s) /\ SocketSide(s)
      /\ GiverSide /\ GetterSide
  BY TypedSent DEF StreamInv, Control, Content
<1>1. /\ channel[s] \in {"OPEN", "CLOSING"}
      /\ UNCHANGED <<client, host, phase, stopping, failing, tcp, gone, left, arrived,
                 wants, paused, overflow, fromSocket, channel, sent, up>>
      /\ \/ phase[s] = "linked" /\ Write(s, <<Arriving(s)>>) /\ UNCHANGED inbox
         \/ /\ phase[s] # "linked" /\ inbox' = [inbox EXCEPT ![s] = Append(inbox[s], Arriving(s))]
            /\ UNCHANGED toSocket
  BY DEF Receive, Set, socketVars, flowVars
<1>2. /\ s \notin heardAll /\ got[s] < told[Peer(s)] /\ heard[s] = got[s]
      /\ got' = [got EXCEPT ![s] = got[s] + 1] /\ Arriving(s) \in Message
      /\ phase[s] \in {"linked", "responding", "failed", "refused"}
      /\ phase[s] = "linked" =>
           Arriving(s) = Packet(IF s = "getter" THEN heard[s] ELSE heard[s] + 1)
  BY ReceiveIs
<1>3. Grew /\ told' = told /\ ended' = ended /\ Spoken' /\ (Succeeded' <=> Succeeded)
      /\ queued' = queued
  BY <1>0, <1>1, SameSent, SameDerived
<1>4. heard' = [heard EXCEPT ![s] = heard[s] + 1] /\ heardAll' = heardAll /\ SentTyped'
  BY <1>0, <1>2, <1>3, HeardWord
<1>5. /\ heard[s] \in Nat /\ told[Peer(s)] \in Nat /\ heard'[s] = heard[s] + 1
      /\ heard'[s] <= told[Peer(s)] /\ heard'[Peer(s)] = heard[Peer(s)]
      /\ got'[s] = got[s] + 1 /\ got'[Peer(s)] = got[Peer(s)]
      /\ written[s] \in Nat
  <2>1. /\ heard \in [Sides -> Nat] /\ told \in [Sides -> Nat] /\ written \in [Sides -> Nat]
        /\ got \in [Sides -> Nat] /\ Peer(s) \in Sides /\ Peer(s) # s
    BY <1>0, Numbers, Peers DEF SentTyped
  <2>2. /\ heard'[s] = heard[s] + 1 /\ heard'[Peer(s)] = heard[Peer(s)]
        /\ got'[s] = got[s] + 1 /\ got'[Peer(s)] = got[Peer(s)]
    BY <2>1, <1>2, <1>4
  <2>3. heard[s] \in Nat /\ told[Peer(s)] \in Nat /\ written[s] \in Nat
    BY <2>1
  <2> QED BY <2>2, <2>3, <1>2
<1>6. /\ toSocket' \in [Sides -> Seq(Message)] /\ toSocket'[Peer(s)] = toSocket[Peer(s)]
      /\ written'[Peer(s)] = written[Peer(s)]
      /\ \/ /\ phase[s] = "linked" /\ tcp[s] = "open" /\ written'[s] = written[s] + 1
            /\ \A i \in 1..written[s] : toSocket'[s][i] = toSocket[s][i]
            /\ toSocket'[s][written[s] + 1] = Arriving(s)
         \/ /\ phase[s] # "linked" \/ tcp[s] # "open"
            /\ written' = written /\ toSocket' = toSocket
  <2> DEFINE m == <<Arriving(s)>>
  <2>1. m \in Seq(Message) /\ Len(m) = 1 /\ m[1] = Arriving(s)
    BY <1>2, Single
  <2> HIDE DEF m
  <2>2. CASE phase[s] = "linked" /\ tcp[s] = "open" /\ Write(s, m)
    <3>1. /\ toSocket' \in [Sides -> Seq(Message)]
          /\ toSocket' = [toSocket EXCEPT ![s] = toSocket[s] \o m]
          /\ written' = [written EXCEPT ![s] = written[s] + Len(m)]
          /\ \A i \in 1..written[s] : toSocket'[s][i] = toSocket[s][i]
          /\ \A j \in 1..Len(m) : toSocket'[s][written[s] + j] = m[j]
      BY <2>1, <2>2, <1>0, WriteEffect
    <3>2. toSocket'[s][written[s] + 1] = Arriving(s)
      <4>1. 1 \in 1..Len(m)
        BY <2>1
      <4>2. toSocket'[s][written[s] + 1] = m[1]
        BY <3>1, <4>1, Zenon
      <4> QED BY <2>1, <4>2
    <3>3. written'[s] = written[s] + 1 /\ written'[Peer(s)] = written[Peer(s)]
      BY <2>1, <3>1, <1>0, Numbers, Peers
    <3>4. toSocket'[Peer(s)] = toSocket[Peer(s)]
      BY <3>1, <1>0, Peers DEF TypeOK
    <3> QED BY <2>2, <3>1, <3>2, <3>3, <3>4
  <2>3. CASE phase[s] = "linked" /\ tcp[s] # "open" /\ Write(s, m)
    BY <2>3, <2>1, <1>0, WriteEffect
  <2>4. CASE phase[s] # "linked" /\ UNCHANGED toSocket
    BY <2>4, <1>0, SameDerived DEF TypeOK
  <2> QED BY <1>1, <2>2, <2>3, <2>4 DEF m
<1>7. /\ inbox' \in [Sides -> Seq(Message)] /\ inbox'[Peer(s)] = inbox[Peer(s)]
      /\ phase[s] = "linked" => inbox' = inbox
  <2>1. inbox \in [Sides -> Seq(Message)] /\ inbox[s] \in Seq(Message)
    BY <1>0 DEF TypeOK
  <2>2. Append(inbox[s], Arriving(s)) \in Seq(Message)
    BY <2>1, <1>2
  <2> QED BY <2>1, <2>2, <1>1, Peers
<1>8. TypeOK'
  BY <1>0, <1>1, <1>4, <1>6, <1>7 DEF TypeOK, SentTyped
<1>9. (\A t \in Sides : ChannelSide(t) /\ SocketSide(t))'
  <2>1. ChannelSide(s)'
    BY <1>0, <1>1, <1>2, <1>3, <1>4 DEF ChannelSide, Started
  <2>2. SocketSide(s)'
    BY <1>0, <1>1 DEF SocketSide
  <2>3. SideSame(Peer(s))
    BY <1>1, <1>3, <1>4, <1>5 DEF SideSame
  <2> QED BY <2>1, <2>2, <2>3, <1>0, BothSides
<1>10. AllSame(Peer(s))
  BY <1>1, <1>3, <1>4, <1>5, <1>6, <1>7 DEF SideSame, AllSame
<1>11. GetterSide' /\ GiverSide'
  <2>1. CASE s = "getter"
    <3>1. GiverSide'
      BY <2>1, <1>0, <1>1, <1>3, <1>10, GiverStays, Peers
    <3>2. phase["getter"] \in {"linked", "responding", "failed"}
      BY <2>1, <1>0, <1>2 DEF GetterSide
    <3>3. GetterSide'
      BY <2>1, <3>2, <1>0, <1>1, <1>3, <1>5, <1>7 DEF GetterSide
    <3> QED BY <3>1, <3>3
  <2>2. CASE s = "giver"
    <3>1. GetterSide'
      BY <2>2, <1>0, <1>3, <1>10, GetterStays, Peers
    <3>2. phase["giver"] \in {"linked", "refused", "failed"}
      BY <2>2, <1>0, <1>2 DEF GiverSide
    <3>3. got["giver"] \in Nat
      BY <1>0, Peers DEF SentTyped
    <3>4. phase["giver"] # "linked" => toSocket'["giver"] = toSocket["giver"]
      BY <2>2, <1>6
    <3>5. GiverSide'
      BY <2>2, <3>2, <3>3, <3>4, <1>0, <1>1, <1>3, <1>5, <1>7 DEF GiverSide
    <3> QED BY <3>1, <3>5
  <2> QED BY <2>1, <2>2 DEF Sides
<1>12. phase[s] = "linked" /\ tcp[s] = "open" =>
         written[s] = (IF s = "getter" THEN heard[s] + 1 ELSE heard[s] - 2)
  BY <1>0 DEF Control, Written, Sides
<1>13. phase[s] = "linked" /\ Kept(s) => tcp[s] = "open"
  <2> SUFFICES ASSUME phase[s] = "linked", Kept(s) PROVE tcp[s] = "open"
    OBVIOUS
  <2>1. channel[s] = "OPEN"
    BY <1>0, <1>1 DEF Control, QuitsOnce
  <2>2. ~stopping[s] /\ ~left[s]
    BY <2>1, <1>0 DEF ChannelSide, Kept
  <2> QED BY <2>2, <1>0 DEF SocketSide
<1>14. Covered' /\ Written'
  <2>1. CASE s = "getter"
    <3>1. /\ phase' = phase /\ tcp' = tcp /\ arrived' = arrived /\ told' = told
          /\ \A t \in Sides : Kept(t)' <=> Kept(t)
      BY <1>1, <1>3 DEF Kept
    <3>2. heard'["giver"] = heard["giver"] /\ written'["giver"] = written["giver"]
      BY <2>1, <1>5, <1>6, Peers
    <3>3. phase["getter"] = "linked" /\ (tcp["getter"] = "open" \/ Kept("getter")) =>
            /\ written'["getter"] = heard'["getter"] + 1 /\ written'["getter"] <= told["giver"] + 1
      BY <2>1, <1>5, <1>6, <1>12, <1>13, Peers
    <3>4. phase["getter"] = "linked" /\ tcp["getter"] # "open" => written'["getter"] = written["getter"]
      BY <2>1, <1>6
    <3>5. Covered'
      BY <3>1, <3>2, <3>3, <3>4, <1>0 DEF Control, Covered
    <3>6. Written'
      BY <3>1, <3>2, <3>3, <1>0, Peers DEF Control, Written
    <3> QED BY <3>5, <3>6
  <2>2. CASE s = "giver"
    <3>1. /\ phase' = phase /\ tcp' = tcp /\ arrived' = arrived /\ told' = told
          /\ \A t \in Sides : Kept(t)' <=> Kept(t)
      BY <1>1, <1>3 DEF Kept
    <3>2. heard'["getter"] = heard["getter"] /\ written'["getter"] = written["getter"]
      BY <2>2, <1>5, <1>6, Peers
    <3>3. phase["giver"] = "linked" /\ (tcp["giver"] = "open" \/ Kept("giver")) =>
            /\ written'["giver"] = heard'["giver"] - 2 /\ written'["giver"] + 2 <= told["getter"]
      BY <2>2, <1>5, <1>6, <1>12, <1>13, Peers
    <3>4. phase["giver"] # "linked" \/ tcp["giver"] # "open" => written'["giver"] = written["giver"]
      BY <2>2, <1>6
    <3>5. Covered'
      BY <3>1, <3>2, <3>3, <3>4, <1>0 DEF Control, Covered
    <3>6. Written'
      BY <3>1, <3>2, <3>3, <1>0, Peers DEF Control, Written
    <3> QED BY <3>5, <3>6
  <2> QED BY <2>1, <2>2 DEF Sides
<1>15. QuitsOnce' /\ SaidAll'
  BY <1>0, <1>1, <1>3, Peers DEF Control, QuitsOnce, SaidAll, Kept
<1>16. AnsweredBeforeClose'
  <2>1. Len(toSocket["getter"]) >= 2 => Len(toSocket'["getter"]) >= 2
    <3>1. written["getter"] = Len(toSocket["getter"]) /\ written'["getter"] = Len(toSocket'["getter"])
          /\ written["getter"] \in Nat
      BY <1>0, Numbers, Peers DEF written
    <3>2. written'["getter"] = written["getter"] \/ written'["getter"] = written["getter"] + 1
      BY <1>6, Peers
    <3> QED BY <3>1, <3>2
  <2> QED BY <2>1, <1>0, <1>1 DEF Control, AnsweredBeforeClose
<1>17. Content'
  <2>1. Queued'
    BY <1>0, <1>1, <1>3 DEF Content, Queued, QueueFrom
  <2>2. GiverWrote'
    <3>1. CASE toSocket'["giver"] = toSocket["giver"] /\ written'["giver"] = written["giver"]
      BY <3>1, <1>0 DEF Content, GiverWrote
    <3>2. CASE /\ s = "giver" /\ phase[s] = "linked" /\ tcp[s] = "open"
               /\ written'[s] = written[s] + 1
               /\ \A i \in 1..written[s] : toSocket'[s][i] = toSocket[s][i]
               /\ toSocket'[s][written[s] + 1] = Arriving(s)
      <4>1. Arriving(s) = Packet(heard[s] + 1) /\ heard[s] + 1 = (written[s] + 1) + 2
        BY <3>2, <1>2, <1>5, <1>12
      <4>2. Arriving(s) = Packet((written[s] + 1) + 2)
        BY <4>1
      <4> QED BY <4>2, <3>2, <1>0, <1>5 DEF Content, GiverWrote
    <3> QED BY <1>6, <3>1, <3>2, Peers
  <2>3. GetterWrote'
    <3>1. CASE toSocket'["getter"] = toSocket["getter"] /\ written'["getter"] = written["getter"]
      BY <3>1, <1>0, <1>1 DEF Content, GetterWrote, Answer
    <3>2. CASE /\ s = "getter" /\ phase[s] = "linked" /\ tcp[s] = "open"
               /\ written'[s] = written[s] + 1
               /\ \A i \in 1..written[s] : toSocket'[s][i] = toSocket[s][i]
               /\ toSocket'[s][written[s] + 1] = Arriving(s)
      <4>1. heard[s] >= 1 /\ written[s] = heard[s] + 1
        BY <3>2, <1>0, <1>12 DEF GetterSide
      <4>2. Arriving(s) = Packet(heard[s]) /\ heard[s] = (written[s] + 1) - 2
            /\ written[s] + 1 # 1 /\ written[s] + 1 # 2
        BY <4>1, <3>2, <1>2, <1>5
      <4>3. Arriving(s) = Answer(written[s] + 1)
        BY <4>2 DEF Answer
      <4>4. written[s] >= 2 /\ Len(toSocket["getter"]) >= 2
        BY <4>1, <3>2, <1>5, Peers DEF written
      <4>5. toSocket["getter"] \notin {<<>>, <<Msg("auth")>>}
        <5> SUFFICES ASSUME toSocket["getter"] \in {<<>>, <<Msg("auth")>>} PROVE FALSE
          OBVIOUS
        <5>1. ~(Len(toSocket["getter"]) >= 2)
          BY Short
        <5> QED BY <4>4, <5>1
      <4>6. \A j \in 1..written["getter"] : toSocket["getter"][j] = Answer(j)
        BY <4>5, <3>2, <1>0 DEF Content, GetterWrote
      <4>7. \A j \in 1..written'["getter"] : toSocket'["getter"][j] = Answer(j)
        BY <4>3, <4>6, <3>2, <1>5
      <4>8. written'["getter"] >= 2
        BY <4>4, <3>2, <1>5
      <4> QED BY <4>7, <4>8, <3>2, <1>1 DEF GetterWrote, Answer
    <3> QED BY <1>6, <3>1, <3>2, Peers
  <2> QED BY <2>1, <2>2, <2>3, <1>3 DEF Content
<1> QED BY <1>8, <1>9, <1>11, <1>14, <1>15, <1>16, <1>17 DEF Control, StreamInv

-----------------------------------------------------------------------------
(* The steps of the handshakes *)

\* Initially nothing has been said.
LEMMA StreamInit == Init => StreamInv
<1> SUFFICES ASSUME Init PROVE StreamInv
  OBVIOUS
<1> USE Peers
<1>0. /\ \A s \in Sides : sent[s] = <<>> /\ toSocket[s] = <<>> /\ fromSocket[s] = <<>> /\ inbox[s] = <<>>
      /\ \A s \in Sides : got[s] = 0 /\ arrived[s] = 0 /\ channel[s] = "POOLED" /\ ~stopping[s]
                          /\ ~left[s] /\ ~gone[s]
      /\ phase["getter"] = "opening" /\ phase["giver"] = "waiting"
      /\ tcp["getter"] = "open" /\ tcp["giver"] = "none" /\ up /\ ~failing
  BY DEF Init
<1>1. <<>> \in Seq(Message) /\ <<>> \in Seq(Packets) /\ Len(<<>>) = 0 /\ ~Ending(<<>>)
  BY DEF Ending
<1>2. TypeOK
  <2>1. /\ phase \in [Sides -> Phases]
        /\ tcp \in [Sides -> {"none", "connecting", "open", "closing", "closed"}]
        /\ stopping \in [Sides -> BOOLEAN] /\ failing \in BOOLEAN /\ up \in BOOLEAN
    BY DEF Init, Phases
  <2>2. /\ gone \in [Sides -> BOOLEAN] /\ left \in [Sides -> BOOLEAN]
        /\ wants \in [Sides -> {"run", "pause"}] /\ paused \in [Sides -> BOOLEAN]
        /\ overflow \in [Sides -> BOOLEAN]
        /\ channel \in [Sides -> {"POOLED", "OPEN", "CLOSING", "DRAINING", "CLOSED", "DEAD"}]
    BY DEF Init
  <2>3. arrived \in [Sides -> 0..(MaxData + 2)] /\ got \in [Sides -> Nat]
    BY SessionAssumption DEF Init
  <2>4. /\ fromSocket \in [Sides -> Seq(Packets)] /\ toSocket \in [Sides -> Seq(Message)]
        /\ sent \in [Sides -> Seq(Message)] /\ inbox \in [Sides -> Seq(Message)]
    BY <1>1 DEF Init
  <2>5. \A s \in Sides : got[s] <= Len(sent[Peer(s)])
    BY <1>0, <1>1
  <2>6. client \in Clients /\ host \in Hosts
    BY DEF Init
  <2> QED BY <2>1, <2>2, <2>3, <2>4, <2>5, <2>6 DEF TypeOK
<1>3. /\ \A s \in Sides : told[s] = 0 /\ heard[s] = 0 /\ written[s] = 0 /\ queued[s] = 0
      /\ ended = {} /\ heardAll = {}
  <2>1. \A s \in Sides : told[s] = 0 /\ written[s] = 0 /\ queued[s] = 0
    BY <1>0, <1>1 DEF told, written, queued, Words
  <2>2. ended = {}
    BY <1>0, <1>1 DEF ended
  <2>3. \A s \in Sides : heard[s] = 0
    BY <2>1, <1>0 DEF heard
  <2>4. heardAll = {}
    BY <2>1, <1>0 DEF heardAll
  <2> QED BY <2>1, <2>2, <2>3, <2>4
<1>4. ~Succeeded
  BY <1>3 DEF Succeeded
<1>5. \A s \in Sides : ChannelSide(s) /\ SocketSide(s)
  BY <1>0, <1>3 DEF ChannelSide, SocketSide, Started, Sides
<1>6. GetterSide /\ GiverSide
  BY <1>0, <1>3, <1>4 DEF GetterSide, GiverSide
<1>7. Covered /\ QuitsOnce /\ SaidAll /\ Written /\ AnsweredBeforeClose
  BY <1>0, <1>3 DEF Covered, QuitsOnce, SaidAll, Written, AnsweredBeforeClose, Sides
<1>8. Content
  BY <1>0, <1>3 DEF Content, Spoken, Queued, QueueFrom, GiverWrote, GetterWrote, Sides
<1> QED BY <1>2, <1>5, <1>6, <1>7, <1>8 DEF Control, StreamInv

\* The getter's queue without its first packet.
LEMMA TakeStep ==
  ASSUME TypeOK, fromSocket["getter"] # <<>>, NEW k \in {0, 1},
         fromSocket' = [fromSocket EXCEPT !["getter"] = Tail(fromSocket["getter"])],
         arrived' = arrived
  PROVE  /\ fromSocket' \in [Sides -> Seq(Packets)] /\ fromSocket'["giver"] = fromSocket["giver"]
         /\ queued'["giver"] = queued["giver"]
         /\ QueueFrom("getter", k) => QueueFrom("getter", k + 1)'
<1>1. fromSocket["getter"] \in Seq(Packets) /\ fromSocket \in [Sides -> Seq(Packets)]
  BY Peers DEF TypeOK
<1>2. /\ Tail(fromSocket["getter"]) \in Seq(Packets)
      /\ Len(Tail(fromSocket["getter"])) = Len(fromSocket["getter"]) - 1
      /\ \A i \in 1..Len(Tail(fromSocket["getter"])) : Tail(fromSocket["getter"])[i] = fromSocket["getter"][i + 1]
  BY <1>1
<1>3. fromSocket' \in [Sides -> Seq(Packets)] /\ fromSocket'["giver"] = fromSocket["giver"]
      /\ fromSocket'["getter"] = Tail(fromSocket["getter"])
  BY <1>1, <1>2, Peers
<1>4. queued["getter"] = Len(fromSocket["getter"]) /\ queued'["getter"] = Len(fromSocket'["getter"])
      /\ queued'["giver"] = queued["giver"]
  BY <1>3, Peers DEF queued
<1>5. queued["getter"] \in Nat /\ arrived["getter"] \in Nat
  BY Numbers, Peers
<1>6. ASSUME QueueFrom("getter", k) PROVE QueueFrom("getter", k + 1)'
  <2>1. queued'["getter"] = queued["getter"] - 1
    BY <1>2, <1>3, <1>4
  <2>2. queued["getter"] = arrived["getter"] - k /\ \A i \in 1..queued["getter"] : fromSocket["getter"][i] = i + k
    BY <1>6 DEF QueueFrom
  <2>3. \A i \in 1..queued'["getter"] : fromSocket'["getter"][i] = i + (k + 1)
    BY <2>1, <2>2, <1>2, <1>3, <1>4, <1>5
  <2>4. queued'["getter"] = arrived'["getter"] - (k + 1)
    BY <2>1, <2>2, <1>5
  <2> QED BY <2>3, <2>4 DEF QueueFrom
<1> QED BY <1>3, <1>4, <1>6

LEMMA Joined ==
  ASSUME NEW p \in Seq(Message), NEW r \in Seq(Message)
  PROVE  /\ p \o r \in Seq(Message) /\ Len(p \o r) = Len(p) + Len(r)
         /\ \A i \in 1..Len(p) : (p \o r)[i] = p[i]
         /\ \A i \in 1..Len(r) : (p \o r)[Len(p) + i] = r[i]
OBVIOUS

LEMMA Greeting ==
  /\ Msg("auth") \in Message /\ Msg("ok") \in Message /\ Msg("fail") \in Message
  /\ <<>> \o <<Msg("auth")>> = <<Msg("auth")>>
  /\ \A m \in Message : <<Msg("auth")>> \o <<m>> = <<Msg("auth"), m>>
<1>1. Msg("auth") \in Message /\ Msg("ok") \in Message /\ Msg("fail") \in Message
  BY DEF Message
<1>2. ASSUME NEW a \in Message, NEW m \in Message PROVE <<a>> \o <<m>> = <<a, m>>
  <2> DEFINE p == <<a>>
             r == <<m>>
             q == p \o r
             w == <<a, m>>
  <2>1. /\ p \in Seq(Message) /\ Len(p) = 1 /\ p[1] = a
        /\ r \in Seq(Message) /\ Len(r) = 1 /\ r[1] = m
    OBVIOUS
  <2>2. w \in Seq(Message) /\ Len(w) = 2 /\ w[1] = a /\ w[2] = m
    OBVIOUS
  <2> HIDE DEF p, r, w
  <2>3. q \in Seq(Message) /\ Len(q) = 2 /\ q[1] = a /\ q[2] = m
    <3>1. /\ q \in Seq(Message) /\ Len(q) = Len(p) + Len(r)
          /\ \A i \in 1..Len(p) : q[i] = p[i]
          /\ \A i \in 1..Len(r) : q[Len(p) + i] = r[i]
      BY <2>1, Joined
    <3> HIDE DEF q
    <3>2. 1 \in 1..Len(p) /\ 1 \in 1..Len(r) /\ Len(p) + 1 = 2
      BY <2>1
    <3> QED BY <3>1, <3>2, <2>1
  <2> HIDE DEF q
  <2>4. \A i \in 1..2 : i = 1 \/ i = 2
    OBVIOUS
  <2>5. DOMAIN q = 1..2 /\ DOMAIN w = 1..2
    BY <2>2, <2>3
  <2>6. q = [i \in 1..2 |-> q[i]] /\ w = [i \in 1..2 |-> w[i]]
    BY <2>2, <2>3, <2>5
  <2>7. \A i \in 1..2 : q[i] = w[i]
    BY <2>2, <2>3, <2>4
  <2>8. q = w
    BY <2>6, <2>7
  <2> QED BY <2>8 DEF q, p, r, w
<1>3. \A m \in Message : <<Msg("auth")>> \o <<m>> = <<Msg("auth"), m>>
  BY <1>1, <1>2
<1>4. ASSUME NEW a \in Message PROVE <<>> \o <<a>> = <<a>>
  OBVIOUS
<1> QED BY <1>1, <1>3, <1>4

\* The greeting is answered.
LEMMA GreetedStep ==
  ASSUME StreamInv, phase["getter"] = "auth", fromSocket["getter"] # <<>>,
         phase' = Set(phase, "getter", "request"), Write("getter", <<Msg("auth")>>),
         fromSocket' = Set(fromSocket, "getter", Tail(fromSocket["getter"])),
         UNCHANGED <<stopping, tcp, channel, sent, client, host, failing, gone, socketVars, flowVars,
                     got, inbox, up>>
  PROVE  StreamInv'
<1>0. /\ TypeOK /\ Control /\ Content /\ SentTyped /\ ChannelSide("getter") /\ SocketSide("getter")
      /\ GetterSide /\ GiverSide
  BY TypedSent, Peers DEF Control, StreamInv
<1>1. phase' = [phase EXCEPT !["getter"] = "request"] /\ phase'["getter"] = "request"
      /\ phase'["giver"] = phase["giver"]
  BY <1>0, Peers DEF Set, TypeOK
<1>2. toSocket["getter"] = <<>> /\ told["getter"] = 1 /\ heard["getter"] = 0 /\ inbox["getter"] = <<>>
  BY <1>0 DEF GetterSide
<1>3. /\ toSocket' \in [Sides -> Seq(Message)]
      /\ toSocket'["giver"] = toSocket["giver"]
      /\ toSocket'["getter"] \in {<<>>, <<Msg("auth")>>}
      /\ tcp["getter"] = "open" => toSocket'["getter"] = <<Msg("auth")>>
      /\ written'["giver"] = written["giver"]
  <2>1. <<Msg("auth")>> \in Seq(Message)
    BY Greeting, Single
  <2>2. toSocket' \in [Sides -> Seq(Message)]
    BY <2>1, <1>0, WriteEffect, Peers
  <2>3. /\ toSocket'["giver"] = toSocket["giver"] /\ toSocket'["getter"] \in {<<>>, <<Msg("auth")>>}
        /\ tcp["getter"] = "open" => toSocket'["getter"] = <<Msg("auth")>>
    BY <1>0, <1>2, Greeting, Peers DEF Write, Set, TypeOK
  <2> QED BY <2>2, <2>3, Peers DEF written
<1>4. /\ heard' = heard /\ heardAll' = heardAll /\ told' = told /\ ended' = ended
      /\ (Succeeded' <=> Succeeded)
  BY SameDerived
<1>5. /\ fromSocket' \in [Sides -> Seq(Packets)] /\ fromSocket'["giver"] = fromSocket["giver"]
      /\ queued'["giver"] = queued["giver"]
      /\ QueueFrom("getter", 0) => QueueFrom("getter", 1)'
  BY <1>0, TakeStep DEF Set, socketVars
<1>6. TypeOK'
  <2>1. phase' \in [Sides -> Phases]
    <3>1. phase \in [Sides -> Phases] /\ "request" \in Phases
      BY <1>0 DEF TypeOK, Phases
    <3> QED BY <3>1, <1>1, Peers
  <2> QED BY <2>1, <1>0, <1>3, <1>5 DEF TypeOK, flowVars, socketVars
<1>7. (\A s \in Sides : ChannelSide(s) /\ SocketSide(s))'
  <2>1. ChannelSide("getter")'
    BY <1>0, <1>1, <1>4 DEF ChannelSide, Started
  <2>2. SocketSide("getter")'
    BY <1>0, <1>1 DEF SocketSide, socketVars
  <2>3. SideSame("giver")
    BY <1>1, <1>4 DEF SideSame, socketVars
  <2> QED BY <2>1, <2>2, <2>3, <1>0, BothSides, Peers
<1>8. GetterSide'
  BY <1>0, <1>1, <1>2, <1>3, <1>4 DEF GetterSide
<1>9. GiverSide'
  <2>1. AllSame("giver")
    BY <1>1, <1>3, <1>4 DEF SideSame, AllSame, socketVars
  <2> QED BY <2>1, <1>0, <1>4, GiverStays
<1>10. Covered' /\ Written'
  BY <1>0, <1>1, <1>3, <1>4 DEF Control, Covered, Written, Kept, socketVars
<1>11. QuitsOnce' /\ SaidAll'
  BY <1>0, <1>1, <1>4, Peers DEF Control, QuitsOnce, SaidAll, Kept, socketVars, Sides
<1>12. AnsweredBeforeClose'
  <2>1. tcp["getter"] = "closing" => toSocket'["getter"] = toSocket["getter"]
    BY Peers DEF Write, Set
  <2> QED BY <2>1, <1>0, <1>1 DEF Control, AnsweredBeforeClose
<1>13. Content'
  <2>1. Spoken'
    BY <1>0, SameSent DEF Content
  <2>2. Queued'
    BY <1>0, <1>1, <1>5 DEF Content, Queued, QueueFrom, socketVars
  <2>3. GiverWrote' /\ GetterWrote'
    BY <1>0, <1>1, <1>3 DEF Content, GiverWrote, GetterWrote
  <2> QED BY <2>1, <2>2, <2>3 DEF Content
<1> QED BY <1>6, <1>7, <1>8, <1>9, <1>10, <1>11, <1>12, <1>13 DEF Control, StreamInv

\* What is heard of an answer that arrives, or of none.
LEMMA AnswerHeard ==
  ASSUME SentTyped, Grew,
         \/ got' = got
         \/ got' = [got EXCEPT !["getter"] = got["getter"] + 1] /\ got["getter"] < told["giver"]
  PROVE  /\ heardAll' = heardAll /\ SentTyped' /\ heard'["giver"] = heard["giver"]
         /\ got'["giver"] = got["giver"]
<1>1. CASE got' = got
  BY <1>1, HeardStays
<1>2. CASE got' = [got EXCEPT !["getter"] = got["getter"] + 1] /\ got["getter"] < told["giver"]
  <2>1. heard' = [heard EXCEPT !["getter"] = heard["getter"] + 1] /\ heardAll' = heardAll /\ SentTyped'
    BY <1>2, HeardWord, Peers
  <2> QED BY <2>1, <1>2, HeardTyped, Peers DEF SentTyped
<1> QED BY <1>1, <1>2

\* A getter that has got as far as to speak of it stops, maybe upon an answer, maybe with a
\* reply to its client.
LEMMA GetterFailsStep ==
  ASSUME StreamInv, phase["getter"] \in {"auth", "request", "awaiting"},
         phase' = Set(phase, "getter", "failed"), GetterStop(<<>>), DropQueue("getter"),
         UNCHANGED <<client, host, failing, gone, socketVars, flowVars, inbox, up>>,
         \/ got' = got
         \/ got' = [got EXCEPT !["getter"] = got["getter"] + 1] /\ got["getter"] < told["giver"],
         \/ toSocket' = toSocket /\ (client = "badAuth" \/ NothingReceived)
         \/ Write("getter", <<Msg("fail")>>) /\ phase["getter"] # "auth"
  PROVE  StreamInv'
<1>0. /\ TypeOK /\ Control /\ Content /\ SentTyped /\ Spoken
      /\ ChannelSide("getter") /\ SocketSide("getter") /\ GetterSide /\ GiverSide
  BY TypedSent, Peers DEF Control, StreamInv, Content
<1>1. phase' = [phase EXCEPT !["getter"] = "failed"] /\ phase'["getter"] = "failed"
      /\ phase'["giver"] = phase["giver"]
  BY <1>0, Peers DEF Set, TypeOK
<1>2. SocketStops("getter") /\ ChannelStops("getter", 0)
  BY <1>0, StopQuietly, Peers DEF Stop
<1>3. /\ Grew /\ Spoken' /\ told' = told /\ sent'["giver"] = sent["giver"]
      /\ \/ channel["getter"] = "OPEN" /\ channel' = [channel EXCEPT !["getter"] = "CLOSING"]
            /\ ended' = ended \cup {"getter"}
         \/ channel["getter"] # "OPEN" /\ channel' = channel /\ ended' = ended
  <2>1. told["getter"] + 0 = told["getter"] /\ told \in [Sides -> Nat]
    BY <1>0, ToldTyped, Peers
  <2>2. [told EXCEPT !["getter"] = told["getter"] + 0] = told
    BY <2>1
  <2> QED BY <1>2, <2>2, Peers DEF ChannelStops
<1>4. /\ heardAll' = heardAll /\ SentTyped' /\ heard'["giver"] = heard["giver"]
      /\ got'["giver"] = got["giver"]
  BY <1>0, <1>3, AnswerHeard
<1>5. /\ stopping' \in [Sides -> BOOLEAN] /\ stopping'["getter"]
      /\ tcp' \in [Sides -> {"none", "connecting", "open", "closing", "closed"}]
      /\ tcp'["getter"] = IF tcp["getter"] = "open" THEN "closing" ELSE tcp["getter"]
      /\ tcp'["giver"] = tcp["giver"] /\ stopping'["giver"] = stopping["giver"]
  <2>1. tcp["getter"] # "connecting"
    BY <1>0 DEF GetterSide
  <2> QED BY <2>1, <1>0, <1>2, StopsTyped, Peers DEF SocketStops, TypeOK
<1>6. fromSocket' \in [Sides -> Seq(Packets)] /\ fromSocket'["giver"] = fromSocket["giver"]
      /\ queued'["giver"] = queued["giver"]
  BY <1>0, DroppedTyped, Peers DEF DropQueue, Set, queued
<1>7. /\ toSocket' \in [Sides -> Seq(Message)] /\ toSocket'["giver"] = toSocket["giver"]
      /\ toSocket'["getter"] \in {<<>>, <<Msg("auth")>>, <<Msg("auth"), Msg("fail")>>}
      /\ written'["giver"] = written["giver"]
      /\ \/ toSocket' = toSocket
         \/ tcp["getter"] = "open" /\ toSocket'["getter"] = <<Msg("auth"), Msg("fail")>>
  <2>1. toSocket["getter"] \in {<<>>, <<Msg("auth")>>}
    BY <1>0 DEF GetterSide
  <2>2. CASE toSocket' = toSocket
    BY <2>1, <2>2, <1>0 DEF TypeOK, written
  <2>3. CASE Write("getter", <<Msg("fail")>>) /\ phase["getter"] # "auth" /\ tcp["getter"] = "open"
    <3>1. <<Msg("fail")>> \in Seq(Message)
      BY Greeting, Single
    <3>2. toSocket' \in [Sides -> Seq(Message)]
      BY <3>1, <2>3, <1>0, WriteEffect, Peers
    <3>3. toSocket["getter"] = <<Msg("auth")>>
      BY <2>3, <1>0 DEF GetterSide
    <3>4. toSocket'["getter"] = <<Msg("auth"), Msg("fail")>> /\ toSocket'["giver"] = toSocket["giver"]
      BY <2>3, <3>3, <1>0, Greeting, Peers DEF Write, Set, TypeOK
    <3> QED BY <2>3, <3>2, <3>4, Peers DEF written
  <2>4. CASE Write("getter", <<Msg("fail")>>) /\ tcp["getter"] # "open"
    BY <2>2, <2>4 DEF Write
  <2> QED BY <2>2, <2>3, <2>4
<1>8. TypeOK'
  <2> DEFINE ChannelStates == {"POOLED", "OPEN", "CLOSING", "DRAINING", "CLOSED", "DEAD"}
  <2>1. channel' \in [Sides -> ChannelStates]
    <3>1. channel \in [Sides -> ChannelStates] /\ "CLOSING" \in ChannelStates
      BY <1>0 DEF TypeOK
    <3> QED BY <3>1, <1>3, Peers
  <2>2. phase' \in [Sides -> Phases]
    <3>1. phase \in [Sides -> Phases] /\ "failed" \in Phases
      BY <1>0 DEF TypeOK, Phases
    <3> QED BY <3>1, <1>1, Peers
  <2> QED BY <2>1, <2>2, <1>0, <1>4, <1>5, <1>6, <1>7 DEF TypeOK, SentTyped, flowVars, socketVars
<1>9. (\A s \in Sides : ChannelSide(s) /\ SocketSide(s))'
  <2>1. ChannelSide("getter")'
    <3>1. \/ channel["getter"] = "OPEN" /\ channel'["getter"] = "CLOSING" /\ "getter" \in ended'
          \/ channel["getter"] # "OPEN" /\ channel'["getter"] = channel["getter"] /\ ended' = ended
      BY <1>0, <1>3, Peers DEF TypeOK
    <3>2. channel["getter"] # "POOLED"
      BY <1>0 DEF ChannelSide, Started
    <3> QED BY <1>0, <1>1, <1>4, <1>5, <3>1, <3>2 DEF ChannelSide, Started
  <2>2. SocketSide("getter")'
    BY <1>0, <1>1, <1>2, SocketSideStops, Peers DEF socketVars
  <2>3. SideSame("giver")
    <3>1. channel'["giver"] = channel["giver"] /\ ("giver" \in ended' <=> "giver" \in ended)
      BY <1>0, <1>3, Peers DEF TypeOK
    <3> QED BY <3>1, <1>1, <1>3, <1>4, <1>5 DEF SideSame, socketVars
  <2> QED BY <2>1, <2>2, <2>3, <1>0, BothSides, Peers
<1>10. AllSame("giver")
  <2>1. channel'["giver"] = channel["giver"] /\ ("giver" \in ended' <=> "giver" \in ended)
    BY <1>0, <1>3, Peers DEF TypeOK
  <2> QED BY <2>1, <1>1, <1>3, <1>4, <1>5, <1>7 DEF SideSame, AllSame, socketVars
<1>11. GiverSide'
  <2>1. Succeeded' <=> Succeeded
    BY <1>0, <1>3, SameReply
  <2>2. "getter" \in ended => "getter" \in ended'
    BY <1>3
  <2> QED BY <2>1, <2>2, <1>0, <1>10, GiverStays
<1>12. GetterSide'
  <2>1. told["getter"] \in 1..2
    BY <1>0, Numbers, Peers DEF GetterSide
  <2> QED BY <2>1, <1>0, <1>1, <1>3, <1>5 DEF GetterSide
<1>13. Covered' /\ Written'
  BY <1>0, <1>1, <1>3, <1>5, <1>10 DEF Control, Covered, Written, Kept, AllSame, SideSame, socketVars
<1>14. QuitsOnce' /\ SaidAll'
  <2>1. channel'["giver"] = channel["giver"]
    BY <1>10 DEF AllSame, SideSame
  <2> QED BY <2>1, <1>0, <1>1, Peers DEF Control, QuitsOnce, SaidAll, Kept, Sides, socketVars
<1>15. AnsweredBeforeClose'
  <2> SUFFICES ASSUME tcp'["getter"] = "closing"
               PROVE  \/ Len(toSocket'["getter"]) >= 2
                      \/ client = "badAuth" \/ phase["giver"] = "refused" \/ ~up
    BY <1>1 DEF AnsweredBeforeClose
  <2>1. CASE toSocket' = toSocket /\ tcp["getter"] = "closing"
    BY <2>1, <1>0 DEF Control, AnsweredBeforeClose
  <2>2. CASE toSocket'["getter"] = <<Msg("auth"), Msg("fail")>>
    <3>1. Len(<<Msg("auth"), Msg("fail")>>) >= 2
      OBVIOUS
    <3> QED BY <2>2, <3>1
  <2>3. CASE tcp["getter"] = "open" /\ toSocket' = toSocket /\ toSocket'["getter"] # <<Msg("auth"), Msg("fail")>>
    <3>1. client = "badAuth" \/ NothingReceived
      <4>1. CASE Write("getter", <<Msg("fail")>>) /\ phase["getter"] # "auth"
        <5>1. toSocket["getter"] = <<Msg("auth")>>
          BY <2>3, <4>1, <1>0 DEF GetterSide
        <5>2. toSocket' = [toSocket EXCEPT !["getter"] = toSocket["getter"] \o <<Msg("fail")>>]
          BY <2>3, <4>1 DEF Write, Set
        <5>3. <<Msg("auth")>> \o <<Msg("fail")>> = <<Msg("auth"), Msg("fail")>>
          BY Greeting
        <5>4. toSocket'["getter"] = <<Msg("auth"), Msg("fail")>>
          BY <5>1, <5>2, <5>3, <1>0, Peers DEF TypeOK
        <5> QED BY <2>3, <5>4
      <4> QED BY <4>1
    <3>2. ~NothingReceived
      BY <2>3, <1>0 DEF NothingReceived, GetterSide
    <3> QED BY <3>1, <3>2
  <2> QED BY <2>1, <2>2, <2>3, <1>5, <1>7
<1>16. Content'
  <2>1. Queued'
    BY <1>0, <1>1, <1>5, <1>6 DEF Content, Queued, QueueFrom, socketVars
  <2>2. GiverWrote'
    BY <1>0, <1>7 DEF Content, GiverWrote
  <2>3. GetterWrote'
    BY <1>1, <1>7 DEF GetterWrote
  <2> QED BY <2>1, <2>2, <2>3, <1>3 DEF Content
<1> QED BY <1>8, <1>9, <1>11, <1>12, <1>13, <1>14, <1>15, <1>16 DEF Control, StreamInv

\* A getter is caught in its reply to a client that has left.
LEMMA GetterCaughtStep ==
  ASSUME StreamInv, phase["getter"] \in {"request", "awaiting"}, tcp["getter"] = "closed",
         phase' = Set(phase, "getter", "responding"),
         UNCHANGED <<stopping, tcp, channel, sent, fromSocket, toSocket, client, host, failing, gone,
                     socketVars, flowVars, inbox, up>>,
         \/ got' = got
         \/ got' = [got EXCEPT !["getter"] = got["getter"] + 1] /\ got["getter"] < told["giver"]
  PROVE  StreamInv'
<1>0. /\ TypeOK /\ Control /\ Content /\ SentTyped /\ Spoken
      /\ ChannelSide("getter") /\ SocketSide("getter") /\ GetterSide /\ GiverSide
  BY TypedSent, Peers DEF Control, StreamInv, Content
<1>1. phase' = [phase EXCEPT !["getter"] = "responding"] /\ phase'["getter"] = "responding"
      /\ phase'["giver"] = phase["giver"]
  BY <1>0, Peers DEF Set, TypeOK
<1>2. /\ Grew /\ Spoken' /\ told' = told /\ ended' = ended /\ (Succeeded' <=> Succeeded)
      /\ written' = written /\ queued' = queued
  BY <1>0, SameSent, SameDerived
<1>3. /\ heardAll' = heardAll /\ SentTyped' /\ heard'["giver"] = heard["giver"]
      /\ got'["giver"] = got["giver"]
  BY <1>0, <1>2, AnswerHeard
<1>4. TypeOK'
  <2>1. phase' \in [Sides -> Phases]
    <3>1. phase \in [Sides -> Phases] /\ "responding" \in Phases
      BY <1>0 DEF TypeOK, Phases
    <3> QED BY <3>1, <1>1, Peers
  <2> QED BY <2>1, <1>0, <1>3 DEF TypeOK, SentTyped, flowVars, socketVars
<1>5. (\A s \in Sides : ChannelSide(s) /\ SocketSide(s))'
  <2>1. ChannelSide("getter")'
    BY <1>0, <1>1, <1>2, <1>3 DEF ChannelSide, Started
  <2>2. SocketSide("getter")'
    BY <1>0, <1>1 DEF SocketSide, socketVars
  <2>3. SideSame("giver")
    BY <1>1, <1>2, <1>3 DEF SideSame, socketVars
  <2> QED BY <2>1, <2>2, <2>3, <1>0, BothSides, Peers
<1>6. AllSame("giver")
  BY <1>1, <1>2, <1>3 DEF SideSame, AllSame, socketVars
<1>7. GiverSide'
  BY <1>0, <1>2, <1>6, GiverStays
<1>8. GetterSide'
  <2>1. told["getter"] \in 1..2
    BY <1>0, Numbers, Peers DEF GetterSide
  <2> QED BY <2>1, <1>0, <1>1, <1>2 DEF GetterSide, socketVars
<1>9. Covered' /\ Written'
  BY <1>0, <1>1, <1>2, <1>3 DEF Control, Covered, Written, Kept, socketVars
<1>10. QuitsOnce' /\ SaidAll'
  BY <1>0, <1>1, <1>2, Peers DEF Control, QuitsOnce, SaidAll, Kept, socketVars, Sides
<1>11. AnsweredBeforeClose'
  BY DEF AnsweredBeforeClose
<1>12. Content'
  <2>1. Queued'
    BY <1>0, <1>1, <1>2 DEF Content, Queued, QueueFrom, socketVars
  <2>2. toSocket'["getter"] \in {<<>>, <<Msg("auth")>>}
    BY <1>0 DEF GetterSide
  <2>3. GiverWrote' /\ GetterWrote'
    BY <2>2, <1>0, <1>2 DEF Content, GiverWrote, GetterWrote
  <2> QED BY <2>1, <2>3, <1>2 DEF Content
<1> QED BY <1>4, <1>5, <1>7, <1>8, <1>9, <1>10, <1>11, <1>12 DEF Control, StreamInv

\* The greeting is answered, or was none.
LEMMA DoAuthHandshakeStep ==
  ASSUME StreamInv, DoAuthHandshake
  PROVE  StreamInv'
<1>1. CASE /\ fromSocket["getter"] # <<>>
           /\ phase' = Set(phase, "getter", "request")
           /\ Write("getter", <<Msg("auth")>>)
           /\ fromSocket' = Set(fromSocket, "getter", Tail(fromSocket["getter"]))
           /\ UNCHANGED <<stopping, tcp, channel, sent>>
  BY <1>1, GreetedStep DEF DoAuthHandshake
<1>2. CASE /\ client = "badAuth" \/ NothingReceived
           /\ phase' = Set(phase, "getter", "failed")
           /\ GetterStop(<<>>) /\ DropQueue("getter")
           /\ UNCHANGED toSocket
  <2>1. /\ phase["getter"] = "auth"
        /\ UNCHANGED <<client, host, failing, gone, socketVars, flowVars, got, inbox, up>>
    BY DEF DoAuthHandshake
  <2> QED BY <1>2, <2>1, GetterFailsStep
<1> QED BY <1>1, <1>2 DEF DoAuthHandshake

\* There is no request.
LEMMA NoRequestStep ==
  ASSUME StreamInv, NoRequest
  PROVE  StreamInv'
<1>1. /\ phase["getter"] = "request" /\ Reply("fail")
      /\ UNCHANGED <<client, host, failing, gone, socketVars, paused, got, up>>
  BY DEF NoRequest
<1>2. CASE tcp["getter"] = "closed"
  <2>1. /\ phase' = Set(phase, "getter", "responding")
        /\ UNCHANGED <<stopping, tcp, channel, sent, fromSocket, toSocket, inbox, flowVars>>
    BY <1>1, <1>2 DEF Reply, flowVars
  <2> QED BY <1>1, <1>2, <2>1, GetterCaughtStep
<1>3. CASE tcp["getter"] # "closed"
  <2>1. /\ phase' = Set(phase, "getter", "failed")
        /\ Write("getter", <<Msg("fail")>>)
        /\ GetterStop(<<>>) /\ DropQueue("getter")
        /\ UNCHANGED <<inbox, flowVars>>
    BY <1>1, <1>3 DEF Reply, flowVars
  <2> QED BY <1>1, <2>1, GetterFailsStep
<1> QED BY <1>2, <1>3

\* The packets of a socket that wait, as they are sent.
LEMMA BuffersAre ==
  ASSUME TypeOK, NEW s \in Sides
  PROVE  /\ Buffers(s) \in Seq(Message) /\ Len(Buffers(s)) = queued[s]
         /\ \A j \in 1..queued[s] : Buffers(s)[j] = Packet(fromSocket[s][j])
<1>1. fromSocket[s] \in Seq(Packets) /\ queued[s] = Len(fromSocket[s]) /\ Len(fromSocket[s]) \in Nat
  BY DEF TypeOK, queued
<1>2. \A j \in 1..Len(fromSocket[s]) : fromSocket[s][j] \in Packets
  BY <1>1
<1>3. \A j \in 1..Len(fromSocket[s]) : Packet(fromSocket[s][j]) \in Message
  BY <1>2, PacketIsMessage
<1>4. Buffers(s) = [j \in 1..Len(fromSocket[s]) |-> Packet(fromSocket[s][j])]
  BY DEF Buffers
<1> HIDE DEF Buffers
<1>5. Buffers(s) \in Seq(Message) /\ Len(Buffers(s)) = Len(fromSocket[s])
  BY <1>1, <1>3, <1>4
<1> QED BY <1>1, <1>4, <1>5

LEMMA NothingBefore ==
  ASSUME NEW q \in Seq(Message)
  PROVE  <<>> \o q = q
OBVIOUS

\* The getter that hears of success has an open socket and an open end of the channel, and
\* sends what has come from its client behind the request.
LEMMA GetterLinkIs ==
  ASSUME StreamInv, phase["getter"] = "awaiting", tcp["getter"] # "closed",
         channel["getter"] # "DEAD", "getter" \notin heardAll,
         Link("getter", <<>>, <<Msg("ok")>>)
  PROVE  /\ channel["getter"] = "OPEN" /\ tcp["getter"] = "open" /\ ~stopping["getter"]
         /\ "getter" \notin ended
         /\ UNCHANGED <<channel, tcp, stopping, inbox>>
         /\ Grew /\ Spoken' /\ ended' = ended
         /\ told' = [told EXCEPT !["getter"] = arrived["getter"]] /\ arrived["getter"] >= 2
         /\ sent'["giver"] = sent["giver"]
         /\ toSocket' = [toSocket EXCEPT !["getter"] = <<Msg("auth"), Msg("ok")>>]
         /\ fromSocket' = [fromSocket EXCEPT !["getter"] = <<>>]
<1>0. /\ TypeOK /\ Control /\ Content /\ SentTyped /\ Spoken
      /\ ChannelSide("getter") /\ SocketSide("getter") /\ GetterSide
  BY TypedSent, Peers DEF Control, StreamInv, Content
<1>1. tcp["getter"] \in {"open", "closing"} /\ told["getter"] = 2 /\ inbox["getter"] = <<>>
  BY <1>0 DEF GetterSide
<1>2. channel["getter"] = "OPEN"
  <2>1. channel["getter"] \in {"POOLED", "OPEN", "CLOSING", "DRAINING", "CLOSED", "DEAD"}
    BY <1>0, Peers DEF TypeOK
  <2> QED BY <2>1, <1>0 DEF ChannelSide, Started
<1>3. ~stopping["getter"] /\ "getter" \notin ended
  BY <1>0, <1>2 DEF ChannelSide
<1>4. tcp["getter"] = "open"
  BY <1>0, <1>1, <1>3 DEF SocketSide
<1>5. toSocket["getter"] = <<Msg("auth")>>
  BY <1>0, <1>4 DEF GetterSide
<1>6. tcp' = tcp /\ UNCHANGED <<channel, stopping>> /\ fromSocket' = [fromSocket EXCEPT !["getter"] = <<>>]
  BY <1>1 DEF Link, Set
<1>7. inbox' = inbox
  BY <1>0, <1>1 DEF Link, Set, TypeOK
<1>8. toSocket' = [toSocket EXCEPT !["getter"] = <<Msg("auth"), Msg("ok")>>]
  <2>1. <<Msg("ok")>> \o <<>> = <<Msg("ok")>> /\ <<Msg("auth")>> \o <<Msg("ok")>> = <<Msg("auth"), Msg("ok")>>
    BY Greeting, Single, NothingJoins
  <2>2. Write("getter", <<Msg("ok")>> \o <<>>)
    BY <1>1 DEF Link
  <2>3. toSocket' = Set(toSocket, "getter", <<Msg("auth")>> \o (<<Msg("ok")>> \o <<>>))
    BY <2>2, <1>4, <1>5 DEF Write
  <2> QED BY <2>1, <2>3 DEF Set
<1>9. /\ Buffers("getter") \in Seq(Message) /\ Len(Buffers("getter")) = queued["getter"]
      /\ \A j \in 1..queued["getter"] : Buffers("getter")[j] = Packet(fromSocket["getter"][j])
  BY <1>0, BuffersAre, Peers
<1>10. Post("getter", Buffers("getter"))
  <2>1. <<>> \o Buffers("getter") = Buffers("getter")
    BY <1>9, NothingBefore
  <2>2. Post("getter", Accepted("getter", <<>> \o Buffers("getter")))
    BY DEF Link
  <2>3. Accepted("getter", <<>> \o Buffers("getter")) = Buffers("getter")
    BY <2>1, <1>2 DEF Accepted
  <2> QED BY <2>2, <2>3
<1>11. queued["getter"] = arrived["getter"] - 2 /\ arrived["getter"] >= 2
       /\ \A j \in 1..queued["getter"] : fromSocket["getter"][j] = j + 2
  <2>1. QueueFrom("getter", 2)
    BY <1>0, <1>3 DEF Content, Queued
  <2>2. queued["getter"] \in Nat /\ arrived["getter"] \in Nat
    BY <1>0, Numbers, Peers
  <2> QED BY <2>1, <2>2 DEF QueueFrom
<1>12. \A j \in 1..Len(Buffers("getter")) : Buffers("getter")[j] \in Word("getter", told["getter"] + j)
  <2> SUFFICES ASSUME NEW j \in 1..queued["getter"]
               PROVE  Buffers("getter")[j] \in Word("getter", told["getter"] + j)
    BY <1>9
  <2>0. queued["getter"] \in Nat
    BY <1>0, Numbers, Peers
  <2>1. Buffers("getter")[j] = Packet(j + 2) /\ j \in Nat /\ j >= 1
    <3>1. fromSocket["getter"][j] = j + 2
      BY <1>11
    <3>2. Buffers("getter")[j] = Packet(fromSocket["getter"][j])
      BY <1>9
    <3> QED BY <3>1, <3>2, <2>0
  <2>2. told["getter"] + j = j + 2 /\ j + 2 # 1 /\ j + 2 # 2
    BY <2>1, <1>1
  <2> QED BY <2>1, <2>2 DEF Word
<1>13. /\ Grew /\ Spoken' /\ ended' = ended
       /\ told' = [told EXCEPT !["getter"] = told["getter"] + queued["getter"]]
  BY <1>0, <1>3, <1>9, <1>10, <1>12, WordsSent, Peers
<1>14. told["getter"] + queued["getter"] = arrived["getter"]
  BY <1>0, <1>1, <1>11, Numbers, Peers
<1>15. sent'["giver"] = sent["giver"]
  BY <1>0, <1>10, PostElsewhere, Peers
<1> QED BY <1>2, <1>3, <1>4, <1>6, <1>7, <1>8, <1>11, <1>13, <1>14, <1>15

\* The getter hears of success and is linked.
LEMMA GetterLinkStep ==
  ASSUME StreamInv, phase["getter"] = "awaiting", tcp["getter"] # "closed",
         channel["getter"] # "DEAD", "getter" \notin heardAll,
         Link("getter", <<>>, <<Msg("ok")>>),
         got' = [got EXCEPT !["getter"] = got["getter"] + 1], got["getter"] < told["giver"],
         Succeeded,
         UNCHANGED <<client, host, failing, gone, socketVars, paused, up>>
  PROVE  StreamInv'
<1>0. /\ TypeOK /\ Control /\ Content /\ SentTyped /\ Spoken
      /\ ChannelSide("getter") /\ SocketSide("getter") /\ GetterSide /\ GiverSide
  BY TypedSent, Peers DEF Control, StreamInv, Content
<1>1. /\ channel["getter"] = "OPEN" /\ tcp["getter"] = "open" /\ ~stopping["getter"]
      /\ "getter" \notin ended
      /\ UNCHANGED <<channel, tcp, stopping, inbox>>
      /\ Grew /\ Spoken' /\ ended' = ended
      /\ told' = [told EXCEPT !["getter"] = arrived["getter"]] /\ arrived["getter"] >= 2
      /\ sent'["giver"] = sent["giver"]
      /\ toSocket' = [toSocket EXCEPT !["getter"] = <<Msg("auth"), Msg("ok")>>]
      /\ fromSocket' = [fromSocket EXCEPT !["getter"] = <<>>]
  BY GetterLinkIs
<1>2. phase' = [phase EXCEPT !["getter"] = "linked"] /\ phase'["getter"] = "linked"
      /\ phase'["giver"] = phase["giver"]
  BY <1>0, Peers DEF Set, TypeOK, Link
<1>3. /\ heard' = [heard EXCEPT !["getter"] = heard["getter"] + 1] /\ heardAll' = heardAll /\ SentTyped'
  BY <1>0, <1>1, HeardWord, Peers
<1>4. /\ heard'["giver"] = heard["giver"] /\ got'["giver"] = got["giver"] /\ told'["giver"] = told["giver"]
      /\ heard'["getter"] = 1 /\ told'["getter"] = arrived["getter"] /\ told["giver"] >= 1
      /\ told["getter"] = 2
  <2>1. heard["getter"] = 0 /\ told["getter"] = 2
    BY <1>0 DEF GetterSide
  <2>2. told["giver"] >= 1
    BY DEF Succeeded
  <2> QED BY <2>1, <2>2, <1>0, <1>1, <1>3, Numbers, Peers DEF SentTyped
<1>5. Succeeded'
  BY <1>0, <1>1, <1>4, SameReply
<1>6. /\ toSocket' \in [Sides -> Seq(Message)] /\ toSocket'["giver"] = toSocket["giver"]
      /\ written'["giver"] = written["giver"] /\ written'["getter"] = 2
      /\ toSocket'["getter"] = <<Msg("auth"), Msg("ok")>>
  <2>1. <<Msg("auth"), Msg("ok")>> \in Seq(Message) /\ Len(<<Msg("auth"), Msg("ok")>>) = 2
    BY Greeting
  <2> QED BY <2>1, <1>0, <1>1, Peers DEF TypeOK, written
<1>7. /\ fromSocket' \in [Sides -> Seq(Packets)] /\ fromSocket'["giver"] = fromSocket["giver"]
      /\ queued'["giver"] = queued["giver"]
  BY <1>0, <1>1, DroppedTyped, Peers DEF queued
<1>8. wants' \in [Sides -> {"run", "pause"}] /\ overflow' \in [Sides -> BOOLEAN]
  BY <1>0, Peers DEF Link, MayOverflow, Set, TypeOK
<1>9. TypeOK'
  <2>1. phase' \in [Sides -> Phases]
    <3>1. phase \in [Sides -> Phases] /\ "linked" \in Phases
      BY <1>0 DEF TypeOK, Phases
    <3> QED BY <3>1, <1>2, Peers
  <2> QED BY <2>1, <1>0, <1>1, <1>3, <1>6, <1>7, <1>8 DEF TypeOK, SentTyped, socketVars
<1>10. (\A s \in Sides : ChannelSide(s) /\ SocketSide(s))'
  <2>1. ChannelSide("getter")'
    BY <1>0, <1>1, <1>2, <1>3 DEF ChannelSide, Started
  <2>2. SocketSide("getter")'
    BY <1>0, <1>1, <1>2 DEF SocketSide, socketVars
  <2>3. SideSame("giver")
    BY <1>1, <1>2, <1>3, <1>4 DEF SideSame, socketVars
  <2> QED BY <2>1, <2>2, <2>3, <1>0, BothSides, Peers
<1>11. AllSame("giver")
  BY <1>1, <1>2, <1>3, <1>4, <1>6 DEF SideSame, AllSame, socketVars
<1>12. GiverSide'
  BY <1>0, <1>1, <1>5, <1>11, GiverStays
<1>13. GetterSide'
  BY <1>0, <1>1, <1>2, <1>4, <1>5 DEF GetterSide, socketVars
<1>14. Covered' /\ Written'
  <2>1. arrived' = arrived /\ \A t \in Sides : Kept(t)' <=> Kept(t)
    BY DEF Kept, socketVars
  <2>2. arrived["getter"] \in Nat /\ written["giver"] \in Nat /\ told["giver"] \in Nat
    BY <1>0, Numbers, Peers
  <2>3. Covered'
    BY <2>1, <2>2, <1>0, <1>1, <1>2, <1>4, <1>6 DEF Control, Covered
  <2>4. Written'
    BY <2>1, <1>0, <1>1, <1>2, <1>4, <1>6, Peers DEF Control, Written
  <2> QED BY <2>3, <2>4
<1>15. QuitsOnce' /\ SaidAll'
  <2>1. \A t \in Sides : Kept(t)' <=> Kept(t)
    BY DEF Kept, socketVars
  <2>2. channel["giver"] # "CLOSED"
    <3>1. channel["giver"] = "CLOSED" => "giver" \in heardAll
      BY <1>0, Peers DEF Control, ChannelSide
    <3>2. "giver" \in heardAll => "getter" \in ended
      BY <1>0, HeardTyped, Peers
    <3> QED BY <3>1, <3>2, <1>1
  <2>3. \A s \in Sides : channel'[s] # "CLOSED"
    BY <2>2, <1>1 DEF Sides
  <2>4. QuitsOnce'
    BY <2>1, <1>0, <1>1, <1>2, Peers DEF Control, QuitsOnce, Sides
  <2> QED BY <2>3, <2>4 DEF SaidAll
<1>16. AnsweredBeforeClose'
  BY <1>1 DEF AnsweredBeforeClose
<1>17. Content'
  <2>1. Queued'
    BY <1>0, <1>1, <1>2, <1>7 DEF Content, Queued, QueueFrom, socketVars
  <2>2. GiverWrote'
    BY <1>0, <1>6 DEF Content, GiverWrote
  <2>3. GetterWrote'
    <3>1. <<Msg("auth"), Msg("ok")>>[1] = Msg("auth") /\ <<Msg("auth"), Msg("ok")>>[2] = Msg("ok")
      OBVIOUS
    <3>2. \A j \in 1..2 : toSocket'["getter"][j] = Answer(j)
      BY <3>1, <1>6 DEF Answer
    <3> QED BY <3>2, <1>2, <1>6 DEF GetterWrote, Answer
  <2> QED BY <2>1, <2>2, <2>3, <1>1 DEF Content
<1> QED BY <1>9, <1>10, <1>12, <1>13, <1>14, <1>15, <1>16, <1>17 DEF Control, StreamInv

\* The answer of the giver comes.
LEMMA ResponseStep ==
  ASSUME StreamInv, Response
  PROVE  StreamInv'
<1>0. /\ TypeOK /\ Control /\ Content /\ SentTyped /\ Spoken /\ GetterSide
  BY TypedSent, Peers DEF Control, StreamInv, Content
<1>1. /\ phase["getter"] = "awaiting" /\ Arrives("getter", {"ok", "fail"})
      /\ UNCHANGED <<client, host, failing, gone, socketVars, paused, up>>
  BY DEF Response
<1>2. /\ "getter" \notin heardAll /\ channel["getter"] # "DEAD"
      /\ got' = [got EXCEPT !["getter"] = got["getter"] + 1]
      /\ heard["getter"] = got["getter"] /\ Arriving("getter")[1] \in {"ok", "fail"}
      /\ \/ got["getter"] < told["giver"] /\ Arriving("getter") \in Word("giver", heard["getter"] + 1)
         \/ Arriving("getter") = Msg("CLOSE")
  BY <1>0, <1>1, ArrivingIs, Peers
<1>3. heard["getter"] = 0 /\ got["getter"] = 0
  BY <1>0, <1>1, <1>2 DEF GetterSide
<1>4. got["getter"] < told["giver"] /\ Arriving("getter") \in Word("giver", 1)
  <2>1. Arriving("getter") # Msg("CLOSE")
    BY <1>2, WordKinds
  <2> QED BY <2>1, <1>2, <1>3
<1>5. CASE tcp["getter"] = "closed"
  <2>1. /\ phase' = Set(phase, "getter", "responding")
        /\ UNCHANGED <<stopping, tcp, channel, sent, fromSocket, toSocket, inbox, flowVars>>
    BY <1>1, <1>5 DEF Response, Reply, flowVars
  <2> QED BY <1>1, <1>2, <1>4, <1>5, <2>1, GetterCaughtStep
<1>6. CASE tcp["getter"] # "closed" /\ Arriving("getter")[1] = "fail"
  <2>1. /\ phase' = Set(phase, "getter", "failed")
        /\ Write("getter", <<Msg("fail")>>)
        /\ GetterStop(<<>>) /\ DropQueue("getter")
        /\ UNCHANGED <<inbox, flowVars>>
    BY <1>1, <1>6 DEF Response, Reply, flowVars
  <2> QED BY <1>1, <1>2, <1>4, <2>1, GetterFailsStep
<1>7. CASE tcp["getter"] # "closed" /\ Arriving("getter")[1] = "ok"
  <2>1. Link("getter", <<>>, <<Msg("ok")>>)
    BY <1>7 DEF Response, Reply, GetterLink
  <2>2. Succeeded
    <3>1. Arriving("getter") = Msg("ok")
      BY <1>4, <1>7 DEF Word, Msg
    <3>2. sent["giver"][1] = Msg("ok")
      BY <3>1, <1>3, Peers DEF Arriving
    <3>3. told["giver"] >= 1
      BY <1>0, <1>3, <1>4, Numbers, Peers
    <3> QED BY <3>2, <3>3 DEF Succeeded
  <2> QED BY <1>1, <1>2, <1>4, <1>7, <2>1, <2>2, GetterLinkStep
<1> QED BY <1>2, <1>5, <1>6, <1>7

\* The peer opens a channel: a Session starts, or it is refused.
LEMMA PeerOpenedChannelStep ==
  ASSUME StreamInv, PeerOpenedChannel
  PROVE  StreamInv'
<1>0. /\ TypeOK /\ Control /\ Content /\ SentTyped /\ Spoken
      /\ ChannelSide("giver") /\ SocketSide("giver") /\ GetterSide /\ GiverSide
  BY TypedSent, Peers DEF Control, StreamInv, Content
<1>1. /\ Arrives("giver", {"OPEN"})
      /\ UNCHANGED <<client, host, stopping, failing, tcp, gone, socketVars, flowVars,
                     fromSocket, toSocket, inbox, up>>
  BY DEF PeerOpenedChannel
<1>2. /\ "giver" \notin heardAll /\ channel["giver"] # "DEAD"
      /\ got' = [got EXCEPT !["giver"] = got["giver"] + 1] /\ heard["giver"] = got["giver"]
      /\ got["giver"] < told["getter"] /\ heard["giver"] = 0
  <2>1. /\ "giver" \notin heardAll /\ channel["giver"] # "DEAD"
        /\ got' = [got EXCEPT !["giver"] = got["giver"] + 1] /\ heard["giver"] = got["giver"]
        /\ Arriving("giver")[1] = "OPEN"
        /\ \/ got["giver"] < told["getter"] /\ Arriving("giver") \in Word("getter", heard["giver"] + 1)
           \/ Arriving("giver") = Msg("CLOSE")
    BY <1>0, <1>1, ArrivingIs, Peers
  <2>2. heard["giver"] \in Nat
    BY <1>0, Numbers, Peers
  <2>3. Arriving("giver") # Msg("CLOSE")
    BY <2>1, WordKinds
  <2>4. heard["giver"] + 1 = 1
    BY <2>1, <2>2, <2>3, WordKinds
  <2> QED BY <2>1, <2>2, <2>3, <2>4
<1>3. phase["giver"] = "waiting"
  <2>1. got["giver"] = 0
    BY <1>2
  <2> QED BY <2>1, <1>0, <1>2 DEF GiverSide
<1>4. /\ channel["giver"] = "POOLED" /\ "giver" \notin ended /\ told["giver"] = 0
      /\ tcp["giver"] = "none" /\ ~stopping["giver"] /\ ~Succeeded /\ ~failing
      /\ inbox["giver"] = <<>>
  <2>1. channel["giver"] = "POOLED" /\ "giver" \notin ended /\ sent["giver"] = <<>>
    BY <1>0, <1>2, <1>3 DEF ChannelSide
  <2>2. told["giver"] = 0
    BY <2>1, <1>0, ToldTyped, Peers, Nothing
  <2>3. ~stopping["giver"]
    BY <1>0, <1>3 DEF ChannelSide, Started
  <2> QED BY <2>1, <2>2, <2>3, <1>0, <1>3 DEF GiverSide, Succeeded
<1>5. \E k \in {"endpoint", "refused"}, c \in {"OPEN", "CLOSING"} :
        /\ phase' = [phase EXCEPT !["giver"] = k] /\ channel' = [channel EXCEPT !["giver"] = c]
        /\ \/ k = "endpoint" /\ c = "OPEN" /\ sent' = sent
           \/ k = "refused" /\ c = "CLOSING" /\ Post("giver", Append(<<>>, Msg("CLOSE")))
  BY Nothing DEF PeerOpenedChannel, Set
<1>6. PICK k \in {"endpoint", "refused"}, c \in {"OPEN", "CLOSING"} :
        /\ phase' = [phase EXCEPT !["giver"] = k] /\ channel' = [channel EXCEPT !["giver"] = c]
        /\ \/ k = "endpoint" /\ c = "OPEN" /\ sent' = sent
           \/ k = "refused" /\ c = "CLOSING" /\ Post("giver", Append(<<>>, Msg("CLOSE")))
  BY <1>5
<1>7. /\ phase'["giver"] = k /\ phase'["getter"] = phase["getter"]
      /\ channel'["giver"] = c /\ channel'["getter"] = channel["getter"]
      /\ phase' \in [Sides -> Phases]
      /\ channel' \in [Sides -> {"POOLED", "OPEN", "CLOSING", "DRAINING", "CLOSED", "DEAD"}]
  <2>1. phase \in [Sides -> Phases] /\ k \in Phases
    BY <1>0 DEF TypeOK, Phases
  <2>2. channel \in [Sides -> {"POOLED", "OPEN", "CLOSING", "DRAINING", "CLOSED", "DEAD"}]
    BY <1>0 DEF TypeOK
  <2> QED BY <2>1, <2>2, <1>6, Peers
<1>8. /\ Grew /\ Spoken' /\ told' = told /\ sent'["getter"] = sent["getter"]
      /\ ended' = IF k = "refused" THEN ended \cup {"giver"} ELSE ended
  <2>1. CASE k = "endpoint"
    BY <2>1, <1>0, <1>6, SameSent
  <2>2. CASE k = "refused"
    <3>1. Post("giver", Append(<<>>, Msg("CLOSE")))
      BY <2>2, <1>6
    <3>2. /\ Grew /\ told' = [told EXCEPT !["giver"] = told["giver"] + Len(<<>>)]
          /\ ended' = ended \cup {"giver"} /\ Spoken'
      <4>1. \A j \in 1..Len(<<>>) : <<>>[j] \in Word("giver", told["giver"] + j)
        BY Nothing
      <4> QED BY <3>1, <4>1, <1>0, <1>4, LastSent, Peers, Nothing
    <3>3. told' = told
      BY <3>2, <1>0, <1>4, Numbers, Nothing
    <3> QED BY <2>2, <3>1, <3>2, <3>3, <1>0, PostElsewhere, Peers
  <2> QED BY <2>1, <2>2
<1>9. /\ heard' = [heard EXCEPT !["giver"] = heard["giver"] + 1] /\ heardAll' = heardAll /\ SentTyped'
  BY <1>0, <1>2, <1>8, HeardWord, Peers
<1>10. /\ heard'["getter"] = heard["getter"] /\ heard'["giver"] = 1
       /\ got'["getter"] = got["getter"] /\ got'["giver"] = 1
       /\ written' = written /\ queued' = queued
  <2>1. written' = written /\ queued' = queued
    BY <1>1, SameDerived
  <2>2. heard \in [Sides -> Nat] /\ got \in [Sides -> Nat]
    BY <1>0, Numbers DEF SentTyped
  <2> QED BY <2>1, <2>2, <1>2, <1>9, Peers
<1>11. ~Succeeded'
  BY <1>4, <1>8 DEF Succeeded
<1>12. TypeOK'
  BY <1>0, <1>1, <1>7, <1>9 DEF TypeOK, SentTyped, flowVars, socketVars
<1>13. (\A s \in Sides : ChannelSide(s) /\ SocketSide(s))'
  <2>1. ChannelSide("giver")'
    <3>1. \/ k = "endpoint" /\ c = "OPEN"
          \/ k = "refused" /\ c = "CLOSING"
      BY <1>6
    <3> QED BY <3>1, <1>1, <1>2, <1>4, <1>7, <1>8, <1>9, <1>10 DEF ChannelSide, Started
  <2>2. SocketSide("giver")'
    BY <1>0, <1>1, <1>4, <1>7 DEF SocketSide, socketVars
  <2>3. SideSame("getter")
    BY <1>1, <1>7, <1>8, <1>9, <1>10, Peers DEF SideSame, socketVars
  <2> QED BY <2>1, <2>2, <2>3, <1>0, BothSides, Peers
<1>14. GetterSide'
  <2>1. AllSame("getter")
    BY <1>1, <1>7, <1>8, <1>9, <1>10, Peers DEF SideSame, AllSame, socketVars
  <2> QED BY <2>1, <1>0, <1>4, GetterStays
<1>15. GiverSide'
  <2>1. \/ k = "endpoint"
        \/ k = "refused"
    OBVIOUS
  <2>2. toSocket'["giver"] = <<>> /\ arrived'["giver"] = 0 /\ inbox'["giver"] = <<>>
    BY <1>0, <1>1, <1>3, <1>4 DEF GiverSide, socketVars
  <2>3. k # "refused" => "giver" \notin ended'
    BY <1>4, <1>8
  <2> QED BY <2>1, <2>2, <2>3, <1>1, <1>4, <1>7, <1>8, <1>10, <1>11 DEF GiverSide, socketVars
<1>16. Covered' /\ Written'
  BY <1>0, <1>1, <1>6, <1>7, <1>8, <1>10 DEF Control, Covered, Written, Kept, socketVars
<1>17. QuitsOnce' /\ SaidAll'
  BY <1>0, <1>1, <1>6, <1>7, <1>8, Peers DEF Control, QuitsOnce, SaidAll, Kept, socketVars, Sides
<1>18. AnsweredBeforeClose'
  BY <1>0, <1>1, <1>3 DEF Control, AnsweredBeforeClose
<1>19. Content'
  <2>1. Queued'
    BY <1>0, <1>1, <1>3, <1>7, <1>10 DEF Content, Queued, QueueFrom, socketVars
  <2>2. GiverWrote' /\ GetterWrote'
    BY <1>0, <1>1, <1>7, <1>10 DEF Content, GiverWrote, GetterWrote, Answer
  <2> QED BY <2>1, <2>2, <1>8 DEF Content
<1> QED BY <1>12, <1>13, <1>14, <1>15, <1>16, <1>17, <1>18, <1>19 DEF Control, StreamInv

\* What the giver's word of failure does to its socket and to the channel.
LEMMA FailureIsSent ==
  ASSUME TypeOK, Spoken, ChannelSide("giver"), SocketSide("giver"), told["giver"] = 0,
         GiverStop(<<Msg("fail")>>)
  PROVE  /\ SocketStops("giver") /\ ChannelStops("giver", 1)
         /\ channel["giver"] = "OPEN" => sent'["giver"][1] = Msg("fail")
<1> DEFINE m == <<Msg("fail")>>
<1>1. m \in Seq(Message) /\ Len(m) = 1 /\ m[1] = Msg("fail")
  BY Greeting, Single
<1>2. StopAt("giver", channel["giver"], Accepted("giver", m))
  BY DEF GiverStop
<1> HIDE DEF m
<1>3. Msg("fail") \in Word("giver", told["giver"] + 1)
  BY DEF Word
<1>4. \A j \in 1..Len(m) : j = 1
  BY <1>1
<1>5. \A j \in 1..Len(m) : m[j] \in Word("giver", told["giver"] + j)
  BY <1>1, <1>3, <1>4
<1>6. "giver" \in Sides
  BY Peers
<1>7. /\ SocketStops("giver") /\ ChannelStops("giver", Len(m))
      /\ channel["giver"] = "OPEN" => \A j \in 1..Len(m) : sent'["giver"][told["giver"] + j] = m[j]
  BY <1>1, <1>2, <1>5, <1>6, StopEffect
<1>8. 1 \in 1..Len(m) /\ told["giver"] + 1 = 1
  BY <1>1
<1> QED BY <1>1, <1>7, <1>8

\* A giver that gives up says so, if its end of the channel is open, and stops.
LEMMA GiverFailsStep ==
  ASSUME StreamInv, phase["giver"] \in {"endpoint", "connecting"},
         phase' = Set(phase, "giver", "failed"), GiverStop(<<Msg("fail")>>),
         fromSocket' = fromSocket \/ fromSocket' = [fromSocket EXCEPT !["giver"] = <<>>],
         gone' \in [Sides -> BOOLEAN], gone'["getter"] = gone["getter"],
         UNCHANGED <<client, host, failing, socketVars, flowVars, toSocket, inbox, up>>,
         \/ got' = got /\ phase["giver"] = "connecting"
         \/ /\ got' = [got EXCEPT !["giver"] = got["giver"] + 1] /\ got["giver"] < told["getter"]
            /\ channel["giver"] = "OPEN" /\ heard["giver"] = 1
  PROVE  StreamInv'
<1>0. /\ TypeOK /\ Control /\ Content /\ SentTyped /\ Spoken
      /\ ChannelSide("giver") /\ SocketSide("giver") /\ GetterSide /\ GiverSide
  BY TypedSent, Peers DEF Control, StreamInv, Content
<1>1. /\ phase'["giver"] = "failed" /\ phase'["getter"] = phase["getter"]
      /\ phase' \in [Sides -> Phases]
  <2>1. phase \in [Sides -> Phases] /\ "failed" \in Phases
    BY <1>0 DEF TypeOK, Phases
  <2> QED BY <2>1, Peers DEF Set
<1>2. /\ told["giver"] = 0 /\ toSocket["giver"] = <<>> /\ ~failing
      /\ ~Succeeded /\ inbox["giver"] = <<>>
  BY <1>0 DEF GiverSide, Succeeded
<1>3. /\ SocketStops("giver") /\ ChannelStops("giver", 1)
      /\ channel["giver"] = "OPEN" => sent'["giver"][1] = Msg("fail")
  BY <1>0, <1>2, FailureIsSent
<1>4. /\ Grew /\ Spoken' /\ sent'["getter"] = sent["getter"] /\ told'["getter"] = told["getter"]
      /\ ("getter" \in ended' <=> "getter" \in ended) /\ channel'["getter"] = channel["getter"]
      /\ channel' \in [Sides -> {"POOLED", "OPEN", "CLOSING", "DRAINING", "CLOSED", "DEAD"}]
      /\ \/ /\ channel["giver"] = "OPEN" /\ channel'["giver"] = "CLOSING" /\ told'["giver"] = 1
            /\ "giver" \in ended'
         \/ /\ channel["giver"] # "OPEN" /\ channel'["giver"] = channel["giver"]
            /\ told'["giver"] = 0 /\ ended' = ended
  <2>1. told \in [Sides -> Nat]
    BY <1>0, Numbers
  <2>2. channel \in [Sides -> {"POOLED", "OPEN", "CLOSING", "DRAINING", "CLOSED", "DEAD"}]
    BY <1>0 DEF TypeOK
  <2>3. CASE channel["giver"] = "OPEN"
    <3>1. /\ Grew /\ Spoken' /\ sent'["getter"] = sent["getter"]
          /\ channel' = [channel EXCEPT !["giver"] = "CLOSING"]
          /\ told' = [told EXCEPT !["giver"] = told["giver"] + 1] /\ ended' = ended \cup {"giver"}
      BY <1>3, <2>3, Peers DEF ChannelStops
    <3> QED BY <2>1, <2>2, <2>3, <3>1, <1>2, Peers
  <2>4. CASE channel["giver"] # "OPEN"
    <3>1. /\ Grew /\ Spoken' /\ sent'["getter"] = sent["getter"]
          /\ channel' = channel /\ told' = told /\ ended' = ended
      BY <1>3, <2>4, Peers DEF ChannelStops
    <3> QED BY <2>1, <2>2, <2>4, <3>1, <1>2, Peers
  <2> QED BY <2>3, <2>4
<1>5. ~Succeeded'
  <2>1. Msg("fail") # Msg("ok")
    BY DEF Msg
  <2>2. CASE channel["giver"] = "OPEN"
    BY <2>1, <2>2, <1>3 DEF Succeeded
  <2>3. CASE channel["giver"] # "OPEN"
    BY <2>3, <1>4 DEF Succeeded
  <2> QED BY <2>2, <2>3
<1>6. /\ heardAll' = heardAll /\ SentTyped' /\ heard'["getter"] = heard["getter"]
      /\ got'["getter"] = got["getter"] /\ heard'["giver"] >= 2
  <2>1. heard \in [Sides -> Nat] /\ got \in [Sides -> Nat]
    BY <1>0, Numbers DEF SentTyped
  <2>2. CASE got' = got /\ phase["giver"] = "connecting"
    BY <2>1, <2>2, <1>0, <1>4, HeardStays DEF GiverSide
  <2>3. CASE /\ got' = [got EXCEPT !["giver"] = got["giver"] + 1] /\ got["giver"] < told["getter"]
             /\ heard["giver"] = 1
    <3>1. heard' = [heard EXCEPT !["giver"] = heard["giver"] + 1] /\ heardAll' = heardAll /\ SentTyped'
      BY <2>3, <1>0, <1>4, HeardWord, Peers
    <3> QED BY <3>1, <2>1, <2>3, Peers
  <2> QED BY <2>2, <2>3
<1>7. /\ stopping' \in [Sides -> BOOLEAN] /\ stopping'["giver"]
      /\ tcp' \in [Sides -> {"none", "connecting", "open", "closing", "closed"}]
      /\ tcp'["giver"] = "none" => tcp["giver"] = "none"
      /\ tcp'["getter"] = tcp["getter"] /\ stopping'["getter"] = stopping["getter"]
  <2>1. /\ stopping' \in [Sides -> BOOLEAN] /\ stopping'["giver"]
        /\ tcp' \in [Sides -> {"none", "connecting", "open", "closing", "closed"}]
        /\ tcp'["giver"] # tcp["giver"] => tcp'["giver"] = "closing"
        /\ tcp'["getter"] = tcp["getter"] /\ stopping'["getter"] = stopping["getter"]
    BY <1>0, <1>3, StopsTyped, Peers
  <2> QED BY <2>1
<1>8. fromSocket' \in [Sides -> Seq(Packets)] /\ fromSocket'["getter"] = fromSocket["getter"]
      /\ queued'["getter"] = queued["getter"] /\ written' = written
  BY <1>0, DroppedTyped, SameDerived, Peers DEF queued
<1>9. TypeOK'
  BY <1>0, <1>1, <1>4, <1>6, <1>7, <1>8 DEF TypeOK, SentTyped, flowVars, socketVars
<1>10. (\A s \in Sides : ChannelSide(s) /\ SocketSide(s))'
  <2>1. ChannelSide("giver")'
    <3>1. channel["giver"] # "POOLED" /\ channel["giver"] # "CLOSING"
      BY <1>0 DEF ChannelSide, Started
    <3>2. Started("giver")'
      BY <1>1 DEF Started
    <3>3. CASE channel["giver"] = "OPEN" /\ channel'["giver"] = "CLOSING" /\ "giver" \in ended'
      <4>1. "giver" \notin heardAll
        BY <3>3, <1>0 DEF ChannelSide
      <4> QED BY <4>1, <3>2, <3>3, <1>1, <1>6, <1>7 DEF ChannelSide
    <3>4. CASE channel["giver"] # "OPEN" /\ channel'["giver"] = channel["giver"] /\ ended' = ended
      BY <3>1, <3>2, <3>4, <1>0, <1>1, <1>6, <1>7 DEF ChannelSide
    <3> QED BY <1>4, <3>3, <3>4
  <2>2. SocketSide("giver")'
    BY <1>0, <1>1, <1>3, SocketSideStops, Peers DEF socketVars
  <2>3. SideSame("getter")
    BY <1>1, <1>4, <1>6, <1>7 DEF SideSame, socketVars
  <2> QED BY <2>1, <2>2, <2>3, <1>0, BothSides, Peers
<1>11. GetterSide'
  <2>1. AllSame("getter")
    BY <1>1, <1>4, <1>6, <1>7, <1>8 DEF SideSame, AllSame, socketVars
  <2> QED BY <2>1, <1>0, <1>2, GetterStays
<1>12. GiverSide'
  <2>1. tcp'["giver"] = "none" => arrived'["giver"] = 0
    BY <1>0, <1>7 DEF GiverSide, socketVars
  <2>2. "giver" \in ended' /\ told'["giver"] = 0 => "getter" \in ended'
    BY <1>0, <1>2, <1>4 DEF GiverSide
  <2>3. told'["giver"] <= 1
    BY <1>4
  <2> QED BY <2>1, <2>2, <2>3, <1>1, <1>2, <1>5, <1>6 DEF GiverSide
<1>13. Covered' /\ Written'
  <2>1. arrived' = arrived /\ \A t \in Sides : Kept(t)' <=> Kept(t)
    BY DEF Kept, socketVars
  <2>2. written["getter"] \in Nat /\ told'["giver"] <= 1 /\ told'["giver"] >= told["giver"]
        /\ arrived["giver"] \in Nat
    BY <1>0, <1>2, <1>4, Numbers, Peers
  <2>3. phase["getter"] # "linked"
    BY <1>0, <1>2 DEF GetterSide
  <2>4. Covered'
    BY <2>1, <2>2, <2>3, <1>0, <1>1, <1>4, <1>8 DEF Control, Covered
  <2>5. Written'
    BY <2>3, <1>1 DEF Written
  <2> QED BY <2>4, <2>5
<1>14. QuitsOnce' /\ SaidAll'
  <2>1. phase'["getter"] # "linked" /\ phase'["giver"] # "linked"
    BY <1>0, <1>1, <1>2 DEF GetterSide
  <2> QED BY <2>1 DEF QuitsOnce, SaidAll, Sides
<1>15. AnsweredBeforeClose'
  BY <1>0, <1>7 DEF Control, AnsweredBeforeClose
<1>16. Content'
  <2>1. Queued'
    BY <1>0, <1>1, <1>7, <1>8 DEF Content, Queued, QueueFrom, socketVars
  <2>2. GiverWrote' /\ GetterWrote'
    BY <1>0, <1>1, <1>8 DEF Content, GiverWrote, GetterWrote, Answer
  <2> QED BY <2>1, <2>2, <1>4 DEF Content
<1> QED BY <1>9, <1>10, <1>11, <1>12, <1>13, <1>14, <1>15, <1>16 DEF Control, StreamInv

\* The giver cannot connect.
LEMMA ConnectFailsStep ==
  ASSUME StreamInv, ConnectFails
  PROVE  StreamInv'
<1>1. /\ phase["giver"] = "connecting" /\ phase' = Set(phase, "giver", "failed")
      /\ GiverStop(<<Msg("fail")>>) /\ gone' = [gone EXCEPT !["giver"] = TRUE]
      /\ UNCHANGED <<client, host, failing, socketVars, flowVars, toSocket, got, inbox, up>>
      /\ fromSocket' = fromSocket \/ fromSocket' = [fromSocket EXCEPT !["giver"] = <<>>]
  BY DEF ConnectFails, Set, DropQueue
<1>2. gone' \in [Sides -> BOOLEAN] /\ gone'["getter"] = gone["getter"]
  BY <1>1, Peers DEF StreamInv, TypeOK
<1> QED BY <1>1, <1>2, GiverFailsStep

\* The giver is told where to connect to, and sets out to, or gives up.
LEMMA ReceiveEndpointStep ==
  ASSUME StreamInv, ReceiveEndpoint
  PROVE  StreamInv'
<1>0. /\ TypeOK /\ Control /\ Content /\ SentTyped /\ Spoken
      /\ ChannelSide("giver") /\ SocketSide("giver") /\ GetterSide /\ GiverSide
  BY TypedSent, Peers DEF Control, StreamInv, Content
<1>1. /\ phase["giver"] = "endpoint" /\ Arrives("giver", {"request"})
      /\ UNCHANGED <<client, host, failing, gone, socketVars, paused, overflow, fromSocket,
                     toSocket, inbox, up>>
  BY DEF ReceiveEndpoint
<1>2. /\ "giver" \notin heardAll /\ channel["giver"] # "DEAD"
      /\ got' = [got EXCEPT !["giver"] = got["giver"] + 1] /\ heard["giver"] = got["giver"]
      /\ got["giver"] < told["getter"]
  <2>1. /\ "giver" \notin heardAll /\ channel["giver"] # "DEAD"
        /\ got' = [got EXCEPT !["giver"] = got["giver"] + 1] /\ heard["giver"] = got["giver"]
        /\ Arriving("giver")[1] = "request"
        /\ got["giver"] < told["getter"] \/ Arriving("giver") = Msg("CLOSE")
    BY <1>0, <1>1, ArrivingIs, Peers
  <2> QED BY <2>1, WordKinds
<1>3. /\ heard["giver"] = 1 /\ told["giver"] = 0 /\ tcp["giver"] = "none" /\ arrived["giver"] = 0
      /\ toSocket["giver"] = <<>> /\ inbox["giver"] = <<>> /\ ~Succeeded /\ ~failing
  BY <1>0, <1>1 DEF GiverSide, Succeeded
<1>4. channel["giver"] = "OPEN" /\ ~stopping["giver"] /\ "giver" \notin ended
  <2>1. channel["giver"] \in {"POOLED", "OPEN", "CLOSING", "DRAINING", "CLOSED", "DEAD"}
    BY <1>0, Peers DEF TypeOK
  <2>2. channel["giver"] = "OPEN"
    BY <2>1, <1>0, <1>1, <1>2 DEF ChannelSide, Started
  <2> QED BY <2>2, <1>0 DEF ChannelSide
<1>5. CASE /\ phase' = Set(phase, "giver", "failed") /\ GiverStop(<<Msg("fail")>>)
           /\ UNCHANGED wants
  <2>1. gone' \in [Sides -> BOOLEAN] /\ gone'["getter"] = gone["getter"]
    BY <1>0, <1>1 DEF TypeOK
  <2> QED BY <2>1, <1>1, <1>2, <1>3, <1>4, <1>5, GiverFailsStep DEF flowVars
<1>6. CASE /\ phase' = Set(phase, "giver", "connecting") /\ tcp' = Set(tcp, "giver", "connecting")
           /\ wants' = Set(wants, "giver", "pause") /\ UNCHANGED <<stopping, channel, sent>>
  <2>1. /\ phase'["giver"] = "connecting" /\ phase'["getter"] = phase["getter"]
        /\ phase' \in [Sides -> Phases]
    <3>1. phase \in [Sides -> Phases] /\ "connecting" \in Phases
      BY <1>0 DEF TypeOK, Phases
    <3> QED BY <3>1, <1>6, Peers DEF Set
  <2>2. /\ tcp'["giver"] = "connecting" /\ tcp'["getter"] = tcp["getter"]
        /\ tcp' \in [Sides -> {"none", "connecting", "open", "closing", "closed"}]
        /\ wants' \in [Sides -> {"run", "pause"}]
    <3>1. /\ tcp \in [Sides -> {"none", "connecting", "open", "closing", "closed"}]
          /\ wants \in [Sides -> {"run", "pause"}]
      BY <1>0 DEF TypeOK
    <3> QED BY <3>1, <1>6, Peers DEF Set
  <2>3. /\ Grew /\ Spoken' /\ told' = told /\ ended' = ended /\ (Succeeded' <=> Succeeded)
        /\ written' = written /\ queued' = queued
    BY <1>0, <1>1, <1>6, SameSent, SameDerived
  <2>4. /\ heard' = [heard EXCEPT !["giver"] = heard["giver"] + 1] /\ heardAll' = heardAll /\ SentTyped'
    BY <1>0, <1>2, <2>3, HeardWord, Peers
  <2>5. /\ heard'["getter"] = heard["getter"] /\ heard'["giver"] = 2 /\ got'["getter"] = got["getter"]
    <3>1. heard \in [Sides -> Nat] /\ got \in [Sides -> Nat]
      BY <1>0, Numbers DEF SentTyped
    <3> QED BY <3>1, <1>2, <1>3, <2>4, Peers
  <2>6. TypeOK'
    BY <1>0, <1>1, <1>6, <2>1, <2>2, <2>4 DEF TypeOK, SentTyped, socketVars
  <2>7. (\A s \in Sides : ChannelSide(s) /\ SocketSide(s))'
    <3>1. ChannelSide("giver")'
      BY <1>0, <1>1, <1>2, <1>4, <1>6, <2>1, <2>3, <2>4 DEF ChannelSide, Started
    <3>2. SocketSide("giver")'
      BY <1>0, <1>1, <1>3, <1>4, <1>6, <2>1, <2>2 DEF SocketSide, socketVars
    <3>3. SideSame("getter")
      BY <1>1, <1>6, <2>1, <2>2, <2>3, <2>4, <2>5 DEF SideSame, socketVars
    <3> QED BY <3>1, <3>2, <3>3, <1>0, BothSides, Peers
  <2>8. GetterSide'
    <3>1. AllSame("getter")
      BY <1>1, <1>6, <2>1, <2>2, <2>3, <2>4, <2>5 DEF SideSame, AllSame, socketVars
    <3> QED BY <3>1, <1>0, <1>3, GetterStays
  <2>9. GiverSide'
    BY <1>0, <1>1, <1>3, <1>4, <2>1, <2>2, <2>3, <2>5 DEF GiverSide, socketVars
  <2>10. Covered' /\ Written'
    BY <1>0, <1>1, <2>1, <2>2, <2>3, <2>5 DEF Control, Covered, Written, Kept, socketVars
  <2>11. QuitsOnce' /\ SaidAll'
    BY <1>0, <1>1, <1>6, <2>1, <2>3, Peers DEF Control, QuitsOnce, SaidAll, Kept, Sides, socketVars
  <2>12. AnsweredBeforeClose'
    BY <1>0, <1>1, <2>1, <2>2 DEF Control, AnsweredBeforeClose
  <2>13. Content'
    <3>1. Queued'
      BY <1>0, <1>1, <1>6, <2>1, <2>3 DEF Content, Queued, QueueFrom, socketVars
    <3>2. GiverWrote' /\ GetterWrote'
      BY <1>0, <1>1, <2>1, <2>3 DEF Content, GiverWrote, GetterWrote, Answer
    <3> QED BY <3>1, <3>2, <2>3 DEF Content
  <2> QED BY <2>6, <2>7, <2>8, <2>9, <2>10, <2>11, <2>12, <2>13 DEF Control, StreamInv
<1> QED BY <1>5, <1>6 DEF ReceiveEndpoint

\* The giver that has connected has an open end of the channel, on which it says so and
\* sends what has come from the host, or one that it leaves as it is.
LEMMA GiverLinkIs ==
  ASSUME StreamInv, phase["giver"] = "connecting", NEW r \in {Msg("ok"), Msg("fail")},
         Link("giver", <<r>>, <<>>)
  PROVE  /\ UNCHANGED <<channel, stopping, inbox, toSocket>>
         /\ tcp' = IF tcp["giver"] = "connecting" THEN [tcp EXCEPT !["giver"] = "open"] ELSE tcp
         /\ Grew /\ Spoken' /\ ended' = ended
         /\ sent'["getter"] = sent["getter"]
         /\ fromSocket' = [fromSocket EXCEPT !["giver"] = <<>>]
         /\ \/ /\ channel["giver"] = "OPEN" /\ sent'["giver"][1] = r
               /\ told' = [told EXCEPT !["giver"] = arrived["giver"] + 1]
            \/ channel["giver"] # "OPEN" /\ sent' = sent /\ told' = told
<1>0. /\ TypeOK /\ Control /\ Content /\ SentTyped /\ Spoken
      /\ ChannelSide("giver") /\ SocketSide("giver") /\ GiverSide
  BY TypedSent, Peers DEF Control, StreamInv, Content
<1>1. told["giver"] = 0 /\ inbox["giver"] = <<>> /\ toSocket["giver"] = <<>>
  BY <1>0 DEF GiverSide
<1>2. /\ UNCHANGED <<channel, stopping>> /\ fromSocket' = [fromSocket EXCEPT !["giver"] = <<>>]
      /\ tcp' = IF tcp["giver"] = "connecting" THEN [tcp EXCEPT !["giver"] = "open"] ELSE tcp
  BY DEF Link, Set
<1>3. inbox' = inbox
  BY <1>0, <1>1 DEF Link, Set, TypeOK
<1>4. toSocket' = toSocket
  <2>1. <<>> \o <<>> = <<>>
    BY Nothing, NothingJoins
  <2>2. Write("giver", <<>> \o <<>>)
    BY <1>1 DEF Link
  <2> QED BY <2>1, <2>2, <1>0, <1>1, Peers DEF Write, Set, TypeOK
<1>5. /\ Buffers("giver") \in Seq(Message) /\ Len(Buffers("giver")) = queued["giver"]
      /\ \A j \in 1..queued["giver"] : Buffers("giver")[j] = Packet(fromSocket["giver"][j])
      /\ queued["giver"] \in Nat /\ arrived["giver"] \in Nat
  BY <1>0, BuffersAre, Numbers, Peers
<1>6. CASE channel["giver"] # "OPEN"
  <2>1. Post("giver", <<>>)
    BY <1>6 DEF Link, Accepted
  <2>2. sent' = sent
    BY <2>1, <1>0, NothingPosted, Peers
  <2> QED BY <2>2, <1>0, <1>2, <1>3, <1>4, <1>6, SameSent
<1>7. CASE channel["giver"] = "OPEN"
  <2> DEFINE m == <<r>> \o Buffers("giver")
  <2>1. "giver" \notin ended /\ ~stopping["giver"]
    BY <1>0, <1>7 DEF ChannelSide
  <2>2. Post("giver", m)
    BY <1>7 DEF Link, Accepted
  <2>3. queued["giver"] = arrived["giver"] /\ \A j \in 1..queued["giver"] : fromSocket["giver"][j] = j
    <3>1. QueueFrom("giver", 0)
      BY <2>1, <1>0 DEF Content, Queued
    <3> QED BY <3>1, <1>5 DEF QueueFrom
  <2>4. /\ m \in Seq(Message) /\ Len(m) = 1 + queued["giver"] /\ m[1] = r
        /\ \A i \in 1..queued["giver"] : m[1 + i] = Buffers("giver")[i]
    <3>1. r \in Message
      BY Greeting
    <3>2. <<r>> \in Seq(Message) /\ Len(<<r>>) = 1 /\ <<r>>[1] = r
      BY <3>1, Single
    <3>3. /\ m \in Seq(Message) /\ Len(m) = Len(<<r>>) + Len(Buffers("giver"))
          /\ \A i \in 1..Len(<<r>>) : m[i] = <<r>>[i]
          /\ \A i \in 1..Len(Buffers("giver")) : m[Len(<<r>>) + i] = Buffers("giver")[i]
      BY <3>2, <1>5, Joined
    <3> HIDE DEF m
    <3>4. 1 \in 1..Len(<<r>>)
      BY <3>2
    <3> QED BY <3>2, <3>3, <3>4, <1>5
  <2> HIDE DEF m
  <2>5. \A j \in 1..Len(m) : m[j] \in Word("giver", told["giver"] + j)
    <3> SUFFICES ASSUME NEW j \in 1..Len(m) PROVE m[j] \in Word("giver", told["giver"] + j)
      OBVIOUS
    <3>1. told["giver"] + j = j /\ j \in Nat /\ j >= 1
      BY <1>1, <1>5, <2>4
    <3>2. CASE j = 1
      BY <3>1, <3>2, <2>4 DEF Word
    <3>3. CASE j # 1
      <4>1. j - 1 \in 1..queued["giver"] /\ 1 + (j - 1) = j
        BY <3>1, <3>3, <1>5, <2>4
      <4>2. m[j] = Buffers("giver")[j - 1]
        BY <4>1, <2>4
      <4>3. Buffers("giver")[j - 1] = Packet(fromSocket["giver"][j - 1]) /\ fromSocket["giver"][j - 1] = j - 1
        BY <4>1, <1>5, <2>3
      <4>4. m[j] = Packet(j - 1)
        BY <4>2, <4>3
      <4> QED BY <4>4, <3>1, <3>3 DEF Word
    <3> QED BY <3>2, <3>3
  <2>6. /\ Grew /\ Spoken' /\ ended' = ended /\ told' = [told EXCEPT !["giver"] = told["giver"] + Len(m)]
        /\ \A j \in 1..Len(m) : sent'["giver"][told["giver"] + j] = m[j]
    BY <2>1, <2>2, <2>4, <2>5, <1>0, WordsSent, Peers
  <2>7. told["giver"] + Len(m) = arrived["giver"] + 1 /\ 1 \in 1..Len(m) /\ told["giver"] + 1 = 1
    BY <2>3, <2>4, <1>1, <1>5
  <2>8. sent'["getter"] = sent["getter"]
    BY <2>2, <1>0, PostElsewhere, Peers
  <2> QED BY <2>4, <2>6, <2>7, <2>8, <1>2, <1>3, <1>4, <1>7
<1> QED BY <1>6, <1>7

\* The giver has connected.
LEMMA ConnectedStep ==
  ASSUME StreamInv, Connected
  PROVE  StreamInv'
<1>0. /\ TypeOK /\ Control /\ Content /\ SentTyped /\ Spoken
      /\ ChannelSide("giver") /\ SocketSide("giver") /\ ChannelSide("getter")
      /\ GetterSide /\ GiverSide
  BY TypedSent, Peers DEF Control, StreamInv, Content
<1>1. /\ phase["giver"] = "connecting" /\ host \in {"good", "named"}
      /\ failing' = (host = "named" /\ channel["giver"] = "OPEN")
      /\ UNCHANGED <<client, host, gone, socketVars, paused, got, up>>
  BY DEF Connected
<1>2. PICK r \in {Msg("ok"), Msg("fail")} :
        Link("giver", <<r>>, <<>>) /\ (r = Msg("ok") => host = "good")
  <2>1. CASE host = "named"
    <3>1. Msg("fail") # Msg("ok")
      BY DEF Msg
    <3> QED BY <2>1, <3>1 DEF Connected, GiverLink
  <2>2. CASE host = "good"
    BY <2>2 DEF Connected, GiverLink
  <2> QED BY <1>1, <2>1, <2>2
<1>3. /\ UNCHANGED <<channel, stopping, inbox, toSocket>>
      /\ tcp' = IF tcp["giver"] = "connecting" THEN [tcp EXCEPT !["giver"] = "open"] ELSE tcp
      /\ Grew /\ Spoken' /\ ended' = ended
      /\ sent'["getter"] = sent["getter"]
      /\ fromSocket' = [fromSocket EXCEPT !["giver"] = <<>>]
      /\ \/ /\ channel["giver"] = "OPEN" /\ sent'["giver"][1] = r
            /\ told' = [told EXCEPT !["giver"] = arrived["giver"] + 1]
         \/ channel["giver"] # "OPEN" /\ sent' = sent /\ told' = told
  BY <1>1, <1>2, GiverLinkIs
<1>4. /\ told["giver"] = 0 /\ inbox["giver"] = <<>> /\ toSocket["giver"] = <<>> /\ ~Succeeded
      /\ heard["giver"] >= 2 /\ phase["getter"] # "linked"
  BY <1>0, <1>1 DEF GiverSide, GetterSide, Succeeded
<1>5. told \in [Sides -> Nat] /\ heard \in [Sides -> Nat] /\ arrived \in [Sides -> Nat]
  BY <1>0, Numbers
<1>6. heard["giver"] = 2
  <2>1. heard["giver"] <= told["getter"]
    BY <1>0, HeardTyped, Peers
  <2>2. told["getter"] <= 2
    <3>1. CASE phase["getter"] \in {"opening", "unopened"}
      <4>1. sent["getter"] = <<>>
        BY <3>1, <1>0 DEF ChannelSide
      <4>2. told["getter"] <= Len(sent["getter"])
        BY <1>0, ToldTyped, Peers
      <4> QED BY <4>1, <4>2, <1>5, Nothing, Peers
    <3>2. CASE phase["getter"] \in {"auth", "request", "awaiting", "responding", "failed"}
      BY <3>2, <1>0 DEF GetterSide
    <3> QED BY <3>1, <3>2, <1>0, <1>4 DEF GetterSide
  <2> QED BY <2>1, <2>2, <1>4, <1>5, Peers
<1>7. /\ phase'["giver"] = "linked" /\ phase'["getter"] = phase["getter"]
      /\ phase' \in [Sides -> Phases]
  <2>1. phase \in [Sides -> Phases] /\ "linked" \in Phases
    BY <1>0 DEF TypeOK, Phases
  <2>2. phase' = [phase EXCEPT !["giver"] = "linked"]
    BY <1>2 DEF Link, Set
  <2> QED BY <2>1, <2>2, Peers
<1>8. /\ told'["getter"] = told["getter"]
      /\ \/ channel["giver"] = "OPEN" /\ told'["giver"] = arrived["giver"] + 1
         \/ channel["giver"] # "OPEN" /\ told'["giver"] = 0
  BY <1>3, <1>4, <1>5, Peers
<1>9. heard' = heard /\ heardAll' = heardAll /\ SentTyped' /\ written' = written
  BY <1>0, <1>1, <1>3, HeardStays, SameDerived
<1>10. Succeeded' => host = "good"
  BY <1>2, <1>3, <1>8 DEF Succeeded
<1>11. /\ tcp'["giver"] = IF tcp["giver"] = "connecting" THEN "open" ELSE tcp["giver"]
       /\ tcp'["getter"] = tcp["getter"]
       /\ tcp' \in [Sides -> {"none", "connecting", "open", "closing", "closed"}]
  <2>1. tcp \in [Sides -> {"none", "connecting", "open", "closing", "closed"}]
    BY <1>0 DEF TypeOK
  <2> QED BY <2>1, <1>3, Peers
<1>12. /\ fromSocket' \in [Sides -> Seq(Packets)] /\ fromSocket'["getter"] = fromSocket["getter"]
       /\ queued'["getter"] = queued["getter"]
  BY <1>0, <1>3, DroppedTyped, Peers DEF queued
<1>13. wants' \in [Sides -> {"run", "pause"}] /\ overflow' \in [Sides -> BOOLEAN]
  BY <1>0, <1>2, Peers DEF Link, MayOverflow, Set, TypeOK
<1>14. TypeOK'
  BY <1>0, <1>1, <1>3, <1>7, <1>9, <1>11, <1>12, <1>13 DEF TypeOK, SentTyped, socketVars
<1>15. (\A s \in Sides : ChannelSide(s) /\ SocketSide(s))'
  <2>1. ChannelSide("giver")'
    BY <1>0, <1>1, <1>3, <1>7, <1>9 DEF ChannelSide, Started
  <2>2. SocketSide("giver")'
    <3>1. tcp["giver"] \in {"connecting", "open", "closing", "closed"}
      BY <1>0, <1>1, Peers DEF GiverSide, TypeOK
    <3> QED BY <3>1, <1>0, <1>1, <1>3, <1>7, <1>11 DEF SocketSide, socketVars
  <2>3. SideSame("getter")
    BY <1>1, <1>3, <1>7, <1>9, <1>11 DEF SideSame, socketVars
  <2> QED BY <2>1, <2>2, <2>3, <1>0, BothSides, Peers
<1>16. GetterSide'
  <2>1. AllSame("getter")
    BY <1>1, <1>3, <1>7, <1>8, <1>9, <1>11 DEF SideSame, AllSame, socketVars
  <2> QED BY <2>1, <1>0, <1>4, GetterStays
<1>17. GiverSide'
  <2>1. tcp'["giver"] # "none"
    BY <1>0, <1>1, <1>11 DEF GiverSide
  <2>2. channel'["giver"] # "CLOSING"
    BY <1>0, <1>1, <1>3 DEF ChannelSide
  <2>3. channel'["giver"] = "OPEN" => told'["giver"] = arrived'["giver"] + 1
    BY <1>1, <1>3, <1>8 DEF socketVars
  <2>4. failing' => host' = "named" /\ told'["giver"] >= 1
    <3>1. failing' => host' = "named" /\ channel["giver"] = "OPEN"
      BY <1>1
    <3>2. arrived["giver"] \in Nat
      BY <1>5, Peers
    <3> QED BY <3>1, <3>2, <1>8
  <2>5. "giver" \in ended' /\ told'["giver"] = 0 => "getter" \in ended'
    BY <1>0, <1>1, <1>3, <1>4 DEF GiverSide
  <2> QED BY <2>1, <2>2, <2>3, <2>4, <2>5, <1>1, <1>3, <1>4, <1>6, <1>7, <1>9, <1>10 DEF GiverSide
<1>18. Covered' /\ Written'
  <2>1. arrived' = arrived
    BY <1>1 DEF socketVars
  <2>2. written["giver"] = 0
    BY <1>4, Nothing, Peers DEF written
  <2>3. told'["giver"] <= arrived'["giver"] + 1
    BY <2>1, <1>5, <1>8, Peers
  <2>4. Covered'
    BY <2>1, <2>2, <2>3, <1>0, <1>4, <1>7, <1>8, <1>9 DEF Control, Covered
  <2>5. Written'
    BY <2>2, <1>4, <1>6, <1>7, <1>9 DEF Written
  <2> QED BY <2>4, <2>5
<1>19. QuitsOnce' /\ SaidAll'
  <2>1. phase'["getter"] # "linked"
    BY <1>4, <1>7
  <2>2. channel'["giver"] # "CLOSING"
    BY <1>0, <1>1, <1>3 DEF ChannelSide
  <2> QED BY <2>1, <2>2, Peers DEF QuitsOnce, SaidAll, Sides
<1>20. AnsweredBeforeClose'
  BY <1>0, <1>1, <1>3, <1>7, <1>11 DEF Control, AnsweredBeforeClose
<1>21. Content'
  <2>1. Queued'
    BY <1>0, <1>1, <1>3, <1>7, <1>12 DEF Content, Queued, QueueFrom, socketVars
  <2>2. GiverWrote' /\ GetterWrote'
    BY <1>0, <1>3, <1>7, <1>9 DEF Content, GiverWrote, GetterWrote, Answer
  <2> QED BY <2>1, <2>2, <1>3 DEF Content
<1> QED BY <1>14, <1>15, <1>16, <1>17, <1>18, <1>19, <1>20, <1>21 DEF Control, StreamInv

\* Every step of a Session, of the channel and of the sockets.
LEMMA StreamNext == StreamInv /\ [Next]_vars => StreamInv'
<1> SUFFICES ASSUME StreamInv, [Next]_vars PROVE StreamInv'
  OBVIOUS
<1>1. CASE Getter
  BY <1>1, OpenDataChannelStep, OpenFailsStep, DoAuthHandshakeStep, SendRequestStep, NoRequestStep,
     ResponseStep DEF Getter
<1>2. CASE Giver
  BY <1>2, PeerOpenedChannelStep, ReceiveEndpointStep, ConnectedStep, ConnectFailsStep,
     FailureSentStep DEF Giver
<1>3. CASE ChannelFails
  BY <1>3, ChannelFailsStep
<1>4. ASSUME NEW s \in Sides, Channel(s) PROVE StreamInv'
  BY <1>4, ReceiveStep, CloseArrivesStep, DrainedStep, ChannelLostStep DEF Channel
<1>5. ASSUME NEW s \in Sides, Socket(s) PROVE StreamInv'
  BY <1>5, OnDataStep, OnDisconnectStep DEF Socket
<1>6. ASSUME NEW s \in Sides, OverflowEnds(s) \/ PauseTakesEffect(s) \/ OnceClosed(s)
      PROVE  StreamInv'
  BY <1>6, OverflowEndsStep, PauseStep, OnceClosedStep
<1>7. CASE UNCHANGED vars
  <2>1. UNCHANGED StreamVars
    BY <1>7 DEF vars, StreamVars, socketVars
  <2>2. TypeOK'
    BY <1>7 DEF vars, socketVars, flowVars, StreamInv, TypeOK
  <2> QED BY <2>1, <2>2, StreamStutter DEF StreamInv
<1> QED BY <1>1, <1>2, <1>3, <1>4, <1>5, <1>6, <1>7 DEF Next

-----------------------------------------------------------------------------
(* What the invariant says of the streams *)

\* Sequences with the same members are the same, or one begins the other.
LEMMA SameSequence ==
  ASSUME NEW q \in Seq(Message), NEW t \in Seq(Message), Len(q) = Len(t),
         \A j \in 1..Len(q) : q[j] = t[j]
  PROVE  q = t
<1>1. q = [j \in 1..Len(q) |-> q[j]] /\ t = [j \in 1..Len(t) |-> t[j]]
  OBVIOUS
<1> QED BY <1>1

LEMMA Begins ==
  ASSUME NEW q \in Seq(Message), NEW t \in Seq(Message), Len(q) <= Len(t),
         \A j \in 1..Len(q) : q[j] = t[j]
  PROVE  IsPrefix(q, t)
<1>1. Len(q) \in Nat /\ Len(t) \in Nat
  OBVIOUS
<1>2. /\ SubSeq(q, 1, Len(q)) \in Seq(Message) /\ SubSeq(t, 1, Len(q)) \in Seq(Message)
      /\ Len(SubSeq(q, 1, Len(q))) = Len(q) /\ Len(SubSeq(t, 1, Len(q))) = Len(q)
      /\ \A j \in 1..Len(q) : SubSeq(q, 1, Len(q))[j] = q[j] /\ SubSeq(t, 1, Len(q))[j] = t[j]
  BY <1>1
<1>3. SubSeq(q, 1, Len(q)) = SubSeq(t, 1, Len(q))
  BY <1>2, SameSequence
<1> QED BY <1>1, <1>3 DEF IsPrefix

\* What came from a socket, and what of it is for the other.
LEMMA DataIs ==
  ASSUME TypeOK, NEW s \in Sides
  PROVE  /\ Data(s) \in Seq(Message) /\ Len(Data(s)) = arrived[s]
         /\ \A j \in 1..arrived[s] : Data(s)[j] = Packet(j)
<1>1. arrived[s] \in Nat /\ arrived[s] <= MaxData + 2
  BY SessionAssumption DEF TypeOK
<1>2. \A j \in 1..arrived[s] : j \in Packets
  BY <1>1, SessionAssumption DEF Packets
<1>3. \A j \in 1..arrived[s] : Packet(j) \in Message
  BY <1>2, PacketIsMessage
<1>4. Data(s) = [j \in 1..arrived[s] |-> Packet(j)]
  BY DEF Data
<1> QED BY <1>1, <1>3, <1>4

LEMMA ForHost ==
  ASSUME TypeOK
  PROVE  /\ SubSeq(Data("getter"), 3, arrived["getter"]) \in Seq(Message)
         /\ Len(SubSeq(Data("getter"), 3, arrived["getter"])) =
              IF arrived["getter"] >= 2 THEN arrived["getter"] - 2 ELSE 0
         /\ \A j \in 1..(arrived["getter"] - 2) :
              SubSeq(Data("getter"), 3, arrived["getter"])[j] = Packet(j + 2)
<1> DEFINE d == Data("getter")
           n == arrived["getter"]
<1>1. d \in Seq(Message) /\ Len(d) = n /\ \A j \in 1..n : d[j] = Packet(j)
  BY DataIs, Peers
<1>2. n \in Nat
  BY Numbers, Peers
<1> HIDE DEF d, n
<1>3. /\ SubSeq(d, 3, n) \in Seq(Message)
      /\ Len(SubSeq(d, 3, n)) = IF n >= 2 THEN n - 2 ELSE 0
  BY <1>1, <1>2
<1>4. \A j \in 1..(n - 2) : SubSeq(d, 3, n)[j] = d[j + 2]
  BY <1>1, <1>2
<1>5. \A j \in 1..(n - 2) : d[j + 2] = Packet(j + 2)
  <2> SUFFICES ASSUME NEW j \in 1..(n - 2) PROVE d[j + 2] = Packet(j + 2)
    OBVIOUS
  <2>1. j + 2 \in 1..n
    BY <1>2
  <2> QED BY <2>1, <1>1
<1> QED BY <1>3, <1>4, <1>5 DEF d, n

LEMMA ForClient ==
  ASSUME TypeOK
  PROVE  /\ <<Msg("auth"), Msg("ok")>> \o Data("giver") \in Seq(Message)
         /\ Len(<<Msg("auth"), Msg("ok")>> \o Data("giver")) = arrived["giver"] + 2
         /\ \A j \in 1..(arrived["giver"] + 2) :
              (<<Msg("auth"), Msg("ok")>> \o Data("giver"))[j] = Answer(j)
<1> DEFINE d == Data("giver")
           n == arrived["giver"]
           h == <<Msg("auth"), Msg("ok")>>
<1>1. d \in Seq(Message) /\ Len(d) = n /\ \A j \in 1..n : d[j] = Packet(j)
  BY DataIs, Peers
<1>2. n \in Nat
  BY Numbers, Peers
<1>3. h \in Seq(Message) /\ Len(h) = 2 /\ h[1] = Msg("auth") /\ h[2] = Msg("ok")
  BY Greeting
<1> HIDE DEF d, n, h
<1>4. /\ h \o d \in Seq(Message) /\ Len(h \o d) = n + 2
      /\ \A j \in 1..Len(h) : (h \o d)[j] = h[j]
      /\ \A j \in 1..Len(d) : (h \o d)[Len(h) + j] = d[j]
  <2> DEFINE q == h \o d
  <2>1. /\ q \in Seq(Message) /\ Len(q) = Len(h) + Len(d)
        /\ \A j \in 1..Len(h) : q[j] = h[j]
        /\ \A j \in 1..Len(d) : q[Len(h) + j] = d[j]
    BY <1>1, <1>3, Joined
  <2> HIDE DEF q
  <2>2. Len(q) = n + 2
    BY <2>1, <1>1, <1>2, <1>3
  <2> QED BY <2>1, <2>2 DEF q
<1>5. ASSUME NEW j \in 1..(n + 2) PROVE (h \o d)[j] = Answer(j)
  <2>1. CASE j = 1 \/ j = 2
    <3>1. j \in 1..Len(h)
      BY <2>1, <1>3
    <3> QED BY <2>1, <3>1, <1>3, <1>4 DEF Answer
  <2>2. CASE j # 1 /\ j # 2
    <3>1. j - 2 \in 1..Len(d) /\ Len(h) + (j - 2) = j /\ j - 2 \in 1..n
      BY <2>2, <1>1, <1>2, <1>3
    <3>2. (h \o d)[j] = d[j - 2]
      BY <3>1, <1>4
    <3> QED BY <2>2, <3>1, <3>2, <1>1 DEF Answer
  <2> QED BY <2>1, <2>2
<1> QED BY <1>4, <1>5 DEF d, n, h

\* Each socket is given what came from the other, in order, behind its answers.
LEMMA InOrder == StreamInv => StreamsInOrder
<1> SUFFICES ASSUME StreamInv PROVE StreamsInOrder
  OBVIOUS
<1>0. TypeOK /\ Covered /\ GiverWrote /\ GetterWrote /\ GetterSide
  BY DEF StreamInv, Control, Content
<1>1. /\ \A s \in Sides : toSocket[s] \in Seq(Message) /\ written[s] = Len(toSocket[s])
      /\ \A s \in Sides : written[s] \in Nat /\ arrived[s] \in Nat /\ told[s] \in Nat
  BY <1>0, Numbers DEF TypeOK, written
<1>2. IsPrefix(toSocket["giver"], SubSeq(Data("getter"), 3, arrived["getter"]))
  <2> DEFINE q == toSocket["giver"]
             t == SubSeq(Data("getter"), 3, arrived["getter"])
  <2>1. /\ q \in Seq(Message) /\ Len(q) = written["giver"]
        /\ t \in Seq(Message) /\ Len(t) = IF arrived["getter"] >= 2 THEN arrived["getter"] - 2 ELSE 0
        /\ \A j \in 1..(arrived["getter"] - 2) : t[j] = Packet(j + 2)
        /\ \A j \in 1..written["giver"] : q[j] = Packet(j + 2)
    BY <1>0, <1>1, ForHost, Peers DEF GiverWrote
  <2> HIDE DEF q, t
  <2>2. written["giver"] = 0 \/ written["giver"] <= arrived["getter"] - 2
    BY <1>0, <1>1, Peers DEF Covered
  <2>3. Len(q) <= Len(t)
    BY <2>1, <2>2, <1>1, Peers
  <2>4. \A j \in 1..Len(q) : q[j] = t[j]
    BY <2>1, <2>2, <1>1, Peers
  <2>5. IsPrefix(q, t)
    BY <2>1, <2>3, <2>4, Begins
  <2> QED BY <2>5 DEF q, t
<1>3. \/ IsPrefix(toSocket["getter"], <<Msg("auth"), Msg("ok")>> \o Data("giver"))
      \/ toSocket["getter"] \in {<<Msg("fail")>>, <<Msg("auth"), Msg("fail")>>}
  <2> SUFFICES ASSUME toSocket["getter"] \notin {<<Msg("fail")>>, <<Msg("auth"), Msg("fail")>>}
               PROVE  IsPrefix(toSocket["getter"], <<Msg("auth"), Msg("ok")>> \o Data("giver"))
    OBVIOUS
  <2> DEFINE q == toSocket["getter"]
             t == <<Msg("auth"), Msg("ok")>> \o Data("giver")
  <2>1. /\ q \in Seq(Message) /\ Len(q) = written["getter"]
        /\ t \in Seq(Message) /\ Len(t) = arrived["giver"] + 2
        /\ \A j \in 1..(arrived["giver"] + 2) : t[j] = Answer(j)
    BY <1>0, <1>1, ForClient, Peers
  <2>2. \/ q = <<>> \/ q = <<Msg("auth")>>
        \/ /\ phase["getter"] = "linked" /\ \A j \in 1..written["getter"] : q[j] = Answer(j)
    BY <1>0 DEF GetterWrote
  <2>3. Len(q) <= Len(t) /\ \A j \in 1..Len(q) : q[j] = t[j]
    <3>1. CASE q = <<>>
      <4>1. Len(q) = 0
        BY <3>1
      <4> HIDE DEF q, t
      <4> QED BY <4>1, <2>1, <1>1, Peers
    <3>2. CASE q = <<Msg("auth")>>
      <4>1. Len(q) = 1 /\ q[1] = Msg("auth")
        BY <3>2, Greeting, Single
      <4> HIDE DEF q, t
      <4>2. 1 \in 1..(arrived["giver"] + 2)
        BY <1>1, Peers
      <4>3. t[1] = Msg("auth")
        BY <4>2, <2>1 DEF Answer
      <4>4. \A j \in 1..Len(q) : j = 1
        BY <4>1
      <4> QED BY <4>1, <4>3, <4>4, <2>1, <1>1, Peers
    <3>3. CASE phase["getter"] = "linked" /\ \A j \in 1..written["getter"] : q[j] = Answer(j)
      <4>1. written["getter"] <= arrived["giver"] + 2
        BY <3>3, <1>0, <1>1, Peers DEF Covered
      <4> HIDE DEF q, t
      <4> QED BY <3>3, <4>1, <2>1, <1>1, Peers
    <3> QED BY <2>2, <3>1, <3>2, <3>3
  <2> HIDE DEF q, t
  <2>4. IsPrefix(q, t)
    BY <2>1, <2>3, Begins
  <2> QED BY <2>4 DEF q, t
<1> QED BY <1>2, <1>3 DEF StreamsInOrder

\* When both ends have closed and this Session did not make them, all that its socket
\* delivered has arrived.
LEMMA NothingLost == StreamInv => NothingLostAtClose
<1> SUFFICES ASSUME StreamInv, NEW s \in Sides,
                    left[s], phase[s] = "linked", channel[s] = "CLOSED", up,
                    phase[Peer(s)] = "linked", ~left[Peer(s)]
             PROVE  IF s = "getter"
                    THEN toSocket["giver"] = SubSeq(Data("getter"), 3, arrived["getter"])
                    ELSE toSocket["getter"] = <<Msg("auth"), Msg("ok")>> \o Data("giver")
  BY DEF NothingLostAtClose
<1>0. /\ TypeOK /\ SentTyped /\ GetterSide /\ GiverSide /\ QuitsOnce /\ SaidAll /\ Written
      /\ GiverWrote /\ GetterWrote /\ ChannelSide(s) /\ ChannelSide(Peer(s)) /\ Peer(s) \in Sides
  BY TypedSent, Peers DEF StreamInv, Control, Content
<1>1. phase["getter"] = "linked" /\ phase["giver"] = "linked"
  BY Peers DEF Sides
<1>2. Kept(Peer(s))
  <2>1. host = "good"
    BY <1>0, <1>1 DEF GetterSide, GiverSide
  <2> QED BY <2>1 DEF Kept
<1>3. told[s] = IF s = "getter" THEN arrived[s] ELSE arrived[s] + 1
  BY <1>0, <1>2 DEF SaidAll
<1>4. channel[Peer(s)] = "CLOSED"
  <2>1. Peer(s) \in ended
    BY <1>0, HeardTyped DEF ChannelSide
  <2>2. channel[Peer(s)] # "CLOSING"
    BY <1>0, <1>2 DEF QuitsOnce
  <2>3. channel[Peer(s)] \in {"POOLED", "OPEN", "CLOSING", "DRAINING", "CLOSED", "DEAD"}
    BY <1>0 DEF TypeOK
  <2> QED BY <2>1, <2>2, <2>3, <1>0 DEF ChannelSide
<1>5. heard[Peer(s)] = told[s]
  BY <1>0, <1>4, HeardTyped, Peers DEF ChannelSide
<1>6. /\ \A t \in Sides : toSocket[t] \in Seq(Message) /\ written[t] = Len(toSocket[t])
      /\ \A t \in Sides : written[t] \in Nat /\ arrived[t] \in Nat /\ told[t] \in Nat
  BY <1>0, Numbers DEF TypeOK, written
<1>7. CASE s = "getter"
  <2>1. heard["giver"] >= 2 /\ heard["giver"] = arrived["getter"]
    BY <1>0, <1>1, <1>3, <1>5, <1>7, Peers DEF GiverSide
  <2>2. written["giver"] = arrived["getter"] - 2
    BY <2>1, <1>0, <1>1, <1>2, <1>7, Peers DEF Written
  <2> DEFINE q == toSocket["giver"]
             t == SubSeq(Data("getter"), 3, arrived["getter"])
  <2>3. /\ q \in Seq(Message) /\ Len(q) = arrived["getter"] - 2
        /\ t \in Seq(Message) /\ Len(t) = arrived["getter"] - 2
        /\ \A j \in 1..(arrived["getter"] - 2) : t[j] = Packet(j + 2)
        /\ \A j \in 1..(arrived["getter"] - 2) : q[j] = Packet(j + 2)
    BY <2>1, <2>2, <1>0, <1>6, ForHost, Peers DEF GiverWrote
  <2> HIDE DEF q, t
  <2>4. \A j \in 1..Len(q) : q[j] = t[j]
    BY <2>3
  <2>5. q = t
    BY <2>3, <2>4, SameSequence
  <2> QED BY <2>5, <1>7 DEF q, t
<1>8. CASE s = "giver"
  <2>1. heard["getter"] >= 1 /\ heard["getter"] = arrived["giver"] + 1
    BY <1>0, <1>1, <1>3, <1>5, <1>8, Peers DEF GetterSide
  <2>2. written["getter"] = arrived["giver"] + 2 /\ written["getter"] >= 2
    BY <2>1, <1>0, <1>1, <1>2, <1>6, <1>8, Peers DEF Written
  <2> DEFINE q == toSocket["getter"]
             t == <<Msg("auth"), Msg("ok")>> \o Data("giver")
  <2>3. q \notin {<<>>, <<Msg("auth")>>}
    <3> SUFFICES ASSUME q \in {<<>>, <<Msg("auth")>>} PROVE FALSE
      OBVIOUS
    <3>1. ~(Len(q) >= 2)
      BY Short
    <3> QED BY <3>1, <2>2, <1>6, Peers
  <2>4. /\ q \in Seq(Message) /\ Len(q) = arrived["giver"] + 2
        /\ t \in Seq(Message) /\ Len(t) = arrived["giver"] + 2
        /\ \A j \in 1..(arrived["giver"] + 2) : t[j] = Answer(j)
        /\ \A j \in 1..(arrived["giver"] + 2) : q[j] = Answer(j)
    BY <2>2, <2>3, <1>0, <1>1, <1>6, ForClient, Peers DEF GetterWrote
  <2> HIDE DEF q, t
  <2>5. \A j \in 1..Len(q) : q[j] = t[j]
    BY <2>4
  <2>6. q = t
    BY <2>4, <2>5, SameSequence
  <2> QED BY <2>6, <1>8 DEF q, t
<1> QED BY <1>7, <1>8 DEF Sides

\* Every variable of a Session keeps its type, for any amount of data: in particular
\* neither end has read past what the other has sent.
THEOREM SessionTyped == Spec => []TypeOK
<1>1. StreamInv => TypeOK
  BY DEF StreamInv
<1> QED BY <1>1, StreamInit, StreamNext, PTL DEF Spec

\* Whatever the client and the host are, whenever the sockets, the channel and the Sessions
\* close or fail, and however much is sent: each socket is given what the other delivered,
\* in order, behind the answers of the handshake and nothing of them taken for data; a client
\* that has greeted is answered before the getter closes its socket; and all that a socket
\* delivered before it closed has been written to the other by the time the channel has
\* closed, if that one is still there.
THEOREM StreamsAlwaysComplete == Spec => []StreamsComplete
<1>1. StreamInv => StreamsComplete
  BY InOrder, NothingLost DEF StreamInv, Control, StreamsComplete
<1> QED BY <1>1, StreamInit, StreamNext, PTL DEF Spec
=============================================================================
