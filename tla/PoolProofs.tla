----------------------------- MODULE PoolProofs -----------------------------
(* Proofs about Pool, for any limit of channels and any number of sessions,  *)
(* messages, failures and deaths of channels.                                *)
EXTENDS Pool, Integers, SequenceTheorems, FiniteSetTheorems, TLAPS

Local(c) == <<c, "local">>
Remote(c) == <<c, "remote">>

-----------------------------------------------------------------------------
(* The order of messages.  A position in the history of a port is 2s - 1 in  *)
(* session s and 2s after it; a message takes its reader from one to another. *)

From(m) == 2 * m.session - (IF m.kind = "OPEN" THEN 2 ELSE 1)
To(m) == 2 * m.session - (IF m.kind = "CLOSE" THEN 0 ELSE 1)

\* The messages of q lead on from position a, without gap or repetition, to End(q, a).
Chain(q, a) ==
  q # <<>> => /\ From(q[1]) = a
              /\ \A i \in 1..(Len(q) - 1) : From(q[i + 1]) = To(q[i])
End(q, a) == IF q = <<>> THEN a ELSE To(q[Len(q)])

NoOpen(q) == \A i \in 1..Len(q) : q[i].kind # "OPEN"
UpTo(q, s) == \A i \in 1..Len(q) : q[i].session <= s

LEMMA ChainEmpty ==
  ASSUME NEW a, NEW s
  PROVE  Chain(<<>>, a) /\ End(<<>>, a) = a /\ NoOpen(<<>>) /\ UpTo(<<>>, s)
BY DEF Chain, End, NoOpen, UpTo

LEMMA ChainAppend ==
  ASSUME NEW q \in Seq(Message), NEW m \in Message, NEW a, NEW s \in Nat,
         Chain(q, a), From(m) = End(q, a)
  PROVE  /\ Chain(Append(q, m), a) /\ End(Append(q, m), a) = To(m)
         /\ NoOpen(q) /\ m.kind # "OPEN" => NoOpen(Append(q, m))
         /\ UpTo(q, s) /\ m.session <= s => UpTo(Append(q, m), s)
<1>1. /\ Append(q, m) \in Seq(Message) /\ Append(q, m) # <<>> /\ Len(q) \in Nat
      /\ Len(Append(q, m)) = Len(q) + 1 /\ Append(q, m)[Len(q) + 1] = m
      /\ \A i \in 1..Len(q) : Append(q, m)[i] = q[i]
  OBVIOUS
<1>2. q = <<>> \/ Len(q) >= 1
  OBVIOUS
<1>3. Chain(Append(q, m), a)
  <2>1. From(Append(q, m)[1]) = a
    BY <1>1, <1>2 DEF Chain, End
  <2>2. ASSUME NEW i \in 1..Len(q)
        PROVE  From(Append(q, m)[i + 1]) = To(Append(q, m)[i])
    <3>1. CASE i = Len(q)
      BY <1>1, <3>1 DEF End
    <3>2. CASE i < Len(q)
      <4>1. i + 1 \in 1..Len(q) /\ i \in 1..(Len(q) - 1)
        BY <1>1, <3>2
      <4> QED
        BY <1>1, <4>1 DEF Chain
    <3> QED
      BY <1>1, <3>1, <3>2
  <2> QED
    BY <1>1, <2>1, <2>2 DEF Chain
<1> QED
  BY <1>1, <1>3 DEF End, NoOpen, UpTo

LEMMA ChainTail ==
  ASSUME NEW q \in Seq(Message), q # <<>>, NEW a, NEW s, Chain(q, a)
  PROVE  /\ From(Head(q)) = a
         /\ Chain(Tail(q), To(Head(q))) /\ End(Tail(q), To(Head(q))) = End(q, a)
         /\ NoOpen(q) => NoOpen(Tail(q)) /\ Head(q).kind # "OPEN"
         /\ UpTo(q, s) => UpTo(Tail(q), s) /\ Head(q).session <= s
<1>1. /\ Tail(q) \in Seq(Message) /\ Len(q) \in Nat /\ Len(q) >= 1 /\ Head(q) = q[1]
      /\ Len(Tail(q)) = Len(q) - 1
      /\ \A i \in 1..(Len(q) - 1) : Tail(q)[i] = q[i + 1]
  OBVIOUS
<1>2. Tail(q) = <<>> <=> Len(q) = 1
  BY <1>1
<1>3. Chain(Tail(q), To(Head(q)))
  <2>1. CASE Len(q) = 1
    BY <1>2, <2>1 DEF Chain
  <2>2. CASE Len(q) > 1
    <3>1. From(Tail(q)[1]) = To(Head(q))
      BY <1>1, <2>2 DEF Chain
    <3>2. ASSUME NEW i \in 1..(Len(Tail(q)) - 1)
          PROVE  From(Tail(q)[i + 1]) = To(Tail(q)[i])
      <4>1. i + 1 \in 1..(Len(q) - 1) /\ i \in 1..(Len(q) - 1)
        BY <1>1
      <4>2. From(q[(i + 1) + 1]) = To(q[i + 1])
        BY <4>1 DEF Chain
      <4> QED
        BY <1>1, <4>1, <4>2
    <3> QED
      BY <3>1, <3>2 DEF Chain
  <2> QED
    BY <1>1, <2>1, <2>2
<1>4. End(Tail(q), To(Head(q))) = End(q, a)
  BY <1>1, <1>2 DEF End
<1>5. \A i \in 1..Len(Tail(q)) : i + 1 \in 1..Len(q) /\ Tail(q)[i] = q[i + 1]
  BY <1>1
<1>6. 1 \in 1..Len(q)
  BY <1>1
<1>7. From(Head(q)) = a
  BY <1>1 DEF Chain
<1>8. NoOpen(q) => NoOpen(Tail(q)) /\ Head(q).kind # "OPEN"
  BY <1>1, <1>5, <1>6 DEF NoOpen
<1>9. UpTo(q, s) => UpTo(Tail(q), s) /\ Head(q).session <= s
  BY <1>1, <1>5, <1>6 DEF UpTo
<1> QED
  BY <1>3, <1>4, <1>7, <1>8, <1>9

\* Only OPEN leads on from the position after a session.
LEMMA ChainStops ==
  ASSUME NEW q \in Seq(Message), NEW s \in Nat, Chain(q, 2 * s), NoOpen(q)
  PROVE  q = <<>>
<1> SUFFICES ASSUME q # <<>> PROVE FALSE
  OBVIOUS
<1>1. q[1] \in Message /\ q[1].kind # "OPEN" /\ From(q[1]) = 2 * s
  BY DEF Chain, NoOpen
<1>2. q[1].session \in Nat
  BY <1>1, PoolAssumption DEF Message
<1> QED
  BY <1>1, <1>2 DEF From

LEMMA UpToMonotonic ==
  ASSUME NEW q \in Seq(Message), NEW s \in Nat, NEW t \in Nat, s <= t, UpTo(q, s)
  PROVE  UpTo(q, t)
<1> SUFFICES ASSUME NEW i \in 1..Len(q) PROVE q[i].session <= t
  BY DEF UpTo
<1>1. q[i] \in Message /\ q[i].session <= s
  BY DEF UpTo
<1>2. q[i].session \in Nat
  BY <1>1, PoolAssumption DEF Message
<1> QED
  BY <1>1, <1>2

-----------------------------------------------------------------------------
(* The invariant *)

\* What has arrived at a port, or is on its way to it.
Stream(p) == inbox[p] \o wire[p]

\* How far a port has read, and how far it has written.  A port that drains has read
\* the CLOSE of its peer, a port that waits for an answer has written its own.
In(p) ==
  2 * session[p]
  - (IF state[p] = "OPEN" \/ (state[p] = "CLOSING" /\ drain[p] = "idle") THEN 1 ELSE 0)
Out(p) ==
  2 * session[p]
  - (IF state[p] = "OPEN" \/ (state[p] = "CLOSING" /\ drain[p] = "draining") THEN 1 ELSE 0)

\* A port by itself.  Its queue is stopped exactly while it answers a CLOSE; if the
\* channel has closed, the queue never has its handler again.
AbsentPort(p) ==
  state[p] = "ABSENT" =>
    session[p] = 0 /\ ~on[p] /\ data[p] = <<>> /\ drain[p] = "idle" /\ ~closer[p]

LivePort(p) ==
  ~dead[p] /\ state[p] # "ABSENT" =>
    /\ state[p] # "PERMANENTLY_CLOSED"
    /\ on[p] <=> drain[p] = "idle"
    /\ drain[p] # "idle" => state[p] = "CLOSING"
    /\ closer[p] <=> state[p] = "CLOSING" /\ drain[p] = "idle"
    /\ state[p] = "CLOSED" => data[p] = <<>>
    /\ state[p] \in {"OPEN", "CLOSING"} => session[p] > 0

DeadPort(p) ==
  dead[p] => /\ wire[p] = <<>> /\ ~Busy(p)
             /\ drain[p] # "idle" => state[p] = "PERMANENTLY_CLOSED"

PortData(p) ==
  /\ \A i \in 1..Len(data[p]) : data[p][i] = session[p]
  /\ data[p] # <<>> => last[p] = "pending"
  /\ drain[p] = "acking" => data[p] = <<>>

PortInv(p) == AbsentPort(p) /\ LivePort(p) /\ DeadPort(p) /\ PortData(p) /\ ~reopen[p]

\* The two ends of a channel.  The remote one is a session behind while the OPEN is on
\* its way, and then there is nothing for the local one.
Ends(c) ==
  /\ session[Remote(c)] <= session[Local(c)] /\ session[Local(c)] <= session[Remote(c)] + 1
  /\ state[Local(c)] = "ABSENT" =>
       /\ state[Remote(c)] = "ABSENT" /\ ~dead[Local(c)] /\ ~dead[Remote(c)]
       /\ Stream(Local(c)) = <<>> /\ Stream(Remote(c)) = <<>>
  /\ dead[Remote(c)] => state[Remote(c)] \in {"ABSENT", "PERMANENTLY_CLOSED"}

ToLocal(c) ==
  /\ NoOpen(Stream(Local(c)))
  /\ ~dead[Local(c)] =>
       /\ Chain(Stream(Local(c)), In(Local(c)))
       /\ session[Local(c)] # session[Remote(c)] =>
            Stream(Local(c)) = <<>> /\ In(Local(c)) = 2 * session[Local(c)] - 1

ToRemote(c) ==
  /\ UpTo(Stream(Remote(c)), session[Local(c)])
  /\ ~dead[Remote(c)] => Chain(Stream(Remote(c)), In(Remote(c)))

\* What one has written and the other not read is in the stream, until the channel closes.
Complete(c) ==
  ~dead[Local(c)] /\ ~dead[Remote(c)] =>
    /\ End(Stream(Remote(c)), In(Remote(c))) = Out(Local(c))
    /\ IF session[Local(c)] = session[Remote(c)]
         THEN End(Stream(Local(c)), In(Local(c))) = Out(Remote(c))
         ELSE Out(Remote(c)) = 2 * session[Remote(c)]

InPool(c) == \E i \in 1..Len(pool) : pool[i] = c

Idle(c) ==
  InPool(c) =>
    /\ state[Local(c)] \in {"CLOSED", "PERMANENTLY_CLOSED"}
    /\ Stream(Local(c)) = <<>> /\ data[Local(c)] = <<>> /\ drain[Local(c)] = "idle"
    /\ session[Local(c)] = session[Remote(c)]

Entered(c) ==
  /\ state[Local(c)] # "ABSENT" => (c \in channels <=> ~dead[Local(c)])
  /\ state[Local(c)] = "ABSENT" /\ c \in channels => pending[c] > 0

ChannelInv(c) ==
  Ends(c) /\ ToLocal(c) /\ ToRemote(c) /\ Complete(c) /\ Idle(c) /\ Entered(c)

\* The calls outstanding, as many as pending counts.
Outstanding == {x \in Channels \X (1..MaxOpens) : x[2] <= pending[x[1]]}

Counts ==
  /\ \A c \in Channels : pending[c] <= opens /\ session[Local(c)] <= opens
  /\ Cardinality(Outstanding) <= nextId
  /\ \A i, j \in 1..Len(pool) : i # j => pool[i] # pool[j]

IInv ==
  /\ TypeOK /\ Counts
  /\ \A p \in Ports : PortInv(p)
  /\ \A c \in Channels : ChannelInv(c)

-----------------------------------------------------------------------------
(* Steps that are about one channel *)

LEMMA PortsAre ==
  /\ \A c \in Channels : /\ Local(c) \in Ports /\ Remote(c) \in Ports /\ Local(c) # Remote(c)
                         /\ Peer(Local(c)) = Remote(c) /\ Peer(Remote(c)) = Local(c)
                         /\ Local(c)[1] = c /\ Remote(c)[1] = c
                         /\ Local(c)[2] = "local" /\ Remote(c)[2] = "remote"
  /\ \A p \in Ports : /\ p[1] \in Channels /\ p \in {Local(p[1]), Remote(p[1])}
                      /\ Peer(p) \in Ports /\ Peer(p) # p /\ Peer(p)[1] = p[1]
BY DEF Ports, Local, Remote, Peer

\* What the streams are compared with at a port.
Alike(p) ==
  /\ session'[p] = session[p] /\ dead'[p] = dead[p] /\ Stream(p)' = Stream(p)
  /\ In(p)' = In(p) /\ Out(p)' = Out(p)

SameButWire(p) ==
  /\ state'[p] = state[p] /\ inbox'[p] = inbox[p] /\ on'[p] = on[p] /\ data'[p] = data[p]
  /\ last'[p] = last[p] /\ drain'[p] = drain[p] /\ reopen'[p] = reopen[p]
  /\ dead'[p] = dead[p] /\ session'[p] = session[p] /\ closer'[p] = closer[p]
  /\ dead[p] => wire'[p] = wire[p]

SameChannel(c) ==
  /\ InPool(c)' <=> InPool(c)
  /\ c \in channels' <=> c \in channels
  /\ pending'[c] = pending[c]

\* The step is about channel c.
About(c) ==
  /\ \A q \in Ports : q[1] # c => SameButWire(q) /\ wire'[q] = wire[q]
  /\ \A d \in Channels : d # c => SameChannel(d)

LEMMA PortFrame ==
  ASSUME NEW p, PortInv(p), SameButWire(p)
  PROVE  PortInv(p)'
BY DEF PortInv, AbsentPort, LivePort, DeadPort, PortData, Busy, SameButWire

LEMMA StreamsFrame ==
  ASSUME NEW c, ChannelInv(c), Alike(Local(c)), Alike(Remote(c)),
         state'[Local(c)] = "ABSENT" => state[Local(c)] = "ABSENT",
         state'[Local(c)] = "ABSENT" \/ dead[Remote(c)] => state'[Remote(c)] = state[Remote(c)]
  PROVE  Ends(c)' /\ ToLocal(c)' /\ ToRemote(c)' /\ Complete(c)'
<1>1. Ends(c)'
  BY DEF ChannelInv, Ends, Alike
<1>2. ToLocal(c)' /\ ToRemote(c)'
  BY DEF ChannelInv, ToLocal, ToRemote, Alike
<1>3. Complete(c)'
  BY DEF ChannelInv, Complete, Alike
<1> QED
  BY <1>1, <1>2, <1>3

LEMMA ChannelFrame ==
  ASSUME NEW c, ChannelInv(c), Alike(Local(c)), Alike(Remote(c)), SameChannel(c),
         state'[Local(c)] = state[Local(c)], state'[Remote(c)] = state[Remote(c)],
         InPool(c) => data'[Local(c)] = <<>> /\ drain'[Local(c)] = "idle"
  PROVE  ChannelInv(c)'
<1>1. Ends(c)' /\ ToLocal(c)' /\ ToRemote(c)' /\ Complete(c)'
  BY StreamsFrame
<1>2. Idle(c)'
  BY DEF ChannelInv, Idle, Alike, SameChannel
<1>3. Entered(c)'
  BY DEF ChannelInv, Entered, Alike, SameChannel
<1> QED
  BY <1>1, <1>2, <1>3 DEF ChannelInv

LEMMA OtherChannels ==
  ASSUME IInv, NEW c \in Channels, About(c),
         PortInv(Local(c))', PortInv(Remote(c))', ChannelInv(c)'
  PROVE  (\A p \in Ports : PortInv(p)') /\ (\A d \in Channels : ChannelInv(d)')
<1>1. ASSUME NEW p \in Ports PROVE PortInv(p)'
  <2>1. CASE p[1] = c
    BY <2>1, PortsAre
  <2>2. CASE p[1] # c
    BY <2>2, PortFrame DEF About, IInv
  <2> QED
    BY <2>1, <2>2
<1>2. ASSUME NEW d \in Channels PROVE ChannelInv(d)'
  <2>1. CASE d = c
    BY <2>1
  <2>2. CASE d # c
    <3>1. /\ SameButWire(Local(d)) /\ wire'[Local(d)] = wire[Local(d)]
          /\ SameButWire(Remote(d)) /\ wire'[Remote(d)] = wire[Remote(d)] /\ SameChannel(d)
      BY <2>2, PortsAre DEF About
    <3>2. Alike(Local(d)) /\ Alike(Remote(d))
      BY <3>1 DEF Alike, SameButWire, Stream, In, Out
    <3>3. /\ ChannelInv(d)
          /\ InPool(d) => data'[Local(d)] = <<>> /\ drain'[Local(d)] = "idle"
          /\ state'[Local(d)] = state[Local(d)] /\ state'[Remote(d)] = state[Remote(d)]
      BY <3>1 DEF IInv, ChannelInv, Idle, SameButWire
    <3> QED
      BY <3>1, <3>2, <3>3, ChannelFrame
  <2> QED
    BY <2>1, <2>2
<1> QED
  BY <1>1, <1>2

LEMMA Types ==
  ASSUME TypeOK
  PROVE  /\ MaxOpens \in Nat /\ maxChannels \in Nat /\ maxChannels >= 1
         /\ \A p \in Ports : /\ session[p] \in Nat /\ inbox[p] \in Seq(Message)
                             /\ wire[p] \in Seq(Message) /\ data[p] \in Seq(0..MaxOpens)
                             /\ Stream(p) \in Seq(Message)
         /\ pool \in Seq(Channels)
         /\ \A m \in Message : /\ m.session \in Nat /\ m.session <= MaxOpens
                               /\ m.kind \in {"OPEN", "CLOSE", "data"}
<1>1. /\ MaxOpens \in Nat /\ maxChannels \in Nat /\ maxChannels >= 1
      /\ \A m \in Message : /\ m.session \in Nat /\ m.session <= MaxOpens
                            /\ m.kind \in {"OPEN", "CLOSE", "data"}
  BY PoolAssumption DEF Message
<1>2. \A p \in Ports : /\ session[p] \in Nat /\ inbox[p] \in Seq(Message)
                       /\ wire[p] \in Seq(Message) /\ data[p] \in Seq(0..MaxOpens)
  BY <1>1 DEF TypeOK
<1>3. \A p \in Ports : Stream(p) \in Seq(Message)
  BY <1>2 DEF Stream
<1> QED
  BY <1>1, <1>2, <1>3 DEF TypeOK

\* What is posted comes to the end of the stream, unless the channel has closed.
LEMMA PostStreams ==
  ASSUME TypeOK, NEW p \in Ports, NEW kind \in {"OPEN", "CLOSE", "data"},
         NEW s \in 0..MaxOpens, Post(p, kind, s), inbox' = inbox
  PROVE  LET m == [kind |-> kind, session |-> s] IN
         /\ m \in Message /\ wire' \in [Ports -> Seq(Message)]
         /\ \A q \in Ports : q # Peer(p) => wire'[q] = wire[q] /\ Stream(q)' = Stream(q)
         /\ dead[p] \/ dead[Peer(p)] => wire' = wire /\ Stream(Peer(p))' = Stream(Peer(p))
         /\ ~dead[p] /\ ~dead[Peer(p)] => Stream(Peer(p))' = Append(Stream(Peer(p)), m)
<1> DEFINE m == [kind |-> kind, session |-> s]
<1>1. m \in Message /\ Peer(p) \in Ports
  BY PortsAre DEF Message
<1>2. wire \in [Ports -> Seq(Message)] /\ inbox \in [Ports -> Seq(Message)]
  BY DEF TypeOK
<1>3. CASE dead[p] \/ dead[Peer(p)]
  BY <1>1, <1>2, <1>3 DEF Post, Stream
<1>4. CASE ~dead[p] /\ ~dead[Peer(p)]
  <2>1. wire' = [wire EXCEPT ![Peer(p)] = Append(@, m)]
    BY <1>4 DEF Post
  <2>2. /\ wire' \in [Ports -> Seq(Message)] /\ wire'[Peer(p)] = Append(wire[Peer(p)], m)
        /\ \A q \in Ports : q # Peer(p) => wire'[q] = wire[q]
    BY <1>1, <1>2, <2>1
  <2>3. inbox[Peer(p)] \o Append(wire[Peer(p)], m) = Append(inbox[Peer(p)] \o wire[Peer(p)], m)
    BY <1>1, <1>2
  <2> QED
    BY <1>1, <1>4, <2>2, <2>3 DEF Stream
<1> QED
  BY <1>3, <1>4

-----------------------------------------------------------------------------
(* What an end writes and reads *)

\* A message m is added to the stream to p, unless the channel has closed.
Posted(p, m) ==
  /\ dead[p] \/ dead[Peer(p)] => Stream(p)' = Stream(p)
  /\ ~dead[p] /\ ~dead[Peer(p)] => Stream(p)' = Append(Stream(p), m)

SameEnds(c) ==
  /\ session'[Local(c)] = session[Local(c)] /\ session'[Remote(c)] = session[Remote(c)]
  /\ dead'[Local(c)] = dead[Local(c)] /\ dead'[Remote(c)] = dead[Remote(c)]

LEMMA LocalWrites ==
  ASSUME TypeOK, NEW c \in Channels, ChannelInv(c), NEW m \in Message,
         SameEnds(c),
         In(Remote(c))' = In(Remote(c)), Out(Remote(c))' = Out(Remote(c)),
         state'[Remote(c)] = state[Remote(c)],
         Stream(Local(c))' = Stream(Local(c)), In(Local(c))' = In(Local(c)),
         state[Local(c)] # "ABSENT", state'[Local(c)] # "ABSENT",
         ~InPool(c), SameChannel(c), Posted(Remote(c), m),
         m.session = session[Local(c)], From(m) = Out(Local(c)), To(m) = Out(Local(c))'
  PROVE  ChannelInv(c)'
<1> DEFINE l == Local(c)
           r == Remote(c)
<1> /\ l \in Ports /\ r \in Ports /\ Peer(r) = l
  BY PortsAre
<1> /\ Stream(r) \in Seq(Message) /\ session[l] \in Nat
  BY Types
<1>1. Ends(c)'
  <2> USE DEF SameEnds
  <2> QED
    BY DEF ChannelInv, Ends
<1>2. ToLocal(c)'
  BY DEF ChannelInv, ToLocal, SameEnds
<1>3. CASE dead[l] \/ dead[r]
  <2>1. Stream(r)' = Stream(r)
    BY <1>3 DEF Posted
  <2>2. ToRemote(c)' /\ Complete(c)'
    BY <1>3, <2>1 DEF ChannelInv, ToRemote, Complete, SameEnds
  <2> QED
    BY <1>1, <1>2, <2>2 DEF ChannelInv, Idle, Entered, SameChannel, SameEnds
<1>4. CASE ~dead[l] /\ ~dead[r]
  <2>1. Stream(r)' = Append(Stream(r), m)
    BY <1>4 DEF Posted
  <2>2. /\ Chain(Stream(r), In(r)) /\ UpTo(Stream(r), session[l])
        /\ From(m) = End(Stream(r), In(r))
    BY <1>4 DEF ChannelInv, ToRemote, Complete
  <2>3. /\ Chain(Append(Stream(r), m), In(r)) /\ End(Append(Stream(r), m), In(r)) = To(m)
        /\ UpTo(Append(Stream(r), m), session[l])
    BY <2>2, ChainAppend
  <2>4. ToRemote(c)' /\ Complete(c)'
    BY <1>4, <2>1, <2>3 DEF ChannelInv, ToRemote, Complete, SameEnds
  <2> QED
    BY <1>1, <1>2, <2>4 DEF ChannelInv, Idle, Entered, SameChannel, SameEnds
<1> QED
  BY <1>3, <1>4

LEMMA RemoteWrites ==
  ASSUME TypeOK, NEW c \in Channels, ChannelInv(c), NEW m \in Message, m.kind # "OPEN",
         SameEnds(c),
         In(Local(c))' = In(Local(c)), Out(Local(c))' = Out(Local(c)),
         state'[Local(c)] = state[Local(c)], data'[Local(c)] = data[Local(c)],
         drain'[Local(c)] = drain[Local(c)],
         Stream(Remote(c))' = Stream(Remote(c)), In(Remote(c))' = In(Remote(c)),
         state[Remote(c)] # "ABSENT", dead[Remote(c)] => state'[Remote(c)] = state[Remote(c)],
         SameChannel(c), Posted(Local(c), m),
         From(m) = Out(Remote(c)), To(m) = Out(Remote(c))'
  PROVE  ChannelInv(c)'
<1> DEFINE l == Local(c)
           r == Remote(c)
<1> /\ l \in Ports /\ r \in Ports /\ Peer(l) = r
  BY PortsAre
<1> /\ Stream(l) \in Seq(Message) /\ session[l] \in Nat /\ session[r] \in Nat
    /\ m.session \in Nat
  BY Types
<1>1. Ends(c)'
  BY DEF ChannelInv, Ends, SameEnds
<1>2. ToRemote(c)'
  BY DEF ChannelInv, ToRemote, SameEnds
<1>3. CASE dead[l] \/ dead[r]
  <2>1. Stream(l)' = Stream(l)
    BY <1>3 DEF Posted
  <2>2. ToLocal(c)' /\ Complete(c)' /\ Idle(c)'
    BY <1>3, <2>1 DEF ChannelInv, ToLocal, Complete, Idle, SameEnds, SameChannel
  <2> QED
    BY <1>1, <1>2, <2>2 DEF ChannelInv, Entered, SameChannel, SameEnds
<1>4. CASE ~dead[l] /\ ~dead[r]
  <2>1. Stream(l)' = Append(Stream(l), m)
    BY <1>4 DEF Posted
  <2>2. session[l] = session[r]
    <3>1. session[l] # session[r] => 2 * m.session - 1 = 2 * session[r]
      BY <1>4 DEF ChannelInv, Complete, From
    <3> QED
      BY <3>1
  <2>3. /\ Chain(Stream(l), In(l)) /\ NoOpen(Stream(l)) /\ From(m) = End(Stream(l), In(l))
    BY <1>4, <2>2 DEF ChannelInv, ToLocal, Complete
  <2>4. /\ Chain(Append(Stream(l), m), In(l)) /\ End(Append(Stream(l), m), In(l)) = To(m)
        /\ NoOpen(Append(Stream(l), m))
    BY <2>3, ChainAppend
  <2>5. ~InPool(c)
    <3> SUFFICES ASSUME InPool(c) PROVE FALSE
      OBVIOUS
    <3>1. Stream(l) = <<>> /\ state[l] \in {"CLOSED", "PERMANENTLY_CLOSED"}
      BY DEF ChannelInv, Idle
    <3>2. In(l) = 2 * session[l] /\ From(m) = In(l)
      BY <2>3, <3>1 DEF In, End
    <3> QED
      BY <3>2 DEF From
  <2>6. ToLocal(c)' /\ Complete(c)'
    BY <1>4, <2>1, <2>2, <2>4 DEF ChannelInv, ToLocal, Complete, SameEnds
  <2> QED
    BY <1>1, <1>2, <2>5, <2>6 DEF ChannelInv, Idle, Entered, SameChannel, SameEnds
<1> QED
  BY <1>3, <1>4

LEMMA LocalReads ==
  ASSUME TypeOK, NEW c \in Channels, ChannelInv(c), SameEnds(c), Alike(Remote(c)),
         state'[Remote(c)] = state[Remote(c)],
         ~dead[Local(c)], state[Local(c)] # "ABSENT", state'[Local(c)] # "ABSENT",
         Stream(Local(c)) # <<>>, Stream(Local(c))' = Tail(Stream(Local(c))),
         In(Local(c))' = To(Head(Stream(Local(c)))), Out(Local(c))' = Out(Local(c)),
         channels' = channels,
         InPool(c)' => /\ state'[Local(c)] = "CLOSED" /\ data'[Local(c)] = <<>>
                       /\ drain'[Local(c)] = "idle"
  PROVE  ChannelInv(c)'
<1> DEFINE l == Local(c)
           r == Remote(c)
           m == Head(Stream(l))
<1> /\ l \in Ports /\ r \in Ports
  BY PortsAre
<1> /\ Stream(l) \in Seq(Message) /\ session[l] \in Nat /\ Tail(Stream(l)) \in Seq(Message)
  BY Types
<1>1. Chain(Stream(l), In(l)) /\ NoOpen(Stream(l)) /\ session[l] = session[r]
  BY DEF ChannelInv, ToLocal
<1>2. /\ Chain(Tail(Stream(l)), To(m)) /\ NoOpen(Tail(Stream(l)))
      /\ End(Tail(Stream(l)), To(m)) = End(Stream(l), In(l))
  BY <1>1, ChainTail
<1>3. Ends(c)' /\ ToRemote(c)'
  BY DEF ChannelInv, Ends, ToRemote, SameEnds, Alike
<1>4. ToLocal(c)' /\ Complete(c)'
  BY <1>1, <1>2 DEF ChannelInv, ToLocal, Complete, SameEnds, Alike
<1>5. Idle(c)'
  <2> SUFFICES ASSUME InPool(c)' PROVE Stream(l)' = <<>>
    BY <1>1 DEF Idle, SameEnds
  <2>1. In(l)' = 2 * session[l]
    BY DEF In, SameEnds
  <2> QED
    BY <1>2, <2>1, ChainStops
<1> QED
  BY <1>3, <1>4, <1>5 DEF ChannelInv, Entered, SameEnds

LEMMA RemoteReads ==
  ASSUME TypeOK, NEW c \in Channels, ChannelInv(c), SameEnds(c), Alike(Local(c)),
         state'[Local(c)] = state[Local(c)], data'[Local(c)] = data[Local(c)],
         drain'[Local(c)] = drain[Local(c)],
         ~dead[Remote(c)], state[Remote(c)] # "ABSENT",
         Stream(Remote(c)) # <<>>, Stream(Remote(c))' = Tail(Stream(Remote(c))),
         In(Remote(c))' = To(Head(Stream(Remote(c)))), Out(Remote(c))' = Out(Remote(c)),
         SameChannel(c)
  PROVE  ChannelInv(c)'
<1> DEFINE l == Local(c)
           r == Remote(c)
           m == Head(Stream(r))
<1> /\ l \in Ports /\ r \in Ports
  BY PortsAre
<1> /\ Stream(r) \in Seq(Message) /\ session[l] \in Nat
  BY Types
<1>1. Chain(Stream(r), In(r)) /\ UpTo(Stream(r), session[l])
  BY DEF ChannelInv, ToRemote
<1>2. /\ Chain(Tail(Stream(r)), To(m)) /\ UpTo(Tail(Stream(r)), session[l])
      /\ End(Tail(Stream(r)), To(m)) = End(Stream(r), In(r))
  BY <1>1, ChainTail
<1>3. Ends(c)' /\ ToLocal(c)'
  BY DEF ChannelInv, Ends, ToLocal, SameEnds, Alike
<1>4. ToRemote(c)' /\ Complete(c)'
  BY <1>1, <1>2 DEF ChannelInv, ToRemote, Complete, SameEnds, Alike
<1> QED
  BY <1>3, <1>4 DEF ChannelInv, Idle, Entered, SameEnds, Alike, SameChannel

\* OPEN takes the remote end to the session of the local one.
LEMMA RemoteOpens ==
  ASSUME TypeOK, NEW c \in Channels, ChannelInv(c), Alike(Local(c)),
         state'[Local(c)] = state[Local(c)], SameChannel(c),
         ~dead[Remote(c)], state[Remote(c)] = "CLOSED", state'[Remote(c)] = "OPEN",
         session'[Remote(c)] = session[Remote(c)] + 1, dead'[Remote(c)] = dead[Remote(c)],
         Stream(Remote(c)) # <<>>, Stream(Remote(c))' = Tail(Stream(Remote(c))),
         Head(Stream(Remote(c))).kind = "OPEN"
  PROVE  ChannelInv(c)'
<1> DEFINE l == Local(c)
           r == Remote(c)
           m == Head(Stream(r))
<1> /\ l \in Ports /\ r \in Ports
  BY PortsAre
<1> /\ Stream(r) \in Seq(Message) /\ session[l] \in Nat /\ session[r] \in Nat
    /\ m \in Message /\ m.session \in Nat
  BY Types
<1>1. Chain(Stream(r), In(r)) /\ UpTo(Stream(r), session[l])
  BY DEF ChannelInv, ToRemote
<1>2. /\ From(m) = In(r) /\ m.session <= session[l]
      /\ Chain(Tail(Stream(r)), To(m)) /\ UpTo(Tail(Stream(r)), session[l])
      /\ End(Tail(Stream(r)), To(m)) = End(Stream(r), In(r))
  BY <1>1, ChainTail
<1>3. In(r) = 2 * session[r] /\ m.session = session[r] + 1
  <2>1. In(r) = 2 * session[r] /\ From(m) = 2 * m.session - 2
    BY DEF In, From
  <2> QED
    BY <1>2, <2>1
<1>4. session[l] = session[r] + 1
  BY <1>2, <1>3 DEF ChannelInv, Ends
<1>5. In(r)' = 2 * session[l] - 1 /\ Out(r)' = 2 * session[l] - 1 /\ To(m) = 2 * session[l] - 1
  BY <1>3, <1>4 DEF In, Out, To
<1>6. Ends(c)'
  BY <1>4 DEF ChannelInv, Ends, Alike
<1>7. ToLocal(c)' /\ ToRemote(c)'
  BY <1>2, <1>4, <1>5 DEF ChannelInv, ToLocal, ToRemote, Alike
<1>8. Complete(c)'
  <2> SUFFICES ASSUME ~dead[l], ~dead[r]
               PROVE  /\ End(Stream(r)', In(r)') = Out(l)'
                      /\ session'[l] = session'[r] /\ End(Stream(l)', In(l)') = Out(r)'
    BY DEF Complete, Alike
  <2>1. End(Stream(r)', In(r)') = Out(l)'
    BY <1>2, <1>5 DEF ChannelInv, Complete, Alike
  <2>2. Stream(l) = <<>> /\ In(l) = 2 * session[l] - 1
    BY <1>4 DEF ChannelInv, ToLocal
  <2> QED
    BY <1>4, <1>5, <2>1, <2>2 DEF Alike, End
<1>9. ~InPool(c) /\ ~InPool(c)'
  BY <1>4 DEF ChannelInv, Idle, SameChannel
<1> QED
  BY <1>6, <1>7, <1>8, <1>9 DEF ChannelInv, Idle, Entered, Alike, SameChannel

\* The local end opens the next session.
LEMMA LocalOpens ==
  ASSUME TypeOK, NEW c \in Channels, ChannelInv(c), NEW m \in Message,
         state[Local(c)] \in {"ABSENT", "CLOSED", "PERMANENTLY_CLOSED"},
         session[Local(c)] = session[Remote(c)], Stream(Local(c)) = <<>>,
         state'[Local(c)] = "OPEN", session'[Local(c)] = session[Local(c)] + 1,
         dead'[Local(c)] = dead[Local(c)], Stream(Local(c))' = Stream(Local(c)),
         dead[Local(c)] => state[Local(c)] # "ABSENT",
         m.kind = "OPEN", m.session = session[Local(c)] + 1, Posted(Remote(c), m),
         state'[Remote(c)] = state[Remote(c)], session'[Remote(c)] = session[Remote(c)],
         dead'[Remote(c)] = dead[Remote(c)],
         In(Remote(c))' = In(Remote(c)), Out(Remote(c))' = Out(Remote(c)),
         ~InPool(c)', c \in channels <=> ~dead[Local(c)], channels' = channels
  PROVE  ChannelInv(c)'
<1> DEFINE l == Local(c)
           r == Remote(c)
<1> /\ l \in Ports /\ r \in Ports /\ Peer(r) = l
  BY PortsAre
<1> /\ Stream(r) \in Seq(Message) /\ session[l] \in Nat /\ session[r] \in Nat
  BY Types
<1>1. /\ In(l) = 2 * session[l] /\ Out(l) = 2 * session[l] /\ From(m) = 2 * session[l]
      /\ In(l)' = 2 * session[l] + 1 /\ Out(l)' = 2 * session[l] + 1 /\ To(m) = 2 * session[l] + 1
  <2>1. In(l) = 2 * session[l] /\ Out(l) = 2 * session[l]
    BY DEF In, Out
  <2>2. In(l)' = 2 * (session[l] + 1) - 1 /\ Out(l)' = 2 * (session[l] + 1) - 1
    BY DEF In, Out
  <2>3. From(m) = 2 * (session[l] + 1) - 2 /\ To(m) = 2 * (session[l] + 1) - 1
    BY DEF From, To
  <2> QED
    BY <2>1, <2>2, <2>3
<1>2. Ends(c)'
  <2>1. dead[r] => state[r] \in {"ABSENT", "PERMANENTLY_CLOSED"}
    BY DEF ChannelInv, Ends
  <2>2. /\ session'[r] <= session'[l] /\ session'[l] <= session'[r] + 1
    OBVIOUS
  <2> QED
    BY <2>1, <2>2 DEF Ends
<1>3. ToLocal(c)'
  <2>1. Chain(<<>>, In(l)') /\ NoOpen(<<>>)
    BY ChainEmpty
  <2> QED
    BY <1>1, <2>1 DEF ToLocal
<1>4. UpTo(Stream(r), session[l] + 1)
  BY UpToMonotonic DEF ChannelInv, ToRemote
<1>5. CASE dead[l] \/ dead[r]
  <2>1. Stream(r)' = Stream(r)
    BY <1>5 DEF Posted
  <2>2. ToRemote(c)' /\ Complete(c)'
    BY <1>4, <1>5, <2>1 DEF ChannelInv, ToRemote, Complete
  <2> QED
    BY <1>2, <1>3, <2>2 DEF ChannelInv, Idle, Entered
<1>6. CASE ~dead[l] /\ ~dead[r]
  <2>1. Stream(r)' = Append(Stream(r), m)
    BY <1>6 DEF Posted
  <2>2. Chain(Stream(r), In(r)) /\ From(m) = End(Stream(r), In(r))
    BY <1>1, <1>6 DEF ChannelInv, ToRemote, Complete
  <2>3. /\ Chain(Append(Stream(r), m), In(r)) /\ End(Append(Stream(r), m), In(r)) = To(m)
        /\ UpTo(Append(Stream(r), m), session[l] + 1)
    BY <1>4, <2>2, ChainAppend
  <2>4. Out(r) = 2 * session[r]
    BY <1>1, <1>6 DEF ChannelInv, Complete, End
  <2>5. ToRemote(c)' /\ Complete(c)'
    BY <1>1, <1>6, <2>1, <2>3, <2>4 DEF ToRemote, Complete
  <2> QED
    BY <1>2, <1>3, <2>5 DEF ChannelInv, Idle, Entered
<1> QED
  BY <1>5, <1>6

-----------------------------------------------------------------------------
(* The steps of a port *)

Kept(c) == About(c) /\ PortInv(Local(c))' /\ PortInv(Remote(c))' /\ ChannelInv(c)'

LEMMA SameTable ==
  ASSUME UNCHANGED localVars
  PROVE  \A c : SameChannel(c)
BY DEF localVars, SameChannel, InPool

LEMMA HeadOfConcat ==
  ASSUME NEW S, NEW q \in Seq(S), NEW w \in Seq(S), q # <<>>
  PROVE  /\ Head(q) \in S /\ q \o w # <<>> /\ Head(q \o w) = Head(q)
         /\ Tail(q) \o w = Tail(q \o w) /\ Tail(q) \in Seq(S)
<1>1. Len(q) \in Nat /\ Len(q) >= 1 /\ Head(q) = q[1] /\ Head(q) \in S /\ Tail(q) \in Seq(S)
  OBVIOUS
<1>2. q \o w \in Seq(S) /\ Len(q \o w) = Len(q) + Len(w) /\ (q \o w)[1] = q[1]
  BY <1>1
<1>3. q \o w # <<>> /\ Head(q \o w) = Head(q)
  BY <1>1, <1>2
<1>4. Len(Tail(q) \o w) = Len(Tail(q \o w)) /\ Tail(q) \o w \in Seq(S) /\ Tail(q \o w) \in Seq(S)
  BY <1>1, <1>2
<1>5. \A i \in 1..Len(Tail(q \o w)) : (Tail(q) \o w)[i] = Tail(q \o w)[i]
  BY <1>1, <1>2
<1>6. Tail(q) \o w = Tail(q \o w)
  BY <1>4, <1>5, SeqEqual
<1> QED
  BY <1>1, <1>3, <1>6

LEMMA Positions ==
  \A a, b \in Nat : /\ 2 * a - 2 = 2 * b => a = b + 1
                    /\ 2 * a - 1 = 2 * b - 1 => a = b
                    /\ 2 * a - 2 # 2 * b - 1 /\ 2 * a - 1 # 2 * b
OBVIOUS

\* A port whose queue has its handler reads the message that continues its history; no
\* other message can be the next one.
LEMMA Reading ==
  ASSUME IInv, NEW p \in Ports, Busy(p)
  PROVE  LET m == Head(inbox[p]) IN
         /\ m \in Message /\ ~dead[p] /\ state[p] # "ABSENT" /\ drain[p] = "idle" /\ on[p]
         /\ Stream(p) # <<>> /\ Head(Stream(p)) = m /\ Tail(inbox[p]) \o wire[p] = Tail(Stream(p))
         /\ From(m) = In(p)
         /\ m.kind = "OPEN" =>
              p[2] = "remote" /\ state[p] = "CLOSED" /\ m.session = session[p] + 1
         /\ m.kind # "OPEN" => state[p] \in {"OPEN", "CLOSING"} /\ m.session = session[p]
<1> DEFINE m == Head(inbox[p])
           c == p[1]
<1>0. TypeOK /\ PortInv(p) /\ c \in Channels /\ ChannelInv(c)
  BY PortsAre DEF IInv
<1> inbox[p] \in Seq(Message) /\ wire[p] \in Seq(Message) /\ inbox[p] # <<>> /\ on[p]
  BY <1>0, Types DEF Busy
<1>1. /\ m \in Message /\ Stream(p) # <<>> /\ Head(Stream(p)) = m
      /\ Tail(inbox[p]) \o wire[p] = Tail(Stream(p))
  BY HeadOfConcat, <1>0, Types DEF Stream
<1>2. ~dead[p] /\ state[p] # "ABSENT" /\ drain[p] = "idle" /\ state[p] # "PERMANENTLY_CLOSED"
  BY <1>0 DEF PortInv, AbsentPort, LivePort, DeadPort
<1>3. Chain(Stream(p), In(p)) /\ (p[2] = "local" => NoOpen(Stream(p)))
  BY <1>0, <1>2, PortsAre DEF ChannelInv, ToLocal, ToRemote
<1>4. From(m) = In(p) /\ (p[2] = "local" => m.kind # "OPEN")
  BY <1>0, <1>1, <1>3, ChainTail, Types
<1>5. m.session \in Nat /\ session[p] \in Nat /\ state[p] \in {"OPEN", "CLOSING", "CLOSED"}
  BY <1>0, <1>1, <1>2, Types DEF TypeOK, States
<1>6. In(p) = 2 * session[p] - (IF state[p] = "CLOSED" THEN 0 ELSE 1)
  BY <1>2, <1>5 DEF In
<1>7. m.kind = "OPEN" => state[p] = "CLOSED" /\ m.session = session[p] + 1
  <2>1. m.kind = "OPEN" => From(m) = 2 * m.session - 2
    BY DEF From
  <2>2. state[p] # "CLOSED" => In(p) = 2 * session[p] - 1
    BY <1>6
  <2>3. state[p] = "CLOSED" => In(p) = 2 * session[p]
    BY <1>6, <1>5
  <2> QED
    BY <1>4, <1>5, <2>1, <2>2, <2>3, Positions
<1>8. m.kind # "OPEN" => state[p] \in {"OPEN", "CLOSING"} /\ m.session = session[p]
  <2>1. m.kind # "OPEN" => From(m) = 2 * m.session - 1
    BY DEF From
  <2>2. state[p] # "CLOSED" => In(p) = 2 * session[p] - 1
    BY <1>6
  <2>3. state[p] = "CLOSED" => In(p) = 2 * session[p]
    BY <1>6, <1>5
  <2> QED
    BY <1>4, <1>5, <2>1, <2>2, <2>3, Positions
<1>9. p[2] # "local" => p[2] = "remote"
  BY PortsAre DEF Ports
<1> QED
  BY <1>1, <1>2, <1>4, <1>7, <1>8, <1>9

LEMMA SendStep ==
  ASSUME IInv, NEW p \in Ports, Send(p)
  PROVE  Kept(p[1])
<1> DEFINE c == p[1]
           m == [kind |-> "data", session |-> session[p]]
<1>0. /\ TypeOK /\ PortInv(p) /\ PortInv(Peer(p)) /\ c \in Channels /\ ChannelInv(c)
      /\ state[p] = "OPEN" /\ session[p] \in Nat
  BY PortsAre, Types DEF IInv, Send
<1>1. /\ Post(p, "data", session[p]) /\ session[p] \in 0..MaxOpens /\ UNCHANGED localVars
      /\ UNCHANGED <<state, inbox, on, data, last, drain, reopen, dead, session, closer>>
  BY DEF Send, IInv, TypeOK
<1>2. /\ m \in Message /\ \A q \in Ports : q # Peer(p) => wire'[q] = wire[q] /\ Stream(q)' = Stream(q)
      /\ dead[p] \/ dead[Peer(p)] => wire' = wire /\ Stream(Peer(p))' = Stream(Peer(p))
      /\ ~dead[p] /\ ~dead[Peer(p)] => Stream(Peer(p))' = Append(Stream(Peer(p)), m)
  BY <1>0, <1>1, PostStreams
<1>3. (\A q \in Ports : SameButWire(q)) /\ (\A d : SameChannel(d))
  BY <1>1, <1>2, SameTable DEF SameButWire
<1>4. About(c) /\ PortInv(p)' /\ PortInv(Peer(p))'
  BY <1>0, <1>2, <1>3, PortFrame, PortsAre DEF About
<1>5. /\ Posted(Peer(p), m) /\ SameEnds(c) /\ Stream(p)' = Stream(p)
      /\ \A q \in Ports : In(q)' = In(q) /\ Out(q)' = Out(q)
  BY <1>1, <1>2, PortsAre DEF Posted, SameEnds, In, Out
<1>6. m.session = session[p] /\ From(m) = Out(p) /\ To(m) = Out(p)
  BY <1>0 DEF From, To, Out
<1>7. CASE p = Local(c)
  <2>1. ~InPool(c)
    BY <1>0, <1>7 DEF ChannelInv, Idle
  <2>2. ChannelInv(c)'
    BY <1>0, <1>1, <1>2, <1>3, <1>5, <1>6, <1>7, <2>1, LocalWrites, PortsAre
  <2> QED
    BY <1>4, <1>7, <2>2, PortsAre DEF Kept
<1>8. CASE p = Remote(c)
  <2>1. ChannelInv(c)'
    BY <1>0, <1>1, <1>2, <1>3, <1>5, <1>6, <1>8, RemoteWrites, PortsAre
  <2> QED
    BY <1>4, <1>8, <2>1, PortsAre DEF Kept
<1> QED
  BY <1>7, <1>8, PortsAre

LEMMA CloseStep ==
  ASSUME IInv, NEW p \in Ports, Close(p)
  PROVE  Kept(p[1])
<1> DEFINE c == p[1]
           m == [kind |-> "CLOSE", session |-> session[p]]
<1>0. /\ TypeOK /\ PortInv(p) /\ PortInv(Peer(p)) /\ c \in Channels /\ ChannelInv(c)
      /\ state[p] = "OPEN" /\ session[p] \in Nat
  BY PortsAre, Types DEF IInv, Close
<1>1. /\ Post(p, "CLOSE", session[p]) /\ session[p] \in 0..MaxOpens /\ UNCHANGED localVars
      /\ UNCHANGED <<inbox, on, data, last, drain, reopen, dead, session>>
      /\ state' = [state EXCEPT ![p] = "CLOSING"] /\ closer' = [closer EXCEPT ![p] = TRUE]
  BY DEF Close, AwaitAnswer, IInv, TypeOK
<1>2. /\ m \in Message /\ \A q \in Ports : q # Peer(p) => wire'[q] = wire[q] /\ Stream(q)' = Stream(q)
      /\ dead[p] \/ dead[Peer(p)] => wire' = wire /\ Stream(Peer(p))' = Stream(Peer(p))
      /\ ~dead[p] /\ ~dead[Peer(p)] => Stream(Peer(p))' = Append(Stream(Peer(p)), m)
  BY <1>0, <1>1, PostStreams
<1>3. /\ state'[p] = "CLOSING" /\ closer'[p]
      /\ \A q \in Ports : q # p => state'[q] = state[q] /\ closer'[q] = closer[q]
  BY <1>0, <1>1 DEF TypeOK
<1>4. (\A q \in Ports : q # p => SameButWire(q)) /\ (\A d : SameChannel(d))
  BY <1>1, <1>2, <1>3, SameTable DEF SameButWire
<1>5. About(c) /\ PortInv(Peer(p))'
  BY <1>0, <1>2, <1>4, PortFrame, PortsAre DEF About
<1>6. drain[p] = "idle"
  BY <1>0 DEF PortInv, LivePort, DeadPort, AbsentPort
<1>7. PortInv(p)'
  <2>1. /\ wire'[p] = wire[p] /\ AbsentPort(p)'
    BY <1>2, <1>3, PortsAre DEF AbsentPort
  <2>2. LivePort(p)'
    BY <1>0, <1>1, <1>3, <1>6 DEF PortInv, LivePort
  <2> QED
    BY <1>0, <1>1, <1>6, <2>1, <2>2 DEF PortInv, DeadPort, PortData, Busy
<1>8. /\ Posted(Peer(p), m) /\ SameEnds(c) /\ Stream(p)' = Stream(p)
      /\ In(p)' = In(p) /\ In(Peer(p))' = In(Peer(p)) /\ Out(Peer(p))' = Out(Peer(p))
  BY <1>0, <1>1, <1>2, <1>3, <1>6, PortsAre DEF Posted, SameEnds, In, Out
<1>9. m.session = session[p] /\ From(m) = Out(p) /\ To(m) = Out(p)'
  BY <1>0, <1>1, <1>3, <1>6 DEF From, To, Out
<1>10. CASE p = Local(c)
  <2>1. ~InPool(c)
    BY <1>0, <1>10 DEF ChannelInv, Idle
  <2>2. ChannelInv(c)'
    BY <1>0, <1>1, <1>2, <1>3, <1>4, <1>8, <1>9, <1>10, <2>1, LocalWrites, PortsAre
  <2> QED
    BY <1>5, <1>7, <1>10, <2>2, PortsAre DEF Kept
<1>11. CASE p = Remote(c)
  <2>1. ~dead[p]
    BY <1>0, <1>11 DEF ChannelInv, Ends
  <2>2. ChannelInv(c)'
    BY <1>0, <1>1, <1>2, <1>3, <1>4, <1>8, <1>9, <1>11, <2>1, RemoteWrites, PortsAre
  <2> QED
    BY <1>5, <1>7, <1>11, <2>2, PortsAre DEF Kept
<1> QED
  BY <1>10, <1>11, PortsAre

LEMMA AckStep ==
  ASSUME IInv, NEW p \in Ports, Ack(p)
  PROVE  Kept(p[1])
<1> DEFINE c == p[1]
           m == [kind |-> "CLOSE", session |-> session[p]]
<1>0. /\ TypeOK /\ PortInv(p) /\ PortInv(Peer(p)) /\ c \in Channels /\ ChannelInv(c)
      /\ drain[p] = "draining" /\ last[p] = "resolved" /\ session[p] \in Nat
  BY PortsAre, Types DEF IInv, Ack, DrainedForAck
<1>1. /\ Post(p, "CLOSE", session[p]) /\ session[p] \in 0..MaxOpens /\ UNCHANGED localVars
      /\ UNCHANGED <<state, inbox, on, data, last, reopen, dead, session, closer>>
      /\ drain' = [drain EXCEPT ![p] = "acking"]
  BY DEF Ack, IInv, TypeOK
<1>2. /\ m \in Message /\ \A q \in Ports : q # Peer(p) => wire'[q] = wire[q] /\ Stream(q)' = Stream(q)
      /\ dead[p] \/ dead[Peer(p)] => wire' = wire /\ Stream(Peer(p))' = Stream(Peer(p))
      /\ ~dead[p] /\ ~dead[Peer(p)] => Stream(Peer(p))' = Append(Stream(Peer(p)), m)
  BY <1>0, <1>1, PostStreams
<1>3. drain'[p] = "acking" /\ \A q \in Ports : q # p => drain'[q] = drain[q]
  BY <1>0, <1>1 DEF TypeOK
<1>4. (\A q \in Ports : q # p => SameButWire(q)) /\ (\A d : SameChannel(d))
  BY <1>1, <1>2, <1>3, SameTable DEF SameButWire
<1>5. About(c) /\ PortInv(Peer(p))'
  BY <1>0, <1>2, <1>4, PortFrame, PortsAre DEF About
<1>6. /\ data[p] = <<>> /\ wire'[p] = wire[p] /\ state[p] # "ABSENT"
      /\ IF dead[p] THEN state[p] = "PERMANENTLY_CLOSED" ELSE state[p] = "CLOSING"
  BY <1>0, <1>2, PortsAre DEF PortInv, PortData, AbsentPort, LivePort, DeadPort
<1>7. PortInv(p)'
  <2>1. AbsentPort(p)' /\ LivePort(p)'
    BY <1>0, <1>1, <1>3, <1>6 DEF PortInv, AbsentPort, LivePort
  <2> QED
    BY <1>0, <1>1, <1>3, <1>6, <2>1 DEF PortInv, DeadPort, PortData, Busy
<1>8. /\ Posted(Peer(p), m) /\ SameEnds(c) /\ Stream(p)' = Stream(p)
      /\ In(p)' = In(p) /\ In(Peer(p))' = In(Peer(p)) /\ Out(Peer(p))' = Out(Peer(p))
  <2>1. Posted(Peer(p), m) /\ SameEnds(c) /\ Stream(p)' = Stream(p)
    BY <1>1, <1>2, PortsAre DEF Posted, SameEnds
  <2>2. In(Peer(p))' = In(Peer(p)) /\ Out(Peer(p))' = Out(Peer(p))
    BY <1>1, <1>3, PortsAre DEF In, Out
  <2>3. In(p) = 2 * session[p] /\ In(p)' = 2 * session[p]
    BY <1>0, <1>1, <1>3, <1>6 DEF In
  <2> QED
    BY <2>1, <2>2, <2>3
<1>9. ~(p = Local(c) /\ InPool(c))
  BY <1>0 DEF ChannelInv, Idle
<1>10. CASE dead[p]
  <2>1. Out(p)' = Out(p)
    BY <1>1, <1>6, <1>10 DEF Out
  <2>2. \A q \in {p, Peer(p)} : Stream(q)' = Stream(q)
    BY <1>2, <1>10, PortsAre
  <2>3. Alike(Local(c)) /\ Alike(Remote(c))
    BY <1>1, <1>8, <2>1, <2>2, PortsAre DEF Alike
  <2>4. InPool(c) => data'[Local(c)] = <<>> /\ drain'[Local(c)] = "idle"
    BY <1>0, <1>1, <1>3, <1>9, PortsAre DEF ChannelInv, Idle
  <2>5. ChannelInv(c)'
    BY <1>0, <1>1, <1>4, <2>3, <2>4, ChannelFrame
  <2> QED
    BY <1>5, <1>7, <2>5, PortsAre DEF Kept
<1>11. CASE ~dead[p]
  <2>1. m.session = session[p] /\ From(m) = Out(p) /\ To(m) = Out(p)'
    BY <1>0, <1>1, <1>3, <1>6, <1>11 DEF From, To, Out
  <2>2. CASE p = Local(c)
    <3>1. ChannelInv(c)'
      BY <1>0, <1>1, <1>2, <1>3, <1>4, <1>6, <1>8, <1>9, <2>1, <2>2, LocalWrites, PortsAre
    <3> QED
      BY <1>5, <1>7, <2>2, <3>1, PortsAre DEF Kept
  <2>3. CASE p = Remote(c)
    <3>1. ChannelInv(c)'
      BY <1>0, <1>1, <1>2, <1>3, <1>4, <1>6, <1>8, <2>1, <2>3, RemoteWrites, PortsAre
    <3> QED
      BY <1>5, <1>7, <2>3, <3>1, PortsAre DEF Kept
  <2> QED
    BY <2>2, <2>3, PortsAre
<1> QED
  BY <1>10, <1>11

\* A channel comes to the pool once.
Grows == pool' = pool \/ \E c \in Channels : ~InPool(c) /\ pool' = Append(pool, c)

\* The end of a session at a port, whichever way it comes about.
LEMMA DoCloseStep ==
  ASSUME IInv, NEW p \in Ports, ~dead[p], state[p] = "CLOSING", DoClose(p),
         UNCHANGED <<pending, channels, dead, wire>>, drain'[p] = "idle",
         \A q \in Ports : q # p => drain'[q] = drain[q] /\ inbox'[q] = inbox[q]
  PROVE  /\ About(p[1]) /\ PortInv(p)' /\ PortInv(Peer(p))' /\ Grows
         /\ state'[p] = "CLOSED" /\ data'[p] = <<>> /\ UNCHANGED session
         /\ \A q \in Ports : q # p => SameButWire(q)
         /\ p = Remote(p[1]) => SameChannel(p[1])
<1> DEFINE c == p[1]
<1>0. /\ TypeOK /\ PortInv(p) /\ PortInv(Peer(p)) /\ c \in Channels /\ ChannelInv(c)
      /\ ~reopen[p] /\ session[p] \in Nat /\ pool \in Seq(Channels)
  BY PortsAre, Types DEF IInv, PortInv
<1>1. /\ state'[p] = "CLOSED" /\ data'[p] = <<>> /\ UNCHANGED session /\ last'[p] = "resolved"
      /\ ~reopen'[p] /\ on'[p] /\ ~closer'[p]
  BY <1>0 DEF DoClose, TypeOK, NewQueue
<1>2. \A q \in Ports : q # p => SameButWire(q)
  BY <1>0 DEF DoClose, TypeOK, SameButWire
<1>3. /\ Grows /\ \A d \in Channels : d # c => (InPool(d)' <=> InPool(d))
      /\ p = Remote(c) => pool' = pool
  <2>1. CASE p[2] = "local"
    <3>1. pool' = Append(pool, c) /\ p = Local(c) /\ p # Remote(c)
      BY <1>0, <2>1, PortsAre DEF DoClose, Pooled
    <3>2. ~InPool(c)
      BY <1>0, <3>1 DEF ChannelInv, Idle
    <3>3. ASSUME NEW d \in Channels, d # c PROVE InPool(d)' <=> InPool(d)
      <4>1. /\ Len(pool') = Len(pool) + 1 /\ pool'[Len(pool) + 1] = c /\ Len(pool) \in Nat
            /\ \A i \in 1..Len(pool) : pool'[i] = pool[i]
        BY <1>0, <3>1
      <4>2. InPool(d) => InPool(d)'
        BY <4>1 DEF InPool
      <4>3. ASSUME NEW i \in 1..Len(pool'), pool'[i] = d PROVE InPool(d)
        <5>1. i # Len(pool) + 1
          BY <3>3, <4>1, <4>3
        <5>2. i \in 1..Len(pool)
          BY <4>1, <5>1
        <5> QED
          BY <4>1, <4>3, <5>2 DEF InPool
      <4> QED
        BY <4>2, <4>3 DEF InPool
    <3> QED
      BY <1>0, <3>1, <3>2, <3>3 DEF Grows
  <2>2. CASE p[2] # "local"
    <3>1. pool' = pool
      BY <2>2 DEF DoClose, Pooled
    <3> QED
      BY <3>1 DEF Grows, InPool
  <2> QED
    BY <2>1, <2>2
<1>4. About(c) /\ PortInv(Peer(p))'
  BY <1>0, <1>2, <1>3, PortFrame, PortsAre DEF About, SameChannel
<1>5. PortInv(p)'
  <2>1. AbsentPort(p)' /\ LivePort(p)' /\ DeadPort(p)'
    BY <1>1 DEF AbsentPort, LivePort, DeadPort
  <2>2. PortData(p)'
    BY <1>1 DEF PortData
  <2> QED
    BY <1>1, <2>1, <2>2 DEF PortInv
<1>6. p = Remote(c) => SameChannel(c)
  BY <1>3 DEF SameChannel, InPool
<1> QED
  BY <1>1, <1>2, <1>3, <1>4, <1>5, <1>6

LEMMA AckSentStep ==
  ASSUME IInv, NEW p \in Ports, AckSent(p)
  PROVE  Kept(p[1]) /\ Grows
<1> DEFINE c == p[1]
<1>0. /\ TypeOK /\ PortInv(p) /\ PortInv(Peer(p)) /\ c \in Channels /\ ChannelInv(c)
      /\ drain[p] = "acking" /\ session[p] \in Nat /\ Stream(p) \in Seq(Message)
  BY PortsAre, Types DEF IInv, AckSent
<1>1. /\ drain'[p] = "idle" /\ \A q \in Ports : q # p => drain'[q] = drain[q]
      /\ UNCHANGED <<nextId, pending, channels, inbox, dead, wire>>
      /\ \A q \in Ports : Stream(q)' = Stream(q)
  BY <1>0 DEF AckSent, TypeOK, Stream
<1>2. ~(p = Local(c) /\ InPool(c))
  BY <1>0 DEF ChannelInv, Idle
<1>3. CASE state[p] = "PERMANENTLY_CLOSED"
  <2>1. UNCHANGED <<pool, state, on, data, last, reopen, session, closer>>
    BY <1>3 DEF AckSent
  <2>2. (\A q \in Ports : q # p => SameButWire(q)) /\ (\A d : SameChannel(d)) /\ Grows
    BY <1>1, <2>1 DEF SameButWire, SameChannel, InPool, Grows
  <2>3. About(c) /\ PortInv(Peer(p))'
    BY <1>0, <1>1, <2>2, PortFrame, PortsAre DEF About
  <2>4. dead[p]
    BY <1>0, <1>3 DEF PortInv, LivePort
  <2>5. PortInv(p)'
    BY <1>0, <1>1, <1>3, <2>1, <2>4 DEF PortInv, AbsentPort, LivePort, DeadPort, PortData, Busy
  <2>6. In(p)' = In(p) /\ Out(p)' = Out(p)
    BY <1>3, <2>1 DEF In, Out
  <2>7. Alike(Peer(p))
    BY <1>1, <2>1, PortsAre DEF Alike, In, Out
  <2>8. Alike(Local(c)) /\ Alike(Remote(c))
    BY <1>1, <2>1, <2>6, <2>7, PortsAre DEF Alike
  <2>9. InPool(c) => data'[Local(c)] = <<>> /\ drain'[Local(c)] = "idle"
    BY <1>0, <1>1, <1>2, <2>1, PortsAre DEF ChannelInv, Idle
  <2>10. ChannelInv(c)'
    BY <1>0, <2>1, <2>2, <2>8, <2>9, ChannelFrame
  <2> QED
    BY <2>2, <2>3, <2>5, <2>10, PortsAre DEF Kept
<1>4. CASE state[p] # "PERMANENTLY_CLOSED"
  <2>1. DoClose(p) /\ ~dead[p] /\ state[p] = "CLOSING"
    BY <1>0, <1>4 DEF AckSent, PortInv, AbsentPort, LivePort, DeadPort
  <2>2. /\ About(c) /\ PortInv(p)' /\ PortInv(Peer(p))' /\ Grows
        /\ state'[p] = "CLOSED" /\ data'[p] = <<>> /\ UNCHANGED session
        /\ \A q \in Ports : q # p => SameButWire(q)
        /\ p = Remote(c) => SameChannel(c)
    BY <1>1, <2>1, DoCloseStep
  <2>3. In(p) = 2 * session[p] /\ Out(p) = 2 * session[p]
    BY <1>0, <2>1 DEF In, Out
  <2>4. In(p)' = 2 * session[p] /\ Out(p)' = 2 * session[p]
    BY <1>0, <2>2 DEF In, Out
  <2>5. Alike(Peer(p))
    BY <1>1, <2>2, PortsAre DEF Alike, SameButWire, In, Out
  <2>6. Alike(Local(c)) /\ Alike(Remote(c))
    BY <1>1, <2>2, <2>3, <2>4, <2>5, PortsAre DEF Alike
  <2>7. /\ state'[Local(c)] # "ABSENT"
        /\ state[Local(c)] # "ABSENT"
        /\ dead[Remote(c)] => state'[Remote(c)] = state[Remote(c)]
    BY <1>0, <2>1, <2>2, PortsAre DEF ChannelInv, Ends, SameButWire
  <2>8. Ends(c)' /\ ToLocal(c)' /\ ToRemote(c)' /\ Complete(c)'
    BY <1>0, <2>6, <2>7, StreamsFrame
  <2>9. Idle(c)'
    <3>1. CASE p = Local(c)
      <4>1. Chain(Stream(p), In(p)) /\ NoOpen(Stream(p))
        BY <1>0, <2>1, <3>1 DEF ChannelInv, ToLocal
      <4>2. Stream(p) = <<>>
        BY <1>0, <2>3, <4>1, ChainStops
      <4>3. session[Local(c)] = session[Remote(c)]
        BY <1>0, <2>1, <2>3, <3>1 DEF ChannelInv, ToLocal
      <4> QED
        BY <1>1, <2>2, <3>1, <4>2, <4>3, PortsAre DEF Idle
    <3>2. CASE p = Remote(c)
      <4>1. InPool(c)' <=> InPool(c)
        BY <2>2, <3>2 DEF SameChannel
      <4> QED
        BY <1>0, <1>1, <2>2, <3>2, <4>1, PortsAre DEF ChannelInv, Idle, SameButWire
    <3> QED
      BY <3>1, <3>2, PortsAre
  <2>10. Entered(c)'
    BY <1>0, <1>1, <2>7 DEF ChannelInv, Entered
  <2> QED
    BY <2>2, <2>8, <2>9, <2>10, PortsAre DEF Kept, ChannelInv
<1> QED
  BY <1>3, <1>4

LEMMA HeadMoves ==
  ASSUME NEW S, NEW q \in Seq(S), NEW w \in Seq(S), w # <<>>
  PROVE  Append(q, Head(w)) \o Tail(w) = q \o w
<1>1. /\ Head(w) \in S /\ Tail(w) \in Seq(S) /\ Len(Tail(w)) = Len(w) - 1
      /\ Len(w) \in Nat /\ Len(w) >= 1 /\ Head(w) = w[1]
      /\ \A i \in 1..Len(Tail(w)) : Tail(w)[i] = w[i + 1]
  BY HeadTailProperties
<1>2. /\ Append(q, Head(w)) \in Seq(S) /\ Len(Append(q, Head(w))) = Len(q) + 1
      /\ Append(q, Head(w))[Len(q) + 1] = Head(w) /\ Len(q) \in Nat
      /\ \A i \in 1..Len(q) : Append(q, Head(w))[i] = q[i]
  BY <1>1, AppendProperties
<1> DEFINE a == Append(q, Head(w))
           t == Tail(w)
<1>3. /\ a \o t \in Seq(S) /\ Len(a \o t) = Len(a) + Len(t)
      /\ \A i \in 1..Len(a) : (a \o t)[i] = a[i]
      /\ \A i \in 1..Len(t) : (a \o t)[Len(a) + i] = t[i]
  BY <1>1, <1>2
<1>4. /\ q \o w \in Seq(S) /\ Len(q \o w) = Len(q) + Len(w)
      /\ \A i \in 1..Len(q) : (q \o w)[i] = q[i]
      /\ \A i \in 1..Len(w) : (q \o w)[Len(q) + i] = w[i]
  OBVIOUS
<1> HIDE DEF a, t
<1>5. ASSUME NEW i \in 1..(Len(q) + Len(w)) PROVE (a \o t)[i] = (q \o w)[i]
  <2>1. CASE i <= Len(q)
    BY <1>2, <1>3, <1>4, <2>1 DEF a
  <2>2. CASE i = Len(q) + 1
    <3>1. i \in 1..Len(a) /\ 1 \in 1..Len(w)
      BY <1>1, <1>2, <2>2 DEF a
    <3> QED
      BY <1>1, <1>2, <1>3, <1>4, <2>2, <3>1 DEF a
  <2>3. CASE i > Len(q) + 1
    <3> DEFINE j == i - Len(q) - 1
    <3>1. j \in 1..Len(t) /\ i = Len(a) + j /\ j + 1 \in 1..Len(w) /\ i = Len(q) + (j + 1)
      BY <1>1, <1>2, <2>3 DEF a, t
    <3> HIDE DEF j
    <3>2. (a \o t)[i] = t[j]
      BY <1>3, <3>1
    <3>3. (q \o w)[i] = w[j + 1]
      BY <1>4, <3>1
    <3> QED
      BY <1>1, <3>1, <3>2, <3>3 DEF t
  <2>4. i <= Len(q) \/ i = Len(q) + 1 \/ i > Len(q) + 1
    BY <1>2
  <2> QED
    BY <2>1, <2>2, <2>3, <2>4
<1>6. Len(a \o t) = Len(q) + Len(w)
  BY <1>1, <1>2, <1>3 DEF a, t
<1>7. a \o t = q \o w
  BY <1>3, <1>4, <1>5, <1>6, SeqEqual
<1> QED
  BY <1>7 DEF a, t

LEMMA TailOf ==
  ASSUME NEW S, NEW q \in Seq(S), q # <<>>
  PROVE  /\ Tail(q) # <<>> => Len(q) # 1
         /\ \A e : (\A i \in 1..Len(q) : q[i] = e) => \A i \in 1..Len(Tail(q)) : Tail(q)[i] = e
<1>1. /\ Tail(q) \in Seq(S) /\ Len(Tail(q)) = Len(q) - 1 /\ Len(q) \in Nat
      /\ \A i \in 1..Len(Tail(q)) : Tail(q)[i] = q[i + 1]
  BY HeadTailProperties
<1>2. Tail(q) # <<>> => Len(q) # 1
  BY <1>1
<1>3. \A i \in 1..Len(Tail(q)) : i + 1 \in 1..Len(q)
  BY <1>1
<1> QED
  BY <1>1, <1>2, <1>3

LEMMA ReceiveStep ==
  ASSUME IInv, NEW p \in Ports, Receive(p)
  PROVE  Kept(p[1])
<1> DEFINE c == p[1]
<1>0. /\ TypeOK /\ PortInv(p) /\ PortInv(Peer(p)) /\ c \in Channels /\ ChannelInv(c)
      /\ inbox[p] \in Seq(Message) /\ wire[p] \in Seq(Message) /\ wire[p] # <<>>
  BY PortsAre, Types DEF IInv, Receive
<1>1. /\ inbox'[p] = Append(inbox[p], Head(wire[p])) /\ wire'[p] = Tail(wire[p])
      /\ \A q \in Ports : q # p => inbox'[q] = inbox[q] /\ wire'[q] = wire[q]
      /\ UNCHANGED localVars
      /\ UNCHANGED <<state, on, data, last, drain, reopen, dead, session, closer>>
  BY <1>0 DEF Receive, TypeOK
<1>2. (\A q \in Ports : q # p => SameButWire(q)) /\ (\A d : SameChannel(d))
  BY <1>1, SameTable DEF SameButWire
<1>3. About(c) /\ PortInv(Peer(p))'
  BY <1>0, <1>1, <1>2, PortFrame, PortsAre DEF About
<1>4. PortInv(p)'
  <2>1. ~dead[p]
    BY <1>0 DEF PortInv, DeadPort
  <2> QED
    BY <1>0, <1>1, <2>1 DEF PortInv, AbsentPort, LivePort, DeadPort, PortData
<1>5. Stream(p)' = Stream(p)
  BY <1>0, <1>1, HeadMoves DEF Stream
<1>6. \A q \in {p, Peer(p)} : Stream(q)' = Stream(q)
  BY <1>1, <1>5, PortsAre DEF Stream
<1>7. Alike(Local(c)) /\ Alike(Remote(c))
  BY <1>1, <1>6, PortsAre DEF Alike, In, Out
<1>8. ChannelInv(c)'
  BY <1>0, <1>1, <1>2, <1>7, ChannelFrame DEF ChannelInv, Idle
<1> QED
  BY <1>3, <1>4, <1>8, PortsAre DEF Kept

LEMMA HandleDataStep ==
  ASSUME IInv, NEW p \in Ports, HandleData(p)
  PROVE  Kept(p[1])
<1> DEFINE c == p[1]
<1>0. /\ TypeOK /\ PortInv(p) /\ PortInv(Peer(p)) /\ c \in Channels /\ ChannelInv(c)
      /\ data[p] \in Seq(0..MaxOpens) /\ data[p] # <<>>
  BY PortsAre, Types DEF IInv, HandleData
<1>1. /\ data'[p] = Tail(data[p]) /\ (Len(data[p]) # 1 => last'[p] = last[p])
      /\ \A q \in Ports : q # p => data'[q] = data[q] /\ last'[q] = last[q]
      /\ UNCHANGED localVars
      /\ UNCHANGED <<state, inbox, on, drain, reopen, dead, wire, session, closer>>
  BY <1>0 DEF HandleData, TypeOK
<1>2. (\A q \in Ports : q # p => SameButWire(q)) /\ (\A d : SameChannel(d))
  BY <1>1, SameTable DEF SameButWire
<1>3. About(c) /\ PortInv(Peer(p))'
  BY <1>0, <1>1, <1>2, PortFrame, PortsAre DEF About
<1>4. PortInv(p)'
  <2>1. Tail(data[p]) # <<>> => Len(data[p]) # 1
    BY <1>0, TailOf
  <2>2. \A i \in 1..Len(Tail(data[p])) : Tail(data[p])[i] = session[p]
    BY <1>0, TailOf DEF PortInv, PortData
  <2>3. PortData(p)'
    BY <1>0, <1>1, <2>1, <2>2 DEF PortInv, PortData
  <2> QED
    BY <1>0, <1>1, <2>3 DEF PortInv, AbsentPort, LivePort, DeadPort, Busy
<1>5. Alike(Local(c)) /\ Alike(Remote(c))
  BY <1>1 DEF Alike, In, Out, Stream
<1>6. InPool(c) => data'[Local(c)] = <<>> /\ drain'[Local(c)] = "idle"
  BY <1>0, <1>1, PortsAre DEF ChannelInv, Idle
<1>7. ChannelInv(c)'
  BY <1>0, <1>1, <1>2, <1>5, <1>6, ChannelFrame
<1> QED
  BY <1>3, <1>4, <1>7, PortsAre DEF Kept

LEMMA StreamCut ==
  ASSUME NEW q \in Seq(Message), NEW w \in Seq(Message), NEW s
  PROVE  /\ q \o <<>> = q
         /\ NoOpen(q \o w) => NoOpen(q)
         /\ UpTo(q \o w, s) => UpTo(q, s)
         /\ q \o w = <<>> => q = <<>>
<1>1. /\ Len(q) \in Nat /\ Len(w) \in Nat /\ Len(q \o w) = Len(q) + Len(w) /\ q \o <<>> = q
      /\ \A i \in 1..Len(q) : i \in 1..Len(q \o w) /\ (q \o w)[i] = q[i]
  BY ConcatProperties, ConcatEmptySeq
<1> QED
  BY <1>1 DEF NoOpen, UpTo

LEMMA DeathStep ==
  ASSUME IInv, NEW p \in Ports, ChannelDies(p)
  PROVE  Kept(p[1])
<1> DEFINE c == p[1]
           l == Local(c)
           r == Remote(c)
<1>0. /\ TypeOK /\ PortInv(p) /\ PortInv(Peer(p)) /\ c \in Channels /\ ChannelInv(c)
      /\ ~dead[p] /\ ~Busy(p) /\ state[l] # "ABSENT" /\ ~reopen[p]
      /\ inbox[p] \in Seq(Message) /\ wire[p] \in Seq(Message)
  BY PortsAre, Types DEF IInv, ChannelDies, PortInv, Local
<1>1. /\ dead'[p] /\ wire'[p] = <<>>
      /\ state'[p] = IF state[p] = "ABSENT" THEN "ABSENT" ELSE "PERMANENTLY_CLOSED"
      /\ \A q \in Ports : q # p => dead'[q] = dead[q] /\ wire'[q] = wire[q] /\ state'[q] = state[q]
      /\ channels' = IF p[2] = "local" THEN channels \ {c} ELSE channels
      /\ UNCHANGED <<pool, pending, inbox, on, data, last, drain, reopen, session, closer>>
  BY <1>0 DEF ChannelDies, TypeOK
<1>2. \A q \in Ports : q # p => SameButWire(q)
  BY <1>1 DEF SameButWire
<1>3. About(c) /\ PortInv(Peer(p))'
  BY <1>0, <1>1, <1>2, PortFrame, PortsAre DEF About, SameChannel, InPool
<1>4. PortInv(p)'
  <2>1. AbsentPort(p)' /\ LivePort(p)' /\ PortData(p)'
    BY <1>0, <1>1 DEF PortInv, AbsentPort, LivePort, PortData
  <2>2. DeadPort(p)'
    BY <1>0, <1>1 DEF PortInv, AbsentPort, LivePort, DeadPort, Busy
  <2> QED
    BY <1>0, <1>1, <2>1, <2>2 DEF PortInv
<1>5. /\ Stream(p)' = inbox[p]
      /\ NoOpen(Stream(p)) => NoOpen(Stream(p)')
      /\ UpTo(Stream(p), session[l]) => UpTo(Stream(p)', session[l])
      /\ Stream(p) = <<>> => Stream(p)' = <<>>
  BY <1>0, <1>1, StreamCut DEF Stream
<1>6. /\ Stream(Peer(p))' = Stream(Peer(p)) /\ In(Peer(p))' = In(Peer(p))
      /\ Out(Peer(p))' = Out(Peer(p))
  BY <1>1, PortsAre DEF Stream, In, Out
<1>7. CASE p = l
  <2>1. /\ Peer(p) = r /\ p[2] = "local" /\ state'[r] = state[r] /\ dead'[r] = dead[r]
        /\ channels' = channels \ {c}
    BY <1>0, <1>1, <1>7, PortsAre
  <2>2. Ends(c)'
    <3>1. state'[l] = "PERMANENTLY_CLOSED" /\ UNCHANGED session
      BY <1>0, <1>1, <1>7
    <3> QED
      BY <1>0, <2>1, <3>1 DEF ChannelInv, Ends
  <2>3. ToLocal(c)' /\ Complete(c)'
    BY <1>0, <1>1, <1>5, <1>7 DEF ChannelInv, ToLocal, Complete
  <2>4. ToRemote(c)'
    BY <1>0, <1>1, <1>6, <2>1 DEF ChannelInv, ToRemote
  <2>5. Idle(c)'
    BY <1>0, <1>1, <1>5, <1>7 DEF ChannelInv, Idle, InPool
  <2>6. Entered(c)'
    BY <1>0, <1>1, <1>7, <2>1 DEF Entered
  <2> QED
    BY <1>3, <1>4, <1>7, <2>1, <2>2, <2>3, <2>4, <2>5, <2>6 DEF Kept, ChannelInv
<1>8. CASE p = r
  <2>1. /\ Peer(p) = l /\ p[2] # "local" /\ state'[l] = state[l] /\ dead'[l] = dead[l]
        /\ channels' = channels
    BY <1>0, <1>1, <1>8, PortsAre
  <2>2. Ends(c)'
    BY <1>0, <1>1, <1>8, <2>1 DEF ChannelInv, Ends
  <2>3. ToLocal(c)'
    BY <1>0, <1>1, <1>6, <2>1 DEF ChannelInv, ToLocal
  <2>4. ToRemote(c)' /\ Complete(c)'
    BY <1>0, <1>1, <1>5, <1>8 DEF ChannelInv, ToRemote, Complete
  <2>5. Idle(c)' /\ Entered(c)'
    BY <1>0, <1>1, <1>6, <2>1 DEF ChannelInv, Idle, InPool, Entered
  <2> QED
    BY <1>3, <1>4, <1>8, <2>1, <2>2, <2>3, <2>4, <2>5 DEF Kept, ChannelInv
<1> QED
  BY <1>7, <1>8, PortsAre

\* What the three reactions to a message have in common.
LEMMA Process1 ==
  ASSUME IInv, NEW p \in Ports, Process(p)
  PROVE  LET m == Head(inbox[p]) IN
         /\ inbox'[p] = Tail(inbox[p]) /\ \A q \in Ports : q # p => inbox'[q] = inbox[q]
         /\ UNCHANGED <<nextId, pending, channels, dead, wire, countVars>>
         /\ m \in Message /\ Stream(p) # <<>> /\ m = Head(Stream(p)) /\ m.session \in Nat
         /\ Stream(p)' = Tail(Stream(p)) /\ Stream(Peer(p))' = Stream(Peer(p))
         /\ ~(p = Local(p[1]) /\ InPool(p[1]))
         /\ state[Local(p[1])] # "ABSENT"
<1> DEFINE m == Head(inbox[p])
<1>1. /\ Busy(p) /\ UNCHANGED <<nextId, pending, channels, dead, wire, countVars>>
      /\ TypeOK /\ p[1] \in Channels /\ ChannelInv(p[1])
  BY PortsAre DEF Process, IInv
<1>2. inbox'[p] = Tail(inbox[p]) /\ \A q \in Ports : q # p => inbox'[q] = inbox[q]
  BY <1>1 DEF Process, TypeOK
<1>3. /\ m \in Message /\ Stream(p) # <<>> /\ m = Head(Stream(p))
      /\ Tail(inbox[p]) \o wire[p] = Tail(Stream(p))
  BY <1>1, Reading
<1>4. Stream(p)' = Tail(Stream(p)) /\ Stream(Peer(p))' = Stream(Peer(p))
  BY <1>1, <1>2, <1>3, PortsAre DEF Stream
<1>5. m.session \in Nat
  BY <1>1, <1>3, Types
<1>6. ~(p = Local(p[1]) /\ InPool(p[1])) /\ state[Local(p[1])] # "ABSENT"
  BY <1>1, <1>3, PortsAre DEF ChannelInv, Idle, Ends
<1> QED
  BY <1>1, <1>2, <1>3, <1>4, <1>5, <1>6

LEMMA OnDataStep ==
  ASSUME IInv, NEW p \in Ports, Process(p), Head(inbox[p]).kind = "data"
  PROVE  Kept(p[1]) /\ pool' = pool
<1> DEFINE c == p[1]
           m == Head(inbox[p])
<1>0. /\ TypeOK /\ PortInv(p) /\ PortInv(Peer(p)) /\ c \in Channels /\ ChannelInv(c) /\ Busy(p)
      /\ data[p] \in Seq(0..MaxOpens) /\ session[p] \in 0..MaxOpens
  BY PortsAre, Types DEF IInv, Process, TypeOK
<1>1. /\ ~dead[p] /\ state[p] # "ABSENT" /\ drain[p] = "idle" /\ on[p] /\ From(m) = In(p)
      /\ state[p] \in {"OPEN", "CLOSING"} /\ m.session = session[p]
  BY <1>0, Reading
<1>2. /\ inbox'[p] = Tail(inbox[p]) /\ \A q \in Ports : q # p => inbox'[q] = inbox[q]
      /\ UNCHANGED <<nextId, pending, channels, dead, wire, countVars>>
      /\ m \in Message /\ Stream(p) # <<>> /\ m = Head(Stream(p))
      /\ Stream(p)' = Tail(Stream(p)) /\ Stream(Peer(p))' = Stream(Peer(p))
      /\ ~(p = Local(c) /\ InPool(c)) /\ state[Local(c)] # "ABSENT"
  BY Process1
<1>3. OnData(p, m)
  BY <1>0 DEF Process
<1>4. /\ data'[p] = Append(data[p], session[p]) /\ last'[p] = "pending"
      /\ \A q \in Ports : q # p => data'[q] = data[q] /\ last'[q] = last[q]
      /\ UNCHANGED <<pool, state, on, drain, reopen, session, closer>>
  BY <1>0, <1>1, <1>3 DEF OnData, TypeOK
<1>5. /\ \A q \in Ports : q # p => SameButWire(q)
      /\ \A d : SameChannel(d)
  BY <1>2, <1>4 DEF SameButWire, SameChannel, InPool
<1>6. About(c) /\ PortInv(Peer(p))'
  BY <1>0, <1>2, <1>5, PortFrame, PortsAre DEF About
<1>7. PortInv(p)'
  <2>1. \A i \in 1..Len(data'[p]) : data'[p][i] = session'[p]
    <3>1. /\ Len(data'[p]) = Len(data[p]) + 1 /\ Len(data[p]) \in Nat
          /\ \A i \in 1..Len(data[p]) : data'[p][i] = data[p][i]
          /\ data'[p][Len(data[p]) + 1] = session[p]
      BY <1>0, <1>4, AppendProperties
    <3>2. \A i \in 1..Len(data'[p]) : i \in 1..Len(data[p]) \/ i = Len(data[p]) + 1
      BY <3>1
    <3> QED
      BY <1>0, <1>4, <3>1, <3>2 DEF PortInv, PortData
  <2>2. PortData(p)'
    BY <1>1, <1>4, <2>1 DEF PortData
  <2> QED
    BY <1>0, <1>1, <1>2, <1>4, <2>2 DEF PortInv, AbsentPort, LivePort, DeadPort
<1>8. /\ SameEnds(c) /\ Out(p)' = Out(p) /\ In(p)' = In(p) /\ Alike(Peer(p))
  BY <1>2, <1>4, PortsAre DEF SameEnds, In, Out, Alike
<1>9. To(m) = From(m)
  BY DEF To, From
<1>10. CASE p = Local(c)
  <2>1. /\ TypeOK /\ c \in Channels /\ ChannelInv(c) /\ SameEnds(c) /\ Alike(Remote(c))
        /\ state'[Remote(c)] = state[Remote(c)] /\ channels' = channels
        /\ ~dead[Local(c)] /\ state[Local(c)] # "ABSENT" /\ state'[Local(c)] # "ABSENT"
    BY <1>0, <1>1, <1>2, <1>4, <1>8, <1>10, PortsAre
  <2>2. /\ Stream(Local(c)) # <<>> /\ Stream(Local(c))' = Tail(Stream(Local(c)))
        /\ In(Local(c))' = To(Head(Stream(Local(c)))) /\ Out(Local(c))' = Out(Local(c))
    BY <1>1, <1>2, <1>8, <1>9, <1>10
  <2>3. ~InPool(c)'
    BY <1>2, <1>5, <1>10 DEF SameChannel
  <2>4. ChannelInv(c)'
    BY <2>1, <2>2, <2>3, LocalReads
  <2> QED
    BY <1>4, <1>6, <1>7, <1>10, <2>4, PortsAre DEF Kept
<1>11. CASE p = Remote(c)
  <2>1. ChannelInv(c)'
    BY <1>0, <1>1, <1>2, <1>4, <1>5, <1>8, <1>9, <1>11, RemoteReads, PortsAre
  <2> QED
    BY <1>4, <1>6, <1>7, <1>11, <2>1, PortsAre DEF Kept
<1> QED
  BY <1>10, <1>11, PortsAre

LEMMA OnOpenStep ==
  ASSUME IInv, NEW p \in Ports, Process(p), Head(inbox[p]).kind = "OPEN"
  PROVE  Kept(p[1]) /\ pool' = pool /\ p = Remote(p[1])
<1> DEFINE c == p[1]
           m == Head(inbox[p])
<1>0. /\ TypeOK /\ PortInv(p) /\ PortInv(Peer(p)) /\ c \in Channels /\ ChannelInv(c) /\ Busy(p)
  BY PortsAre, Types DEF IInv, Process
<1>1. /\ ~dead[p] /\ drain[p] = "idle" /\ on[p] /\ p[2] = "remote" /\ state[p] = "CLOSED"
  BY <1>0, Reading
<1>2. /\ \A q \in Ports : q # p => inbox'[q] = inbox[q]
      /\ UNCHANGED <<nextId, pending, channels, dead, wire, countVars>>
      /\ Stream(p) # <<>> /\ m = Head(Stream(p))
      /\ Stream(p)' = Tail(Stream(p)) /\ Stream(Peer(p))' = Stream(Peer(p))
  BY Process1
<1>3. p = Remote(c) /\ Peer(p) = Local(c)
  BY <1>1, PortsAre
<1>4. OnOpen(p)
  BY <1>0 DEF Process
<1>5. DoOpen(p) /\ UNCHANGED <<pool, on, data, last, drain, closer, reopen>>
  BY <1>1, <1>4 DEF OnOpen
<1>6. /\ state'[p] = "OPEN" /\ session'[p] = session[p] + 1
      /\ \A q \in Ports : q # p => state'[q] = state[q] /\ session'[q] = session[q]
  BY <1>0, <1>5 DEF DoOpen, TypeOK
<1>7. /\ \A q \in Ports : q # p => SameButWire(q)
      /\ \A d : SameChannel(d)
  BY <1>2, <1>5, <1>6 DEF SameButWire, SameChannel, InPool
<1>8. About(c) /\ PortInv(Peer(p))'
  BY <1>0, <1>2, <1>7, PortFrame, PortsAre DEF About
<1>9. PortInv(p)'
  <2>1. data[p] = <<>> /\ ~closer[p] /\ session[p] \in Nat
    BY <1>0, <1>1, Types DEF PortInv, LivePort
  <2>2. session'[p] > 0
    BY <1>6, <2>1
  <2>3. AbsentPort(p)' /\ LivePort(p)' /\ DeadPort(p)'
    BY <1>1, <1>2, <1>5, <1>6, <2>1, <2>2 DEF AbsentPort, LivePort, DeadPort
  <2> QED
    BY <1>0, <1>5, <2>1, <2>3 DEF PortInv, PortData
<1>10. Alike(Peer(p))
  BY <1>2, <1>5, <1>6, PortsAre DEF Alike, In, Out
<1>11. ChannelInv(c)'
  BY <1>0, <1>1, <1>2, <1>3, <1>6, <1>7, <1>10, RemoteOpens, PortsAre
<1> QED
  BY <1>3, <1>5, <1>8, <1>9, <1>11 DEF Kept

LEMMA OnCloseStep ==
  ASSUME IInv, NEW p \in Ports, Process(p), Head(inbox[p]).kind = "CLOSE"
  PROVE  Kept(p[1]) /\ Grows /\ UNCHANGED session
<1> DEFINE c == p[1]
           m == Head(inbox[p])
<1>0. /\ TypeOK /\ PortInv(p) /\ PortInv(Peer(p)) /\ c \in Channels /\ ChannelInv(c) /\ Busy(p)
      /\ session[p] \in Nat
  BY PortsAre, Types DEF IInv, Process
<1>1. /\ ~dead[p] /\ state[p] # "ABSENT" /\ drain[p] = "idle" /\ on[p]
      /\ state[p] \in {"OPEN", "CLOSING"} /\ m.session = session[p]
  BY <1>0, Reading
<1>2. /\ inbox'[p] = Tail(inbox[p]) /\ \A q \in Ports : q # p => inbox'[q] = inbox[q]
      /\ UNCHANGED <<nextId, pending, channels, dead, wire, countVars>>
      /\ m \in Message /\ Stream(p) # <<>> /\ m = Head(Stream(p))
      /\ Stream(p)' = Tail(Stream(p)) /\ Stream(Peer(p))' = Stream(Peer(p))
      /\ ~(p = Local(c) /\ InPool(c)) /\ state[Local(c)] # "ABSENT"
  BY Process1
<1>3. OnClose(p)
  BY <1>0 DEF Process
<1>4. To(m) = 2 * session[p]
  BY <1>0, <1>1 DEF To
<1>5. CASE state[p] = "OPEN"
  <2>1. /\ on' = [on EXCEPT ![p] = FALSE] /\ state' = [state EXCEPT ![p] = "CLOSING"]
        /\ drain' = [drain EXCEPT ![p] = "draining"]
        /\ UNCHANGED <<pool, data, last, reopen, session, closer>>
    BY <1>3, <1>5 DEF OnClose, HandlingStopped
  <2>2. /\ ~on'[p] /\ state'[p] = "CLOSING" /\ drain'[p] = "draining"
        /\ \A q \in Ports : q # p =>
             on'[q] = on[q] /\ state'[q] = state[q] /\ drain'[q] = drain[q]
    BY <1>0, <2>1 DEF TypeOK
  <2>3. /\ \A q \in Ports : q # p => SameButWire(q)
        /\ \A d : SameChannel(d)
        /\ Grows
    BY <1>2, <2>1, <2>2 DEF SameButWire, SameChannel, InPool, Grows
  <2>4. About(c) /\ PortInv(Peer(p))'
    BY <1>0, <1>2, <2>3, PortFrame, PortsAre DEF About
  <2>5. PortInv(p)'
    <3>1. AbsentPort(p)' /\ DeadPort(p)' /\ PortData(p)'
      BY <1>0, <1>1, <1>2, <2>1, <2>2 DEF PortInv, AbsentPort, DeadPort, PortData
    <3>2. LivePort(p)'
      BY <1>0, <1>1, <1>5, <2>1, <2>2 DEF PortInv, LivePort
    <3> QED
      BY <1>0, <2>1, <3>1, <3>2 DEF PortInv
  <2>6. /\ SameEnds(c) /\ Alike(Peer(p))
    BY <1>2, <2>1, <2>2, PortsAre DEF SameEnds, In, Out, Alike
  <2>7. In(p)' = To(m) /\ Out(p)' = Out(p)
    BY <1>0, <1>4, <1>5, <2>1, <2>2 DEF In, Out
  <2>8. CASE p = Local(c)
    <3>1. ChannelInv(c)'
      BY <1>0, <1>1, <1>2, <2>2, <2>3, <2>6, <2>7, <2>8, LocalReads, PortsAre DEF SameChannel
    <3> QED
      BY <2>1, <2>3, <2>4, <2>5, <2>8, <3>1, PortsAre DEF Kept
  <2>9. CASE p = Remote(c)
    <3>1. ChannelInv(c)'
      BY <1>0, <1>1, <1>2, <2>1, <2>2, <2>3, <2>6, <2>7, <2>9, RemoteReads, PortsAre
    <3> QED
      BY <2>1, <2>3, <2>4, <2>5, <2>9, <3>1, PortsAre DEF Kept
  <2> QED
    BY <2>8, <2>9, PortsAre
<1>6. CASE state[p] = "CLOSING"
  <2>1. DoClose(p) /\ UNCHANGED drain
    BY <1>3, <1>6 DEF OnClose, CloseCrossed
  <2>2. /\ About(c) /\ PortInv(p)' /\ PortInv(Peer(p))' /\ Grows
        /\ state'[p] = "CLOSED" /\ data'[p] = <<>> /\ UNCHANGED session
        /\ \A q \in Ports : q # p => SameButWire(q)
        /\ p = Remote(c) => SameChannel(c)
    BY <1>1, <1>2, <1>6, <2>1, DoCloseStep
  <2>3. Out(p) = 2 * session[p]
    BY <1>0, <1>1, <1>6 DEF Out
  <2>4. In(p)' = 2 * session[p] /\ Out(p)' = 2 * session[p]
    BY <1>0, <2>2 DEF In, Out
  <2>5. SameEnds(c) /\ Alike(Peer(p)) /\ In(p)' = To(m) /\ Out(p)' = Out(p) /\ drain'[p] = "idle"
    BY <1>1, <1>2, <1>4, <2>1, <2>2, <2>3, <2>4, PortsAre DEF SameEnds, SameButWire, In, Out, Alike
  <2>6. CASE p = Local(c)
    <3>1. ChannelInv(c)'
      BY <1>0, <1>1, <1>2, <2>2, <2>5, <2>6, LocalReads, PortsAre DEF SameButWire
    <3> QED
      BY <2>2, <2>6, <3>1, PortsAre DEF Kept
  <2>7. CASE p = Remote(c)
    <3>1. ChannelInv(c)'
      BY <1>0, <1>1, <1>2, <2>2, <2>5, <2>7, RemoteReads, PortsAre DEF SameButWire
    <3> QED
      BY <2>2, <2>7, <3>1, PortsAre DEF Kept
  <2> QED
    BY <2>6, <2>7, PortsAre
<1> QED
  BY <1>1, <1>5, <1>6

-----------------------------------------------------------------------------
(* The steps of the two pools *)

LEMMA Distinct ==
  ASSUME NEW q \in Seq(Channels), \A i, j \in 1..Len(q) : i # j => q[i] # q[j]
  PROVE  /\ Len(q) < maxChannels
         /\ q # <<>> =>
              /\ \A i, j \in 1..Len(Tail(q)) : i # j => Tail(q)[i] # Tail(q)[j]
              /\ Head(q) \in Channels /\ Tail(q) \in Seq(Channels)
              /\ \A d : (\E i \in 1..Len(Tail(q)) : Tail(q)[i] = d)
                          <=> d # Head(q) /\ \E i \in 1..Len(q) : q[i] = d
<1> Len(q) \in Nat /\ q \in [1..Len(q) -> Channels]
  OBVIOUS
<1>1. Len(q) < maxChannels
  <2>1. IsFiniteSet(1..Len(q)) /\ Cardinality(1..Len(q)) = Len(q)
    BY FS_Interval
  <2>2. IsFiniteSet(Channels) /\ Cardinality(Channels) = maxChannels - 1
    BY FS_Interval, PoolAssumption DEF Channels
  <2>3. ~(Cardinality(Channels) < Cardinality(1..Len(q)))
    BY <2>1, <2>2, FS_PigeonHole
  <2> QED
    BY <2>1, <2>2, <2>3, PoolAssumption
<1>2. CASE q # <<>>
  <2> DEFINE t == Tail(q)
  <2>1. /\ t \in Seq(Channels) /\ Len(t) = Len(q) - 1 /\ Head(q) = q[1] /\ Head(q) \in Channels
        /\ \A i \in 1..Len(t) : t[i] = q[i + 1] /\ i + 1 \in 1..Len(q)
        /\ 1 \in 1..Len(q)
    BY <1>2, HeadTailProperties
  <2> HIDE DEF t
  <2>2. ASSUME NEW i \in 1..Len(t), NEW j \in 1..Len(t), i # j PROVE t[i] # t[j]
    <3>1. i + 1 # j + 1
      BY <2>2
    <3> QED
      BY <2>1, <3>1
  <2>3. ASSUME NEW i \in 1..Len(t) PROVE t[i] # Head(q) /\ \E k \in 1..Len(q) : q[k] = t[i]
    <3>1. i + 1 # 1
      BY <2>3
    <3> QED
      BY <2>1, <3>1
  <2>4. ASSUME NEW i \in 1..Len(q), q[i] # Head(q) PROVE \E k \in 1..Len(t) : t[k] = q[i]
    <3>1. i # 1
      BY <2>1, <2>4
    <3>2. i - 1 \in 1..Len(t) /\ (i - 1) + 1 = i
      BY <2>1, <3>1
    <3> QED
      BY <2>1, <3>2
  <2> QED
    BY <1>1, <2>1, <2>2, <2>3, <2>4 DEF t
<1> QED
  BY <1>1, <1>2

LEMMA OpenPosted ==
  ASSUME IInv, NEW c \in Channels, NEW s \in 1..MaxOpens, inbox' = inbox,
         Post(Local(c), "OPEN", s)
  PROVE  LET m == [kind |-> "OPEN", session |-> s] IN
         /\ m \in Message /\ wire' \in [Ports -> Seq(Message)] /\ Posted(Remote(c), m)
         /\ \A q \in Ports : q # Remote(c) => wire'[q] = wire[q] /\ Stream(q)' = Stream(q)
         /\ dead[Remote(c)] => wire' = wire
<1> DEFINE m == [kind |-> "OPEN", session |-> s]
           l == Local(c)
<1>1. /\ TypeOK /\ l \in Ports /\ Peer(l) = Remote(c) /\ Peer(Remote(c)) = l
      /\ s \in 0..MaxOpens
  BY PortsAre, PoolAssumption DEF IInv
<1>2. /\ m \in Message /\ wire' \in [Ports -> Seq(Message)]
      /\ \A q \in Ports : q # Peer(l) => wire'[q] = wire[q] /\ Stream(q)' = Stream(q)
      /\ dead[l] \/ dead[Peer(l)] => wire' = wire /\ Stream(Peer(l))' = Stream(Peer(l))
      /\ ~dead[l] /\ ~dead[Peer(l)] => Stream(Peer(l))' = Append(Stream(Peer(l)), m)
  BY <1>1, PostStreams
<1> QED
  BY <1>1, <1>2 DEF Posted

\* A session opens at the local end of c, which is not, or is no longer, in the pool.
LEMMA OpenStep ==
  ASSUME IInv, NEW c \in Channels, session[Local(c)] < MaxOpens, DoOpen(Local(c)),
         Post(Local(c), "OPEN", session[Local(c)] + 1),
         UNCHANGED <<channels, inbox, data, last, drain, reopen, dead, closer>>,
         on'[Local(c)] <=> ~dead[Local(c)] \/ on[Local(c)],
         \A q \in Ports : q # Local(c) => on'[q] = on[q],
         state[Local(c)] \in {"ABSENT", "CLOSED", "PERMANENTLY_CLOSED"},
         Stream(Local(c)) = <<>>, session[Local(c)] = session[Remote(c)],
         data[Local(c)] = <<>>, drain[Local(c)] = "idle",
         ~dead[Local(c)] => ~closer[Local(c)],
         dead[Local(c)] => state[Local(c)] # "ABSENT", c \in channels <=> ~dead[Local(c)],
         ~InPool(c)', \A d \in Channels : d # c => SameChannel(d)
  PROVE  /\ Kept(c) /\ state'[Local(c)] = "OPEN" /\ wire' \in [Ports -> Seq(Message)]
         /\ session' = [session EXCEPT ![Local(c)] = @ + 1]
<1> DEFINE l == Local(c)
           r == Remote(c)
           m == [kind |-> "OPEN", session |-> session[l] + 1]
<1>0. /\ TypeOK /\ l \in Ports /\ r \in Ports /\ l # r /\ PortInv(l) /\ PortInv(r)
      /\ ChannelInv(c) /\ session[l] \in Nat /\ session[l] + 1 \in 1..MaxOpens
  BY PortsAre, Types DEF IInv
<1>1. /\ m \in Message /\ wire' \in [Ports -> Seq(Message)] /\ Posted(r, m)
      /\ \A q \in Ports : q # r => wire'[q] = wire[q] /\ Stream(q)' = Stream(q)
      /\ dead[r] => wire' = wire
  BY <1>0, OpenPosted
<1>2. /\ state'[l] = "OPEN" /\ session'[l] = session[l] + 1
      /\ session' = [session EXCEPT ![l] = @ + 1]
      /\ \A q \in Ports : q # l => state'[q] = state[q] /\ session'[q] = session[q]
  BY <1>0 DEF DoOpen, TypeOK
<1>3. \A q \in Ports : q # l => SameButWire(q)
  BY <1>1, <1>2 DEF SameButWire
<1>4. About(c) /\ PortInv(r)'
  BY <1>0, <1>1, <1>3, PortFrame, PortsAre DEF About
<1>5. PortInv(l)'
  <2>1. wire'[l] = wire[l] /\ session'[l] > 0
    BY <1>0, <1>1, <1>2
  <2>2. AbsentPort(l)' /\ PortData(l)'
    BY <1>2 DEF AbsentPort, PortData
  <2>3. DeadPort(l)'
    <3>1. dead[l] => (on'[l] <=> on[l])
      OBVIOUS
    <3> QED
      BY <1>0, <2>1, <3>1 DEF PortInv, DeadPort, Busy
  <2>4. LivePort(l)'
    <3>1. ~dead[l] => on'[l] /\ ~closer[l]
      BY <1>0 DEF PortInv, LivePort
    <3> QED
      BY <1>2, <2>1, <3>1 DEF LivePort
  <2> QED
    BY <1>0, <2>2, <2>3, <2>4 DEF PortInv
<1>6. In(r)' = In(r) /\ Out(r)' = Out(r)
  BY <1>0, <1>2 DEF In, Out
<1>7. ChannelInv(c)'
  BY <1>0, <1>1, <1>2, <1>6, LocalOpens
<1> QED
  BY <1>1, <1>2, <1>4, <1>5, <1>7 DEF Kept

LEMMA ReuseStep ==
  ASSUME IInv, Reuse, NEW c \in Channels, c = Head(pool)
  PROVE  /\ Kept(c) /\ session[Local(c)] < MaxOpens
         /\ session' = [session EXCEPT ![Local(c)] = @ + 1] /\ wire' \in [Ports -> Seq(Message)]
<1> DEFINE l == Local(c)
<1>1. /\ TypeOK /\ Counts /\ pool \in Seq(Channels) /\ pool # <<>>
      /\ \A i, j \in 1..Len(pool) : i # j => pool[i] # pool[j]
  BY Types DEF IInv, Reuse, Counts
<1>2. /\ pool' = Tail(pool)
      /\ \A d : InPool(d)' <=> d # c /\ InPool(d)
  BY <1>1, Distinct DEF Reuse, InPool
<1>3. /\ DoOpen(l) /\ Post(l, "OPEN", session[l] + 1) /\ opens < MaxOpens
      /\ UNCHANGED <<nextId, pending, channels, inbox, on, data, last, drain, reopen, dead, closer>>
  BY DEF Reuse, Local
<1>4. InPool(c) /\ l \in Ports /\ ChannelInv(c) /\ PortInv(l)
  <2>1. Len(pool) \in Nat /\ Len(pool) >= 1 /\ Head(pool) = pool[1]
    BY <1>1
  <2> QED
    BY <1>2, <2>1, PortsAre DEF InPool, IInv
<1>5. session[l] < MaxOpens
  BY <1>1, <1>2, <1>3, <1>4, Types, PoolAssumption DEF Counts, TypeOK
<1>6. /\ state[l] \in {"CLOSED", "PERMANENTLY_CLOSED"} /\ Stream(l) = <<>> /\ data[l] = <<>>
      /\ drain[l] = "idle" /\ session[l] = session[Remote(c)]
      /\ c \in channels <=> ~dead[l]
  BY <1>4 DEF ChannelInv, Idle, Entered
<1>7. /\ ~dead[l] => ~closer[l]
      /\ on'[l] <=> ~dead[l] \/ on[l]
  <2>1. on'[l] = on[l]
    BY <1>3
  <2>2. ~dead[l] => on[l]
    BY <1>4, <1>6 DEF PortInv, LivePort
  <2>3. ~dead[l] => ~closer[l]
    BY <1>4, <1>6 DEF PortInv, LivePort
  <2> QED
    BY <2>1, <2>2, <2>3
<1>8. \A d \in Channels : d # c => SameChannel(d)
  BY <1>2, <1>3 DEF SameChannel
<1> QED
  BY <1>2, <1>3, <1>5, <1>6, <1>7, <1>8, OpenStep

LEMMA CreatedStep ==
  ASSUME IInv, NEW c \in Channels, Created(c)
  PROVE  /\ Kept(c) /\ session[Local(c)] = 0 /\ pending[c] > 0
         /\ session' = [session EXCEPT ![Local(c)] = @ + 1] /\ wire' \in [Ports -> Seq(Message)]
<1> DEFINE l == Local(c)
           r == Remote(c)
<1>1. /\ TypeOK /\ Counts /\ l \in Ports /\ r \in Ports /\ l # r /\ ChannelInv(c) /\ PortInv(l)
  BY PortsAre DEF IInv
<1>2. /\ state[l] = "ABSENT" /\ c \in channels /\ DoOpen(l) /\ Post(l, "OPEN", 1)
      /\ pending' = [pending EXCEPT ![c] = @ - 1] /\ on' = [on EXCEPT ![l] = TRUE]
      /\ UNCHANGED <<pool, nextId, channels, inbox, data, last, drain, reopen, dead, closer, countVars>>
  BY DEF Created, Local
<1>3. /\ session[l] = 0 /\ data[l] = <<>> /\ drain[l] = "idle" /\ ~closer[l] /\ pending[c] > 0
      /\ Stream(l) = <<>> /\ ~dead[l]
  BY <1>1, <1>2 DEF PortInv, AbsentPort, ChannelInv, Ends, Entered
<1>4. session[l] = session[r]
  BY <1>1, <1>3, Types DEF ChannelInv, Ends
<1>5. session[l] < MaxOpens
  BY <1>1, <1>3, PoolAssumption DEF TypeOK
<1>6. /\ on'[l] <=> ~dead[l] \/ on[l]
      /\ \A q \in Ports : q # l => on'[q] = on[q]
  BY <1>1, <1>2, <1>3 DEF TypeOK
<1>7. ~InPool(c)'
  BY <1>1, <1>2 DEF ChannelInv, Idle, InPool
<1>8. \A d \in Channels : d # c => SameChannel(d)
  BY <1>1, <1>2 DEF SameChannel, InPool, TypeOK
<1>9. Post(l, "OPEN", session[l] + 1)
  BY <1>2, <1>3
<1> QED
  BY <1>1, <1>2, <1>3, <1>4, <1>5, <1>6, <1>7, <1>8, <1>9, OpenStep

LEMMA RemoteCreatedStep ==
  ASSUME IInv, NEW c \in Channels, RemoteCreated(c)
  PROVE  Kept(c)
<1> DEFINE l == Local(c)
           r == Remote(c)
<1>1. /\ TypeOK /\ l \in Ports /\ r \in Ports /\ l # r /\ Peer(r) = l
      /\ ChannelInv(c) /\ PortInv(l) /\ PortInv(r)
  BY PortsAre DEF IInv
<1>2. /\ state[r] = "ABSENT" /\ state[l] # "ABSENT" /\ ~dead[r]
      /\ state' = [state EXCEPT ![r] = "CLOSED"] /\ on' = [on EXCEPT ![r] = TRUE]
      /\ UNCHANGED <<localVars, inbox, data, last, drain, reopen, dead, wire, session, closer>>
  BY <1>1 DEF RemoteCreated, Remote
<1>3. /\ state'[r] = "CLOSED" /\ on'[r]
      /\ \A q \in Ports : q # r => state'[q] = state[q] /\ on'[q] = on[q]
  BY <1>1, <1>2 DEF TypeOK
<1>4. (\A q \in Ports : q # r => SameButWire(q)) /\ (\A d : SameChannel(d))
  BY <1>2, <1>3, SameTable DEF SameButWire
<1>5. About(c) /\ PortInv(l)'
  BY <1>1, <1>2, <1>4, PortFrame, PortsAre DEF About
<1>6. PortInv(r)'
  <2>1. data[r] = <<>> /\ drain[r] = "idle" /\ ~closer[r]
    BY <1>1, <1>2 DEF PortInv, AbsentPort
  <2>2. AbsentPort(r)' /\ LivePort(r)' /\ DeadPort(r)' /\ PortData(r)'
    BY <1>2, <1>3, <2>1 DEF AbsentPort, LivePort, DeadPort, PortData
  <2> QED
    BY <1>1, <1>2, <2>2 DEF PortInv
<1>7. Alike(l) /\ Alike(r)
  BY <1>1, <1>2, <1>3 DEF Alike, Stream, In, Out
<1>8. Ends(c)' /\ ToLocal(c)' /\ ToRemote(c)' /\ Complete(c)'
  BY <1>1, <1>2, <1>3, <1>7, StreamsFrame
<1>9. Idle(c)' /\ Entered(c)'
  BY <1>1, <1>2, <1>3, <1>4, <1>7 DEF ChannelInv, Idle, Entered, SameChannel, Alike
<1> QED
  BY <1>5, <1>6, <1>8, <1>9 DEF Kept, ChannelInv

\* The steps of a channel that is not open yet.
LEMMA TableStep ==
  ASSUME IInv, NEW c \in Channels, Entered(c)', UNCHANGED pool,
         UNCHANGED <<state, inbox, on, data, last, drain, reopen, dead, wire, session, closer>>,
         \A d \in Channels : d # c => /\ d \in channels' <=> d \in channels
                                      /\ pending'[d] = pending[d]
  PROVE  Kept(c)
<1>1. \A q \in Ports : SameButWire(q)
  BY DEF SameButWire
<1>2. About(c)
  BY <1>1 DEF About, SameChannel, InPool
<1>3. PortInv(Local(c))' /\ PortInv(Remote(c))'
  BY <1>1, PortFrame, PortsAre DEF IInv
<1>4. Alike(Local(c)) /\ Alike(Remote(c)) /\ ChannelInv(c)
  BY DEF Alike, Stream, In, Out, IInv
<1>5. Ends(c)' /\ ToLocal(c)' /\ ToRemote(c)' /\ Complete(c)'
  BY <1>4, StreamsFrame
<1>6. Idle(c)'
  BY <1>4 DEF ChannelInv, Idle, InPool, Alike
<1> QED
  BY <1>2, <1>3, <1>5, <1>6 DEF Kept, ChannelInv

LEMMA AddedStep ==
  ASSUME IInv, NEW c \in Channels, Added(c)
  PROVE  Kept(c)
<1>1. Entered(c)'
  BY DEF Added, Entered, Local
<1> QED
  BY <1>1, TableStep DEF Added

LEMMA CreatedDeadStep ==
  ASSUME IInv, NEW c \in Channels, CreatedDead(c)
  PROVE  Kept(c)
<1>1. Entered(c)'
  BY DEF CreatedDead, Entered, Local
<1>2. \A d \in Channels : d # c => pending'[d] = pending[d]
  BY DEF CreatedDead, IInv, TypeOK
<1> QED
  BY <1>1, <1>2, TableStep DEF CreatedDead

LEMMA CreateFailsStep ==
  ASSUME IInv, NEW c \in Channels, CreateFails(c)
  PROVE  Kept(c)
<1>1. /\ pending'[c] = pending[c] - 1 /\ pending[c] \in Nat
      /\ \A d \in Channels : d # c => pending'[d] = pending[d]
  BY PoolAssumption DEF CreateFails, IInv, TypeOK
<1>2. c \in channels /\ state[Local(c)] = "ABSENT" => pending[c] > 1
  BY DEF CreateFails, Local
<1>3. Entered(c)'
  BY <1>1, <1>2 DEF CreateFails, Entered, IInv, ChannelInv
<1> QED
  BY <1>1, <1>3, TableStep DEF CreateFails

LEMMA CreateStep ==
  ASSUME IInv, Create, Allowed(nextId + 1), NEW c \in Channels, c = nextId + 1
  PROVE  Kept(c)
<1>1. /\ pending'[c] = pending[c] + 1 /\ pending[c] \in Nat
      /\ \A d \in Channels : d # c => pending'[d] = pending[d]
      /\ UNCHANGED <<pool, channels, state, inbox, on, data, last, drain, reopen, dead, wire, session, closer>>
  BY PoolAssumption DEF Create, IInv, TypeOK
<1>2. Entered(c)'
  BY <1>1 DEF Entered, IInv, ChannelInv
<1> QED
  BY <1>1, <1>2, TableStep

-----------------------------------------------------------------------------
(* Types and counts *)

LEMMA OutstandingIsFinite ==
  ASSUME TypeOK
  PROVE  IsFiniteSet(Outstanding) /\ Cardinality(Outstanding) \in Nat
<1>1. IsFiniteSet(Channels) /\ IsFiniteSet(1..MaxOpens)
  BY FS_Interval, PoolAssumption DEF Channels
<1>2. IsFiniteSet(Channels \X (1..MaxOpens))
  BY <1>1, FS_Product
<1>3. Outstanding \in SUBSET (Channels \X (1..MaxOpens))
  BY DEF Outstanding
<1>4. IsFiniteSet(Outstanding)
  BY <1>2, <1>3, FS_Subset
<1> QED
  BY <1>4, FS_CardinalityType

LEMMA OneMore ==
  ASSUME TypeOK, NEW c \in Channels, pending' = [pending EXCEPT ![c] = @ + 1]
  PROVE  /\ Cardinality(Outstanding)' <= Cardinality(Outstanding) + 1
         /\ Cardinality(Outstanding) \in Nat /\ Cardinality(Outstanding)' \in Nat
<1> DEFINE x == <<c, pending[c] + 1>>
           S == Outstanding \cup {x}
<1>1. /\ IsFiniteSet(S) /\ Cardinality(S) \in Nat /\ Cardinality(S) <= Cardinality(Outstanding) + 1
      /\ Cardinality(Outstanding) \in Nat
  BY OutstandingIsFinite, FS_AddElement, FS_CardinalityType
<1>2. ASSUME NEW d \in Channels, NEW k \in 1..MaxOpens, k <= pending'[d]
      PROVE  k <= pending[d] \/ <<d, k>> = x
  <2>1. CASE d = c
    BY <1>2, <2>1, PoolAssumption DEF TypeOK
  <2>2. CASE d # c
    BY <1>2, <2>2 DEF TypeOK
  <2> QED
    BY <2>1, <2>2
<1>3. Outstanding' \in SUBSET S
  BY <1>2 DEF Outstanding
<1>4. Cardinality(Outstanding') \in Nat /\ Cardinality(Outstanding') <= Cardinality(S)
  BY <1>1, <1>3, FS_Subset, FS_CardinalityType
<1> QED
  BY <1>1, <1>4

LEMMA OneLess ==
  ASSUME TypeOK, NEW c \in Channels, pending[c] > 0, pending' = [pending EXCEPT ![c] = @ - 1]
  PROVE  /\ Cardinality(Outstanding)' <= Cardinality(Outstanding) - 1
         /\ Cardinality(Outstanding) \in Nat /\ Cardinality(Outstanding)' \in Nat
<1> DEFINE x == <<c, pending[c]>>
           S == Outstanding \ {x}
<1>1. x \in Outstanding
  BY PoolAssumption DEF TypeOK, Outstanding
<1>2. /\ IsFiniteSet(S) /\ Cardinality(S) \in Nat /\ Cardinality(S) = Cardinality(Outstanding) - 1
      /\ Cardinality(Outstanding) \in Nat
  BY <1>1, OutstandingIsFinite, FS_RemoveElement, FS_CardinalityType
<1>3. ASSUME NEW d \in Channels, NEW k \in 1..MaxOpens, k <= pending'[d]
      PROVE  k <= pending[d] /\ <<d, k>> # x
  <2>1. CASE d = c
    BY <1>3, <2>1, PoolAssumption DEF TypeOK
  <2>2. CASE d # c
    BY <1>3, <2>2 DEF TypeOK
  <2> QED
    BY <2>1, <2>2
<1>4. Outstanding' \in SUBSET S
  BY <1>3 DEF Outstanding
<1>5. Cardinality(Outstanding') \in Nat /\ Cardinality(Outstanding') <= Cardinality(S)
  BY <1>2, <1>4, FS_Subset, FS_CardinalityType
<1> QED
  BY <1>2, <1>5

\* The pool after a step of a port.
LEMMA PoolGrows ==
  ASSUME IInv, Grows
  PROVE  /\ pool' \in Seq(Channels) /\ Len(pool') < maxChannels
         /\ \A i, j \in 1..Len(pool') : i # j => pool'[i] # pool'[j]
<1>1. pool \in Seq(Channels) /\ \A i, j \in 1..Len(pool) : i # j => pool[i] # pool[j]
  BY Types DEF IInv, Counts
<1>2. CASE pool' = pool
  BY <1>1, <1>2, Distinct
<1>3. ASSUME NEW c \in Channels, ~InPool(c), pool' = Append(pool, c)
      PROVE  /\ pool' \in Seq(Channels)
             /\ \A i, j \in 1..Len(pool') : i # j => pool'[i] # pool'[j]
  <2>1. /\ pool' \in Seq(Channels) /\ Len(pool') = Len(pool) + 1 /\ Len(pool) \in Nat
        /\ pool'[Len(pool) + 1] = c /\ \A i \in 1..Len(pool) : pool'[i] = pool[i] /\ pool[i] # c
    BY <1>1, <1>3, AppendProperties DEF InPool
  <2>2. \A i \in 1..Len(pool') : i \in 1..Len(pool) \/ i = Len(pool) + 1
    BY <2>1
  <2> QED
    BY <1>1, <2>1, <2>2
<1> QED
  BY <1>2, <1>3, Distinct DEF Grows

LEMMA PortCounts ==
  ASSUME IInv, Grows, UNCHANGED <<pending, nextId, opens>>,
         \A c \in Channels : session'[Local(c)] = session[Local(c)]
  PROVE  Counts' /\ pool' \in Seq(Channels) /\ Len(pool') < maxChannels
<1>1. \A c \in Channels : pending'[c] <= opens' /\ session'[Local(c)] <= opens'
  BY DEF IInv, Counts
<1>2. Cardinality(Outstanding)' <= nextId'
  BY DEF IInv, Counts, Outstanding
<1> QED
  BY <1>1, <1>2, PoolGrows DEF Counts

LEMMA PostTypes ==
  ASSUME TypeOK, NEW p \in Ports, NEW kind \in {"OPEN", "CLOSE", "data"}, Post(p, kind, session[p]),
         inbox' = inbox
  PROVE  wire' \in [Ports -> Seq(Message)]
<1>1. session[p] \in 0..MaxOpens
  BY DEF TypeOK
<1> QED
  BY <1>1, PostStreams

\* What the steps of a port leave alone.
LEMMA RestTypes ==
  ASSUME IInv, Grows, UNCHANGED <<nextId, pending, opens>>, channels' \subseteq channels,
         \A c \in Channels : session'[Local(c)] = session[Local(c)]
  PROVE  /\ Counts' /\ pool' \in Seq(Channels) /\ Len(pool') < maxChannels
         /\ nextId' \in 0..(maxChannels - 1) /\ channels' \subseteq Channels
         /\ pending' \in [Channels -> 0..MaxOpens] /\ opens' \in 0..MaxOpens
BY PortCounts DEF IInv, TypeOK

LEMMA SendTypes ==
  ASSUME IInv, NEW p \in Ports, Send(p)
  PROVE  TypeOK' /\ Counts'
<1>1. TypeOK /\ Grows /\ wire' \in [Ports -> Seq(Message)]
  BY PostTypes DEF Send, IInv, Grows, localVars
<1>2. /\ Counts' /\ pool' \in Seq(Channels) /\ Len(pool') < maxChannels
      /\ nextId' \in 0..(maxChannels - 1) /\ channels' \subseteq Channels
      /\ pending' \in [Channels -> 0..MaxOpens] /\ opens' \in 0..MaxOpens
  BY <1>1, RestTypes DEF Send, localVars
<1>3. sends' \in 0..MaxData
  BY <1>1, PoolAssumption DEF Send, TypeOK
<1> QED
  BY <1>1, <1>2, <1>3 DEF Send, TypeOK

LEMMA CloseTypes ==
  ASSUME IInv, NEW p \in Ports, Close(p)
  PROVE  TypeOK' /\ Counts'
<1>1. TypeOK /\ Grows /\ wire' \in [Ports -> Seq(Message)]
  BY PostTypes DEF Close, AwaitAnswer, IInv, Grows, localVars
<1>2. /\ Counts' /\ pool' \in Seq(Channels) /\ Len(pool') < maxChannels
      /\ nextId' \in 0..(maxChannels - 1) /\ channels' \subseteq Channels
      /\ pending' \in [Channels -> 0..MaxOpens] /\ opens' \in 0..MaxOpens
  BY <1>1, RestTypes DEF Close, AwaitAnswer, localVars, countVars
<1> QED
  BY <1>1, <1>2 DEF Close, AwaitAnswer, localVars, countVars, TypeOK, States

LEMMA AckTypes ==
  ASSUME IInv, NEW p \in Ports, Ack(p)
  PROVE  TypeOK' /\ Counts'
<1>1. TypeOK /\ Grows /\ wire' \in [Ports -> Seq(Message)]
  BY PostTypes DEF Ack, IInv, Grows, localVars
<1>2. /\ Counts' /\ pool' \in Seq(Channels) /\ Len(pool') < maxChannels
      /\ nextId' \in 0..(maxChannels - 1) /\ channels' \subseteq Channels
      /\ pending' \in [Channels -> 0..MaxOpens] /\ opens' \in 0..MaxOpens
  BY <1>1, RestTypes DEF Ack, localVars, countVars
<1> QED
  BY <1>1, <1>2 DEF Ack, localVars, countVars, TypeOK

LEMMA ReceiveTypes ==
  ASSUME IInv, NEW p \in Ports, Receive(p)
  PROVE  TypeOK' /\ Counts'
<1>1. TypeOK /\ Grows /\ wire[p] \in Seq(Message) /\ inbox[p] \in Seq(Message) /\ wire[p] # <<>>
  BY Types DEF Receive, IInv, Grows, localVars
<1>2. /\ Counts' /\ pool' \in Seq(Channels) /\ Len(pool') < maxChannels
      /\ nextId' \in 0..(maxChannels - 1) /\ channels' \subseteq Channels
      /\ pending' \in [Channels -> 0..MaxOpens] /\ opens' \in 0..MaxOpens
  BY <1>1, RestTypes DEF Receive, localVars, countVars
<1>3. Tail(wire[p]) \in Seq(Message) /\ Append(inbox[p], Head(wire[p])) \in Seq(Message)
  BY <1>1, HeadTailProperties, AppendProperties
<1>4. inbox' \in [Ports -> Seq(Message)] /\ wire' \in [Ports -> Seq(Message)]
  BY <1>1, <1>3 DEF Receive, TypeOK
<1> QED
  BY <1>1, <1>2, <1>4 DEF Receive, localVars, countVars, TypeOK

LEMMA HandleDataTypes ==
  ASSUME IInv, NEW p \in Ports, HandleData(p)
  PROVE  TypeOK' /\ Counts'
<1>1. TypeOK /\ Grows /\ data[p] \in Seq(0..MaxOpens) /\ data[p] # <<>>
  BY Types DEF HandleData, IInv, Grows, localVars
<1>2. /\ Counts' /\ pool' \in Seq(Channels) /\ Len(pool') < maxChannels
      /\ nextId' \in 0..(maxChannels - 1) /\ channels' \subseteq Channels
      /\ pending' \in [Channels -> 0..MaxOpens] /\ opens' \in 0..MaxOpens
  BY <1>1, RestTypes DEF HandleData, localVars
<1>3. Tail(data[p]) \in Seq(0..MaxOpens)
  BY <1>1, HeadTailProperties
<1>4. data' \in [Ports -> Seq(0..MaxOpens)] /\ failures' \in 0..MaxFailures
  BY <1>1, <1>3, PoolAssumption DEF HandleData, TypeOK
<1>5. last' \in [Ports -> {"resolved", "pending", "failed"}]
  BY <1>1 DEF HandleData, TypeOK
<1> QED
  BY <1>1, <1>2, <1>4, <1>5 DEF HandleData, localVars, TypeOK

LEMMA DeathTypes ==
  ASSUME IInv, NEW p \in Ports, ChannelDies(p)
  PROVE  TypeOK' /\ Counts'
<1>1. TypeOK /\ Grows /\ channels' \subseteq channels
  BY DEF ChannelDies, IInv, Grows
<1>2. /\ Counts' /\ pool' \in Seq(Channels) /\ Len(pool') < maxChannels
      /\ nextId' \in 0..(maxChannels - 1) /\ channels' \subseteq Channels
      /\ pending' \in [Channels -> 0..MaxOpens] /\ opens' \in 0..MaxOpens
  BY <1>1, RestTypes DEF ChannelDies
<1>3. deaths' \in 0..MaxDeaths
  BY <1>1, PoolAssumption DEF ChannelDies, TypeOK
<1>4. /\ wire' \in [Ports -> Seq(Message)] /\ dead' \in [Ports -> BOOLEAN]
      /\ state' \in [Ports -> States \cup {"ABSENT"}]
  BY <1>1 DEF ChannelDies, TypeOK, States
<1> QED
  BY <1>1, <1>2, <1>3, <1>4 DEF ChannelDies, TypeOK

LEMMA DoCloseTypes ==
  ASSUME TypeOK, NEW p \in Ports, ~reopen[p], DoClose(p)
  PROVE  /\ state' \in [Ports -> States \cup {"ABSENT"}] /\ UNCHANGED session
         /\ reopen' \in [Ports -> BOOLEAN] /\ data' \in [Ports -> Seq(0..MaxOpens)]
         /\ last' \in [Ports -> {"resolved", "pending", "failed"}]
         /\ on' \in [Ports -> BOOLEAN] /\ closer' \in [Ports -> BOOLEAN]
BY DEF TypeOK, DoClose, NewQueue, States

LEMMA AckSentTypes ==
  ASSUME IInv, NEW p \in Ports, AckSent(p)
  PROVE  TypeOK' /\ Counts'
<1>1. TypeOK /\ Grows /\ ~reopen[p] /\ channels' \subseteq channels
  BY AckSentStep DEF IInv, PortInv, AckSent
<1>2. /\ state' \in [Ports -> States \cup {"ABSENT"}] /\ UNCHANGED session
      /\ reopen' \in [Ports -> BOOLEAN] /\ data' \in [Ports -> Seq(0..MaxOpens)]
      /\ last' \in [Ports -> {"resolved", "pending", "failed"}]
      /\ on' \in [Ports -> BOOLEAN] /\ closer' \in [Ports -> BOOLEAN]
  <2>1. CASE state[p] = "PERMANENTLY_CLOSED"
    BY <1>1, <2>1 DEF AckSent, TypeOK
  <2>2. CASE DoClose(p)
    BY <1>1, <2>2, DoCloseTypes
  <2> QED
    BY <2>1, <2>2 DEF AckSent
<1>3. /\ Counts' /\ pool' \in Seq(Channels) /\ Len(pool') < maxChannels
      /\ nextId' \in 0..(maxChannels - 1) /\ channels' \subseteq Channels
      /\ pending' \in [Channels -> 0..MaxOpens] /\ opens' \in 0..MaxOpens
  BY <1>1, <1>2, RestTypes DEF AckSent, countVars
<1>4. drain' \in [Ports -> {"idle", "draining", "acking"}]
  BY <1>1 DEF AckSent, TypeOK
<1> QED
  BY <1>1, <1>2, <1>3, <1>4 DEF AckSent, countVars, TypeOK

LEMMA ProcessTypes ==
  ASSUME IInv, NEW p \in Ports, Process(p)
  PROVE  TypeOK' /\ Counts' /\ Kept(p[1])
<1> DEFINE m == Head(inbox[p])
<1>1. /\ TypeOK /\ ~reopen[p] /\ UNCHANGED <<nextId, pending, channels, dead, wire, countVars>>
      /\ inbox[p] \in Seq(Message) /\ inbox[p] # <<>> /\ Busy(p) /\ session[p] \in 0..MaxOpens
  <2>1. TypeOK /\ PortInv(p) /\ Busy(p) /\ UNCHANGED <<nextId, pending, channels, dead, wire, countVars>>
    BY DEF IInv, Process
  <2> QED
    BY <2>1, Types DEF PortInv, Busy, TypeOK
<1>2. m \in Message /\ m.kind \in {"OPEN", "CLOSE", "data"} /\ m.session \in 0..MaxOpens
  BY <1>1, Reading DEF Message
<1>3. inbox' \in [Ports -> Seq(Message)]
  <2>1. Tail(inbox[p]) \in Seq(Message)
    BY <1>1, HeadTailProperties
  <2> QED
    BY <1>1, <2>1 DEF Process, TypeOK
<1>4. /\ Kept(p[1]) /\ Grows
      /\ \A c \in Channels : session'[Local(c)] = session[Local(c)]
      /\ state' \in [Ports -> States \cup {"ABSENT"}] /\ session' \in [Ports -> 0..MaxOpens]
      /\ reopen' \in [Ports -> BOOLEAN] /\ data' \in [Ports -> Seq(0..MaxOpens)]
      /\ last' \in [Ports -> {"resolved", "pending", "failed"}]
      /\ on' \in [Ports -> BOOLEAN] /\ closer' \in [Ports -> BOOLEAN]
      /\ drain' \in [Ports -> {"idle", "draining", "acking"}]
  <2>1. CASE m.kind = "data"
    <3>1. OnData(p, m) /\ Kept(p[1]) /\ pool' = pool
      BY <1>1, <2>1, OnDataStep DEF Process
    <3>2. data' \in [Ports -> Seq(0..MaxOpens)] /\ last' \in [Ports -> {"resolved", "pending", "failed"}]
      BY <1>1, <1>2, <3>1 DEF OnData, TypeOK
    <3> QED
      BY <1>1, <3>1, <3>2 DEF OnData, TypeOK, Grows
  <2>2. CASE m.kind = "OPEN"
    <3>1. OnOpen(p) /\ Kept(p[1]) /\ pool' = pool /\ p = Remote(p[1])
      BY <1>1, <2>2, OnOpenStep DEF Process
    <3>2. state[p] = "CLOSED" /\ m.session = session[p] + 1
      BY <1>1, <2>2, Reading
    <3>3. DoOpen(p) /\ UNCHANGED <<pool, on, data, last, drain, closer, reopen>>
      BY <3>1, <3>2 DEF OnOpen
    <3>4. session[p] + 1 \in 0..MaxOpens
      BY <1>2, <3>2
    <3>5. session' \in [Ports -> 0..MaxOpens] /\ state' \in [Ports -> States \cup {"ABSENT"}]
      BY <1>1, <3>3, <3>4 DEF DoOpen, TypeOK, States
    <3>6. \A c \in Channels : Local(c) # p
      BY <3>1 DEF Local, Remote
    <3>7. \A c \in Channels : session'[Local(c)] = session[Local(c)]
      BY <1>1, <3>3, <3>6, PortsAre DEF DoOpen, TypeOK
    <3> QED
      BY <1>1, <3>1, <3>3, <3>5, <3>7 DEF TypeOK, Grows
  <2>3. CASE m.kind = "CLOSE"
    <3>1. OnClose(p) /\ Kept(p[1]) /\ Grows /\ UNCHANGED session
      BY <1>1, <2>3, OnCloseStep DEF Process
    <3>2. CASE state[p] = "CLOSING"
      <4>1. DoClose(p) /\ UNCHANGED drain
        BY <3>1, <3>2 DEF OnClose, CloseCrossed
      <4> QED
        BY <1>1, <3>1, <4>1, DoCloseTypes DEF TypeOK
    <3>3. CASE state[p] # "CLOSING"
      <4>1. /\ UNCHANGED <<pool, data, last, reopen, session, closer>>
            /\ on' = [on EXCEPT ![p] = FALSE]
            /\ \/ /\ state' = [state EXCEPT ![p] = "CLOSING"]
                  /\ drain' = [drain EXCEPT ![p] = "draining"]
               \/ UNCHANGED <<state, drain>>
        BY <3>1, <3>3 DEF OnClose, HandlingStopped
      <4> QED
        BY <1>1, <3>1, <4>1 DEF TypeOK, States
    <3> QED
      BY <3>2, <3>3
  <2> QED
    BY <1>2, <2>1, <2>2, <2>3
<1>5. /\ Counts' /\ pool' \in Seq(Channels) /\ Len(pool') < maxChannels
      /\ nextId' \in 0..(maxChannels - 1) /\ channels' \subseteq Channels
      /\ pending' \in [Channels -> 0..MaxOpens] /\ opens' \in 0..MaxOpens
  BY <1>1, <1>4, RestTypes DEF countVars
<1> QED
  BY <1>1, <1>3, <1>4, <1>5 DEF countVars, TypeOK

LEMMA ReuseTypes ==
  ASSUME IInv, Reuse
  PROVE  TypeOK' /\ Counts'
<1>1. PICK c \in Channels : c = Head(pool)
  BY Types, Distinct DEF IInv, Reuse, Counts
<1> DEFINE l == Local(c)
<1>2. /\ TypeOK /\ Counts /\ pool \in Seq(Channels) /\ pool # <<>> /\ opens < MaxOpens
      /\ l \in Ports /\ opens' = opens + 1 /\ DoOpen(l) /\ pool' = Tail(pool)
      /\ UNCHANGED <<nextId, pending, channels, inbox, on, data, last, drain, reopen, dead,
                     closer, sends, failures, deaths>>
  BY <1>1, Types, PortsAre DEF IInv, Reuse, Local
<1>3. /\ session[l] < MaxOpens /\ session' = [session EXCEPT ![l] = @ + 1]
      /\ wire' \in [Ports -> Seq(Message)]
  BY <1>1, ReuseStep
<1>4. /\ pool' \in Seq(Channels)
      /\ \A i, j \in 1..Len(pool') : i # j => pool'[i] # pool'[j]
  BY <1>2, Distinct DEF Counts
<1>5. Len(pool') < maxChannels
  BY <1>4, Distinct
<1>6. opens \in Nat /\ opens' \in 0..MaxOpens /\ \A q \in Ports : session[q] \in 0..MaxOpens
  BY <1>2, PoolAssumption DEF TypeOK
<1>7. session' \in [Ports -> 0..MaxOpens]
  <2>1. session[l] + 1 \in 0..MaxOpens
    BY <1>2, <1>3, <1>6, PoolAssumption
  <2> QED
    BY <1>2, <1>3, <2>1 DEF TypeOK
<1>8. ASSUME NEW d \in Channels PROVE pending'[d] <= opens' /\ session'[Local(d)] <= opens'
  <2>1. session'[Local(d)] <= session[Local(d)] + 1 /\ session[Local(d)] <= opens
    <3>1. Local(d) \in Ports /\ session[Local(d)] \in Nat
      BY <1>6, PortsAre, PoolAssumption
    <3>2. CASE d = c
      BY <1>2, <1>3, <3>1, <3>2 DEF TypeOK, Counts
    <3>3. CASE d # c
      <4>1. Local(d) # l
        BY <3>3 DEF Local
      <4> QED
        BY <1>2, <1>3, <3>1, <4>1 DEF TypeOK, Counts
    <3> QED
      BY <3>2, <3>3
  <2>2. pending[d] <= opens /\ pending'[d] = pending[d] /\ pending[d] \in Nat
    BY <1>2, PoolAssumption DEF Counts, TypeOK
  <2>3. session'[Local(d)] \in Nat /\ session[Local(d)] \in Nat
    BY <1>6, <1>7, PortsAre, PoolAssumption
  <2> QED
    BY <1>2, <1>6, <2>1, <2>2, <2>3
<1>9. Counts'
  BY <1>2, <1>4, <1>8 DEF Counts, Outstanding
<1>10. state' \in [Ports -> States \cup {"ABSENT"}]
  BY <1>2 DEF DoOpen, TypeOK, States
<1> QED
  BY <1>2, <1>3, <1>4, <1>5, <1>6, <1>7, <1>9, <1>10 DEF TypeOK

LEMMA CreatedTypes ==
  ASSUME IInv, NEW c \in Channels, Created(c)
  PROVE  TypeOK' /\ Counts'
<1> DEFINE l == Local(c)
<1>1. /\ TypeOK /\ Counts /\ l \in Ports /\ DoOpen(l)
      /\ pending' = [pending EXCEPT ![c] = @ - 1] /\ on' = [on EXCEPT ![l] = TRUE]
      /\ UNCHANGED <<pool, nextId, channels, inbox, data, last, drain, reopen, dead, closer, countVars>>
  BY PortsAre DEF IInv, Created, Local
<1>2. /\ session[l] = 0 /\ pending[c] > 0 /\ session' = [session EXCEPT ![l] = @ + 1]
      /\ wire' \in [Ports -> Seq(Message)]
  BY CreatedStep
<1>3. /\ \A d \in Channels : pending[d] \in 0..MaxOpens /\ pending[d] <= opens
      /\ nextId \in Nat /\ opens \in Nat /\ opens <= MaxOpens
  BY <1>1, PoolAssumption DEF TypeOK, Counts
<1>4. pending' \in [Channels -> 0..MaxOpens] /\ \A d \in Channels : pending'[d] <= pending[d]
  <2>1. pending[c] - 1 \in 0..MaxOpens
    BY <1>2, <1>3, PoolAssumption
  <2> QED
    BY <1>1, <1>3, <2>1 DEF TypeOK
<1>5. session' \in [Ports -> 0..MaxOpens] /\ session'[l] = 1 /\ 1 <= opens
  <2>1. 1 \in 0..MaxOpens /\ 1 <= opens
    BY <1>2, <1>3, PoolAssumption
  <2> QED
    BY <1>1, <1>2, <2>1 DEF TypeOK
<1>6. ASSUME NEW d \in Channels PROVE pending'[d] <= opens' /\ session'[Local(d)] <= opens'
  <2>1. pending'[d] <= opens'
    BY <1>1, <1>3, <1>4, PoolAssumption DEF countVars
  <2>2. CASE d = c
    BY <1>1, <1>5, <2>1, <2>2 DEF countVars
  <2>3. CASE d # c
    <3>1. Local(d) # l /\ Local(d) \in Ports
      BY <2>3, PortsAre DEF Local
    <3> QED
      BY <1>1, <1>2, <2>1, <3>1 DEF TypeOK, Counts, countVars
  <2> QED
    BY <2>2, <2>3
<1>7. Cardinality(Outstanding)' <= nextId'
  <2>1. /\ Cardinality(Outstanding)' <= Cardinality(Outstanding) - 1
        /\ Cardinality(Outstanding) \in Nat /\ Cardinality(Outstanding)' \in Nat
    BY <1>1, <1>2, OneLess
  <2>2. Cardinality(Outstanding) <= nextId /\ nextId' = nextId
    BY <1>1 DEF Counts
  <2> QED
    BY <1>3, <2>1, <2>2
<1>8. Counts'
  BY <1>1, <1>6, <1>7 DEF Counts
<1>9. state' \in [Ports -> States \cup {"ABSENT"}] /\ on' \in [Ports -> BOOLEAN]
  BY <1>1 DEF DoOpen, TypeOK, States
<1> QED
  BY <1>1, <1>2, <1>4, <1>5, <1>8, <1>9 DEF TypeOK, countVars

LEMMA CreateTypes ==
  ASSUME IInv, Create
  PROVE  TypeOK' /\ Counts'
<1>1. /\ TypeOK /\ Counts /\ opens' = opens + 1 /\ opens < MaxOpens
      /\ UNCHANGED <<pool, channels, state, inbox, on, data, last, drain, reopen, dead, wire,
                     session, closer, sends, failures, deaths>>
  BY DEF IInv, Create
<1>2. /\ \A d \in Channels : pending[d] \in Nat /\ pending[d] <= opens
      /\ \A d \in Channels : session[Local(d)] \in Nat /\ session[Local(d)] <= opens
      /\ nextId \in Nat /\ opens \in Nat /\ opens' \in 0..MaxOpens
  BY <1>1, PortsAre, PoolAssumption DEF TypeOK, Counts
<1>3. CASE ~Allowed(nextId + 1)
  <2>1. UNCHANGED <<nextId, pending>>
    BY <1>3 DEF Create
  <2>2. \A d \in Channels : pending'[d] <= opens' /\ session'[Local(d)] <= opens'
    BY <1>1, <1>2, <2>1
  <2>3. Counts'
    BY <1>1, <2>1, <2>2 DEF Counts, Outstanding
  <2> QED
    BY <1>1, <1>2, <2>1, <2>3 DEF TypeOK
<1>4. CASE Allowed(nextId + 1)
  <2>1. PICK c \in Channels : c = nextId + 1
    BY <1>2, <1>4, PoolAssumption DEF Allowed, Channels
  <2>2. nextId' = nextId + 1 /\ pending' = [pending EXCEPT ![c] = @ + 1]
    BY <1>4, <2>1 DEF Create
  <2>3. nextId' \in 0..(maxChannels - 1)
    BY <1>2, <1>4, <2>2, PoolAssumption DEF Allowed
  <2>4. pending' \in [Channels -> 0..MaxOpens] /\ \A d \in Channels : pending'[d] <= pending[d] + 1
    <3>1. pending[c] + 1 \in 0..MaxOpens
      BY <1>1, <1>2, PoolAssumption
    <3> QED
      BY <1>1, <1>2, <2>2, <3>1 DEF TypeOK
  <2>5. \A d \in Channels : pending'[d] \in Nat
    BY <2>4, PoolAssumption
  <2>6. \A d \in Channels : pending'[d] <= opens' /\ session'[Local(d)] <= opens'
    BY <1>1, <1>2, <2>4, <2>5
  <2>7. Cardinality(Outstanding)' <= nextId'
    <3>1. /\ Cardinality(Outstanding)' <= Cardinality(Outstanding) + 1
          /\ Cardinality(Outstanding) \in Nat /\ Cardinality(Outstanding)' \in Nat
      BY <1>1, <2>2, OneMore
    <3>2. Cardinality(Outstanding) <= nextId
      BY <1>1 DEF Counts
    <3> QED
      BY <1>2, <2>2, <3>1, <3>2
  <2>8. Counts'
    BY <1>1, <2>6, <2>7 DEF Counts
  <2> QED
    BY <1>1, <1>2, <2>3, <2>4, <2>8 DEF TypeOK
<1> QED
  BY <1>3, <1>4

\* A call that was outstanding is over.
LEMMA CallOver ==
  ASSUME IInv, NEW c \in Channels, pending[c] > 0, pending' = [pending EXCEPT ![c] = @ - 1],
         nextId' \in {nextId, nextId - 1},
         UNCHANGED <<pool, opens, session>>
  PROVE  /\ Counts' /\ pending' \in [Channels -> 0..MaxOpens]
         /\ nextId' \in 0..(maxChannels - 1)
<1>1. TypeOK /\ Counts
  BY DEF IInv
<1>2. /\ \A d \in Channels : pending[d] \in 0..MaxOpens /\ pending[d] <= opens
      /\ nextId \in Nat /\ opens \in Nat /\ nextId < maxChannels
  BY <1>1, PoolAssumption DEF TypeOK, Counts
<1>3. pending' \in [Channels -> 0..MaxOpens] /\ \A d \in Channels : pending'[d] <= pending[d]
  <2>1. pending[c] - 1 \in 0..MaxOpens
    BY <1>2, PoolAssumption
  <2> QED
    BY <1>1, <1>2, <2>1 DEF TypeOK
<1>4. \A d \in Channels : pending'[d] <= opens'
  <2>1. \A d \in Channels : pending'[d] \in Nat /\ pending[d] \in Nat
    BY <1>2, <1>3, PoolAssumption
  <2> QED
    BY <1>2, <1>3, <2>1
<1>5. /\ Cardinality(Outstanding)' <= Cardinality(Outstanding) - 1
      /\ Cardinality(Outstanding) \in Nat /\ Cardinality(Outstanding)' \in Nat
      /\ Cardinality(Outstanding) <= nextId
  BY <1>1, OneLess DEF Counts
<1>6. nextId' \in 0..(maxChannels - 1) /\ Cardinality(Outstanding)' <= nextId'
  BY <1>2, <1>5, PoolAssumption
<1>7. Counts'
  BY <1>1, <1>4, <1>6 DEF Counts
<1> QED
  BY <1>3, <1>6, <1>7

LEMMA CreateFailsTypes ==
  ASSUME IInv, NEW c \in Channels, CreateFails(c)
  PROVE  TypeOK' /\ Counts'
<1>1. /\ TypeOK /\ pending' = [pending EXCEPT ![c] = @ - 1] /\ nextId' = nextId - 1
      /\ UNCHANGED <<pool, channels, state, inbox, on, data, last, drain, reopen, dead, wire,
                     session, closer, opens, sends, deaths>>
  BY DEF IInv, CreateFails
<1>2. pending[c] > 0
  BY <1>1, PoolAssumption DEF CreateFails, TypeOK
<1>3. failures' \in 0..MaxFailures
  BY <1>1, PoolAssumption DEF CreateFails, TypeOK
<1>4. /\ Counts' /\ pending' \in [Channels -> 0..MaxOpens] /\ nextId' \in 0..(maxChannels - 1)
  BY <1>1, <1>2, CallOver
<1> QED
  BY <1>1, <1>3, <1>4 DEF TypeOK

LEMMA CreatedDeadTypes ==
  ASSUME IInv, NEW c \in Channels, CreatedDead(c)
  PROVE  TypeOK' /\ Counts'
<1>1. /\ TypeOK /\ pending' = [pending EXCEPT ![c] = @ - 1] /\ channels' = channels \ {c}
      /\ UNCHANGED <<pool, nextId, state, inbox, on, data, last, drain, reopen, dead, wire,
                     session, closer, opens, sends, failures>>
  BY DEF IInv, CreatedDead
<1>2. pending[c] > 0
  BY DEF IInv, ChannelInv, Entered, CreatedDead, Local
<1>3. deaths' \in 0..MaxDeaths
  BY <1>1, PoolAssumption DEF CreatedDead, TypeOK
<1>4. /\ Counts' /\ pending' \in [Channels -> 0..MaxOpens] /\ nextId' \in 0..(maxChannels - 1)
  BY <1>1, <1>2, CallOver
<1> QED
  BY <1>1, <1>3, <1>4 DEF TypeOK

LEMMA AddedTypes ==
  ASSUME IInv, NEW c \in Channels, Added(c)
  PROVE  TypeOK' /\ Counts'
BY DEF IInv, TypeOK, Counts, Outstanding, Added, countVars

LEMMA RemoteCreatedTypes ==
  ASSUME IInv, NEW c \in Channels, RemoteCreated(c)
  PROVE  TypeOK' /\ Counts'
BY DEF IInv, TypeOK, Counts, Outstanding, RemoteCreated, localVars, countVars, States

-----------------------------------------------------------------------------
(* The invariant is inductive *)

LEMMA Initially == Init => IInv
<1> SUFFICES ASSUME Init PROVE IInv
  OBVIOUS
<1> USE PortsAre
<1>1. TypeOK
  BY PoolAssumption DEF Init, TypeOK
<1>2. Counts
  <2>1. Outstanding = {}
    BY DEF Init, Outstanding
  <2>2. Cardinality(Outstanding) = 0
    BY <2>1, FS_EmptySet
  <2> QED
    BY <2>2 DEF Init, Counts
<1>3. ASSUME NEW p \in Ports PROVE PortInv(p)
  BY <1>3 DEF Init, PortInv, AbsentPort, LivePort, DeadPort, PortData, Busy
<1>4. ASSUME NEW c \in Channels PROVE ChannelInv(c)
  <2>1. \A p \in Ports : Stream(p) = <<>> /\ In(p) = 0 /\ Out(p) = 0 /\ session[p] = 0
    BY DEF Init, Stream, In, Out
  <2>2. \A a : Chain(<<>>, a) /\ End(<<>>, a) = a /\ NoOpen(<<>>) /\ \A s : UpTo(<<>>, s)
    BY ChainEmpty
  <2>3. Ends(c)
    BY <2>1 DEF Init, Ends
  <2>4. ToLocal(c) /\ ToRemote(c) /\ Complete(c)
    BY <2>1, <2>2 DEF ToLocal, ToRemote, Complete
  <2>5. Idle(c) /\ Entered(c)
    BY DEF Init, Idle, InPool, Entered
  <2> QED
    BY <2>3, <2>4, <2>5 DEF ChannelInv
<1> QED
  BY <1>1, <1>2, <1>3, <1>4 DEF IInv

LEMMA KeptIsEnough ==
  ASSUME IInv, NEW c \in Channels, Kept(c), TypeOK', Counts'
  PROVE  IInv'
BY OtherChannels DEF Kept, IInv

LEMMA Inductive == IInv /\ [Next]_vars => IInv'
<1> SUFFICES ASSUME IInv, [Next]_vars PROVE IInv'
  OBVIOUS
<1>1. CASE UNCHANGED vars
  <2>1. TypeOK' /\ Counts'
    BY <1>1 DEF vars, localVars, countVars, IInv, TypeOK, Counts, Outstanding
  <2>2. ASSUME NEW p \in Ports PROVE PortInv(p)'
    BY <1>1, PortFrame DEF vars, localVars, countVars, IInv, SameButWire
  <2>3. ASSUME NEW c \in Channels PROVE ChannelInv(c)'
    <3>1. /\ Alike(Local(c)) /\ Alike(Remote(c)) /\ SameChannel(c) /\ ChannelInv(c)
          /\ UNCHANGED <<state, data, drain>>
      BY <1>1 DEF vars, localVars, countVars, IInv, Alike, Stream, In, Out, SameChannel, InPool
    <3> QED
      BY <3>1, ChannelFrame DEF ChannelInv, Idle
  <2> QED
    BY <2>1, <2>2, <2>3 DEF IInv
<1>2. ASSUME NEW p \in Ports,
             \/ Receive(p) \/ Process(p) \/ Ack(p) \/ AckSent(p) \/ ChannelDies(p)
             \/ Send(p) \/ HandleData(p) \/ Close(p)
      PROVE  IInv'
  <2>1. p[1] \in Channels
    BY PortsAre
  <2>2. Kept(p[1])
    BY <1>2, ReceiveStep, ProcessTypes, AckStep, AckSentStep, DeathStep, SendStep,
       HandleDataStep, CloseStep
  <2>3. TypeOK' /\ Counts'
    BY <1>2, ReceiveTypes, ProcessTypes, AckTypes, AckSentTypes, DeathTypes, SendTypes,
       HandleDataTypes, CloseTypes
  <2> QED
    BY <2>1, <2>2, <2>3, KeptIsEnough
<1>3. ASSUME NEW c \in Channels,
             Added(c) \/ Created(c) \/ CreateFails(c) \/ CreatedDead(c) \/ RemoteCreated(c)
      PROVE  IInv'
  <2>1. Kept(c)
    BY <1>3, AddedStep, CreatedStep, CreateFailsStep, CreatedDeadStep, RemoteCreatedStep
  <2>2. TypeOK' /\ Counts'
    BY <1>3, AddedTypes, CreatedTypes, CreateFailsTypes, CreatedDeadTypes, RemoteCreatedTypes
  <2> QED
    BY <2>1, <2>2, KeptIsEnough
<1>4. CASE Reuse
  <2>1. PICK c \in Channels : c = Head(pool)
    BY <1>4, Types, Distinct DEF IInv, Reuse, Counts
  <2> QED
    BY <1>4, <2>1, ReuseStep, ReuseTypes, KeptIsEnough
<1>5. CASE Create
  <2>1. CASE Allowed(nextId + 1)
    <3>1. PICK c \in Channels : c = nextId + 1
      BY <2>1, PoolAssumption DEF IInv, TypeOK, Allowed, Channels
    <3> QED
      BY <1>5, <2>1, <3>1, CreateStep, CreateTypes, KeptIsEnough
  <2>2. CASE ~Allowed(nextId + 1)
    <3>1. UNCHANGED <<pool, nextId, pending, channels, state, inbox, on, data, last, drain,
                      reopen, dead, wire, session, closer>>
      BY <1>5, <2>2 DEF Create
    <3>2. ASSUME NEW p \in Ports PROVE PortInv(p)'
      BY <3>1, PortFrame DEF IInv, SameButWire
    <3>3. ASSUME NEW c \in Channels PROVE ChannelInv(c)'
      <4>1. /\ Alike(Local(c)) /\ Alike(Remote(c)) /\ SameChannel(c) /\ ChannelInv(c)
            /\ UNCHANGED <<state, data, drain>>
        BY <3>1 DEF IInv, Alike, Stream, In, Out, SameChannel, InPool
      <4> QED
        BY <4>1, ChannelFrame DEF ChannelInv, Idle
    <3> QED
      BY <1>5, <3>2, <3>3, CreateTypes DEF IInv
  <2> QED
    BY <2>1, <2>2
<1> QED
  BY <1>1, <1>2, <1>3, <1>4, <1>5 DEF Next

LEMMA Invariance == Spec => []IInv
BY Initially, Inductive, PTL DEF Spec

\* The ids that are given back, also to the wrong call, never take nextChannelId_ below
\* zero or to the limit, and a channel is in pool_ so rarely that there is room for it:
\* the two pools of pool.ts keep to their types whatever the limit of channels.
THEOREM PoolTyped == Spec => []TypeOK
<1>1. IInv => TypeOK
  BY DEF IInv
<1> QED
  BY <1>1, Invariance, PTL

-----------------------------------------------------------------------------
(* The properties *)

LEMMA Isolated == IInv => SessionIsolation
<1> SUFFICES ASSUME IInv, NEW p \in Ports
             PROVE  /\ \A i \in DOMAIN data[p] : data[p][i] = session[p]
                    /\ session[Peer(p)] <= session[p] + 1
  BY DEF SessionIsolation
<1>1. \A i \in DOMAIN data[p] : data[p][i] = session[p]
  <2>1. data[p] \in Seq(0..MaxOpens) /\ PortInv(p)
    BY Types DEF IInv
  <2>2. DOMAIN data[p] = 1..Len(data[p])
    BY <2>1
  <2> QED
    BY <2>1, <2>2 DEF PortInv, PortData
<1>2. session[Peer(p)] <= session[p] + 1
  <2>1. Ends(p[1]) /\ session[p] \in Nat /\ session[Peer(p)] \in Nat
    BY PortsAre, Types DEF IInv, ChannelInv
  <2>2. CASE p = Local(p[1])
    BY <2>1, <2>2, PortsAre DEF Ends
  <2>3. CASE p = Remote(p[1])
    BY <2>1, <2>3, PortsAre DEF Ends
  <2> QED
    BY <2>2, <2>3, PortsAre
<1> QED
  BY <1>1, <1>2

LEMMA InOrder == IInv => ControlInOrder
<1> SUFFICES ASSUME IInv, NEW p \in Ports, Busy(p)
             PROVE  state[p] \in CASE Head(inbox[p]).kind = "OPEN" -> {"CLOSED"}
                                   [] OTHER -> {"OPEN", "CLOSING"}
  BY DEF ControlInOrder
<1>1. /\ Head(inbox[p]).kind = "OPEN" => state[p] = "CLOSED"
      /\ Head(inbox[p]).kind # "OPEN" => state[p] \in {"OPEN", "CLOSING"}
  BY Reading
<1> QED
  BY <1>1

LEMMA Quiet == IInv => PooledIsQuiet
<1> SUFFICES ASSUME IInv PROVE PooledIsQuiet
  OBVIOUS
<1>1. pool \in Seq(Channels) /\ DOMAIN pool = 1..Len(pool)
  BY Types DEF IInv
<1>2. ASSUME NEW i \in 1..Len(pool)
      PROVE  LET p == <<pool[i], "local">>
             IN /\ state[p] \in {"CLOSED", "PERMANENTLY_CLOSED"}
                /\ wire[p] = <<>> /\ inbox[p] = <<>>
  <2> DEFINE p == Local(pool[i])
  <2>1. pool[i] \in Channels /\ InPool(pool[i])
    BY <1>1 DEF InPool
  <2>2. state[p] \in {"CLOSED", "PERMANENTLY_CLOSED"} /\ Stream(p) = <<>>
    BY <2>1 DEF IInv, ChannelInv, Idle
  <2>3. inbox[p] \in Seq(Message) /\ wire[p] \in Seq(Message)
    BY <2>1, PortsAre, Types DEF IInv
  <2>4. wire[p] = <<>> /\ inbox[p] = <<>>
    BY <2>2, <2>3, ConcatEmptySeq, ConcatEqualIffEmpty DEF Stream
  <2> QED
    BY <2>2, <2>4 DEF Local
<1> QED
  BY <1>1, <1>2 DEF PooledIsQuiet, IInv, Counts

LEMMA WithinLimit == IInv => ChannelsWithinLimit
<1> SUFFICES ASSUME IInv PROVE ChannelsWithinLimit
  OBVIOUS
<1>1. Cardinality(channels) + 1 <= maxChannels
  <2>1. IsFiniteSet(Channels) /\ Cardinality(Channels) = maxChannels - 1
    BY FS_Interval, PoolAssumption DEF Channels
  <2>2. Cardinality(channels) <= Cardinality(Channels) /\ Cardinality(channels) \in Nat
    BY <2>1, FS_Subset, FS_CardinalityType DEF IInv, TypeOK
  <2> QED
    BY <2>1, <2>2, PoolAssumption
<1>2. \A c \in Channels : Entered(c)
  BY DEF IInv, ChannelInv
<1> QED
  BY <1>1, <1>2 DEF ChannelsWithinLimit, Entered, Local

\* However the messages of the two ends interleave, whenever channels close, and however
\* many sessions follow one another on a channel: a session meets nothing that is left of
\* another, and pool_ and channels_ of pool.ts hold a channel when it is free to be used.
THEOREM ReuseAlwaysClean == Spec => []ReuseIsClean
<1>1. IInv => ReuseIsClean
  BY Isolated, InOrder, Quiet, WithinLimit DEF ReuseIsClean
<1> QED
  BY <1>1, Invariance, PTL

\* A channel goes from CLOSING to CLOSED by its own answer or by that of its peer, and the
\* own one is sent only after the session has handled its data: unless it called close()
\* itself, a session loses none of what came before the CLOSE.
THEOREM DrainedBeforeClosed == Spec => DrainBeforeClosed
<1> DEFINE Drained ==
      \A p \in Ports : (state[p] = "CLOSING" /\ state'[p] = "CLOSED" /\ ~closer[p])
                         => data[p] = <<>>
<1>1. IInv /\ [Next]_vars => [Drained]_vars
  <2> SUFFICES ASSUME IInv, Next, NEW p \in Ports,
                      state[p] = "CLOSING", state'[p] = "CLOSED", ~closer[p]
               PROVE  data[p] = <<>>
    BY DEF vars
  <2>1. PortInv(p) /\ TypeOK /\ state'[p] # state[p]
    BY DEF IInv
  <2>2. CASE AckSent(p)
    BY <2>1, <2>2 DEF AckSent, PortInv, PortData
  <2>3. CASE Process(p)
    <3>1. ~dead[p] /\ drain[p] = "idle"
      BY <2>3, Reading DEF Process
    <3> QED
      BY <2>1, <3>1 DEF PortInv, LivePort
  <2>4. ASSUME NEW q \in Ports, q # p, AckSent(q) \/ Process(q) PROVE FALSE
    <3>1. ~DoClose(q) /\ ~DoOpen(q) /\ ~UNCHANGED state
      BY <2>1, <2>4 DEF DoClose, DoOpen, TypeOK
    <3>2. ~AckSent(q)
      BY <3>1 DEF AckSent
    <3>3. Head(inbox[q]).kind \in {"OPEN", "CLOSE", "data"}
      BY <2>4, <3>2, Reading, Types DEF Process, IInv
    <3>4. ~OnData(q, Head(inbox[q])) /\ ~OnOpen(q)
      BY <3>1 DEF OnData, OnOpen
    <3>5. ~OnClose(q)
      BY <2>1, <2>4, <3>1 DEF OnClose, CloseCrossed, TypeOK
    <3> QED
      BY <2>4, <3>2, <3>3, <3>4, <3>5 DEF Process
  <2>5. ASSUME NEW q \in Ports,
               Receive(q) \/ Ack(q) \/ ChannelDies(q) \/ Send(q) \/ HandleData(q) \/ Close(q)
        PROVE  FALSE
    BY <2>1, <2>5 DEF Receive, Ack, ChannelDies, Send, HandleData, Close, AwaitAnswer, TypeOK
  <2>6. ASSUME NEW c \in Channels,
               Added(c) \/ Created(c) \/ CreateFails(c) \/ CreatedDead(c) \/ RemoteCreated(c)
        PROVE  FALSE
    BY <2>1, <2>6 DEF Added, Created, CreateFails, CreatedDead, RemoteCreated, DoOpen, TypeOK
  <2>7. ~Reuse /\ ~Create
    BY <2>1 DEF Reuse, Create, DoOpen, TypeOK
  <2> QED
    BY <2>2, <2>3, <2>4, <2>5, <2>6, <2>7 DEF Next
<1> QED
  BY <1>1, Invariance, PTL DEF Spec, DrainBeforeClosed
=============
