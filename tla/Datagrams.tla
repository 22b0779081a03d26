------------------------------ MODULE Datagrams ------------------------------
(***************************************************************************)
(* The way of the browser's packets through two churn pipes: sendTo_ of    *)
(* src/src/churn-pipe/churn-pipe.ts transforms a packet, the queue manager *)
(* CoDelIsh (src/src/aqm/aqm.ts) lets the results pass or drops one, the   *)
(* network loses, repeats and reorders them, and onIncomingData_ restores. *)
(*                                                                         *)
(* A transformer is what it does to the stream: it may fragment (see       *)
(* Fragmentation and transformers/defragmenter.ts) and inject packets      *)
(* (transformers/byteSequenceShaper.ts); Protean does both.  What ciphers  *)
(* do to the bytes is the matter of Codecs.                                *)
(***************************************************************************)
EXTENDS Integers, Sequences, FiniteSets, FiniteSetsExt, SequencesExt, Fragmentation

CONSTANTS
  Transformers,    \* those of the pipes, here
  Lengths,         \* the lengths of the packets, in the order they are sent
  maxLength,       \* of FragmentationConfig
  Injected,        \* the indices of addSequences, distinct and in order
  TARGET_DELAY, BASE_INTERVAL, TRACED,  \* TRACED is 1 / tracingFraction_
  MaxTime,         \* bound: the clock
  MaxFaults        \* bound: datagrams lost or repeated, packets the peer's queue drops,
                   \* and traced sends that fail

ASSUME DatagramsAssumption ==
  /\ Transformers \subseteq {"none", "fragmentationShaper", "sequenceShaper", "protean"}
  /\ Lengths \in Seq(Nat) /\ Injected \in Seq(Nat) /\ Injected # <<>>
  /\ \A i, j \in DOMAIN Injected : i < j => Injected[i] < Injected[j]
  /\ {maxLength, TARGET_DELAY, BASE_INTERVAL, TRACED, MaxTime, MaxFaults} \subseteq Nat
  /\ maxLength > HEADER_SIZE + IV_SIZE + CHUNK_SIZE  \* or a fragment may have no payload
  /\ TRACED >= 1 /\ MaxTime >= 1

InjectedIndices == Range(Injected)
Fake == 0  \* a packet that was injected; the browser's count from 1
Infinity == MaxTime + 1

VARIABLES
  transformer,
  sentPackets,   \* how many packets the browser has sent
  outputIndex,   \* outputIndex_
  removeSequences,  \* the sequences the receiver has not met yet
  aqm,           \* the fields of CoDelIsh
  acks,          \* when the traced sends that are not answered were made
  network,       \* copies of each datagram on their way
  tracker,       \* tracker_: the indices that are missing, of a packet
  complete,      \* complete_
  received,      \* what the browser of the peer was given
  now,
  output,        \* history: what the transformer has put out
  faults, lossy, \* history: whether something was dropped, lost or given up
  repeated,      \* history: datagrams of which the network made copies
  delivered,     \* history: datagrams that have arrived
  drops, badIntervals, untraced  \* history: of CoDelIsh

senderVars == <<sentPackets, outputIndex, output>>
queueVars == <<aqm, acks, drops, badIntervals, untraced>>
receiverVars == <<removeSequences, tracker, complete, received>>
datagramVars == <<transformer, senderVars, queueVars, receiverVars, network, now, faults, lossy, repeated, delivered>>

MostFragments == Max({Len(MakeFragments(maxLength, l)[l]) : l \in Range(Lengths)})

\* A datagram: a fragment of a packet, or one that was injected.
Datagrams == [packet : 1..Len(Lengths), index : 0..MostFragments, count : 1..MostFragments]
             \cup [packet : {Fake}, index : InjectedIndices, count : {1}]

DatagramTypeOK ==
  /\ transformer \in Transformers
  /\ sentPackets \in 0..Len(Lengths) /\ outputIndex \in Nat
  /\ removeSequences \subseteq InjectedIndices
  /\ aqm \in [dropLevel : Nat \ {0}, dropNext : BOOLEAN, deadline : Nat, sent : Nat,
              minDelay : 0..Infinity, traceCounter : 0..TRACED]
  /\ acks \in Seq(1..MaxTime)
  /\ \A d \in DOMAIN network : d \in Datagrams /\ network[d] \in Nat
  /\ tracker \in [1..Len(Lengths) -> SUBSET (0..MostFragments)]
  /\ complete \in Seq(1..Len(Lengths)) /\ received \in Seq(Fake..Len(Lengths))
  /\ now \in 1..MaxTime /\ faults \in 0..MaxFaults /\ lossy \in BOOLEAN

DatagramInit ==
  /\ transformer \in Transformers
  /\ sentPackets = 0 /\ outputIndex = 0 /\ output = <<>>
  /\ removeSequences = InjectedIndices
  /\ aqm = [dropLevel |-> 1, dropNext |-> FALSE, deadline |-> 0, sent |-> 0,
            minDelay |-> Infinity, traceCounter |-> TRACED]
  /\ acks = <<>> /\ drops = 0 /\ badIntervals = 0 /\ untraced = 0
  /\ network = << >>
  /\ tracker = [p \in 1..Len(Lengths) |-> {}] /\ complete = <<>> /\ received = <<>>
  /\ now = 1 /\ faults = 0 /\ lossy = FALSE /\ repeated = {} /\ delivered = {}

Fault == faults < MaxFaults /\ faults' = faults + 1

-----------------------------------------------------------------------------
(* Transforming *)

Fragmenting == transformer \in {"fragmentationShaper", "protean"}
Injecting == transformer \in {"sequenceShaper", "protean"}

Fragments(p) ==
  LET cut == IF Fragmenting THEN MakeFragments(maxLength, Lengths[p])[Lengths[p]] ELSE <<Lengths[p]>>
  IN  [i \in DOMAIN cut |-> [packet |-> p, index |-> i - 1, count |-> Len(cut)]]

\* inject_: the packets for the indices from i on.
Inject(i) ==
  LET next == Min({j \in i..(Last(Injected) + 1 + i) : j \notin InjectedIndices})
  IN  [k \in 1..(next - i) |-> [packet |-> Fake, index |-> i + k - 1, count |-> 1]]

\* Fault: nothing is injected before a packet.
ShapeBehind(out, d) ==
  LET after == IF out.index >= Head(Injected) THEN Inject(out.index + 1) ELSE <<>>
  IN  IF out.index > Last(Injected) THEN [out EXCEPT !.results = Append(@, d)]
      ELSE [index |-> out.index + 1 + Len(after), results |-> (out.results \o <<d>>) \o after]

\* transform() of ByteSequenceShaper, of datagram d after the results so far.
Shape(out, d) ==
  LET before == IF out.index >= Head(Injected) THEN Inject(out.index) ELSE <<>>
      after == IF out.index >= Head(Injected) THEN Inject(out.index + Len(before) + 1) ELSE <<>>
  IN  IF out.index > Last(Injected) THEN [out EXCEPT !.results = Append(@, d)]
      ELSE [index |-> out.index + Len(before) + 1 + Len(after),
            results |-> ((out.results \o before) \o <<d>>) \o after]

\* What it has put out after the datagrams ds, in their order.
Shaped(index, ds) ==
  LET out[k \in 0..Len(ds)] == IF k = 0 THEN [index |-> index, results |-> <<>>]
                               ELSE Shape(out[k - 1], ds[k])
  IN  out[Len(ds)]

Transform(p) ==
  IF Injecting
  THEN Shaped(outputIndex, Fragments(p))
  ELSE [index |-> outputIndex, results |-> Fragments(p)]

-----------------------------------------------------------------------------
(* The queue manager *)

\* The largest k with k <= BASE_INTERVAL / sqrt(level): times are whole.
Interval(level) == Max({k \in 0..BASE_INTERVAL : k * k * level <= BASE_INTERVAL * BASE_INTERVAL})

\* Fault: the bad interval is not forgotten after a drop.
SendDropping(q, d) ==
  IF q.aqm.dropNext
  THEN [q EXCEPT !.aqm.sent = @ + 1, !.drops = @ + 1]
  ELSE [q EXCEPT !.aqm.sent = @ + 1, !.acks = Append(@, now), !.passed = Append(@, d)]

\* Fault: the counter does not wrap.
SendTracesOn(q, d) ==
  IF q.aqm.dropNext
  THEN [q EXCEPT !.aqm.sent = @ + 1, !.aqm.dropNext = FALSE, !.drops = @ + 1]
  ELSE [q EXCEPT !.aqm.sent = @ + 1, !.aqm.traceCounter = @ + 1,
                 !.acks = Append(@, now), !.passed = Append(@, d)]

\* send(): a datagram is dropped, or sent with or without tracing.
Send(q, d) ==
  IF q.aqm.dropNext
  THEN [q EXCEPT !.aqm.sent = @ + 1, !.aqm.dropNext = FALSE, !.drops = @ + 1]
  ELSE IF q.aqm.traceCounter >= TRACED
  THEN [q EXCEPT !.aqm.sent = @ + 1, !.aqm.traceCounter = @ - TRACED + 1,
                 !.acks = Append(@, now), !.passed = Append(@, d), !.untraced = 0]
  ELSE [q EXCEPT !.aqm.sent = @ + 1, !.aqm.traceCounter = @ + 1,
                 !.passed = Append(@, d), !.untraced = @ + 1]

\* Datagrams ds one after the other.
Sent(queue, ds) ==
  LET after[k \in 0..Len(ds)] == IF k = 0 THEN queue ELSE Send(after[k - 1], ds[k])
  IN  after[Len(ds)]

\* endOfInterval_.
EndOfInterval(q) ==
  LET good == q.sent <= 1 \/ q.minDelay <= TARGET_DELAY
      level == IF good THEN Max({1, q.dropLevel - 2}) ELSE q.dropLevel + 1
  IN  [q EXCEPT !.dropLevel = level, !.dropNext = ~good, !.minDelay = Infinity,
                !.traceCounter = TRACED, !.deadline = now + Interval(level)]

\* The reaction to a traced send.
Acked(q, enqueued) ==
  LET seen == [q EXCEPT !.minDelay = Min({@, now - enqueued})]
  IN  IF enqueued > q.deadline THEN EndOfInterval(seen) ELSE seen

Ack ==
  /\ acks # <<>>
  /\ aqm' = Acked(aqm, Head(acks))
  /\ acks' = Tail(acks)
  /\ badIntervals' = badIntervals + (IF ~aqm.dropNext /\ aqm'.dropNext THEN 1 ELSE 0)
  /\ UNCHANGED <<transformer, senderVars, receiverVars, network, now, drops, untraced, faults, lossy, repeated, delivered>>

AckFails ==
  /\ acks # <<>> /\ Fault /\ acks' = Tail(acks)
  /\ UNCHANGED <<transformer, senderVars, receiverVars, network, now, aqm, drops, badIntervals,
                 untraced, lossy, repeated, delivered>>

\* sendTo_: all of a packet at once.
SendTo ==
  /\ sentPackets < Len(Lengths)
  /\ LET t == Transform(sentPackets + 1)
         q == Sent([aqm |-> aqm, acks |-> acks, passed |-> <<>>, drops |-> drops,
                    untraced |-> untraced], t.results)
     IN  /\ outputIndex' = t.index /\ output' = output \o t.results
         /\ aqm' = q.aqm /\ acks' = q.acks /\ drops' = q.drops /\ untraced' = q.untraced
         /\ network' = [d \in DOMAIN network \cup Range(q.passed) |->
              (IF d \in DOMAIN network THEN network[d] ELSE 0) + (IF d \in Range(q.passed) THEN 1 ELSE 0)]
         /\ lossy' = (lossy \/ q.drops > drops)
  /\ sentPackets' = sentPackets + 1
  /\ UNCHANGED <<transformer, receiverVars, now, badIntervals, faults, repeated, delivered>>

Tick ==
  /\ now < MaxTime /\ now' = now + 1
  /\ UNCHANGED <<transformer, senderVars, queueVars, receiverVars, network, faults, lossy, repeated, delivered>>

-----------------------------------------------------------------------------
(* The network and the receiver *)

OneLess(d) == IF network[d] = 1 THEN [e \in DOMAIN network \ {d} |-> network[e]]
              ELSE [network EXCEPT ![d] = @ - 1]

Lose(d) ==
  /\ d \in DOMAIN network /\ Fault
  /\ network' = OneLess(d) /\ lossy' = TRUE
  /\ UNCHANGED <<transformer, senderVars, queueVars, receiverVars, now, repeated, delivered>>

Repeat(d) ==
  /\ d \in DOMAIN network /\ Fault
  /\ network' = [network EXCEPT ![d] = @ + 1] /\ repeated' = repeated \cup {d}
  /\ UNCHANGED <<transformer, senderVars, queueVars, receiverVars, now, lossy, delivered>>

\* getComplete: the loop pops, and looks at the length again at each turn.
GetComplete(ps) == [i \in 1..((Len(ps) + 1) \div 2) |-> ps[Len(ps) + 1 - i]]

\* addFragment: the first fragment of a packet starts its tracker, unless it is all of
\* it; one that is there already is ignored; the last one completes the packet.
Completes(d) == IF tracker[d.packet] = {} THEN d.count = 1 ELSE tracker[d.packet] = {d.index}
Defragment(d) ==
  /\ tracker' = [tracker EXCEPT ![d.packet] = (IF @ = {} THEN 0..(d.count - 1) ELSE @) \ {d.index}]
  /\ LET added == Append(complete, d.packet)
     IN  complete' = IF Completes(d) THEN SubSeq(added, 1, Len(added) - Len(GetComplete(added)))
                     ELSE complete

\* What restore() yields.  The byte sequence shaper finds the packets it has injected,
\* each one time; what it takes for a real packet goes on, and what is no fragment is
\* dropped.
Restored(d) ==
  CASE d.packet = Fake /\ d.index \in removeSequences -> <<>>
    [] d.packet = Fake /\ d.index \notin removeSequences -> IF Fragmenting THEN <<>> ELSE <<Fake>>
    [] d.packet # Fake /\ Fragmenting ->
         IF Completes(d) THEN GetComplete(Append(complete, d.packet)) ELSE <<>>
    [] OTHER -> <<d.packet>>

\* onIncomingData_: what is restored goes through the queue manager of the peer's pipe,
\* which may drop it.
OnIncomingDatagram(d) ==
  /\ d \in DOMAIN network
  /\ network' = OneLess(d)
  /\ delivered' = delivered \cup {d}
  /\ removeSequences' = IF d.packet = Fake THEN removeSequences \ {d.index} ELSE removeSequences
  /\ IF d.packet # Fake /\ Fragmenting THEN Defragment(d) ELSE UNCHANGED <<tracker, complete>>
  /\ \/ /\ received' = received \o Restored(d) /\ UNCHANGED <<faults, lossy>>
     \/ /\ Restored(d) # <<>> /\ Fault /\ lossy' = TRUE /\ UNCHANGED received
  /\ UNCHANGED <<transformer, senderVars, queueVars, now, repeated>>

\* reap_, after CACHE_EXPIRATION_TIME.
Reap(p) ==
  /\ tracker[p] # {}
  /\ tracker' = [tracker EXCEPT ![p] = {}]
  /\ lossy' = (lossy \/ p \notin Range(received))
  /\ UNCHANGED <<transformer, senderVars, queueVars, removeSequences, complete, received,
                 network, now, faults, repeated, delivered>>

-----------------------------------------------------------------------------
DatagramNext ==
  \/ SendTo \/ Ack \/ AckFails \/ Tick
  \/ \E d \in DOMAIN network : Lose(d) \/ Repeat(d) \/ OnIncomingDatagram(d)
  \/ \E p \in 1..Len(Lengths) : Reap(p)

DatagramSpec == DatagramInit /\ [][DatagramNext]_datagramVars

-----------------------------------------------------------------------------
(* Properties *)

Times(p) == Cardinality({i \in DOMAIN received : received[i] = p})

\* Whatever order the datagrams come in, the browser is given only packets that were
\* sent, whole, each one time, and none that was injected, unless the network repeats; and
\* defragmenter.ts keeps no packet that is complete back.
OnlySent ==
  /\ complete = <<>>
  /\ \A p \in Range(received) \ {Fake} :
       /\ p <= sentPackets
       /\ Range(Fragments(p)) \subseteq delivered
  /\ \A p \in Fake..Len(Lengths) :
       (\A d \in repeated : d.packet # p) => Times(p) <= (IF p = Fake THEN 0 ELSE 1)

\* Once nothing is on its way, a packet that was not dropped, lost or given up after
\* the time of the cache has been put together: no order of fragments, and no copy of
\* one, makes the receiver miss it.
NothingElseIsLost ==
  DOMAIN network = {} /\ ~lossy => \A p \in 1..sentPackets : Times(p) >= 1

\* The packets that imitate another protocol are where the configuration wants them
\* in the stream of byteSequenceShaper.ts, however the real ones were fragmented.
InjectedAtTheirIndex ==
  Injecting =>
    \A i \in DOMAIN output : (output[i].packet = Fake) <=> i - 1 \in InjectedIndices

StreamRestored == OnlySent /\ NothingElseIsLost /\ InjectedAtTheirIndex

\* CoDelIsh drops one packet for an interval it finds bad, never more, and its measure
\* never dries up: of TRACED packets in a row it passes, one is traced.
DropsAreEarned ==
  /\ drops + (IF aqm.dropNext THEN 1 ELSE 0) <= badIntervals
  /\ aqm.dropNext => aqm.dropLevel > 1
  /\ untraced < TRACED
=============================================================================
