# A verification project for uproxy-lib

uproxy-lib is the networking library of uProxy: it carries SOCKS traffic of one
peer (the *getter*) over WebRTC data channels to another peer (the *giver*),
which makes the TCP connections.  This directory holds TLA+ models of the
library, the TLC instances that check them, and proofs checked by TLAPS.

    tlc -config X.cfg M          model-check module M (the runs of PROJECT.json)
    tlapm M.tla                  check the proofs of module M (...Proofs.tla)

## 1. The system

All of the code is JavaScript (TypeScript) in an event loop: a call runs to its
end, and what is concurrent are the *callbacks*: promise continuations, browser
and freedom.js events, timers, and the messages of the other peer.  The hard
behaviours are therefore not data races but **state read before an asynchronous
step and used after it**, **callbacks that re-enter the object that is calling
them**, and **events that arrive in an order nobody wrote a test for** (a close
during a drain, a disconnection before the answer of a call, a message for the
previous session of a recycled channel, a candidate before its description).

    SOCKS client -- tcp.Server -- Session --+                     (getter)
                                            |  PoolChannel, one per session
              DataChannel -- PeerConnection-+
                   |      signals: Bridge / Churn / SignalBatcher
                   |      packets: churn pipe -- transformers -- AQM
              DataChannel -- PeerConnection-+
                                            |  PoolChannel
    Internet host -- tcp.Connection -- Session                    (giver)

### Components

| component (src/src/...) | state | operations | what makes it correct | modules |
|---|---|---|---|---|
| handler/queue, queue/queue | queue, handler, pending rejection, counters | handle, set(Next)Handler, stopHandling, clear | every event handled once, in order; a one-shot handler runs once and its promise is not lost | HandlerQueue |
| net/counter | calls outstanding | wrap, discard | the destructor runs once, after the last call | Counter |
| net/tcp `Connection` | state, two queues, counter | connect, disconnect, close, send, receiveNext | it ends once and for all; nothing hangs after the end; the provider is destroyed | TcpConnection |
| net/tcp `Server` | map of connections, counter | listen, accept, stop, closeAll, shutdown | never above the limit; shutdown leaves nothing | TcpServer |
| webrtc/datachannel | queue of chunks, byte counts, overflow, draining | send, close, browser events, polls | nothing lost or reordered; the browser's buffer bounded; everything sent before the close | DataChannel, OrderedChannel |
| webrtc/peerconnection | state, promises, held candidates, channels, heartbeat | negotiate, signals, openDataChannel, close | signals in an acceptable order; an end reaches the peer and is final | PeerConnection, Pool |
| pool/pool | idle channels, channel states | open, close, control messages | sessions on one channel are isolated | Pool |
| socks-to-rtc, rtc-to-net `Session` | handshake, link, flow control | handshakes, pause/resume, stop | two byte streams, to the last byte; all released | Session |
| `SocksToRtc`, `RtcToNet` | sessions by label, count per user | start, stop, new client, new channel | the limits count what lives; stop leaves nothing | Proxy |
| bridge, onetime | provider, batch of signals | negotiate, signals, close | the provider suits the peer; batches complete | Churn |
| churn, churn/candidate | probe, pipe and obfuscated connection, queue of candidates | negotiation, candidates, close | what is advertised is bound; the pipes agree; the pipe is released | Churn |
| churn-pipe | public and mirror sockets | bind, signal, retry, shutdown | each way to an endpoint has one mirror, and is reported | ChurnPipe |
| churn-pipe, aqm, transformers (packets) | intervals, trackers of fragments, places of injected packets | transform, send, restore | packets are put together once; drops are earned | Datagrams, Fragmentation |
| transformers (bytes) | keys, coder | transform, restore | restore inverts transform | Transformers, Codecs |
| socks-common, turn/messages, candidate lines | - | compose and parse | what is parsed is what was composed | Messages, Codecs |
| arraybuffers | - | split, chunk, concat, ... | used by the codecs | Bytes |
| turn frontend and backend | allocations | allocate, send, data | - | not modelled |
| logging, linefeeder, aggregate, cloud, nat, samples | | | - | not modelled |

`components` in PROJECT.json is the complete list.

## 2. Plan

The order follows the data: first the queue everything is made of, then the
ends of a session (socket, channel), then what multiplexes and sets them up,
then what lies around them, then the bytes.

| step | modules | state |
|---|---|---|
| 1 | HandlerQueue | done, proved |
| 2 | Counter, TcpConnection | done, proved but for liveness |
| 3 | DataChannel, OrderedChannel (what it promises) | done, refinement, bounds and types proved |
| 4 | Pool, over the promise of OrderedChannel, with openDataChannel of PeerConnection | done, proved but for liveness |
| 5 | PeerConnection (two of them, two browsers, signals) | done, proved but for liveness |
| 6 | Session, over the promises of Pool, DataChannel and TcpConnection | done, proved but for liveness |
| 7 | TcpServer and Proxy: start and stop of both ends, the limits of connections and sessions | done, proved but for liveness |
| 8 | Churn and Bridge over signals one by one or in batches | done, proved but for liveness |
| 9 | ChurnPipe, Datagrams: sockets, queue manager, loss and reordering | done, proved but for liveness |
| 10 | Bytes, Transformers, Messages, Codecs: algorithms against their inverses | done, proved |

Which module builds on which: TcpConnection and TcpServer EXTEND Counter and
take its actions into theirs; Proxy EXTENDS TcpServer; DataChannel implements
OrderedChannel, which is what Pool, Session and PeerConnection assume of a
channel; Session assumes of sockets what TcpConnection shows; Proxy assumes of a
session what Session shows; Churn assumes of its pipes and connections what
ChurnPipe and PeerConnection show; Datagrams takes the cut of packets from
Fragmentation, as Transformers does on bytes.

What would come next: the order of the two datagram directions under one queue
manager, and another table for the arithmetic coder, with ranges that are not
powers of 2 and carries.

## 3. Models

Each module has one action per operation, event or timer.  A callback **and the
promise reactions it sets off** are one step, because no browser event or call of
another component comes between them; what the browser or freedom.js *does*, and
the arrival of its *answer*, are separate steps wherever something may happen
between the two.  History variables, named as such in the modules, serve the
properties only.  An operator marked `Fault` is a variant of the definition below
it with a mistake; the mutants of PROJECT.json name it, nothing else uses it.

**HandlerQueue** (handler/queue.ts, queue/queue.ts).  Single-threaded but
re-entrant: a handler may call `handle`, `setHandler`, `setNextHandler`,
`stopHandling` or `clear` of the queue that is calling it, and `processQueue_` and
`setNextHandler` then go on with fields that have changed.  The model has the
**call stack** as a variable: frames `loop` (a `processQueue_` under way), `body`
(a handler) and `arm` (a `setNextHandler` whose `setHandler` has not returned).
What a handler does is a free choice: call the queue, return, throw, reject or
never settle its promise.

**Counter, TcpConnection** (net/counter.ts, `Connection` of net/tcp.ts).  Counter
is the reference count that destroys the freedom.js provider.  TcpConnection
covers the three kinds of constructor argument (an existing socket, an endpoint,
and a bad one), `onData`, `onDisconnect` (which the provider may report twice),
`send`, `receiveNext`, `close`, and the answers of the provider in any order.
The handler queues are abstracted to what HandlerQueue proves of them.

**DataChannel, OrderedChannel** (webrtc/datachannel.ts, chunk() of
arraybuffers.ts).  One side of an RTCDataChannel: `send` in chunks,
`toPeerDataQueue_`, the estimate `lastBrowserBufferedAmount_`, the polling loops
of `waitForOverflowToClear_` and `waitForBrowserToDrain_` (read, answer and timer
are three steps each), the overflow listener, `close` called several times,
opening and closing by either peer.  `Passed` is the mutual recursion of
`sendNext_` and `handleSendDataToPeer_`, by its result: how many chunks go before
`canSendMore_` fails.

**Pool** (pool/pool.ts, openDataChannel and addRtcDataChannel_ of
peerconnection.ts).  Both peers, the two PoolChannel ends of each data channel,
and the OPEN and CLOSE messages in the stream.  A message is first queued and
then, if the queue has its handler, processed before anything else happens at
that end (`Busy`).  openDataChannel compares the number of channels with the
limit when it is called and enters the channel two answers of the browser later;
creation may fail, and each end learns separately that a channel has closed.  The
id of a channel that was open is not used again here: a browser that would allow
it needs an id that has been given back, see section 7.

**PeerConnection** (webrtc/peerconnection.ts).  Two objects, their two browsers
and the signals between them.  `calls[p]` is the sequence of operations asked of
the browser, done in order; `getSignalingState()` reads ("close", "change",
"tie") overtake operations asked before them, as in a browser.  Both peers may
call `negotiateConnection`, so offers cross and the tie is decided by the hash.
The heartbeat has its two timers.  Candidates, the control channel, `close()`,
failures of an operation and of the network, and renegotiation are included.
Left out: SDP and the signal NO_MORE_CANDIDATES, which the receiver ignores.

**Session** (socks-to-rtc.ts, rtc-to-net.ts).  One connection of a SOCKS client
through the Session of the getter, a pooled channel and the Session of the giver
to a host.  `phase` is how far each handshake is; it determines the handlers of
the two queues (none before the handshake, one for the next message in it, all
when `linked`), which is why there are no variables for them.  The actions that
both classes have (`Link`, `StopAt`, `OnData`, ...) are written once, for a side,
and named again where the lines of the giver are meant.  The provider obeys
`pause()` and `resume()` some time after the call (`PauseTakesEffect`), and
packets may come before.  Clients that greet or ask badly, hosts that are absent,
forbidden, or found to be forbidden only when connected are initial choices; that
the user has too many Sessions, that the pool has no channel, and that the
channel fails are steps that may happen.  Of the channel: messages arrive in
order, `CLOSE` is behind what was sent and is answered when that has been handled,
as in Pool; data that is sent may put it in overflow, which ends, as in
DataChannel.

**TcpServer, Proxy** (`Server` of net/tcp.ts; `SocksToRtc`, `RtcToNet`).  The
server's map, its limit, what happens when its socket dies by itself, and
`shutdown()`, which stops listening and then closes what is in the map.  Proxy adds
the two objects that own everything: `start()` that may fail before or after the
peers are connected, `stop()`, `stopResources_`, the sessions of each client at
both ends, and the count of the user's sessions, who may have sessions in another
`RtcToNet`.  Of a Connection, a Session and a channel only their lives are here.

**Churn** (bridge/bridge.ts, bridge/onetime.ts, churn/churn.ts,
churn/candidate.ts).  Two bridges, each with a probe connection that only finds
candidates, a timer that cuts it off, the pipe, and the obfuscated connection.
The bridge chooses its provider by whichever comes first, `negotiateConnection()`
or a signal; a batch is sent when a *terminating* signal ends it.  Work that waits
for a promise is an action with the promise as its guard: `ConfigurePipe` waits
for the probe and the config of the transformer, `MappingAdded` for the pipe.
Descriptions wait for the pipe too (`GiveDescription`).  What the obfuscated
connection does with them is what PeerConnection has: a peer that has not created
its own offer answers, and may still send that offer first (`crossing`); one whose
offer is out closes, by the hash or because its browser refuses the offer.  A pipe
that is closed while it is being configured does nothing more here; what the sockets
of a pipe do after shutdown() is in ChurnPipe.
Candidates are of three kinds (host, reflexive, public), which is what
`selectBestPublicAddress` and `getLocalEndpoint` tell apart.

**ChurnPipe** (churn-pipe.ts).  `bindLocal` with the retries of `retry_`, whose
delay doubles; the record of how many sockets an interface has
(`maxSocketsPerInterface_`), which a new socket may break while mirrors are being
bound; mirrors made by signaled endpoints and by packets of endpoints that were
not signaled yet; `shutdown()` at any time.  shutdown() walks the sockets there are
once, and the `destroy()` of each has its effect some time later
(`PublicDestroyed`, `MirrorDestroyed`): until then a public socket receives packets,
which may make mirrors, and a mirror that is bound only then is still reported
before it is destroyed.  Calls after shutdown() are possible as well, since the code
does not exclude them.  The proofs of Churn, ChurnPipe and
Datagrams are in one module, which is why the definitions of the latter two that
would have the same names have a prefix (`PipeSpec`, `PipeTypeOK`, `DatagramSpec`).

**Datagrams, Fragmentation** (churn-pipe.ts, aqm.ts, defragmenter.ts,
byteSequenceShaper.ts, protean.ts).  One direction of the packets between two
pipes: `sendTo_`, `CoDelIsh` with its traced sends whose ends come late, a network
that loses, repeats and reorders, the trackers of the defragmenter, `reap_`, and
the removal of injected packets.  A transformer is its effect on the stream; the
constant `Transformers` has the four effects there are; `Shaped` is the stream with
the injected packets in their places.  `maxLength` leaves room for a payload behind
the header and the vector of the cipher (otherwise makeFragments_ would not end).  The queue manager of a
pipe also carries what arrives for the browser; that its drops hit the
other direction is a free choice here (`Lose`).

**Bytes, Transformers, Messages, Codecs**.  The codecs on bytes: the transformers
(caesar, encryption, fragmentation, arithmetic decompression, byte sequences,
protean), SOCKS and STUN messages, candidate lines and hex strings.  Codecs sends
each of its inputs through one codec; what throws yields the empty sequence.  AES
is a stand-in that works on whole chunks and chains them; random bytes are one
value; the arithmetic coder has the uniform table of sampleConfig(), the only one
in the repository that its two halves agree on (section 7).  With it every range
is a power of 2, so that numbers of 32 bits fit those of TLC, and no carry arises.
A loop or a recursion of the code is a recursive function or a fold of the
community modules, so that it can be proved about.  That the payloads fit is an
ASSUME of Codecs (`SizesAssumption`): a length is two bytes and the number of
fragments one, and the code does not test that what it writes there has room.

## 4. What the runs check

| run | instance | distinct states | shows |
|---|---|---|---|
| handler_queue | 3 events, 3 handlers, stack of 5 | 248,703 | every event is handled once and in order, a one-shot handler is called once and its promise not lost, under re-entrancy and exceptions |
| tcp_connection | 2 messages each way, 2 receives, 2 disconnections | 69,272 | the provider is destroyed once, when it is quiet; a closed connection does not come back; nothing hangs; close ends, also of a connection that was never made |
| data_channel | limits of one chunk, 3 sends of 0, 1, 2 chunks or a string, 2 closes | 708,184 | one pump; the browser's buffer is bounded; all is sent before the close; refinement of OrderedChannel; overflow clears; everything arrives |
| pool | a limit of 3 channels with the control channel, 3 sessions, 1 message, a failure and a death | 304,379 | sessions are isolated, control messages come in order, pooled channels are quiet, the limit of channels is kept; a closing session keeps its data and closes |
| peer_connection | both may negotiate, 1 candidate, 1 close, failure or renegotiation | 72,563 | candidates in order; no connection after a close; CLOSED in the end, at both peers; a negotiation connects or closes |
| session | 4 kinds of client, 4 of host, 2 buffers of data each way, 1 failure | 638,122 | the two streams in order behind the reply and complete at the close; flow control follows overflow; all is released |
| proxy | 2 clients, 1 connection at a time, 1 label, a limit of 2 sessions of which 1 may be elsewhere | 793,524 | the map and the count hold what lives and keep their limits; stop and shutdown leave nothing |
| churn | 1 initiator and 1 rival, 2 candidates of 2 kinds, signals single and in batches, 1 close, timeout, failure or negotiation | 593,792 | signals suffice for the peer and none is refused; advertised ports are bound; the pipes agree; the peers connect; the pipes are released |
| churn_pipe | 2 interfaces, 2 ports, 1 remote, 2 public sockets, 1 failing mirror | 247,752 | every way to a signaled endpoint has its mirror and is reported; ports settle; no socket that is there at shutdown escapes it |
| datagrams | packets of 2 and 1 fragments through 4 transformers, 3 injected, clock to 4, 2 faults | 6,268,338 | packets come out once, whole, and none that was injected; one drop for a bad interval; one of two packets is traced |
| codecs | sizes around the chunks, headers and paddings; names of 1 to 255 characters; three shapes of tables | 67,359 | what was put in comes out, or is refused as a whole |

One comment that the code does not keep to has a run (section 7 has the others), in
which TLC finds the property violated:

| run | instance | property |
|---|---|---|
| session_stop | one client and one host, no data | `DocumentedStop` |

**Bounds.**  The hazards need two or three actors, not many: a handler that
replaces a handler that is being installed (two sets, one event; three of each let
a third interfere), two overlapping close() calls, one session after another on a
channel and another channel to be confused with it, a close that meets each
message of one negotiation.  The limits of DataChannel are one chunk, so that
every send meets the limit.  Two buffers of data each way let one come before the
link and one after it.  Two clients at a server of one connection are one too
many, and the second uses the label of the first.  Two candidates let one be on
its way while the probe ends; with the second negotiator, candidates end, because
the product of both adds orders of the same signals.  `DelayLimit` is 20 where the
code has 2000: two tries instead of eight, the last of them with the same test.
Two packets, of two fragments and of one, let fragments of different packets mix;
`BASE_INTERVAL` 1 and `TARGET_DELAY` 0 make every late end a bad interval.
Counters that the code never bounds (events, sends, sessions) are bounded by
constants named in each module; `CHECK_DEADLOCK FALSE` is given where the system
may stop because those are used up or because it has closed.

**Fairness.**  Assumed of what is not the user's choice: the browser or provider
answers a call, transmits what it has buffered, closes what it was told to close,
delivers signals in order; a timer fires; a handler that was started ends (Pool);
a mirror socket is bound or fails, and a socket that was told to be destroyed is
(ChurnPipe); the provider reports the end of a socket it was told to close, of one
that never connected as well (TcpConnection).  Not assumed: any call by a user,
any failure, that a connection is lost, that a server's socket dies.  A browser
whose peer has gone need not notice; that is the heartbeat's task and
PeerGoneCloses depends on its timers only.  In Session, clients and hosts may stop
sending at any time and need not leave.  Datagrams, HandlerQueue and Codecs have
no fairness: datagrams may all be lost, user code need not return.

## 5. What is proved

TLAPS checks, for every value of the constants that satisfies the ASSUMEs of the
modules (numbers are natural, sets finite, CHUNK_SIZE not 0, two peers; for
ChurnPipe an interface and a limit of at least the first delay, for Datagrams
fragments with room for a payload, and TRACED not 0; for Codecs fragments with room
for a payload behind header, vector and chunk, names of 1 to 255 characters, and
lengths, ports and numbers of fragments that fit the bytes they are written in):

- **SocketProofs**, for HandlerQueue: `TypeInvariant`, `CountersAccount`,
  `OneShotCalledOnce`, `NothingWaitsBehindHandler`, `EventsInOrder`.  The
  invariants the run checks are not inductive: they are about the queue between
  calls, and user code runs in the middle of one.  Accounted adds to the
  statistics that the set and clear counters are the edges of `handler`;
  OneShotInv, that a one-shot handler still installed has not been called and that
  numbers not yet given out were not used; DrainInv, that a handler over a
  non-empty queue means a `loop` frame somewhere on the stack; OrderInv, that order
  and destiny are kept together.
  `NextHandlerContract` is what a caller of setNextHandler may rely on: called at
  most once, and, unless one was set while setNextHandler ran, a one-shot handler
  that is taken off was called or its promise is rejected.  `Armed` relates the handler that is
  installed, the promise it belongs to and the `arm` frames that have not returned.
- **SocketProofs**, for Counter and TcpConnection: `CounterTyped`,
  `QuietIsDestroyed`, `NeverDestroyedEarly` of Counter, whose invariant is the balance `counter = |Pending| - discards`: it is
  why testing the number is testing for quiet, and NeverDestroyedEarly needs at most
  one discard.  Over them `ConnectionTyped`, `EndsSafely`, `NoReturn`.  `Once` says
  that the connection has discarded its counter exactly if it is CLOSED, however
  often the provider reports the end: with the balance this makes the destruction
  unique and late enough.  NoReturn has the two action properties of
  `ConnectionEnds`.
- **DataChannelProofs**: `ChannelTyped`, `PumpIsOne`, `BuffersAreBounded`, and
  `ChannelIsOrdered`, the refinement of OrderedChannel.  The invariant says that
  what the peer has received, the browser holds and, until a close, the queue holds
  are in this order the sequence that send() accepted (`QueueNext`, `BrowserNext`),
  that nothing is passed on before the channel opens (`Lifecycle`, `Unopened`) and
  that the pump is one.  For the bytes: the count of what waits is the sum over the
  queue (`Counts`), each reading of the browser's amount, however old, covers what the
  browser holds of the buffers when it is used (`Covers`, `Flow`), and a close() that
  waits for the browser only has no buffers in the queue to wait for (`Drains`).  The
  loop of sendNext_ is described by the number of chunks it passes; that it ends
  (PassedStops) is the least-element principle for natural numbers.
- **PoolProofs**: `PoolTyped`, `ReuseAlwaysClean`, `DrainedBeforeClosed`.  The
  messages on their way to one end of a channel (its inbox and the wire) are one
  stream.  Control messages have a place: OPEN of session s is message 2s-1 and
  CLOSE is message 2s, and `Chain` says that a stream is consecutive, with the data
  of a session between its two.  `PortInv` ties the state of an end to its
  last message and its drain, `ChannelInv` the two ends to each other: the remote end
  is a session behind only while the OPEN is on its way (`Ends`), a stream leads on
  from what its reader has read (`ToLocal`, `ToRemote`) to what its writer has written
  (`Complete`), a channel in the pool is quiet (`Idle`), and the channels counted
  against the limit are those that live or are being opened (`Entered`).  Calls that fail give back an id that may not be theirs: `Counts` says
  that nextId is nevertheless never below the number of calls outstanding.
- **SessionProofs**: `SessionTyped`, `SocketFollowsOverflow`, `StreamsAlwaysComplete`.
  That the socket of a linked Session is paused exactly while its data channel is in
  overflow needs `PausedInHandshake`: it is paused from the request (getter) or the
  making of the connection (giver) to the link, which may leave it so without
  calling pause() when it finds the channel in overflow; the listener is set last
  and misses nothing.  The streams: what an end has sent is a word of its part
  in the handshake (`Spoken`: which message may come at which place), with `told`,
  `heard`, `ended` and `heardAll` counting what was said and handled; `Queued` says
  that what the socket delivered is sent or waits in this order, `GiverWrote` and
  `GetterWrote` what was written to each socket; `ChannelSide` and `SocketSide` tie
  phases to the life of the channel and of the socket at one end, `GetterSide` and
  `GiverSide` the two phases to what each has heard; `Covered` and `Written` that
  nothing is missing between them, `SaidAll` that a CLOSE is behind everything.
- **PeerConnectionProofs**: `PeerTyped`, `CandidatesOrdered`,
  `NeverConnectedAfterClose`.  The calls in the queue of the browser are what has to
  be strengthened (`CallsAllowed`): a local description in it has been emitted, and
  a candidate in it was added when a remote description was known.  With `Stage`,
  that the browser gathers only for a description that was emitted, order on the
  wire and order in the browser follow.  Reads that overtake operations are removed
  from the middle of the queue, which needs that removal keeps the rest (lemmas on
  `RemoveAt` and `SelectInSeq`).  That candidates are bounded at the receiver counts
  those on the wire and those held (`Wires`).  For NeverConnectedAfterClose: one that
  waits has said nothing, so that its browser can have no answer (`Waiting`); one that
  closes before its promise is settled has no remote description, and its browser
  closes before it could be given one (`Ended`, `Blocked`); a control channel opens
  only between browsers with both descriptions (`Linked`).
- **ProxyProofs**: `ProxyTyped`, `LimitsHold`, both limits, and `ShutdownsComplete`.
  For the server: `connections` is the set of connections that live.  For the giver:
  the count is the number of sessions that have not ended and those elsewhere
  (`Counted`); it needs that a session has its steps in order (`InSteps`: no session
  at the giver before its channel, so each is counted when it becomes live, once)
  and that what is found under a label lives (`Labelled`), although labels are used
  again.  `Balance` is that of the server's provider, as in Counter.  When shutdown()
  fulfils, nothing listens and nothing lives: once closeAll was called no connection
  is added, and those it awaits are all that live (`Swept`).
- **ChurnProofs**, for Churn: `ChurnTyped`, `PipesFit`, `SignalsAlwaysComplete`.
  `SignalsSound` says that a key in any signal, on its way or in a batch, is that of
  a peer that has negotiated, and that only a bridge with a provider sends any but
  errors; `Stage`, that there is no pipe before the probe is over and that a pipe
  which is ready has bound every candidate unless the timer had cut the probe off.
  That both pipes have one key when one peer negotiates follows from the first, that
  advertised ports are bound from the second.  For the signals, what a peer has sent
  or holds in its batch, and the other has not taken, is one `Stream`: until the other
  has taken a description, or can take none, no candidate in the stream is ahead of it
  (`Led`), and who has learnt of a candidate has a provider and a description
  (`Learnt`).  If one peer negotiates the other takes its provider, so that no error
  is ever sent.
- **ChurnProofs**, for ChurnPipe: `PipeTyped`, `MirrorsAlwaysComplete`,
  `ClosedForGood`.  The list of an interface has no port twice (`Listed`);
  maxSocketsPerInterface_ is the length of the longest (`Widest`); an endpoint that
  was signaled has a mirror for each index up to it, which is reported or will be
  when it is bound, and no other is (`Reported`); a port that is tried again has a
  delay within the limit (`Delays`); what there was at shutdown() is being closed, is
  closed or could not be bound, whatever answers and packets come later (`Shut`):
  sockets that are made later are not among it.
- **ChurnProofs**, for Datagrams and Fragmentation: `FragmentsMakeUpThePacket`,
  `DatagramsTyped`, `StreamAlwaysRestored`, `DropsAlwaysEarned`.  The first is about
  a recursive function, by the least length it fails for.  In the stream an injected
  packet is at every place the configuration wants one and nowhere else (`Placed`),
  because the index counts what is put out until the last of them (`Counted`).
  What is on its way or has arrived was put out, and unless it was repeated it is in
  one place only (`Carried`); what a tracker does not miss has arrived (`Tracked`),
  and what it misses is on its way unless something was lost (`Kept`); what the
  browser was given is whole and was given once (`Whole`).  For CoDelIsh, `Earned`
  counts a drop that is due with those that were made, and bounds the packets passed
  untraced by traceCounter_.
- **CodecsProofs**, for the transformers: `TransformersAlwaysInvert`, and what it
  rests on, which is about any buffer rather than those of a run: `CaesarInverts`,
  `EncryptionInverts`, `DecompressionInverts`, `FragmentationInverts`,
  `SequenceInverts`, `ProteanInverts`, `FrequenciesFit` (between 1 and 256, with a sum
  below 2^14).  A buffer is any sequence of
  bytes; fragments arrive in any order (`Orders`).  After n bytes, what the encoder
  of the arithmetic coder has written, with the byte it works on and those it holds
  back (`Held`), is what came before the n-th, and the rest of its state is that byte
  (`EncoderReady`, `EncoderCoded`); flush_() writes what is missing and a length
  (`IsCode`).  The state of the decoder after n bytes is given by the bytes it reads
  (`Decoding`, `Widened`).  The lengths makeFragments_ cuts a packet into are a
  function defined by recursion on what remains (`CutsExist`), and for each length
  they fit and add up (`Fit`, `MakeFragmentsFit`).  A buffer that begins as the
  sequence does would be dropped with it; `Unlike` excludes this for the payloads of
  a run, and for encrypted fragments it holds because they begin with the vector of
  the cipher, which is one value in the model (in the code it is random, and 8 bytes
  would have to agree).
- **CodecsProofs**, for the messages: `MessagesAlwaysUnderstood`, and, each for every
  value its fields have room for, `HandshakeUnderstood`, `RequestUnderstood`,
  `ResponseUnderstood`, `UdpMessageUnderstood`, `HexUnderstood`, `AddressUnderstood`,
  `StunUnderstood`, `IntegrityUnderstood`, `CandidateUnderstood`.  The theorems say
  exactly what is refused: a name of one character makes a request shorter than any
  interpretRequest takes (`Shortest`).  A destination is laid out as what tells the
  length of the address, the address and the port (`Laid`, `Has`); that it is read
  back with whatever follows it, and where it ends, is `Carries`, which each of the
  three types of addresses is shown to have.  The attributes of a STUN message, of
  any number and any length, are read one by one from where the one before ends
  (`Ahead`).  The hash is one more attribute, the last, and what is hashed is what is
  received without it.  A number of a candidate line is read digit by digit as it was
  written (`Written`).  One hypothesis is the code's: the first extension of a
  candidate without a related address must not be named raddr, or it is taken for
  one.

Induction over data needs none of the library's theorems on operators.  From the
well-foundedness of < on the natural numbers follows that a set of numbers has a
least one (LEMMA `Least`), and from this that a set with 0 and with the successors of
its members, or with each number all smaller ones of which are in it, has all
numbers (`Upwards`, `Downwards`); that a loop keeps what each of its rounds keeps
(`Loop`); and that a recursive function whose body looks only at smaller arguments
exists (`Recursion`), which TLA+ does not give: `f[n \in S] == ...` is a CHOICE.

Only model-checked:

- all liveness, because fairness and ENABLED are out of reach of the prover: `Ends`
  (Churn), `PipeProgress` (ChurnPipe), `Progress` (DataChannel), `ComesToAnEnd`
  (PeerConnection), `ReleasedInTheEnd` (Session), and what `ConnectionEnds`
  (TcpConnection), `CloseIsClean` (Pool), `ReleasesAll` and `StopReleasesAll` (Proxy)
  say beyond their parts that are proved;
- the step property in `PortsSettle` (ChurnPipe), which is about one action.

## 6. What is not modelled

- turn frontend and backend: a sample server that no component uses; an allocation
  is one map entry which the code never removes.
- `REDSentinel`, `TailDrop` and `Null` of aqm.ts: used by tests only.
- cloud: the SSH protocol is a library's and the shim is from another project; the
  provisioning is a sequence of requests to a service whose behaviour the source
  does not give.
- logging, aggregate, linefeeder, nat, benchmarks, samples and the applications
  that connect a user interface to the components: no state that several actors
  share, or no logic of their own.
- Of the modelled parts: contents and sizes of messages other than what is counted,
  byte counters and snapshots, SDP (which candidates and limits are read from it is
  kept), port mappings of churn, whose outcome is logged only, addresses of the
  other family in ChurnPipe, and the reading of the JSON of configurations.

## 7. Disagreements between the code and its comments

Shown by a run (the finding in PROJECT.json quotes the comment):

- **session_stop**: a SOCKS client that leaves in the handshake: the getter's Session
  waits for a write to it and does not stop (socks-to-rtc.ts:425; line 254 says that
  it stops at the "TCP connection or datachannel termination").  ReleasedInTheEnd
  excepts this case and covers the others.

Part of the models, where the properties except them:

- "queued_events + immediately_handled_events + rejected_events = total_events."
  (queue.ts:42) counts an event that was queued and then cleared twice, because
  clear() (queue.ts:225) adds to the third what handle() had added to the first.
  What holds is that the first two make up the total, and that the
  third is a part of the first (`StatsAccount`, which CountersAccount proves).
- stopHandling "If |setSyncNextHandler| or |setAsyncNextHandler| has been called,
  then its return promise is rejected." (queue.ts:97).  When a handler that runs
  while a call of setNextHandler hands events over sets the next one-shot handler,
  that call then overwrites the successor's rejection function with its own
  (queue.ts:292-296); the promise of the successor hangs.  `OneShotContract` excepts
  what follows a handler set there, and nothing else.
- A handler that throws leaves the rest of the queue until the next call.
- send() of a connection that has closed stays pending (tcp.ts:482; tcp.ts:480:
  "This will reject if the socket is closed before the data can be sent.").
- `sent_` of CoDelIsh, "The number of send calls so far in this interval."
  (aqm.ts:149), is incremented by send() and reset by nothing, so that the test of
  aqm.ts:187 holds in the first interval only.
- close() of a data channel that is still opening, with data that fits, never
  closes it (datachannel.ts:353; line 86: "Closes this data channel once all
  outgoing messages have been sent.").  Strings not yet sent are lost at a close.
- A pooled channel whose data channel has died is handed out (pool.ts:193 and 358;
  line 59: "Channels which have been closed, and may be re-opened.").
- A failed opening decrements `nextChannelId_` (pool.ts:103): when openings overlap
  this may leave it below an id in use, and every later creation fails until a
  channel is returned.  The id of a channel that dies is lost, so that a long-lived
  pool may run out of ids below the limit.
- If the handler of a session's last message rejects, CLOSE is not answered and
  both ends stay CLOSING (pool.ts:312).
- close() between the question for the signalling state and its answer: the state
  leaves CLOSED (peerconnection.ts:389; line 22: "End-state, cannot change.").  The
  control channel may even take it to CONNECTED (`NoConnectionAfterClose` is about
  the promises).  ClosedInTheEnd shows that it ends in CLOSED all the same.
- Of two crossing offers neither is picked although peerconnection.ts says that the
  lower hash is: both peers close.  The promise of setLocalDescription() of an
  offer is dropped (line 332), so that its failure leaves onceConnected pending, as
  close() in WAITING does (line 207).
- openDataChannel compares with the limit two answers before it adds the channel
  (line 486): concurrent callers could exceed it.  Pool cannot: its ids are
  distinct and below the limit, as `ChannelsWithinLimit` shows.
- A client whose channel closes in the handshake is not told FAILURE
  (socks-to-rtc.ts:378), and one for whom there is no channel is told but not
  disconnected (line 212).  A message of the handshake is one packet here, as the
  code assumes (lines 354-357: "Assumes: no packet fragmentation."): StreamsComplete
  says nothing of a client that splits its request or sends data in the same packet.
- A session of the giver that ends late deletes the entry of its channel's label
  (rtc-to-net.ts:244), whoever's it is by then.  `SessionsCounted` says that the count
  is that of the living and that what is found under a label lives, not that each of
  the living is found.
- onceStopped of SocksToRtc never fulfils when its server's socket has died before
  (lines 33-37): the shutdown of the server waits for an end that was reported.
- The bridge answers a signal of another provider with an error, which the peer's
  bridge answers with an error, and so on without end (bridge.ts:305).  `NoErrors`
  shows that this takes two negotiators; between those nothing excludes it.
- A bridge closed before it had a provider is given one by a late signal, and who has
  closed it has no reason to close it again.
- Two peers that both negotiate keep different keys of the caesar cipher.
- The signal that ends a batch is given when the obfuscated connection has gathered,
  which for the offering peer may be before the probe has found its candidates
  (churn.ts:429-431: "it serves as an indication to features such as copy/paste
  that signalling is finished").  `AnswererIsComplete` is about the other peer.
- A candidate that is found after the probe's timer and before its browser has closed
  is advertised, and is bound only if the pipe was not ready yet
  (churn.ts:280-294): `AdvertisedIsBound` and `AnswererIsComplete` except a probe
  that was cut off.
- close() before there is a pipe leaves the pipe that is created later (churn.ts:530):
  `PipesReleased` is about pipes that were there.
- destroy() is asynchronous (churn-pipe.ts:492): a packet that comes in before it has
  its effect makes a mirror socket which shutdown() has no longer in its lists
  (lines 463-473 and 510-517), as a bindRemote() or bindLocal() after shutdown()
  makes sockets.  Nothing in churn-pipe.ts closes these; churn.ts then closes the
  module itself (churn.ts:534), and what freedom.js does with its sockets is not in
  the source.  `ShutdownTakesAll` is about the sockets there were.
- A mirror socket that could not be bound is not tried again (churn-pipe.ts:375).
- An injected packet that the network repeats is not removed the second time.

Noticed while writing the codecs, which are modelled as the code is:

- adjustProbs_ of the arithmetic coder yields 256 where its comment says "No
  probability can be higher than 255." (arithmetic.ts:163, 178).  `FrequenciesFit`
  says what does hold, 1 to 256.
- The intervals of the arithmetic coder come from the probabilities before, its total
  from those after the adjustment, and the decoder has the total 256: only tables
  that need no adjustment and add up to 256 are restored.
- findMatchingPacket_ takes slice(offset, length), which for an offset other than 0
  compares too little: packets injected with such a sequence are not removed
  (comment: "Remove injected packets.").
- Encrypted fragments exceed maxLength by up to 16 bytes in protean; the decoder of
  fragments compares a length with that of the whole buffer, not of what remains.
- formatStunMessage loses the upper bits of a method and doubles bits 4 to 6
  (comment of the parser: "let's do all 12 bits"); the methods in use have none.
- A SOCKS request for a host of one character is refused as too short.
- A candidate without a related address whose first extension is named raddr is read
  as one that has it, or is refused (candidate.ts:128).
