--------------------------- MODULE PeerConnection ---------------------------
(***************************************************************************)
(* Two PeerConnectionClass objects (src/src/webrtc/peerconnection.ts), the *)
(* browsers' RTCPeerConnections under them and the signals between them.   *)
(*                                                                         *)
(* The class talks to its browser in asynchronous calls, which arrive in   *)
(* their order.  The operations on descriptions, candidates and channels   *)
(* are done one after the other; getSignalingState() is answered at once,  *)
(* and so overtakes operations that were called before it.  A call's       *)
(* execution by the browser, its answer and the promise reactions to it    *)
(* are one step.                                                           *)
(*                                                                         *)
(* The control channel is the one with label "" and id 0.  Its wrapper is  *)
(* a DataChannelClass (see DataChannel).  Other channels, the end-of-      *)
(* candidates signal, which is ignored, and SDP are left out.              *)
(***************************************************************************)
EXTENDS Naturals, Sequences, FiniteSets, SequencesExt

CONSTANTS
  Peers,        \* the two peers
  Initiators,   \* those that call negotiateConnection()
  LowHash,      \* the peer whose offers have the lower hash
  MaxCandidates,\* bound: candidates of both peers together
  MaxEvents,    \* bound: close() calls, failures of a browser or the network, and
                \* renegotiations
  MaxTieEvents  \* bound: the same if both peers negotiate

ASSUME PeerConnectionAssumption ==
  /\ \E p, q \in Peers : p # q /\ Peers = {p, q}
  /\ Initiators \subseteq Peers /\ LowHash \in Peers
  /\ MaxCandidates \in Nat /\ MaxEvents \in Nat /\ MaxTieEvents \in Nat

VARIABLES
  state,          \* state_
  onceConnected, onceClosed, onceHaveRemoteDescription,  \* the promises
  held,           \* candidates that wait for onceHaveRemoteDescription_
  control,        \* what the class knows of the control channel
  beating,        \* the heartbeat's interval timer is set
  calls,          \* calls to the browser that are not answered yet
  signaling,      \* the browser's signalingState
  remote,         \* the browser has a remote description
  gathering,      \* the browser gathers candidates
  channel,        \* the control channel in the browser; "failed" when it
                  \* closed without having been open
  paired,         \* the browser was given a candidate of the peer
  link,           \* the connection between the browsers
  wire,           \* signals on their way from each peer to the other
  negotiated,     \* history: who called negotiateConnection()
  described,      \* history: who has emitted an offer or an answer
  candidates,     \* history: candidates emitted by each peer
  events          \* history: number of closes, failures and renegotiations

promiseVars == <<onceConnected, onceClosed>>
browserVars == <<signaling, remote, gathering, channel, paired>>
historyVars == <<negotiated, described, candidates, events>>
vars == <<state, promiseVars, onceHaveRemoteDescription, held, control, beating, calls,
          browserVars, link, wire, historyVars>>

Operations == {"createOffer", "setLocalOffer", "setRemoteOffer", "createAnswer",
               "setLocalAnswer", "setRemoteAnswer", "addCandidate", "createChannel"}

\* getSignalingState(), by what it is for.
Reads == {"close", "change", "tie"}

\* The bound on events when the peers in set have negotiated.
Limit(set) == IF set = Peers THEN MaxTieEvents ELSE MaxEvents

TypeOK ==
  /\ state \in [Peers -> {"WAITING", "CONNECTING", "CONNECTED", "CLOSED"}]
  /\ onceConnected \in [Peers -> {"pending", "fulfilled", "rejected"}]
  /\ onceClosed \in [Peers -> BOOLEAN]
  /\ onceHaveRemoteDescription \in [Peers -> BOOLEAN]
  /\ held \in [Peers -> 0..MaxCandidates]
  /\ control \in [Peers -> {"none", "created", "registered", "opened", "closed"}]
  /\ beating \in [Peers -> BOOLEAN]
  /\ calls \in [Peers -> Seq(Operations \cup Reads)]
  /\ signaling \in [Peers -> {"stable", "have-local-offer", "have-remote-offer", "closed"}]
  /\ remote \in [Peers -> BOOLEAN] /\ gathering \in [Peers -> BOOLEAN]
  /\ channel \in [Peers -> {"none", "connecting", "open", "closed", "failed"}]
  /\ paired \in [Peers -> BOOLEAN]
  /\ link \in {"down", "up", "broken"}
  /\ wire \in [Peers -> Seq({"OFFER", "ANSWER", "CANDIDATE"})]
  /\ negotiated \subseteq Peers /\ described \subseteq Peers
  /\ candidates \in [Peers -> 0..MaxCandidates]
  /\ events \in 0..Limit(negotiated)

Init ==
  /\ state = [p \in Peers |-> "WAITING"]
  /\ onceConnected = [p \in Peers |-> "pending"]
  /\ onceClosed = [p \in Peers |-> FALSE]
  /\ onceHaveRemoteDescription = [p \in Peers |-> FALSE]
  /\ held = [p \in Peers |-> 0]
  /\ control = [p \in Peers |-> "none"] /\ beating = [p \in Peers |-> FALSE]
  /\ calls = [p \in Peers |-> <<>>]
  /\ signaling = [p \in Peers |-> "stable"]
  /\ remote = [p \in Peers |-> FALSE] /\ gathering = [p \in Peers |-> FALSE]
  /\ channel = [p \in Peers |-> "none"] /\ paired = [p \in Peers |-> FALSE]
  /\ link = "down" /\ wire = [p \in Peers |-> <<>>]
  /\ negotiated = {} /\ described = {} /\ candidates = [p \in Peers |-> 0]
  /\ events = 0

Other(p) == CHOOSE q \in Peers : q # p

\* One more event is counted.
Count == events < Limit(negotiated) /\ events' = events + 1

-----------------------------------------------------------------------------
(* What the class's functions do, as parts of the steps below *)

Set(f, p, v) == [f EXCEPT ![p] = v]
Push(f, p, v) == [f EXCEPT ![p] = Append(@, v)]

\* Fault: onceConnected is left pending.
ClosingQuietly(p) ==
  /\ UNCHANGED onceConnected
  /\ state' = Set(state, p, "CLOSED")
  /\ onceClosed' = Set(onceClosed, p, TRUE)

\* What close() and closeWithError_ do before they ask the browser.
Closing(p) ==
  /\ onceConnected' = IF state[p] = "CONNECTING" /\ onceConnected[p] = "pending"
                      THEN Set(onceConnected, p, "rejected") ELSE onceConnected
  /\ state' = Set(state, p, "CLOSED")
  /\ onceClosed' = Set(onceClosed, p, TRUE)

NotClosing == UNCHANGED <<state, promiseVars>>

\* ... and their question, after the calls in queue.  A second one before the
\* browser is closed, or one after, would find it closed.
AskToClose(p, queue) ==
  IF signaling[p] = "closed" \/ Contains(queue, "close") THEN queue
  ELSE Append(queue, "close")

\* Fault: the signal is of no type that handleSignalMessage() knows.
EmitUntyped(p, type) ==
  /\ wire' = Push(wire, p, "DESCRIPTION")
  /\ described' = described \cup {p}

\* emitSignalForPeer_
Emit(p, type) ==
  /\ wire' = Push(wire, p, type)
  /\ described' = described \cup {p}

Silent == UNCHANGED <<wire, described>>

\* fulfillHaveRemoteDescription_; the candidates that were held are added.
HaveRemoteDescription(p) ==
  /\ onceHaveRemoteDescription' = Set(onceHaveRemoteDescription, p, TRUE)
  /\ held' = Set(held, p, 0)

AddHeld(p) == [i \in 1..held[p] |-> "addCandidate"]

Holding == UNCHANGED <<onceHaveRemoteDescription, held>>

-----------------------------------------------------------------------------
(* Calls by the users *)

\* negotiateConnection()
NegotiateConnection(p) ==
  /\ p \in Initiators \ negotiated
  /\ state[p] = "WAITING"
  /\ negotiated' = negotiated \cup {p} /\ events <= Limit(negotiated')
  /\ calls' = Push(calls, p, "createChannel")
  /\ NotClosing
  /\ UNCHANGED <<onceHaveRemoteDescription, held, control, beating, browserVars, link,
                 wire, described, candidates, events>>

\* close()
Close(p) ==
  /\ Count
  /\ Closing(p)
  /\ calls' = Set(calls, p, AskToClose(p, calls[p]))
  /\ UNCHANGED <<onceHaveRemoteDescription, held, control, beating, browserVars, link,
                 wire, negotiated, described, candidates>>

-----------------------------------------------------------------------------
(* Signals: handleSignalMessage() *)

Takes(p) == wire' = Set(wire, Other(p), Tail(wire[Other(p)]))

\* An offer: breakOfferTie_ first asks for the signalling state.
HandleOffer(p) ==
  /\ wire[Other(p)] # <<>> /\ Head(wire[Other(p)]) = "OFFER"
  /\ Takes(p)
  /\ calls' = Push(calls, p, "tie")
  /\ NotClosing /\ Holding
  /\ UNCHANGED <<control, beating, browserVars, link, historyVars>>

HandleAnswer(p) ==
  /\ wire[Other(p)] # <<>> /\ Head(wire[Other(p)]) = "ANSWER"
  /\ Takes(p)
  /\ calls' = Push(calls, p, "setRemoteAnswer")
  /\ NotClosing /\ Holding
  /\ UNCHANGED <<control, beating, browserVars, link, historyVars>>

\* Fault: a candidate is added without waiting for the description.
CandidateAtOnce(p) ==
  /\ wire[Other(p)] # <<>> /\ Head(wire[Other(p)]) = "CANDIDATE"
  /\ Takes(p)
  /\ calls' = Push(calls, p, "addCandidate")
  /\ NotClosing /\ Holding
  /\ UNCHANGED <<control, beating, browserVars, link, historyVars>>

HandleCandidate(p) ==
  /\ wire[Other(p)] # <<>> /\ Head(wire[Other(p)]) = "CANDIDATE"
  /\ Takes(p)
  /\ IF onceHaveRemoteDescription[p]
       THEN calls' = Push(calls, p, "addCandidate") /\ held' = held
       ELSE held' = Set(held, p, held[p] + 1) /\ calls' = calls
  /\ NotClosing
  /\ UNCHANGED <<onceHaveRemoteDescription, control, beating, browserVars, link,
                 historyVars>>

-----------------------------------------------------------------------------
(* Answers of getSignalingState() *)

\* The first getSignalingState() that waits for its answer, and the calls
\* without it.
IsRead(c) == c \in Reads
FirstRead(p) == SelectInSeq(calls[p], IsRead)
Answered(p, purpose) == FirstRead(p) > 0 /\ calls[p][FirstRead(p)] = purpose
Others(p) == RemoveAt(calls[p], FirstRead(p))

\* onSignallingStateChange_ asks for the state, after the calls in queue; two
\* questions that wait for an answer are taken for one.
AskChanged(queue) ==
  IF Contains(queue, "change") THEN queue ELSE Append(queue, "change")

\* The rest of close() and closeWithError_.  The browser tells of the change.
AnsweredClose(p) ==
  /\ Answered(p, "close")
  /\ IF signaling[p] = "closed"
       THEN UNCHANGED <<signaling, channel>> /\ calls' = Set(calls, p, Others(p))
       ELSE /\ signaling' = Set(signaling, p, "closed")
            /\ calls' = Set(calls, p, AskChanged(Others(p)))
            /\ channel' = Set(channel, p,
                 CASE channel[p] = "open" -> "closed"
                   [] channel[p] = "connecting" -> "failed"
                   [] OTHER -> channel[p])
  /\ NotClosing /\ Holding /\ Silent
  /\ UNCHANGED <<control, beating, remote, gathering, paired, link, negotiated,
                 candidates, events>>

\* When onSignallingStateChange_ closes the connection.
MustClose(p) == signaling[p] = "closed" \/ state[p] \notin {"CONNECTING", "CONNECTED"}

\* The rest of onSignallingStateChange_.
AnsweredChange(p) ==
  /\ Answered(p, "change")
  /\ IF MustClose(p)
       THEN Closing(p) /\ calls' = Set(calls, p, AskToClose(p, Others(p)))
       ELSE NotClosing /\ calls' = Set(calls, p, Others(p))
  /\ Holding /\ Silent
  /\ UNCHANGED <<control, beating, browserVars, link, negotiated, candidates, events>>

\* The offer of the peer lost against the own one.
RefuseOffer(p) ==
  /\ Closing(p)
  /\ HaveRemoteDescription(p)
  /\ calls' = Set(calls, p, AskToClose(p, Others(p)) \o AddHeld(p))

\* handleOfferSignalMessage_ goes on, whatever the state is.
AcceptOffer(p) ==
  /\ state' = Set(state, p, "CONNECTING")
  /\ UNCHANGED promiseVars /\ Holding
  /\ calls' = Set(calls, p, Append(Others(p), "setRemoteOffer"))

\* breakOfferTie_: there is a tie if the own offer has been set.
AnsweredTie(p) ==
  /\ Answered(p, "tie")
  /\ IF signaling[p] = "have-local-offer" /\ LowHash = Other(p)
       THEN RefuseOffer(p) ELSE AcceptOffer(p)
  /\ Silent
  /\ UNCHANGED <<control, beating, browserVars, link, negotiated, candidates, events>>

-----------------------------------------------------------------------------
(* Operations of the browser, in the order in which they were called *)

\* When the browser can do an operation.  It has no rollback of an offer.
Able(p, op) ==
  CASE op \in {"createOffer", "createChannel"} -> signaling[p] # "closed"
    [] op = "setLocalOffer" -> signaling[p] \in {"stable", "have-local-offer"}
    [] op = "setRemoteOffer" -> signaling[p] = "stable"
    [] op \in {"createAnswer", "setLocalAnswer"} -> signaling[p] = "have-remote-offer"
    [] op = "setRemoteAnswer" -> signaling[p] = "have-local-offer"
    [] op = "addCandidate" -> remote[p] /\ signaling[p] # "closed"

Does(p, op) == calls[p] # <<>> /\ Head(calls[p]) = op /\ Able(p, op)

Unable(p) == calls[p] # <<>> /\ Head(calls[p]) \in Operations
                             /\ ~Able(p, Head(calls[p]))

\* The operation is done, and the calls more follow.
Then(p, more) == calls' = Set(calls, p, Tail(calls[p]) \o more)

\* An operation is done that makes the signalling state s.
Becomes(p, s, more) ==
  /\ signaling' = Set(signaling, p, s)
  /\ calls' = Set(calls, p, AskChanged(Tail(calls[p])) \o more)

\* The control channel is created; addRtcDataChannel_ follows.
ChannelCreated(p) ==
  /\ Does(p, "createChannel")
  /\ Then(p, <<>>)
  /\ control' = IF control[p] = "none" THEN Set(control, p, "created") ELSE control
  /\ channel' = IF channel[p] = "none" THEN Set(channel, p, "connecting") ELSE channel
  /\ NotClosing /\ Holding /\ Silent
  /\ UNCHANGED <<beating, signaling, remote, gathering, paired, link, negotiated,
                 candidates, events>>

\* The offer is emitted before setLocalDescription() is called.
OfferCreated(p) ==
  /\ Does(p, "createOffer")
  /\ Then(p, <<"setLocalOffer">>)
  /\ Emit(p, "OFFER")
  /\ NotClosing /\ Holding
  /\ UNCHANGED <<control, beating, browserVars, link, negotiated, candidates, events>>

LocalOfferSet(p) ==
  /\ Does(p, "setLocalOffer")
  /\ Becomes(p, "have-local-offer", <<>>)
  /\ gathering' = Set(gathering, p, TRUE)
  /\ NotClosing /\ Holding /\ Silent
  /\ UNCHANGED <<control, beating, remote, channel, paired, link, negotiated,
                 candidates, events>>

RemoteOfferSet(p) ==
  /\ Does(p, "setRemoteOffer")
  /\ Becomes(p, "have-remote-offer", <<"createAnswer">>)
  /\ remote' = Set(remote, p, TRUE)
  /\ NotClosing /\ Holding /\ Silent
  /\ UNCHANGED <<control, beating, gathering, channel, paired, link, negotiated,
                 candidates, events>>

AnswerCreated(p) ==
  /\ Does(p, "createAnswer")
  /\ Then(p, <<"setLocalAnswer">>)
  /\ Emit(p, "ANSWER")
  /\ NotClosing /\ Holding
  /\ UNCHANGED <<control, beating, browserVars, link, negotiated, candidates, events>>

LocalAnswerSet(p) ==
  /\ Does(p, "setLocalAnswer")
  /\ HaveRemoteDescription(p)
  /\ Becomes(p, "stable", AddHeld(p))
  /\ gathering' = Set(gathering, p, TRUE)
  /\ NotClosing /\ Silent
  /\ UNCHANGED <<control, beating, remote, channel, paired, link, negotiated,
                 candidates, events>>

RemoteAnswerSet(p) ==
  /\ Does(p, "setRemoteAnswer")
  /\ HaveRemoteDescription(p)
  /\ Becomes(p, "stable", AddHeld(p))
  /\ remote' = Set(remote, p, TRUE)
  /\ NotClosing /\ Silent
  /\ UNCHANGED <<control, beating, gathering, channel, paired, link, negotiated,
                 candidates, events>>

CandidateAdded(p) ==
  /\ Does(p, "addCandidate")
  /\ Then(p, <<>>)
  /\ paired' = Set(paired, p, TRUE)
  /\ NotClosing /\ Holding /\ Silent
  /\ UNCHANGED <<control, beating, signaling, remote, gathering, channel, link,
                 negotiated, candidates, events>>

\* Fault: failures while an offer is handled are only logged.
FatalToOwnOffer == {"createOffer", "setRemoteAnswer"}

\* A failure of any step of an offer or an answer closes the connection; one
\* of the setLocalDescription() for an own offer is not noticed.
Fatal == Operations \ {"setLocalOffer", "addCandidate", "createChannel"}

\* onceHaveRemoteDescription_ is fulfilled also after a failure.
Settling == {"setRemoteOffer", "createAnswer", "setLocalAnswer", "setRemoteAnswer"}

\* The browser fails to do an operation.
OperationFails(p) ==
  /\ calls[p] # <<>> /\ Head(calls[p]) \in Operations
  /\ LET op == Head(calls[p])
         fatal == op \in Fatal
         settling == op \in Settling
     IN /\ IF Able(p, op) THEN Count
                          ELSE events' = events
        /\ IF fatal THEN Closing(p) ELSE NotClosing
        /\ IF settling THEN HaveRemoteDescription(p) ELSE Holding
        /\ calls' = Set(calls, p,
                      (IF fatal THEN AskToClose(p, Tail(calls[p])) ELSE Tail(calls[p]))
                        \o (IF settling THEN AddHeld(p) ELSE <<>>))
  /\ Silent
  /\ UNCHANGED <<control, beating, browserVars, link, negotiated, candidates>>

-----------------------------------------------------------------------------
(* Events of the browser *)

\* onnegotiationneeded.  It is ignored in the other states.
NegotiationNeeded(p) ==
  /\ channel[p] \in {"connecting", "open"} /\ p \in negotiated
  /\ state[p] \in {"WAITING", "CONNECTED"}
  /\ IF state[p] = "WAITING" THEN events' = events ELSE Count
  /\ state' = Set(state, p, "CONNECTING")
  /\ calls' = Push(calls, p, "createOffer")
  /\ UNCHANGED promiseVars /\ Holding /\ Silent
  /\ UNCHANGED <<control, beating, browserVars, link, negotiated, candidates>>

\* onicecandidate
IceCandidate(p) ==
  /\ gathering[p] /\ signaling[p] # "closed"
  /\ candidates[p] + candidates[Other(p)] < MaxCandidates
  /\ candidates' = Set(candidates, p, candidates[p] + 1)
  /\ wire' = Push(wire, p, "CANDIDATE")
  /\ NotClosing /\ Holding
  /\ UNCHANGED <<control, beating, calls, browserVars, link, negotiated, described,
                 events>>

\* The browsers have found each other.
LinkUp ==
  /\ link = "down"
  /\ \A p \in Peers : signaling[p] = "stable" /\ remote[p]
  /\ \E p \in Peers : paired[p]
  /\ link' = "up"
  /\ UNCHANGED <<state, promiseVars, onceHaveRemoteDescription, held, control, beating,
                 calls, browserVars, wire, historyVars>>

LinkBreaks ==
  /\ link = "up" /\ Count
  /\ link' = "broken"
  /\ NotClosing /\ Holding /\ Silent
  /\ UNCHANGED <<control, beating, calls, browserVars, negotiated, candidates>>

\* The link between the peers is gone.
Gone(p) == link = "broken" \/ signaling[Other(p)] = "closed"

Spontaneous(p) ==
  IF Gone(p) THEN events' = events
             ELSE Count

\* oniceconnectionstatechange to "failed"; getIceConnectionState() is
\* answered at once.
IceFails(p) ==
  /\ remote[p] /\ signaling[p] # "closed" /\ state[p] # "CLOSED"
  /\ Spontaneous(p)
  /\ Closing(p) /\ calls' = Set(calls, p, AskToClose(p, calls[p]))
  /\ Holding /\ Silent
  /\ UNCHANGED <<control, beating, browserVars, link, negotiated, candidates>>

\* The control channel opens at p; ondatachannel at a peer without it.
ChannelOpens(p) ==
  /\ link = "up" /\ signaling[p] # "closed"
  /\ \/ channel[p] = "connecting" /\ control' = control
     \/ /\ channel[p] = "none" /\ channel[Other(p)] = "open"
        /\ control' = Set(control, p, "created")
  /\ channel' = Set(channel, p, "open")
  /\ NotClosing /\ Holding /\ Silent
  /\ UNCHANGED <<beating, calls, signaling, remote, gathering, paired, link, negotiated,
                 candidates, events>>

\* The browser notices that the peer is gone (it need not).
ChannelLost(p) ==
  /\ channel[p] = "open" /\ Gone(p)
  /\ channel' = Set(channel, p, "closed")
  /\ NotClosing /\ Holding /\ Silent
  /\ UNCHANGED <<control, beating, calls, signaling, remote, gathering, paired, link,
                 negotiated, candidates, events>>

\* The end of addRtcDataChannel_, and registerControlChannel_.
ChannelRegistered(p) ==
  /\ control[p] = "created"
  /\ control' = Set(control, p, "registered")
  /\ NotClosing /\ Holding /\ Silent
  /\ UNCHANGED <<beating, calls, browserVars, link, negotiated, candidates, events>>

\* onceOpened of the control channel.  The event may be late.
ControlOpened(p) ==
  /\ control[p] = "registered" /\ channel[p] \in {"open", "closed"}
  /\ control' = Set(control, p, "opened")
  /\ beating' = Set(beating, p, TRUE)
  /\ state' = Set(state, p, "CONNECTED")
  /\ onceConnected' = IF onceConnected[p] = "pending"
                      THEN Set(onceConnected, p, "fulfilled") ELSE onceConnected
  /\ UNCHANGED onceClosed /\ Holding /\ Silent
  /\ UNCHANGED <<calls, browserVars, link, negotiated, candidates, events>>

\* onceClosed of the control channel.
ControlClosed(p) ==
  /\ control[p] \in {"registered", "opened"} /\ channel[p] \in {"closed", "failed"}
  /\ control' = Set(control, p, "closed")
  /\ Closing(p) /\ calls' = Set(calls, p, AskToClose(p, calls[p]))
  /\ Holding /\ Silent
  /\ UNCHANGED <<beating, browserVars, link, negotiated, candidates, events>>

\* No heartbeat for HEARTBEAT_TIMEOUT_MS_.
HeartbeatTimeout(p) ==
  /\ beating[p]
  /\ IF channel[p] # "open" THEN events' = events ELSE Spontaneous(p)
  /\ beating' = Set(beating, p, FALSE)
  /\ Closing(p) /\ calls' = Set(calls, p, AskToClose(p, calls[p]))
  /\ Holding /\ Silent
  /\ UNCHANGED <<control, browserVars, link, negotiated, candidates>>

User(p) == NegotiateConnection(p) \/ Close(p)

Signal(p) == HandleOffer(p) \/ HandleAnswer(p) \/ HandleCandidate(p)

Answer(p) == AnsweredClose(p) \/ AnsweredChange(p) \/ AnsweredTie(p)

Operation(p) ==
  \/ ChannelCreated(p) \/ OfferCreated(p) \/ LocalOfferSet(p) \/ RemoteOfferSet(p)
  \/ AnswerCreated(p) \/ LocalAnswerSet(p) \/ RemoteAnswerSet(p) \/ CandidateAdded(p)

Control(p) == ChannelRegistered(p) \/ ControlOpened(p) \/ ControlClosed(p)

Next ==
  \/ \E p \in Peers :
       \/ User(p) \/ Signal(p) \/ Answer(p) \/ Operation(p) \/ OperationFails(p)
       \/ NegotiationNeeded(p) \/ IceCandidate(p) \/ IceFails(p)
       \/ ChannelOpens(p) \/ ChannelLost(p) \/ Control(p) \/ HeartbeatTimeout(p)
  \/ LinkUp \/ LinkBreaks

Spec == Init /\ [][Next]_vars

\* Signals arrive, the browsers answer and do what they are asked, and find
\* each other; a new channel makes negotiation needed; timers fire.  Nobody
\* has to call anything, nothing has to fail, and a browser need not notice
\* that its peer is gone.
FairSpec ==
  /\ Spec
  /\ \A p \in Peers :
       /\ WF_vars(Signal(p)) /\ WF_vars(Answer(p))
       /\ WF_vars(Operation(p)) /\ WF_vars(Unable(p) /\ OperationFails(p))
       /\ WF_vars(state[p] = "WAITING" /\ NegotiationNeeded(p))
       /\ WF_vars(IceCandidate(p)) /\ WF_vars(ChannelOpens(p)) /\ WF_vars(Control(p))
       /\ WF_vars((channel[p] # "open" \/ Gone(p)) /\ HeartbeatTimeout(p))
  /\ WF_vars(LinkUp)

-----------------------------------------------------------------------------
(* Properties *)

\* A peer is never told of a candidate before it is told of the offer or the
\* answer the candidate is for.
DescriptionFirst == \A p \in Peers : candidates[p] > 0 => p \in described

\* The browser is never given a candidate before a remote description, unless
\* setting the description failed and the connection is closed.
CandidateAfterDescription ==
  \A p \in Peers : calls[p] # <<>> /\ Head(calls[p]) = "addCandidate" =>
                     remote[p] \/ onceClosed[p]

\* Candidates neither overtake their description on the way to the peer nor on
\* the way into its browser.
CandidatesInOrder == DescriptionFirst /\ CandidateAfterDescription

\* Nobody who has been told that a connection has closed is told later that
\* it is established, although the state does go from CLOSED to CONNECTED.
NoConnectionAfterClose ==
  [][\A p \in Peers : onceClosed[p] /\ onceConnected'[p] = "fulfilled" =>
                        onceConnected[p] = "fulfilled"]_vars

\* A connection that has closed ends up in CLOSED, with the RTCPeerConnection
\* closed and the heartbeat stopped, however late the events are that move it.
ClosedInTheEnd ==
  \A p \in Peers :
    onceClosed[p] ~> [](state[p] = "CLOSED" /\ signaling[p] = "closed" /\ ~beating[p])

\* A peer that was connected closes when the other has closed, whether or
\* not its browser notices.
PeerGoneCloses ==
  \A p \in Peers :
    (onceConnected[p] = "fulfilled" /\ onceClosed[Other(p)]) ~> onceClosed[p]

\* When both have made their offers before either has handled the other's,
\* neither is left waiting for an answer: both close.
TieCloses ==
  (\A p \in Peers : signaling[p] = "have-local-offer") ~> (\A p \in Peers : onceClosed[p])

\* A connection that one peer negotiates is established at both, unless
\* something fails or is closed.
Connects ==
  (Cardinality(negotiated) = 1) ~>
    \/ \A p \in Peers : onceConnected[p] = "fulfilled"
    \/ events > 0 \/ negotiated = Peers

\* A negotiation has an end, with one initiator or with two.
NegotiationEnds == TieCloses /\ Connects

\* Whatever becomes of a connection, it becomes of it at both peers: a
\* negotiation is settled, and an end reaches the peer and is final.
ComesToAnEnd == ClosedInTheEnd /\ PeerGoneCloses /\ NegotiationEnds
=============================================================================
