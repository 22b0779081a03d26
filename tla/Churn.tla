-------------------------------- MODULE Churn --------------------------------
(***************************************************************************)
(* Two peers that connect with BridgingPeerConnection (src/src/bridge/     *)
(* bridge.ts) over churn.Connection (src/src/churn/churn.ts).              *)
(*                                                                         *)
(* Each peer has a probe connection, which only finds its candidates; a    *)
(* churn pipe, which can take the ports of the probe once that is over;    *)
(* and the obfuscated connection.  The latter two are kept to what their   *)
(* own modules (ChurnPipe, PeerConnection) show of them.  Signals travel   *)
(* one by one, or in the batches of SignalBatcher (bridge/onetime.ts).     *)
(*                                                                         *)
(* Some work waits for a promise that settles once.  Such work is an       *)
(* action with the promise as its guard.                                   *)
(***************************************************************************)
EXTENDS Naturals, Sequences, FiniteSets, SequencesExt

CONSTANTS
  Peers,       \* the two peers
  Initiators,  \* those that may call negotiateConnection()
  Rivals,      \* those that may call it when another has
  Kinds,       \* the candidates a probe can find: "host", "srflx" or "public"
  Ways,        \* how signals travel: TRUE for batches
  MaxCandidates, \* bound: candidates found by both together, and none after both
               \* have negotiated
  MaxEvents    \* bound: calls of close(), timeouts, failures of a pipe and
               \* negotiations after the first

ASSUME ChurnAssumption ==
  /\ \E p, q \in Peers : p # q /\ Peers = {p, q}
  /\ Initiators \subseteq Peers /\ Rivals \subseteq Peers
  /\ Kinds \subseteq {"host", "srflx", "public"}
  /\ Ways \subseteq BOOLEAN /\ MaxCandidates \in Nat /\ MaxEvents \in Nat

Types == {"CHURN", "HOLO_ICE"}  \* providers; PLAIN is PeerConnection itself

VARIABLES
  provider,      \* providerType_, once there is a provider
  onceConnected, onceClosed,  \* the promises of the bridge
  probe,         \* the browser of the probe: it may find candidates while
                 \* "gathering" and while it is "closing"
  candidates,    \* what it has found: candidateQueue_ and candidates
  config,        \* what onceHaveTransformerConfig_ fulfilled with: who chose it
  pipe,          \* pipe_; "ready" when onceHavePipe_ has fulfilled
  bound,         \* the ports of ours the pipe has bound
  remoteCandidates,
  mirrors,       \* those of them the obfuscated connection was given as mirrors
  descriptions,  \* the remote descriptions that were heard, which wait for the pipe
  given,         \* how many of them the obfuscated connection was given
  obfuscated,    \* the obfuscated connection
  gathering,     \* its own candidates, which the pipe is told when it is ready
  batched,       \* how the application sends signals
  batch, wire,   \* signals in the current batch, and on their way from each peer
  released,      \* the owner has called close()
  timedOut,      \* history: the probe ran into PROBE_TIMEOUT_MS_
  negotiated, events  \* history

promiseVars == <<onceConnected, onceClosed>>
bridgeVars == <<provider, promiseVars, released>>
probeVars == <<probe, candidates, timedOut>>
pipeVars == <<config, pipe, bound>>
remoteVars == <<remoteCandidates, mirrors, descriptions, given>>
signalVars == <<batched, batch, wire>>
vars == <<bridgeVars, probeVars, pipeVars, remoteVars, obfuscated, gathering, signalVars,
          negotiated, events>>

Nobody == "nobody"

\* A signal and its value; an error carries no provider's signals.
Signals == [type : {"OFFER", "ANSWER", "NO_MORE_CANDIDATES", "error"}, of : {Nobody}]
           \cup [type : {"caesar"}, of : Peers]
           \cup [type : {"CANDIDATE", "publicEndpoint"}, of : Kinds]

TypeOK ==
  /\ provider \in [Peers -> Types \cup {"none"}]
  /\ onceConnected \in [Peers -> {"pending", "fulfilled", "rejected"}]
  /\ onceClosed \in [Peers -> BOOLEAN] /\ released \in [Peers -> BOOLEAN]
  /\ probe \in [Peers -> {"none", "gathering", "closing", "closed"}]
  /\ \A p \in Peers : IsInjective(candidates[p]) /\ Range(candidates[p]) \subseteq Kinds
  /\ config \in [Peers -> Peers \cup {Nobody}]
  /\ pipe \in [Peers -> {"none", "configuring", "ready", "stuck", "closed"}]
  /\ bound \in [Peers -> SUBSET {"host", "public"}]
  /\ remoteCandidates \in [Peers -> SUBSET Kinds] /\ mirrors \in [Peers -> SUBSET Kinds]
  /\ \A p \in Peers : descriptions[p] \in Seq({"OFFER", "ANSWER"}) /\ given[p] \in 0..Len(descriptions[p])
  /\ obfuscated \in [Peers -> {"waiting", "offering", "crossing", "offered", "answering",
                               "stable", "connected", "closed"}]
  /\ gathering \in [Peers -> {"none", "started", "done"}]
  /\ batched \in BOOLEAN
  /\ batch \in [Peers -> Seq(Signals)] /\ wire \in [Peers -> Seq(Signals)]
  /\ timedOut \in [Peers -> BOOLEAN] /\ negotiated \subseteq Peers /\ events \in 0..MaxEvents

All(v) == [p \in Peers |-> v]
Set(f, p, v) == [f EXCEPT ![p] = v]
Other(p) == CHOOSE q \in Peers : q # p
Count == events < MaxEvents /\ events' = events + 1
Findable ==
  /\ Cardinality(negotiated) < 2
  /\ \E p \in Peers : Len(candidates[p]) + Len(candidates[Other(p)]) < MaxCandidates

BridgeInit ==
  /\ provider = All("none")
  /\ onceConnected = All("pending") /\ onceClosed = All(FALSE) /\ released = All(FALSE)

ChurnInit ==
  /\ probe = All("none") /\ candidates = All(<<>>) /\ timedOut = All(FALSE)
  /\ config = All(Nobody) /\ pipe = All("none") /\ bound = All({})
  /\ remoteCandidates = All({}) /\ mirrors = All({})
  /\ descriptions = All(<<>>) /\ given = All(0)
  /\ obfuscated = All("waiting") /\ gathering = All("none")

Init ==
  /\ BridgeInit /\ ChurnInit
  /\ batched \in Ways /\ batch = All(<<>>) /\ wire = All(<<>>)
  /\ negotiated = {} /\ events = 0

-----------------------------------------------------------------------------
(* Signals *)

Signal(type, of) == [type |-> type, of |-> of]

\* isTerminatingSignal, which the application gives to its batcher.
IsTerminatingSignal(s) == s.type = "NO_MORE_CANDIDATES"

\* addToBatch: the batch goes out, without the signal that ends it.
AddToBatch(p, s) ==
  IF IsTerminatingSignal(s)
  THEN batch' = Set(batch, p, <<>>) /\ wire' = Set(wire, p, wire[p] \o batch[p])
  ELSE batch' = Set(batch, p, Append(batch[p], s)) /\ UNCHANGED wire

\* signalForPeerQueue, of churn and of the bridge, for some signals at once, none of
\* which ends a batch, and for the one that does.
Emit(p, ss) ==
  /\ IF batched
     THEN batch' = Set(batch, p, batch[p] \o ss) /\ UNCHANGED wire
     ELSE wire' = Set(wire, p, wire[p] \o ss) /\ UNCHANGED batch
  /\ UNCHANGED batched

EmitLast(p, s) ==
  /\ IF batched THEN AddToBatch(p, s)
     ELSE wire' = Set(wire, p, Append(wire[p], s)) /\ UNCHANGED batch
  /\ UNCHANGED batched

\* The candidates of ss, by candidateQueueHandler_.
CandidateSignals(ss) == [i \in DOMAIN ss |-> Signal("CANDIDATE", ss[i])]

\* mid_ is known, and the candidate queue drains, once a description is out.
HasMid(p) == gathering[p] # "none"

-----------------------------------------------------------------------------
(* The bridge *)

\* bridgeWith_: the constructor of the provider starts its probe.
BridgeWith(p, type) ==
  /\ provider' = Set(provider, p, type)
  /\ probe' = Set(probe, p, "gathering")
  /\ UNCHANGED <<candidates, timedOut>>

\* haveTransformerConfig_: a promise fulfils once.
HaveTransformerConfig(p, c) ==
  config' = IF config[p] = Nobody THEN Set(config, p, c) ELSE config

\* negotiateConnection of the bridge, which was made for one preferredProviderType_,
\* then of its provider.
NegotiateConnection(p) ==
  /\ p \in (IF negotiated = {} THEN Initiators ELSE Rivals) /\ provider[p] = "none" /\ ~onceClosed[p]
  /\ \E preferred \in Types : BridgeWith(p, preferred)
  /\ HaveTransformerConfig(p, p)
  /\ Emit(p, <<Signal("caesar", p)>>)
  /\ obfuscated' = Set(obfuscated, p, "offering")
  /\ negotiated' = negotiated \cup {p}
  /\ IF negotiated = {} THEN UNCHANGED events ELSE Count
  /\ UNCHANGED <<promiseVars, released, pipe, bound, remoteVars, gathering>>

\* A promise settles once.
Reject(p) == IF onceConnected[p] = "pending" THEN Set(onceConnected, p, "rejected") ELSE onceConnected

\* The end of an obfuscated connection, by close() or closeWithError_.  It rejects
\* whoever waits for the connection if it is connecting, which one that is about to
\* create its offer may or may not be yet.
EndObfuscated(p) ==
  /\ obfuscated' = Set(obfuscated, p, "closed")
  /\ \E rejects \in BOOLEAN :
       /\ obfuscated[p] \in {"crossing", "offered", "answering", "stable"} => rejects
       /\ obfuscated[p] \in {"waiting", "connected", "closed"} => ~rejects
       /\ onceConnected' = IF rejects THEN Reject(p) ELSE onceConnected
  /\ onceClosed' = Set(onceClosed, p, TRUE)

\* Fault: the pipe is left alone.
CloseObfuscated(p) ==
  /\ EndObfuscated(p)
  /\ UNCHANGED pipe

\* close() of the provider: of the obfuscated connection, and of the pipe if there
\* is one by now.
CloseProvider(p) ==
  /\ EndObfuscated(p)
  /\ pipe' = IF pipe[p] = "none" THEN pipe ELSE Set(pipe, p, "closed")

CloseBridge(p) ==
  /\ \/ /\ provider[p] = "none"
        /\ onceConnected' = Set(onceConnected, p, "rejected") /\ onceClosed' = Set(onceClosed, p, TRUE)
        /\ UNCHANGED <<obfuscated, pipe>>
     \/ provider[p] # "none" /\ CloseProvider(p)
  /\ ~released[p] /\ released' = Set(released, p, TRUE)
  /\ UNCHANGED <<provider, probeVars, config, bound, remoteVars, gathering,
                 signalVars, negotiated>>

\* The owner closes once: when it likes, or else when onceClosed has fulfilled.
Close(p) == ~onceClosed[p] /\ Count /\ CloseBridge(p)

CloseAfter(p) == onceClosed[p] /\ CloseBridge(p) /\ UNCHANGED events

-----------------------------------------------------------------------------
(* The probe connection and the pipe *)

\* A candidate, for UDP: it goes to the peer, or waits for the mid.
ProbeFinds(p, c) ==
  /\ probe[p] \in {"gathering", "closing"} /\ c \notin Range(candidates[p]) /\ Findable
  /\ candidates' = Set(candidates, p, Append(candidates[p], c))
  /\ IF HasMid(p) THEN Emit(p, CandidateSignals(<<c>>)) ELSE UNCHANGED signalVars
  /\ UNCHANGED <<bridgeVars, probe, timedOut, pipeVars, remoteVars, obfuscated, gathering,
                 negotiated, events>>

\* probingComplete_: by the end of the candidates, and then by close() of the probe,
\* or by the timer, after which the browser of the probe is yet to close.
ProbingCompletes(p) ==
  /\ \/ probe[p] = "gathering" /\ probe' = Set(probe, p, "closed") /\ UNCHANGED <<timedOut, events>>
     \/ probe[p] = "gathering" /\ Count /\ probe' = Set(probe, p, "closing")
        /\ timedOut' = Set(timedOut, p, TRUE)
     \/ probe[p] = "closing" /\ probe' = Set(probe, p, "closed") /\ UNCHANGED <<timedOut, events>>
  /\ UNCHANGED <<bridgeVars, candidates, pipeVars, remoteVars, obfuscated, gathering,
                 signalVars, negotiated>>

\* Fault: the pipe does not wait for the probe.
ConfigurePipeAtOnce(p) ==
  /\ probe[p] # "none" /\ config[p] # Nobody /\ pipe[p] = "none"
  /\ pipe' = Set(pipe, p, "configuring")
  /\ UNCHANGED <<bridgeVars, probeVars, config, bound, remoteVars, obfuscated, gathering,
                 signalVars, negotiated, events>>

\* configurePipe_.
ConfigurePipe(p) ==
  /\ probe[p] \in {"closing", "closed"} /\ config[p] # Nobody /\ pipe[p] = "none"
  /\ pipe' = Set(pipe, p, "configuring")
  /\ UNCHANGED <<bridgeVars, probeVars, config, bound, remoteVars, obfuscated, gathering,
                 signalVars, negotiated, events>>

\* Fault: the port the server saw is bound.
PublicEndpoint(c) == c

\* getLocalEndpoint: a server-reflexive candidate is the port of a host candidate.
LocalEndpoint(c) == IF c = "srflx" THEN "host" ELSE c

\* selectBestPublicAddress, of some candidates.
BestPublicAddress(cs) ==
  CHOOSE c \in cs : \A d \in cs : c = "public" \/ (c = "srflx" /\ d # "public") \/ d = "host"

\* processProbeCandidates_; without candidates CHURN finds no public endpoint and
\* throws, and then, as when setTransformer() rejects, nobody ever has the pipe.
ProcessProbeCandidates(p) ==
  /\ pipe[p] = "configuring"
  /\ LET found == Range(candidates[p])
         throws == provider[p] = "CHURN" /\ found = {}
     IN  /\ bound' = Set(bound, p, {LocalEndpoint(c) : c \in found})
         /\ pipe' = Set(pipe, p, IF throws THEN "stuck" ELSE "ready")
         /\ IF provider[p] = "CHURN" /\ ~throws
            THEN Emit(p, <<Signal("publicEndpoint", BestPublicAddress(found))>>)
            ELSE UNCHANGED signalVars
  /\ UNCHANGED <<bridgeVars, probeVars, config, remoteVars, obfuscated, gathering, negotiated, events>>

SetTransformerFails(p) ==
  /\ pipe[p] = "configuring" /\ Count
  /\ pipe' = Set(pipe, p, "stuck")
  /\ UNCHANGED <<bridgeVars, probeVars, config, bound, remoteVars, obfuscated, gathering,
                 signalVars, negotiated>>

\* bindRemote() and the pipe's mappingAdded: onMappingAdded_ gives the mirror of the
\* candidate to the obfuscated connection.
MappingAdded(p, c) ==
  /\ pipe[p] = "ready" /\ c \in remoteCandidates[p] \ mirrors[p] /\ bound[p] # {}
  /\ mirrors' = [mirrors EXCEPT ![p] = @ \cup {c}]
  /\ UNCHANGED <<bridgeVars, probeVars, pipeVars, remoteCandidates, descriptions, given,
                 obfuscated, gathering, signalVars, negotiated, events>>

-----------------------------------------------------------------------------
(* The obfuscated connection *)

\* It has created its offer or its answer: a description out, and the candidates
\* that have waited for its mid.
Describe(p, type, next) ==
  /\ obfuscated' = Set(obfuscated, p, next)
  /\ gathering' = Set(gathering, p, "started")
  /\ Emit(p, IF HasMid(p) THEN <<Signal(type, Nobody)>>
             ELSE <<Signal(type, Nobody)>> \o CandidateSignals(candidates[p]))
  /\ UNCHANGED <<bridgeVars, probeVars, pipeVars, remoteVars, negotiated, events>>

\* An offer that crosses one of the peer is out before the answer to that.
OfferCreated(p) ==
  \/ obfuscated[p] = "offering" /\ Describe(p, "OFFER", "offered")
  \/ obfuscated[p] = "crossing" /\ Describe(p, "OFFER", "answering")
AnswerCreated(p) == obfuscated[p] = "answering" /\ Describe(p, "ANSWER", "stable")

\* Its candidate, which is for the pipe, and the end of its candidates.
Gathers(p) ==
  /\ obfuscated[p] # "closed" /\ gathering[p] = "started"
  /\ gathering' = Set(gathering, p, "done")
  /\ EmitLast(p, Signal("NO_MORE_CANDIDATES", Nobody))
  /\ UNCHANGED <<bridgeVars, probeVars, pipeVars, remoteVars, obfuscated, negotiated, events>>

\* handleOfferSignalMessage_.  One that is yet to create its own offer answers, with
\* or without that offer.  One whose offer is out closes, if not because the offer of
\* the peer has the lower hash then because its browser refuses it; and a connection
\* that is closed is connecting until its browser refuses the offer.
HandleOffer(p) ==
  \/ /\ obfuscated[p] \notin {"offered", "closed"}
     /\ \E next \in {"answering"} \cup (IF obfuscated[p] = "offering" THEN {"crossing"} ELSE {}) :
          obfuscated' = Set(obfuscated, p, next)
     /\ UNCHANGED promiseVars
  \/ /\ obfuscated[p] \in {"offered", "closed"}
     /\ obfuscated' = Set(obfuscated, p, "closed") /\ onceClosed' = Set(onceClosed, p, TRUE)
     /\ onceConnected' = Reject(p)

\* handleAnswerSignalMessage_: the browser refuses an answer to no offer.
HandleAnswer(p) ==
  \/ /\ obfuscated[p] = "offered" /\ obfuscated' = Set(obfuscated, p, "stable")
     /\ UNCHANGED promiseVars
  \/ obfuscated[p] # "offered" /\ EndObfuscated(p)

\* handleSignalMessage() of the obfuscated connection for the next description.
HandleDescription(p) ==
  /\ given[p] < Len(descriptions[p]) /\ given' = Set(given, p, given[p] + 1)
  /\ IF descriptions[p][given[p] + 1] = "OFFER" THEN HandleOffer(p) ELSE HandleAnswer(p)
  /\ UNCHANGED <<provider, released, probeVars, pipeVars, remoteCandidates, mirrors, descriptions,
                 gathering, signalVars, negotiated, events>>

\* Fault: a description is not held until there is a pipe.
GiveDescriptionAtOnce(p) == HandleDescription(p)

GiveDescription(p) == pipe[p] = "ready" /\ HandleDescription(p)

\* What the pipe of p forwards, and the pipe of its peer can take.
Reaches(p) ==
  \E c \in mirrors[p] : LocalEndpoint(c) \in bound[Other(p)]

\* The browsers connect when packets of one of them pass both pipes, which then let
\* the answers through as well.
Connected ==
  /\ \A p \in Peers : obfuscated[p] = "stable" /\ pipe[p] = "ready" /\ bound[p] # {}
                      /\ gathering[p] = "done"
  /\ \A p, q \in Peers : config[p] = config[q]
  /\ \E p \in Peers : Reaches(p)
  /\ obfuscated' = All("connected")
  /\ onceConnected' = [p \in Peers |-> IF onceConnected[p] = "pending" THEN "fulfilled"
                                      ELSE onceConnected[p]]
  /\ UNCHANGED <<provider, onceClosed, released, probeVars, pipeVars, remoteVars, gathering,
                 signalVars, negotiated, events>>

\* The obfuscated connection ends because its peer's has.
PeerGone(p) ==
  /\ obfuscated[p] = "connected" /\ obfuscated[Other(p)] = "closed"
  /\ EndObfuscated(p)
  /\ UNCHANGED <<provider, released, probeVars, pipeVars, remoteVars,
                 gathering, signalVars, negotiated, events>>

-----------------------------------------------------------------------------
(* Messages of the peer *)

\* addRemoteCandidate_; MappingAdded is its other half, once there is a pipe.
AddRemoteCandidate(p, c) ==
  remoteCandidates' = [remoteCandidates EXCEPT ![p] = @ \cup {c}]

\* handleSignalMessage() of churn.
HandleChurnSignal(p, s) ==
  \/ /\ s.type \in {"CANDIDATE", "publicEndpoint"}
     /\ AddRemoteCandidate(p, s.of)
     /\ UNCHANGED <<config, mirrors, descriptions, given>>
  \/ /\ s.type = "caesar" /\ HaveTransformerConfig(p, s.of)
     /\ UNCHANGED remoteVars
  \/ /\ s.type \in {"OFFER", "ANSWER"}
     /\ descriptions' = Set(descriptions, p, Append(descriptions[p], s.type))
     /\ UNCHANGED <<config, remoteCandidates, mirrors, given>>
  \/ s.type = "NO_MORE_CANDIDATES" /\ UNCHANGED <<config, remoteVars>>

\* pickBestProviderType; the signals of one message are of one provider.
PickBestProviderType(p) == provider[Other(p)]

\* handleSignalMessage() of the bridge: the first signals choose the provider, those
\* of another one are answered with an error, and so is an error.
HandleSignalMessage(p) ==
  /\ wire[p] # <<>>
  /\ LET q == Other(p)
         s == Head(wire[p])
         rest == Set(wire, p, Tail(wire[p]))
         wrong == s.type = "error" \/ provider[q] \notin {"none", provider[p]}
     IN  \/ /\ s.type # "error" /\ provider[q] = "none"
            /\ BridgeWith(q, PickBestProviderType(q))
            /\ HandleChurnSignal(q, s)
            /\ wire' = rest /\ UNCHANGED <<batch, batched>>
         \/ /\ provider[q] # "none" /\ ~wrong
            /\ HandleChurnSignal(q, s)
            /\ wire' = rest
            /\ UNCHANGED <<provider, probeVars, batch, batched>>
         \/ /\ wrong
            /\ IF batched
               THEN wire' = rest /\ batch' = Set(batch, q, Append(batch[q], Signal("error", Nobody)))
               ELSE wire' = [rest EXCEPT ![q] = Append(@, Signal("error", Nobody))] /\ UNCHANGED batch
            /\ UNCHANGED <<batched, provider, probeVars, config, remoteVars>>
  /\ UNCHANGED <<promiseVars, released, pipe, bound, obfuscated, gathering, negotiated, events>>

-----------------------------------------------------------------------------
PipeStep(p) ==
  \/ ProbingCompletes(p) \/ ConfigurePipe(p) \/ ProcessProbeCandidates(p)
  \/ \E c \in Kinds : MappingAdded(p, c)

ObfuscatedStep(p) ==
  OfferCreated(p) \/ AnswerCreated(p) \/ Gathers(p) \/ GiveDescription(p) \/ PeerGone(p)

Next ==
  \/ \E p \in Peers :
       \/ NegotiateConnection(p) \/ Close(p) \/ CloseAfter(p) \/ SetTransformerFails(p)
       \/ \E c \in Kinds : ProbeFinds(p, c)
       \/ PipeStep(p) \/ ObfuscatedStep(p) \/ HandleSignalMessage(p)
  \/ Connected

Spec == Init /\ [][Next]_vars

\* Probes end, by their timer if not otherwise; promises settle, pipes and browsers
\* answer, signals arrive, and who learns of the end closes.  Nobody has to
\* negotiate, and no candidate has to be found.  A pipe or a browser takes finitely many
\* steps of its own, so that none of them is put off by the others for ever.
FairSpec ==
  /\ Spec /\ WF_vars(Connected)
  /\ \A p \in Peers :
       /\ WF_vars(PipeStep(p)) /\ WF_vars(ObfuscatedStep(p))
       /\ WF_vars(HandleSignalMessage(p)) /\ WF_vars(CloseAfter(p))

-----------------------------------------------------------------------------
(* Properties *)

Single == Cardinality(negotiated) = 1

\* A peer hears of a candidate of churn only after the description it belongs to,
\* whichever of the two connections was faster: the candidates have its mid.
\* (The public endpoint of the older protocol needs none.)
CandidatesAfterDescription ==
  \A p \in Peers :
    provider[Other(p)] = "HOLO_ICE" /\ remoteCandidates[p] # {} => descriptions[p] # <<>>

\* What the peer is told of can be reached: as soon as there is a pipe, every
\* candidate found has its port in it, unless the probe was cut off.
AdvertisedIsBound ==
  \A p \in Peers : pipe[p] = "ready" /\ ~timedOut[p]
    => \A c \in Range(candidates[p]) : LocalEndpoint(c) \in bound[p]

\* The pipes of a connection that one peer negotiates transform packets alike.
OneConfig ==
  Single => \A p \in Peers : config[p] # Nobody => config[p] \in negotiated

\* The answering peer signals all it has before it signals the end, so that its
\* batch is complete: it had no pipe before its probe was over, and no answer
\* before it had the pipe.
AnswererIsComplete ==
  \A p \in Peers \ negotiated : gathering[p] = "done" /\ ~timedOut[p] => batch[p] = <<>>

\* If one peer negotiates, both find a candidate and nothing fails, the peers connect,
\* though the batch of the offering peer may lack its candidates.
Connects ==
  (Single /\ \A p \in Peers : candidates[p] # <<>>)
    ~> (events > 0 \/ ~Single \/ \A p \in Peers : onceConnected[p] = "fulfilled")

\* A connection that had been made leaves no pipe behind, whichever peer or fault
\* ended it; nor does one that an error ended before it was made, if it had its pipe.
\* (A pipe that is created after close() stays: close() shuts down the one there is.)
PipesReleased ==
  \A p \in Peers :
    (onceClosed[p] /\ (onceConnected[p] = "fulfilled" \/ (~released[p] /\ pipe[p] # "none")))
      ~> (pipe[p] = "closed")

\* Where one peer negotiates the two have the same provider, so that no signal is
\* answered with an error; an error itself would be, without end.
NoErrors ==
  Single => \A p \in Peers : \A s \in Range(wire[p]) \cup Range(batch[p]) : s.type # "error"

\* What has reached a peer suffices for it to go on: it has the description that its
\* candidates need, the answerer's signals are all there is, and none is refused.
SignalsComplete == CandidatesAfterDescription /\ AnswererIsComplete /\ NoErrors

\* The two pipes fit: where one peer sends to the other listens, and what one
\* transforms the other restores.
PipesAgree == AdvertisedIsBound /\ OneConfig

\* A negotiation ends in a connection, and a connection without a trace.
Ends == Connects /\ PipesReleased
=============================================================================
