----------------------------- MODULE ChurnProofs -----------------------------
(* Proofs about the parts of churn: about Churn, for any candidates, either   *)
(* way of sending signals, and any number of negotiations, failures and       *)
(* timeouts; about ChurnPipe, for any interfaces, ports and remote endpoints, *)
(* any limit of the retries and any number of public sockets; and about       *)
(* Datagrams, for any lengths, fragment size, injected packets and interval.  *)
EXTENDS Churn, ChurnPipe, Datagrams, SequenceTheorems, FiniteSetTheorems, WellFoundedInduction,
        NaturalsInduction, TLAPS

Obfuscated == {"waiting", "offering", "crossing", "offered", "answering", "stable", "connected",
               "closed"}

\* A signal that p may have sent: only a bridge with a provider sends signals of
\* one, a key is that of a peer that has negotiated, only CHURN tells of a public
\* endpoint, and there are errors only if both negotiate.
Sound(p) == {s \in Signals : /\ s.type # "error" => provider[p] # "none"
                             /\ s.type = "caesar" => s.of \in negotiated
                             /\ s.type = "publicEndpoint" => provider[p] = "CHURN"
                             /\ s.type = "error" => negotiated = Peers}

SignalsSound ==
  /\ wire \in [Peers -> Seq(Signals)] /\ batch \in [Peers -> Seq(Signals)]
  /\ \A p \in Peers : wire[p] \in Seq(Sound(p)) /\ batch[p] \in Seq(Sound(p))

Typed ==
  /\ provider \in [Peers -> Types \cup {"none"}]
  /\ probe \in [Peers -> {"none", "gathering", "closing", "closed"}]
  /\ candidates \in [Peers -> Seq(Kinds)]
  /\ config \in [Peers -> negotiated \cup {Nobody}]
  /\ pipe \in [Peers -> {"none", "configuring", "ready", "stuck", "closed"}]
  /\ bound \in [Peers -> SUBSET {"host", "srflx", "public"}]
  /\ obfuscated \in [Peers -> Obfuscated]
  /\ gathering \in [Peers -> {"none", "started", "done"}]
  /\ timedOut \in [Peers -> BOOLEAN] /\ negotiated \subseteq Peers

\* Who does not negotiate has the provider of the one who does.
Follows == \A p \in Peers \ negotiated : provider[p] \in {"none", provider[Other(p)]}

\* An answerer has a pipe before it answers, and has nothing to say but in its answer.
Answerer(p) ==
  /\ obfuscated[p] \notin {"offering", "crossing", "offered"}
  /\ gathering[p] # "none" \/ obfuscated[p] \in {"answering", "stable", "connected"}
       => pipe[p] \in {"ready", "closed"}
  /\ gathering[p] = "done" /\ ~timedOut[p] => batch[p] = <<>>

\* What a peer has come to: nothing without a provider, no pipe before the probe is
\* over, and only a probe that was cut off is over and not closed.
Stage(p) ==
  /\ p \notin negotiated => Answerer(p)
  /\ ~batched => batch[p] = <<>>
  /\ provider[p] = "none" =>
       probe[p] = "none" /\ obfuscated[p] = "waiting" /\ gathering[p] = "none"
  /\ probe[p] \in {"none", "gathering"} => pipe[p] = "none"
  /\ probe[p] = "closing" => timedOut[p]
  /\ pipe[p] = "ready" /\ ~timedOut[p]
       => \A c \in Range(candidates[p]) : LocalEndpoint(c) \in bound[p]

Stages == \A p \in Peers : Stage(p)

Inv == Typed /\ SignalsSound /\ Stages /\ Follows

-----------------------------------------------------------------------------
(* Peers and signals *)

LEMMA OtherPeer ==
  ASSUME NEW p \in Peers
  PROVE  /\ Other(p) \in Peers /\ Other(p) # p /\ Other(Other(p)) = p
         /\ \A r \in Peers : r = p \/ r = Other(p)
<1>1. PICK q, r \in Peers : q # r /\ Peers = {q, r}
  BY ChurnAssumption
<1>2. \E x \in Peers : x # p
  BY <1>1
<1>3. Other(p) \in Peers /\ Other(p) # p
  BY <1>2 DEF Other
<1>4. \E x \in Peers : x # Other(p)
  BY <1>3
<1>5. Other(Other(p)) \in Peers /\ Other(Other(p)) # Other(p)
  BY <1>4 DEF Other
<1> QED
  BY <1>1, <1>3, <1>5

\* What every step of the system does with providers and negotiations.
Growing ==
  /\ batched' = batched /\ negotiated' \subseteq Peers
  /\ \A p \in Peers : provider[p] # "none" => provider'[p] = provider[p]
  /\ negotiated \subseteq negotiated'

LEMMA SoundGrows ==
  ASSUME Growing, NEW p \in Peers
  PROVE  Sound(p) \subseteq Sound(p)'
  BY DEF Growing, Sound

\* What was sound still is.
LEMMA StillSound ==
  ASSUME SignalsSound, Growing, NEW p \in Peers
  PROVE  wire[p] \in Seq(Sound(p)') /\ batch[p] \in Seq(Sound(p)')
<1>1. Sound(p) \subseteq Sound(p)'
  BY SoundGrows
<1>2. wire[p] \in Seq(Sound(p)) /\ batch[p] \in Seq(Sound(p))
  BY DEF SignalsSound
<1> QED
  BY <1>1, <1>2, SeqMonotonic

LEMMA SignalsSame ==
  ASSUME SignalsSound, Growing, UNCHANGED <<wire, batch>>
  PROVE  SignalsSound'
  BY StillSound DEF SignalsSound

\* One of the two grows by sound signals.
LEMMA WireKeeps ==
  ASSUME SignalsSound, Growing, NEW p \in Peers, NEW ss \in Seq(Sound(p)'),
         wire' = Set(wire, p, wire[p] \o ss), batch' = batch
  PROVE  SignalsSound'
<1>1. \A q \in Peers : wire[q] \in Seq(Sound(q)') /\ batch[q] \in Seq(Sound(q)')
  BY StillSound
<1>2. wire[p] \o ss \in Seq(Sound(p)')
  BY <1>1, ConcatProperties
<1>3. Sound(p)' \subseteq Signals
  BY DEF Sound
<1>4. wire[p] \o ss \in Seq(Signals)
  BY <1>2, <1>3, SeqMonotonic
<1>5. /\ wire' \in [Peers -> Seq(Signals)]
      /\ \A q \in Peers : wire'[q] = IF q = p THEN wire[p] \o ss ELSE wire[q]
  BY <1>4 DEF Set, SignalsSound
<1> QED
  BY <1>1, <1>2, <1>5 DEF SignalsSound

LEMMA BatchKeeps ==
  ASSUME SignalsSound, Growing, NEW p \in Peers, NEW ss \in Seq(Sound(p)'),
         batch' = Set(batch, p, batch[p] \o ss), wire' = wire
  PROVE  SignalsSound'
<1>1. \A q \in Peers : wire[q] \in Seq(Sound(q)') /\ batch[q] \in Seq(Sound(q)')
  BY StillSound
<1>2. batch[p] \o ss \in Seq(Sound(p)')
  BY <1>1, ConcatProperties
<1>3. Sound(p)' \subseteq Signals
  BY DEF Sound
<1>4. batch[p] \o ss \in Seq(Signals)
  BY <1>2, <1>3, SeqMonotonic
<1>5. /\ batch' \in [Peers -> Seq(Signals)]
      /\ \A q \in Peers : batch'[q] = IF q = p THEN batch[p] \o ss ELSE batch[q]
  BY <1>4 DEF Set, SignalsSound
<1> QED
  BY <1>1, <1>2, <1>5 DEF SignalsSound

LEMMA EmitKeeps ==
  ASSUME SignalsSound, Growing, NEW p \in Peers, NEW ss \in Seq(Sound(p)'), Emit(p, ss)
  PROVE  SignalsSound'
<1>1. \/ batch' = Set(batch, p, batch[p] \o ss) /\ wire' = wire
      \/ wire' = Set(wire, p, wire[p] \o ss) /\ batch' = batch
  BY DEF Emit
<1> QED
  BY <1>1, WireKeeps, BatchKeeps

\* The batches that a step leaves alone.
LEMMA EmitAlone ==
  ASSUME SignalsSound, NEW p \in Peers, NEW ss, Emit(p, ss)
  PROVE  /\ batched' = batched /\ \A q \in Peers \ {p} : batch'[q] = batch[q]
         /\ ~batched => batch' = batch
  BY DEF Emit, Set, SignalsSound

LEMMA EmitLastAlone ==
  ASSUME SignalsSound, NEW p \in Peers, EmitLast(p, Signal("NO_MORE_CANDIDATES", Nobody))
  PROVE  /\ batched' = batched /\ \A q \in Peers \ {p} : batch'[q] = batch[q]
         /\ IF batched THEN batch'[p] = <<>> ELSE batch' = batch
  BY DEF EmitLast, AddToBatch, IsTerminatingSignal, Signal, Set, SignalsSound

\* The batch goes on the wire.
LEMMA EmitLastKeeps ==
  ASSUME SignalsSound, UNCHANGED <<provider, negotiated, batched>>, NEW p \in Peers,
         negotiated \subseteq Peers,
         provider[p] # "none", EmitLast(p, Signal("NO_MORE_CANDIDATES", Nobody))
  PROVE  SignalsSound'
<1> DEFINE s == Signal("NO_MORE_CANDIDATES", Nobody)
<1>1. Growing /\ s \in Sound(p)' /\ Sound(p)' = Sound(p)
  BY DEF Growing, Sound, Signal, Signals
<1>2. CASE wire' = Set(wire, p, Append(wire[p], s)) /\ batch' = batch
  <2>1. wire[p] \in Seq(Sound(p)') /\ <<s>> \in Seq(Sound(p)')
    BY <1>1 DEF SignalsSound
  <2>2. Append(wire[p], s) = wire[p] \o <<s>>
    BY <2>1, AppendIsConcat
  <2> QED
    BY <1>1, <1>2, <2>1, <2>2, WireKeeps
<1>3. CASE batch' = Set(batch, p, <<>>) /\ wire' = Set(wire, p, wire[p] \o batch[p])
  <2>1. wire[p] \o batch[p] \in Seq(Sound(p))
    BY ConcatProperties DEF SignalsSound
  <2>2. wire[p] \o batch[p] \in Seq(Signals)
    BY ConcatProperties DEF SignalsSound
  <2>3. /\ wire' \in [Peers -> Seq(Signals)]
        /\ \A q \in Peers : wire'[q] = IF q = p THEN wire[p] \o batch[p] ELSE wire[q]
    BY <1>3, <2>2 DEF Set, SignalsSound
  <2>4. <<>> \in Seq(Signals) /\ <<>> \in Seq(Sound(p))
    BY EmptySeq
  <2>5. /\ batch' \in [Peers -> Seq(Signals)]
        /\ \A q \in Peers : batch'[q] = IF q = p THEN <<>> ELSE batch[q]
    BY <1>3, <2>4 DEF Set, SignalsSound
  <2>6. \A q \in Peers : Sound(q)' = Sound(q)
    BY DEF Sound
  <2> QED
    BY <2>1, <2>3, <2>4, <2>5, <2>6 DEF SignalsSound
<1>4. CASE batch' = Set(batch, p, Append(batch[p], s)) /\ wire' = wire
  <2>1. batch[p] \in Seq(Sound(p)') /\ <<s>> \in Seq(Sound(p)')
    BY <1>1 DEF SignalsSound
  <2>2. Append(batch[p], s) = batch[p] \o <<s>>
    BY <2>1, AppendIsConcat
  <2> QED
    BY <1>1, <1>4, <2>1, <2>2, BatchKeeps
<1> QED
  BY <1>2, <1>3, <1>4 DEF EmitLast, AddToBatch

-----------------------------------------------------------------------------
(* The bridge *)

\* A step that moves one peer, in ways that keep its stage.
LEMMA PeerKeeps ==
  ASSUME Inv, Typed', Growing, SignalsSound', NEW p \in Peers, Stage(p)',
         p \in negotiated' \/ provider'[p] \in {provider[p], provider[Other(p)]},
         \A q \in Peers \ {p} :
           /\ provider'[q] = provider[q] /\ probe'[q] = probe[q] /\ pipe'[q] = pipe[q]
           /\ obfuscated'[q] = obfuscated[q] /\ gathering'[q] = gathering[q]
           /\ candidates'[q] = candidates[q] /\ timedOut'[q] = timedOut[q]
           /\ bound'[q] = bound[q] /\ batch'[q] = batch[q]
  PROVE  Inv' /\ Growing
<1>1. ASSUME NEW q \in Peers \ {p} PROVE Stage(q)'
  <2>1. Stage(q) /\ (q \notin negotiated' => q \notin negotiated)
    BY DEF Inv, Stages, Growing
  <2> QED
    BY <2>1 DEF Stage, Answerer, Growing
<1>2. Follows'
  <2> SUFFICES ASSUME NEW q \in Peers, q \notin negotiated'
               PROVE  provider'[q] \in {"none", provider'[Other(q)]}
    BY DEF Follows
  <2>1. provider[q] \in {"none", provider[Other(q)]}
    BY DEF Growing, Inv, Follows
  <2>2. /\ Other(q) \in Peers /\ Other(q) # q
        /\ provider[Other(q)] # "none" => provider'[Other(q)] = provider[Other(q)]
    BY OtherPeer DEF Growing
  <2>3. q = p \/ Other(q) = p
    BY <2>2, OtherPeer
  <2> QED
    BY <2>1, <2>2, <2>3
<1> QED
  BY <1>1, <1>2 DEF Inv, Stages

LEMMA NegotiateKeeps ==
  ASSUME Inv, NEW p \in Peers, NegotiateConnection(p)
  PROVE  Inv' /\ Growing
<1>1. PICK t \in Types : BridgeWith(p, t)
  BY DEF NegotiateConnection
<1>2. /\ provider' = [provider EXCEPT ![p] = t] /\ probe' = [probe EXCEPT ![p] = "gathering"]
      /\ UNCHANGED <<candidates, timedOut>>
  BY <1>1 DEF BridgeWith, Set
<1>3. /\ provider[p] = "none" /\ HaveTransformerConfig(p, p) /\ Emit(p, <<Signal("caesar", p)>>)
      /\ obfuscated' = [obfuscated EXCEPT ![p] = "offering"]
      /\ negotiated' = negotiated \cup {p}
      /\ UNCHANGED <<pipe, bound, gathering>>
  BY DEF NegotiateConnection, Set
<1>4. t # "none"
  BY DEF Types
<1>5. Growing
  BY <1>2, <1>3, <1>4, EmitAlone DEF Growing, Inv, Typed
<1>6. config' \in [Peers -> negotiated' \cup {Nobody}]
  BY <1>3 DEF HaveTransformerConfig, Set, Inv, Typed
<1>7. Typed'
  BY <1>2, <1>3, <1>6 DEF Inv, Typed, Obfuscated
<1>8. Signal("caesar", p) \in Sound(p)'
  BY <1>2, <1>3, <1>4 DEF Sound, Signal, Signals, Inv, Typed
<1>9. <<Signal("caesar", p)>> \in Seq(Sound(p)')
  BY <1>8
<1>10. SignalsSound'
  BY <1>3, <1>5, <1>9, EmitKeeps DEF Inv
<1>11. Stage(p)'
  <2>1. probe[p] = "none" /\ pipe[p] = "none"
    BY <1>3 DEF Inv, Stages, Stage
  <2>2. provider'[p] = t /\ probe'[p] = "gathering" /\ pipe'[p] = "none"
    BY <1>2, <1>3, <2>1 DEF Inv, Typed
  <2>3. batched' = batched /\ (~batched => batch'[p] = <<>>)
    BY <1>3, EmitAlone DEF Inv, Stages, Stage
  <2> QED
    BY <1>3, <1>4, <2>2, <2>3 DEF Stage
<1>12. \A q \in Peers \ {p} : batch'[q] = batch[q]
  BY <1>3, EmitAlone DEF Inv
<1> QED
  BY <1>2, <1>3, <1>5, <1>7, <1>10, <1>11, <1>12, PeerKeeps DEF Inv, Typed

\* Closing leaves the probe, and what the pipe has bound.
LEMMA CloseBridgeKeeps ==
  ASSUME Inv, NEW p \in Peers, CloseBridge(p)
  PROVE  Inv' /\ Growing
<1>1. /\ UNCHANGED <<provider, probe, candidates, timedOut, config, bound, gathering,
                     wire, batch, batched, negotiated>>
  BY DEF CloseBridge, probeVars, signalVars
<1>2. \/ UNCHANGED <<obfuscated, pipe>>
      \/ /\ provider[p] # "none" /\ obfuscated' = [obfuscated EXCEPT ![p] = "closed"]
         /\ \/ pipe' = pipe
            \/ pipe[p] # "none" /\ pipe' = [pipe EXCEPT ![p] = "closed"]
  BY DEF CloseBridge, CloseProvider, EndObfuscated, Set
<1>3. Typed' /\ Growing
  BY <1>1, <1>2 DEF Inv, Typed, Obfuscated, Growing
<1>4. SignalsSound'
  BY <1>1, <1>3, SignalsSame DEF Inv
<1>5. Stage(p)'
  BY <1>1, <1>2 DEF Inv, Typed, Stages, Stage, Answerer
<1> QED
  BY <1>1, <1>2, <1>3, <1>4, <1>5, PeerKeeps DEF Inv, Typed

-----------------------------------------------------------------------------
(* The probe and the pipe *)

LEMMA CandidatesSound ==
  ASSUME NEW p \in Peers, provider'[p] # "none", NEW ss \in Seq(Kinds)
  PROVE  CandidateSignals(ss) \in Seq(Sound(p)')
<1>1. Len(ss) \in Nat /\ DOMAIN ss = 1..Len(ss) /\ \A i \in 1..Len(ss) : ss[i] \in Kinds
  BY LenProperties, ElementOfSeq
<1>2. \A i \in 1..Len(ss) : Signal("CANDIDATE", ss[i]) \in Sound(p)'
  BY <1>1 DEF Sound, Signal, Signals
<1>3. CandidateSignals(ss) \in [1..Len(ss) -> Sound(p)']
  BY <1>1, <1>2 DEF CandidateSignals
<1> QED
  BY <1>1, <1>3, SeqDef

\* A candidate that is found after there is a pipe is one of a probe that was cut off.
LEMMA ProbeFindsKeeps ==
  ASSUME Inv, NEW p \in Peers, NEW c \in Kinds, ProbeFinds(p, c)
  PROVE  Inv' /\ Growing
<1>1. /\ probe[p] \in {"gathering", "closing"}
      /\ candidates' = [candidates EXCEPT ![p] = Append(candidates[p], c)]
      /\ Emit(p, CandidateSignals(<<c>>)) \/ UNCHANGED <<wire, batch, batched>>
      /\ UNCHANGED <<provider, probe, timedOut, config, pipe, bound, obfuscated, gathering,
                     negotiated>>
  BY DEF ProbeFinds, Set, bridgeVars, pipeVars, signalVars
<1>2. Append(candidates[p], c) \in Seq(Kinds)
  BY AppendProperties DEF Inv, Typed
<1>9. /\ batched' = batched /\ \A q \in Peers \ {p} : batch'[q] = batch[q]
      /\ ~batched => batch' = batch
  BY <1>1, EmitAlone DEF Inv
<1>3. Typed' /\ Growing
  BY <1>1, <1>2, <1>9 DEF Inv, Typed, Growing
<1>4. provider'[p] # "none"
  BY <1>1 DEF Inv, Stages, Stage
<1>5. <<c>> \in Seq(Kinds)
  OBVIOUS
<1>6. CandidateSignals(<<c>>) \in Seq(Sound(p)')
  BY <1>4, <1>5, CandidatesSound
<1>7. SignalsSound'
  BY <1>1, <1>3, <1>6, EmitKeeps, SignalsSame DEF Inv
<1>8. Stage(p)'
  <2>1. /\ Stage(p) /\ (pipe[p] \in {"ready", "closed"} => timedOut[p])
        /\ candidates'[p] = Append(candidates[p], c)
    BY <1>1 DEF Inv, Typed, Stages, Stage
  <2> QED
    BY <1>1, <1>4, <1>9, <2>1 DEF Stage, Answerer
<1> QED
  BY <1>1, <1>3, <1>7, <1>8, <1>9, PeerKeeps DEF Inv, Typed

LEMMA ProbingCompletesKeeps ==
  ASSUME Inv, NEW p \in Peers, ProbingCompletes(p)
  PROVE  Inv' /\ Growing
<1>1. /\ \/ /\ probe[p] \in {"gathering", "closing"}
            /\ probe' = [probe EXCEPT ![p] = "closed"] /\ timedOut' = timedOut
         \/ /\ probe[p] = "gathering" /\ probe' = [probe EXCEPT ![p] = "closing"]
            /\ timedOut' = [timedOut EXCEPT ![p] = TRUE]
      /\ UNCHANGED <<provider, candidates, config, pipe, bound, obfuscated, gathering,
                     wire, batch, batched, negotiated>>
  BY DEF ProbingCompletes, Set, bridgeVars, pipeVars, signalVars
<1>2. Typed' /\ Growing
  BY <1>1 DEF Inv, Typed, Growing
<1>3. SignalsSound'
  BY <1>1, <1>2, SignalsSame DEF Inv
<1>4. Stage(p)'
  BY <1>1 DEF Inv, Typed, Stages, Stage, Answerer
<1> QED
  BY <1>1, <1>2, <1>3, <1>4, PeerKeeps DEF Inv, Typed

LEMMA ConfigurePipeKeeps ==
  ASSUME Inv, NEW p \in Peers, ConfigurePipe(p) \/ SetTransformerFails(p)
  PROVE  Inv' /\ Growing
<1>1. /\ probe[p] \in {"closing", "closed"} /\ pipe[p] \in {"none", "configuring"}
      /\ pipe' = [pipe EXCEPT ![p] = "configuring"] \/ pipe' = [pipe EXCEPT ![p] = "stuck"]
      /\ UNCHANGED <<provider, probe, timedOut, candidates, config, bound, obfuscated,
                     gathering, wire, batch, batched, negotiated>>
  BY DEF ConfigurePipe, SetTransformerFails, Set, bridgeVars, probeVars, signalVars,
         Inv, Typed, Stages, Stage
<1>2. Typed' /\ Growing
  BY <1>1 DEF Inv, Typed, Growing
<1>3. SignalsSound'
  BY <1>1, <1>2, SignalsSame DEF Inv
<1>4. Stage(p)'
  BY <1>1 DEF Inv, Typed, Stages, Stage, Answerer
<1> QED
  BY <1>1, <1>2, <1>3, <1>4, PeerKeeps DEF Inv, Typed

\* There is a best one among some.
LEMMA BestIsOne ==
  ASSUME NEW cs, cs \subseteq Kinds, cs # {}
  PROVE  BestPublicAddress(cs) \in cs
<1> DEFINE Best(c) == \A d \in cs : c = "public" \/ (c = "srflx" /\ d # "public") \/ d = "host"
<1>1. cs \subseteq {"host", "srflx", "public"}
  BY ChurnAssumption
<1>2. \E c \in cs : Best(c)
  <2>1. CASE "public" \in cs
    BY <2>1
  <2>2. CASE "public" \notin cs /\ "srflx" \in cs
    BY <1>1, <2>2
  <2>3. CASE "public" \notin cs /\ "srflx" \notin cs
    BY <1>1, <2>3
  <2> QED
    BY <2>1, <2>2, <2>3
<1> QED
  BY <1>2 DEF BestPublicAddress

\* The pipe binds the ports of all candidates, and is then ready.
LEMMA ProcessKeeps ==
  ASSUME Inv, NEW p \in Peers, ProcessProbeCandidates(p)
  PROVE  Inv' /\ Growing
<1> DEFINE found == Range(candidates[p])
           throws == provider[p] = "CHURN" /\ found = {}
<1>1. /\ pipe[p] = "configuring"
      /\ bound' = [bound EXCEPT ![p] = {LocalEndpoint(c) : c \in found}]
      /\ pipe' = [pipe EXCEPT ![p] = IF throws THEN "stuck" ELSE "ready"]
      /\ \/ /\ provider[p] = "CHURN" /\ found # {}
            /\ Emit(p, <<Signal("publicEndpoint", BestPublicAddress(found))>>)
         \/ UNCHANGED <<wire, batch, batched>>
      /\ UNCHANGED <<provider, probe, timedOut, candidates, config, obfuscated, gathering,
                     negotiated>>
  BY DEF ProcessProbeCandidates, Set, bridgeVars, probeVars, signalVars
<1>2. found \subseteq Kinds /\ Kinds \subseteq {"host", "srflx", "public"}
  BY ChurnAssumption, LenProperties, ElementOfSeq DEF Range, Inv, Typed
<1>3. {LocalEndpoint(c) : c \in found} \subseteq {"host", "srflx", "public"}
  BY <1>2 DEF LocalEndpoint
<1>7. /\ batched' = batched /\ \A q \in Peers \ {p} : batch'[q] = batch[q]
      /\ ~batched => batch' = batch
  BY <1>1, EmitAlone DEF Inv
<1>4. Typed' /\ Growing
  BY <1>1, <1>3, <1>7 DEF Inv, Typed, Growing
<1>5. SignalsSound'
  <2>1. CASE UNCHANGED <<wire, batch, batched>>
    BY <1>4, <2>1, SignalsSame DEF Inv
  <2>2. CASE /\ provider[p] = "CHURN" /\ found # {}
             /\ Emit(p, <<Signal("publicEndpoint", BestPublicAddress(found))>>)
    <3> DEFINE s == Signal("publicEndpoint", BestPublicAddress(found))
    <3>1. BestPublicAddress(found) \in Kinds
      BY <1>2, <2>2, BestIsOne
    <3>2. s \in Sound(p)'
      BY <1>1, <2>2, <3>1 DEF Sound, Signal, Signals
    <3>3. <<s>> \in Seq(Sound(p)')
      BY <3>2
    <3> QED
      BY <1>4, <2>2, <3>3, EmitKeeps DEF Inv
  <2> QED
    BY <1>1, <2>1, <2>2
<1>6. Stage(p)'
  <2>1. /\ Stage(p) /\ pipe'[p] \in {"stuck", "ready"}
        /\ bound'[p] = {LocalEndpoint(c) : c \in found}
    BY <1>1 DEF Inv, Typed, Stages
  <2>2. /\ provider[p] # "none" /\ probe[p] \notin {"none", "gathering"}
        /\ p \notin negotiated =>
             gathering[p] = "none" /\ obfuscated[p] \notin {"answering", "stable", "connected"}
    BY <1>1, <2>1 DEF Stage, Answerer
  <2> QED
    BY <1>1, <1>7, <2>1, <2>2 DEF Stage, Answerer
<1> QED
  BY <1>1, <1>4, <1>5, <1>6, <1>7, PeerKeeps DEF Inv, Typed

-----------------------------------------------------------------------------
(* The obfuscated connection *)

LEMMA DescribeKeeps ==
  ASSUME Inv, NEW p \in Peers, OfferCreated(p) \/ AnswerCreated(p)
  PROVE  Inv' /\ Growing
<1>2. PICK type \in {"OFFER", "ANSWER"}, next \in {"offered", "answering", "stable"} :
        /\ obfuscated[p] \in (IF next = "stable" THEN {"answering"} ELSE {"offering", "crossing"})
        /\ Describe(p, type, next)
  BY DEF OfferCreated, AnswerCreated
<1>1. obfuscated[p] \in (IF next = "stable" THEN {"answering"} ELSE {"offering", "crossing"})
  BY <1>2
<1>3. /\ obfuscated' = [obfuscated EXCEPT ![p] = next]
      /\ gathering' = [gathering EXCEPT ![p] = "started"]
      /\ UNCHANGED <<provider, probe, timedOut, candidates, config, pipe, bound, negotiated>>
  BY <1>2 DEF Describe, Set, bridgeVars, probeVars, pipeVars
<1>14. /\ batched' = batched /\ \A q \in Peers \ {p} : batch'[q] = batch[q]
       /\ ~batched => batch' = batch
  BY <1>2, EmitAlone DEF Describe, Inv
<1>4. Typed' /\ Growing
  BY <1>3, <1>14 DEF Inv, Typed, Obfuscated, Growing
<1>5. provider[p] # "none" /\ provider'[p] # "none"
  BY <1>1, <1>3 DEF Inv, Stages, Stage
<1>6. Signal(type, Nobody) \in Sound(p)'
  BY <1>5 DEF Sound, Signal, Signals
<1>7. <<Signal(type, Nobody)>> \in Seq(Sound(p)')
  BY <1>6
<1>8. candidates[p] \in Seq(Kinds)
  BY DEF Inv, Typed
<1>9. CandidateSignals(candidates[p]) \in Seq(Sound(p)')
  BY <1>5, <1>8, CandidatesSound
<1>10. <<Signal(type, Nobody)>> \o CandidateSignals(candidates[p]) \in Seq(Sound(p)')
  BY <1>7, <1>9, ConcatProperties
<1>11. \/ Emit(p, <<Signal(type, Nobody)>>)
       \/ Emit(p, <<Signal(type, Nobody)>> \o CandidateSignals(candidates[p]))
  BY <1>2 DEF Describe
<1>12. SignalsSound'
  BY <1>4, <1>7, <1>10, <1>11, EmitKeeps DEF Inv
<1>13. Stage(p)'
  <2>1. /\ Stage(p) /\ obfuscated'[p] = next /\ gathering'[p] = "started"
        /\ p \notin negotiated => next = "stable" /\ pipe[p] \in {"ready", "closed"}
    BY <1>1, <1>3 DEF Inv, Typed, Stages, Stage, Answerer
  <2> QED
    BY <1>3, <1>5, <1>14, <2>1 DEF Stage, Answerer
<1> QED
  BY <1>3, <1>4, <1>12, <1>13, <1>14, PeerKeeps DEF Inv, Typed

LEMMA GathersKeeps ==
  ASSUME Inv, NEW p \in Peers, Gathers(p)
  PROVE  Inv' /\ Growing
<1>1. /\ gathering[p] = "started" /\ gathering' = [gathering EXCEPT ![p] = "done"]
      /\ EmitLast(p, Signal("NO_MORE_CANDIDATES", Nobody))
      /\ UNCHANGED <<provider, probe, timedOut, candidates, config, pipe, bound, obfuscated,
                     negotiated>>
  BY DEF Gathers, Set, bridgeVars, probeVars, pipeVars
<1>6. /\ batched' = batched /\ \A q \in Peers \ {p} : batch'[q] = batch[q]
      /\ batch'[p] = <<>>
  BY <1>1, EmitLastAlone DEF Inv, Stages, Stage
<1>2. Typed' /\ Growing
  BY <1>1, <1>6 DEF Inv, Typed, Growing
<1>3. provider[p] # "none"
  BY <1>1 DEF Inv, Stages, Stage
<1>4. SignalsSound'
  BY <1>1, <1>3, <1>6, EmitLastKeeps DEF Inv, Typed
<1>5. Stage(p)'
  BY <1>1, <1>3, <1>6 DEF Inv, Stages, Stage, Answerer
<1> QED
  BY <1>1, <1>2, <1>4, <1>5, <1>6, PeerKeeps DEF Inv, Typed

\* The other steps of the connection, which say nothing.
LEMMA QuietKeeps ==
  ASSUME Inv, NEW p \in Peers,
         GiveDescription(p) \/ PeerGone(p) \/ \E c \in Kinds : MappingAdded(p, c)
  PROVE  Inv' /\ Growing
<1>1. /\ \/ obfuscated' = obfuscated
         \/ /\ provider[p] # "none"
            /\ \E next \in {"answering", "crossing", "stable", "closed"} :
                 /\ obfuscated' = [obfuscated EXCEPT ![p] = next]
                 /\ next # "closed" => pipe[p] = "ready"
                 /\ next = "crossing" => obfuscated[p] = "offering"
      /\ UNCHANGED <<provider, probe, timedOut, candidates, config, pipe, bound, gathering,
                     wire, batch, batched, negotiated>>
  <2>1. pipe[p] = "ready" \/ obfuscated[p] = "connected" => provider[p] # "none"
    BY DEF Inv, Stages, Stage
  <2>2. CASE GiveDescription(p)
    <3>1. /\ pipe[p] = "ready"
          /\ HandleOffer(p) \/ HandleAnswer(p)
          /\ UNCHANGED <<provider, probe, timedOut, candidates, config, pipe, bound, gathering,
                         wire, batch, batched, negotiated>>
      BY <2>2 DEF GiveDescription, HandleDescription, probeVars, pipeVars, signalVars
    <3>2. PICK next \in {"answering", "crossing", "stable", "closed"} :
            /\ obfuscated' = [obfuscated EXCEPT ![p] = next]
            /\ next = "crossing" => obfuscated[p] = "offering"
      BY <3>1 DEF HandleOffer, HandleAnswer, EndObfuscated, Set
    <3>3. provider[p] # "none"
      BY <2>1, <3>1
    <3> QED
      BY <3>1, <3>2, <3>3
  <2>3. CASE PeerGone(p)
    BY <2>1, <2>3 DEF PeerGone, EndObfuscated, Set, probeVars, pipeVars, signalVars
  <2>4. ASSUME NEW c \in Kinds, MappingAdded(p, c)
        PROVE  /\ obfuscated' = obfuscated
               /\ UNCHANGED <<provider, probe, timedOut, candidates, config, pipe, bound,
                              gathering, wire, batch, batched, negotiated>>
    BY <2>4 DEF MappingAdded, bridgeVars, probeVars, pipeVars, signalVars
  <2> QED
    BY <2>2, <2>3, <2>4
<1>2. obfuscated' \in [Peers -> Obfuscated]
  <2>1. obfuscated \in [Peers -> Obfuscated]
    BY DEF Inv, Typed
  <2>2. {"answering", "crossing", "stable", "closed"} \subseteq Obfuscated
    BY DEF Obfuscated
  <2> QED
    BY <1>1, <2>1, <2>2
<1>3. Typed' /\ Growing
  BY <1>1, <1>2 DEF Inv, Typed, Growing
<1>4. SignalsSound'
  BY <1>1, <1>3, SignalsSame DEF Inv
<1>5. Stage(p)'
  <2>1. Stage(p) /\ (pipe[p] = "ready" => provider[p] # "none")
    BY DEF Inv, Stages, Stage
  <2>2. CASE obfuscated' = obfuscated
    BY <1>1, <2>1, <2>2 DEF Stage, Answerer
  <2>3. ASSUME NEW next \in {"answering", "crossing", "stable", "closed"}, provider[p] # "none",
               obfuscated' = [obfuscated EXCEPT ![p] = next],
               next # "closed" => pipe[p] = "ready",
               next = "crossing" => obfuscated[p] = "offering"
        PROVE  Stage(p)'
    <3>1. obfuscated'[p] = next
      BY <2>3 DEF Inv, Typed
    <3>2. p \notin negotiated => next # "crossing"
      BY <2>1, <2>3 DEF Stage, Answerer
    <3> QED
      BY <1>1, <2>1, <2>3, <3>1, <3>2 DEF Stage, Answerer
  <2> QED
    BY <1>1, <2>2, <2>3
<1> QED
  BY <1>1, <1>3, <1>4, <1>5, PeerKeeps DEF Inv, Typed

LEMMA ConnectedKeeps ==
  ASSUME Inv, Connected
  PROVE  Inv' /\ Growing
<1>1. /\ \A p \in Peers : obfuscated[p] = "stable" /\ pipe[p] = "ready"
      /\ obfuscated' = [p \in Peers |-> "connected"]
      /\ UNCHANGED <<provider, probe, timedOut, candidates, config, pipe, bound, gathering,
                     wire, batch, batched, negotiated>>
  BY DEF Connected, All, probeVars, pipeVars, signalVars
<1>2. Typed' /\ Growing
  BY <1>1 DEF Inv, Typed, Obfuscated, Growing
<1>3. SignalsSound'
  BY <1>1, <1>2, SignalsSame DEF Inv
<1>4. ASSUME NEW p \in Peers PROVE Stage(p)'
  BY <1>1 DEF Inv, Stages, Stage, Answerer
<1>5. Follows'
  BY <1>1 DEF Inv, Follows
<1> QED
  BY <1>2, <1>3, <1>4, <1>5 DEF Inv, Stages

-----------------------------------------------------------------------------
(* Messages of the peer *)

\* A signal leaves the wire of p; what is left is sound.
LEMMA TakeKeeps ==
  ASSUME SignalsSound, Growing, NEW p \in Peers, wire[p] # <<>>,
         wire' = Set(wire, p, Tail(wire[p])), batch' = batch
  PROVE  SignalsSound'
<1>1. \A q \in Peers : wire[q] \in Seq(Sound(q)') /\ batch[q] \in Seq(Sound(q)')
  BY StillSound
<1>2. Tail(wire[p]) \in Seq(Sound(p)') /\ Tail(wire[p]) \in Seq(Signals)
  BY <1>1, HeadTailProperties DEF SignalsSound
<1>3. /\ wire' \in [Peers -> Seq(Signals)]
      /\ \A q \in Peers : wire'[q] = IF q = p THEN Tail(wire[p]) ELSE wire[q]
  BY <1>2 DEF Set, SignalsSound
<1> QED
  BY <1>1, <1>2, <1>3 DEF SignalsSound

\* It is answered with an error.
LEMMA ErrorKeeps ==
  ASSUME SignalsSound, Growing, NEW p \in Peers, NEW q \in Peers, p # q, wire[p] # <<>>,
         negotiated' = Peers,
         \/ /\ wire' = Set(wire, p, Tail(wire[p]))
            /\ batch' = Set(batch, q, Append(batch[q], Signal("error", Nobody)))
         \/ /\ wire' = [Set(wire, p, Tail(wire[p])) EXCEPT
                          ![q] = Append(@, Signal("error", Nobody))]
            /\ batch' = batch
  PROVE  SignalsSound'
<1> DEFINE e == Signal("error", Nobody)
<1>1. \A r \in Peers : /\ wire[r] \in Seq(Sound(r)') /\ batch[r] \in Seq(Sound(r)')
                       /\ wire[r] \in Seq(Signals) /\ batch[r] \in Seq(Signals)
  BY StillSound DEF SignalsSound
<1>2. Tail(wire[p]) \in Seq(Sound(p)') /\ Tail(wire[p]) \in Seq(Signals)
  BY <1>1, HeadTailProperties
<1>3. e \in Sound(q)' /\ e \in Signals
  BY DEF Sound, Signal, Signals
<1>4. /\ Append(batch[q], e) \in Seq(Sound(q)') /\ Append(batch[q], e) \in Seq(Signals)
      /\ Append(wire[q], e) \in Seq(Sound(q)') /\ Append(wire[q], e) \in Seq(Signals)
  BY <1>1, <1>3, AppendProperties
<1> HIDE DEF e
<1>5. CASE /\ wire' = Set(wire, p, Tail(wire[p]))
           /\ batch' = Set(batch, q, Append(batch[q], e))
  <2>1. /\ wire' \in [Peers -> Seq(Signals)]
        /\ \A r \in Peers : wire'[r] = IF r = p THEN Tail(wire[p]) ELSE wire[r]
    BY <1>2, <1>5 DEF Set, SignalsSound
  <2>2. /\ batch' \in [Peers -> Seq(Signals)]
        /\ \A r \in Peers : batch'[r] = IF r = q THEN Append(batch[q], e) ELSE batch[r]
    BY <1>4, <1>5 DEF Set, SignalsSound
  <2> QED
    BY <1>1, <1>2, <1>4, <2>1, <2>2 DEF SignalsSound
<1>6. CASE /\ wire' = [Set(wire, p, Tail(wire[p])) EXCEPT ![q] = Append(@, e)]
           /\ batch' = batch
  <2>1. /\ Set(wire, p, Tail(wire[p])) \in [Peers -> Seq(Signals)]
        /\ \A r \in Peers :
             Set(wire, p, Tail(wire[p]))[r] = IF r = p THEN Tail(wire[p]) ELSE wire[r]
    BY <1>2 DEF Set, SignalsSound
  <2>2. /\ wire' \in [Peers -> Seq(Signals)]
        /\ \A r \in Peers : wire'[r] = IF r = p THEN Tail(wire[p])
                                       ELSE IF r = q THEN Append(wire[q], e) ELSE wire[r]
    BY <1>4, <1>6, <2>1
  <2> QED
    BY <1>1, <1>2, <1>4, <1>6, <2>2 DEF SignalsSound
<1> QED
  BY <1>5, <1>6 DEF e

\* The first signal of a provider makes a bridge start its probe.
LEMMA HandleSignalKeeps ==
  ASSUME Inv, NEW p \in Peers, HandleSignalMessage(p)
  PROVE  Inv' /\ Growing
<1> DEFINE q == Other(p)
           s == Head(wire[p])
<1>1. /\ wire[p] # <<>>
      /\ UNCHANGED <<pipe, bound, obfuscated, gathering, negotiated>>
  BY DEF HandleSignalMessage
<1>2. q \in Peers /\ q # p /\ Other(q) = p /\ \A r \in Peers : r = p \/ r = q
  BY OtherPeer
<1>3. s \in Sound(p)
  BY <1>1, HeadTailProperties DEF Inv, SignalsSound
<1>4. \/ /\ s.type # "error" /\ provider[q] = "none" /\ BridgeWith(q, PickBestProviderType(q))
         /\ HandleChurnSignal(q, s)
         /\ wire' = Set(wire, p, Tail(wire[p])) /\ batch' = batch
      \/ /\ HandleChurnSignal(q, s)
         /\ wire' = Set(wire, p, Tail(wire[p])) /\ batch' = batch
         /\ UNCHANGED <<provider, probe, candidates, timedOut>>
      \/ /\ s.type = "error" \/ provider[q] \notin {"none", provider[p]}
         /\ \/ /\ wire' = Set(wire, p, Tail(wire[p]))
               /\ batched /\ batch' = Set(batch, q, Append(batch[q], Signal("error", Nobody)))
            \/ /\ wire' = [Set(wire, p, Tail(wire[p])) EXCEPT
                             ![q] = Append(@, Signal("error", Nobody))]
               /\ batch' = batch
         /\ UNCHANGED <<provider, probe, candidates, timedOut, config>>
  BY DEF HandleSignalMessage, probeVars
<1>8. batched' = batched
  BY DEF HandleSignalMessage
<1>9. s.type = "error" \/ provider[q] \notin {"none", provider[p]} => negotiated = Peers
  <2>1. CASE s.type = "error"
    BY <1>3, <2>1 DEF Sound
  <2>2. CASE s.type # "error" /\ provider[q] \notin {"none", provider[p]}
    <3>1. provider[p] # "none"
      BY <1>3, <2>2 DEF Sound
    <3>2. p \in negotiated /\ q \in negotiated
      BY <1>2, <2>2, <3>1 DEF Inv, Follows
    <3>3. negotiated \subseteq Peers /\ Peers \subseteq negotiated
      BY <1>2, <3>2 DEF Inv, Typed
    <3> QED
      BY <3>3
  <2> QED
    BY <2>1, <2>2
<1>5. HandleChurnSignal(q, s) => config' \in [Peers -> negotiated' \cup {Nobody}]
  <2>1. s.type = "caesar" => s.of \in negotiated
    BY <1>3 DEF Sound
  <2>2. HandleChurnSignal(q, s) =>
          config' = config \/ (s.type = "caesar" /\ HaveTransformerConfig(q, s.of))
    BY DEF HandleChurnSignal
  <2>3. s.type = "caesar" /\ HaveTransformerConfig(q, s.of)
          => config' = config \/ config' = [config EXCEPT ![q] = s.of]
    BY DEF HaveTransformerConfig, Set
  <2> QED
    BY <1>1, <1>2, <2>1, <2>2, <2>3 DEF Inv, Typed
<1> HIDE DEF q, s
<1>6. CASE /\ s.type # "error" /\ provider[q] = "none" /\ BridgeWith(q, PickBestProviderType(q))
           /\ HandleChurnSignal(q, s)
           /\ wire' = Set(wire, p, Tail(wire[p])) /\ batch' = batch
  <2>1. provider[p] # "none" /\ provider[p] \in Types
    BY <1>3, <1>6 DEF Sound, Inv, Typed
  <2>2. /\ provider' = [provider EXCEPT ![q] = provider[p]]
        /\ probe' = [probe EXCEPT ![q] = "gathering"]
        /\ UNCHANGED <<candidates, timedOut>>
    BY <1>2, <1>6 DEF BridgeWith, PickBestProviderType, Set
  <2>3. Typed'
    BY <1>1, <1>2, <1>5, <1>6, <2>1, <2>2 DEF Inv, Typed
  <2>4. Growing
    BY <1>1, <1>2, <1>6, <1>8, <2>1, <2>2 DEF Inv, Typed, Growing
  <2>5. SignalsSound'
    BY <1>1, <1>6, <2>4, TakeKeeps DEF Inv
  <2>6. Stage(q)'
    <3>1. pipe[q] = "none"
      BY <1>2, <1>6 DEF Inv, Stages, Stage
    <3>2. provider'[q] = provider[p] /\ probe'[q] = "gathering" /\ pipe'[q] = "none"
      BY <1>1, <1>2, <2>2, <3>1 DEF Inv, Typed
    <3>3. /\ obfuscated'[q] = "waiting" /\ gathering'[q] = "none"
          /\ batched' = batched /\ (~batched => batch'[q] = <<>>)
      BY <1>1, <1>2, <1>6, <1>8 DEF Inv, Stages, Stage
    <3> QED
      BY <2>1, <3>2, <3>3 DEF Stage, Answerer
  <2>7. provider'[q] = provider[Other(q)]
    BY <1>2, <2>2 DEF Inv, Typed
  <2> QED
    BY <1>1, <1>2, <1>6, <2>7, <2>2, <2>3, <2>4, <2>5, <2>6, PeerKeeps DEF Inv, Typed
<1>7. CASE UNCHANGED <<provider, probe, candidates, timedOut>>
  <2>1. config' \in [Peers -> negotiated' \cup {Nobody}]
    BY <1>1, <1>4, <1>5, <1>7 DEF Inv, Typed
  <2>2. Typed' /\ Growing
    BY <1>1, <1>7, <1>8, <2>1 DEF Inv, Typed, Growing
  <2>3. SignalsSound'
    BY <1>1, <1>2, <1>4, <1>9, <2>2, TakeKeeps, ErrorKeeps DEF Inv
  <2>4. /\ \A r \in Peers \ {q} : batch'[r] = batch[r]
        /\ q \notin negotiated \/ ~batched => batch' = batch
    BY <1>2, <1>4, <1>9 DEF Inv, SignalsSound, Set
  <2>5. Stage(q)'
    BY <1>1, <1>2, <1>7, <1>8, <2>4 DEF Inv, Stages, Stage, Answerer
  <2> QED
    BY <1>1, <1>2, <1>7, <2>2, <2>3, <2>4, <2>5, PeerKeeps DEF Inv, Typed
<1> QED
  BY <1>4, <1>6, <1>7

-----------------------------------------------------------------------------
(* The invariant *)

LEMMA InvInit == Init => Inv
<1> SUFFICES ASSUME Init PROVE Inv
  OBVIOUS
<1>1. /\ provider = [p \in Peers |-> "none"] /\ probe = [p \in Peers |-> "none"]
      /\ candidates = [p \in Peers |-> <<>>] /\ timedOut = [p \in Peers |-> FALSE]
      /\ config = [p \in Peers |-> Nobody] /\ pipe = [p \in Peers |-> "none"]
      /\ bound = [p \in Peers |-> {}] /\ obfuscated = [p \in Peers |-> "waiting"]
      /\ gathering = [p \in Peers |-> "none"] /\ negotiated = {}
      /\ batch = [p \in Peers |-> <<>>] /\ wire = [p \in Peers |-> <<>>]
  BY DEF Init, BridgeInit, ChurnInit, All
<1>2. Typed
  BY <1>1 DEF Typed, Obfuscated
<1>3. SignalsSound
  BY <1>1, EmptySeq DEF SignalsSound
<1>4. Stages
  BY <1>1 DEF Stages, Stage, Answerer
<1>5. Follows
  BY <1>1 DEF Follows
<1> QED
  BY <1>2, <1>3, <1>4, <1>5 DEF Inv

LEMMA InvStep == Inv /\ [Next]_vars => Inv' /\ Growing
<1> SUFFICES ASSUME Inv, [Next]_vars PROVE Inv' /\ Growing
  OBVIOUS
<1>1. ASSUME NEW p \in Peers, NegotiateConnection(p) PROVE Inv' /\ Growing
  BY <1>1, NegotiateKeeps
<1>2. ASSUME NEW p \in Peers, Close(p) \/ CloseAfter(p) PROVE Inv' /\ Growing
  BY <1>2, CloseBridgeKeeps DEF Close, CloseAfter
<1>3. ASSUME NEW p \in Peers, NEW c \in Kinds, ProbeFinds(p, c) PROVE Inv' /\ Growing
  BY <1>3, ProbeFindsKeeps
<1>4. ASSUME NEW p \in Peers, PipeStep(p) \/ SetTransformerFails(p) PROVE Inv' /\ Growing
  BY <1>4, ProbingCompletesKeeps, ConfigurePipeKeeps, ProcessKeeps, QuietKeeps DEF PipeStep
<1>5. ASSUME NEW p \in Peers, ObfuscatedStep(p) PROVE Inv' /\ Growing
  BY <1>5, DescribeKeeps, GathersKeeps, QuietKeeps DEF ObfuscatedStep
<1>6. ASSUME NEW p \in Peers, HandleSignalMessage(p) PROVE Inv' /\ Growing
  BY <1>6, HandleSignalKeeps
<1>7. CASE Connected
  BY <1>7, ConnectedKeeps
<1>8. CASE UNCHANGED vars
  <2>1. UNCHANGED <<provider, probe, timedOut, candidates, config, pipe, bound, obfuscated,
                    gathering, wire, batch, batched, negotiated>>
    BY <1>8 DEF vars, bridgeVars, probeVars, pipeVars, signalVars
  <2>2. Typed' /\ Growing
    BY <2>1 DEF Inv, Typed, Growing
  <2>3. SignalsSound'
    BY <2>1, <2>2, SignalsSame DEF Inv
  <2> QED
    BY <2>1, <2>2, <2>3 DEF Inv, Stages, Stage, Answerer, Follows
<1> QED
  BY <1>1, <1>2, <1>3, <1>4, <1>5, <1>6, <1>7, <1>8 DEF Next

\* Whatever the order of the two connections' candidates, descriptions and timers,
\* and whoever negotiates: a pipe that is ready has the port of every candidate the
\* peer is told of, and it transforms as a peer has chosen that negotiated.
THEOREM PipesFit == Spec => []PipesAgree
<1>1. Inv => PipesAgree
  BY DEF Inv, Typed, Stages, Stage, PipesAgree, AdvertisedIsBound, OneConfig
<1> QED
  BY <1>1, InvInit, InvStep, PTL DEF Spec

-----------------------------------------------------------------------------
(* Types *)

Descriptions == {"OFFER", "ANSWER"}

\* The types that nothing above has needed.
Promises ==
  /\ onceConnected \in [Peers -> {"pending", "fulfilled", "rejected"}]
  /\ onceClosed \in [Peers -> BOOLEAN]

Heard ==
  /\ descriptions \in [Peers -> Seq(Descriptions)] /\ given \in [Peers -> Nat]
  /\ \A p \in Peers : given[p] <= Len(descriptions[p])

Rest ==
  /\ Promises /\ released \in [Peers -> BOOLEAN]
  /\ \A p \in Peers : IsInjective(candidates[p])
  /\ bound \in [Peers -> SUBSET {"host", "public"}]
  /\ remoteCandidates \in [Peers -> SUBSET Kinds] /\ mirrors \in [Peers -> SUBSET Kinds]
  /\ Heard
  /\ batched \in BOOLEAN /\ events \in 0..MaxEvents

LEMMA RestInit == Init => Rest
<1> SUFFICES ASSUME Init PROVE Rest
  OBVIOUS
<1>1. /\ onceConnected = [p \in Peers |-> "pending"] /\ onceClosed = [p \in Peers |-> FALSE]
      /\ released = [p \in Peers |-> FALSE]
      /\ candidates = [p \in Peers |-> <<>>] /\ bound = [p \in Peers |-> {}]
      /\ remoteCandidates = [p \in Peers |-> {}] /\ mirrors = [p \in Peers |-> {}]
      /\ descriptions = [p \in Peers |-> <<>>] /\ given = [p \in Peers |-> 0]
  BY DEF Init, BridgeInit, ChurnInit, All
<1>2. batched \in BOOLEAN /\ events \in 0..MaxEvents
  BY ChurnAssumption DEF Init
<1>3. \A p \in Peers : IsInjective(candidates[p])
  BY <1>1 DEF IsInjective
<1>4. Heard
  BY <1>1, EmptySeq DEF Heard
<1> QED
  BY <1>1, <1>2, <1>3, <1>4 DEF Rest, Promises

\* A candidate that has not been found yet.
LEMMA InjectiveGrows ==
  ASSUME NEW s \in Seq(Kinds), NEW c \in Kinds, IsInjective(s), c \notin Range(s)
  PROVE  IsInjective(Append(s, c))
<1>1. /\ Len(s) \in Nat /\ DOMAIN s = 1..Len(s) /\ Append(s, c) \in Seq(Kinds)
      /\ Len(Append(s, c)) = Len(s) + 1
      /\ \A i \in 1..Len(s) : Append(s, c)[i] = s[i]
      /\ Append(s, c)[Len(s) + 1] = c
  BY LenProperties, AppendProperties
<1>2. DOMAIN Append(s, c) = 1..(Len(s) + 1)
  BY <1>1, LenProperties
<1>3. \A i \in 1..Len(s) : s[i] # c
  BY <1>1 DEF Range
<1>4. ASSUME NEW i \in 1..(Len(s) + 1), NEW j \in 1..(Len(s) + 1),
             Append(s, c)[i] = Append(s, c)[j]
      PROVE  i = j
  <2>1. i \in 1..Len(s) \/ i = Len(s) + 1
    BY <1>1
  <2>2. j \in 1..Len(s) \/ j = Len(s) + 1
    BY <1>1
  <2>3. i \in 1..Len(s) /\ j \in 1..Len(s) => i = j
    BY <1>1, <1>4 DEF IsInjective
  <2> QED
    BY <1>1, <1>3, <1>4, <2>1, <2>2, <2>3
<1> QED
  BY <1>2, <1>4 DEF IsInjective

\* What is counted stays within its bound.
LEMMA CountKeeps ==
  ASSUME events \in 0..MaxEvents, Count \/ UNCHANGED events
  PROVE  events' \in 0..MaxEvents
  BY ChurnAssumption DEF Count

LEMMA RejectKeeps ==
  ASSUME Promises, NEW p \in Peers
  PROVE  Reject(p) \in [Peers -> {"pending", "fulfilled", "rejected"}]
  BY DEF Promises, Reject, Set

LEMMA EndKeepsPromises ==
  ASSUME Promises, NEW p \in Peers, EndObfuscated(p)
  PROVE  Promises'
<1>1. onceConnected' = onceConnected \/ onceConnected' = Reject(p)
  BY DEF EndObfuscated
<1>2. onceClosed' = [onceClosed EXCEPT ![p] = TRUE]
  BY DEF EndObfuscated, Set
<1> QED
  BY <1>1, <1>2, RejectKeeps DEF Promises

LEMMA RestStep ==
  ASSUME Inv, Rest, [Next]_vars
  PROVE  Rest'
<1> DEFINE others == <<promiseVars, released, candidates, bound, remoteCandidates, mirrors,
                       descriptions, given>>
<1>1. batched' \in BOOLEAN
  BY InvStep DEF Growing, Rest
<1>2. ASSUME Count \/ UNCHANGED events PROVE events' \in 0..MaxEvents
  BY <1>2, CountKeeps DEF Rest
<1>3. CASE UNCHANGED vars
  BY <1>1, <1>2, <1>3 DEF vars, bridgeVars, promiseVars, probeVars, pipeVars, remoteVars, Rest,
     Promises, Heard
<1>4. ASSUME NEW p \in Peers,
             \/ NegotiateConnection(p) \/ SetTransformerFails(p) \/ ProbingCompletes(p)
             \/ ConfigurePipe(p) \/ OfferCreated(p) \/ AnswerCreated(p) \/ Gathers(p)
      PROVE  Rest'
  <2>1. UNCHANGED others
    <3>1. CASE NegotiateConnection(p)
      BY <3>1 DEF NegotiateConnection, BridgeWith, remoteVars
    <3>2. CASE \/ SetTransformerFails(p) \/ ProbingCompletes(p) \/ ConfigurePipe(p)
      BY <3>2 DEF SetTransformerFails, ProbingCompletes, ConfigurePipe, bridgeVars, probeVars,
         pipeVars, remoteVars
    <3>3. CASE OfferCreated(p) \/ AnswerCreated(p) \/ Gathers(p)
      BY <3>3 DEF OfferCreated, AnswerCreated, Gathers, Describe, bridgeVars, probeVars,
         pipeVars, remoteVars
    <3> QED
      BY <1>4, <3>1, <3>2, <3>3
  <2>2. Count \/ UNCHANGED events
    BY <1>4 DEF NegotiateConnection, SetTransformerFails, ProbingCompletes, ConfigurePipe,
       OfferCreated, AnswerCreated, Gathers, Describe
  <2> QED
    BY <1>1, <1>2, <2>1, <2>2 DEF Rest, Promises, Heard, promiseVars
<1>5. ASSUME NEW p \in Peers, Close(p) \/ CloseAfter(p) PROVE Rest'
  <2>1. CloseBridge(p) /\ (Count \/ UNCHANGED events)
    BY <1>5 DEF Close, CloseAfter
  <2>2. /\ UNCHANGED <<candidates, bound, remoteCandidates, mirrors, descriptions, given>>
        /\ released' = [released EXCEPT ![p] = TRUE]
    BY <2>1 DEF CloseBridge, probeVars, remoteVars, Set
  <2>3. Promises'
    BY <2>1, EndKeepsPromises, RejectKeeps DEF CloseBridge, CloseProvider, Rest, Promises, Set
  <2> QED
    BY <1>1, <1>2, <2>1, <2>2, <2>3 DEF Rest, Heard
<1>6. ASSUME NEW p \in Peers, NEW c \in Kinds, ProbeFinds(p, c) PROVE Rest'
  <2>1. /\ UNCHANGED <<promiseVars, released, bound, remoteCandidates, mirrors, descriptions,
                       given, events>>
        /\ c \notin Range(candidates[p])
        /\ candidates' = [candidates EXCEPT ![p] = Append(candidates[p], c)]
    BY <1>6 DEF ProbeFinds, Set, bridgeVars, pipeVars, remoteVars
  <2>2. candidates[p] \in Seq(Kinds) /\ candidates \in [Peers -> Seq(Kinds)]
    BY DEF Inv, Typed
  <2>3. IsInjective(Append(candidates[p], c))
    BY <2>1, <2>2, InjectiveGrows DEF Rest
  <2>4. ASSUME NEW q \in Peers PROVE IsInjective(candidates'[q])
    <3>1. candidates'[q] = IF q = p THEN Append(candidates[p], c) ELSE candidates[q]
      BY <2>1, <2>2
    <3>2. CASE q = p
      BY <2>3, <3>1, <3>2
    <3>3. CASE q # p
      BY <3>1, <3>3 DEF Rest
    <3> QED
      BY <3>2, <3>3
  <2> QED
    BY <1>1, <1>2, <2>1, <2>4 DEF Rest, Promises, Heard, promiseVars
<1>7. ASSUME NEW p \in Peers, ProcessProbeCandidates(p) PROVE Rest'
  <2>1. /\ UNCHANGED <<promiseVars, released, candidates, remoteCandidates, mirrors,
                       descriptions, given, events>>
        /\ bound' = [bound EXCEPT ![p] = {LocalEndpoint(c) : c \in Range(candidates[p])}]
    BY <1>7 DEF ProcessProbeCandidates, Set, bridgeVars, probeVars, remoteVars
  <2>5. Range(candidates[p]) \subseteq Kinds
    BY LenProperties, ElementOfSeq DEF Range, Inv, Typed
  <2>2. Range(candidates[p]) \subseteq {"host", "srflx", "public"}
    BY <2>5, ChurnAssumption
  <2>3. {LocalEndpoint(c) : c \in Range(candidates[p])} \subseteq {"host", "public"}
    BY <2>2 DEF LocalEndpoint
  <2>4. bound' \in [Peers -> SUBSET {"host", "public"}]
    BY <2>1, <2>3 DEF Rest
  <2> QED
    BY <1>1, <1>2, <2>1, <2>4 DEF Rest, Promises, Heard, promiseVars
<1>8. ASSUME NEW p \in Peers, NEW c \in Kinds, MappingAdded(p, c) PROVE Rest'
  <2>1. /\ UNCHANGED <<promiseVars, released, candidates, bound, remoteCandidates,
                       descriptions, given, events>>
        /\ mirrors' = [mirrors EXCEPT ![p] = @ \cup {c}]
    BY <1>8 DEF MappingAdded, bridgeVars, probeVars, pipeVars
  <2>2. mirrors' \in [Peers -> SUBSET Kinds]
    BY <2>1 DEF Rest
  <2> QED
    BY <1>1, <1>2, <2>1, <2>2 DEF Rest, Promises, Heard, promiseVars
<1>9. ASSUME NEW p \in Peers, GiveDescription(p) PROVE Rest'
  <2>1. /\ UNCHANGED <<released, candidates, bound, remoteCandidates, mirrors, descriptions,
                       events>>
        /\ given[p] < Len(descriptions[p]) /\ given' = [given EXCEPT ![p] = given[p] + 1]
        /\ HandleOffer(p) \/ HandleAnswer(p)
    BY <1>9 DEF GiveDescription, HandleDescription, Set, probeVars, pipeVars
  <2>2. Promises'
    BY <2>1, EndKeepsPromises, RejectKeeps DEF HandleOffer, HandleAnswer, Rest, Promises,
       promiseVars, Set
  <2>3. Heard'
    <3>1. \A q \in Peers : Len(descriptions[q]) \in Nat
      BY LenProperties DEF Rest, Heard
    <3> QED
      BY <2>1, <3>1 DEF Rest, Heard
  <2> QED
    BY <1>1, <1>2, <2>1, <2>2, <2>3 DEF Rest
<1>10. ASSUME NEW p \in Peers, PeerGone(p) PROVE Rest'
  <2>1. /\ UNCHANGED <<released, candidates, bound, remoteCandidates, mirrors, descriptions, given,
                       events>>
        /\ EndObfuscated(p)
    BY <1>10 DEF PeerGone, probeVars, pipeVars, remoteVars
  <2>2. Promises'
    BY <2>1, EndKeepsPromises DEF Rest
  <2> QED
    BY <1>1, <1>2, <2>1, <2>2 DEF Rest, Heard
<1>11. CASE Connected
  <2>1. /\ UNCHANGED <<onceClosed, released, candidates, bound, remoteCandidates, mirrors,
                       descriptions, given, events>>
        /\ onceConnected' = [p \in Peers |-> IF onceConnected[p] = "pending" THEN "fulfilled"
                                             ELSE onceConnected[p]]
    BY <1>11 DEF Connected, probeVars, pipeVars, remoteVars
  <2>2. Promises'
    BY <2>1 DEF Rest, Promises
  <2> QED
    BY <1>1, <1>2, <2>1, <2>2 DEF Rest, Heard
<1>12. ASSUME NEW p \in Peers, HandleSignalMessage(p) PROVE Rest'
  <2> DEFINE q == Other(p)
             s == Head(wire[p])
  <2>1. /\ UNCHANGED <<promiseVars, released, candidates, bound, events>>
        /\ HandleChurnSignal(q, s) \/ UNCHANGED remoteVars
    BY <1>12 DEF HandleSignalMessage, BridgeWith, probeVars, remoteVars
  <2>2. q \in Peers /\ s \in Signals
    <3>1. wire[p] # <<>> /\ wire[p] \in Seq(Signals)
      BY <1>12 DEF HandleSignalMessage, Inv, SignalsSound
    <3> QED
      BY <3>1, HeadTailProperties, OtherPeer
  <2> HIDE DEF q, s
  <2>3. \/ UNCHANGED <<remoteCandidates, mirrors, descriptions, given>>
        \/ /\ s.type \in {"CANDIDATE", "publicEndpoint"}
           /\ remoteCandidates' = [remoteCandidates EXCEPT ![q] = @ \cup {s.of}]
           /\ UNCHANGED <<mirrors, descriptions, given>>
        \/ /\ s.type \in Descriptions
           /\ descriptions' = [descriptions EXCEPT ![q] = Append(descriptions[q], s.type)]
           /\ UNCHANGED <<remoteCandidates, mirrors, given>>
    BY <2>1 DEF HandleChurnSignal, AddRemoteCandidate, Set, remoteVars, Descriptions
  <2>4. s.type \in {"CANDIDATE", "publicEndpoint"} => s.of \in Kinds
    BY <2>2 DEF Signals
  <2>5. remoteCandidates' \in [Peers -> SUBSET Kinds] /\ mirrors' \in [Peers -> SUBSET Kinds]
    BY <2>2, <2>3, <2>4 DEF Rest
  <2>6. ASSUME s.type \in Descriptions, given' = given,
               descriptions' = [descriptions EXCEPT ![q] = Append(descriptions[q], s.type)]
        PROVE  Heard'
    <3>1. /\ descriptions[q] \in Seq(Descriptions) /\ descriptions \in [Peers -> Seq(Descriptions)]
          /\ given \in [Peers -> Nat] /\ \A r \in Peers : given[r] <= Len(descriptions[r])
      BY <2>2 DEF Rest, Heard
    <3>2. /\ Append(descriptions[q], s.type) \in Seq(Descriptions)
          /\ Len(Append(descriptions[q], s.type)) = Len(descriptions[q]) + 1
          /\ Len(descriptions[q]) \in Nat
      BY <2>6, <3>1, AppendProperties, LenProperties
    <3>3. /\ descriptions' \in [Peers -> Seq(Descriptions)]
          /\ \A r \in Peers : descriptions'[r] = IF r = q THEN Append(descriptions[q], s.type)
                                                 ELSE descriptions[r]
      BY <2>2, <2>6, <3>1, <3>2
    <3>4. \A r \in Peers : given[r] <= Len(descriptions'[r])
      BY <2>2, <3>1, <3>2, <3>3
    <3> QED
      BY <2>6, <3>1, <3>3, <3>4 DEF Heard
  <2>7. Heard'
    BY <2>3, <2>6 DEF Rest, Heard
  <2> QED
    BY <1>1, <1>2, <2>1, <2>5, <2>7 DEF Rest, Promises, promiseVars
<1> QED
  BY <1>3, <1>4, <1>5, <1>6, <1>7, <1>8, <1>9, <1>10, <1>11, <1>12
     DEF Next, PipeStep, ObfuscatedStep

\* Every variable has its type, and no candidate is found twice.
THEOREM ChurnTyped == Spec => []TypeOK
<1>1. Inv /\ Rest => TypeOK
  <2> SUFFICES ASSUME Inv, Rest PROVE TypeOK
    OBVIOUS
  <2>1. ASSUME NEW p \in Peers PROVE Range(candidates[p]) \subseteq Kinds
    BY LenProperties, ElementOfSeq DEF Range, Inv, Typed
  <2>2. config \in [Peers -> Peers \cup {Nobody}]
    BY DEF Inv, Typed
  <2>3. ASSUME NEW p \in Peers
        PROVE  descriptions[p] \in Seq({"OFFER", "ANSWER"}) /\ given[p] \in 0..Len(descriptions[p])
    <3>1. descriptions[p] \in Seq(Descriptions) /\ given[p] \in Nat /\ given[p] <= Len(descriptions[p])
      BY DEF Rest, Heard
    <3> QED
      BY <3>1, LenProperties DEF Descriptions
  <2>4. obfuscated \in [Peers -> {"waiting", "offering", "crossing", "offered", "answering",
                                 "stable", "connected", "closed"}]
    BY DEF Inv, Typed, Obfuscated
  <2> QED
    BY <2>1, <2>2, <2>3, <2>4 DEF TypeOK, Inv, Typed, SignalsSound, Rest, Promises
<1>2. Init => Inv /\ Rest
  BY InvInit, RestInit
<1>3. (Inv /\ Rest) /\ [Next]_vars => (Inv /\ Rest)'
  BY InvStep, RestStep
<1> QED
  BY <1>1, <1>2, <1>3, PTL DEF Spec

-----------------------------------------------------------------------------
(* Candidates and descriptions *)

\* What p has sent, or will send, and its peer has not taken.
Stream(p) == wire[p] \o batch[p]

\* A candidate comes after a description.
Ordered(s) == \A i \in 1..Len(s) :
                s[i].type = "CANDIDATE" => \E j \in 1..(i - 1) : s[j].type \in Descriptions

Announced(s) == \E i \in 1..Len(s) : s[i].type \in Descriptions

\* The peer has had a description of p, or never will, as it has another provider.
Known(p) == \/ descriptions[Other(p)] # <<>>
            \/ provider[p] # "none" /\ provider[Other(p)] \notin {"none", provider[p]}

\* Until then p sends no candidate ahead of its description, which is on its way as
\* soon as it has been created.
Led(p) == Known(p) \/ (Ordered(Stream(p)) /\ (HasMid(p) => Announced(Stream(p))))

Learnt(p) == remoteCandidates[p] # {} =>
               /\ provider[Other(p)] # "none"
               /\ provider[Other(p)] = "HOLO_ICE" => descriptions[p] # <<>>

Told == (\A p \in Peers : Led(p)) /\ (\A p \in Peers : Learnt(p))

LEMMA OrderedGrows ==
  ASSUME NEW s \in Seq(Signals), NEW ss \in Seq(Signals), Ordered(s),
         Announced(s) \/ Ordered(ss)
  PROVE  Ordered(s \o ss)
<1> DEFINE t == s \o ss
<1>1. /\ t \in Seq(Signals) /\ Len(t) = Len(s) + Len(ss) /\ Len(s) \in Nat /\ Len(ss) \in Nat
      /\ \A i \in 1..Len(s) : t[i] = s[i]
      /\ \A i \in 1..Len(ss) : t[Len(s) + i] = ss[i]
  BY ConcatProperties, LenProperties
<1> HIDE DEF t
<1> SUFFICES ASSUME NEW i \in 1..Len(t), t[i].type = "CANDIDATE"
             PROVE  \E j \in 1..(i - 1) : t[j].type \in Descriptions
  BY DEF Ordered, t
<1>2. CASE i <= Len(s)
  <2>1. i \in 1..Len(s) /\ t[i] = s[i]
    BY <1>1, <1>2
  <2>2. PICK j \in 1..(i - 1) : s[j].type \in Descriptions
    BY <2>1 DEF Ordered
  <2>3. t[j] = s[j]
    BY <1>1, <2>1
  <2> QED
    BY <2>2, <2>3
<1>3. CASE i > Len(s)
  <2> DEFINE k == i - Len(s)
  <2>1. k \in 1..Len(ss) /\ t[i] = ss[k] /\ i = Len(s) + k
    BY <1>1, <1>3
  <2>2. CASE Announced(s)
    <3>1. PICK j \in 1..Len(s) : s[j].type \in Descriptions
      BY <2>2 DEF Announced
    <3>2. t[j] = s[j] /\ j \in 1..(i - 1)
      BY <1>1, <1>3
    <3> QED
      BY <3>1, <3>2
  <2>3. CASE Ordered(ss)
    <3>1. PICK j \in 1..(k - 1) : ss[j].type \in Descriptions
      BY <2>1, <2>3 DEF Ordered
    <3>2. j \in 1..Len(ss) /\ Len(s) + j \in 1..(i - 1)
      BY <1>1, <2>1
    <3>3. t[Len(s) + j] = ss[j]
      BY <1>1, <3>2
    <3> QED
      BY <3>1, <3>2, <3>3
  <2> QED
    BY <2>2, <2>3
<1> QED
  BY <1>1, <1>2, <1>3

LEMMA AnnouncedGrows ==
  ASSUME NEW s \in Seq(Signals), NEW ss \in Seq(Signals), Announced(s) \/ Announced(ss)
  PROVE  Announced(s \o ss)
<1>1. /\ Len(s \o ss) = Len(s) + Len(ss) /\ Len(s) \in Nat /\ Len(ss) \in Nat
      /\ \A i \in 1..Len(s) : (s \o ss)[i] = s[i]
      /\ \A i \in 1..Len(ss) : (s \o ss)[Len(s) + i] = ss[i]
  BY ConcatProperties, LenProperties
<1>2. CASE Announced(s)
  <2>1. PICK i \in 1..Len(s) : s[i].type \in Descriptions
    BY <1>2 DEF Announced
  <2> QED
    BY <1>1, <2>1 DEF Announced
<1>3. CASE Announced(ss)
  <2>1. PICK i \in 1..Len(ss) : ss[i].type \in Descriptions
    BY <1>3 DEF Announced
  <2>2. Len(s) + i \in 1..(Len(s) + Len(ss)) /\ (s \o ss)[Len(s) + i] = ss[i]
    BY <1>1
  <2> QED
    BY <1>1, <2>1, <2>2 DEF Announced
<1> QED
  BY <1>2, <1>3

\* What is taken from the front is a description, or what is left is as before.
LEMMA TailOrdered ==
  ASSUME NEW s \in Seq(Signals), s # <<>>, Ordered(s), Head(s).type \notin Descriptions
  PROVE  /\ Head(s).type # "CANDIDATE" /\ Ordered(Tail(s))
         /\ Announced(s) => Announced(Tail(s))
<1> DEFINE t == Tail(s)
<1>1. /\ Len(s) \in Nat /\ Len(s) >= 1 /\ Len(t) = Len(s) - 1
      /\ \A i \in 1..Len(t) : t[i] = s[i + 1]
      /\ s[1].type \notin Descriptions /\ Head(s) = s[1]
  BY LenProperties, EmptySeq, HeadTailProperties
<1> HIDE DEF t
<1>2. \A j \in 1..Len(s) :
        s[j].type \in Descriptions => j - 1 \in 1..Len(t) /\ t[j - 1] = s[j]
  BY <1>1
<1>3. s[1].type # "CANDIDATE"
  BY <1>1 DEF Ordered
<1>4. Ordered(t)
  <2> SUFFICES ASSUME NEW i \in 1..Len(t), t[i].type = "CANDIDATE"
               PROVE  \E j \in 1..(i - 1) : t[j].type \in Descriptions
    BY DEF Ordered
  <2>1. i + 1 \in 1..Len(s) /\ t[i] = s[i + 1]
    BY <1>1
  <2>2. PICK j \in 1..((i + 1) - 1) : s[j].type \in Descriptions
    BY <2>1 DEF Ordered
  <2>3. j \in 1..Len(s)
    BY <1>1, <2>1
  <2>4. j - 1 \in 1..(i - 1) /\ t[j - 1] = s[j]
    BY <1>1, <1>2, <2>2, <2>3
  <2> QED
    BY <2>2, <2>4
<1>5. Announced(s) => Announced(t)
  <2> SUFFICES ASSUME NEW j \in 1..Len(s), s[j].type \in Descriptions PROVE Announced(t)
    BY DEF Announced
  <2> QED
    BY <1>2 DEF Announced
<1> QED
  BY <1>1, <1>3, <1>4, <1>5 DEF t

LEMMA StreamIsSeq ==
  ASSUME Inv, NEW p \in Peers
  PROVE  /\ wire[p] \in Seq(Signals) /\ batch[p] \in Seq(Signals) /\ Stream(p) \in Seq(Signals)
         /\ ~batched => Stream(p) = wire[p]
<1>1. wire[p] \in Seq(Signals) /\ batch[p] \in Seq(Signals) /\ (~batched => batch[p] = <<>>)
  BY DEF Inv, SignalsSound, Stages, Stage
<1> QED
  BY <1>1, ConcatProperties, ConcatEmptySeq DEF Stream

LEMMA KnownGrows ==
  ASSUME Growing, NEW p \in Peers,
         descriptions[Other(p)] # <<>> => descriptions'[Other(p)] # <<>>
  PROVE  Known(p) => Known(p)'
<1>1. /\ Other(p) \in Peers
      /\ provider[p] # "none" => provider'[p] = provider[p]
      /\ provider[Other(p)] # "none" => provider'[Other(p)] = provider[Other(p)]
  BY OtherPeer DEF Growing
<1> QED
  BY <1>1 DEF Known

\* A stream that grows by ss.
LEMMA LedKeeps ==
  ASSUME Inv, Growing, NEW p \in Peers, Led(p), NEW ss \in Seq(Signals),
         Stream(p)' = Stream(p) \o ss,
         HasMid(p) \/ Ordered(ss), HasMid(p)' => HasMid(p) \/ Announced(ss),
         descriptions[Other(p)] # <<>> => descriptions'[Other(p)] # <<>>
  PROVE  Led(p)'
<1>1. Stream(p) \in Seq(Signals)
  BY StreamIsSeq
<1>2. CASE Known(p)
  BY <1>2, KnownGrows DEF Led
<1>3. CASE Ordered(Stream(p)) /\ (HasMid(p) => Announced(Stream(p)))
  <2>1. Ordered(Stream(p) \o ss)
    BY <1>1, <1>3, OrderedGrows
  <2>2. HasMid(p)' => Announced(Stream(p) \o ss)
    BY <1>1, <1>3, AnnouncedGrows
  <2>3. Ordered(Stream(p)') /\ (HasMid(p)' => Announced(Stream(p)'))
    BY <2>1, <2>2
  <2> QED
    BY <2>3 DEF Led
<1> QED
  BY <1>2, <1>3 DEF Led

\* What nobody has been told of keeps: nobody forgets a provider or a description.
LEMMA LearntKeeps ==
  ASSUME Growing, NEW p \in Peers, Learnt(p), remoteCandidates'[p] = remoteCandidates[p],
         descriptions[p] # <<>> => descriptions'[p] # <<>>
  PROVE  Learnt(p)'
<1>1. provider[Other(p)] # "none" => provider'[Other(p)] = provider[Other(p)]
  BY OtherPeer DEF Growing
<1> QED
  BY <1>1 DEF Learnt

\* A step of p that says ss.
Says(p, ss) ==
  /\ Stream(p)' = Stream(p) \o ss
  /\ \A q \in Peers \ {p} : Stream(q)' = Stream(q) /\ gathering'[q] = gathering[q]
  /\ HasMid(p) \/ Ordered(ss)
  /\ HasMid(p)' => HasMid(p) \/ Announced(ss)

LEMMA SaysKeeps ==
  ASSUME Inv, Told, Growing, NEW p \in Peers, NEW ss \in Seq(Signals), Says(p, ss),
         UNCHANGED <<remoteCandidates, descriptions>>
  PROVE  Told'
<1>1. ASSUME NEW q \in Peers PROVE Learnt(q)'
  BY LearntKeeps DEF Told
<1>2. Led(p)'
  BY LedKeeps DEF Told, Says
<1>3. ASSUME NEW q \in Peers \ {p} PROVE Led(q)'
  <2>1. Known(q) => Known(q)'
    BY KnownGrows
  <2>2. Stream(q)' = Stream(q) /\ HasMid(q)' = HasMid(q) /\ Led(q)
    BY DEF Says, HasMid, Told
  <2> QED
    BY <2>1, <2>2 DEF Led
<1> QED
  BY <1>1, <1>2, <1>3 DEF Told

LEMMA SignalsJoin ==
  ASSUME NEW s \in Seq(Signals), NEW t \in Seq(Signals), NEW u \in Seq(Signals)
  PROVE  s \o (t \o u) = (s \o t) \o u
  BY ConcatAssociative

LEMMA EmitSays ==
  ASSUME Inv, NEW p \in Peers, NEW ss \in Seq(Signals), Emit(p, ss)
  PROVE  Stream(p)' = Stream(p) \o ss /\ \A q \in Peers \ {p} : Stream(q)' = Stream(q)
<1>1. /\ wire[p] \in Seq(Signals) /\ batch[p] \in Seq(Signals)
      /\ ~batched => batch[p] = <<>>
  BY DEF Inv, SignalsSound, Stages, Stage
<1>2. wire \in [Peers -> Seq(Signals)] /\ batch \in [Peers -> Seq(Signals)]
  BY DEF Inv, SignalsSound
<1>3. \A q \in Peers \ {p} : wire'[q] = wire[q] /\ batch'[q] = batch[q]
  BY <1>2 DEF Emit, Set
<1>4. CASE batched
  <2>1. wire'[p] = wire[p] /\ batch'[p] = batch[p] \o ss
    BY <1>2, <1>4 DEF Emit, Set
  <2>2. wire[p] \o (batch[p] \o ss) = (wire[p] \o batch[p]) \o ss
    BY <1>1, SignalsJoin
  <2> QED
    BY <1>3, <2>1, <2>2 DEF Stream
<1>5. CASE ~batched
  <2>1. wire'[p] = wire[p] \o ss /\ batch'[p] = <<>> /\ batch[p] = <<>>
    BY <1>1, <1>2, <1>5 DEF Emit, Set
  <2>2. wire[p] \o ss \in Seq(Signals)
    BY <1>1, ConcatProperties
  <2>3. (wire[p] \o ss) \o <<>> = wire[p] \o ss /\ wire[p] \o <<>> = wire[p]
    BY <1>1, <2>2, ConcatEmptySeq
  <2>4. Stream(p)' = (wire[p] \o ss) \o <<>> /\ Stream(p) = wire[p] \o <<>>
    BY <2>1 DEF Stream
  <2> QED
    BY <1>3, <2>3, <2>4 DEF Stream
<1> QED
  BY <1>4, <1>5

\* The end of the candidates is nothing but the end of a batch.
LEMMA EmitLastSays ==
  ASSUME Inv, NEW p \in Peers, EmitLast(p, Signal("NO_MORE_CANDIDATES", Nobody))
  PROVE  /\ \E ss \in {<<>>, <<Signal("NO_MORE_CANDIDATES", Nobody)>>} :
              Stream(p)' = Stream(p) \o ss
         /\ \A q \in Peers \ {p} : Stream(q)' = Stream(q)
<1> DEFINE s == Signal("NO_MORE_CANDIDATES", Nobody)
<1>1. /\ wire[p] \in Seq(Signals) /\ batch[p] \in Seq(Signals)
      /\ ~batched => batch[p] = <<>>
  BY DEF Inv, SignalsSound, Stages, Stage
<1>2. wire \in [Peers -> Seq(Signals)] /\ batch \in [Peers -> Seq(Signals)]
  BY DEF Inv, SignalsSound
<1>3. \A q \in Peers \ {p} : wire'[q] = wire[q] /\ batch'[q] = batch[q]
  BY <1>2 DEF EmitLast, AddToBatch, Set
<1>4. CASE batched
  <2>1. wire'[p] = wire[p] \o batch[p] /\ batch'[p] = <<>>
    BY <1>2, <1>4 DEF EmitLast, AddToBatch, Set, IsTerminatingSignal, Signal
  <2>2. Stream(p)' = Stream(p) \o <<>>
    BY <2>1 DEF Stream
  <2> QED
    BY <1>3, <2>2 DEF Stream
<1>5. CASE ~batched
  <2>1. s \in Signals
    BY DEF Signal, Signals
  <2>2. Append(wire[p], s) = wire[p] \o <<s>> /\ wire[p] \o <<s>> \in Seq(Signals)
    <3>1. <<s>> \in Seq(Signals)
      BY <2>1
    <3> QED
      BY <1>1, <2>1, <3>1, AppendIsConcat, ConcatProperties
  <2>3. wire'[p] = wire[p] \o <<s>> /\ batch'[p] = <<>> /\ batch[p] = <<>>
    BY <1>1, <1>2, <1>5, <2>2 DEF EmitLast, Set
  <2>4. (wire[p] \o <<s>>) \o <<>> = wire[p] \o <<s>> /\ wire[p] \o <<>> = wire[p]
    BY <1>1, <2>2, ConcatEmptySeq
  <2>5. Stream(p)' = (wire[p] \o <<s>>) \o <<>> /\ Stream(p) = wire[p] \o <<>>
    BY <2>3 DEF Stream
  <2> QED
    BY <1>3, <2>4, <2>5 DEF Stream
<1> QED
  BY <1>4, <1>5

\* Signals that are no candidates are in order, after which others may come.
LEMMA PlainOrdered ==
  ASSUME NEW s \in Signals
  PROVE  /\ <<s>> \in Seq(Signals) /\ (s.type # "CANDIDATE" => Ordered(<<s>>))
         /\ s.type \in Descriptions => Announced(<<s>>)
<1>1. <<s>> \in Seq(Signals) /\ Len(<<s>>) = 1 /\ <<s>>[1] = s
  OBVIOUS
<1> QED
  BY <1>1 DEF Ordered, Announced, Descriptions

LEMMA EmptyOrdered == <<>> \in Seq(Signals) /\ Ordered(<<>>)
  BY EmptySeq DEF Ordered

\* The steps that say nothing, and those that say one plain signal.
LEMMA QuietTells ==
  ASSUME Inv, Told, Growing, UNCHANGED <<wire, batch, gathering, remoteCandidates>>,
         \A p \in Peers : descriptions[p] # <<>> => descriptions'[p] # <<>>
  PROVE  Told'
<1>1. ASSUME NEW p \in Peers PROVE Learnt(p)'
  BY LearntKeeps DEF Told
<1>2. ASSUME NEW p \in Peers PROVE Led(p)'
  <2>1. Known(p) => Known(p)'
    BY KnownGrows, OtherPeer
  <2>2. Stream(p)' = Stream(p) /\ HasMid(p)' = HasMid(p) /\ Led(p)
    BY DEF Told, Stream, HasMid
  <2> QED
    BY <2>1, <2>2 DEF Led
<1> QED
  BY <1>1, <1>2 DEF Told

LEMMA PlainTells ==
  ASSUME Inv, Told, Growing, NEW p \in Peers, NEW s \in Signals, s.type # "CANDIDATE",
         Emit(p, <<s>>), UNCHANGED <<gathering, remoteCandidates, descriptions>>
  PROVE  Told'
<1>1. <<s>> \in Seq(Signals) /\ Ordered(<<s>>)
  BY PlainOrdered
<1>2. HasMid(p)' = HasMid(p)
  BY DEF HasMid
<1>3. Says(p, <<s>>)
  BY <1>1, <1>2, EmitSays DEF Says
<1> QED
  BY <1>1, <1>3, SaysKeeps

\* Candidates are in order after a description, their own or an earlier one.
LEMMA CandidatesFollow ==
  ASSUME NEW s \in Signals, s.type \in Descriptions, NEW cs \in Seq(Kinds)
  PROVE  LET ss == <<s>> \o CandidateSignals(cs)
         IN  ss \in Seq(Signals) /\ Ordered(ss) /\ Announced(ss)
<1> DEFINE ss == <<s>> \o CandidateSignals(cs)
<1>1. CandidateSignals(cs) \in Seq(Signals)
  <2>1. Len(cs) \in Nat /\ DOMAIN cs = 1..Len(cs) /\ \A i \in 1..Len(cs) : cs[i] \in Kinds
    BY LenProperties, ElementOfSeq
  <2>2. CandidateSignals(cs) \in [1..Len(cs) -> Signals]
    BY <2>1 DEF CandidateSignals, Signal, Signals
  <2> QED
    BY <2>1, <2>2, SeqDef
<1>2. <<s>> \in Seq(Signals) /\ Len(<<s>>) = 1 /\ <<s>>[1] = s
  OBVIOUS
<1>3. /\ ss \in Seq(Signals) /\ Len(ss) = 1 + Len(CandidateSignals(cs)) /\ ss[1] = s
      /\ Len(CandidateSignals(cs)) \in Nat
  BY <1>1, <1>2, ConcatProperties, LenProperties
<1> HIDE DEF ss
<1>4. Ordered(ss)
  <2> SUFFICES ASSUME NEW i \in 1..Len(ss), ss[i].type = "CANDIDATE"
               PROVE  \E j \in 1..(i - 1) : ss[j].type \in Descriptions
    BY DEF Ordered
  <2>1. i # 1
    BY <1>3 DEF Descriptions
  <2>2. 1 \in 1..(i - 1)
    BY <1>3, <2>1
  <2> QED
    BY <1>3, <2>2
<1>5. Announced(ss)
  BY <1>3 DEF Announced
<1> QED
  BY <1>3, <1>4, <1>5 DEF ss

LEMMA ProbeFindsTells ==
  ASSUME Inv, Told, Growing, NEW p \in Peers, NEW c \in Kinds, ProbeFinds(p, c)
  PROVE  Told'
<1>1. UNCHANGED <<gathering, remoteCandidates, descriptions>>
  BY DEF ProbeFinds, remoteVars
<1>2. CASE HasMid(p) /\ Emit(p, CandidateSignals(<<c>>))
  <2>1. CandidateSignals(<<c>>) \in Seq(Signals)
    <3>1. CandidateSignals(<<c>>) = <<Signal("CANDIDATE", c)>>
      BY DEF CandidateSignals
    <3>2. Signal("CANDIDATE", c) \in Signals
      BY DEF Signal, Signals
    <3> QED
      BY <3>1, <3>2, PlainOrdered
  <2>2. Says(p, CandidateSignals(<<c>>))
    BY <1>1, <1>2, <2>1, EmitSays DEF Says
  <2> QED
    BY <1>1, <2>1, <2>2, SaysKeeps
<1>3. CASE UNCHANGED signalVars
  BY <1>1, <1>3, QuietTells DEF signalVars
<1> QED
  BY <1>2, <1>3 DEF ProbeFinds

LEMMA ProcessTells ==
  ASSUME Inv, Told, Growing, NEW p \in Peers, ProcessProbeCandidates(p)
  PROVE  Told'
<1> DEFINE found == Range(candidates[p])
           s == Signal("publicEndpoint", BestPublicAddress(found))
<1>1. UNCHANGED <<gathering, remoteCandidates, descriptions>>
  BY DEF ProcessProbeCandidates, remoteVars
<1>2. CASE found # {} /\ Emit(p, <<s>>)
  <2>1. found \subseteq Kinds
    BY LenProperties, ElementOfSeq DEF Range, Inv, Typed
  <2>2. BestPublicAddress(found) \in Kinds
    BY <1>2, <2>1, BestIsOne
  <2>3. s \in Signals /\ s.type # "CANDIDATE"
    BY <2>2 DEF Signal, Signals
  <2> QED
    BY <1>1, <1>2, <2>3, PlainTells
<1>3. CASE UNCHANGED signalVars
  BY <1>1, <1>3, QuietTells DEF signalVars
<1> QED
  BY <1>2, <1>3 DEF ProcessProbeCandidates

LEMMA NegotiateTells ==
  ASSUME Inv, Told, Growing, NEW p \in Peers, NegotiateConnection(p)
  PROVE  Told'
<1>1. UNCHANGED <<gathering, remoteCandidates, descriptions>> /\ Emit(p, <<Signal("caesar", p)>>)
  BY DEF NegotiateConnection, remoteVars
<1>2. Signal("caesar", p) \in Signals /\ Signal("caesar", p).type # "CANDIDATE"
  BY DEF Signal, Signals
<1> QED
  BY <1>1, <1>2, PlainTells

LEMMA DescribeTells ==
  ASSUME Inv, Told, Growing, NEW p \in Peers, OfferCreated(p) \/ AnswerCreated(p)
  PROVE  Told'
<1>1. PICK type \in Descriptions, next \in Obfuscated : Describe(p, type, next)
  BY DEF OfferCreated, AnswerCreated, Descriptions, Obfuscated
<1>2. /\ UNCHANGED <<remoteCandidates, descriptions>>
      /\ gathering' = [gathering EXCEPT ![p] = "started"]
  BY <1>1 DEF Describe, remoteVars, Set
<1>3. \A q \in Peers \ {p} : gathering'[q] = gathering[q]
  BY <1>2 DEF Inv, Typed
<1> DEFINE s == Signal(type, Nobody)
<1>4. s \in Signals /\ s.type \in Descriptions /\ s.type # "CANDIDATE"
  BY DEF Signal, Signals, Descriptions
<1>5. CASE HasMid(p) /\ Emit(p, <<s>>)
  <2>1. <<s>> \in Seq(Signals)
    BY <1>4, PlainOrdered
  <2>2. Says(p, <<s>>)
    BY <1>3, <1>5, <2>1, EmitSays DEF Says
  <2> QED
    BY <1>2, <2>1, <2>2, SaysKeeps
<1>6. CASE Emit(p, <<s>> \o CandidateSignals(candidates[p]))
  <2> DEFINE ss == <<s>> \o CandidateSignals(candidates[p])
  <2>1. candidates[p] \in Seq(Kinds)
    BY DEF Inv, Typed
  <2>2. ss \in Seq(Signals) /\ Ordered(ss) /\ Announced(ss)
    BY <1>4, <2>1, CandidatesFollow
  <2> HIDE DEF ss
  <2>3. Emit(p, ss)
    BY <1>6 DEF ss
  <2>4. Says(p, ss)
    BY <1>3, <2>2, <2>3, EmitSays DEF Says
  <2> QED
    BY <1>2, <2>2, <2>4, SaysKeeps
<1> QED
  BY <1>1, <1>5, <1>6 DEF Describe

LEMMA GathersTells ==
  ASSUME Inv, Told, Growing, NEW p \in Peers, Gathers(p)
  PROVE  Told'
<1> DEFINE s == Signal("NO_MORE_CANDIDATES", Nobody)
<1>1. /\ UNCHANGED <<remoteCandidates, descriptions>> /\ gathering[p] = "started"
      /\ gathering' = [gathering EXCEPT ![p] = "done"] /\ EmitLast(p, s)
  BY DEF Gathers, remoteVars, Set
<1>2. HasMid(p) /\ \A q \in Peers \ {p} : gathering'[q] = gathering[q]
  BY <1>1 DEF HasMid, Inv, Typed
<1>3. s \in Signals
  BY DEF Signal, Signals
<1>4. PICK ss \in {<<>>, <<s>>} : Stream(p)' = Stream(p) \o ss
  BY <1>1, EmitLastSays
<1>5. ss \in Seq(Signals)
  BY <1>3, <1>4, EmptyOrdered, PlainOrdered
<1>6. Says(p, ss)
  BY <1>1, <1>2, <1>4, EmitLastSays DEF Says
<1> QED
  BY <1>1, <1>5, <1>6, SaysKeeps

LEMMA TailJoins ==
  ASSUME NEW s \in Seq(Signals), NEW t \in Seq(Signals), s # <<>>
  PROVE  s \o t # <<>> /\ Head(s \o t) = Head(s) /\ Tail(s \o t) = Tail(s) \o t
<1>1. /\ s \o t \in Seq(Signals) /\ Len(s \o t) = Len(s) + Len(t)
      /\ Len(s) \in Nat \ {0} /\ Len(t) \in Nat
      /\ \A i \in 1..(Len(s) + Len(t)) :
           (s \o t)[i] = IF i <= Len(s) THEN s[i] ELSE t[i - Len(s)]
  BY ConcatProperties, LenProperties, EmptySeq
<1>2. s \o t # <<>>
  BY <1>1, EmptySeq
<1>3. Head(s \o t) = (s \o t)[1] /\ Head(s) = s[1]
  OBVIOUS
<1>4. Head(s \o t) = Head(s)
  BY <1>1, <1>3
<1>5. /\ Tail(s) \in Seq(Signals) /\ Len(Tail(s)) = Len(s) - 1
      /\ \A i \in 1..Len(Tail(s)) : Tail(s)[i] = s[i + 1]
  BY HeadTailProperties
<1> DEFINE u == Tail(s \o t)
           v == Tail(s) \o t
<1>6. /\ u \in Seq(Signals) /\ Len(u) = Len(s) + Len(t) - 1
      /\ \A i \in 1..Len(u) : u[i] = (s \o t)[i + 1]
  BY <1>1, <1>2, HeadTailProperties
<1>7. /\ v \in Seq(Signals) /\ Len(v) = Len(s) - 1 + Len(t)
      /\ \A i \in 1..(Len(s) - 1 + Len(t)) :
           v[i] = IF i <= Len(s) - 1 THEN Tail(s)[i] ELSE t[i - (Len(s) - 1)]
  BY <1>5, ConcatProperties
<1> HIDE DEF u, v
<1>8. ASSUME NEW i \in 1..Len(u) PROVE u[i] = v[i]
  <2>1. i \in 1..(Len(s) - 1 + Len(t)) /\ i + 1 \in 1..(Len(s) + Len(t))
    BY <1>1, <1>6
  <2>2. CASE i <= Len(s) - 1
    <3>1. i \in 1..Len(Tail(s)) /\ i + 1 <= Len(s)
      BY <1>1, <1>5, <2>1, <2>2
    <3>2. u[i] = s[i + 1]
      BY <1>1, <1>6, <2>1, <3>1
    <3>3. v[i] = s[i + 1]
      BY <1>5, <1>7, <2>1, <2>2, <3>1
    <3> QED
      BY <3>2, <3>3
  <2>3. CASE i > Len(s) - 1
    <3>1. ~(i + 1 <= Len(s)) /\ ~(i <= Len(s) - 1) /\ (i + 1) - Len(s) = i - (Len(s) - 1)
      BY <1>1, <2>1, <2>3
    <3>2. u[i] = t[(i + 1) - Len(s)]
      BY <1>1, <1>6, <2>1, <3>1
    <3>3. v[i] = t[i - (Len(s) - 1)]
      BY <1>7, <2>1, <3>1
    <3> QED
      BY <3>1, <3>2, <3>3
  <2> QED
    BY <1>1, <2>1, <2>2, <2>3
<1>9. Len(u) = Len(v)
  BY <1>1, <1>6, <1>7
<1>10. u = v
  BY <1>6, <1>7, <1>8, <1>9, SeqEqual
<1> QED
  BY <1>2, <1>4, <1>10 DEF u, v

\* An error, which goes the way of other signals.
LEMMA ErrorSays ==
  ASSUME Inv, NEW p \in Peers, NEW q \in Peers, p # q, wire[p] # <<>>,
         LET e    == Signal("error", Nobody)
             rest == Set(wire, p, Tail(wire[p]))
         IN  IF batched
             THEN wire' = rest /\ batch' = Set(batch, q, Append(batch[q], e))
             ELSE wire' = [rest EXCEPT ![q] = Append(@, e)] /\ batch' = batch
  PROVE  /\ wire'[p] = Tail(wire[p]) /\ batch'[p] = batch[p]
         /\ Stream(q)' = Stream(q) \o <<Signal("error", Nobody)>>
<1> DEFINE e == Signal("error", Nobody)
           rest == Set(wire, p, Tail(wire[p]))
<1>1. e \in Signals
  BY DEF Signal, Signals
<1>2. <<e>> \in Seq(Signals)
  BY <1>1, PlainOrdered
<1>3. /\ wire \in [Peers -> Seq(Signals)] /\ batch \in [Peers -> Seq(Signals)]
      /\ wire[q] \in Seq(Signals) /\ batch[q] \in Seq(Signals)
      /\ ~batched => batch[q] = <<>>
  BY DEF Inv, SignalsSound, Stages, Stage
<1>4. /\ Append(wire[q], e) = wire[q] \o <<e>> /\ Append(batch[q], e) = batch[q] \o <<e>>
      /\ wire[q] \o <<e>> \in Seq(Signals)
  BY <1>1, <1>2, <1>3, AppendIsConcat, ConcatProperties
<1>5. rest[p] = Tail(wire[p]) /\ rest[q] = wire[q] /\ DOMAIN rest = Peers
  BY <1>3 DEF Set
<1> HIDE DEF e, rest
<1>6. CASE batched
  <2>1. wire' = rest /\ batch' = Set(batch, q, Append(batch[q], e))
    BY <1>6 DEF e, rest
  <2>2. /\ wire'[p] = Tail(wire[p]) /\ batch'[p] = batch[p]
        /\ wire'[q] = wire[q] /\ batch'[q] = batch[q] \o <<e>>
    BY <1>3, <1>4, <1>5, <2>1 DEF Set
  <2>3. wire[q] \o (batch[q] \o <<e>>) = (wire[q] \o batch[q]) \o <<e>>
    BY <1>2, <1>3, SignalsJoin
  <2> QED
    BY <2>2, <2>3 DEF Stream, e
<1>7. CASE ~batched
  <2>1. wire' = [rest EXCEPT ![q] = Append(@, e)] /\ batch' = batch
    BY <1>7 DEF e, rest
  <2>2. /\ wire'[p] = Tail(wire[p]) /\ batch'[p] = batch[p]
        /\ wire'[q] = wire[q] \o <<e>> /\ batch'[q] = <<>> /\ batch[q] = <<>>
    BY <1>3, <1>4, <1>5, <1>7, <2>1
  <2>3. (wire[q] \o <<e>>) \o <<>> = wire[q] \o <<e>> /\ wire[q] \o <<>> = wire[q]
    BY <1>3, <1>4, ConcatEmptySeq
  <2>4. Stream(q)' = (wire[q] \o <<e>>) \o <<>> /\ Stream(q) = wire[q] \o <<>>
    BY <2>2 DEF Stream
  <2> QED
    BY <2>2, <2>3, <2>4 DEF e
<1> QED
  BY <1>6, <1>7

\* A peer takes the first signal of p: it is a description, which makes p known, or
\* no candidate, or p is known already.
LEMMA HandleTells ==
  ASSUME Inv, Rest, Told, Growing, NEW p \in Peers, HandleSignalMessage(p)
  PROVE  Told'
<1> DEFINE q == Other(p)
           s == Head(wire[p])
           e == Signal("error", Nobody)
           wrong == s.type = "error" \/ provider[q] \notin {"none", provider[p]}
<1>1. wire[p] # <<>> /\ gathering' = gathering
  BY DEF HandleSignalMessage
<1>2. q \in Peers /\ q # p /\ Other(q) = p /\ \A r \in Peers : r = p \/ r = q
  BY OtherPeer
<1>3. /\ wire \in [Peers -> Seq(Signals)] /\ batch \in [Peers -> Seq(Signals)]
      /\ wire[p] \in Seq(Signals) /\ batch[p] \in Seq(Signals)
      /\ s \in Sound(p)
  BY <1>1, HeadTailProperties DEF Inv, SignalsSound
<1>4. \/ /\ s.type # "error" /\ ~wrong /\ HandleChurnSignal(q, s)
         /\ wire' = Set(wire, p, Tail(wire[p])) /\ batch' = batch
      \/ /\ wrong /\ UNCHANGED <<remoteCandidates, descriptions>>
         /\ IF batched
            THEN /\ wire' = Set(wire, p, Tail(wire[p]))
                 /\ batch' = Set(batch, q, Append(batch[q], e))
            ELSE /\ wire' = [Set(wire, p, Tail(wire[p])) EXCEPT ![q] = Append(@, e)]
                 /\ batch' = batch
  BY DEF HandleSignalMessage, remoteVars
<1>5. s.type # "error" => provider[p] # "none"
  BY <1>3 DEF Sound
<1>6. \/ UNCHANGED <<remoteCandidates, descriptions>>
      \/ /\ s.type \in {"CANDIDATE", "publicEndpoint"} /\ ~wrong
         /\ remoteCandidates' = [remoteCandidates EXCEPT ![q] = @ \cup {s.of}]
         /\ descriptions' = descriptions
      \/ /\ s.type \in Descriptions /\ ~wrong
         /\ descriptions' = [descriptions EXCEPT ![q] = Append(descriptions[q], s.type)]
         /\ remoteCandidates' = remoteCandidates
  BY <1>4 DEF HandleChurnSignal, AddRemoteCandidate, Set, remoteVars, Descriptions
<1>7. wire'[p] = Tail(wire[p]) /\ batch'[p] = batch[p]
  BY <1>1, <1>2, <1>3, <1>4, ErrorSays DEF Set
<1>8. Stream(q)' = Stream(q) \/ Stream(q)' = Stream(q) \o <<e>>
  <2>1. CASE wire' = Set(wire, p, Tail(wire[p])) /\ batch' = batch
    BY <1>2, <1>3, <2>1 DEF Stream, Set
  <2> QED
    BY <1>1, <1>2, <1>4, <2>1, ErrorSays
<1>9. e \in Signals /\ <<e>> \in Seq(Signals) /\ Ordered(<<e>>)
  <2>1. e \in Signals /\ e.type # "CANDIDATE"
    BY DEF Signal, Signals
  <2> QED
    BY <2>1, PlainOrdered
<1>10. /\ Stream(p) \in Seq(Signals) /\ Stream(p) # <<>> /\ Head(Stream(p)) = s
       /\ Stream(p)' = Tail(Stream(p))
  BY <1>1, <1>3, <1>7, StreamIsSeq, TailJoins DEF Stream
<1> HIDE DEF q, s, e, wrong
<1>19. /\ descriptions \in [Peers -> Seq(Descriptions)]
       /\ s.type \in Descriptions => Append(descriptions[q], s.type) # <<>>
  <2>1. descriptions \in [Peers -> Seq(Descriptions)] /\ descriptions[q] \in Seq(Descriptions)
    BY <1>2 DEF Rest, Heard
  <2> QED
    BY <2>1, AppendProperties
<1>11. \A r \in Peers : descriptions[r] # <<>> => descriptions'[r] # <<>>
  BY <1>2, <1>6, <1>19
<1>12. Led(q)'
  <2>1. <<>> \in Seq(Signals) /\ Ordered(<<>>) /\ Stream(q) \o <<>> = Stream(q)
    BY <1>2, EmptyOrdered, StreamIsSeq, ConcatEmptySeq
  <2>2. Led(q) /\ HasMid(q)' = HasMid(q)
    BY <1>1, <1>2 DEF Told, HasMid
  <2>3. CASE Stream(q)' = Stream(q)
    BY <1>2, <1>11, <2>1, <2>2, <2>3, LedKeeps
  <2>4. CASE Stream(q)' = Stream(q) \o <<e>>
    BY <1>2, <1>9, <1>11, <2>2, <2>4, LedKeeps
  <2> QED
    BY <1>8, <2>3, <2>4
<1>13. Known(p) => Known(p)'
  BY <1>2, <1>11, KnownGrows DEF q
<1>14. ~Known(p) /\ s.type \notin Descriptions
         => s.type # "CANDIDATE" /\ Ordered(Stream(p)') /\ (HasMid(p)' => Announced(Stream(p)'))
  <2>1. ~Known(p) => Ordered(Stream(p)) /\ (HasMid(p) => Announced(Stream(p)))
    BY DEF Told, Led
  <2>2. HasMid(p)' = HasMid(p)
    BY <1>1 DEF HasMid
  <2> QED
    BY <1>10, <2>1, <2>2, TailOrdered
<1>15. s.type \in Descriptions => Known(p)'
  <2> SUFFICES ASSUME s.type \in Descriptions PROVE Known(p)'
    OBVIOUS
  <2>1. CASE wrong
    <3>1. provider[p] # "none" /\ provider[q] \notin {"none", provider[p]}
      BY <1>5, <2>1 DEF wrong, Descriptions
    <3>2. Known(p)
      BY <3>1 DEF Known, q
    <3> QED
      BY <1>13, <3>2
  <2>2. CASE ~wrong
    <3>1. descriptions'[q] # <<>>
      <4>1. /\ HandleChurnSignal(q, s)
            /\ s.type \notin {"CANDIDATE", "publicEndpoint", "caesar", "NO_MORE_CANDIDATES"}
        BY <1>4, <2>2 DEF Descriptions
      <4>2. descriptions' = [descriptions EXCEPT ![q] = Append(descriptions[q], s.type)]
        BY <4>1 DEF HandleChurnSignal, Set
      <4> QED
        BY <1>2, <1>19, <2>2, <4>2
    <3> QED
      BY <3>1 DEF Known, q, Descriptions
  <2> QED
    BY <2>1, <2>2
<1>16. Led(p)'
  BY <1>13, <1>14, <1>15 DEF Led
<1>17. Learnt(p)'
  <2>1. remoteCandidates'[p] = remoteCandidates[p]
    BY <1>2, <1>6 DEF Rest
  <2> QED
    BY <1>11, <2>1, LearntKeeps DEF Told
<1>18. Learnt(q)'
  <2>1. CASE remoteCandidates'[q] = remoteCandidates[q]
    BY <1>2, <1>11, <2>1, LearntKeeps DEF Told
  <2>2. CASE s.type \in {"CANDIDATE", "publicEndpoint"} /\ ~wrong
    <3>1. provider[p] # "none" /\ provider'[p] = provider[p]
      BY <1>5, <2>2 DEF Growing
    <3>2. provider[p] = "HOLO_ICE" => s.type = "CANDIDATE"
      BY <1>3, <2>2 DEF Sound, s
    <3>3. s.type = "CANDIDATE" => Known(p)
      BY <1>14 DEF Descriptions
    <3>4. Known(p) => descriptions[q] # <<>>
      BY <2>2, <3>1 DEF Known, wrong, q
    <3>5. provider[p] = "HOLO_ICE" => descriptions'[q] # <<>>
      BY <1>2, <1>11, <3>2, <3>3, <3>4
    <3> QED
      BY <1>2, <3>1, <3>5 DEF Learnt
  <2>3. \/ remoteCandidates'[q] = remoteCandidates[q]
        \/ s.type \in {"CANDIDATE", "publicEndpoint"} /\ ~wrong
    BY <1>6
  <2> QED
    BY <2>1, <2>2, <2>3
<1> QED
  BY <1>2, <1>12, <1>16, <1>17, <1>18 DEF Told

LEMMA ToldStep ==
  ASSUME Inv, Rest, Told, [Next]_vars
  PROVE  Told'
<1>1. Growing
  BY InvStep
<1>2. ASSUME NEW p \in Peers, NegotiateConnection(p) PROVE Told'
  BY <1>1, <1>2, NegotiateTells
<1>3. ASSUME NEW p \in Peers, NEW c \in Kinds, ProbeFinds(p, c) PROVE Told'
  BY <1>1, <1>3, ProbeFindsTells
<1>4. ASSUME NEW p \in Peers, ProcessProbeCandidates(p) PROVE Told'
  BY <1>1, <1>4, ProcessTells
<1>5. ASSUME NEW p \in Peers, OfferCreated(p) \/ AnswerCreated(p) PROVE Told'
  BY <1>1, <1>5, DescribeTells
<1>6. ASSUME NEW p \in Peers, Gathers(p) PROVE Told'
  BY <1>1, <1>6, GathersTells
<1>7. ASSUME NEW p \in Peers, HandleSignalMessage(p) PROVE Told'
  BY <1>1, <1>7, HandleTells
<1>8. ASSUME NEW p \in Peers,
             \/ Close(p) \/ CloseAfter(p) \/ SetTransformerFails(p) \/ ProbingCompletes(p)
             \/ ConfigurePipe(p) \/ PeerGone(p) \/ \E c \in Kinds : MappingAdded(p, c)
      PROVE  Told'
  <2>1. UNCHANGED <<wire, batch, gathering, remoteCandidates, descriptions>>
    <3>1. CASE Close(p) \/ CloseAfter(p)
      BY <3>1 DEF Close, CloseAfter, CloseBridge, remoteVars, signalVars
    <3>2. CASE SetTransformerFails(p) \/ ProbingCompletes(p) \/ ConfigurePipe(p)
      BY <3>2 DEF SetTransformerFails, ProbingCompletes, ConfigurePipe, remoteVars, signalVars
    <3>3. CASE PeerGone(p) \/ \E c \in Kinds : MappingAdded(p, c)
      BY <3>3 DEF PeerGone, MappingAdded, remoteVars, signalVars
    <3> QED
      BY <1>8, <3>1, <3>2, <3>3
  <2> QED
    BY <1>1, <2>1, QuietTells
<1>9. ASSUME NEW p \in Peers, GiveDescription(p) PROVE Told'
  <2>1. UNCHANGED <<wire, batch, gathering, remoteCandidates, descriptions>>
    BY <1>9 DEF GiveDescription, HandleDescription, signalVars
  <2> QED
    BY <1>1, <2>1, QuietTells
<1>10. CASE Connected \/ UNCHANGED vars
  <2>1. UNCHANGED <<wire, batch, gathering, remoteCandidates, descriptions>>
    BY <1>10 DEF Connected, vars, remoteVars, signalVars
  <2> QED
    BY <1>1, <2>1, QuietTells
<1> QED
  BY <1>2, <1>3, <1>4, <1>5, <1>6, <1>7, <1>8, <1>9, <1>10
     DEF Next, PipeStep, ObfuscatedStep

LEMMA ToldInit == Init => Told
<1> SUFFICES ASSUME Init PROVE Told
  OBVIOUS
<1>1. /\ gathering = [p \in Peers |-> "none"] /\ remoteCandidates = [p \in Peers |-> {}]
      /\ batch = [p \in Peers |-> <<>>] /\ wire = [p \in Peers |-> <<>>]
  BY DEF Init, ChurnInit, All
<1>2. ASSUME NEW p \in Peers PROVE Stream(p) = <<>> /\ ~HasMid(p)
  <2>1. Stream(p) = <<>> \o <<>> /\ ~HasMid(p)
    BY <1>1 DEF Stream, HasMid
  <2>2. <<>> \o <<>> = <<>>
    BY EmptyOrdered, ConcatEmptySeq
  <2> QED
    BY <2>1, <2>2
<1> QED
  BY <1>1, <1>2, EmptyOrdered DEF Told, Led, Learnt

LEMMA FewErrors ==
  ASSUME Inv
  PROVE  NoErrors
<1> SUFFICES ASSUME Single, NEW p \in Peers, NEW s \in Range(wire[p]) \cup Range(batch[p]),
                    s.type = "error"
             PROVE  FALSE
  BY DEF NoErrors
<1>1. wire[p] \in Seq(Sound(p)) /\ batch[p] \in Seq(Sound(p))
  BY DEF Inv, SignalsSound
<1>2. Range(wire[p]) \subseteq Sound(p) /\ Range(batch[p]) \subseteq Sound(p)
  BY <1>1, LenProperties, ElementOfSeq DEF Range
<1>3. negotiated = Peers
  BY <1>2 DEF Sound
<1>4. PICK q, r \in Peers : q # r /\ Peers = {q, r}
  BY ChurnAssumption
<1>5. Cardinality(Peers) = 1
  BY <1>3 DEF Single
<1>6. /\ IsFiniteSet({q}) /\ Cardinality({q}) = 1 /\ r \notin {q}
      /\ Peers = {q} \cup {r}
  BY <1>4, FS_Singleton
<1>7. Cardinality(Peers) = Cardinality({q}) + 1
  BY <1>6, FS_AddElement
<1> QED
  BY <1>5, <1>6, <1>7

\* Whichever of a peer's two connections was faster: nobody hears of a candidate of
\* churn before the description it belongs to, the answerer's end comes when all that
\* it had to say is out, unless its probe was cut off, and no signal is answered with
\* an error when one peer negotiates.
THEOREM SignalsAlwaysComplete == Spec => []SignalsComplete
<1>1. Inv /\ Told => SignalsComplete
  <2> SUFFICES ASSUME Inv, Told PROVE CandidatesAfterDescription /\ AnswererIsComplete
    BY FewErrors DEF SignalsComplete
  <2>1. CandidatesAfterDescription
    BY DEF Told, Learnt, CandidatesAfterDescription
  <2>2. AnswererIsComplete
    BY DEF Inv, Stages, Stage, Answerer, AnswererIsComplete
  <2> QED
    BY <2>1, <2>2
<1>2. Init => Inv /\ Rest /\ Told
  BY InvInit, RestInit, ToldInit
<1>3. (Inv /\ Rest /\ Told) /\ [Next]_vars => (Inv /\ Rest /\ Told)'
  BY InvStep, RestStep, ToldStep
<1> QED
  BY <1>1, <1>2, <1>3, PTL DEF Spec

-----------------------------------------------------------------------------
(* The sockets of a pipe *)

PortStates == {"none", "binding", "bound", "failed", "closed"}
MirrorStates == {"none", "binding", "bound", "failed", "doomed", "closing", "closed"}
Mirrors == Remotes \X Indices

\* The ports that were asked for.
Asked == {e \in Endpoints : publicPorts[e] # "none"}

PublicTyped ==
  /\ lastInterface \in Interfaces \cup {NoInterface}
  /\ publicSockets \in [Interfaces -> Seq(Ports)]
  /\ publicPorts \in [Endpoints -> PortStates]
  /\ delay \in [Endpoints -> {10} \cup 20..(2 * DelayLimit)]
  /\ held \subseteq Endpoints /\ browser \subseteq Interfaces
  /\ failures \in 0..MaxFailures

\* A port has one socket, and has been asked for.
Listed ==
  \A a \in Interfaces : \A i \in DOMAIN publicSockets[a] :
    /\ publicPorts[<<a, publicSockets[a][i]>>] # "none"
    /\ \A j \in DOMAIN publicSockets[a] : publicSockets[a][i] = publicSockets[a][j] => i = j

\* The delay of a port that is still tried is within the limit.
Delays == \A e \in Endpoints : /\ publicPorts[e] = "none" => delay[e] = 10
                               /\ publicPorts[e] = "binding" => delay[e] <= DelayLimit

\* maxSocketsPerInterface_ is the length of the longest list, and bounded by all the ports.
Widest ==
  /\ maxSockets \in Nat
  /\ \A a \in Interfaces : Len(publicSockets[a]) <= maxSockets
  /\ \E a \in Interfaces : Len(publicSockets[a]) = maxSockets
  /\ maxSockets <= Cardinality(Asked) /\ Cardinality(Asked) <= MaxPublic

MirrorTyped ==
  /\ signaled \subseteq Remotes
  /\ mirrorSockets \in [Mirrors -> MirrorStates]
  /\ emitting \subseteq Mirrors /\ emitted \subseteq Mirrors

\* Every endpoint signaled has its mirrors, and only those of such are reported.
Reported ==
  /\ \A r \in signaled, i \in 1..maxSockets :
       /\ mirrorSockets[<<r, i>>] # "none"
       /\ mirrorSockets[<<r, i>>] = "bound" => <<r, i>> \in emitted
       /\ mirrorSockets[<<r, i>>] = "binding" => <<r, i>> \in emitting
  /\ \A m \in emitted \cup emitting : m[1] \in signaled

PublicInv == PublicTyped /\ Listed /\ Delays /\ Widest
MirrorInv == MirrorTyped /\ Reported
PipeInv == PublicInv /\ MirrorInv

\* Only what was asked for is being destroyed.
ClosingAsked == \A e \in closing : publicPorts[e] # "none"

LEMMA PipeBounds ==
  /\ DelayLimit \in Nat /\ DelayLimit >= 10 /\ MaxPublic \in Nat /\ MaxFailures \in Nat
  /\ Interfaces # {} /\ IsFiniteSet(Endpoints)
<1>1. IsFiniteSet(Interfaces \X Ports)
  BY ChurnPipeAssumption, FS_Product
<1> QED
  BY <1>1, ChurnPipeAssumption DEF Endpoints

LEMMA AskedFinite == IsFiniteSet(Asked) /\ Cardinality(Asked) \in Nat
<1>1. Asked \subseteq Endpoints
  BY DEF Asked
<1> QED
  BY <1>1, PipeBounds, FS_Subset, FS_CardinalityType

\* getMirrorSocketAndEmit_ for the mirrors ms keeps what is promised, if these are
\* of endpoints that are signaled, and all that are newly due.
LEMMA GetMirrorsKeeps ==
  ASSUME MirrorInv, NEW ms \in SUBSET Mirrors, GetMirrorsAndEmit(ms),
         signaled \subseteq signaled', signaled' \subseteq Remotes,
         \A m \in ms : m[1] \in signaled',
         \A r \in signaled', i \in 1..maxSockets' :
           <<r, i>> \in ms \/ (r \in signaled /\ i \in 1..maxSockets),
         1..maxSockets' \subseteq Indices
  PROVE  MirrorInv'
<1>1. /\ mirrorSockets \in [Mirrors -> MirrorStates] /\ DOMAIN mirrorSockets = Mirrors
      /\ emitting \subseteq Mirrors /\ emitted \subseteq Mirrors
  BY DEF MirrorInv, MirrorTyped
<1>2. /\ mirrorSockets' = [m \in Mirrors |->
           IF m \in ms /\ mirrorSockets[m] = "none" THEN "binding" ELSE mirrorSockets[m]]
      /\ emitted' = emitted \cup {m \in ms : mirrorSockets[m] = "bound"}
      /\ emitting' = emitting \cup {m \in ms : mirrorSockets'[m] = "binding"}
  BY <1>1 DEF GetMirrorsAndEmit
<1>3. \A m \in Mirrors : mirrorSockets'[m] =
        IF m \in ms /\ mirrorSockets[m] = "none" THEN "binding" ELSE mirrorSockets[m]
  BY <1>2
<1>4. MirrorTyped'
  <2>1. mirrorSockets' \in [Mirrors -> MirrorStates]
    BY <1>1, <1>2 DEF MirrorStates
  <2>2. emitting' \subseteq Mirrors /\ emitted' \subseteq Mirrors
    BY <1>1, <1>2
  <2> QED
    BY <2>1, <2>2 DEF MirrorTyped, Mirrors, Indices
<1>5. ASSUME NEW r \in signaled', NEW i \in 1..maxSockets'
      PROVE  /\ mirrorSockets'[<<r, i>>] # "none"
             /\ mirrorSockets'[<<r, i>>] = "bound" => <<r, i>> \in emitted'
             /\ mirrorSockets'[<<r, i>>] = "binding" => <<r, i>> \in emitting'
  <2> DEFINE m == <<r, i>>
  <2>1. m \in Mirrors /\ (m \in ms \/ (r \in signaled /\ i \in 1..maxSockets))
    BY DEF Mirrors
  <2>2. CASE m \in ms
    BY <1>2, <1>3, <2>1, <2>2
  <2>3. CASE m \notin ms
    <3>1. /\ mirrorSockets[m] # "none"
          /\ mirrorSockets[m] = "bound" => m \in emitted
          /\ mirrorSockets[m] = "binding" => m \in emitting
      BY <2>1, <2>3 DEF MirrorInv, Reported
    <3> QED
      BY <1>2, <1>3, <2>1, <2>3, <3>1
  <2> QED
    BY <2>2, <2>3
<1>6. \A m \in emitted' \cup emitting' : m[1] \in signaled'
  BY <1>2 DEF MirrorInv, Reported
<1> QED
  BY <1>4, <1>5, <1>6 DEF MirrorInv, Reported

\* One mirror goes from one state to another.
LEMMA OneMirrorKeeps ==
  ASSUME MirrorInv, NEW m \in Mirrors, NEW v \in MirrorStates \ {"none"},
         mirrorSockets' = [mirrorSockets EXCEPT ![m] = v],
         UNCHANGED <<maxSockets, signaled>>,
         emitted' \in {emitted, emitted \cup {m}}, emitting' \in {emitting, emitting \ {m}},
         m \in emitted' \ emitted => m \in emitting,
         m[1] \in signaled /\ m[2] \in 1..maxSockets =>
           /\ v = "bound" => m \in emitted'
           /\ v # "binding"
  PROVE  MirrorInv'
<1>1. /\ mirrorSockets \in [Mirrors -> MirrorStates]
      /\ emitting \subseteq Mirrors /\ emitted \subseteq Mirrors /\ signaled \subseteq Remotes
  BY DEF MirrorInv, MirrorTyped
<1>2. \A n \in Mirrors : mirrorSockets'[n] = IF n = m THEN v ELSE mirrorSockets[n]
  BY <1>1
<1>3. MirrorTyped'
  BY <1>1 DEF MirrorTyped, Mirrors
<1>4. ASSUME NEW r \in signaled, NEW i \in 1..maxSockets
      PROVE  /\ mirrorSockets'[<<r, i>>] # "none"
             /\ mirrorSockets'[<<r, i>>] = "bound" => <<r, i>> \in emitted'
             /\ mirrorSockets'[<<r, i>>] = "binding" => <<r, i>> \in emitting'
  <2>1. CASE <<r, i>> = m
    BY <1>1, <1>2, <2>1
  <2>2. CASE <<r, i>> # m
    <3>1. /\ mirrorSockets[<<r, i>>] # "none"
          /\ mirrorSockets[<<r, i>>] = "bound" => <<r, i>> \in emitted
          /\ mirrorSockets[<<r, i>>] = "binding" => <<r, i>> \in emitting
      BY DEF MirrorInv, Reported
    <3>2. mirrorSockets'[<<r, i>>] = mirrorSockets[<<r, i>>]
      BY <1>1, <2>2
    <3> QED
      BY <2>2, <3>1, <3>2
  <2> QED
    BY <2>1, <2>2
<1>5. \A n \in emitted' \cup emitting' : n[1] \in signaled
  BY DEF MirrorInv, Reported
<1> QED
  BY <1>3, <1>4, <1>5 DEF MirrorInv, Reported

LEMMA MirrorsSame ==
  ASSUME MirrorInv, UNCHANGED mirrorVars
  PROVE  MirrorInv'
  BY DEF MirrorInv, MirrorTyped, Reported, mirrorVars

LEMMA PublicSame ==
  ASSUME PublicInv, UNCHANGED <<publicVars, maxSockets>>, held' \subseteq held,
         browser' \subseteq Interfaces, failures' \in 0..MaxFailures
  PROVE  PublicInv'
<1>1. UNCHANGED <<lastInterface, publicSockets, publicPorts, delay, maxSockets>>
  BY DEF publicVars
<1>2. Asked' = Asked
  BY <1>1 DEF Asked
<1>3. PublicTyped'
  BY <1>1 DEF PublicInv, PublicTyped
<1>4. Listed' /\ Delays' /\ Widest'
  BY <1>1, <1>2 DEF PublicInv, Listed, Delays, Widest
<1> QED
  BY <1>3, <1>4 DEF PublicInv

LEMMA MirrorBoundKeeps ==
  ASSUME PipeInv, NEW m \in Mirrors, MirrorBound(m) \/ MirrorFails(m)
  PROVE  PipeInv'
<1>1. PublicInv'
  <2>1. /\ UNCHANGED <<publicVars, maxSockets, held, browser>>
        /\ failures' \in 0..MaxFailures
    <3>1. failures \in 0..MaxFailures
      BY DEF PipeInv, PublicInv, PublicTyped
    <3>2. CASE MirrorBound(m)
      BY <3>1, <3>2 DEF MirrorBound, publicVars
    <3>3. CASE MirrorFails(m)
      BY <3>1, <3>3, PipeBounds DEF MirrorFails, publicVars
    <3> QED
      BY <3>2, <3>3
  <2> QED
    BY <2>1, PublicSame DEF PipeInv, PublicInv, PublicTyped
<1>2. PICK r \in Remotes, i \in Indices : m = <<r, i>>
  BY DEF Mirrors
<1>3. MirrorInv'
  <2>1. UNCHANGED <<maxSockets, signaled>> /\ emitting' = emitting \ {m}
    BY DEF MirrorBound, MirrorFails
  <2>2. CASE MirrorBound(m) /\ mirrorSockets[m] = "binding"
    <3>1. /\ mirrorSockets' = [mirrorSockets EXCEPT ![m] = "bound"]
          /\ emitted' = IF m \in emitting THEN emitted \cup {m} ELSE emitted
      BY <2>2 DEF MirrorBound
    <3>2. m[1] \in signaled /\ m[2] \in 1..maxSockets => m \in emitting
      BY <1>2, <2>2 DEF PipeInv, MirrorInv, Reported
    <3>3. "bound" \in MirrorStates \ {"none"}
      BY DEF MirrorStates
    <3> QED
      BY <2>1, <3>1, <3>2, <3>3, OneMirrorKeeps DEF PipeInv
  <2>3. CASE ~(MirrorBound(m) /\ mirrorSockets[m] = "binding")
    <3>1. PICK v \in {"closing", "failed"} : mirrorSockets' = [mirrorSockets EXCEPT ![m] = v]
      BY <2>3 DEF MirrorBound, MirrorFails
    <3>2. /\ emitted' \in {emitted, emitted \cup {m}} /\ v \in MirrorStates \ {"none"}
          /\ m \in emitted' \ emitted => m \in emitting
      BY <2>3, <3>1 DEF MirrorBound, MirrorFails, MirrorStates
    <3> QED
      BY <2>1, <3>1, <3>2, OneMirrorKeeps DEF PipeInv
  <2> QED
    BY <2>2, <2>3
<1> QED
  BY <1>1, <1>3 DEF PipeInv

LEMMA BindRemoteKeeps ==
  ASSUME PipeInv, NEW r \in Remotes, BindRemote(r)
  PROVE  PipeInv'
<1> DEFINE ms == {<<r, i>> : i \in 1..maxSockets}
<1>1. /\ signaled' = signaled \cup {r} /\ GetMirrorsAndEmit(ms)
      /\ UNCHANGED <<publicVars, held, maxSockets, browser, failures>>
  BY DEF BindRemote, EnsureRemoteEndpoint
<1>2. PublicInv'
  BY <1>1, PublicSame DEF PipeInv, PublicInv, PublicTyped, publicVars
<1>3. 1..maxSockets \subseteq Indices
  BY AskedFinite, PipeBounds DEF PipeInv, PublicInv, Widest, Indices
<1>4. ms \in SUBSET Mirrors /\ \A m \in ms : m[1] = r
  BY <1>3 DEF Mirrors
<1>5. \A i \in 1..maxSockets : <<r, i>> \in ms
  OBVIOUS
<1> HIDE DEF ms
<1>6. signaled \subseteq Remotes
  BY DEF PipeInv, MirrorInv, MirrorTyped
<1>7. MirrorInv'
  <2>1. /\ signaled \subseteq signaled' /\ signaled' \subseteq Remotes
        /\ \A m \in ms : m[1] \in signaled'
        /\ 1..maxSockets' \subseteq Indices
    BY <1>1, <1>3, <1>4, <1>6
  <2>2. \A s \in signaled', i \in 1..maxSockets' :
          <<s, i>> \in ms \/ (s \in signaled /\ i \in 1..maxSockets)
    BY <1>1, <1>5
  <2> QED
    BY <1>1, <1>4, <2>1, <2>2, GetMirrorsKeeps DEF PipeInv
<1> QED
  BY <1>2, <1>7 DEF PipeInv

LEMMA OnePortMore ==
  ASSUME NEW s \in Seq(Ports), NEW p \in Ports, NEW t, t = Append(s, p)
  PROVE  /\ t \in Seq(Ports) /\ Len(t) = Len(s) + 1 /\ Len(s) \in Nat
         /\ \A i \in 1..Len(s) : t[i] = s[i] /\ s[i] \in Ports
         /\ t[Len(s) + 1] = p /\ DOMAIN t = 1..(Len(s) + 1) /\ DOMAIN s = 1..Len(s)
<1>1. /\ t \in Seq(Ports) /\ Len(t) = Len(s) + 1 /\ \A i \in 1..Len(s) : t[i] = s[i]
      /\ t[Len(s) + 1] = p
  BY AppendProperties
<1>2. DOMAIN t = 1..Len(t) /\ DOMAIN s = 1..Len(s) /\ Len(s) \in Nat
  BY <1>1
<1> QED
  BY <1>1, <1>2, ElementOfSeq

\* A list with one more port.
LEMMA ListGrows ==
  ASSUME PublicInv, NEW a \in Interfaces, NEW p \in Ports, publicPorts[<<a, p>>] = "none",
         publicSockets' = [publicSockets EXCEPT ![a] = Append(@, p)],
         publicPorts' = [publicPorts EXCEPT ![<<a, p>>] = "binding"]
  PROVE  /\ publicSockets' \in [Interfaces -> Seq(Ports)] /\ publicPorts' \in [Endpoints -> PortStates]
         /\ Len(publicSockets'[a]) = Len(publicSockets[a]) + 1 /\ Len(publicSockets[a]) \in Nat
         /\ \A b \in Interfaces \ {a} : publicSockets'[b] = publicSockets[b]
         /\ Listed'
<1> DEFINE e == <<a, p>>
           s == publicSockets[a]
           t == publicSockets'[a]
<1>1. /\ publicSockets \in [Interfaces -> Seq(Ports)] /\ publicPorts \in [Endpoints -> PortStates]
      /\ e \in Endpoints
  BY DEF PublicInv, PublicTyped, Endpoints
<1>2. /\ s \in Seq(Ports) /\ t = Append(s, p)
      /\ \A b \in Interfaces \ {a} : publicSockets'[b] = publicSockets[b]
  BY <1>1
<1>3. /\ publicPorts' \in [Endpoints -> PortStates] /\ publicPorts'[e] # "none"
      /\ \A d \in Endpoints : publicPorts[d] # "none" => publicPorts'[d] # "none"
  BY <1>1 DEF PortStates
<1> HIDE DEF s, t
<1>4. /\ t \in Seq(Ports) /\ Len(t) = Len(s) + 1 /\ Len(s) \in Nat
      /\ \A i \in 1..Len(s) : t[i] = s[i] /\ s[i] \in Ports
      /\ t[Len(s) + 1] = p /\ DOMAIN t = 1..(Len(s) + 1) /\ DOMAIN s = 1..Len(s)
  BY <1>2, OnePortMore
<1>5. publicSockets' \in [Interfaces -> Seq(Ports)]
  BY <1>1, <1>2, <1>4 DEF t
<1>6. \A i \in 1..Len(s) : /\ publicPorts[<<a, s[i]>>] # "none"
                           /\ \A j \in 1..Len(s) : s[i] = s[j] => i = j
  BY <1>4 DEF PublicInv, Listed, s
<1>7. \A i \in 1..Len(s) : s[i] # p
  BY <1>6
<1>8. ASSUME NEW i \in 1..(Len(s) + 1)
      PROVE  /\ publicPorts'[<<a, t[i]>>] # "none"
             /\ \A j \in 1..(Len(s) + 1) : t[i] = t[j] => i = j
  <2>1. CASE i = Len(s) + 1
    <3>1. \A j \in 1..(Len(s) + 1) : j # i => j \in 1..Len(s)
      BY <1>4, <2>1
    <3> QED
      BY <1>3, <1>4, <1>7, <2>1, <3>1
  <2>2. CASE i # Len(s) + 1
    <3>1. i \in 1..Len(s) /\ t[i] = s[i] /\ <<a, s[i]>> \in Endpoints
      BY <1>4, <2>2 DEF Endpoints
    <3>2. \A j \in 1..(Len(s) + 1) : j = Len(s) + 1 \/ j \in 1..Len(s)
      BY <1>4
    <3> QED
      BY <1>3, <1>4, <1>6, <1>7, <3>1, <3>2
  <2> QED
    BY <2>1, <2>2
<1>9. Listed'
  <2>1. ASSUME NEW b \in Interfaces, NEW i \in DOMAIN publicSockets'[b]
        PROVE  /\ publicPorts'[<<b, publicSockets'[b][i]>>] # "none"
               /\ \A j \in DOMAIN publicSockets'[b] :
                    publicSockets'[b][i] = publicSockets'[b][j] => i = j
    <3>1. CASE b = a
      BY <1>4, <1>8, <3>1 DEF t
    <3>2. CASE b # a
      <4>1. /\ publicPorts[<<b, publicSockets'[b][i]>>] # "none"
            /\ \A j \in DOMAIN publicSockets'[b] :
                 publicSockets'[b][i] = publicSockets'[b][j] => i = j
        BY <1>2, <2>1, <3>2 DEF PublicInv, Listed
      <4>2. publicSockets'[b][i] \in Ports
        <5>1. publicSockets'[b] \in Seq(Ports)
          BY <1>5
        <5> QED
          BY <2>1, <5>1, ElementOfSeq
      <4>3. <<b, publicSockets'[b][i]>> \in Endpoints
        BY <4>2 DEF Endpoints
      <4> QED
        BY <1>3, <4>1, <4>3
    <3> QED
      BY <3>1, <3>2
  <2> QED
    BY <2>1 DEF Listed
<1> QED
  BY <1>2, <1>3, <1>4, <1>5, <1>9 DEF s, t

\* One more port is asked for.
LEMMA AskedGrows ==
  ASSUME NEW e \in Endpoints, publicPorts[e] = "none", publicPorts \in [Endpoints -> PortStates],
         publicPorts' = [publicPorts EXCEPT ![e] = "binding"]
  PROVE  Cardinality(Asked') = Cardinality(Asked) + 1
<1>1. Asked' = Asked \cup {e} /\ e \notin Asked
  BY DEF Asked
<1> QED
  BY <1>1, AskedFinite, FS_AddElement

LEMMA BindLocalKeeps ==
  ASSUME PipeInv, NEW a \in Interfaces, NEW p \in Ports, BindLocal(a, p)
  PROVE  PipeInv'
<1> DEFINE e == <<a, p>>
<1>1. /\ lastInterface' = a /\ UNCHANGED <<delay, held, signaled, browser, failures>>
      /\ e \in Endpoints
  BY DEF BindLocal, Endpoints
<1>2. CASE publicPorts[e] # "none"
  <2>1. UNCHANGED <<publicSockets, publicPorts, mirrorSockets, emitted, emitting, maxSockets>>
    BY <1>2 DEF BindLocal
  <2>2. Asked' = Asked
    BY <2>1 DEF Asked
  <2>3. PublicInv'
    BY <1>1, <2>1, <2>2 DEF PipeInv, PublicInv, PublicTyped, Listed, Delays, Widest
  <2>4. MirrorInv'
    BY <1>1, <2>1, MirrorsSame DEF PipeInv, mirrorVars
  <2> QED
    BY <2>3, <2>4 DEF PipeInv
<1>3. CASE publicPorts[e] = "none"
  <2>1. /\ publicSockets' = [publicSockets EXCEPT ![a] = Append(@, p)]
        /\ publicPorts' = [publicPorts EXCEPT ![e] = "binding"]
        /\ Cardinality(Asked) < MaxPublic
        /\ IF Len(publicSockets'[a]) > maxSockets
             THEN IncreaseReplication(maxSockets)
             ELSE UNCHANGED <<mirrorSockets, emitted, emitting, maxSockets>>
    BY <1>3 DEF BindLocal, AddPublicSocket, Asked
  <2>2. /\ publicSockets' \in [Interfaces -> Seq(Ports)] /\ publicPorts' \in [Endpoints -> PortStates]
        /\ Len(publicSockets'[a]) = Len(publicSockets[a]) + 1 /\ Len(publicSockets[a]) \in Nat
        /\ \A b \in Interfaces \ {a} : publicSockets'[b] = publicSockets[b]
        /\ Listed'
    BY <1>3, <2>1, ListGrows DEF PipeInv
  <2>3. /\ publicPorts \in [Endpoints -> PortStates] /\ maxSockets \in Nat
        /\ maxSockets <= Cardinality(Asked) /\ Len(publicSockets[a]) <= maxSockets
    BY DEF PipeInv, PublicInv, PublicTyped, Widest
  <2>4. Cardinality(Asked') = Cardinality(Asked) + 1
    BY <1>1, <1>3, <2>1, <2>3, AskedGrows
  <2>5. PublicTyped'
    BY <1>1, <2>2 DEF PipeInv, PublicInv, PublicTyped
  <2>6. Delays'
    <3>1. delay[e] = 10
      BY <1>1, <1>3 DEF PipeInv, PublicInv, Delays
    <3>2. \A d \in Endpoints : publicPorts'[d] = IF d = e THEN "binding" ELSE publicPorts[d]
      BY <2>1, <2>3
    <3> QED
      BY <1>1, <3>1, <3>2, PipeBounds DEF PipeInv, PublicInv, Delays
  <2>7. CASE Len(publicSockets'[a]) > maxSockets
    <3> DEFINE ms == {<<r, maxSockets + 1>> : r \in signaled}
    <3>1. GetMirrorsAndEmit(ms) /\ maxSockets' = maxSockets + 1
      BY <2>1, <2>7 DEF IncreaseReplication
    <3>2. Widest'
      <4>1. Len(publicSockets'[a]) = maxSockets'
        BY <2>2, <2>3, <2>7, <3>1
      <4>2. \A b \in Interfaces : Len(publicSockets'[b]) <= maxSockets'
        <5>1. ASSUME NEW b \in Interfaces \ {a} PROVE Len(publicSockets'[b]) <= maxSockets'
          <6>1. Len(publicSockets[b]) <= maxSockets /\ publicSockets[b] \in Seq(Ports)
            BY DEF PipeInv, PublicInv, PublicTyped, Widest
          <6>2. Len(publicSockets'[b]) = Len(publicSockets[b]) /\ Len(publicSockets[b]) \in Nat
            BY <2>2, <6>1
          <6> QED
            BY <2>3, <3>1, <6>1, <6>2
        <5>2. Len(publicSockets'[a]) <= maxSockets'
          BY <2>3, <3>1, <4>1
        <5> QED
          BY <5>1, <5>2
      <4>3. /\ maxSockets' \in Nat /\ maxSockets' <= Cardinality(Asked')
            /\ Cardinality(Asked') <= MaxPublic
        BY <2>1, <2>3, <2>4, <3>1, AskedFinite, PipeBounds
      <4> QED
        BY <4>1, <4>2, <4>3 DEF Widest
    <3>3. maxSockets + 1 \in Indices /\ 1..maxSockets' \subseteq Indices
      BY <2>1, <2>3, <3>1, AskedFinite, PipeBounds DEF Indices
    <3>4. signaled \subseteq Remotes
      BY DEF PipeInv, MirrorInv, MirrorTyped
    <3>5. ms \in SUBSET Mirrors /\ \A m \in ms : m[1] \in signaled
      BY <3>3, <3>4 DEF Mirrors
    <3>6. \A r \in signaled : <<r, maxSockets + 1>> \in ms
      OBVIOUS
    <3> HIDE DEF ms
    <3>7. /\ signaled \subseteq signaled' /\ signaled' \subseteq Remotes
          /\ \A m \in ms : m[1] \in signaled'
      BY <1>1, <3>4, <3>5
    <3>8. \A r \in signaled', i \in 1..maxSockets' :
            <<r, i>> \in ms \/ (r \in signaled /\ i \in 1..maxSockets)
      <4>1. \A i \in 1..maxSockets' : i = maxSockets + 1 \/ i \in 1..maxSockets
        BY <2>3, <3>1
      <4> QED
        BY <1>1, <3>6, <4>1
    <3>9. MirrorInv'
      BY <3>1, <3>3, <3>5, <3>7, <3>8, GetMirrorsKeeps DEF PipeInv
    <3> QED
      BY <2>2, <2>5, <2>6, <3>2, <3>9 DEF PipeInv, PublicInv
  <2>8. CASE ~(Len(publicSockets'[a]) > maxSockets)
    <3>1. UNCHANGED <<mirrorSockets, emitted, emitting, maxSockets>>
      BY <2>1, <2>8
    <3>2. MirrorInv'
      BY <1>1, <3>1, MirrorsSame DEF PipeInv, mirrorVars
    <3>3. Widest'
      <4>1. PICK b \in Interfaces : Len(publicSockets[b]) = maxSockets
        BY DEF PipeInv, PublicInv, Widest
      <4>2. b # a
        BY <2>2, <2>3, <2>8, <4>1
      <4>3. Len(publicSockets'[b]) = maxSockets'
        BY <2>2, <3>1, <4>1, <4>2
      <4>4. Len(publicSockets'[a]) <= maxSockets'
        BY <2>2, <2>3, <2>8, <3>1
      <4>5. \A d \in Interfaces \ {a} : Len(publicSockets'[d]) <= maxSockets'
        BY <2>2, <3>1 DEF PipeInv, PublicInv, Widest
      <4>6. /\ maxSockets' \in Nat /\ maxSockets' <= Cardinality(Asked')
            /\ Cardinality(Asked') <= MaxPublic
        BY <2>1, <2>3, <2>4, <3>1, AskedFinite, PipeBounds
      <4> QED
        BY <4>3, <4>4, <4>5, <4>6 DEF Widest
    <3> QED
      BY <2>2, <2>5, <2>6, <3>2, <3>3 DEF PipeInv, PublicInv
  <2> QED
    BY <2>7, <2>8
<1> QED
  BY <1>2, <1>3

LEMMA TryBindKeeps ==
  ASSUME PipeInv, NEW e \in Endpoints, TryBind(e)
  PROVE  PipeInv'
<1>1. /\ publicPorts[e] = "binding"
      /\ UNCHANGED <<lastInterface, publicSockets, held, browser, failures>>
      /\ UNCHANGED mirrorVars
  BY DEF TryBind, Retry
<1>2. /\ publicPorts \in [Endpoints -> PortStates]
      /\ delay \in [Endpoints -> {10} \cup 20..(2 * DelayLimit)]
      /\ delay[e] <= DelayLimit /\ delay[e] \in Nat /\ delay[e] >= 10
  BY <1>1, PipeBounds DEF PipeInv, PublicInv, PublicTyped, Delays
<1>3. PICK v \in {"bound", "failed", "binding"}, n \in {delay[e], 2 * delay[e]} :
        /\ publicPorts' = [publicPorts EXCEPT ![e] = v]
        /\ delay' = [delay EXCEPT ![e] = n]
        /\ v = "binding" => n <= DelayLimit
  <2>1. CASE e \notin held
    <3>1. publicPorts' = [publicPorts EXCEPT ![e] = "bound"] /\ delay' = delay
      BY <2>1 DEF TryBind, Retry
    <3>2. delay' = [delay EXCEPT ![e] = delay[e]]
      BY <1>2, <3>1
    <3> QED
      BY <3>1, <3>2
  <2>2. CASE e \in held
    <3>1. /\ delay' = [delay EXCEPT ![e] = 2 * delay[e]] /\ delay'[e] = 2 * delay[e]
          /\ publicPorts' = [publicPorts EXCEPT
               ![e] = IF delay'[e] > DelayLimit THEN "failed" ELSE "binding"]
      BY <1>1, <1>2, <2>2 DEF TryBind, Retry
    <3>2. CASE 2 * delay[e] > DelayLimit
      BY <3>1, <3>2
    <3>3. CASE ~(2 * delay[e] > DelayLimit)
      <4>1. 2 * delay[e] <= DelayLimit
        BY <1>2, <3>3, PipeBounds
      <4> QED
        BY <3>1, <3>3, <4>1
    <3> QED
      BY <3>2, <3>3
  <2> QED
    BY <2>1, <2>2
<1>4. n \in {10} \cup 20..(2 * DelayLimit)
  BY <1>2, PipeBounds
<1>5. /\ \A d \in Endpoints : publicPorts'[d] = IF d = e THEN v ELSE publicPorts[d]
      /\ \A d \in Endpoints : delay'[d] = IF d = e THEN n ELSE delay[d]
  BY <1>2, <1>3
<1>6. Asked' = Asked
  BY <1>1, <1>5 DEF Asked
<1>7. PublicTyped'
  BY <1>1, <1>2, <1>3, <1>4 DEF PipeInv, PublicInv, PublicTyped, PortStates
<1>8. Listed'
  <2>1. \A d : publicPorts[d] # "none" /\ d \in Endpoints => publicPorts'[d] # "none"
    BY <1>5
  <2>2. ASSUME NEW a \in Interfaces, NEW i \in DOMAIN publicSockets[a]
        PROVE  <<a, publicSockets[a][i]>> \in Endpoints
    <3>1. publicSockets[a] \in Seq(Ports)
      BY DEF PipeInv, PublicInv, PublicTyped
    <3>2. publicSockets[a][i] \in Ports
      BY <2>2, <3>1, ElementOfSeq
    <3> QED
      BY <3>2 DEF Endpoints
  <2> QED
    BY <1>1, <2>1, <2>2 DEF PipeInv, PublicInv, Listed
<1>9. Delays'
  BY <1>3, <1>5 DEF PipeInv, PublicInv, Delays
<1>10. Widest'
  BY <1>1, <1>6 DEF PipeInv, PublicInv, Widest, mirrorVars
<1>11. MirrorInv'
  BY <1>1, MirrorsSame DEF PipeInv
<1> QED
  BY <1>7, <1>8, <1>9, <1>10, <1>11 DEF PipeInv, PublicInv

LEMMA OnIncomingDataKeeps ==
  ASSUME PipeInv, NEW a \in Interfaces, NEW i \in Indices, NEW r \in Remotes,
         OnIncomingData(a, i, r)
  PROVE  PipeInv'
<1> DEFINE m == <<r, i>>
<1>1. /\ i \in DOMAIN publicSockets[a] /\ mirrorSockets[m] = "none"
      /\ mirrorSockets' = [mirrorSockets EXCEPT ![m] = "binding"]
      /\ UNCHANGED <<publicVars, held, maxSockets, browser, failures>>
      /\ UNCHANGED <<signaled, emitting, emitted>>
  BY DEF OnIncomingData
<1>2. PublicInv'
  BY <1>1, PublicSame DEF PipeInv, PublicInv, PublicTyped
<1>3. m \in Mirrors /\ m[1] = r /\ m[2] = i /\ "binding" \in MirrorStates \ {"none"}
  BY DEF Mirrors, MirrorStates
<1>4. ~(r \in signaled /\ i \in 1..maxSockets)
  BY <1>1 DEF PipeInv, MirrorInv, Reported
<1> HIDE DEF m
<1>5. MirrorInv'
  BY <1>1, <1>3, <1>4, OneMirrorKeeps DEF PipeInv
<1> QED
  BY <1>2, <1>5 DEF PipeInv

LEMMA PublicDestroyedKeeps ==
  ASSUME PipeInv, NEW e \in Endpoints, publicPorts[e] # "none", PublicDestroyed(e)
  PROVE  PipeInv'
<1>1. /\ publicPorts' = [publicPorts EXCEPT ![e] = "closed"]
      /\ UNCHANGED <<lastInterface, publicSockets, delay, held, browser, failures>>
      /\ UNCHANGED mirrorVars
  BY DEF PublicDestroyed
<1>2. publicPorts \in [Endpoints -> PortStates] /\ publicSockets \in [Interfaces -> Seq(Ports)]
  BY DEF PipeInv, PublicInv, PublicTyped
<1>3. \A d \in Endpoints : publicPorts'[d] = IF d = e THEN "closed" ELSE publicPorts[d]
  BY <1>1, <1>2
<1>4. Asked' = Asked
  BY <1>3 DEF Asked
<1>5. PublicTyped'
  BY <1>1, <1>2 DEF PipeInv, PublicInv, PublicTyped, PortStates
<1>6. Listed'
  <2>1. ASSUME NEW a \in Interfaces, NEW i \in DOMAIN publicSockets[a]
        PROVE  <<a, publicSockets[a][i]>> \in Endpoints
    <3>1. publicSockets[a][i] \in Ports
      BY <1>2, <2>1, ElementOfSeq
    <3> QED
      BY <3>1 DEF Endpoints
  <2> QED
    BY <1>1, <1>3, <2>1 DEF PipeInv, PublicInv, Listed
<1>7. Delays' /\ Widest'
  BY <1>1, <1>3, <1>4 DEF PipeInv, PublicInv, Delays, Widest, mirrorVars
<1>8. MirrorInv'
  BY <1>1, MirrorsSame DEF PipeInv
<1> QED
  BY <1>5, <1>6, <1>7, <1>8 DEF PipeInv, PublicInv

LEMMA MirrorDestroyedKeeps ==
  ASSUME PipeInv, NEW m \in Mirrors, MirrorDestroyed(m)
  PROVE  PipeInv'
<1>1. /\ mirrorSockets' = [mirrorSockets EXCEPT ![m] = "closed"]
      /\ UNCHANGED <<publicVars, held, maxSockets, browser, failures>>
      /\ UNCHANGED <<signaled, emitting, emitted>>
  BY DEF MirrorDestroyed
<1>2. PublicInv'
  BY <1>1, PublicSame DEF PipeInv, PublicInv, PublicTyped
<1>3. "closed" \in MirrorStates \ {"none"}
  BY DEF MirrorStates
<1>4. MirrorInv'
  BY <1>1, <1>3, OneMirrorKeeps DEF PipeInv
<1> QED
  BY <1>2, <1>4 DEF PipeInv

\* What shutdown() does to each mirror.
LEMMA ShutdownMirrors ==
  ASSUME PipeInv, Shutdown
  PROVE  /\ mirrorSockets' \in [Mirrors -> MirrorStates]
         /\ \A m \in Mirrors : /\ mirrorSockets'[m] = "none" <=> mirrorSockets[m] = "none"
                               /\ mirrorSockets'[m] \notin {"bound", "binding"}
<1>1. mirrorSockets' = [m \in DOMAIN mirrorSockets |->
                          CASE mirrorSockets[m] = "bound" -> "closing"
                            [] mirrorSockets[m] = "binding" -> "doomed"
                            [] OTHER -> mirrorSockets[m]]
  BY DEF Shutdown
<1>2. mirrorSockets \in [Mirrors -> MirrorStates] /\ DOMAIN mirrorSockets = Mirrors
  BY DEF PipeInv, MirrorInv, MirrorTyped
<1>3. ASSUME NEW m \in Mirrors
      PROVE  /\ mirrorSockets'[m] \in MirrorStates
             /\ mirrorSockets'[m] = "none" <=> mirrorSockets[m] = "none"
             /\ mirrorSockets'[m] \notin {"bound", "binding"}
  <2>1. mirrorSockets'[m] = CASE mirrorSockets[m] = "bound" -> "closing"
                              [] mirrorSockets[m] = "binding" -> "doomed"
                              [] OTHER -> mirrorSockets[m]
    BY <1>1, <1>2
  <2> QED
    BY <1>2, <2>1 DEF MirrorStates
<1> QED
  BY <1>1, <1>2, <1>3

LEMMA ShutdownKeeps ==
  ASSUME PipeInv, Shutdown
  PROVE  PipeInv'
<1>1. /\ UNCHANGED <<publicVars, held, browser, failures>>
      /\ UNCHANGED <<maxSockets, signaled, emitting, emitted>>
  BY DEF Shutdown, ClosePublicSockets
<1>2. PublicInv'
  BY <1>1, PublicSame DEF PipeInv, PublicInv, PublicTyped
<1>3. 1..maxSockets \subseteq Indices
  BY AskedFinite, PipeBounds DEF PipeInv, PublicInv, Widest, Indices
<1>4. Reported'
  <2>1. ASSUME NEW r \in signaled, NEW i \in 1..maxSockets
        PROVE  /\ mirrorSockets'[<<r, i>>] # "none"
               /\ mirrorSockets'[<<r, i>>] \notin {"bound", "binding"}
    <3>1. <<r, i>> \in Mirrors /\ mirrorSockets[<<r, i>>] # "none"
      BY <1>3 DEF PipeInv, MirrorInv, MirrorTyped, Reported, Mirrors
    <3> QED
      BY <3>1, ShutdownMirrors
  <2> QED
    BY <1>1, <2>1 DEF PipeInv, MirrorInv, Reported
<1>5. MirrorTyped'
  BY <1>1, ShutdownMirrors DEF PipeInv, MirrorInv, MirrorTyped, Mirrors
<1> QED
  BY <1>2, <1>4, <1>5 DEF PipeInv, MirrorInv

LEMMA SocketsStep == PipeInv /\ ClosingAsked /\ [PipeNext]_churnPipeVars => PipeInv'
<1> SUFFICES ASSUME PipeInv, ClosingAsked, [PipeNext]_churnPipeVars PROVE PipeInv'
  OBVIOUS
<1>0. PublicTyped
  BY DEF PipeInv, PublicInv
<1>1. ASSUME NEW a \in Interfaces, AddBrowserEndpoint(a)
      PROVE  PipeInv'
  <2>1. /\ UNCHANGED <<publicVars, maxSockets>> /\ held' = held /\ browser' \subseteq Interfaces
        /\ failures' \in 0..MaxFailures
    BY <1>0, <1>1 DEF AddBrowserEndpoint, mirrorVars, PublicTyped
  <2>2. UNCHANGED mirrorVars
    BY <1>1 DEF AddBrowserEndpoint
  <2> QED
    BY <2>1, <2>2, PublicSame, MirrorsSame DEF PipeInv
<1>2. ASSUME NEW e \in Endpoints, PortReleased(e)
      PROVE  PipeInv'
  <2>1. /\ UNCHANGED <<publicVars, maxSockets>> /\ held' \subseteq held
        /\ browser' \subseteq Interfaces /\ failures' \in 0..MaxFailures
    BY <1>0, <1>2 DEF PortReleased, mirrorVars, PublicTyped
  <2>2. UNCHANGED mirrorVars
    BY <1>2 DEF PortReleased
  <2> QED
    BY <2>1, <2>2, PublicSame, MirrorsSame DEF PipeInv
<1>3. CASE UNCHANGED churnPipeVars
  <2>1. /\ UNCHANGED <<publicVars, maxSockets>> /\ held' \subseteq held
        /\ browser' \subseteq Interfaces /\ failures' \in 0..MaxFailures
    BY <1>0, <1>3 DEF churnPipeVars, mirrorVars, PublicTyped
  <2>2. UNCHANGED mirrorVars
    BY <1>3 DEF churnPipeVars
  <2> QED
    BY <2>1, <2>2, PublicSame, MirrorsSame DEF PipeInv
<1>4. ASSUME NEW m \in Remotes \X Indices, MirrorBound(m) \/ MirrorFails(m) \/ MirrorDestroyed(m)
      PROVE  PipeInv'
  BY <1>4, MirrorBoundKeeps, MirrorDestroyedKeeps DEF Mirrors
<1>5. ASSUME NEW e \in Endpoints, PublicDestroyed(e)
      PROVE  PipeInv'
  <2>1. publicPorts[e] # "none"
    BY <1>5 DEF PublicDestroyed, ClosingAsked
  <2> QED
    BY <1>5, <2>1, PublicDestroyedKeeps
<1> QED
  BY <1>1, <1>2, <1>3, <1>4, <1>5, BindLocalKeeps, OnIncomingDataKeeps, TryBindKeeps,
     BindRemoteKeeps, ShutdownKeeps DEF PipeNext

LEMMA SocketsInit == PipeInit => PipeInv
<1> SUFFICES ASSUME PipeInit PROVE PipeInv
  OBVIOUS
<1>1. PublicTyped
  <2>1. /\ publicSockets \in [Interfaces -> Seq(Ports)] /\ publicPorts \in [Endpoints -> PortStates]
        /\ delay \in [Endpoints -> {10} \cup 20..(2 * DelayLimit)]
    BY DEF PipeInit, PortStates
  <2>2. failures \in 0..MaxFailures
    BY PipeBounds DEF PipeInit
  <2> QED
    BY <2>1, <2>2 DEF PipeInit, PublicTyped
<1>2. Listed /\ Delays
  <2>1. \A a \in Interfaces : publicSockets[a] = <<>>
    BY DEF PipeInit
  <2>2. Listed
    BY <2>1 DEF Listed
  <2> QED
    BY <2>2 DEF PipeInit, Delays
<1>3. Widest
  <2>1. \A a \in Interfaces : Len(publicSockets[a]) = 0
    BY DEF PipeInit
  <2>2. Asked = {} /\ Cardinality(Asked) = 0
    <3>1. Asked = {}
      BY DEF PipeInit, Asked
    <3> QED
      BY <3>1, FS_EmptySet
  <2> QED
    BY <2>1, <2>2, PipeBounds DEF PipeInit, Widest
<1>4. MirrorInv
  BY DEF PipeInit, MirrorInv, MirrorTyped, Reported, Mirrors, MirrorStates
<1> QED
  BY <1>1, <1>2, <1>3, <1>4 DEF PipeInv, PublicInv

\* What shutdown() has taken.
ShutTyped ==
  /\ closing \subseteq Endpoints /\ down \in BOOLEAN
  /\ hadPorts \subseteq Endpoints /\ hadMirrors \subseteq Mirrors

Shut == ShutTyped /\ ClosingAsked /\ ShutdownTakesAll /\ (~down => closing = {})

\* A step that leaves what shutdown() keeps, and takes no socket of it away.
LEMMA ShutSame ==
  ASSUME Shut, UNCHANGED shutdownVars,
         \A e \in Endpoints : /\ publicPorts[e] # "none" => publicPorts'[e] # "none"
                              /\ publicPorts[e] = "closed" => publicPorts'[e] = "closed",
         \A m \in Mirrors : mirrorSockets[m] \notin {"none", "binding", "bound"}
                            => mirrorSockets'[m] \notin {"none", "binding", "bound"}
  PROVE  Shut'
<1>1. closing' = closing /\ down' = down /\ hadPorts' = hadPorts /\ hadMirrors' = hadMirrors
  BY DEF shutdownVars
<1> QED
  BY <1>1 DEF Shut, ShutTyped, ClosingAsked, ShutdownTakesAll

LEMMA ShutStep == PipeInv /\ Shut /\ [PipeNext]_churnPipeVars => Shut'
<1> SUFFICES ASSUME PipeInv, Shut, [PipeNext]_churnPipeVars PROVE Shut'
  OBVIOUS
<1>1. /\ publicPorts \in [Endpoints -> PortStates] /\ mirrorSockets \in [Mirrors -> MirrorStates]
      /\ DOMAIN mirrorSockets = Mirrors
  BY DEF PipeInv, PublicInv, PublicTyped, MirrorInv, MirrorTyped
<1>2. CASE Shutdown
  <2>1. /\ down' = TRUE /\ publicPorts' = publicPorts
        /\ closing' = {e \in Endpoints : publicPorts[e] # "none"} /\ hadPorts' = closing'
        /\ hadMirrors' = {m \in Mirrors : mirrorSockets[m] # "none"}
    BY <1>1, <1>2 DEF Shutdown, ClosePublicSockets, publicVars
  <2>2. \A m \in hadMirrors' : mirrorSockets'[m] \notin {"none", "binding", "bound"}
    BY <1>2, <2>1, ShutdownMirrors
  <2> QED
    BY <2>1, <2>2 DEF Shut, ShutTyped, ClosingAsked, ShutdownTakesAll
<1>3. ASSUME NEW m \in Mirrors, MirrorBound(m) \/ MirrorFails(m) \/ MirrorDestroyed(m)
      PROVE  Shut'
  <2>1. UNCHANGED <<publicPorts, shutdownVars>>
    BY <1>3 DEF MirrorBound, MirrorFails, MirrorDestroyed, publicVars
  <2>2. PICK v \in {"bound", "closing", "closed", "failed"} :
          /\ mirrorSockets' = [mirrorSockets EXCEPT ![m] = v]
          /\ v = "bound" => mirrorSockets[m] = "binding"
    BY <1>3 DEF MirrorBound, MirrorFails, MirrorDestroyed
  <2>3. \A n \in Mirrors : mirrorSockets'[n] = IF n = m THEN v ELSE mirrorSockets[n]
    BY <1>1, <2>2
  <2> QED
    BY <2>1, <2>2, <2>3, ShutSame
<1>4. ASSUME NEW e \in Endpoints, TryBind(e) PROVE Shut'
  <2>1. /\ UNCHANGED <<mirrorSockets, shutdownVars>> /\ publicPorts[e] = "binding"
        /\ publicPorts' = publicPorts
           \/ \E v \in {"bound", "failed", "binding"} : publicPorts' = [publicPorts EXCEPT ![e] = v]
    <3>1. CASE e \in held
      BY <1>1, <1>4, <3>1 DEF TryBind, Retry, mirrorVars
    <3>2. CASE e \notin held
      BY <1>4, <3>2 DEF TryBind, Retry, mirrorVars
    <3> QED
      BY <3>1, <3>2
  <2>2. \A d \in Endpoints : /\ publicPorts[d] # "none" => publicPorts'[d] # "none"
                             /\ publicPorts[d] = "closed" => publicPorts'[d] = "closed"
    BY <1>1, <2>1
  <2> QED
    BY <2>1, <2>2, ShutSame
<1>5. ASSUME NEW a \in Interfaces, NEW i \in Indices, NEW r \in Remotes, OnIncomingData(a, i, r)
      PROVE  Shut'
  <2>1. /\ UNCHANGED <<publicPorts, shutdownVars>> /\ mirrorSockets[<<r, i>>] = "none"
        /\ mirrorSockets' = [mirrorSockets EXCEPT ![<<r, i>>] = "binding"]
    BY <1>5 DEF OnIncomingData, publicVars
  <2>2. \A n \in Mirrors : mirrorSockets'[n] = IF n = <<r, i>> THEN "binding" ELSE mirrorSockets[n]
    BY <1>1, <2>1
  <2> QED
    BY <2>1, <2>2, ShutSame
<1>6. ASSUME NEW ms, GetMirrorsAndEmit(ms)
      PROVE  \A m \in Mirrors : mirrorSockets[m] \notin {"none", "binding", "bound"}
                               => mirrorSockets'[m] = mirrorSockets[m]
  BY <1>1, <1>6 DEF GetMirrorsAndEmit
<1>7. ASSUME NEW a \in Interfaces, NEW p \in Ports, BindLocal(a, p) PROVE Shut'
  <2>1. UNCHANGED shutdownVars
    BY <1>7 DEF BindLocal
  <2>2. \A e \in Endpoints : /\ publicPorts[e] # "none" => publicPorts'[e] # "none"
                             /\ publicPorts[e] = "closed" => publicPorts'[e] = "closed"
    <3>1. CASE publicPorts[<<a, p>>] = "none"
      <4>1. publicPorts' = [publicPorts EXCEPT ![<<a, p>>] = "binding"]
        BY <1>7, <3>1 DEF BindLocal
      <4> QED
        BY <1>1, <3>1, <4>1
    <3>2. CASE publicPorts[<<a, p>>] # "none"
      BY <1>7, <3>2 DEF BindLocal
    <3> QED
      BY <3>1, <3>2
  <2>3. \/ mirrorSockets' = mirrorSockets
        \/ \E ms : GetMirrorsAndEmit(ms)
    BY <1>7 DEF BindLocal, AddPublicSocket, IncreaseReplication
  <2> QED
    BY <1>6, <2>1, <2>2, <2>3, ShutSame
<1>8. ASSUME NEW r \in Remotes, BindRemote(r) PROVE Shut'
  <2>1. UNCHANGED <<publicPorts, shutdownVars>> /\ \E ms : GetMirrorsAndEmit(ms)
    BY <1>8 DEF BindRemote, publicVars
  <2> QED
    BY <1>6, <2>1, ShutSame
<1>9. ASSUME NEW e \in Endpoints, PublicDestroyed(e) PROVE Shut'
  <2>1. /\ e \in closing /\ closing' = closing \ {e}
        /\ publicPorts' = [publicPorts EXCEPT ![e] = "closed"]
        /\ UNCHANGED <<mirrorSockets, down, hadPorts, hadMirrors>>
    BY <1>9 DEF PublicDestroyed, mirrorVars
  <2>2. \A d \in Endpoints : publicPorts'[d] = IF d = e THEN "closed" ELSE publicPorts[d]
    BY <1>1, <2>1
  <2> QED
    BY <2>1, <2>2 DEF Shut, ShutTyped, ClosingAsked, ShutdownTakesAll
<1>10. ASSUME UNCHANGED <<publicPorts, mirrorSockets, shutdownVars>> PROVE Shut'
  BY <1>10, ShutSame
<1>11. ASSUME NEW a \in Interfaces, AddBrowserEndpoint(a) PROVE Shut'
  BY <1>10, <1>11 DEF AddBrowserEndpoint, publicVars, mirrorVars
<1>12. ASSUME NEW e \in Endpoints, PortReleased(e) PROVE Shut'
  BY <1>10, <1>12 DEF PortReleased, publicVars, mirrorVars
<1>13. CASE UNCHANGED churnPipeVars
  BY <1>10, <1>13 DEF churnPipeVars, publicVars, mirrorVars
<1> QED
  BY <1>2, <1>3, <1>4, <1>5, <1>7, <1>8, <1>9, <1>11, <1>12, <1>13 DEF PipeNext, Mirrors

LEMMA SocketsAlways == PipeSpec => [](PipeInv /\ Shut)
<1>1. PipeInit => Shut
  BY DEF PipeInit, Shut, ShutTyped, ClosingAsked, ShutdownTakesAll
<1>2. Shut => ClosingAsked
  BY DEF Shut
<1> QED
  BY <1>1, <1>2, SocketsStep, SocketsInit, ShutStep, PTL DEF PipeSpec

\* Every variable of a churn pipe keeps its type for any interfaces, ports and limits: no port
\* has two sockets, the delay of the retries of src/src/churn-pipe/churn-pipe.ts ends below twice
\* its limit, and there is no mirror with an index above the number of public sockets.
THEOREM PipeTyped == PipeSpec => []PipeTypeOK
<1>1. PipeInv /\ Shut => PipeTypeOK
  <2> SUFFICES ASSUME PipeInv, Shut PROVE PipeTypeOK
    OBVIOUS
  <2>1. \A a \in Interfaces : publicSockets[a] \in Seq(Ports) /\ IsInjective(publicSockets[a])
    BY DEF PipeInv, PublicInv, PublicTyped, Listed, IsInjective
  <2>2. maxSockets \in Nat
    BY DEF PipeInv, PublicInv, Widest
  <2> QED
    BY <2>1, <2>2 DEF PipeInv, PublicInv, PublicTyped, MirrorInv, MirrorTyped, PortStates,
                      MirrorStates, Mirrors, Shut, ShutTyped, PipeTypeOK
<1> QED
  BY <1>1, SocketsAlways, PTL

\* In whatever order ports are bound, endpoints signaled and packets received, and whenever the
\* pipe is shut down: maxSocketsPerInterface_ is the longest list of public sockets, and each
\* endpoint that was signaled has a mirror for each index, that is or will be reported.
THEOREM MirrorsAlwaysComplete == PipeSpec => []MirrorsComplete
<1>1. PipeInv => MirrorsComplete
  <2> SUFFICES ASSUME PipeInv PROVE MirrorsComplete
    OBVIOUS
  <2> DEFINE lengths == {Len(publicSockets[a]) : a \in Interfaces}
  <2>1. /\ maxSockets \in lengths /\ maxSockets \in Nat
        /\ \A n \in lengths : n <= maxSockets /\ n \in Nat
    BY DEF PipeInv, PublicInv, PublicTyped, Widest
  <2> HIDE DEF lengths
  <2>2. \A x \in lengths : (\A y \in lengths : x >= y) => x = maxSockets
    BY <2>1
  <2>3. maxSockets = Max(lengths)
    BY <2>1, <2>2 DEF Max
  <2> QED
    BY <2>3 DEF PipeInv, MirrorInv, Reported, MirrorsComplete, lengths
<1> QED
  BY <1>1, SocketsAlways, PTL

\* The safety that is behind ShutdownClosesAll: no socket that exists when shutdown() of
\* src/src/churn-pipe/churn-pipe.ts is called escapes it, for any interfaces, ports and
\* endpoints: its public sockets are being destroyed or closed, its mirrors closed, failed or
\* bound to be destroyed, and no retry, bind(), packet or call that comes later reopens one.
\* (What such a packet or call opens anew is not covered: shutdown() does not close it.)
THEOREM ClosedForGood == PipeSpec => []ShutdownTakesAll
<1>1. Shut => ShutdownTakesAll
  BY DEF Shut
<1> QED
  BY <1>1, SocketsAlways, PTL

-----------------------------------------------------------------------------
(* Fragments *)

LEMMA Least ==
  ASSUME NEW T \in SUBSET Nat, T # {}
  PROVE  \E n \in T : \A m \in T : n <= m
<1>1. PICK n \in T : \A m \in T : ~(<<m, n>> \in OpToRel(<, Nat))
  BY NatLessThanWellFounded, WFMin, Zenon
<1>2. \A m \in T : ~(m < n)
  BY <1>1 DEF OpToRel
<1> QED
  BY <1>2

LEMMA FillIsPositive ==
  ASSUME NEW l \in Nat
  PROVE  FillSize(l) \in 1..16 /\ PacketSize(l) = l + 52 + FillSize(l)
<1>1. (l + HEADER_SIZE + IV_SIZE) % CHUNK_SIZE \in 0..15
  BY DEF HEADER_SIZE, IV_SIZE, CHUNK_SIZE
<1>2. FillSize(l) \in 1..16
  BY <1>1 DEF FillSize, CHUNK_SIZE
<1> QED
  BY <1>2 DEF PacketSize, HEADER_SIZE, IV_SIZE

\* The body of makeFragments_, where f has the results for shorter packets.
First(l) == maxLength - (HEADER_SIZE + IV_SIZE + FillSize(l))
Cut(f, l) == IF PacketSize(l) <= maxLength THEN <<l>>
             ELSE f[First(l)] \o f[l - First(l)]

\* It is called again for shorter packets only, and comes to an end.
LEMMA CutsShorter ==
  ASSUME NEW l \in Nat, ~(PacketSize(l) <= maxLength)
  PROVE  First(l) \in 1..(l - 1) /\ l - First(l) \in 1..(l - 1)
<1>1. maxLength \in Nat /\ maxLength > 68
  BY DatagramsAssumption DEF HEADER_SIZE, IV_SIZE, CHUNK_SIZE
<1>2. First(l) = maxLength - (52 + FillSize(l))
  BY DEF First, HEADER_SIZE, IV_SIZE
<1> QED
  BY <1>1, <1>2, FillIsPositive

LEMMA CutsExist ==
  ASSUME NEW limit \in Nat
  PROVE  \E f : f = [l \in 0..limit |-> Cut(f, l)]
<1> DEFINE Has(m) == \E f : f = [l \in 0..m |-> Cut(f, l)]
           bad == {m \in 0..limit : ~Has(m)}
<1>1. Has(0)
  <2>1. PICK f : f = [l \in 0..0 |-> <<l>>]
    OBVIOUS
  <2>2. PacketSize(0) <= maxLength
    BY CutsShorter
  <2>3. \A l \in 0..0 : f[l] = Cut(f, l)
    BY <2>1, <2>2 DEF Cut
  <2> QED
    BY <2>1, <2>3
<1>2. ASSUME NEW m \in 1..limit, Has(m - 1) PROVE Has(m)
  <2>1. PICK f : f = [l \in 0..(m - 1) |-> Cut(f, l)]
    BY <1>2
  <2>2. PICK g : g = [l \in 0..m |-> IF l = m THEN Cut(f, m) ELSE f[l]]
    OBVIOUS
  <2>3. ASSUME NEW l \in 0..m PROVE g[l] = Cut(g, l)
    <3>1. Cut(g, l) = Cut(f, l)
      <4>1. CASE PacketSize(l) <= maxLength
        BY <4>1 DEF Cut
      <4>2. CASE ~(PacketSize(l) <= maxLength)
        <5>1. First(l) \in 1..(l - 1) /\ l - First(l) \in 1..(l - 1)
          BY <4>2, CutsShorter
        <5>2. \A k \in 1..(l - 1) : k \in 0..m /\ k # m
          OBVIOUS
        <5>3. g[First(l)] = f[First(l)] /\ g[l - First(l)] = f[l - First(l)]
          BY <2>2, <5>1, <5>2
        <5> QED
          BY <5>3 DEF Cut
      <4> QED
        BY <4>1, <4>2
    <3>2. CASE l = m
      BY <2>2, <3>1, <3>2
    <3>3. CASE l \in 0..(m - 1)
      <4>1. l # m
        BY <3>3
      <4>2. g[l] = f[l]
        BY <2>2, <4>1
      <4>3. f[l] = Cut(f, l)
        BY <2>1, <3>3
      <4> QED
        BY <3>1, <4>2, <4>3
    <3> QED
      BY <3>2, <3>3
  <2>4. g = [l \in 0..m |-> Cut(g, l)]
    BY <2>2, <2>3
  <2> QED
    BY <2>4
<1> HIDE DEF Has
<1>3. bad = {}
  <2>1. SUFFICES ASSUME bad # {} PROVE FALSE
    OBVIOUS
  <2>2. bad \in SUBSET Nat
    OBVIOUS
  <2>3. PICK m \in bad : \A k \in bad : m <= k
    <3> HIDE DEF bad
    <3> QED
      BY <2>1, <2>2, Least
  <2>4. m \in 1..limit /\ m - 1 \in 0..limit /\ ~(m <= m - 1)
    BY <1>1, <2>3
  <2> QED
    BY <1>2, <2>3, <2>4
<1> QED
  BY <1>3 DEF Has

\* The lengths parts fill a packet of the length l, without gap: at has where each begins.
Fill(parts, l) ==
  \E at \in [0..Len(parts) -> Nat] :
    /\ at[0] = 0 /\ at[Len(parts)] = l
    /\ \A n \in 1..Len(parts) : at[n] = at[n - 1] + parts[n]

\* What makeFragments_ does to a packet.
Fit(parts, l) ==
  /\ parts \in Seq(Nat) /\ parts # <<>>
  /\ \A n \in 1..Len(parts) : PacketSize(parts[n]) <= maxLength
  /\ Fill(parts, l)

LEMMA FitConcat ==
  ASSUME NEW a \in Nat, NEW b \in Nat, NEW s, NEW t, Fit(s, a), Fit(t, b)
  PROVE  Fit(s \o t, a + b)
<1> DEFINE w == s \o t
           m == Len(s)
           k == Len(t)
<1>1. /\ s \in Seq(Nat) /\ t \in Seq(Nat) /\ s # <<>> /\ m \in Nat /\ k \in Nat /\ m > 0
  BY DEF Fit
<1>2. /\ w \in Seq(Nat) /\ Len(w) = m + k
      /\ \A n \in 1..(m + k) : w[n] = IF n <= m THEN s[n] ELSE t[n - m]
  BY <1>1, ConcatProperties
<1>3. PICK f \in [0..m -> Nat] : /\ f[0] = 0 /\ f[m] = a
                                 /\ \A n \in 1..m : f[n] = f[n - 1] + s[n]
  BY DEF Fit, Fill
<1>4. PICK g \in [0..k -> Nat] : /\ g[0] = 0 /\ g[k] = b
                                 /\ \A n \in 1..k : g[n] = g[n - 1] + t[n]
  BY DEF Fit, Fill
<1> DEFINE h == [n \in 0..(m + k) |-> IF n <= m THEN f[n] ELSE a + g[n - m]]
<1> HIDE DEF w, m, k
<1>5. h \in [0..(m + k) -> Nat] /\ h[0] = 0 /\ h[m + k] = a + b
  <2>1. ASSUME NEW n \in 0..(m + k) PROVE h[n] \in Nat
    <3>1. CASE n <= m
      BY <1>1, <1>3, <3>1
    <3>2. CASE ~(n <= m)
      <4>1. n - m \in 0..k
        BY <1>1, <3>2
      <4>2. g[n - m] \in Nat
        BY <4>1
      <4> QED
        BY <3>2, <4>2
    <3> QED
      BY <3>1, <3>2
  <2>2. h[m + k] = a + b
    <3>1. CASE k = 0
      BY <1>1, <1>3, <1>4, <3>1
    <3>2. CASE k # 0
      <4>1. ~(m + k <= m) /\ (m + k) - m = k /\ m + k \in 0..(m + k)
        BY <1>1, <3>2
      <4> QED
        BY <1>4, <4>1
    <3> QED
      BY <3>1, <3>2
  <2> QED
    BY <1>1, <1>3, <2>1, <2>2
<1>6. ASSUME NEW n \in 1..(m + k) PROVE h[n] = h[n - 1] + w[n]
  <2>1. CASE n <= m
    <3>1. n \in 1..m /\ n - 1 \in 0..m /\ n \in 0..(m + k) /\ n - 1 \in 0..(m + k) /\ n - 1 <= m
      BY <1>1, <2>1
    <3>2. h[n] = f[n] /\ h[n - 1] = f[n - 1] /\ w[n] = s[n]
      BY <1>2, <2>1, <3>1
    <3> QED
      BY <1>3, <3>1, <3>2
  <2>2. CASE n = m + 1
    <3>1. n \in 0..(m + k) /\ ~(n <= m) /\ n - 1 = m /\ n - m = 1 /\ 1 \in 1..k /\ m \in 0..(m + k)
      BY <1>1, <2>2
    <3>2. h[n] = a + g[1] /\ h[n - 1] = f[m] /\ w[n] = t[1]
      <4>1. w[n] = t[1]
        BY <1>2, <3>1
      <4>2. h[n] = a + g[n - m] /\ h[m] = f[m]
        BY <1>1, <3>1
      <4> QED
        BY <3>1, <4>1, <4>2
    <3>3. g[1] = g[0] + t[1] /\ t[1] \in Nat
      <4>1. g[1] = g[1 - 1] + t[1]
        BY <1>4, <3>1
      <4>2. t[1] \in Nat
        BY <1>1, <3>1 DEF k
      <4> QED
        BY <4>1, <4>2
    <3> QED
      BY <1>3, <1>4, <3>2, <3>3
  <2>3. CASE n > m + 1
    <3>1. /\ n \in 0..(m + k) /\ n - 1 \in 0..(m + k) /\ ~(n <= m) /\ ~(n - 1 <= m)
          /\ n - m \in 1..k /\ (n - 1) - m = (n - m) - 1 /\ n - m \in 0..k
          /\ (n - m) - 1 \in 0..k
      BY <1>1, <2>3
    <3>2. h[n] = a + g[n - m] /\ h[n - 1] = a + g[(n - m) - 1] /\ w[n] = t[n - m]
      BY <1>2, <3>1
    <3>3. g[n - m] = g[(n - m) - 1] + t[n - m] /\ t[n - m] \in Nat /\ g[(n - m) - 1] \in Nat
      <4>1. \A i \in 1..k : g[i] = g[i - 1] + t[i] /\ t[i] \in Nat
        BY <1>1, <1>4 DEF k
      <4>2. \A i \in 0..k : g[i] \in Nat
        BY <1>4
      <4> QED
        BY <3>1, <4>1, <4>2
    <3> QED
      BY <3>2, <3>3
  <2> QED
    BY <1>1, <2>1, <2>2, <2>3
<1>7. Fill(w, a + b)
  <2> HIDE DEF h
  <2> QED
    BY <1>1, <1>2, <1>5, <1>6 DEF Fill
<1>8. ASSUME NEW n \in 1..(m + k) PROVE PacketSize(w[n]) <= maxLength
  <2>1. \A i \in 1..m : PacketSize(s[i]) <= maxLength
    BY DEF Fit, m
  <2>2. \A i \in 1..k : PacketSize(t[i]) <= maxLength
    BY DEF Fit, k
  <2>3. CASE n <= m
    <3>1. n \in 1..m /\ w[n] = s[n]
      BY <1>1, <1>2, <2>3
    <3> QED
      BY <2>1, <3>1
  <2>4. CASE ~(n <= m)
    <3>1. n \in Nat /\ n > m /\ n <= m + k
      BY <1>1, <2>4
    <3>2. n - m \in 1..k
      BY <1>1, <3>1
    <3>3. w[n] = t[n - m]
      BY <1>2, <2>4
    <3> QED
      BY <2>2, <3>2, <3>3
  <2> QED
    BY <2>3, <2>4
<1>9. w # <<>>
  BY <1>1, <1>2
<1> QED
  BY <1>2, <1>7, <1>8, <1>9 DEF Fit, w

LEMMA FitOne ==
  ASSUME NEW l \in Nat, PacketSize(l) <= maxLength
  PROVE  Fit(<<l>>, l)
<1> DEFINE at == [n \in 0..1 |-> IF n = 0 THEN 0 ELSE l]
<1>1. at \in [0..1 -> Nat] /\ at[0] = 0 /\ at[1] = l
  OBVIOUS
<1>2. \A n \in 1..1 : n = 1
  OBVIOUS
<1>3. <<l>> \in Seq(Nat) /\ Len(<<l>>) = 1 /\ <<l>>[1] = l /\ <<l>> # <<>>
  OBVIOUS
<1> HIDE DEF at
<1>4. \A n \in 1..1 : at[n] = at[n - 1] + <<l>>[n]
  BY <1>1, <1>2, <1>3
<1>5. Fill(<<l>>, l)
  BY <1>1, <1>3, <1>4 DEF Fill
<1> QED
  BY <1>2, <1>3, <1>5 DEF Fit

LEMMA MakeFragmentsFit ==
  ASSUME NEW limit \in Nat, NEW l \in 0..limit
  PROVE  Fit(MakeFragments(maxLength, limit)[l], l)
<1> DEFINE f == CHOOSE g : g = [n \in 0..limit |-> Cut(g, n)]
           bad == {n \in 0..limit : ~Fit(f[n], n)}
<1>1. f = [n \in 0..limit |-> Cut(f, n)]
  BY CutsExist
<1>2. MakeFragments(maxLength, limit) = f
  BY DEF MakeFragments, Cut, First
<1> HIDE DEF f
<1>3. bad = {}
  <2>1. SUFFICES ASSUME bad # {} PROVE FALSE
    OBVIOUS
  <2>2. bad \in SUBSET Nat
    OBVIOUS
  <2>3. PICK n \in bad : \A k \in bad : n <= k
    <3> HIDE DEF bad
    <3> QED
      BY <2>1, <2>2, Least
  <2>4. f[n] = Cut(f, n) /\ n \in Nat
    BY <1>1, <2>3
  <2>5. ~(PacketSize(n) <= maxLength)
    BY <2>3, <2>4, FitOne DEF Cut
  <2> DEFINE a == First(n)
             b == n - First(n)
  <2>6. a \in 1..(n - 1) /\ b \in 1..(n - 1) /\ a + b = n
    BY <2>4, <2>5, CutsShorter
  <2>7. f[n] = f[a] \o f[b]
    BY <2>4, <2>5 DEF Cut
  <2> HIDE DEF a, b
  <2>8. a \in 0..limit /\ b \in 0..limit /\ ~(n <= a) /\ ~(n <= b) /\ a \in Nat /\ b \in Nat
    BY <2>3, <2>6
  <2>9. Fit(f[a], a) /\ Fit(f[b], b)
    BY <2>3, <2>8
  <2>10. Fit(f[n], n)
    BY <2>6, <2>7, <2>8, <2>9, FitConcat
  <2> QED
    BY <2>3, <2>10
<1> QED
  BY <1>2, <1>3

\* However long a packet is, and whatever the longest one allowed on the wire:
\* makeFragments_ of src/src/transformers/fragmentationShaper.ts comes to an end, its fragments
\* make up the packet without gap or overlap, and each of them with its header, the vector of
\* the cipher and its fill is not longer than allowed.
THEOREM FragmentsMakeUpThePacket ==
  \A l \in Nat : Fit(MakeFragments(maxLength, l)[l], l)
  BY MakeFragmentsFit

-----------------------------------------------------------------------------
(* Datagrams *)

LEMMA DatagramBounds ==
  /\ maxLength \in Nat /\ TARGET_DELAY \in Nat /\ BASE_INTERVAL \in Nat /\ MaxTime \in Nat
  /\ MaxFaults \in Nat /\ TRACED \in Nat /\ TRACED >= 1 /\ MaxTime >= 1
  /\ Lengths \in Seq(Nat) /\ Len(Lengths) \in Nat /\ \A p \in 1..Len(Lengths) : Lengths[p] \in Nat
  BY DatagramsAssumption

\* In how many fragments a packet is cut.
Parts(p) == Len(MakeFragments(maxLength, Lengths[p])[Lengths[p]])

LEMMA PartsPositive ==
  ASSUME NEW p \in 1..Len(Lengths)
  PROVE  Parts(p) \in Nat \ {0}
<1>1. Fit(MakeFragments(maxLength, Lengths[p])[Lengths[p]], Lengths[p])
  BY DatagramBounds, MakeFragmentsFit
<1> QED
  BY <1>1 DEF Fit, Parts

LEMMA LongestPacket ==
  ASSUME NEW N \in Nat, NEW L, \A p \in 1..N : L[p] \in Nat, N # 0
  PROVE  \E m \in 1..N : \A p \in 1..N : L[p] <= L[m]
<1> DEFINE Has(n) == \E m \in 1..n : \A p \in 1..n : L[p] <= L[m]
           bad == {n \in 1..N : ~Has(n)}
<1>1. 1 \in 1..N => Has(1)
  OBVIOUS
<1>2. ASSUME NEW n \in 2..N, Has(n - 1) PROVE Has(n)
  <2>1. PICK m \in 1..(n - 1) : \A p \in 1..(n - 1) : L[p] <= L[m]
    BY <1>2
  <2>2. \A p \in 1..n : p \in 1..(n - 1) \/ p = n
    OBVIOUS
  <2>3. m \in 1..n /\ n \in 1..n /\ L[m] \in Nat /\ L[n] \in Nat
    OBVIOUS
  <2>4. CASE L[n] <= L[m]
    BY <2>1, <2>2, <2>3, <2>4
  <2>5. CASE L[m] <= L[n]
    <3>1. \A p \in 1..(n - 1) : L[p] \in Nat
      OBVIOUS
    <3>2. \A p \in 1..(n - 1) : L[p] <= L[n]
      BY <2>1, <2>3, <2>5, <3>1
    <3> QED
      BY <2>2, <2>3, <3>2
  <2> QED
    BY <2>3, <2>4, <2>5
<1> HIDE DEF Has
<1>3. bad = {}
  <2>1. SUFFICES ASSUME bad # {} PROVE FALSE
    OBVIOUS
  <2>2. bad \in SUBSET Nat
    OBVIOUS
  <2>3. PICK n \in bad : \A k \in bad : n <= k
    <3> HIDE DEF bad
    <3> QED
      BY <2>1, <2>2, Least
  <2>4. n \in 2..N /\ n - 1 \in 1..N /\ ~(n <= n - 1)
    BY <1>1, <2>3
  <2> QED
    BY <1>2, <2>3, <2>4
<1> QED
  BY <1>3 DEF Has

LEMMA PartsBounded ==
  ASSUME NEW p \in 1..Len(Lengths)
  PROVE  Parts(p) \in 1..MostFragments /\ MostFragments \in Nat
<1> DEFINE L == [q \in 1..Len(Lengths) |-> Parts(q)]
           lens == {Len(MakeFragments(maxLength, l)[l]) : l \in Range(Lengths)}
<1>1. Range(Lengths) = {Lengths[q] : q \in 1..Len(Lengths)}
  BY DatagramBounds DEF Range
<1>2. lens = {Parts(q) : q \in 1..Len(Lengths)}
  BY <1>1 DEF Parts
<1>3. PICK m \in 1..Len(Lengths) : \A q \in 1..Len(Lengths) : Parts(q) <= Parts(m)
  <2>1. Len(Lengths) # 0 /\ \A q \in 1..Len(Lengths) : L[q] \in Nat
    BY DatagramBounds, PartsPositive
  <2>2. PICK m \in 1..Len(Lengths) : \A q \in 1..Len(Lengths) : L[q] <= L[m]
    <3> HIDE DEF L
    <3> QED
      BY <2>1, DatagramBounds, LongestPacket
  <2> QED
    BY <2>2
<1>4. Parts(m) \in lens /\ \A y \in lens : Parts(m) >= y
  BY <1>2, <1>3, PartsPositive
<1> HIDE DEF lens
<1>5. Max(lens) \in lens /\ \A y \in lens : Max(lens) >= y
  BY <1>4 DEF Max
<1>6. MostFragments = Max(lens)
  BY DEF MostFragments, lens
<1>7. Parts(p) \in lens /\ lens \subseteq Nat
  BY <1>2, PartsPositive
<1>8. MostFragments \in Nat /\ MostFragments >= Parts(p)
  BY <1>5, <1>6, <1>7
<1>9. Parts(p) \in Nat \ {0}
  BY PartsPositive
<1> QED
  BY <1>8, <1>9

\* The fragments of packet p when there are n of them.
Fragment(p, n, i) == [packet |-> p, index |-> i - 1, count |-> n]
Number(p) == IF Fragmenting THEN Parts(p) ELSE 1
Real == [packet : 1..Len(Lengths), index : 0..MostFragments, count : 1..MostFragments]

LEMMA FragmentsAre ==
  ASSUME NEW p \in 1..Len(Lengths)
  PROVE  /\ Number(p) \in 1..MostFragments
         /\ Fragments(p) \in Seq(Real) /\ Len(Fragments(p)) = Number(p)
         /\ \A i \in 1..Number(p) : Fragments(p)[i] = Fragment(p, Number(p), i)
         /\ Range(Fragments(p)) = {Fragment(p, Number(p), i) : i \in 1..Number(p)}
<1> DEFINE cut == IF Fragmenting THEN MakeFragments(maxLength, Lengths[p])[Lengths[p]]
                  ELSE <<Lengths[p]>>
<1>1. cut \in Seq(Nat) /\ Len(cut) = Number(p)
  <2>1. Fit(MakeFragments(maxLength, Lengths[p])[Lengths[p]], Lengths[p])
    BY DatagramBounds, MakeFragmentsFit
  <2>2. CASE Fragmenting
    BY <2>1, <2>2 DEF Fit, Number, Parts
  <2>3. CASE ~Fragmenting
    BY <2>3, DatagramBounds DEF Number
  <2> QED
    BY <2>2, <2>3
<1>2. Number(p) \in 1..MostFragments
  <2>1. 1 \in 1..MostFragments
    BY PartsBounded
  <2> QED
    BY <2>1, PartsBounded DEF Number
<1>3. Fragments(p) = [i \in DOMAIN cut |-> [packet |-> p, index |-> i - 1, count |-> Len(cut)]]
  BY DEF Fragments
<1> HIDE DEF cut
<1>4. DOMAIN cut = 1..Number(p)
  BY <1>1
<1>5. Fragments(p) = [i \in 1..Number(p) |-> Fragment(p, Number(p), i)]
  BY <1>1, <1>3, <1>4 DEF Fragment
<1>6. MostFragments \in Nat /\ Number(p) \in Nat
  BY <1>2, PartsBounded
<1>7. \A i \in 1..Number(p) : Fragment(p, Number(p), i) \in Real
  BY <1>2, <1>6 DEF Fragment, Real
<1>8. Fragments(p) \in Seq(Real) /\ Len(Fragments(p)) = Number(p)
  BY <1>5, <1>6, <1>7, IsASeq
<1> QED
  BY <1>2, <1>5, <1>8 DEF Range

-----------------------------------------------------------------------------
(* Shaping *)

Decoy(j) == [packet |-> Fake, index |-> j, count |-> 1]

LEMMA RealAreDatagrams ==
  /\ Real \subseteq Datagrams /\ \A d \in Real : d.packet # Fake
  /\ \A j \in InjectedIndices : Decoy(j) \in Datagrams
  BY DatagramBounds DEF Real, Datagrams, Decoy, Fake

LEMMA InjectedBounds ==
  /\ Head(Injected) \in Nat /\ Last(Injected) \in Nat
  /\ \A j \in InjectedIndices : j \in Nat /\ Head(Injected) <= j /\ j <= Last(Injected)
<1>1. /\ Injected \in Seq(Nat) /\ Injected # <<>>
      /\ \A i, j \in DOMAIN Injected : i < j => Injected[i] < Injected[j]
  BY DatagramsAssumption
<1>2. /\ Len(Injected) \in Nat /\ Len(Injected) >= 1 /\ DOMAIN Injected = 1..Len(Injected)
      /\ \A i \in 1..Len(Injected) : Injected[i] \in Nat
  BY <1>1
<1>3. Head(Injected) = Injected[1] /\ Last(Injected) = Injected[Len(Injected)]
  BY <1>1 DEF Last
<1>4. 1 \in 1..Len(Injected) /\ Len(Injected) \in 1..Len(Injected)
  BY <1>2
<1>5. ASSUME NEW i \in 1..Len(Injected)
      PROVE  Injected[1] <= Injected[i] /\ Injected[i] <= Injected[Len(Injected)]
  <2> DEFINE l == Len(Injected)
  <2>1. l \in Nat /\ i \in 1..l /\ 1 \in 1..l /\ l \in 1..l
    BY <1>2
  <2>2. \A j \in 1..l : Injected[j] \in Nat
    BY <1>2
  <2>3. \A j, k \in 1..l : j < k => Injected[j] < Injected[k]
    BY <1>1, <1>2
  <2> HIDE DEF l
  <2>4. Injected[1] <= Injected[i]
    <3>1. 1 < i \/ i = 1
      BY <2>1
    <3> QED
      BY <2>1, <2>2, <2>3, <3>1
  <2>5. Injected[i] <= Injected[l]
    <3>1. i < l \/ i = l
      BY <2>1
    <3> QED
      BY <2>1, <2>2, <2>3, <3>1
  <2> QED
    BY <2>4, <2>5 DEF l
<1>6. InjectedIndices = {Injected[i] : i \in 1..Len(Injected)}
  BY <1>2 DEF InjectedIndices, Range
<1> QED
  BY <1>2, <1>3, <1>4, <1>5, <1>6

\* The packets r follow a stream of n.
Run(n, r) ==
  /\ r \in Seq(Datagrams)
  /\ \A k \in 1..Len(r) : n + k - 1 \in InjectedIndices /\ r[k] = Decoy(n + k - 1)

LEMMA InjectIsARun ==
  ASSUME NEW n \in Nat
  PROVE  Run(n, Inject(n)) /\ n + Len(Inject(n)) \notin InjectedIndices
<1> DEFINE free == {j \in n..(Last(Injected) + 1 + n) : j \notin InjectedIndices}
           next == Min(free)
<1>1. Last(Injected) \in Nat /\ \A j \in InjectedIndices : j \in Nat /\ j <= Last(Injected)
  BY InjectedBounds
<1>2. Last(Injected) + 1 + n \in free
  BY <1>1
<1>3. next \in free /\ \A j \in free : next <= j
  <2>1. free \in SUBSET Nat /\ free # {}
    BY <1>1, <1>2
  <2> HIDE DEF free
  <2>2. \E x \in free : \A y \in free : x <= y
    BY <2>1, Least
  <2> QED
    BY <2>2 DEF Min
<1> HIDE DEF next
<1>4. next \in Nat /\ next >= n /\ next <= Last(Injected) + 1 + n
  BY <1>1, <1>3
<1>5. \A j \in n..(next - 1) : j \in InjectedIndices
  BY <1>1, <1>3, <1>4
<1>6. Inject(n) = [k \in 1..(next - n) |-> Decoy(n + k - 1)]
  BY DEF Inject, next, free, Decoy
<1>7. next - n \in Nat
  BY <1>4
<1>8. \A k \in 1..(next - n) : n + k - 1 \in InjectedIndices /\ Decoy(n + k - 1) \in Datagrams
  <2>1. \A k \in 1..(next - n) : n + k - 1 \in n..(next - 1)
    BY <1>4
  <2> QED
    BY <1>5, <2>1, RealAreDatagrams
<1>9. Inject(n) \in Seq(Datagrams) /\ Len(Inject(n)) = next - n
  BY <1>6, <1>7, <1>8, IsASeq
<1>10. Run(n, Inject(n))
  BY <1>6, <1>8, <1>9 DEF Run
<1>11. n + Len(Inject(n)) = next
  BY <1>4, <1>9
<1>12. next \notin InjectedIndices
  BY <1>3
<1> QED
  BY <1>10, <1>11, <1>12

\* s, that follows a stream of n, has the datagrams R, and injected ones where the
\* configuration wants them.
Placed(n, s, R) ==
  /\ s \in Seq(Datagrams)
  /\ \A i \in 1..Len(s) : IF n + i - 1 \in InjectedIndices THEN s[i] = Decoy(n + i - 1)
                                                          ELSE s[i] \in R
  /\ \A d \in R : \E i \in 1..Len(s) : s[i] = d

LEMMA PlacedRun ==
  ASSUME NEW n \in Nat, NEW s, NEW r, NEW R, Placed(n, s, R), Run(n + Len(s), r)
  PROVE  Placed(n, s \o r, R) /\ Len(s \o r) = Len(s) + Len(r)
<1>1. /\ s \in Seq(Datagrams) /\ r \in Seq(Datagrams) /\ Len(s) \in Nat /\ Len(r) \in Nat
  BY DEF Placed, Run
<1>2. /\ s \o r \in Seq(Datagrams) /\ Len(s \o r) = Len(s) + Len(r)
      /\ \A i \in 1..(Len(s) + Len(r)) :
           (s \o r)[i] = IF i <= Len(s) THEN s[i] ELSE r[i - Len(s)]
  BY <1>1, ConcatProperties
<1>3. ASSUME NEW i \in 1..(Len(s) + Len(r))
      PROVE  IF n + i - 1 \in InjectedIndices THEN (s \o r)[i] = Decoy(n + i - 1)
                                             ELSE (s \o r)[i] \in R
  <2>1. CASE i <= Len(s)
    <3>1. i \in 1..Len(s) /\ (s \o r)[i] = s[i]
      BY <1>1, <1>2, <2>1
    <3> QED
      BY <3>1 DEF Placed
  <2>2. CASE ~(i <= Len(s))
    <3>1. /\ i - Len(s) \in 1..Len(r) /\ (s \o r)[i] = r[i - Len(s)]
          /\ (n + Len(s)) + (i - Len(s)) - 1 = n + i - 1
      BY <1>1, <1>2, <2>2
    <3> QED
      BY <3>1 DEF Run
  <2> QED
    BY <2>1, <2>2
<1>4. ASSUME NEW d \in R PROVE \E i \in 1..(Len(s) + Len(r)) : (s \o r)[i] = d
  <2>1. PICK i \in 1..Len(s) : s[i] = d
    BY DEF Placed
  <2>2. i \in 1..(Len(s) + Len(r)) /\ (s \o r)[i] = d
    BY <1>1, <1>2, <2>1
  <2> QED
    BY <2>2
<1> QED
  BY <1>2, <1>3, <1>4 DEF Placed

LEMMA PlacedReal ==
  ASSUME NEW n \in Nat, NEW s, NEW d \in Datagrams, NEW R, Placed(n, s, R),
         n + Len(s) \notin InjectedIndices
  PROVE  /\ Placed(n, Append(s, d), R \cup {d}) /\ Append(s, d) = s \o <<d>>
         /\ Len(Append(s, d)) = Len(s) + 1
<1>1. s \in Seq(Datagrams) /\ Len(s) \in Nat
  BY DEF Placed
<1>2. /\ Append(s, d) \in Seq(Datagrams) /\ Len(Append(s, d)) = Len(s) + 1
      /\ \A i \in 1..Len(s) : Append(s, d)[i] = s[i]
      /\ Append(s, d)[Len(s) + 1] = d
  BY <1>1, AppendProperties
<1>3. Append(s, d) = s \o <<d>>
  BY <1>1, AppendIsConcat
<1>4. ASSUME NEW i \in 1..(Len(s) + 1)
      PROVE  IF n + i - 1 \in InjectedIndices THEN Append(s, d)[i] = Decoy(n + i - 1)
                                             ELSE Append(s, d)[i] \in R \cup {d}
  <2>1. CASE i \in 1..Len(s)
    BY <1>2, <2>1 DEF Placed
  <2>2. CASE i = Len(s) + 1
    <3>1. n + i - 1 = n + Len(s)
      BY <1>1, <2>2
    <3> QED
      BY <1>2, <2>2, <3>1
  <2> QED
    BY <1>1, <2>1, <2>2
<1>5. ASSUME NEW e \in R \cup {d} PROVE \E i \in 1..(Len(s) + 1) : Append(s, d)[i] = e
  <2>1. CASE e \in R
    <3>1. PICK i \in 1..Len(s) : s[i] = e
      BY <2>1 DEF Placed
    <3>2. i \in 1..(Len(s) + 1) /\ Append(s, d)[i] = e
      BY <1>1, <1>2, <3>1
    <3> QED
      BY <3>2
  <2>2. CASE e = d
    <3>1. Len(s) + 1 \in 1..(Len(s) + 1)
      BY <1>1
    <3> QED
      BY <1>2, <2>2, <3>1
  <2> QED
    BY <2>1, <2>2
<1> QED
  BY <1>2, <1>3, <1>4, <1>5 DEF Placed

\* outputIndex_ counts what is put out, until the last packet that is injected.
Counted(n, index) == \/ index = n
                     \/ Last(Injected) < index /\ index <= n

LEMMA ShapePlaces ==
  ASSUME NEW n \in Nat, NEW out \in [index : Nat, results : Seq(Datagrams)],
         NEW d \in Datagrams, NEW R,
         Placed(n, out.results, R), Counted(n + Len(out.results), out.index)
  PROVE  LET after == Shape(out, d)
         IN  /\ after \in [index : Nat, results : Seq(Datagrams)]
             /\ Placed(n, after.results, R \cup {d})
             /\ Counted(n + Len(after.results), after.index)
<1> DEFINE s == out.results
           m == out.index
<1>1. s \in Seq(Datagrams) /\ Len(s) \in Nat /\ m \in Nat
  OBVIOUS
<1>2. CASE m > Last(Injected)
  <2>1. Shape(out, d) = [index |-> m, results |-> Append(s, d)]
    BY <1>2 DEF Shape
  <2>2. n + Len(s) \notin InjectedIndices
    BY <1>1, <1>2, InjectedBounds DEF Counted
  <2>3. Placed(n, Append(s, d), R \cup {d}) /\ Len(Append(s, d)) = Len(s) + 1
    BY <2>2, PlacedReal
  <2>4. Counted(n + Len(Append(s, d)), m)
    BY <1>1, <1>2, <2>3, InjectedBounds DEF Counted
  <2>5. Append(s, d) \in Seq(Datagrams)
    BY <1>1
  <2> QED
    BY <1>1, <2>1, <2>3, <2>4, <2>5
<1>3. CASE ~(m > Last(Injected))
  <2>1. m = n + Len(s) /\ Head(Injected) \in Nat
    BY <1>1, <1>3, InjectedBounds DEF Counted
  <2> DEFINE before == IF m >= Head(Injected) THEN Inject(m) ELSE <<>>
             k == m + Len(before)
             after == IF m >= Head(Injected) THEN Inject(k + 1) ELSE <<>>
  <2>2. Shape(out, d) = [index |-> k + 1 + Len(after), results |-> ((s \o before) \o <<d>>) \o after]
    BY <1>3 DEF Shape
  <2>3. \A j : Run(j, <<>>)
    BY DEF Run
  <2>4. Run(m, before) /\ m + Len(before) \notin InjectedIndices
    <3>1. CASE m >= Head(Injected)
      BY <1>1, <3>1, InjectIsARun
    <3>2. CASE ~(m >= Head(Injected))
      <4>1. m + Len(before) = m
        BY <1>1, <3>2
      <4>2. m \notin InjectedIndices
        BY <1>1, <2>1, <3>2, InjectedBounds
      <4> QED
        BY <2>3, <3>2, <4>1, <4>2
    <3> QED
      BY <3>1, <3>2
  <2>5. Len(before) \in Nat /\ k \in Nat
    BY <1>1, <2>4 DEF Run
  <2>6. Run(k + 1, after) /\ Len(after) \in Nat
    <3>1. k + 1 \in Nat
      BY <2>5
    <3>2. Run(k + 1, after)
      BY <2>3, <3>1, InjectIsARun
    <3> QED
      BY <3>2 DEF Run
  <2> HIDE DEF before, after
  <2>7. Placed(n, s \o before, R) /\ Len(s \o before) = Len(s) + Len(before)
    BY <2>1, <2>4, PlacedRun
  <2>8. n + Len(s \o before) = k
    BY <1>1, <2>1, <2>5, <2>7
  <2>9. /\ Placed(n, (s \o before) \o <<d>>, R \cup {d})
        /\ Len((s \o before) \o <<d>>) = Len(s \o before) + 1
    <3>1. n + Len(s \o before) \notin InjectedIndices
      BY <2>4, <2>8
    <3> DEFINE u == s \o before
    <3>2. Placed(n, u, R) /\ n + Len(u) \notin InjectedIndices
      BY <2>7, <3>1
    <3> HIDE DEF u
    <3>3. Placed(n, u \o <<d>>, R \cup {d}) /\ Len(u \o <<d>>) = Len(u) + 1
      <4>1. /\ Placed(n, Append(u, d), R \cup {d}) /\ Append(u, d) = u \o <<d>>
            /\ Len(Append(u, d)) = Len(u) + 1
        BY <3>2, PlacedReal
      <4> DEFINE v == Append(u, d)
                 w == u \o <<d>>
      <4>2. Placed(n, v, R \cup {d}) /\ v = w /\ Len(v) = Len(u) + 1
        BY <4>1
      <4> HIDE DEF v, w
      <4>3. Placed(n, w, R \cup {d}) /\ Len(w) = Len(u) + 1
        BY <4>2
      <4> QED
        BY <4>3 DEF w
    <3> QED
      BY <3>3 DEF u
  <2>10. n + Len((s \o before) \o <<d>>) = k + 1
    BY <1>1, <2>5, <2>7, <2>8, <2>9
  <2>11. /\ Placed(n, ((s \o before) \o <<d>>) \o after, R \cup {d})
         /\ Len(((s \o before) \o <<d>>) \o after) = Len((s \o before) \o <<d>>) + Len(after)
    BY <2>6, <2>9, <2>10, PlacedRun
  <2> DEFINE t == ((s \o before) \o <<d>>) \o after
  <2>12. t \in Seq(Datagrams)
    BY <2>11 DEF Placed
  <2>13. n + Len(t) = k + 1 + Len(after)
    BY <1>1, <2>5, <2>6, <2>7, <2>9, <2>10, <2>11
  <2> HIDE DEF t, k
  <2>14. k + 1 + Len(after) \in Nat
    BY <2>5, <2>6
  <2>15. Shape(out, d) = [index |-> k + 1 + Len(after), results |-> t]
    BY <2>2 DEF t
  <2>16. Placed(n, t, R \cup {d})
    BY <2>11 DEF t
  <2> QED
    BY <2>12, <2>13, <2>14, <2>15, <2>16 DEF Counted
<1> QED
  BY <1>2, <1>3

\* The loop over the datagrams ds.
Shapes(f, index, ds) ==
  f = [k \in 0..Len(ds) |-> IF k = 0 THEN [index |-> index, results |-> <<>>]
                            ELSE Shape(f[k - 1], ds[k])]

LEMMA ShapesExist ==
  ASSUME NEW S, NEW ds \in Seq(S), NEW index
  PROVE  \E f : Shapes(f, index, ds)
<1> DEFINE none == [index |-> index, results |-> <<>>]
           Has(m) == \E f : f = [k \in 0..m |-> IF k = 0 THEN none ELSE Shape(f[k - 1], ds[k])]
           bad == {m \in 0..Len(ds) : ~Has(m)}
<1> HIDE DEF none
<1>1. Len(ds) \in Nat
  OBVIOUS
<1>2. Has(0)
  <2>1. PICK f : f = [k \in 0..0 |-> none]
    OBVIOUS
  <2>2. f = [k \in 0..0 |-> IF k = 0 THEN none ELSE Shape(f[k - 1], ds[k])]
    BY <2>1
  <2> QED
    BY <2>2
<1>3. ASSUME NEW m \in 1..Len(ds), Has(m - 1) PROVE Has(m)
  <2>1. PICK f : f = [k \in 0..(m - 1) |-> IF k = 0 THEN none ELSE Shape(f[k - 1], ds[k])]
    BY <1>3
  <2>2. PICK g : g = [k \in 0..m |-> IF k = m THEN Shape(f[m - 1], ds[m]) ELSE f[k]]
    OBVIOUS
  <2>3. ASSUME NEW k \in 0..m PROVE g[k] = IF k = 0 THEN none ELSE Shape(g[k - 1], ds[k])
    <3>1. CASE k = 0
      BY <1>1, <2>1, <2>2, <3>1
    <3>2. CASE k # 0
      <4>1. k - 1 \in 0..m /\ k - 1 # m /\ k - 1 \in 0..(m - 1)
        BY <1>1, <3>2
      <4>2. g[k - 1] = f[k - 1]
        BY <2>2, <4>1
      <4>3. CASE k = m
        BY <2>2, <3>2, <4>2, <4>3
      <4>4. CASE k # m
        <5>1. k \in 0..(m - 1)
          BY <1>1, <4>4
        <5> QED
          BY <2>1, <2>2, <3>2, <4>2, <4>4, <5>1
      <4> QED
        BY <4>3, <4>4
    <3> QED
      BY <3>1, <3>2
  <2>4. g = [k \in 0..m |-> IF k = 0 THEN none ELSE Shape(g[k - 1], ds[k])]
    BY <2>2, <2>3
  <2> QED
    BY <2>4
<1> HIDE DEF Has
<1>4. bad = {}
  <2>1. SUFFICES ASSUME bad # {} PROVE FALSE
    OBVIOUS
  <2>2. bad \in SUBSET Nat
    BY <1>1
  <2>3. PICK m \in bad : \A k \in bad : m <= k
    <3> HIDE DEF bad
    <3> QED
      BY <2>1, <2>2, Least
  <2>4. m \in 1..Len(ds) /\ m - 1 \in 0..Len(ds) /\ ~(m <= m - 1)
    BY <1>1, <1>2, <2>3
  <2> QED
    BY <1>3, <2>3, <2>4
<1> QED
  BY <1>1, <1>4 DEF Has, Shapes, none

LEMMA ShapedPlaces ==
  ASSUME NEW n \in Nat, NEW index \in Nat, NEW ds \in Seq(Datagrams), Counted(n, index)
  PROVE  LET out == Shaped(index, ds)
         IN  /\ out \in [index : Nat, results : Seq(Datagrams)]
             /\ Placed(n, out.results, Range(ds))
             /\ Counted(n + Len(out.results), out.index)
<1> DEFINE f == CHOOSE g : Shapes(g, index, ds)
           Good(out, k) == /\ out \in [index : Nat, results : Seq(Datagrams)]
                           /\ Placed(n, out.results, {ds[j] : j \in 1..k})
                           /\ Counted(n + Len(out.results), out.index)
           bad == {k \in 0..Len(ds) : ~Good(f[k], k)}
<1>1. Shapes(f, index, ds)
  BY ShapesExist
<1>2. Shaped(index, ds) = f[Len(ds)]
  BY DEF Shaped, Shapes
<1> HIDE DEF f
<1>3. Len(ds) \in Nat /\ \A k \in 1..Len(ds) : ds[k] \in Datagrams
  OBVIOUS
<1>4. Good(f[0], 0)
  <2>1. f[0] = [index |-> index, results |-> <<>>]
    BY <1>1, <1>3 DEF Shapes
  <2>2. Placed(n, <<>>, {ds[j] : j \in 1..0})
    BY DEF Placed
  <2>3. n + Len(<<>>) = n /\ <<>> \in Seq(Datagrams)
    OBVIOUS
  <2> QED
    BY <2>1, <2>2, <2>3
<1>5. ASSUME NEW k \in 1..Len(ds), Good(f[k - 1], k - 1) PROVE Good(f[k], k)
  <2>1. f[k] = Shape(f[k - 1], ds[k])
    <3>1. k \in 0..Len(ds) /\ k # 0
      BY <1>3
    <3> QED
      BY <1>1, <3>1 DEF Shapes
  <2>2. {ds[j] : j \in 1..k} = {ds[j] : j \in 1..(k - 1)} \cup {ds[k]}
    <3>1. \A j : j \in 1..k <=> (j \in 1..(k - 1) \/ j = k)
      BY <1>3
    <3> QED
      BY <3>1
  <2> DEFINE R == {ds[j] : j \in 1..(k - 1)}
             out == f[k - 1]
  <2>3. /\ out \in [index : Nat, results : Seq(Datagrams)] /\ Placed(n, out.results, R)
        /\ Counted(n + Len(out.results), out.index) /\ ds[k] \in Datagrams
    BY <1>3, <1>5
  <2> HIDE DEF R, out
  <2>4. LET after == Shape(out, ds[k])
        IN  /\ after \in [index : Nat, results : Seq(Datagrams)]
            /\ Placed(n, after.results, R \cup {ds[k]})
            /\ Counted(n + Len(after.results), after.index)
    BY <2>3, ShapePlaces
  <2> QED
    BY <2>1, <2>2, <2>4 DEF R, out
<1> HIDE DEF Good
<1>6. bad = {}
  <2>1. SUFFICES ASSUME bad # {} PROVE FALSE
    OBVIOUS
  <2>2. bad \in SUBSET Nat
    BY <1>3
  <2>3. PICK k \in bad : \A j \in bad : k <= j
    <3> HIDE DEF bad
    <3> QED
      BY <2>1, <2>2, Least
  <2>4. k \in 1..Len(ds) /\ k - 1 \in 0..Len(ds) /\ ~(k <= k - 1)
    BY <1>3, <1>4, <2>3
  <2> QED
    BY <1>5, <2>3, <2>4
<1>7. Good(f[Len(ds)], Len(ds))
  BY <1>3, <1>6
<1>8. Range(ds) = {ds[j] : j \in 1..Len(ds)}
  BY <1>3 DEF Range
<1> QED
  BY <1>2, <1>7, <1>8 DEF Good

-----------------------------------------------------------------------------
(* The queue manager *)

Aqm == [dropLevel : Nat \ {0}, dropNext : BOOLEAN, deadline : Nat, sent : Nat,
        minDelay : 0..Infinity, traceCounter : 0..TRACED]

Queue == [aqm : Aqm, acks : Seq(1..now), passed : Seq(Datagrams), drops : Nat, untraced : Nat]

\* What DropsAreEarned says, and that traceCounter_ has counted the packets that were not traced.
Earned(q, dropped, bad, unseen) ==
  /\ dropped + (IF q.dropNext THEN 1 ELSE 0) <= bad
  /\ q.dropNext => q.dropLevel > 1
  /\ unseen < TRACED
  /\ q.traceCounter < TRACED => unseen < q.traceCounter

LEMMA AqmDrops ==
  ASSUME NEW a \in Aqm, NEW s \in Nat, NEW n \in BOOLEAN
  PROVE  LET b == [a EXCEPT !.sent = s, !.dropNext = n]
         IN  b \in Aqm /\ b.dropNext = n /\ b.traceCounter = a.traceCounter
  BY DEF Aqm

LEMMA AqmSends ==
  ASSUME NEW a \in Aqm, NEW s \in Nat, NEW c \in 0..TRACED
  PROVE  LET b == [a EXCEPT !.sent = s, !.traceCounter = c]
         IN  /\ b \in Aqm /\ b.dropNext = a.dropNext /\ b.dropLevel = a.dropLevel
             /\ b.traceCounter = c
  BY DEF Aqm

LEMMA SendKeeps ==
  ASSUME NEW bad \in Nat, NEW q \in Queue, NEW d \in Datagrams, now \in Nat \ {0},
         Earned(q.aqm, q.drops, bad, q.untraced)
  PROVE  /\ Send(q, d) \in Queue
         /\ Earned(Send(q, d).aqm, Send(q, d).drops, bad, Send(q, d).untraced)
         /\ \/ Send(q, d).passed = q.passed /\ Send(q, d).drops = q.drops + 1
            \/ Send(q, d).passed = Append(q.passed, d) /\ Send(q, d).drops = q.drops
<1> DEFINE a == q.aqm
<1>1. /\ q.acks \in Seq(1..now) /\ q.passed \in Seq(Datagrams) /\ q.drops \in Nat
      /\ q.untraced \in Nat /\ a \in Aqm
      /\ q = [aqm |-> a, acks |-> q.acks, passed |-> q.passed, drops |-> q.drops,
              untraced |-> q.untraced]
  BY DEF Queue
<1>2. /\ a.dropLevel \in Nat \ {0} /\ a.dropNext \in BOOLEAN /\ a.deadline \in Nat /\ a.sent \in Nat
      /\ a.minDelay \in 0..Infinity /\ a.traceCounter \in 0..TRACED
      /\ a = [dropLevel |-> a.dropLevel, dropNext |-> a.dropNext, deadline |-> a.deadline,
              sent |-> a.sent, minDelay |-> a.minDelay, traceCounter |-> a.traceCounter]
  BY <1>1 DEF Aqm
<1>3. TRACED \in Nat /\ TRACED >= 1
  BY DatagramBounds
<1>4. Append(q.acks, now) \in Seq(1..now) /\ Append(q.passed, d) \in Seq(Datagrams)
  <2>1. now \in 1..now
    OBVIOUS
  <2> QED
    BY <1>1, <2>1
<1>5. CASE a.dropNext
  <2> DEFINE b == [a EXCEPT !.sent = @ + 1, !.dropNext = FALSE]
  <2>1. Send(q, d) = [aqm |-> b, acks |-> q.acks, passed |-> q.passed, drops |-> q.drops + 1,
                      untraced |-> q.untraced]
    BY <1>1, <1>2, <1>5 DEF Send, Aqm
  <2>2. /\ b \in Aqm /\ b.dropNext = FALSE /\ b.traceCounter = a.traceCounter
    <3> DEFINE v == a.sent + 1
               w == FALSE
    <3>1. v \in Nat /\ a \in Aqm /\ w \in BOOLEAN
      BY <1>1, <1>2, <1>3
    <3> HIDE DEF a, v, w
    <3>2. LET u == [a EXCEPT !.sent = v, !.dropNext = w]
          IN  u \in Aqm /\ u.dropNext = w /\ u.traceCounter = a.traceCounter
      BY <3>1, AqmDrops
    <3> QED
      BY <3>2 DEF v, w
  <2> HIDE DEF b
  <2>3. Send(q, d) \in Queue
    BY <1>1, <2>1, <2>2 DEF Queue
  <2>4. Earned(b, q.drops + 1, bad, q.untraced)
    BY <1>1, <1>2, <1>3, <1>5, <2>2 DEF Earned
  <2> QED
    BY <2>1, <2>3, <2>4
<1>6. CASE ~a.dropNext /\ a.traceCounter >= TRACED
  <2> DEFINE b == [a EXCEPT !.sent = @ + 1, !.traceCounter = @ - TRACED + 1]
  <2>1. Send(q, d) = [aqm |-> b, acks |-> Append(q.acks, now), passed |-> Append(q.passed, d),
                      drops |-> q.drops, untraced |-> 0]
    BY <1>1, <1>2, <1>6 DEF Send, Aqm
  <2>2. a.traceCounter - TRACED + 1 = 1
    BY <1>2, <1>3, <1>6
  <2>3. /\ b \in Aqm /\ b.dropNext = a.dropNext /\ b.traceCounter = 1
    <3> DEFINE v == a.sent + 1
               w == a.traceCounter - TRACED + 1
    <3>1. v \in Nat /\ a \in Aqm /\ w \in 0..TRACED
      BY <1>1, <1>2, <1>3, <2>2
    <3> HIDE DEF a, v, w
    <3>2. LET u == [a EXCEPT !.sent = v, !.traceCounter = w]
          IN  /\ u \in Aqm /\ u.dropNext = a.dropNext /\ u.dropLevel = a.dropLevel
              /\ u.traceCounter = w
      BY <3>1, AqmSends
    <3> QED
      BY <3>2, <1>2, <2>2 DEF v, w
  <2> HIDE DEF b
  <2>4. Send(q, d) \in Queue
    BY <1>1, <1>4, <2>1, <2>3 DEF Queue
  <2>5. Earned(b, q.drops, bad, 0)
    BY <1>1, <1>2, <1>3, <1>6, <2>3 DEF Earned
  <2> QED
    BY <2>1, <2>4, <2>5
<1>7. CASE ~a.dropNext /\ ~(a.traceCounter >= TRACED)
  <2> DEFINE b == [a EXCEPT !.sent = @ + 1, !.traceCounter = @ + 1]
  <2>1. Send(q, d) = [aqm |-> b, acks |-> q.acks, passed |-> Append(q.passed, d),
                      drops |-> q.drops, untraced |-> q.untraced + 1]
    BY <1>1, <1>2, <1>7 DEF Send, Aqm
  <2>2. a.traceCounter + 1 \in 0..TRACED
    BY <1>2, <1>3, <1>7
  <2>3. /\ b \in Aqm /\ b.dropNext = a.dropNext /\ b.traceCounter = a.traceCounter + 1
    <3> DEFINE v == a.sent + 1
               w == a.traceCounter + 1
    <3>1. v \in Nat /\ a \in Aqm /\ w \in 0..TRACED
      BY <1>1, <1>2, <1>3, <2>2
    <3> HIDE DEF a, v, w
    <3>2. LET u == [a EXCEPT !.sent = v, !.traceCounter = w]
          IN  /\ u \in Aqm /\ u.dropNext = a.dropNext /\ u.dropLevel = a.dropLevel
              /\ u.traceCounter = w
      BY <3>1, AqmSends
    <3> QED
      BY <3>2 DEF v, w
  <2> HIDE DEF b
  <2>4. Send(q, d) \in Queue
    BY <1>1, <1>4, <2>1, <2>3 DEF Queue
  <2>5. q.untraced < a.traceCounter /\ a.traceCounter < TRACED
    BY <1>2, <1>3, <1>7 DEF Earned
  <2>6. Earned(b, q.drops, bad, q.untraced + 1)
    BY <1>1, <1>2, <1>3, <1>7, <2>3, <2>5 DEF Earned
  <2> QED
    BY <2>1, <2>4, <2>6
<1> QED
  BY <1>5, <1>6, <1>7

\* The loop over the datagrams ds.
Sends(f, q, ds) ==
  f = [k \in 0..Len(ds) |-> IF k = 0 THEN q ELSE Send(f[k - 1], ds[k])]

LEMMA SendsExist ==
  ASSUME NEW S, NEW ds \in Seq(S), NEW q
  PROVE  \E f : Sends(f, q, ds)
<1> DEFINE Has(m) == \E f : f = [k \in 0..m |-> IF k = 0 THEN q ELSE Send(f[k - 1], ds[k])]
           bad == {m \in 0..Len(ds) : ~Has(m)}
<1>1. Len(ds) \in Nat
  OBVIOUS
<1>2. Has(0)
  <2>1. PICK f : f = [k \in 0..0 |-> q]
    OBVIOUS
  <2>2. f = [k \in 0..0 |-> IF k = 0 THEN q ELSE Send(f[k - 1], ds[k])]
    BY <2>1
  <2> QED
    BY <2>2
<1>3. ASSUME NEW m \in 1..Len(ds), Has(m - 1) PROVE Has(m)
  <2>1. PICK f : f = [k \in 0..(m - 1) |-> IF k = 0 THEN q ELSE Send(f[k - 1], ds[k])]
    BY <1>3
  <2>2. PICK g : g = [k \in 0..m |-> IF k = m THEN Send(f[m - 1], ds[m]) ELSE f[k]]
    OBVIOUS
  <2>3. ASSUME NEW k \in 0..m PROVE g[k] = IF k = 0 THEN q ELSE Send(g[k - 1], ds[k])
    <3>1. CASE k = 0
      BY <1>1, <2>1, <2>2, <3>1
    <3>2. CASE k # 0
      <4>1. k - 1 \in 0..m /\ k - 1 # m /\ k - 1 \in 0..(m - 1)
        BY <1>1, <3>2
      <4>2. g[k - 1] = f[k - 1]
        BY <2>2, <4>1
      <4>3. CASE k = m
        BY <2>2, <3>2, <4>2, <4>3
      <4>4. CASE k # m
        <5>1. k \in 0..(m - 1)
          BY <1>1, <4>4
        <5> QED
          BY <2>1, <2>2, <3>2, <4>2, <4>4, <5>1
      <4> QED
        BY <4>3, <4>4
    <3> QED
      BY <3>1, <3>2
  <2>4. g = [k \in 0..m |-> IF k = 0 THEN q ELSE Send(g[k - 1], ds[k])]
    BY <2>2, <2>3
  <2> QED
    BY <2>4
<1> HIDE DEF Has
<1>4. bad = {}
  <2>1. SUFFICES ASSUME bad # {} PROVE FALSE
    OBVIOUS
  <2>2. bad \in SUBSET Nat
    BY <1>1
  <2>3. PICK m \in bad : \A k \in bad : m <= k
    <3> HIDE DEF bad
    <3> QED
      BY <2>1, <2>2, Least
  <2>4. m \in 1..Len(ds) /\ m - 1 \in 0..Len(ds) /\ ~(m <= m - 1)
    BY <1>1, <1>2, <2>3
  <2> QED
    BY <1>3, <2>3, <2>4
<1> QED
  BY <1>1, <1>4 DEF Has, Sends

\* What the queue manager lets pass of the datagrams D, of which it may drop some.
Passes(q, D, before) ==
  /\ Range(q.passed) \subseteq D
  /\ q.drops >= before
  /\ q.drops = before => D \subseteq Range(q.passed)

LEMMA SentKeeps ==
  ASSUME NEW bad \in Nat, NEW q \in Queue, NEW ds \in Seq(Datagrams), now \in Nat \ {0},
         Earned(q.aqm, q.drops, bad, q.untraced), q.passed = <<>>
  PROVE  /\ Sent(q, ds) \in Queue
         /\ Earned(Sent(q, ds).aqm, Sent(q, ds).drops, bad, Sent(q, ds).untraced)
         /\ Passes(Sent(q, ds), Range(ds), q.drops)
<1> DEFINE f == CHOOSE g : Sends(g, q, ds)
           Good(t, k) == /\ t \in Queue
                         /\ Earned(t.aqm, t.drops, bad, t.untraced)
                         /\ Passes(t, {ds[j] : j \in 1..k}, q.drops)
           wrong == {k \in 0..Len(ds) : ~Good(f[k], k)}
<1>1. Sends(f, q, ds)
  BY SendsExist
<1>2. Sent(q, ds) = f[Len(ds)]
  BY DEF Sent, Sends
<1> HIDE DEF f
<1>3. /\ Len(ds) \in Nat /\ \A k \in 1..Len(ds) : ds[k] \in Datagrams
      /\ q.drops \in Nat
  BY DEF Queue
<1>4. Good(f[0], 0)
  <2>1. f[0] = q
    BY <1>1, <1>3 DEF Sends
  <2>2. Range(q.passed) = {} /\ {ds[j] : j \in 1..0} = {}
    BY DEF Range
  <2>3. Passes(q, {ds[j] : j \in 1..0}, q.drops)
    BY <1>3, <2>2 DEF Passes
  <2> QED
    BY <2>1, <2>3
<1>5. ASSUME NEW k \in 1..Len(ds), Good(f[k - 1], k - 1) PROVE Good(f[k], k)
  <2>1. f[k] = Send(f[k - 1], ds[k])
    <3>1. k \in 0..Len(ds) /\ k # 0
      BY <1>3
    <3> QED
      BY <1>1, <3>1 DEF Sends
  <2>2. {ds[j] : j \in 1..k} = {ds[j] : j \in 1..(k - 1)} \cup {ds[k]}
    <3>1. \A j : j \in 1..k <=> (j \in 1..(k - 1) \/ j = k)
      BY <1>3
    <3> QED
      BY <3>1
  <2> DEFINE D == {ds[j] : j \in 1..(k - 1)}
             t == f[k - 1]
             d == ds[k]
             u == Send(t, d)
  <2>3. /\ t \in Queue /\ Earned(t.aqm, t.drops, bad, t.untraced) /\ Passes(t, D, q.drops)
        /\ d \in Datagrams
    BY <1>3, <1>5
  <2> HIDE DEF D, t, d
  <2>4. /\ u \in Queue /\ Earned(u.aqm, u.drops, bad, u.untraced)
        /\ \/ u.passed = t.passed /\ u.drops = t.drops + 1
           \/ u.passed = Append(t.passed, d) /\ u.drops = t.drops
    BY <2>3, SendKeeps
  <2> HIDE DEF u
  <2>5. t.passed \in Seq(Datagrams) /\ t.drops \in Nat
    BY <2>3 DEF Queue
  <2>6. Passes(u, D \cup {d}, q.drops)
    <3>1. CASE u.passed = t.passed /\ u.drops = t.drops + 1
      BY <1>3, <2>3, <2>5, <3>1 DEF Passes
    <3>2. CASE u.passed = Append(t.passed, d) /\ u.drops = t.drops
      <4>1. Range(Append(t.passed, d)) = Range(t.passed) \cup {d}
        <5> DEFINE s == t.passed
        <5>1. s \in Seq(Datagrams) /\ Len(s) \in Nat
          BY <2>5
        <5> HIDE DEF s
        <5>2. /\ Append(s, d) \in Seq(Datagrams) /\ Len(Append(s, d)) = Len(s) + 1
              /\ \A i \in 1..Len(s) : Append(s, d)[i] = s[i]
              /\ Append(s, d)[Len(s) + 1] = d
          BY <2>3, <5>1, AppendProperties
        <5>3. \A i : i \in 1..(Len(s) + 1) <=> (i \in 1..Len(s) \/ i = Len(s) + 1)
          BY <5>1
        <5>4. DOMAIN Append(s, d) = 1..(Len(s) + 1) /\ DOMAIN s = 1..Len(s)
          BY <5>1, <5>2
        <5> DEFINE v == Append(s, d)
        <5> HIDE DEF v
        <5>5. Range(v) = Range(s) \cup {d}
          BY <5>2, <5>3, <5>4 DEF Range, v
        <5> QED
          BY <5>5 DEF v, s
      <4> QED
        BY <2>3, <3>2, <4>1 DEF Passes
    <3> QED
      BY <2>4, <3>1, <3>2
  <2> QED
    BY <2>1, <2>2, <2>4, <2>6 DEF u, D, t, d
<1> HIDE DEF Good
<1>6. wrong = {}
  <2>1. SUFFICES ASSUME wrong # {} PROVE FALSE
    OBVIOUS
  <2>2. wrong \in SUBSET Nat
    BY <1>3
  <2>3. PICK k \in wrong : \A j \in wrong : k <= j
    <3> HIDE DEF wrong
    <3> QED
      BY <2>1, <2>2, Least
  <2>4. k \in 1..Len(ds) /\ k - 1 \in 0..Len(ds) /\ ~(k <= k - 1)
    BY <1>3, <1>4, <2>3
  <2> QED
    BY <1>5, <2>3, <2>4
<1>7. Good(f[Len(ds)], Len(ds))
  BY <1>3, <1>6
<1>8. Range(ds) = {ds[j] : j \in 1..Len(ds)}
  BY <1>3 DEF Range
<1> QED
  BY <1>2, <1>7, <1>8 DEF Good

LEMMA MaxOfTwo ==
  ASSUME NEW i \in Int, NEW j \in Int
  PROVE  Max({i, j}) = IF i >= j THEN i ELSE j
<1> DEFINE m == IF i >= j THEN i ELSE j
<1>1. m \in {i, j} /\ \A x \in {i, j} : m >= x
  OBVIOUS
<1>2. \A x \in {i, j} : (\A y \in {i, j} : x >= y) => x = m
  OBVIOUS
<1> HIDE DEF m
<1>3. Max({i, j}) = m
  BY <1>1, <1>2 DEF Max
<1> QED
  BY <1>3 DEF m

LEMMA MinOfTwo ==
  ASSUME NEW i \in Int, NEW j \in Int
  PROVE  Min({i, j}) = IF i <= j THEN i ELSE j
<1> DEFINE m == IF i <= j THEN i ELSE j
<1>1. m \in {i, j} /\ \A x \in {i, j} : m <= x
  OBVIOUS
<1>2. \A x \in {i, j} : (\A y \in {i, j} : x <= y) => x = m
  OBVIOUS
<1> HIDE DEF m
<1>3. Min({i, j}) = m
  BY <1>1, <1>2 DEF Min
<1> QED
  BY <1>3 DEF m

LEMMA IntervalIsNat ==
  ASSUME NEW level \in Nat
  PROVE  Interval(level) \in 0..BASE_INTERVAL
<1> DEFINE B == BASE_INTERVAL
           T == {k \in 0..B : k * k * level <= B * B}
           up == {B - k : k \in T}
<1>1. B \in Nat
  BY DatagramBounds
<1>2. 0 \in T
  <2>1. 0 * 0 * level = 0 /\ B * B >= 0
    BY <1>1
  <2> QED
    BY <1>1, <2>1
<1>3. T \subseteq 0..B
  OBVIOUS
<1>4. Interval(level) = Max(T)
  BY DEF Interval
<1> HIDE DEF T
<1>5. up \in SUBSET Nat /\ up # {}
  BY <1>1, <1>2, <1>3
<1>6. PICK n \in up : \A m \in up : n <= m
  <2> HIDE DEF up
  <2> QED
    BY <1>5, Least
<1>7. PICK k \in T : n = B - k
  BY <1>6
<1>8. \A j \in T : k >= j
  <2>1. \A j \in T : B - j \in up /\ j \in Nat /\ k \in Nat
    BY <1>1, <1>3
  <2> HIDE DEF up
  <2>2. ASSUME NEW j \in T PROVE k >= j
    <3>1. B - k <= B - j /\ j \in Nat /\ k \in Nat
      BY <1>6, <1>7, <2>1
    <3> QED
      BY <1>1, <3>1
  <2> QED
    BY <2>2
<1>9. Max(T) \in T
  BY <1>7, <1>8 DEF Max
<1> QED
  BY <1>3, <1>4, <1>9

LEMMA AckedKeeps ==
  ASSUME NEW q \in Aqm, NEW enqueued \in 1..now, now \in 1..MaxTime,
         NEW dropped \in Nat, NEW bad \in Nat, NEW unseen \in Nat, Earned(q, dropped, bad, unseen)
  PROVE  LET r == Acked(q, enqueued)
         IN  /\ r \in Aqm
             /\ Earned(r, dropped, bad + (IF ~q.dropNext /\ r.dropNext THEN 1 ELSE 0), unseen)
<1> DEFINE seen == [q EXCEPT !.minDelay = Min({@, now - enqueued})]
<1>1. /\ TRACED \in Nat /\ TRACED >= 1 /\ MaxTime \in Nat /\ Infinity \in Nat /\ TARGET_DELAY \in Nat
      /\ BASE_INTERVAL \in Nat /\ Infinity = MaxTime + 1
  BY DatagramBounds DEF Infinity
<1>2. /\ q.dropLevel \in Nat \ {0} /\ q.dropNext \in BOOLEAN /\ q.deadline \in Nat /\ q.sent \in Nat
      /\ q.minDelay \in 0..Infinity /\ q.traceCounter \in 0..TRACED
      /\ q = [dropLevel |-> q.dropLevel, dropNext |-> q.dropNext, deadline |-> q.deadline,
              sent |-> q.sent, minDelay |-> q.minDelay, traceCounter |-> q.traceCounter]
  BY DEF Aqm
<1>3. Min({q.minDelay, now - enqueued}) \in 0..Infinity
  <2>1. q.minDelay \in Int /\ now - enqueued \in Int /\ now - enqueued \in 0..Infinity
    BY <1>1, <1>2
  <2>2. Min({q.minDelay, now - enqueued}) \in {q.minDelay, now - enqueued}
    BY <2>1, MinOfTwo
  <2> QED
    BY <1>2, <2>1, <2>2
<1>4. /\ seen \in Aqm /\ seen.dropNext = q.dropNext /\ seen.dropLevel = q.dropLevel
      /\ seen.traceCounter = q.traceCounter /\ seen.sent = q.sent
      /\ seen.minDelay \in 0..Infinity
  BY <1>2, <1>3 DEF Aqm
<1>5. Acked(q, enqueued) = IF enqueued > q.deadline THEN EndOfInterval(seen) ELSE seen
  BY DEF Acked
<1> HIDE DEF seen
<1>6. CASE ~(enqueued > q.deadline)
  <2>1. Acked(q, enqueued) = seen
    BY <1>5, <1>6
  <2>2. Earned(seen, dropped, bad + (IF ~q.dropNext /\ seen.dropNext THEN 1 ELSE 0), unseen)
    BY <1>2, <1>4 DEF Earned
  <2> QED
    BY <1>4, <2>1, <2>2
<1>7. CASE enqueued > q.deadline
  <2> DEFINE good == seen.sent <= 1 \/ seen.minDelay <= TARGET_DELAY
             level == IF good THEN Max({1, seen.dropLevel - 2}) ELSE seen.dropLevel + 1
             r == [seen EXCEPT !.dropLevel = level, !.dropNext = ~good, !.minDelay = Infinity,
                               !.traceCounter = TRACED, !.deadline = now + Interval(level)]
  <2>1. Acked(q, enqueued) = r
    BY <1>5, <1>7 DEF EndOfInterval
  <2>2. good \in BOOLEAN
    OBVIOUS
  <2>3. level \in Nat \ {0} /\ (~good => level > 1)
    <3>1. Max({1, seen.dropLevel - 2}) = IF 1 >= seen.dropLevel - 2 THEN 1 ELSE seen.dropLevel - 2
      BY <1>2, <1>4, MaxOfTwo
    <3> QED
      BY <1>2, <1>4, <3>1
  <2> HIDE DEF level, good
  <2>4. now + Interval(level) \in Nat
    BY <1>1, <2>3, IntervalIsNat
  <2>5. /\ r \in Aqm /\ r.dropNext = ~good /\ r.dropLevel = level /\ r.traceCounter = TRACED
    <3>2. Infinity \in 0..Infinity /\ TRACED \in 0..TRACED /\ seen.sent \in Nat /\ (~good) \in BOOLEAN
      BY <1>1, <1>2, <1>4, <2>2
    <3> DEFINE n == ~good
               e == now + Interval(level)
    <3>3. n \in BOOLEAN /\ e \in Nat /\ seen \in Aqm
      BY <1>4, <2>4, <3>2
    <3> HIDE DEF n, e
    <3>4. LET u == [seen EXCEPT !.dropLevel = level, !.dropNext = n, !.minDelay = Infinity,
                                !.traceCounter = TRACED, !.deadline = e]
          IN  u \in Aqm /\ u.dropNext = n /\ u.dropLevel = level /\ u.traceCounter = TRACED
      BY <2>3, <3>2, <3>3 DEF Aqm
    <3> QED
      BY <3>4 DEF n, e
  <2> HIDE DEF r
  <2>6. Earned(r, dropped, bad + (IF ~q.dropNext /\ r.dropNext THEN 1 ELSE 0), unseen)
    <3>1. unseen < TRACED /\ ~(TRACED < TRACED)
      BY <1>1 DEF Earned
    <3>2. dropped + (IF q.dropNext THEN 1 ELSE 0) <= bad
      BY DEF Earned
    <3>3. dropped + (IF r.dropNext THEN 1 ELSE 0)
            <= bad + (IF ~q.dropNext /\ r.dropNext THEN 1 ELSE 0)
      BY <1>2, <2>2, <2>5, <3>2
    <3> QED
      BY <2>2, <2>3, <2>5, <3>1, <3>3 DEF Earned
  <2> QED
    BY <2>1, <2>5, <2>6
<1> QED
  BY <1>6, <1>7

-----------------------------------------------------------------------------
(* Two pipes *)

FragmentOf(p, i) == [packet |-> p, index |-> i, count |-> Number(p)]

\* What the sender has put out: packets that are injected are known by their place.
Emitted ==
  {d \in Datagrams : \/ d.packet = Fake /\ Injecting /\ d.index < Len(output)
                     \/ d.packet \in 1..sentPackets /\ d \in Range(Fragments(d.packet))}

\* No datagram of packet p was repeated by the network.
Fresh(p) == \A e \in repeated : e.packet # p

\* The fragments of packet p that the defragmenter has not got.
Missing(p) == IF tracker[p] = {} THEN 0..(Number(p) - 1) ELSE tracker[p]

QueueInv ==
  /\ aqm \in Aqm /\ acks \in Seq(1..now) /\ now \in 1..MaxTime
  /\ drops \in Nat /\ badIntervals \in Nat /\ untraced \in Nat
  /\ Earned(aqm, drops, badIntervals, untraced)

StreamTyped ==
  /\ transformer \in Transformers /\ sentPackets \in 0..Len(Lengths)
  /\ outputIndex \in Nat /\ output \in Seq(Datagrams)
  /\ removeSequences \subseteq InjectedIndices
  /\ tracker \in [1..Len(Lengths) -> SUBSET (0..MostFragments)] /\ complete = <<>>
  /\ received \in Seq(Fake..Len(Lengths))
  /\ faults \in 0..MaxFaults /\ lossy \in BOOLEAN

\* Injected packets are in their places.
Shaping ==
  Injecting => /\ Counted(Len(output), outputIndex)
               /\ \A i \in 1..Len(output) : (output[i].packet = Fake) <=> i - 1 \in InjectedIndices

\* What is on its way or has arrived was put out, and unless it was repeated it is in one
\* place only.
Carried ==
  /\ network = [d \in DOMAIN network |-> network[d]]
  /\ \A d \in DOMAIN network : network[d] \in Nat \ {0}
  /\ DOMAIN network \cup delivered \subseteq Emitted
  /\ \A d \in DOMAIN network : Fresh(d.packet) => network[d] = 1 /\ d \notin delivered

Removed == \A j \in InjectedIndices : j \notin removeSequences => Decoy(j) \in delivered

\* What a tracker does not miss has arrived.
Tracked ==
  \A p \in 1..Len(Lengths) :
    tracker[p] # {} =>
      /\ Fragmenting /\ p <= sentPackets /\ tracker[p] \subseteq 0..(Number(p) - 1)
      /\ \A i \in 0..(Number(p) - 1) : i \notin tracker[p] => FragmentOf(p, i) \in delivered

\* What the browser was given is whole, and was given once.
Whole ==
  /\ \A p \in Range(received) \ {Fake} : p <= sentPackets /\ Range(Fragments(p)) \subseteq delivered
  /\ Fresh(Fake) => Fake \notin Range(received)
  /\ \A p \in 1..Len(Lengths) :
       Fresh(p) => \A i, j \in 1..Len(received) : received[i] = p /\ received[j] = p => i = j

\* What a tracker misses is still on its way, unless something was lost.
Kept ==
  ~lossy => \A p \in 1..sentPackets :
    \/ p \in Range(received)
    \/ \A i \in Missing(p) : FragmentOf(p, i) \in DOMAIN network

StreamInv == StreamTyped /\ Shaping /\ Carried /\ Removed /\ Tracked /\ Whole /\ Kept
DatagramInv == QueueInv /\ StreamInv

LEMMA SameTransformer ==
  ASSUME transformer' = transformer
  PROVE  /\ Fragmenting' = Fragmenting /\ Injecting' = Injecting
         /\ \A p : Number(p)' = Number(p) /\ Fragments(p)' = Fragments(p)
         /\ \A p, i : FragmentOf(p, i)' = FragmentOf(p, i)
  BY DEF Fragmenting, Injecting, Number, Fragments, FragmentOf

LEMMA FragmentsOf ==
  ASSUME NEW p \in 1..Len(Lengths)
  PROVE  /\ Number(p) \in Nat \ {0} /\ Number(p) - 1 <= MostFragments /\ MostFragments \in Nat
         /\ Range(Fragments(p)) = {FragmentOf(p, i) : i \in 0..(Number(p) - 1)}
         /\ Range(Fragments(p)) \subseteq Datagrams
<1>1. /\ Number(p) \in 1..MostFragments /\ MostFragments \in Nat
      /\ Range(Fragments(p)) = {Fragment(p, Number(p), i) : i \in 1..Number(p)}
      /\ Fragments(p) \in Seq(Real)
  BY FragmentsAre, PartsBounded
<1>2. \A i \in 1..Number(p) : Fragment(p, Number(p), i) = FragmentOf(p, i - 1)
  BY DEF Fragment, FragmentOf
<1>3. \A d : (\E i \in 1..Number(p) : d = Fragment(p, Number(p), i))
               <=> (\E i \in 0..(Number(p) - 1) : d = FragmentOf(p, i))
  <2>1. ASSUME NEW d, NEW i \in 1..Number(p), d = Fragment(p, Number(p), i)
        PROVE  \E j \in 0..(Number(p) - 1) : d = FragmentOf(p, j)
    <3>1. i - 1 \in 0..(Number(p) - 1)
      BY <1>1
    <3> QED
      BY <1>2, <2>1, <3>1
  <2>2. ASSUME NEW d, NEW i \in 0..(Number(p) - 1), d = FragmentOf(p, i)
        PROVE  \E j \in 1..Number(p) : d = Fragment(p, Number(p), j)
    <3>1. i + 1 \in 1..Number(p) /\ (i + 1) - 1 = i
      BY <1>1
    <3> QED
      BY <1>2, <2>2, <3>1
  <2> QED
    BY <2>1, <2>2
<1>4. Range(Fragments(p)) \subseteq Real
  BY <1>1, LenProperties DEF Range
<1>5. Range(Fragments(p)) = {FragmentOf(p, i) : i \in 0..(Number(p) - 1)}
  BY <1>1, <1>3
<1>6. Range(Fragments(p)) \subseteq Datagrams
  BY <1>4, RealAreDatagrams
<1>7. Number(p) \in Nat \ {0} /\ Number(p) - 1 <= MostFragments
  BY <1>1
<1> QED
  BY <1>1, <1>5, <1>6, <1>7

\* A datagram that was put out is injected, or a fragment of a packet that was sent.
LEMMA EmittedAre ==
  ASSUME NEW d \in Emitted, sentPackets \in 0..Len(Lengths)
  PROVE  \/ /\ d.packet = Fake /\ Injecting /\ d.index \in InjectedIndices
            /\ d = Decoy(d.index) /\ d.index < Len(output)
         \/ /\ d.packet \in 1..sentPackets /\ d.packet \in 1..Len(Lengths) /\ d.packet # Fake
            /\ d.index \in 0..(Number(d.packet) - 1) /\ d.count = Number(d.packet)
            /\ d = FragmentOf(d.packet, d.index) /\ d \in Range(Fragments(d.packet))
<1>1. d \in Datagrams
  BY DEF Emitted
<1>2. CASE d.packet = Fake
  <2>1. d \in [packet : {Fake}, index : InjectedIndices, count : {1}]
    BY <1>1, <1>2, DatagramBounds DEF Datagrams, Fake
  <2>2. Injecting /\ d.index < Len(output)
    BY <1>2 DEF Emitted, Fake
  <2> QED
    BY <2>1, <2>2 DEF Decoy
<1>3. CASE d.packet # Fake
  <2>1. d.packet \in 1..sentPackets /\ d \in Range(Fragments(d.packet))
    BY <1>3 DEF Emitted
  <2>2. d.packet \in 1..Len(Lengths)
    BY <2>1, DatagramBounds
  <2>3. PICK i \in 0..(Number(d.packet) - 1) : d = FragmentOf(d.packet, i)
    BY <2>1, <2>2, FragmentsOf
  <2>4. d.index = i /\ d.count = Number(d.packet)
    BY <2>3 DEF FragmentOf
  <2> QED
    BY <1>3, <2>1, <2>2, <2>3, <2>4
<1> QED
  BY <1>2, <1>3

-----------------------------------------------------------------------------
(* The queue manager's steps *)

LEMMA LongerSeq ==
  ASSUME NEW s, NEW m \in Nat, NEW n \in Nat, s \in Seq(1..m), m <= n
  PROVE  s \in Seq(1..n)
<1>1. \A i \in 1..Len(s) : s[i] \in 1..n
  BY SMT
<1>2. Len(s) \in Nat /\ s = [i \in 1..Len(s) |-> s[i]]
  OBVIOUS
<1> QED
  BY <1>1, <1>2, IsASeq

LEMMA AckKeeps ==
  ASSUME QueueInv, Ack
  PROVE  QueueInv'
<1> DEFINE a == Head(acks)
<1>1. /\ acks # <<>> /\ aqm' = Acked(aqm, a) /\ acks' = Tail(acks)
      /\ badIntervals' = badIntervals + (IF ~aqm.dropNext /\ aqm'.dropNext THEN 1 ELSE 0)
      /\ UNCHANGED <<now, drops, untraced>>
  BY DEF Ack
<1>2. a \in 1..now /\ Tail(acks) \in Seq(1..now)
  BY <1>1 DEF QueueInv
<1> HIDE DEF a
<1> DEFINE r == Acked(aqm, a)
           b == badIntervals + (IF ~aqm.dropNext /\ r.dropNext THEN 1 ELSE 0)
<1>3. r \in Aqm /\ Earned(r, drops, b, untraced)
  BY <1>2, AckedKeeps DEF QueueInv
<1>4. b \in Nat
  BY DEF QueueInv
<1>5. badIntervals' = b /\ aqm' = r
  BY <1>1
<1> HIDE DEF r, b
<1> QED
  BY <1>1, <1>2, <1>3, <1>4, <1>5 DEF QueueInv

LEMMA TickKeeps ==
  ASSUME QueueInv, Tick
  PROVE  QueueInv'
<1>1. now' = now + 1 /\ now < MaxTime /\ UNCHANGED <<aqm, acks, drops, badIntervals, untraced>>
  BY DEF Tick, queueVars
<1>2. now \in Nat /\ now + 1 \in Nat /\ now' \in 1..MaxTime /\ acks \in Seq(1..now)
  BY <1>1, DatagramBounds DEF QueueInv
<1>3. acks \in Seq(1..(now + 1))
  BY <1>2, LongerSeq
<1> QED
  BY <1>1, <1>2, <1>3 DEF QueueInv

LEMMA AckFailsKeeps ==
  ASSUME QueueInv, AckFails
  PROVE  QueueInv'
<1>1. /\ acks # <<>> /\ acks' = Tail(acks)
      /\ UNCHANGED <<now, aqm, drops, badIntervals, untraced>>
  BY DEF AckFails
<1>2. Tail(acks) \in Seq(1..now)
  BY <1>1 DEF QueueInv
<1> QED
  BY <1>1, <1>2 DEF QueueInv

LEMMA QueueSame ==
  ASSUME QueueInv, UNCHANGED <<aqm, acks, drops, badIntervals, untraced, now>>
  PROVE  QueueInv'
  BY DEF QueueInv

-----------------------------------------------------------------------------
(* What a packet becomes *)

LEMMA TransformPlaces ==
  ASSUME StreamInv, NEW p \in 1..Len(Lengths)
  PROVE  /\ Transform(p).index \in Nat /\ Transform(p).results \in Seq(Datagrams)
         /\ Injecting => /\ Placed(Len(output), Transform(p).results, Range(Fragments(p)))
                         /\ Counted(Len(output) + Len(Transform(p).results), Transform(p).index)
         /\ ~Injecting => Transform(p).results = Fragments(p)
<1>1. Fragments(p) \in Seq(Datagrams)
  <2>1. Fragments(p) \in Seq(Real)
    BY FragmentsAre
  <2>2. Len(Fragments(p)) \in Nat /\ Fragments(p) = [i \in 1..Len(Fragments(p)) |-> Fragments(p)[i]]
    BY <2>1
  <2>3. \A i \in 1..Len(Fragments(p)) : Fragments(p)[i] \in Datagrams
    BY <2>1, RealAreDatagrams
  <2> QED
    BY <2>2, <2>3, IsASeq
<1>2. CASE Injecting
  <2>1. Transform(p) = Shaped(outputIndex, Fragments(p))
    BY <1>2 DEF Transform
  <2>2. Len(output) \in Nat /\ outputIndex \in Nat /\ Counted(Len(output), outputIndex)
    BY <1>2 DEF StreamInv, StreamTyped, Shaping
  <2> DEFINE out == Shaped(outputIndex, Fragments(p))
  <2>3. /\ out \in [index : Nat, results : Seq(Datagrams)]
        /\ Placed(Len(output), out.results, Range(Fragments(p)))
        /\ Counted(Len(output) + Len(out.results), out.index)
    BY <1>1, <2>2, ShapedPlaces
  <2> HIDE DEF out
  <2>4. out.index \in Nat /\ out.results \in Seq(Datagrams)
    BY <2>3
  <2> QED
    BY <1>2, <2>1, <2>3, <2>4 DEF out
<1>3. CASE ~Injecting
  <2>1. Transform(p) = [index |-> outputIndex, results |-> Fragments(p)]
    BY <1>3 DEF Transform
  <2>2. outputIndex \in Nat
    BY DEF StreamInv, StreamTyped
  <2> QED
    BY <1>1, <1>3, <2>1, <2>2
<1> QED
  BY <1>2, <1>3

\* All that is put out for a packet is new, and all its fragments are among it.
NewOutput(p, s) ==
  /\ Range(Fragments(p)) \subseteq Range(s)
  /\ \A d \in Range(s) :
       /\ d \in Datagrams /\ d \notin Emitted
       /\ \/ d \in Range(Fragments(p)) /\ d.packet = p
          \/ Injecting /\ d.packet = Fake /\ d.index < Len(output) + Len(s)
  /\ Injecting => \A i \in 1..Len(s) :
       (s[i].packet = Fake) <=> Len(output) + i - 1 \in InjectedIndices

LEMMA TransformIsNew ==
  ASSUME StreamInv, NEW p \in 1..Len(Lengths), p = sentPackets + 1,
         NEW s, s = Transform(p).results
  PROVE  NewOutput(p, s)
<1>1. sentPackets \in 0..Len(Lengths) /\ Len(Lengths) \in Nat /\ Len(output) \in Nat /\ p # Fake
  BY DatagramBounds DEF StreamInv, StreamTyped, Fake
<1>2. s \in Seq(Datagrams) /\ Len(s) \in Nat /\ Range(s) = {s[i] : i \in 1..Len(s)}
  <2>1. s \in Seq(Datagrams)
    BY TransformPlaces
  <2> QED
    BY <2>1 DEF Range
<1>3. \A d \in Range(Fragments(p)) : d \in Datagrams /\ d.packet = p /\ d.packet # Fake
  BY <1>1, FragmentsOf DEF FragmentOf
<1>4. \A d \in Range(Fragments(p)) : d \notin Emitted
  BY <1>1, <1>3, EmittedAre
<1>5. CASE Injecting
  <2>1. Placed(Len(output), s, Range(Fragments(p)))
    BY <1>5, TransformPlaces
  <2>2. Range(Fragments(p)) \subseteq Range(s)
    BY <1>2, <2>1 DEF Placed
  <2>3. ASSUME NEW i \in 1..Len(s), Len(output) + i - 1 \in InjectedIndices
        PROVE  /\ s[i].packet = Fake /\ s[i] \notin Emitted /\ s[i].index < Len(output) + Len(s)
    <3>1. s[i] = Decoy(Len(output) + i - 1)
      BY <2>1, <2>3 DEF Placed
    <3>2. s[i].packet = Fake /\ s[i].index = Len(output) + i - 1
      BY <3>1 DEF Decoy
    <3>3. s[i] \notin Emitted
      <4>1. SUFFICES ASSUME s[i] \in Emitted PROVE FALSE
        OBVIOUS
      <4>2. s[i].index < Len(output)
        BY <1>1, <3>2, <4>1, EmittedAre
      <4> QED
        BY <1>1, <3>2, <4>2
    <3> QED
      BY <1>1, <1>2, <3>2, <3>3
  <2>4. ASSUME NEW i \in 1..Len(s), Len(output) + i - 1 \notin InjectedIndices
        PROVE  s[i] \in Range(Fragments(p))
    BY <2>1, <2>4 DEF Placed
  <2>5. \A i \in 1..Len(s) : (s[i].packet = Fake) <=> Len(output) + i - 1 \in InjectedIndices
    BY <1>3, <2>3, <2>4
  <2>6. ASSUME NEW d \in Range(s)
        PROVE  /\ d \in Datagrams /\ d \notin Emitted
               /\ \/ d \in Range(Fragments(p)) /\ d.packet = p
                  \/ Injecting /\ d.packet = Fake /\ d.index < Len(output) + Len(s)
    <3>1. PICK i \in 1..Len(s) : d = s[i]
      BY <1>2
    <3>2. d \in Datagrams
      BY <1>2, <3>1
    <3>3. CASE Len(output) + i - 1 \in InjectedIndices
      BY <1>5, <2>3, <3>1, <3>2, <3>3
    <3>4. CASE Len(output) + i - 1 \notin InjectedIndices
      BY <1>3, <1>4, <2>4, <3>1, <3>2, <3>4
    <3> QED
      BY <3>3, <3>4
  <2> QED
    BY <2>2, <2>5, <2>6 DEF NewOutput
<1>6. CASE ~Injecting
  <2>1. s = Fragments(p)
    BY <1>6, TransformPlaces
  <2> QED
    BY <1>3, <1>4, <1>6, <2>1 DEF NewOutput
<1> QED
  BY <1>5, <1>6

-----------------------------------------------------------------------------
(* sendTo_ *)

LEMMA SendToQueue ==
  ASSUME QueueInv, NEW ds \in Seq(Datagrams),
         NEW q, q = Sent([aqm |-> aqm, acks |-> acks, passed |-> <<>>, drops |-> drops,
                          untraced |-> untraced], ds)
  PROVE  /\ q \in Queue /\ Earned(q.aqm, q.drops, badIntervals, q.untraced)
         /\ Passes(q, Range(ds), drops)
<1> DEFINE o == [aqm |-> aqm, acks |-> acks, passed |-> <<>>, drops |-> drops, untraced |-> untraced]
<1>1. /\ o \in Queue /\ o.aqm = aqm /\ o.drops = drops /\ o.untraced = untraced /\ o.passed = <<>>
  BY DEF QueueInv, Queue
<1>2. now \in Nat \ {0} /\ badIntervals \in Nat /\ Earned(o.aqm, o.drops, badIntervals, o.untraced)
  BY <1>1, DatagramBounds DEF QueueInv
<1>3. q = Sent(o, ds)
  OBVIOUS
<1> HIDE DEF o
<1>4. /\ Sent(o, ds) \in Queue
      /\ Earned(Sent(o, ds).aqm, Sent(o, ds).drops, badIntervals, Sent(o, ds).untraced)
      /\ Passes(Sent(o, ds), Range(ds), o.drops)
  BY <1>1, <1>2, SentKeeps
<1> QED
  BY <1>1, <1>3, <1>4

\* The network with one more copy of each of the datagrams D.
With(net, D) == [d \in DOMAIN net \cup D |->
                   (IF d \in DOMAIN net THEN net[d] ELSE 0) + (IF d \in D THEN 1 ELSE 0)]

LEMMA WithMore ==
  ASSUME NEW net, NEW D, \A d \in DOMAIN net : net[d] \in Nat \ {0}
  PROVE  /\ DOMAIN With(net, D) = DOMAIN net \cup D
         /\ With(net, D) = [d \in DOMAIN With(net, D) |-> With(net, D)[d]]
         /\ \A d \in DOMAIN With(net, D) : With(net, D)[d] \in Nat \ {0}
         /\ \A d \in D \ DOMAIN net : With(net, D)[d] = 1
         /\ \A d \in DOMAIN net \ D : With(net, D)[d] = net[d]
  BY DEF With

LEMMA EmittedGrows ==
  ASSUME UNCHANGED transformer, sentPackets \in 0..Len(Lengths), sentPackets' \in Nat,
         sentPackets <= sentPackets', Len(output) <= Len(output'),
         Len(output) \in Nat, Len(output') \in Nat
  PROVE  Emitted \subseteq Emitted'
<1>1. \A d \in Emitted : d \in Datagrams
  BY DEF Emitted
<1>2. /\ Injecting' = Injecting /\ \A p : Fragments(p)' = Fragments(p)
  BY SameTransformer
<1>3. ASSUME NEW d \in Emitted, d.packet = Fake, Injecting, d.index < Len(output),
             d.index \in InjectedIndices
      PROVE  d \in Emitted'
  <2>1. d.index \in Nat
    BY <1>3, InjectedBounds
  <2>2. d.index < Len(output')
    BY <1>3, <2>1
  <2> QED
    BY <1>1, <1>2, <1>3, <2>2 DEF Emitted
<1>4. ASSUME NEW d \in Emitted, d.packet \in 1..sentPackets, d \in Range(Fragments(d.packet))
      PROVE  d \in Emitted'
  <2>1. d.packet \in 1..sentPackets'
    BY <1>4
  <2> QED
    BY <1>1, <1>2, <1>4, <2>1 DEF Emitted
<1> QED
  BY <1>3, <1>4, EmittedAre

LEMMA SendToKeeps ==
  ASSUME DatagramInv, SendTo
  PROVE  DatagramInv'
<1> DEFINE p == sentPackets + 1
           s == Transform(p).results
           index == Transform(p).index
           q == Sent([aqm |-> aqm, acks |-> acks, passed |-> <<>>, drops |-> drops,
                      untraced |-> untraced], s)
           D == Range(q.passed)
<1>1. /\ sentPackets < Len(Lengths) /\ sentPackets' = p
      /\ outputIndex' = index /\ output' = output \o s
      /\ aqm' = q.aqm /\ acks' = q.acks /\ drops' = q.drops /\ untraced' = q.untraced
      /\ network' = With(network, D)
      /\ lossy' = (lossy \/ q.drops > drops)
      /\ UNCHANGED <<transformer, removeSequences, tracker, complete, received, now, badIntervals>>
      /\ UNCHANGED <<faults, repeated, delivered>>
  BY DEF SendTo, receiverVars, With
<1>2. sentPackets \in 0..Len(Lengths) /\ Len(Lengths) \in Nat /\ p \in 1..Len(Lengths)
  BY <1>1, DatagramBounds DEF DatagramInv, StreamInv, StreamTyped
<1>3. StreamInv /\ QueueInv /\ s \in Seq(Datagrams) /\ index \in Nat
  BY <1>2, TransformPlaces DEF DatagramInv
<1>4. q \in Queue /\ Earned(q.aqm, q.drops, badIntervals, q.untraced) /\ Passes(q, Range(s), drops)
  <2> HIDE DEF s
  <2> QED
    BY <1>3, SendToQueue
<1>5. /\ Range(Fragments(p)) \subseteq Range(s)
      /\ \A d \in Range(s) :
           /\ d \in Datagrams /\ d \notin Emitted
           /\ \/ d \in Range(Fragments(p)) /\ d.packet = p
              \/ Injecting /\ d.packet = Fake /\ d.index < Len(output) + Len(s)
      /\ Injecting => \A i \in 1..Len(s) :
           (s[i].packet = Fake) <=> Len(output) + i - 1 \in InjectedIndices
  <2>1. p = sentPackets + 1 /\ s = Transform(p).results
    OBVIOUS
  <2> HIDE DEF p, s
  <2>2. NewOutput(p, s)
    BY <1>2, <1>3, <2>1, TransformIsNew
  <2> QED
    BY <2>2 DEF NewOutput
<1>6. Injecting => Counted(Len(output) + Len(s), index)
  BY <1>2, <1>3, TransformPlaces
<1> HIDE DEF s, index, q
<1>7. QueueInv'
  BY <1>1, <1>3, <1>4 DEF QueueInv, Queue
<1>8. output \in Seq(Datagrams) /\ Len(output) \in Nat /\ Len(s) \in Nat
  BY <1>3 DEF StreamInv, StreamTyped
<1>9. /\ output' \in Seq(Datagrams) /\ Len(output') = Len(output) + Len(s)
      /\ \A i \in 1..(Len(output) + Len(s)) :
           output'[i] = IF i <= Len(output) THEN output[i] ELSE s[i - Len(output)]
  BY <1>1, <1>3, <1>8, ConcatProperties
<1>10. /\ Injecting' = Injecting /\ Fragmenting' = Fragmenting
       /\ \A r : Number(r)' = Number(r) /\ Fragments(r)' = Fragments(r)
       /\ \A r, i : FragmentOf(r, i)' = FragmentOf(r, i)
  BY <1>1, SameTransformer
<1>11. StreamTyped'
  <2>1. lossy' \in BOOLEAN
    BY <1>1, <1>3 DEF StreamInv, StreamTyped
  <2>2. sentPackets' \in 0..Len(Lengths)
    BY <1>1, <1>2
  <2> QED
    BY <1>1, <1>3, <1>9, <2>1, <2>2 DEF StreamInv, StreamTyped
<1>12. Shaping'
  <2>1. ASSUME Injecting, NEW i \in 1..(Len(output) + Len(s))
        PROVE  (output'[i].packet = Fake) <=> i - 1 \in InjectedIndices
    <3>1. CASE i <= Len(output)
      <4>1. i \in 1..Len(output) /\ output'[i] = output[i]
        BY <1>8, <1>9, <3>1
      <4> QED
        BY <1>3, <2>1, <4>1 DEF StreamInv, Shaping
    <3>2. CASE ~(i <= Len(output))
      <4>1. /\ i - Len(output) \in 1..Len(s) /\ output'[i] = s[i - Len(output)]
            /\ Len(output) + (i - Len(output)) - 1 = i - 1
        BY <1>8, <1>9, <3>2
      <4> QED
        BY <1>5, <2>1, <4>1
    <3> QED
      BY <3>1, <3>2
  <2> QED
    BY <1>1, <1>6, <1>9, <1>10, <2>1 DEF Shaping
<1>13. D \subseteq Range(s) /\ D \cap Emitted = {}
  BY <1>4, <1>5 DEF Passes
<1>14. Emitted \subseteq Emitted' /\ D \subseteq Emitted'
  <2>1. Emitted \subseteq Emitted'
    BY <1>1, <1>2, <1>8, <1>9, EmittedGrows
  <2>2. ASSUME NEW d \in D PROVE d \in Emitted'
    <3>1. d \in Datagrams
      BY <1>5, <1>13
    <3>2. CASE d \in Range(Fragments(p)) /\ d.packet = p
      <4>1. d.packet \in 1..sentPackets' /\ d \in Range(Fragments(d.packet))'
        BY <1>1, <1>2, <1>10, <3>2
      <4> QED
        BY <3>1, <4>1 DEF Emitted
    <3>3. CASE Injecting /\ d.packet = Fake /\ d.index < Len(output) + Len(s)
      BY <1>9, <1>10, <3>1, <3>3 DEF Emitted
    <3> QED
      BY <1>5, <1>13, <3>2, <3>3
  <2> QED
    BY <2>1, <2>2
<1>15. /\ \A d \in DOMAIN network : network[d] \in Nat \ {0}
       /\ DOMAIN network \cup delivered \subseteq Emitted
       /\ \A d \in DOMAIN network : Fresh(d.packet) => network[d] = 1 /\ d \notin delivered
  BY <1>3 DEF StreamInv, Carried
<1>16. /\ DOMAIN network' = DOMAIN network \cup D
       /\ network' = [d \in DOMAIN network' |-> network'[d]]
       /\ \A d \in DOMAIN network' : network'[d] \in Nat \ {0}
       /\ \A d \in D \ DOMAIN network : network'[d] = 1
       /\ \A d \in DOMAIN network \ D : network'[d] = network[d]
  <2> HIDE DEF D
  <2>1. /\ DOMAIN With(network, D) = DOMAIN network \cup D
        /\ With(network, D) = [d \in DOMAIN With(network, D) |-> With(network, D)[d]]
        /\ \A d \in DOMAIN With(network, D) : With(network, D)[d] \in Nat \ {0}
        /\ \A d \in D \ DOMAIN network : With(network, D)[d] = 1
        /\ \A d \in DOMAIN network \ D : With(network, D)[d] = network[d]
    BY <1>15, WithMore
  <2> QED
    BY <1>1, <2>1
<1> HIDE DEF D
<1>17. Carried'
  <2>1. \A r : Fresh(r)' = Fresh(r)
    BY <1>1 DEF Fresh
  <2>2. ASSUME NEW d \in DOMAIN network', Fresh(d.packet)
        PROVE  network'[d] = 1 /\ d \notin delivered'
    <3>1. CASE d \in D
      BY <1>1, <1>13, <1>15, <1>16, <3>1
    <3>2. CASE d \notin D
      BY <1>1, <1>15, <1>16, <2>2, <3>2
    <3> QED
      BY <3>1, <3>2
  <2>3. DOMAIN network' \cup delivered' \subseteq Emitted'
    BY <1>1, <1>14, <1>15, <1>16
  <2> QED
    BY <1>16, <2>1, <2>2, <2>3 DEF Carried
<1>18. Removed'
  BY <1>1, <1>3 DEF StreamInv, Removed
<1>19. Tracked'
  <2>1. ASSUME NEW r \in 1..Len(Lengths), r <= sentPackets PROVE r <= sentPackets'
    BY <1>1, <1>2, <2>1
  <2> QED
    BY <1>1, <1>3, <1>10, <2>1 DEF StreamInv, Tracked
<1>20. Whole'
  <2>1. ASSUME NEW r \in Range(received) \ {Fake} PROVE r <= sentPackets'
    <3>1. r <= sentPackets /\ r \in Nat
      BY <1>2, <1>3 DEF StreamInv, StreamTyped, Whole, Range, Fake
    <3> QED
      BY <1>1, <1>2, <3>1
  <2> QED
    BY <1>1, <1>3, <1>10, <2>1 DEF StreamInv, Whole, Fresh
<1>21. Kept'
  <2>1. SUFFICES ASSUME ~lossy', NEW r \in 1..sentPackets'
                 PROVE  \/ r \in Range(received')
                        \/ \A i \in Missing(r)' : FragmentOf(r, i)' \in DOMAIN network'
    BY DEF Kept
  <2>2. ~lossy /\ q.drops = drops
    <3>1. q.drops \in Nat /\ drops \in Nat /\ q.drops >= drops
      BY <1>3, <1>4 DEF Queue, QueueInv, Passes
    <3>2. ~lossy /\ ~(q.drops > drops)
      BY <1>1, <2>1, Zenon
    <3>3. ~(q.drops > drops) => q.drops = drops
      BY <3>1
    <3> QED
      BY <3>2, <3>3
  <2>3. Missing(r)' = Missing(r)
    BY <1>1, <1>10 DEF Missing
  <2>4. CASE r = p
    <3>1. tracker[p] = {}
      BY <1>2, <1>3 DEF StreamInv, Tracked
    <3>2. \A i \in Missing(p) : FragmentOf(p, i) \in Range(Fragments(p))
      BY <1>2, <3>1, FragmentsOf DEF Missing
    <3>3. Range(s) \subseteq D
      BY <1>4, <2>2 DEF Passes, D
    <3> QED
      BY <1>5, <1>10, <1>16, <2>3, <2>4, <3>2, <3>3
  <2>5. CASE r # p
    <3>1. r \in 1..sentPackets
      BY <1>1, <1>2, <2>1, <2>5
    <3> QED
      BY <1>1, <1>3, <1>10, <1>16, <2>2, <2>3, <3>1 DEF StreamInv, Kept
  <2> QED
    BY <2>4, <2>5
<1> QED
  BY <1>7, <1>11, <1>12, <1>17, <1>18, <1>19, <1>20, <1>21 DEF DatagramInv, StreamInv

-----------------------------------------------------------------------------
(* The network *)

LEMMA OneLessIs ==
  ASSUME NEW d \in DOMAIN network, \A e \in DOMAIN network : network[e] \in Nat \ {0},
         network = [e \in DOMAIN network |-> network[e]]
  PROVE  /\ DOMAIN OneLess(d) \subseteq DOMAIN network
         /\ OneLess(d) = [e \in DOMAIN OneLess(d) |-> OneLess(d)[e]]
         /\ \A e \in DOMAIN OneLess(d) : OneLess(d)[e] \in Nat \ {0}
         /\ \A e \in DOMAIN network : e # d => e \in DOMAIN OneLess(d) /\ OneLess(d)[e] = network[e]
         /\ network[d] = 1 => d \notin DOMAIN OneLess(d)
<1>1. CASE network[d] = 1
  BY <1>1 DEF OneLess
<1>2. CASE network[d] # 1
  <2>1. OneLess(d) = [network EXCEPT ![d] = network[d] - 1]
    BY <1>2 DEF OneLess
  <2>2. DOMAIN OneLess(d) = DOMAIN network
    BY <2>1
  <2>3. OneLess(d)[d] = network[d] - 1 /\ network[d] - 1 \in Nat \ {0}
    BY <1>2, <2>1
  <2>4. \A e \in DOMAIN network : e # d => OneLess(d)[e] = network[e]
    BY <2>1
  <2>5. OneLess(d) = [e \in DOMAIN OneLess(d) |-> OneLess(d)[e]]
    BY <2>1, <2>2
  <2> QED
    BY <1>2, <2>2, <2>3, <2>4, <2>5
<1> QED
  BY <1>1, <1>2

\* Nothing that the two ends know has changed.
LEMMA EndsSame ==
  ASSUME UNCHANGED <<transformer, sentPackets, outputIndex, output>>
  PROVE  /\ Emitted' = Emitted /\ Injecting' = Injecting /\ Fragmenting' = Fragmenting
         /\ \A p : Number(p)' = Number(p) /\ Fragments(p)' = Fragments(p)
         /\ \A p, i : FragmentOf(p, i)' = FragmentOf(p, i)
         /\ Shaping => Shaping'
  BY SameTransformer DEF Emitted, Shaping, Injecting

LEMMA LoseKeeps ==
  ASSUME DatagramInv, NEW d \in DOMAIN network, Lose(d)
  PROVE  DatagramInv'
<1>1. /\ faults < MaxFaults /\ faults' = faults + 1 /\ network' = OneLess(d) /\ lossy' = TRUE
      /\ UNCHANGED <<transformer, sentPackets, outputIndex, output, removeSequences, tracker>>
      /\ UNCHANGED <<complete, received, now, aqm, acks, drops, badIntervals, untraced>>
      /\ UNCHANGED <<repeated, delivered>>
  BY DEF Lose, Fault, senderVars, queueVars, receiverVars
<1>2. QueueInv'
  BY <1>1, QueueSame DEF DatagramInv
<1>3. StreamTyped /\ Shaping /\ Carried /\ Removed /\ Tracked /\ Whole
  BY DEF DatagramInv, StreamInv
<1>4. faults' \in 0..MaxFaults
  BY <1>1, <1>3, DatagramBounds DEF StreamTyped
<1>5. StreamTyped'
  BY <1>1, <1>3, <1>4 DEF StreamTyped
<1>6. /\ Emitted' = Emitted /\ Injecting' = Injecting /\ Fragmenting' = Fragmenting
      /\ \A p : Number(p)' = Number(p) /\ Fragments(p)' = Fragments(p)
      /\ \A p, i : FragmentOf(p, i)' = FragmentOf(p, i)
      /\ Shaping'
  BY <1>1, <1>3, EndsSame
<1>7. /\ DOMAIN OneLess(d) \subseteq DOMAIN network
      /\ OneLess(d) = [e \in DOMAIN OneLess(d) |-> OneLess(d)[e]]
      /\ \A e \in DOMAIN OneLess(d) : OneLess(d)[e] \in Nat \ {0}
      /\ \A e \in DOMAIN network : e # d => e \in DOMAIN OneLess(d) /\ OneLess(d)[e] = network[e]
      /\ network[d] = 1 => d \notin DOMAIN OneLess(d)
  BY <1>3, OneLessIs DEF Carried
<1>8. Carried'
  <2>1. \A p : Fresh(p)' = Fresh(p)
    BY <1>1 DEF Fresh
  <2>2. ASSUME NEW e \in DOMAIN network', Fresh(e.packet)
        PROVE  network'[e] = 1 /\ e \notin delivered'
    <3>1. e \in DOMAIN network /\ network[e] = 1 /\ e \notin delivered
      BY <1>1, <1>3, <1>7, <2>2 DEF Carried
    <3>2. e # d
      BY <1>1, <1>7, <2>2, <3>1
    <3> QED
      BY <1>1, <1>7, <3>1, <3>2
  <2>3. DOMAIN network' \cup delivered' \subseteq Emitted'
    BY <1>1, <1>3, <1>6, <1>7 DEF Carried
  <2>4. network' = [e \in DOMAIN network' |-> network'[e]] /\ \A e \in DOMAIN network' : network'[e] \in Nat \ {0}
    BY <1>1, <1>7
  <2> QED
    BY <2>1, <2>2, <2>3, <2>4 DEF Carried
<1>9. Removed' /\ Tracked'
  BY <1>1, <1>3, <1>6 DEF Removed, Tracked
<1>10. Whole'
  BY <1>1, <1>3, <1>6 DEF Whole, Fresh
<1>11. Kept'
  BY <1>1 DEF Kept
<1> QED
  BY <1>2, <1>5, <1>6, <1>8, <1>9, <1>10, <1>11 DEF DatagramInv, StreamInv

LEMMA RepeatKeeps ==
  ASSUME DatagramInv, NEW d \in DOMAIN network, Repeat(d)
  PROVE  DatagramInv'
<1>1. /\ faults < MaxFaults /\ faults' = faults + 1
      /\ network' = [network EXCEPT ![d] = @ + 1] /\ repeated' = repeated \cup {d}
      /\ UNCHANGED <<transformer, sentPackets, outputIndex, output, removeSequences, tracker>>
      /\ UNCHANGED <<complete, received, now, aqm, acks, drops, badIntervals, untraced>>
      /\ UNCHANGED <<lossy, delivered>>
  BY DEF Repeat, Fault, senderVars, queueVars, receiverVars
<1>2. QueueInv'
  BY <1>1, QueueSame DEF DatagramInv
<1>3. StreamTyped /\ Shaping /\ Carried /\ Removed /\ Tracked /\ Whole /\ Kept
  BY DEF DatagramInv, StreamInv
<1>4. faults' \in 0..MaxFaults
  BY <1>1, <1>3, DatagramBounds DEF StreamTyped
<1>5. StreamTyped'
  BY <1>1, <1>3, <1>4 DEF StreamTyped
<1>6. /\ Emitted' = Emitted /\ Injecting' = Injecting /\ Fragmenting' = Fragmenting
      /\ \A p : Number(p)' = Number(p) /\ Fragments(p)' = Fragments(p)
      /\ \A p, i : FragmentOf(p, i)' = FragmentOf(p, i)
      /\ Shaping'
  BY <1>1, <1>3, EndsSame
<1>7. /\ DOMAIN network' = DOMAIN network /\ network'[d] = network[d] + 1
      /\ \A e \in DOMAIN network : e # d => network'[e] = network[e]
      /\ network' = [e \in DOMAIN network' |-> network'[e]]
  BY <1>1, <1>3 DEF Carried
<1>8. \A p : (Fresh(p)' => Fresh(p) /\ p # d.packet)
  BY <1>1 DEF Fresh
<1>9. Carried'
  <2>1. \A e \in DOMAIN network' : network'[e] \in Nat \ {0}
    BY <1>3, <1>7 DEF Carried
  <2>2. ASSUME NEW e \in DOMAIN network', Fresh(e.packet)'
        PROVE  network'[e] = 1 /\ e \notin delivered'
    BY <1>1, <1>3, <1>7, <1>8, <2>2 DEF Carried
  <2>3. DOMAIN network' \cup delivered' \subseteq Emitted'
    BY <1>1, <1>3, <1>6, <1>7 DEF Carried
  <2>4. \A e \in DOMAIN network' : Fresh(e.packet)' => network'[e] = 1 /\ e \notin delivered'
    BY <2>2
  <2> HIDE DEF Fresh
  <2> QED
    BY <1>7, <2>1, <2>3, <2>4 DEF Carried
<1>10. Removed' /\ Tracked'
  BY <1>1, <1>3, <1>6 DEF Removed, Tracked
<1>11. Whole'
  <2>1. \A p \in Range(received') \ {Fake} : p <= sentPackets' /\ Range(Fragments(p)') \subseteq delivered'
    BY <1>1, <1>3, <1>6 DEF Whole
  <2>2. Fresh(Fake)' => Fake \notin Range(received')
    BY <1>1, <1>3, <1>8 DEF Whole
  <2>3. \A p \in 1..Len(Lengths) :
          Fresh(p)' => \A i, j \in 1..Len(received') : received'[i] = p /\ received'[j] = p => i = j
    BY <1>1, <1>3, <1>8 DEF Whole
  <2> QED
    BY <2>1, <2>2, <2>3 DEF Whole, Fake
<1>12. Kept'
  BY <1>1, <1>3, <1>6, <1>7 DEF Kept, Missing
<1> QED
  BY <1>2, <1>5, <1>6, <1>9, <1>10, <1>11, <1>12 DEF DatagramInv, StreamInv

LEMMA ReapKeeps ==
  ASSUME DatagramInv, NEW p \in 1..Len(Lengths), Reap(p)
  PROVE  DatagramInv'
<1>1. /\ tracker[p] # {} /\ tracker' = [tracker EXCEPT ![p] = {}]
      /\ lossy' = (lossy \/ p \notin Range(received))
      /\ UNCHANGED <<transformer, sentPackets, outputIndex, output, removeSequences, network>>
      /\ UNCHANGED <<complete, received, now, aqm, acks, drops, badIntervals, untraced>>
      /\ UNCHANGED <<faults, repeated, delivered>>
  BY DEF Reap, senderVars, queueVars, receiverVars
<1>2. QueueInv'
  BY <1>1, QueueSame DEF DatagramInv
<1>3. StreamTyped /\ Shaping /\ Carried /\ Removed /\ Tracked /\ Whole /\ Kept
  BY DEF DatagramInv, StreamInv
<1>4. /\ tracker' \in [1..Len(Lengths) -> SUBSET (0..MostFragments)] /\ tracker'[p] = {}
      /\ \A r \in 1..Len(Lengths) : r # p => tracker'[r] = tracker[r]
  BY <1>1, <1>3 DEF StreamTyped
<1>5. StreamTyped'
  BY <1>1, <1>3, <1>4 DEF StreamTyped
<1>6. /\ Emitted' = Emitted /\ Injecting' = Injecting /\ Fragmenting' = Fragmenting
      /\ \A r : Number(r)' = Number(r) /\ Fragments(r)' = Fragments(r)
      /\ \A r, i : FragmentOf(r, i)' = FragmentOf(r, i)
      /\ Shaping'
  BY <1>1, <1>3, EndsSame
<1>7. Carried' /\ Removed'
  BY <1>1, <1>3, <1>6 DEF Carried, Removed, Fresh
<1>8. Tracked'
  BY <1>1, <1>3, <1>4, <1>6 DEF Tracked
<1>9. Whole'
  BY <1>1, <1>3, <1>6 DEF Whole, Fresh
<1>10. Kept'
  <2>1. SUFFICES ASSUME ~lossy', NEW r \in 1..sentPackets'
                 PROVE  \/ r \in Range(received')
                        \/ \A i \in Missing(r)' : FragmentOf(r, i)' \in DOMAIN network'
    BY DEF Kept
  <2>2. ~lossy /\ p \in Range(received)
    BY <1>1, <2>1, Zenon
  <2>3. r \in 1..Len(Lengths) /\ r \in 1..sentPackets
    BY <1>1, <1>3, DatagramBounds DEF StreamTyped
  <2>4. CASE r = p
    BY <1>1, <2>2, <2>4
  <2>5. CASE r # p
    <3>1. Missing(r)' = Missing(r)
      BY <1>4, <1>6, <2>3, <2>5 DEF Missing
    <3> QED
      BY <1>1, <1>3, <1>6, <2>2, <2>3, <3>1 DEF Kept
  <2> QED
    BY <2>4, <2>5
<1> QED
  BY <1>2, <1>5, <1>6, <1>7, <1>8, <1>9, <1>10 DEF DatagramInv, StreamInv

-----------------------------------------------------------------------------
(* The receiver *)

LEMMA Popped ==
  ASSUME NEW p
  PROVE  GetComplete(Append(<<>>, p)) = <<p>>
<1>1. Append(<<>>, p) = <<p>> /\ Len(<<p>>) = 1 /\ (1 + 1) \div 2 = 1
  OBVIOUS
<1>2. GetComplete(<<p>>) = [i \in 1..1 |-> <<p>>[1 + 1 - i]]
  BY <1>1 DEF GetComplete
<1>3. \A i \in 1..1 : <<p>>[1 + 1 - i] = p
  OBVIOUS
<1>4. [i \in 1..1 |-> p] = <<p>>
  OBVIOUS
<1> QED
  BY <1>1, <1>2, <1>3, <1>4

\* What r becomes with k, which is empty or holds e.
Grows(r, k, e) ==
  /\ k = <<>> => r \o k = r
  /\ k = <<e>> => /\ Range(r \o k) = Range(r) \cup {e} /\ Len(r \o k) = Len(r) + 1
                  /\ (r \o k)[Len(r) + 1] = e /\ \A i \in 1..Len(r) : (r \o k)[i] = r[i]

LEMMA Grown ==
  ASSUME NEW S, NEW r \in Seq(S), NEW e \in S, NEW k, k = <<>> \/ k = <<e>>
  PROVE  r \o k \in Seq(S) /\ Grows(r, k, e)
<1>1. CASE k = <<>>
  <2>1. r \o k = r
    BY <1>1, ConcatEmptySeq
  <2> QED
    BY <1>1, <2>1 DEF Grows
<1>2. CASE k = <<e>>
  <2>1. k \in Seq(S) /\ Len(k) = 1 /\ k[1] = e /\ Len(r) \in Nat
    BY <1>2
  <2>2. /\ r \o k \in Seq(S) /\ Len(r \o k) = Len(r) + 1
        /\ \A i \in 1..(Len(r) + 1) : (r \o k)[i] = IF i <= Len(r) THEN r[i] ELSE k[i - Len(r)]
    BY <2>1, ConcatProperties
  <2>3. (r \o k)[Len(r) + 1] = e /\ \A i \in 1..Len(r) : (r \o k)[i] = r[i]
    BY <2>1, <2>2
  <2>4. Range(r \o k) = Range(r) \cup {e}
    <3>1. Range(r \o k) = {(r \o k)[i] : i \in 1..(Len(r) + 1)} /\ Range(r) = {r[i] : i \in 1..Len(r)}
      BY <2>2 DEF Range
    <3>2. \A i : i \in 1..(Len(r) + 1) <=> i \in 1..Len(r) \/ i = Len(r) + 1
      BY <2>1
    <3> QED
      BY <2>3, <3>1, <3>2
  <2> QED
    BY <1>2, <2>2, <2>3, <2>4 DEF Grows
<1> QED
  BY <1>1, <1>2

\* The fragments of packet d.packet that are missing once d has come.
Left(d) == Missing(d.packet) \ {d.index}

LEMMA RestoredIs ==
  ASSUME StreamInv, NEW d \in DOMAIN network, OnIncomingDatagram(d)
  PROVE  /\ Restored(d) = <<>> \/ Restored(d) = <<d.packet>>
         /\ complete' = <<>>
         /\ d.packet = Fake /\ Restored(d) # <<>> => d \in delivered
         /\ d.packet # Fake => (Restored(d) = <<d.packet>> <=> Left(d) = {})
         /\ d.packet # Fake /\ Left(d) # {} => Fragmenting /\ tracker' = [tracker EXCEPT ![d.packet] = Left(d)]
         /\ d.packet # Fake /\ Left(d) = {} => tracker' = [tracker EXCEPT ![d.packet] = {}]
         /\ d.packet = Fake => tracker' = tracker
<1>1. StreamTyped /\ Carried /\ Removed /\ Tracked
  BY DEF StreamInv
<1>2. d \in Emitted /\ complete = <<>> /\ sentPackets \in 0..Len(Lengths)
  BY <1>1 DEF Carried, StreamTyped
<1>3. /\ d.packet # Fake /\ Fragmenting => Defragment(d)
      /\ ~(d.packet # Fake /\ Fragmenting) => tracker' = tracker /\ complete' = complete
  BY DEF OnIncomingDatagram
<1>4. CASE d.packet = Fake
  <2>1. d.index \in InjectedIndices /\ d = Decoy(d.index)
    BY <1>2, <1>4, EmittedAre
  <2>2. Restored(d) = <<>> \/ Restored(d) = <<d.packet>>
    BY <1>4 DEF Restored
  <2>3. Restored(d) # <<>> => d.index \notin removeSequences
    BY <1>4 DEF Restored
  <2>4. Restored(d) # <<>> => d \in delivered
    BY <1>1, <2>1, <2>3 DEF Removed
  <2> QED
    BY <1>2, <1>3, <1>4, <2>2, <2>4
<1>5. CASE d.packet # Fake
  <2> DEFINE p == d.packet
  <2>1. /\ p \in 1..Len(Lengths) /\ d.index \in 0..(Number(p) - 1) /\ d.count = Number(p)
        /\ Number(p) \in Nat \ {0}
    BY <1>2, <1>5, EmittedAre, FragmentsOf
  <2>2. CASE Fragmenting
    <3>1. /\ Restored(d) = (IF Completes(d) THEN GetComplete(Append(<<>>, p)) ELSE <<>>)
      BY <1>2, <1>5, <2>2 DEF Restored
    <3>2. Completes(d) <=> Left(d) = {}
      <4>1. CASE tracker[p] = {}
        <5>1. Completes(d) <=> Number(p) = 1
          BY <2>1, <4>1 DEF Completes
        <5>2. Left(d) = (0..(Number(p) - 1)) \ {d.index}
          BY <4>1 DEF Left, Missing
        <5>3. Number(p) = 1 => Left(d) = {}
          BY <2>1, <5>2
        <5>4. Number(p) # 1 => 0 \in 0..(Number(p) - 1) /\ 1 \in 0..(Number(p) - 1)
          BY <2>1
        <5>5. Number(p) # 1 => Left(d) # {}
          BY <5>2, <5>4
        <5> QED
          BY <5>1, <5>3, <5>5
      <4>2. CASE tracker[p] # {}
        BY <4>2 DEF Completes, Left, Missing
      <4> QED
        BY <4>1, <4>2
    <3>3. tracker' = [tracker EXCEPT ![p] = Left(d)]
      <4>1. tracker' = [tracker EXCEPT ![p] =
                          (IF tracker[p] = {} THEN 0..(d.count - 1) ELSE tracker[p]) \ {d.index}]
        BY <1>3, <1>5, <2>2 DEF Defragment
      <4>2. Left(d) = (IF tracker[p] = {} THEN 0..(d.count - 1) ELSE tracker[p]) \ {d.index}
        BY <2>1 DEF Left, Missing
      <4> QED
        BY <4>1, <4>2
    <3>4. complete' = <<>>
      <4>1. Append(complete, p) = <<p>> /\ GetComplete(Append(complete, p)) = <<p>>
        BY <1>2, Popped
      <4>2. complete' = IF Completes(d) THEN SubSeq(<<p>>, 1, Len(<<p>>) - Len(<<p>>)) ELSE complete
        BY <1>3, <1>5, <2>2, <4>1 DEF Defragment
      <4>3. Len(<<p>>) - Len(<<p>>) = 0 /\ SubSeq(<<p>>, 1, 0) = <<>>
        OBVIOUS
      <4> QED
        BY <1>2, <4>2, <4>3
    <3>5. GetComplete(Append(<<>>, p)) = <<p>> /\ <<p>> # <<>>
      BY Popped
    <3> QED
      BY <1>5, <2>2, <3>1, <3>2, <3>3, <3>4, <3>5
  <2>3. CASE ~Fragmenting
    <3>1. Restored(d) = <<p>>
      BY <1>5, <2>3 DEF Restored
    <3>2. tracker[p] = {} /\ Number(p) = 1
      BY <1>1, <2>1, <2>3 DEF Tracked, Number
    <3>3. Left(d) = {}
      BY <2>1, <3>2 DEF Left, Missing
    <3>4. tracker' = tracker /\ complete' = <<>>
      BY <1>2, <1>3, <2>3
    <3>5. tracker \in [1..Len(Lengths) -> SUBSET (0..MostFragments)]
      BY <1>1 DEF StreamTyped
    <3>6. tracker = [tracker EXCEPT ![p] = {}]
      BY <2>1, <3>2, <3>5
    <3> QED
      BY <1>5, <3>1, <3>3, <3>4, <3>6
  <2> QED
    BY <2>2, <2>3
<1> QED
  BY <1>4, <1>5

\* Once nothing of a packet is missing, all of it has come.
LEMMA WholeOnceNoneLeft ==
  ASSUME StreamInv, NEW d \in DOMAIN network, d.packet # Fake, Left(d) = {}
  PROVE  Range(Fragments(d.packet)) \subseteq delivered \cup {d}
<1> DEFINE p == d.packet
<1>1. /\ d \in Emitted /\ sentPackets \in 0..Len(Lengths) /\ Tracked
  BY DEF StreamInv, StreamTyped, Carried
<1>2. p \in 1..Len(Lengths) /\ d = FragmentOf(p, d.index)
  BY <1>1, EmittedAre
<1>3. ASSUME NEW i \in 0..(Number(p) - 1) PROVE FragmentOf(p, i) \in delivered \cup {d}
  <2>1. CASE i = d.index
    BY <1>2, <2>1
  <2>2. CASE i # d.index
    <3>1. i \notin Missing(p)
      BY <2>2 DEF Left
    <3>2. tracker[p] # {} /\ i \notin tracker[p]
      BY <3>1 DEF Missing
    <3> QED
      BY <1>1, <1>2, <3>2 DEF Tracked
  <2> QED
    BY <2>1, <2>2
<1> QED
  BY <1>2, <1>3, FragmentsOf

LEMMA IncomingKeeps ==
  ASSUME DatagramInv, NEW d \in DOMAIN network, OnIncomingDatagram(d)
  PROVE  DatagramInv'
<1> DEFINE p == d.packet
           R == Restored(d)
<1>1. /\ network' = OneLess(d) /\ delivered' = delivered \cup {d}
      /\ removeSequences' = (IF p = Fake THEN removeSequences \ {d.index} ELSE removeSequences)
      /\ \/ received' = received \o R /\ faults' = faults /\ lossy' = lossy
         \/ /\ R # <<>> /\ faults < MaxFaults /\ faults' = faults + 1 /\ lossy' = TRUE
            /\ received' = received
      /\ UNCHANGED <<transformer, sentPackets, outputIndex, output>>
      /\ UNCHANGED <<now, aqm, acks, drops, badIntervals, untraced, repeated>>
  BY DEF OnIncomingDatagram, Fault, senderVars, queueVars
<1>2. QueueInv'
  BY <1>1, QueueSame DEF DatagramInv
<1>3. StreamInv /\ StreamTyped /\ Shaping /\ Carried /\ Removed /\ Tracked /\ Whole /\ Kept
  BY DEF DatagramInv, StreamInv
<1>4. /\ R = <<>> \/ R = <<p>>
      /\ complete' = <<>>
      /\ p = Fake /\ R # <<>> => d \in delivered
      /\ p # Fake => (R = <<p>> <=> Left(d) = {})
      /\ p # Fake /\ Left(d) # {} => Fragmenting /\ tracker' = [tracker EXCEPT ![p] = Left(d)]
      /\ p # Fake /\ Left(d) = {} => tracker' = [tracker EXCEPT ![p] = {}]
      /\ p = Fake => tracker' = tracker
  BY <1>3, RestoredIs
<1>5. /\ d \in Emitted /\ sentPackets \in 0..Len(Lengths) /\ Len(Lengths) \in Nat
  BY <1>3, DatagramBounds DEF Carried, StreamTyped
<1>6. /\ p = Fake => d.index \in InjectedIndices /\ d = Decoy(d.index)
      /\ p # Fake => /\ p \in 1..sentPackets /\ p \in 1..Len(Lengths) /\ p \in Nat
                     /\ d = FragmentOf(p, d.index) /\ d \in Range(Fragments(p))
                     /\ d.index \in 0..(Number(p) - 1)
  BY <1>5, EmittedAre
<1>7. p \in Fake..Len(Lengths) /\ p \in Nat
  BY <1>5, <1>6 DEF Fake
<1> HIDE DEF R
<1>8. /\ received' \in Seq(Fake..Len(Lengths))
      /\ \/ received' = received
         \/ /\ R = <<p>> /\ Range(received') = Range(received) \cup {p}
            /\ Len(received') = Len(received) + 1 /\ received'[Len(received) + 1] = p
            /\ \A i \in 1..Len(received) : received'[i] = received[i]
  <2>1. received \in Seq(Fake..Len(Lengths))
    BY <1>3 DEF StreamTyped
  <2>2. received \o R \in Seq(Fake..Len(Lengths)) /\ Grows(received, R, p)
    <3> HIDE DEF p
    <3> QED
      BY <1>4, <1>7, <2>1, Grown
  <2>3. CASE received' = received
    BY <2>1, <2>3
  <2>4. CASE received' = received \o R
    BY <1>4, <2>2, <2>4 DEF Grows
  <2> QED
    BY <1>1, <2>3, <2>4
<1>9. /\ tracker' \in [1..Len(Lengths) -> SUBSET (0..MostFragments)]
      /\ p # Fake => tracker'[p] = Left(d)
      /\ \A r \in 1..Len(Lengths) : r # p => tracker'[r] = tracker[r]
  <2>1. tracker \in [1..Len(Lengths) -> SUBSET (0..MostFragments)]
    BY <1>3 DEF StreamTyped
  <2>2. CASE p = Fake
    BY <1>4, <2>1, <2>2
  <2>3. CASE p # Fake
    <3>1. tracker' = [tracker EXCEPT ![p] = Left(d)]
      BY <1>4, <2>3
    <3>2. Left(d) \subseteq 0..MostFragments
      <4>1. Number(p) \in Nat /\ MostFragments \in Nat /\ Number(p) - 1 <= MostFragments
        BY <1>6, <2>3, FragmentsOf
      <4>2. 0..(Number(p) - 1) \subseteq 0..MostFragments
        BY <4>1
      <4>3. Missing(p) \subseteq 0..MostFragments
        BY <1>6, <2>1, <2>3, <4>2 DEF Missing
      <4> QED
        BY <4>3 DEF Left
    <3> QED
      BY <1>6, <2>1, <2>3, <3>1, <3>2
  <2> QED
    BY <2>2, <2>3
<1>10. StreamTyped'
  <2>1. faults' \in 0..MaxFaults /\ lossy' \in BOOLEAN
    <3>1. faults \in 0..MaxFaults /\ lossy \in BOOLEAN /\ MaxFaults \in Nat
      BY <1>3, DatagramBounds DEF StreamTyped
    <3>2. CASE faults' = faults /\ lossy' = lossy
      BY <3>1, <3>2
    <3>3. CASE faults < MaxFaults /\ faults' = faults + 1 /\ lossy' = TRUE
      BY <3>1, <3>3
    <3> QED
      BY <1>1, <3>2, <3>3
  <2>2. removeSequences' \subseteq InjectedIndices
    BY <1>1, <1>3 DEF StreamTyped
  <2> QED
    BY <1>1, <1>3, <1>4, <1>8, <1>9, <2>1, <2>2 DEF StreamTyped
<1>11. /\ Emitted' = Emitted /\ Injecting' = Injecting /\ Fragmenting' = Fragmenting
       /\ \A r : Number(r)' = Number(r) /\ Fragments(r)' = Fragments(r)
       /\ \A r, i : FragmentOf(r, i)' = FragmentOf(r, i)
       /\ Shaping'
  BY <1>1, <1>3, EndsSame
<1>12. \A r : Fresh(r)' = Fresh(r)
  BY <1>1 DEF Fresh
<1>13. Fresh(p) => network[d] = 1 /\ d \notin delivered
  BY <1>3 DEF Carried
<1>14. /\ DOMAIN OneLess(d) \subseteq DOMAIN network
       /\ OneLess(d) = [e \in DOMAIN OneLess(d) |-> OneLess(d)[e]]
       /\ \A e \in DOMAIN OneLess(d) : OneLess(d)[e] \in Nat \ {0}
       /\ \A e \in DOMAIN network : e # d => e \in DOMAIN OneLess(d) /\ OneLess(d)[e] = network[e]
       /\ network[d] = 1 => d \notin DOMAIN OneLess(d)
  BY <1>3, OneLessIs DEF Carried
<1>15. Carried'
  <2>1. ASSUME NEW e \in DOMAIN network', Fresh(e.packet)
        PROVE  network'[e] = 1 /\ e \notin delivered'
    <3>1. e \in DOMAIN network /\ network[e] = 1 /\ e \notin delivered
      BY <1>1, <1>3, <1>14, <2>1 DEF Carried
    <3>2. e # d
      BY <1>1, <1>14, <2>1, <3>1
    <3> QED
      BY <1>1, <1>14, <3>1, <3>2
  <2>2. DOMAIN network' \cup delivered' \subseteq Emitted'
    BY <1>1, <1>3, <1>5, <1>11, <1>14 DEF Carried
  <2>3. /\ network' = [e \in DOMAIN network' |-> network'[e]]
        /\ \A e \in DOMAIN network' : network'[e] \in Nat \ {0}
    BY <1>1, <1>14
  <2> QED
    BY <1>12, <2>1, <2>2, <2>3 DEF Carried
<1>16. Removed'
  <2>1. SUFFICES ASSUME NEW j \in InjectedIndices, j \notin removeSequences'
                 PROVE  Decoy(j) \in delivered'
    BY DEF Removed
  <2>2. CASE j \notin removeSequences
    BY <1>1, <1>3, <2>2 DEF Removed
  <2>3. CASE j \in removeSequences
    <3>1. p = Fake /\ j = d.index
      BY <1>1, <2>1, <2>3
    <3> QED
      BY <1>1, <1>6, <3>1
  <2> QED
    BY <2>2, <2>3
<1>17. Tracked'
  <2>1. SUFFICES ASSUME NEW r \in 1..Len(Lengths), tracker'[r] # {}
                 PROVE  /\ Fragmenting /\ r <= sentPackets /\ tracker'[r] \subseteq 0..(Number(r) - 1)
                        /\ \A i \in 0..(Number(r) - 1) :
                             i \notin tracker'[r] => FragmentOf(r, i) \in delivered'
    BY <1>1, <1>11 DEF Tracked
  <2>2. CASE r # p
    BY <1>1, <1>3, <1>9, <2>1, <2>2 DEF Tracked
  <2>3. CASE r = p
    <3>1. p # Fake /\ tracker'[p] = Left(d) /\ Left(d) # {}
      BY <1>9, <2>1, <2>3 DEF Fake
    <3>2. Fragmenting /\ r <= sentPackets
      BY <1>4, <1>5, <1>6, <2>3, <3>1
    <3>3. Missing(p) \subseteq 0..(Number(p) - 1)
      BY <1>3, <2>1, <2>3 DEF Missing, Tracked
    <3>4. ASSUME NEW i \in 0..(Number(p) - 1), i \notin Left(d) PROVE FragmentOf(p, i) \in delivered'
      <4>1. CASE i = d.index
        BY <1>1, <1>6, <3>1, <4>1
      <4>2. CASE i # d.index
        <5>1. tracker[p] # {} /\ i \notin tracker[p]
          BY <3>4, <4>2 DEF Left, Missing
        <5> QED
          BY <1>1, <1>3, <2>1, <2>3, <5>1 DEF Tracked
      <4> QED
        BY <4>1, <4>2
    <3> QED
      BY <2>3, <3>1, <3>2, <3>3, <3>4 DEF Left
  <2> QED
    BY <2>2, <2>3
<1>18. p # Fake /\ R = <<p>> => Range(Fragments(p)) \subseteq delivered'
  BY <1>1, <1>3, <1>4, WholeOnceNoneLeft
<1>19. Fresh(p) /\ R = <<p>> => p \notin Range(received)
  <2>1. SUFFICES ASSUME Fresh(p), R = <<p>>, p \in Range(received) PROVE FALSE
    OBVIOUS
  <2>2. CASE p = Fake
    BY <1>3, <2>1, <2>2 DEF Whole
  <2>3. CASE p # Fake
    <3>1. Range(Fragments(p)) \subseteq delivered
      BY <1>3, <2>1, <2>3 DEF Whole
    <3> QED
      BY <1>6, <1>13, <2>1, <2>3, <3>1
  <2> QED
    BY <2>2, <2>3
<1>20. Whole'
  <2>1. ASSUME NEW r \in Range(received') \ {Fake}
        PROVE  r <= sentPackets /\ Range(Fragments(r)) \subseteq delivered'
    <3>1. CASE r \in Range(received)
      BY <1>1, <1>3, <3>1 DEF Whole
    <3>2. CASE r \notin Range(received)
      <4>1. r = p /\ p # Fake /\ R = <<p>>
        BY <1>8, <2>1, <3>2
      <4> QED
        BY <1>5, <1>6, <1>18, <4>1
    <3> QED
      BY <3>1, <3>2
  <2>2. ASSUME Fresh(Fake) PROVE Fake \notin Range(received')
    <3>1. SUFFICES ASSUME Fake \in Range(received') PROVE FALSE
      OBVIOUS
    <3>2. Fake \notin Range(received)
      BY <1>3, <2>2 DEF Whole
    <3>3. p = Fake /\ R = <<p>>
      BY <1>8, <3>1, <3>2
    <3>4. d \in delivered
      BY <1>4, <3>3
    <3> QED
      BY <1>13, <2>2, <3>3, <3>4
  <2>3. ASSUME NEW r \in 1..Len(Lengths), Fresh(r),
               NEW i \in 1..Len(received'), NEW j \in 1..Len(received'),
               received'[i] = r, received'[j] = r
        PROVE  i = j
    <3>1. Len(received) \in Nat /\ Range(received) = {received[k] : k \in 1..Len(received)}
      BY <1>3 DEF StreamTyped, Range
    <3>2. CASE i \in 1..Len(received) /\ j \in 1..Len(received)
      <4>1. received[i] = r /\ received[j] = r
        BY <1>8, <2>3, <3>2
      <4> QED
        BY <1>3, <2>3, <3>2, <4>1 DEF Whole
    <3>3. CASE ~(i \in 1..Len(received) /\ j \in 1..Len(received))
      <4>1. R = <<p>> /\ Len(received') = Len(received) + 1 /\ received'[Len(received) + 1] = p
        BY <1>8, <3>3
      <4>2. /\ i \in 1..Len(received) \/ i = Len(received) + 1
            /\ j \in 1..Len(received) \/ j = Len(received) + 1
        BY <3>1, <4>1
      <4>3. r = p
        BY <2>3, <3>3, <4>1, <4>2
      <4>4. \A k \in 1..Len(received) : received'[k] # p
        <5>1. \A k \in 1..Len(received) : received'[k] = received[k]
          BY <1>8, <4>1
        <5> QED
          BY <1>19, <2>3, <3>1, <4>1, <4>3, <5>1
      <4> QED
        BY <2>3, <4>2, <4>3, <4>4
    <3> QED
      BY <3>2, <3>3
  <2> QED
    BY <1>1, <1>11, <1>12, <2>1, <2>2, <2>3 DEF Whole, Fake
<1>21. Kept'
  <2>1. SUFFICES ASSUME ~lossy', NEW r \in 1..sentPackets
                 PROVE  \/ r \in Range(received')
                        \/ \A i \in Missing(r)' : FragmentOf(r, i) \in DOMAIN network'
    BY <1>1, <1>11 DEF Kept
  <2>2. ~lossy /\ received' = received \o R
    <3>1. lossy' # TRUE
      BY <2>1
    <3> QED
      BY <1>1, <2>1, <3>1
  <2>3. r \in 1..Len(Lengths) /\ r # Fake
    BY <1>5 DEF Fake
  <2>4. Range(received) \subseteq Range(received')
    BY <1>8
  <2>5. \/ r \in Range(received)
        \/ \A i \in Missing(r) : FragmentOf(r, i) \in DOMAIN network
    BY <1>3, <2>2 DEF Kept
  <2>6. CASE r \in Range(received)
    BY <2>4, <2>6
  <2>7. CASE r # p /\ \A i \in Missing(r) : FragmentOf(r, i) \in DOMAIN network
    <3>1. Missing(r)' = Missing(r)
      BY <1>9, <1>11, <2>3, <2>7 DEF Missing
    <3>2. \A i : FragmentOf(r, i) # d
      BY <2>7 DEF FragmentOf
    <3> QED
      BY <1>1, <1>14, <2>7, <3>1, <3>2
  <2>8. CASE r = p /\ Left(d) # {} /\ \A i \in Missing(r) : FragmentOf(r, i) \in DOMAIN network
    <3>1. Missing(r)' = Left(d)
      BY <1>9, <2>3, <2>8 DEF Missing
    <3>2. \A i \in Left(d) : i \in Missing(r) /\ FragmentOf(r, i) # d
      BY <2>8 DEF Left, FragmentOf
    <3> QED
      BY <1>1, <1>14, <2>8, <3>1, <3>2
  <2>9. CASE r = p /\ Left(d) = {}
    <3>1. R = <<p>>
      BY <1>4, <2>3, <2>9
    <3>2. Range(received \o R) = Range(received) \cup {p}
      <4>1. received \in Seq(Fake..Len(Lengths))
        BY <1>3 DEF StreamTyped
      <4>2. Grows(received, R, p)
        <5> HIDE DEF p
        <5> QED
          BY <1>7, <3>1, <4>1, Grown
      <4> QED
        BY <3>1, <4>2 DEF Grows
    <3> QED
      BY <2>2, <2>9, <3>2
  <2> QED
    BY <2>5, <2>6, <2>7, <2>8, <2>9
<1> QED
  BY <1>2, <1>10, <1>11, <1>15, <1>16, <1>17, <1>20, <1>21 DEF DatagramInv, StreamInv

-----------------------------------------------------------------------------
(* The fragments of the browser's packets *)

LEMMA DatagramsStart ==
  ASSUME DatagramInit
  PROVE  DatagramInv
<1>1. /\ transformer \in Transformers /\ sentPackets = 0 /\ outputIndex = 0 /\ output = <<>>
      /\ removeSequences = InjectedIndices
      /\ aqm = [dropLevel |-> 1, dropNext |-> FALSE, deadline |-> 0, sent |-> 0,
                minDelay |-> Infinity, traceCounter |-> TRACED]
      /\ acks = <<>> /\ drops = 0 /\ badIntervals = 0 /\ untraced = 0 /\ network = << >>
      /\ tracker = [p \in 1..Len(Lengths) |-> {}] /\ complete = <<>> /\ received = <<>>
      /\ now = 1 /\ faults = 0 /\ lossy = FALSE /\ repeated = {} /\ delivered = {}
  BY DEF DatagramInit
<1>2. Infinity \in Nat /\ TRACED \in Nat /\ TRACED >= 1 /\ MaxTime >= 1 /\ MaxTime \in Nat
  BY DatagramBounds DEF Infinity
<1>3. QueueInv
  <2>1. aqm \in Aqm
    BY <1>1, <1>2 DEF Aqm
  <2>2. acks \in Seq(1..now) /\ now \in 1..MaxTime
    BY <1>1, <1>2
  <2>3. Earned(aqm, drops, badIntervals, untraced)
    BY <1>1, <1>2 DEF Earned
  <2> QED
    BY <1>1, <2>1, <2>2, <2>3 DEF QueueInv
<1>4. StreamTyped
  <2>1. Len(Lengths) \in Nat /\ MaxFaults \in Nat
    BY DatagramBounds
  <2>2. sentPackets \in 0..Len(Lengths) /\ outputIndex \in Nat /\ faults \in 0..MaxFaults
    BY <1>1, <2>1
  <2>3. output \in Seq(Datagrams) /\ received \in Seq(Fake..Len(Lengths))
    BY <1>1
  <2>4. tracker \in [1..Len(Lengths) -> SUBSET (0..MostFragments)]
    BY <1>1
  <2> QED
    BY <1>1, <2>2, <2>3, <2>4 DEF StreamTyped
<1>5. Len(output) = 0 /\ Len(received) = 0 /\ Range(received) = {}
  BY <1>1 DEF Range
<1>6. Shaping
  BY <1>1, <1>5, InjectedBounds DEF Shaping, Counted
<1>7. DOMAIN network = {} /\ network = [d \in DOMAIN network |-> network[d]]
  BY <1>1
<1>8. Carried
  BY <1>1, <1>7 DEF Carried
<1>9. Removed /\ Tracked
  BY <1>1 DEF Removed, Tracked
<1>10. Whole
  BY <1>1, <1>5 DEF Whole
<1>11. Kept
  BY <1>1 DEF Kept
<1> QED
  BY <1>3, <1>4, <1>6, <1>8, <1>9, <1>10, <1>11 DEF DatagramInv, StreamInv

LEMMA NetworkSame ==
  ASSUME StreamInv, UNCHANGED <<transformer, sentPackets, outputIndex, output>>,
         UNCHANGED <<removeSequences, tracker, complete, received, network>>,
         UNCHANGED <<lossy, repeated, delivered>>, faults' \in 0..MaxFaults
  PROVE  StreamInv'
<1>1. /\ Emitted' = Emitted /\ Injecting' = Injecting /\ Fragmenting' = Fragmenting
      /\ \A p : Number(p)' = Number(p) /\ Fragments(p)' = Fragments(p)
      /\ \A p, i : FragmentOf(p, i)' = FragmentOf(p, i)
      /\ Shaping => Shaping'
  BY EndsSame
<1>2. StreamTyped' /\ Shaping'
  BY <1>1 DEF StreamInv, StreamTyped
<1>3. Carried' /\ Removed'
  BY <1>1 DEF StreamInv, Carried, Removed, Fresh
<1>4. Tracked' /\ Whole'
  BY <1>1 DEF StreamInv, Tracked, Whole, Fresh
<1>5. Kept'
  BY <1>1 DEF StreamInv, Kept, Missing
<1> QED
  BY <1>2, <1>3, <1>4, <1>5 DEF StreamInv

LEMMA DatagramsStep ==
  ASSUME DatagramInv, [DatagramNext]_datagramVars
  PROVE  DatagramInv'
<1>1. QueueInv /\ StreamInv /\ faults \in 0..MaxFaults /\ MaxFaults \in Nat
  BY DatagramBounds DEF DatagramInv, StreamInv, StreamTyped
<1>2. CASE SendTo
  BY <1>2, SendToKeeps
<1>3. CASE Ack
  <2>1. StreamInv'
    BY <1>1, <1>3, NetworkSame DEF Ack, senderVars, receiverVars
  <2> QED
    BY <1>1, <1>3, <2>1, AckKeeps DEF DatagramInv
<1>4. CASE AckFails
  <2>1. faults' \in 0..MaxFaults
    BY <1>1, <1>4 DEF AckFails, Fault
  <2>2. StreamInv'
    BY <1>1, <1>4, <2>1, NetworkSame DEF AckFails, senderVars, receiverVars
  <2> QED
    BY <1>1, <1>4, <2>2, AckFailsKeeps DEF DatagramInv
<1>5. CASE Tick
  <2>1. StreamInv'
    BY <1>1, <1>5, NetworkSame DEF Tick, senderVars, receiverVars
  <2> QED
    BY <1>1, <1>5, <2>1, TickKeeps DEF DatagramInv
<1>6. ASSUME NEW d \in DOMAIN network, Lose(d) \/ Repeat(d) \/ OnIncomingDatagram(d)
      PROVE  DatagramInv'
  BY <1>6, LoseKeeps, RepeatKeeps, IncomingKeeps
<1>7. ASSUME NEW p \in 1..Len(Lengths), Reap(p) PROVE DatagramInv'
  BY <1>7, ReapKeeps
<1>8. CASE UNCHANGED datagramVars
  <2>1. /\ UNCHANGED <<transformer, sentPackets, outputIndex, output>>
        /\ UNCHANGED <<removeSequences, tracker, complete, received, network>>
        /\ UNCHANGED <<lossy, repeated, delivered, faults>>
        /\ UNCHANGED <<aqm, acks, drops, badIntervals, untraced, now>>
    BY <1>8 DEF datagramVars, senderVars, queueVars, receiverVars
  <2> QED
    BY <1>1, <2>1, NetworkSame, QueueSame DEF DatagramInv
<1> QED
  BY <1>2, <1>3, <1>4, <1>5, <1>6, <1>7, <1>8 DEF DatagramNext

LEMMA DatagramsKeep == DatagramSpec => []DatagramInv
<1>1. DatagramInit => DatagramInv
  BY DatagramsStart
<1>2. DatagramInv /\ [DatagramNext]_datagramVars => DatagramInv'
  BY DatagramsStep
<1> QED
  BY <1>1, <1>2, PTL DEF DatagramSpec

\* The type invariant of Datagrams: the fields of CoDelIsh, the times of its traced sends,
\* the copies on their way, the trackers and what the browser is given stay in their
\* ranges, for any lengths, fragment size, injected indices and interval.
THEOREM DatagramsTyped == DatagramSpec => []DatagramTypeOK
<1>1. ASSUME DatagramInv PROVE DatagramTypeOK
  <2>1. QueueInv /\ StreamTyped /\ Carried
    BY <1>1 DEF DatagramInv, StreamInv
  <2>2. now \in 1..MaxTime /\ now \in Nat /\ MaxTime \in Nat /\ now <= MaxTime
    BY <2>1, DatagramBounds DEF QueueInv
  <2>3. acks \in Seq(1..MaxTime)
    BY <2>1, <2>2, LongerSeq DEF QueueInv
  <2>4. \A d \in DOMAIN network : d \in Datagrams /\ network[d] \in Nat
    BY <2>1 DEF Carried, Emitted
  <2>5. complete \in Seq(1..Len(Lengths))
    BY <2>1 DEF StreamTyped
  <2>6. aqm \in [dropLevel : Nat \ {0}, dropNext : BOOLEAN, deadline : Nat, sent : Nat,
                 minDelay : 0..Infinity, traceCounter : 0..TRACED]
    BY <2>1 DEF QueueInv, Aqm
  <2> QED
    BY <2>1, <2>2, <2>3, <2>4, <2>5, <2>6 DEF DatagramTypeOK, StreamTyped
<1> QED
  BY <1>1, DatagramsKeep, PTL

LEMMA TimesAre ==
  ASSUME NEW S, received \in Seq(S), NEW p
  PROVE  /\ Times(p) \in Nat
         /\ p \notin Range(received) => Times(p) = 0
         /\ p \in Range(received) => Times(p) >= 1
         /\ (\A i, j \in 1..Len(received) : received[i] = p /\ received[j] = p => i = j) => Times(p) <= 1
<1> DEFINE I == {i \in DOMAIN received : received[i] = p}
<1>1. DOMAIN received = 1..Len(received) /\ Len(received) \in Nat
  OBVIOUS
<1>2. Range(received) = {received[i] : i \in 1..Len(received)}
  BY <1>1 DEF Range
<1>3. IsFiniteSet(I)
  <2>1. I \subseteq 1..Len(received) /\ IsFiniteSet(1..Len(received))
    BY <1>1, FS_Interval
  <2> HIDE DEF I
  <2> QED
    BY <2>1, FS_Subset
<1>4. Times(p) = Cardinality(I)
  BY DEF Times
<1>5. p \notin Range(received) <=> I = {}
  BY <1>1, <1>2
<1>6. (\A i, j \in 1..Len(received) : received[i] = p /\ received[j] = p => i = j)
        => I = {} \/ \E i : I = {i}
  BY <1>1
<1> HIDE DEF I
<1>7. Cardinality(I) \in Nat /\ (Cardinality(I) = 0 <=> I = {})
  BY <1>3, FS_CardinalityType, FS_EmptySet
<1>8. (\E i : I = {i}) => Cardinality(I) = 1
  BY FS_Singleton
<1> QED
  BY <1>4, <1>5, <1>6, <1>7, <1>8

\* For any lengths of packets, any fragment size and any indices of the packets that are
\* injected: whatever the network loses, repeats and reorders, the browser is given only
\* packets that were sent, whole, each one time and none that was injected, unless
\* copies were made of it; nothing else is lost; and the injected packets are in their places.
THEOREM StreamAlwaysRestored == DatagramSpec => []StreamRestored
<1>1. ASSUME DatagramInv PROVE StreamRestored
  <2>1. StreamTyped /\ Shaping /\ Carried /\ Whole /\ Kept
    BY <1>1 DEF DatagramInv, StreamInv
  <2>2. /\ received \in Seq(Fake..Len(Lengths)) /\ complete = <<>>
        /\ sentPackets \in 0..Len(Lengths) /\ Len(Lengths) \in Nat
        /\ tracker \in [1..Len(Lengths) -> SUBSET (0..MostFragments)]
    BY <2>1, DatagramBounds DEF StreamTyped
  <2>3. OnlySent
    <3>1. ASSUME NEW p \in Fake..Len(Lengths), \A d \in repeated : d.packet # p
          PROVE  Times(p) <= (IF p = Fake THEN 0 ELSE 1)
      <4>1. Fresh(p)
        BY <3>1 DEF Fresh
      <4>2. CASE p = Fake
        <5>1. p \notin Range(received)
          BY <2>1, <4>1, <4>2 DEF Whole
        <5> QED
          BY <2>2, <4>2, <5>1, TimesAre
      <4>3. CASE p # Fake
        <5>1. p \in 1..Len(Lengths)
          BY <2>2, <4>3 DEF Fake
        <5>2. \A i, j \in 1..Len(received) : received[i] = p /\ received[j] = p => i = j
          BY <2>1, <4>1, <5>1 DEF Whole
        <5>3. Times(p) <= 1
          BY <2>2, <5>2, TimesAre
        <5> QED
          BY <4>3, <5>3
      <4> QED
        BY <4>2, <4>3
    <3> QED
      BY <2>1, <2>2, <3>1 DEF OnlySent, Whole
  <2>4. NothingElseIsLost
    <3>1. ASSUME DOMAIN network = {}, ~lossy, NEW p \in 1..sentPackets PROVE Times(p) >= 1
      <4>1. p \in 1..Len(Lengths)
        BY <2>2
      <4>2. Missing(p) # {}
        <5>1. Number(p) \in Nat \ {0}
          BY <4>1, FragmentsOf
        <5>2. 0 \in 0..(Number(p) - 1)
          BY <5>1
        <5> QED
          BY <5>2 DEF Missing
      <4>3. p \in Range(received)
        BY <2>1, <3>1, <4>2 DEF Kept
      <4> QED
        BY <2>2, <4>3, TimesAre
    <3> QED
      BY <3>1 DEF NothingElseIsLost
  <2>5. InjectedAtTheirIndex
    <3>1. DOMAIN output = 1..Len(output)
      BY <2>1 DEF StreamTyped
    <3> QED
      BY <2>1, <3>1 DEF InjectedAtTheirIndex, Shaping
  <2> QED
    BY <2>3, <2>4, <2>5 DEF StreamRestored
<1> QED
  BY <1>1, DatagramsKeep, PTL

\* For any target delay, interval and share of traced packets, CoDelIsh drops no more
\* packets than there were bad intervals, its level is above the lowest whenever it is
\* about to drop, and of TRACED packets in a row that it passes one is traced.
THEOREM DropsAlwaysEarned == DatagramSpec => []DropsAreEarned
<1>1. ASSUME DatagramInv PROVE DropsAreEarned
  BY <1>1, DatagramBounds DEF DatagramInv, QueueInv, Earned, DropsAreEarned, Aqm
<1> QED
  BY <1>1, DatagramsKeep, PTL
=============================================================================
