------------------------- MODULE PeerConnectionProofs -------------------------
(* Proofs about PeerConnection, for any number of candidates and of failures. *)
EXTENDS PeerConnection, SequenceTheorems, FiniteSetTheorems, TLAPS

-----------------------------------------------------------------------------
(* The queue of calls to the browser *)

\* The calls p may have made: it sets a local description when it has emitted it, and
\* adds candidates when it has learnt of a remote one.
Allowed(p) ==
  {c \in Operations \cup Reads :
     /\ c \in {"setLocalOffer", "setLocalAnswer"} => p \in described
     /\ c = "addCandidate" => onceHaveRemoteDescription[p]}

LEMMA NatMin ==
  ASSUME NEW I \in SUBSET Nat, I # {}
  PROVE  Min(I) \in I
<1>1. PICK n \in I : \A m \in I : ~(<<m, n>> \in OpToRel(<, Nat))
  BY NatLessThanWellFounded, WFMin
<1>2. \A m \in I : ~(m < n)
  BY <1>1 DEF OpToRel
<1>3. \E x \in I : \A y \in I : x <= y
  BY <1>2
<1> QED
  BY <1>3 DEF Min

LEMMA FirstReadIsOne ==
  ASSUME NEW p \in Peers, calls[p] \in Seq(Operations \cup Reads), FirstRead(p) > 0
  PROVE  FirstRead(p) \in 1..Len(calls[p])
<1> DEFINE I == {i \in 1..Len(calls[p]) : calls[p][i] \in Reads}
<1>1. FirstRead(p) = IF I # {} THEN Min(I) ELSE 0
  BY DEF FirstRead, SelectInSeq, IsRead
<1>2. I \in SUBSET Nat
  BY LenProperties
<1>3. I # {} => Min(I) \in I
  <2> HIDE DEF I
  <2> QED
    BY <1>2, NatMin
<1> QED
  BY <1>1, <1>3

LEMMA OthersIn ==
  ASSUME NEW p \in Peers, NEW S, S \subseteq Operations \cup Reads, calls[p] \in Seq(S),
         FirstRead(p) > 0
  PROVE  Others(p) \in Seq(S)
<1> DEFINE i == FirstRead(p)
           s == calls[p]
<1>1. calls[p] \in Seq(Operations \cup Reads)
  BY SeqMonotonic
<1>2. i \in 1..Len(s) /\ Len(s) \in Nat /\ \A j \in 1..Len(s) : s[j] \in S
  BY <1>1, FirstReadIsOne, LenProperties, ElementOfSeq
<1> HIDE DEF i, s
<1>3. SubSeq(s, 1, i - 1) \in Seq(S)
  BY <1>2, SubSeqProperties
<1>4. SubSeq(s, i + 1, Len(s)) \in Seq(S)
  BY <1>2, SubSeqProperties
<1>5. RemoveAt(s, i) \in Seq(S)
  BY <1>3, <1>4, ConcatProperties DEF RemoveAt
<1> QED
  BY <1>5 DEF Others, i, s

LEMMA TailIn ==
  ASSUME NEW S, NEW queue \in Seq(S), queue # <<>>, NEW more \in Seq(S)
  PROVE  Head(queue) \in S /\ Tail(queue) \in Seq(S) /\ Tail(queue) \o more \in Seq(S)
  BY HeadTailProperties, ConcatProperties

LEMMA AskIn ==
  ASSUME NEW p, NEW S, NEW queue \in Seq(S), "close" \in S, "change" \in S
  PROVE  AskToClose(p, queue) \in Seq(S) /\ AskChanged(queue) \in Seq(S)
  BY AppendProperties DEF AskToClose, AskChanged

LEMMA HeldIn ==
  ASSUME NEW p, held[p] \in Nat, NEW S, "addCandidate" \in S
  PROVE  AddHeld(p) \in Seq(S)
<1>1. AddHeld(p) \in [1..held[p] -> S]
  BY DEF AddHeld
<1> QED
  BY <1>1, SeqDef

-----------------------------------------------------------------------------
(* The invariant *)

CallsAllowed ==
  /\ calls \in [Peers -> Seq(Operations \cup Reads)]
  /\ \A p \in Peers : calls[p] \in Seq(Allowed(p))

Typed ==
  /\ signaling \in [Peers -> {"stable", "have-local-offer", "have-remote-offer", "closed"}]
  /\ remote \in [Peers -> BOOLEAN] /\ gathering \in [Peers -> BOOLEAN]
  /\ onceClosed \in [Peers -> BOOLEAN] /\ onceHaveRemoteDescription \in [Peers -> BOOLEAN]
  /\ held \in [Peers -> Nat] /\ candidates \in [Peers -> Nat]

\* A browser gathers for a description that has been emitted, and the class believes in
\* a remote description that the browser has, unless setting it failed.
Stage(p) ==
  /\ gathering[p] \/ candidates[p] > 0 => p \in described
  /\ onceHaveRemoteDescription[p] => remote[p] \/ onceClosed[p]
  /\ signaling[p] = "have-remote-offer" => remote[p]

Stages == \A p \in Peers : Stage(p)

Inv == CallsAllowed /\ Typed /\ Stages

Growing ==
  /\ described \subseteq described'
  /\ \A p \in Peers : onceHaveRemoteDescription[p] => onceHaveRemoteDescription'[p]

LEMMA StillAllowed ==
  ASSUME Inv, Growing, NEW p \in Peers
  PROVE  Allowed(p) \subseteq Allowed(p)' /\ calls[p] \in Seq(Allowed(p)')
<1>1. Allowed(p) \subseteq Allowed(p)'
  BY DEF Growing, Allowed
<1>2. calls[p] \in Seq(Allowed(p))
  BY DEF Inv, CallsAllowed
<1> QED
  BY <1>1, <1>2, SeqMonotonic

\* What every peer may call.
LEMMA AlwaysAllowed ==
  ASSUME NEW p \in Peers
  PROVE  (Operations \cup Reads) \ {"setLocalOffer", "setLocalAnswer", "addCandidate"}
           \subseteq Allowed(p)' /\ Allowed(p)' \subseteq Operations \cup Reads
  BY DEF Allowed

\* A step that changes the queue of one peer and keeps its stage.
LEMMA PeerKeeps ==
  ASSUME Inv, Growing, Typed', NEW p \in Peers, Stage(p)',
         NEW queue \in Seq(Allowed(p)'), calls' = Set(calls, p, queue),
         \A q \in Peers \ {p} :
           /\ signaling'[q] = signaling[q] /\ remote'[q] = remote[q]
           /\ gathering'[q] = gathering[q] /\ candidates'[q] = candidates[q]
           /\ onceHaveRemoteDescription'[q] = onceHaveRemoteDescription[q]
           /\ onceClosed'[q] = onceClosed[q]
  PROVE  Inv'
<1>1. \A q \in Peers : calls[q] \in Seq(Allowed(q)')
  BY StillAllowed
<1>2. queue \in Seq(Operations \cup Reads)
  BY AlwaysAllowed, SeqMonotonic
<1>3. /\ calls' \in [Peers -> Seq(Operations \cup Reads)]
      /\ \A q \in Peers : calls'[q] = IF q = p THEN queue ELSE calls[q]
  BY <1>2 DEF Set, Inv, CallsAllowed
<1>4. CallsAllowed'
  BY <1>1, <1>3 DEF CallsAllowed
<1>5. ASSUME NEW q \in Peers \ {p} PROVE Stage(q)'
  BY DEF Inv, Stages, Stage, Growing
<1> QED
  BY <1>4, <1>5 DEF Inv, Stages

-----------------------------------------------------------------------------
(* Steps that leave the browser's state alone *)

\* Nothing that the invariant is about changes.
LEMMA QuietKeeps ==
  ASSUME Inv, UNCHANGED <<calls, signaling, remote, gathering, onceClosed,
                          onceHaveRemoteDescription, held, candidates, described>>
  PROVE  Inv'
<1>1. \A p \in Peers : Allowed(p)' = Allowed(p)
  BY DEF Allowed
<1> QED
  BY <1>1 DEF Inv, CallsAllowed, Typed, Stages, Stage

\* Calls are made or answered; the connection may close, and hold candidates or release
\* them, in which case there is a remote description or it is closed.
LEMMA CallKeeps ==
  ASSUME Inv, NEW p \in Peers, NEW queue \in Seq(Allowed(p)'), calls' = Set(calls, p, queue),
         UNCHANGED <<signaling, remote, gathering, candidates, described>>,
         onceClosed' = onceClosed \/ onceClosed' = Set(onceClosed, p, TRUE),
         \/ UNCHANGED <<onceHaveRemoteDescription, held>>
         \/ held' = Set(held, p, held[p] + 1) /\ UNCHANGED onceHaveRemoteDescription
         \/ HaveRemoteDescription(p) /\ (remote[p] \/ onceClosed'[p])
  PROVE  Inv'
<1>1. /\ onceClosed' \in [Peers -> BOOLEAN]
      /\ \A q \in Peers : onceClosed[q] => onceClosed'[q]
      /\ \A q \in Peers \ {p} : onceClosed'[q] = onceClosed[q]
  BY DEF Set, Inv, Typed
<1>2. /\ onceHaveRemoteDescription' \in [Peers -> BOOLEAN]
      /\ \A q \in Peers : onceHaveRemoteDescription[q] => onceHaveRemoteDescription'[q]
      /\ \A q \in Peers \ {p} : onceHaveRemoteDescription'[q] = onceHaveRemoteDescription[q]
      /\ onceHaveRemoteDescription'[p] =>
           onceHaveRemoteDescription[p] \/ remote[p] \/ onceClosed'[p]
  BY DEF HaveRemoteDescription, Set, Inv, Typed
<1>3. held' \in [Peers -> Nat]
  BY DEF HaveRemoteDescription, Set, Inv, Typed
<1>4. Growing
  BY <1>2 DEF Growing
<1>5. Typed'
  BY <1>1, <1>2, <1>3 DEF Inv, Typed
<1>6. Stage(p)'
  BY <1>1, <1>2 DEF Inv, Stages, Stage
<1> QED
  BY <1>1, <1>2, <1>4, <1>5, <1>6, PeerKeeps

\* One more call, which every peer may make.
LEMMA PushKeeps ==
  ASSUME Inv, NEW p \in Peers, NEW c \in {"createChannel", "tie", "setRemoteAnswer", "createOffer"},
         calls' = Push(calls, p, c),
         UNCHANGED <<signaling, remote, gathering, candidates, described, onceClosed,
                     onceHaveRemoteDescription, held>>
  PROVE  Inv'
<1>1. Growing
  BY DEF Growing
<1>2. c \in Allowed(p)'
  BY AlwaysAllowed DEF Operations, Reads
<1>3. calls[p] \in Seq(Allowed(p)')
  BY <1>1, StillAllowed
<1>4. Append(calls[p], c) \in Seq(Allowed(p)') /\ calls' = Set(calls, p, Append(calls[p], c))
  BY <1>2, <1>3, AppendProperties DEF Push, Set
<1> QED
  BY <1>4, CallKeeps

LEMMA CallsKeep ==
  ASSUME Inv, NEW p \in Peers,
         \/ NegotiateConnection(p) \/ HandleOffer(p) \/ HandleAnswer(p) \/ NegotiationNeeded(p)
  PROVE  Inv'
<1>1. \E c \in {"createChannel", "tie", "setRemoteAnswer", "createOffer"} :
        calls' = Push(calls, p, c)
  BY DEF NegotiateConnection, HandleOffer, HandleAnswer, NegotiationNeeded
<1>2. UNCHANGED <<signaling, remote, gathering, candidates, described, onceClosed,
                  onceHaveRemoteDescription, held>>
  BY DEF NegotiateConnection, HandleOffer, HandleAnswer, NegotiationNeeded, NotClosing,
         Holding, Silent, promiseVars, browserVars, historyVars
<1> QED
  BY <1>1, <1>2, PushKeeps

\* A candidate is added only when the class knows of a remote description.
LEMMA CandidateKeeps ==
  ASSUME Inv, NEW p \in Peers, HandleCandidate(p)
  PROVE  Inv'
<1>1. /\ UNCHANGED <<signaling, remote, gathering, candidates, described, onceClosed,
                     onceHaveRemoteDescription>>
      /\ \/ /\ onceHaveRemoteDescription[p]
            /\ calls' = Push(calls, p, "addCandidate") /\ held' = held
         \/ held' = Set(held, p, held[p] + 1) /\ calls' = calls
  BY DEF HandleCandidate, NotClosing, promiseVars, browserVars, historyVars
<1>2. Growing
  BY <1>1 DEF Growing
<1>3. calls[p] \in Seq(Allowed(p)')
  BY <1>2, StillAllowed
<1>4. calls = Set(calls, p, calls[p])
  BY DEF Set, Inv, CallsAllowed
<1>5. CASE held' = Set(held, p, held[p] + 1) /\ calls' = calls
  BY <1>1, <1>3, <1>4, <1>5, CallKeeps
<1>6. CASE /\ onceHaveRemoteDescription[p]
           /\ calls' = Push(calls, p, "addCandidate") /\ held' = held
  <2>1. "addCandidate" \in Allowed(p)'
    BY <1>1, <1>6 DEF Allowed, Operations
  <2>2. /\ Append(calls[p], "addCandidate") \in Seq(Allowed(p)')
        /\ calls' = Set(calls, p, Append(calls[p], "addCandidate"))
    BY <1>3, <1>6, <2>1, AppendProperties DEF Push, Set
  <2> QED
    BY <1>1, <1>6, <2>2, CallKeeps
<1> QED
  BY <1>1, <1>5, <1>6

LEMMA CloseKeeps ==
  ASSUME Inv, NEW p \in Peers,
         Close(p) \/ IceFails(p) \/ ControlClosed(p) \/ HeartbeatTimeout(p)
  PROVE  Inv'
<1>1. /\ calls' = Set(calls, p, AskToClose(p, calls[p]))
      /\ onceClosed' = Set(onceClosed, p, TRUE)
      /\ UNCHANGED <<signaling, remote, gathering, candidates, described,
                     onceHaveRemoteDescription, held>>
  BY DEF Close, IceFails, ControlClosed, HeartbeatTimeout, Closing, Holding, Silent,
         browserVars
<1>2. Growing
  BY <1>1 DEF Growing
<1>3. calls[p] \in Seq(Allowed(p)') /\ {"close", "change"} \subseteq Allowed(p)'
  BY <1>2, StillAllowed, AlwaysAllowed DEF Reads
<1>4. AskToClose(p, calls[p]) \in Seq(Allowed(p)')
  BY <1>3, AskIn
<1> QED
  BY <1>1, <1>4, CallKeeps

-----------------------------------------------------------------------------
(* Answers *)

\* What is left of the queue when a question is answered.
LEMMA AnsweredAllowed ==
  ASSUME Inv, Growing, NEW p \in Peers, FirstRead(p) > 0
  PROVE  Others(p) \in Seq(Allowed(p)') /\ {"close", "change", "setRemoteOffer"} \subseteq Allowed(p)'
<1>1. calls[p] \in Seq(Allowed(p)') /\ Allowed(p)' \subseteq Operations \cup Reads
  BY StillAllowed, AlwaysAllowed
<1>2. {"close", "change", "setRemoteOffer"} \subseteq Allowed(p)'
  BY AlwaysAllowed DEF Operations, Reads
<1> QED
  BY <1>1, <1>2, OthersIn

LEMMA AnsweredCloseKeeps ==
  ASSUME Inv, NEW p \in Peers, AnsweredClose(p)
  PROVE  Inv'
<1>1. /\ FirstRead(p) > 0
      /\ \/ signaling' = signaling /\ calls' = Set(calls, p, Others(p))
         \/ /\ signaling' = Set(signaling, p, "closed")
            /\ calls' = Set(calls, p, AskChanged(Others(p)))
      /\ UNCHANGED <<remote, gathering, candidates, described, onceClosed,
                     onceHaveRemoteDescription, held>>
  BY DEF AnsweredClose, Answered, NotClosing, promiseVars, Holding, Silent
<1>2. Growing
  BY <1>1 DEF Growing
<1>3. Others(p) \in Seq(Allowed(p)') /\ {"close", "change"} \subseteq Allowed(p)'
  BY <1>1, <1>2, AnsweredAllowed
<1>4. AskChanged(Others(p)) \in Seq(Allowed(p)')
  BY <1>3, AskIn
<1>5. Typed'
  BY <1>1 DEF Inv, Typed, Set
<1>6. Stage(p)' /\ \A q \in Peers \ {p} : signaling'[q] = signaling[q]
  BY <1>1 DEF Inv, Typed, Stages, Stage, Set
<1> QED
  BY <1>1, <1>2, <1>3, <1>4, <1>5, <1>6, PeerKeeps

LEMMA AnsweredChangeKeeps ==
  ASSUME Inv, NEW p \in Peers, AnsweredChange(p)
  PROVE  Inv'
<1>1. /\ FirstRead(p) > 0
      /\ \/ onceClosed' = onceClosed /\ calls' = Set(calls, p, Others(p))
         \/ /\ onceClosed' = Set(onceClosed, p, TRUE)
            /\ calls' = Set(calls, p, AskToClose(p, Others(p)))
      /\ UNCHANGED <<signaling, remote, gathering, candidates, described,
                     onceHaveRemoteDescription, held>>
  BY DEF AnsweredChange, Answered, NotClosing, Closing, promiseVars, Holding, Silent,
         browserVars
<1>2. Growing
  BY <1>1 DEF Growing
<1>3. Others(p) \in Seq(Allowed(p)') /\ {"close", "change"} \subseteq Allowed(p)'
  BY <1>1, <1>2, AnsweredAllowed
<1>4. AskToClose(p, Others(p)) \in Seq(Allowed(p)')
  BY <1>3, AskIn
<1> QED
  BY <1>1, <1>3, <1>4, CallKeeps

\* A refused offer releases the candidates that were held, of a closed connection.
LEMMA AnsweredTieKeeps ==
  ASSUME Inv, NEW p \in Peers, AnsweredTie(p)
  PROVE  Inv'
<1>1. /\ FirstRead(p) > 0
      /\ RefuseOffer(p) \/ AcceptOffer(p)
      /\ UNCHANGED <<signaling, remote, gathering, candidates, described>>
  BY DEF AnsweredTie, Answered, Silent, browserVars
<1>2. CASE AcceptOffer(p)
  <2>1. /\ calls' = Set(calls, p, Append(Others(p), "setRemoteOffer"))
        /\ UNCHANGED <<onceClosed, onceHaveRemoteDescription, held>>
    BY <1>2 DEF AcceptOffer, promiseVars, Holding
  <2>2. Growing
    BY <1>1, <2>1 DEF Growing
  <2>3. Append(Others(p), "setRemoteOffer") \in Seq(Allowed(p)')
    BY <1>1, <2>2, AnsweredAllowed, AppendProperties
  <2> QED
    BY <1>1, <2>1, <2>3, CallKeeps
<1>3. CASE RefuseOffer(p)
  <2>1. /\ onceClosed' = Set(onceClosed, p, TRUE) /\ HaveRemoteDescription(p)
        /\ calls' = Set(calls, p, AskToClose(p, Others(p)) \o AddHeld(p))
    BY <1>3 DEF RefuseOffer, Closing
  <2>2. onceClosed'[p] /\ onceHaveRemoteDescription'[p] /\ Growing
    BY <1>1, <2>1 DEF HaveRemoteDescription, Set, Inv, Typed, Growing
  <2>3. Others(p) \in Seq(Allowed(p)') /\ {"close", "change"} \subseteq Allowed(p)'
    BY <1>1, <2>2, AnsweredAllowed
  <2>4. AskToClose(p, Others(p)) \in Seq(Allowed(p)')
    BY <2>3, AskIn
  <2>5. "addCandidate" \in Allowed(p)' /\ held[p] \in Nat
    BY <2>2 DEF Allowed, Operations, Inv, Typed
  <2>6. AskToClose(p, Others(p)) \o AddHeld(p) \in Seq(Allowed(p)')
    BY <2>4, <2>5, HeldIn, ConcatProperties
  <2> QED
    BY <1>1, <2>1, <2>2, <2>6, CallKeeps
<1> QED
  BY <1>1, <1>2, <1>3

-----------------------------------------------------------------------------
(* Operations *)

\* The first call was allowed, and what follows an operation must be.
LEMMA OperationAllowed ==
  ASSUME Inv, Growing, NEW p \in Peers, calls[p] # <<>>
  PROVE  /\ Head(calls[p]) \in Allowed(p)
         /\ Tail(calls[p]) \in Seq(Allowed(p)')
         /\ \A more \in Seq(Allowed(p)') :
              /\ Tail(calls[p]) \o more \in Seq(Allowed(p)')
              /\ AskChanged(Tail(calls[p])) \o more \in Seq(Allowed(p)')
         /\ <<>> \in Seq(Allowed(p)')
<1>1. calls[p] \in Seq(Allowed(p)) /\ calls[p] \in Seq(Allowed(p)')
  BY StillAllowed DEF Inv, CallsAllowed
<1>2. {"close", "change"} \subseteq Allowed(p)'
  BY AlwaysAllowed DEF Reads
<1>3. Head(calls[p]) \in Allowed(p) /\ Tail(calls[p]) \in Seq(Allowed(p)')
  BY <1>1, HeadTailProperties
<1>4. AskChanged(Tail(calls[p])) \in Seq(Allowed(p)')
  BY <1>2, <1>3, AskIn
<1> QED
  BY <1>3, <1>4, ConcatProperties, EmptySeq

\* A channel is created, or a candidate added.
LEMMA DoneKeeps ==
  ASSUME Inv, NEW p \in Peers, ChannelCreated(p) \/ CandidateAdded(p)
  PROVE  Inv'
<1>1. /\ calls[p] # <<>> /\ calls' = Set(calls, p, Tail(calls[p]) \o <<>>)
      /\ UNCHANGED <<signaling, remote, gathering, candidates, described, onceClosed,
                     onceHaveRemoteDescription, held>>
  BY DEF ChannelCreated, CandidateAdded, Does, Then, NotClosing, promiseVars, Holding, Silent
<1>2. Growing
  BY <1>1 DEF Growing
<1>3. Tail(calls[p]) \o <<>> \in Seq(Allowed(p)')
  BY <1>1, <1>2, OperationAllowed
<1> QED
  BY <1>1, <1>3, CallKeeps

\* A description is emitted before it is set.
LEMMA CreatedKeeps ==
  ASSUME Inv, NEW p \in Peers, OfferCreated(p) \/ AnswerCreated(p)
  PROVE  Inv'
<1>1. /\ calls[p] # <<>> /\ described' = described \cup {p}
      /\ \E c \in {"setLocalOffer", "setLocalAnswer"} :
           calls' = Set(calls, p, Tail(calls[p]) \o <<c>>)
      /\ UNCHANGED <<signaling, remote, gathering, candidates, onceClosed,
                     onceHaveRemoteDescription, held>>
  BY DEF OfferCreated, AnswerCreated, Does, Then, Emit, NotClosing, promiseVars, Holding,
         browserVars
<1>2. PICK c \in {"setLocalOffer", "setLocalAnswer"} :
        calls' = Set(calls, p, Tail(calls[p]) \o <<c>>)
  BY <1>1
<1>3. Growing /\ Typed'
  BY <1>1 DEF Growing, Inv, Typed
<1>4. c \in Allowed(p)'
  BY <1>1 DEF Allowed, Operations
<1>5. <<c>> \in Seq(Allowed(p)')
  BY <1>4
<1>6. Tail(calls[p]) \o <<c>> \in Seq(Allowed(p)')
  BY <1>1, <1>3, <1>5, OperationAllowed
<1>7. Stage(p)'
  BY <1>1 DEF Inv, Stages, Stage
<1> QED
  BY <1>1, <1>2, <1>3, <1>6, <1>7, PeerKeeps

\* A local offer is set: the browser gathers candidates, the offer being out.
LEMMA LocalOfferKeeps ==
  ASSUME Inv, NEW p \in Peers, LocalOfferSet(p)
  PROVE  Inv'
<1>1. /\ calls[p] # <<>> /\ Head(calls[p]) = "setLocalOffer"
      /\ signaling' = [signaling EXCEPT ![p] = "have-local-offer"]
      /\ calls' = Set(calls, p, AskChanged(Tail(calls[p])) \o <<>>)
      /\ gathering' = [gathering EXCEPT ![p] = TRUE]
      /\ UNCHANGED <<remote, candidates, described, onceClosed, onceHaveRemoteDescription, held>>
  BY DEF LocalOfferSet, Does, Becomes, Set, NotClosing, promiseVars, Holding, Silent
<1>2. Growing /\ Typed'
  BY <1>1 DEF Growing, Inv, Typed
<1>3. p \in described /\ AskChanged(Tail(calls[p])) \o <<>> \in Seq(Allowed(p)')
  BY <1>1, <1>2, OperationAllowed DEF Allowed
<1>4. Stage(p)'
  BY <1>1, <1>3 DEF Inv, Typed, Stages, Stage
<1> QED
  BY <1>1, <1>2, <1>3, <1>4, PeerKeeps DEF Inv, Typed

LEMMA RemoteOfferKeeps ==
  ASSUME Inv, NEW p \in Peers, RemoteOfferSet(p)
  PROVE  Inv'
<1>1. /\ calls[p] # <<>>
      /\ signaling' = [signaling EXCEPT ![p] = "have-remote-offer"]
      /\ calls' = Set(calls, p, AskChanged(Tail(calls[p])) \o <<"createAnswer">>)
      /\ remote' = [remote EXCEPT ![p] = TRUE]
      /\ UNCHANGED <<gathering, candidates, described, onceClosed, onceHaveRemoteDescription,
                     held>>
  BY DEF RemoteOfferSet, Does, Becomes, Set, NotClosing, promiseVars, Holding, Silent
<1>2. Growing /\ Typed'
  BY <1>1 DEF Growing, Inv, Typed
<1>3. "createAnswer" \in Allowed(p)'
  BY AlwaysAllowed DEF Operations, Reads
<1>4. <<"createAnswer">> \in Seq(Allowed(p)')
  BY <1>3
<1>5. AskChanged(Tail(calls[p])) \o <<"createAnswer">> \in Seq(Allowed(p)')
  BY <1>1, <1>2, <1>4, OperationAllowed
<1>6. Stage(p)'
  BY <1>1 DEF Inv, Typed, Stages, Stage
<1> QED
  BY <1>1, <1>2, <1>5, <1>6, PeerKeeps DEF Inv, Typed

\* An answer is set, at either end: there are both descriptions, and the candidates that
\* were held are added.
LEMMA AnswerSetKeeps ==
  ASSUME Inv, NEW p \in Peers, LocalAnswerSet(p) \/ RemoteAnswerSet(p)
  PROVE  Inv'
<1>1. /\ calls[p] # <<>> /\ HaveRemoteDescription(p)
      /\ signaling' = [signaling EXCEPT ![p] = "stable"]
      /\ calls' = Set(calls, p, AskChanged(Tail(calls[p])) \o AddHeld(p))
      /\ \/ /\ Head(calls[p]) = "setLocalAnswer" /\ signaling[p] = "have-remote-offer"
            /\ gathering' = [gathering EXCEPT ![p] = TRUE] /\ remote' = remote
         \/ remote' = [remote EXCEPT ![p] = TRUE] /\ gathering' = gathering
      /\ UNCHANGED <<candidates, described, onceClosed>>
  BY DEF LocalAnswerSet, RemoteAnswerSet, Does, Able, Becomes, Set, NotClosing, promiseVars,
         Silent
<1>2. /\ onceHaveRemoteDescription' = [onceHaveRemoteDescription EXCEPT ![p] = TRUE]
      /\ held' = [held EXCEPT ![p] = 0]
  BY <1>1 DEF HaveRemoteDescription, Set
<1>3. Growing /\ Typed'
  BY <1>1, <1>2 DEF Growing, Inv, Typed
<1>4. "addCandidate" \in Allowed(p)' /\ held[p] \in Nat
  BY <1>2 DEF Allowed, Operations, Inv, Typed
<1>5. AddHeld(p) \in Seq(Allowed(p)')
  BY <1>4, HeldIn
<1>6. /\ AskChanged(Tail(calls[p])) \o AddHeld(p) \in Seq(Allowed(p)')
      /\ Head(calls[p]) \in Allowed(p)
  BY <1>1, <1>3, <1>5, OperationAllowed
<1>7. Stage(p)'
  BY <1>1, <1>2, <1>6 DEF Inv, Typed, Stages, Stage, Allowed
<1> QED
  BY <1>1, <1>2, <1>3, <1>6, <1>7, PeerKeeps DEF Inv, Typed

\* A failure that releases candidates is one that closes the connection.
LEMMA FailsKeeps ==
  ASSUME Inv, NEW p \in Peers, OperationFails(p)
  PROVE  Inv'
<1> DEFINE op == Head(calls[p])
           rest == IF op \in Fatal THEN AskToClose(p, Tail(calls[p])) ELSE Tail(calls[p])
<1>1. /\ calls[p] # <<>>
      /\ op \in Fatal => onceClosed' = Set(onceClosed, p, TRUE)
      /\ op \notin Fatal => onceClosed' = onceClosed
      /\ op \in Settling => HaveRemoteDescription(p)
      /\ op \notin Settling => UNCHANGED <<onceHaveRemoteDescription, held>>
      /\ calls' = Set(calls, p, rest \o (IF op \in Settling THEN AddHeld(p) ELSE <<>>))
      /\ UNCHANGED <<signaling, remote, gathering, candidates, described>>
  BY DEF OperationFails, Closing, NotClosing, promiseVars, Holding, Silent, browserVars
<1>2. Settling \subseteq Fatal
  BY DEF Settling, Fatal, Operations
<1>3. Growing
  BY <1>1 DEF HaveRemoteDescription, Set, Inv, Typed, Growing
<1>4. Tail(calls[p]) \in Seq(Allowed(p)') /\ {"close", "change"} \subseteq Allowed(p)'
  BY <1>1, <1>3, OperationAllowed, AlwaysAllowed DEF Reads
<1>5. rest \in Seq(Allowed(p)')
  BY <1>4, AskIn
<1> HIDE DEF rest
<1>6. CASE op \in Settling
  <2>1. onceClosed'[p] /\ onceHaveRemoteDescription'[p]
    BY <1>1, <1>2, <1>6 DEF HaveRemoteDescription, Set, Inv, Typed
  <2>2. "addCandidate" \in Allowed(p)' /\ held[p] \in Nat
    BY <2>1 DEF Allowed, Operations, Inv, Typed
  <2>3. rest \o AddHeld(p) \in Seq(Allowed(p)')
    BY <1>5, <2>2, HeldIn, ConcatProperties
  <2> QED
    BY <1>1, <1>2, <1>6, <2>1, <2>3, CallKeeps
<1>7. CASE op \notin Settling
  <2>1. rest \o <<>> \in Seq(Allowed(p)')
    BY <1>5, ConcatProperties, EmptySeq
  <2> QED
    BY <1>1, <1>7, <2>1, CallKeeps
<1> QED
  BY <1>6, <1>7

-----------------------------------------------------------------------------
(* Events of the browser *)

LEMMA IceCandidateKeeps ==
  ASSUME Inv, NEW p \in Peers, IceCandidate(p)
  PROVE  Inv'
<1>1. /\ gathering[p] /\ candidates' = [candidates EXCEPT ![p] = candidates[p] + 1]
      /\ UNCHANGED <<calls, signaling, remote, gathering, described, onceClosed,
                     onceHaveRemoteDescription, held>>
  BY DEF IceCandidate, Set, NotClosing, promiseVars, Holding, browserVars
<1>2. Growing
  BY <1>1 DEF Growing
<1>3. calls' = Set(calls, p, calls[p]) /\ calls[p] \in Seq(Allowed(p)')
  BY <1>1, <1>2, StillAllowed DEF Set, Inv, CallsAllowed
<1>4. Typed'
  BY <1>1 DEF Inv, Typed
<1>5. Stage(p)'
  BY <1>1 DEF Inv, Typed, Stages, Stage
<1> QED
  BY <1>1, <1>2, <1>3, <1>4, <1>5, PeerKeeps DEF Inv, Typed

LEMMA EventsKeep ==
  ASSUME Inv,
         \/ LinkUp \/ LinkBreaks
         \/ \E p \in Peers : \/ ChannelOpens(p) \/ ChannelLost(p) \/ ChannelRegistered(p)
                             \/ ControlOpened(p)
  PROVE  Inv'
<1>1. UNCHANGED <<calls, signaling, remote, gathering, onceClosed, onceHaveRemoteDescription,
                  held, candidates, described>>
  BY DEF LinkUp, LinkBreaks, ChannelOpens, ChannelLost, ChannelRegistered, ControlOpened,
         NotClosing, promiseVars, Holding, Silent, browserVars, historyVars
<1> QED
  BY <1>1, QuietKeeps

-----------------------------------------------------------------------------
(* Candidates are in order *)

LEMMA InvInit == Init => Inv
<1> SUFFICES ASSUME Init PROVE Inv
  OBVIOUS
<1>1. calls = [p \in Peers |-> <<>>]
  BY DEF Init
<1>2. CallsAllowed
  BY <1>1, EmptySeq DEF CallsAllowed
<1>3. Typed
  BY DEF Init, Typed
<1>4. Stages
  BY DEF Init, Stages, Stage
<1> QED
  BY <1>2, <1>3, <1>4 DEF Inv

LEMMA InvStep == Inv /\ [Next]_vars => Inv'
<1> SUFFICES ASSUME Inv, [Next]_vars PROVE Inv'
  OBVIOUS
<1>1. ASSUME NEW p \in Peers,
             User(p) \/ Signal(p) \/ NegotiationNeeded(p) \/ IceFails(p) \/ HeartbeatTimeout(p)
      PROVE  Inv'
  BY <1>1, CallsKeep, CandidateKeeps, CloseKeeps DEF User, Signal
<1>2. ASSUME NEW p \in Peers, Answer(p) PROVE Inv'
  BY <1>2, AnsweredCloseKeeps, AnsweredChangeKeeps, AnsweredTieKeeps DEF Answer
<1>3. ASSUME NEW p \in Peers, Operation(p) \/ OperationFails(p) PROVE Inv'
  BY <1>3, DoneKeeps, CreatedKeeps, LocalOfferKeeps, RemoteOfferKeeps, AnswerSetKeeps,
     FailsKeeps DEF Operation
<1>4. ASSUME NEW p \in Peers, IceCandidate(p) PROVE Inv'
  BY <1>4, IceCandidateKeeps
<1>5. ASSUME NEW p \in Peers, Control(p) \/ ChannelOpens(p) \/ ChannelLost(p) PROVE Inv'
  BY <1>5, CloseKeeps, EventsKeep DEF Control
<1>6. CASE LinkUp \/ LinkBreaks
  BY <1>6, EventsKeep
<1>7. CASE UNCHANGED vars
  BY <1>7, QuietKeeps DEF vars, promiseVars, browserVars, historyVars
<1> QED
  BY <1>1, <1>2, <1>3, <1>4, <1>5, <1>6, <1>7 DEF Next

\* Through ties, failures and closes at any point: a candidate leaves a peer after the
\* description it belongs to, and enters the browser of the other after that description,
\* or after the connection has closed.
THEOREM CandidatesOrdered == Spec => []CandidatesInOrder
<1>1. Inv => CandidatesInOrder
  <2>1. ASSUME Inv, NEW p \in Peers, calls[p] # <<>>, Head(calls[p]) = "addCandidate"
        PROVE  onceHaveRemoteDescription[p]
    <3>1. Head(calls[p]) \in Allowed(p)
      BY <2>1, HeadTailProperties DEF Inv, CallsAllowed
    <3> QED
      BY <2>1, <3>1 DEF Allowed
  <2> QED
    BY <2>1 DEF Inv, Stages, Stage, CandidatesInOrder, DescriptionFirst,
                CandidateAfterDescription
<1> QED
  BY <1>1, InvInit, InvStep, PTL DEF Spec
-----------------------------------------------------------------------------
(* Types *)

SignalTypes == {"OFFER", "ANSWER", "CANDIDATE"}

\* The types that nothing above has needed.
Rest ==
  /\ state \in [Peers -> {"WAITING", "CONNECTING", "CONNECTED", "CLOSED"}]
  /\ onceConnected \in [Peers -> {"pending", "fulfilled", "rejected"}]
  /\ control \in [Peers -> {"none", "created", "registered", "opened", "closed"}]
  /\ beating \in [Peers -> BOOLEAN]
  /\ channel \in [Peers -> {"none", "connecting", "open", "closed", "failed"}]
  /\ paired \in [Peers -> BOOLEAN]
  /\ link \in {"down", "up", "broken"}
  /\ negotiated \subseteq Peers /\ described \subseteq Peers

\* A step of p changes no more of its own state than its functions do.
LEMMA RestStep ==
  ASSUME Rest, [Next]_vars
  PROVE  Rest'
<1>1. ASSUME NEW p \in Peers, User(p) \/ Signal(p) PROVE Rest'
  BY <1>1 DEF User, Signal, NegotiateConnection, Close, HandleOffer, HandleAnswer,
     HandleCandidate, Closing, NotClosing, promiseVars, browserVars, historyVars, Set, Rest
<1>2. ASSUME NEW p \in Peers, AnsweredClose(p) PROVE Rest'
  BY <1>2 DEF AnsweredClose, NotClosing, Silent, promiseVars, browserVars, Set, Rest
<1>3. ASSUME NEW p \in Peers, AnsweredChange(p) \/ AnsweredTie(p) PROVE Rest'
  BY <1>3 DEF AnsweredChange, AnsweredTie, RefuseOffer, AcceptOffer, Closing, NotClosing, Silent,
     promiseVars, browserVars, Set, Rest
<1>4. ASSUME NEW p \in Peers, Operation(p) PROVE Rest'
  BY <1>4 DEF Operation, ChannelCreated, OfferCreated, LocalOfferSet, RemoteOfferSet,
     AnswerCreated, LocalAnswerSet, RemoteAnswerSet, CandidateAdded, Emit, NotClosing, Silent,
     promiseVars, browserVars, Set, Rest
<1>5. ASSUME NEW p \in Peers, OperationFails(p) PROVE Rest'
  BY <1>5 DEF OperationFails, Closing, NotClosing, Silent, promiseVars, browserVars, Set, Rest
<1>6. ASSUME NEW p \in Peers, NegotiationNeeded(p) \/ IceCandidate(p) \/ IceFails(p) PROVE Rest'
  BY <1>6 DEF NegotiationNeeded, IceCandidate, IceFails, Closing, NotClosing, Silent,
     promiseVars, browserVars, Set, Rest
<1>7. ASSUME NEW p \in Peers, ChannelOpens(p) \/ ChannelLost(p) \/ Control(p) PROVE Rest'
  BY <1>7 DEF ChannelOpens, ChannelLost, Control, ChannelRegistered, ControlOpened,
     ControlClosed, Closing, NotClosing, Silent, promiseVars, browserVars, Set, Rest
<1>8. ASSUME NEW p \in Peers, HeartbeatTimeout(p) PROVE Rest'
  BY <1>8 DEF HeartbeatTimeout, Closing, Silent, promiseVars, browserVars, Set, Rest
<1>9. CASE LinkUp \/ LinkBreaks
  BY <1>9 DEF LinkUp, LinkBreaks, NotClosing, Silent, promiseVars, browserVars, historyVars, Rest
<1>10. CASE UNCHANGED vars
  BY <1>10 DEF vars, promiseVars, browserVars, historyVars, Rest
<1> QED
  BY <1>1, <1>2, <1>3, <1>4, <1>5, <1>6, <1>7, <1>8, <1>9, <1>10 DEF Next, Answer

\* What is counted stays within its limit, also when a second peer lowers it.
Counted == events \in 0..Limit(negotiated)

LEMMA CountedStep ==
  ASSUME Counted, Rest, [Next]_vars
  PROVE  Counted'
<1>1. Limit(negotiated) \in Nat /\ Limit(negotiated') \in Nat
  BY PeerConnectionAssumption DEF Limit
<1>2. ASSUME (Count \/ UNCHANGED events) /\ UNCHANGED negotiated PROVE Counted'
  BY <1>1, <1>2 DEF Count, Counted
<1>3. ASSUME NEW p \in Peers, NegotiateConnection(p) PROVE Counted'
  BY <1>1, <1>3 DEF NegotiateConnection, Counted
<1>4. ASSUME NEW p \in Peers, Close(p) \/ Signal(p) \/ Answer(p) PROVE Counted'
  BY <1>2, <1>4 DEF Signal, Answer, Close, HandleOffer, HandleAnswer, HandleCandidate,
     AnsweredClose, AnsweredChange, AnsweredTie, historyVars
<1>5. ASSUME NEW p \in Peers, Operation(p) \/ OperationFails(p) PROVE Counted'
  BY <1>2, <1>5 DEF Operation, ChannelCreated, OfferCreated, LocalOfferSet, RemoteOfferSet,
     AnswerCreated, LocalAnswerSet, RemoteAnswerSet, CandidateAdded, OperationFails
<1>6. ASSUME NEW p \in Peers,
             \/ NegotiationNeeded(p) \/ IceCandidate(p) \/ IceFails(p) \/ HeartbeatTimeout(p)
      PROVE  Counted'
  BY <1>2, <1>6 DEF NegotiationNeeded, IceCandidate, IceFails, HeartbeatTimeout, Spontaneous
<1>7. ASSUME NEW p \in Peers, ChannelOpens(p) \/ ChannelLost(p) \/ Control(p) PROVE Counted'
  BY <1>2, <1>7 DEF ChannelOpens, ChannelLost, Control, ChannelRegistered, ControlOpened,
     ControlClosed
<1>8. CASE LinkUp \/ LinkBreaks \/ UNCHANGED vars
  BY <1>2, <1>8 DEF LinkUp, LinkBreaks, vars, historyVars
<1> QED
  BY <1>3, <1>4, <1>5, <1>6, <1>7, <1>8 DEF Next, User

-----------------------------------------------------------------------------
(* Candidates on their way *)

\* The signals of s that are candidates.
CandidatesOf(s) == {i \in 1..Len(s) : s[i] = "CANDIDATE"}
Number(s) == Cardinality(CandidatesOf(s))

LEMMA NumberIsNat ==
  ASSUME NEW s \in Seq(SignalTypes)
  PROVE  IsFiniteSet(CandidatesOf(s)) /\ Number(s) \in Nat
<1>1. IsFiniteSet(1..Len(s)) /\ CandidatesOf(s) \subseteq 1..Len(s)
  BY LenProperties, FS_Interval DEF CandidatesOf
<1> QED
  BY <1>1, FS_Subset, FS_CardinalityType DEF Number

LEMMA NumberEmpty == Number(<<>>) = 0
<1>1. CandidatesOf(<<>>) = {}
  BY DEF CandidatesOf
<1> QED
  BY <1>1, FS_EmptySet DEF Number

LEMMA NumberAppend ==
  ASSUME NEW s \in Seq(SignalTypes), NEW t \in SignalTypes
  PROVE  Number(Append(s, t)) = IF t = "CANDIDATE" THEN Number(s) + 1 ELSE Number(s)
<1>1. /\ Len(s) \in Nat /\ Len(Append(s, t)) = Len(s) + 1
      /\ \A i \in 1..Len(s) : Append(s, t)[i] = s[i]
      /\ Append(s, t)[Len(s) + 1] = t
  BY LenProperties, AppendProperties
<1>2. 1..(Len(s) + 1) = (1..Len(s)) \cup {Len(s) + 1} /\ Len(s) + 1 \notin 1..Len(s)
  BY <1>1
<1>3. CandidatesOf(Append(s, t)) = IF t = "CANDIDATE" THEN CandidatesOf(s) \cup {Len(s) + 1}
                                                     ELSE CandidatesOf(s)
  BY <1>1, <1>2 DEF CandidatesOf
<1>4. Len(s) + 1 \notin CandidatesOf(s)
  BY <1>2 DEF CandidatesOf
<1> QED
  BY <1>3, <1>4, NumberIsNat, FS_AddElement DEF Number

LEMMA NumberTail ==
  ASSUME NEW s \in Seq(SignalTypes), s # <<>>
  PROVE  /\ Tail(s) \in Seq(SignalTypes)
         /\ Number(Tail(s)) <= Number(s)
         /\ Head(s) = "CANDIDATE" => Number(Tail(s)) + 1 <= Number(s)
<1> DEFINE T == CandidatesOf(Tail(s))
           S == CandidatesOf(s) \ {1}
           f == [i \in T |-> i + 1]
<1>1. /\ Tail(s) \in Seq(SignalTypes) /\ Len(Tail(s)) = Len(s) - 1 /\ Len(s) \in Nat \ {0}
      /\ \A i \in 1..Len(Tail(s)) : Tail(s)[i] = s[i + 1]
      /\ Head(s) = s[1]
  BY HeadTailProperties, LenProperties, EmptySeq
<1>2. ASSUME NEW i \in T PROVE i \in Nat /\ i + 1 \in S
  <2>1. i \in 1..Len(Tail(s)) /\ Tail(s)[i] = "CANDIDATE"
    BY DEF CandidatesOf
  <2>2. i + 1 \in 1..Len(s) /\ s[i + 1] = "CANDIDATE" /\ i + 1 # 1 /\ i \in Nat
    BY <1>1, <2>1
  <2> QED
    BY <2>2 DEF CandidatesOf
<1>3. f \in Injection(T, S)
  BY <1>2 DEF Injection, IsInjective
<1>4. IsFiniteSet(CandidatesOf(s)) /\ Number(s) \in Nat
  BY NumberIsNat
<1>5. IsFiniteSet(S) /\ Cardinality(S) = IF 1 \in CandidatesOf(s) THEN Number(s) - 1 ELSE Number(s)
  BY <1>4, FS_RemoveElement DEF Number
<1>6. Cardinality(T) <= Cardinality(S)
  BY <1>3, <1>5, FS_Injection
<1>7. Number(Tail(s)) = Cardinality(T) /\ Number(Tail(s)) \in Nat
  BY <1>1, NumberIsNat DEF Number
<1>8. Head(s) = "CANDIDATE" => 1 \in CandidatesOf(s)
  BY <1>1 DEF CandidatesOf
<1> QED
  BY <1>1, <1>4, <1>5, <1>6, <1>7, <1>8

\* A peer holds no more candidates than the other has emitted and are not on their way.
Held(p) == held[p] + Number(wire[Other(p)]) <= candidates[Other(p)]

Wires ==
  /\ wire \in [Peers -> Seq(SignalTypes)]
  /\ \A p \in Peers : candidates[p] <= MaxCandidates
  /\ \A p \in Peers : Held(p)

LEMMA OtherPeer ==
  ASSUME NEW p \in Peers
  PROVE  /\ Other(p) \in Peers /\ Other(p) # p /\ Other(Other(p)) = p
         /\ \A r \in Peers : r = p \/ r = Other(p)
<1>1. PICK q, r \in Peers : q # r /\ Peers = {q, r}
  BY PeerConnectionAssumption
<1>2. \E x \in Peers : x # p
  BY <1>1
<1>3. Other(p) \in Peers /\ Other(p) # p
  BY <1>2 DEF Other
<1>4. \E x \in Peers : x # Other(p)
  BY <1>3
<1>5. Other(Other(p)) \in Peers /\ Other(Other(p)) # Other(p)
  BY <1>4 DEF Other
<1> QED
  BY <1>1, <1>3, <1>5

\* What p does with candidates and signals: nothing, or it lets go what it holds, emits a
\* description or a candidate, or takes a signal and may hold it.
Quiet(p) == UNCHANGED <<wire, candidates>> /\ (held' = held \/ held' = Set(held, p, 0))
Describes(p) == /\ \/ OfferCreated(p) /\ wire' = Push(wire, p, "OFFER")
                   \/ AnswerCreated(p) /\ wire' = Push(wire, p, "ANSWER")
                /\ UNCHANGED <<held, candidates>>
Finds(p) == /\ IceCandidate(p) /\ candidates[p] + candidates[Other(p)] < MaxCandidates
            /\ candidates' = Set(candidates, p, candidates[p] + 1)
            /\ wire' = Push(wire, p, "CANDIDATE") /\ held' = held
Receives(p) == /\ wire[Other(p)] # <<>> /\ Takes(p) /\ candidates' = candidates
               /\ \/ held' = held
                  \/ /\ Head(wire[Other(p)]) = "CANDIDATE"
                     /\ held' = Set(held, p, held[p] + 1)

StepOf(p) ==
  \/ User(p) \/ Signal(p) \/ Answer(p) \/ Operation(p) \/ OperationFails(p)
  \/ NegotiationNeeded(p) \/ IceCandidate(p) \/ IceFails(p)
  \/ ChannelOpens(p) \/ ChannelLost(p) \/ Control(p) \/ HeartbeatTimeout(p)

LEMMA WireMoves ==
  ASSUME NEW p \in Peers, StepOf(p)
  PROVE  Quiet(p) \/ Describes(p) \/ Finds(p) \/ Receives(p)
<1>1. CASE Signal(p)
  BY <1>1 DEF Signal, HandleOffer, HandleAnswer, HandleCandidate, Holding, historyVars, Receives
<1>2. CASE IceCandidate(p)
  BY <1>2 DEF IceCandidate, Holding, Finds
<1>3. CASE OfferCreated(p) \/ AnswerCreated(p)
  BY <1>3 DEF OfferCreated, AnswerCreated, Emit, Holding, Describes
<1>4. CASE User(p) \/ Answer(p) \/ OperationFails(p)
  BY <1>4 DEF User, NegotiateConnection, Close, Answer, AnsweredClose, AnsweredChange, AnsweredTie,
     RefuseOffer, AcceptOffer, OperationFails, HaveRemoteDescription, Holding, Silent, Quiet
<1>5. CASE \/ ChannelCreated(p) \/ LocalOfferSet(p) \/ RemoteOfferSet(p) \/ LocalAnswerSet(p)
           \/ RemoteAnswerSet(p) \/ CandidateAdded(p)
  BY <1>5 DEF ChannelCreated, LocalOfferSet, RemoteOfferSet, LocalAnswerSet, RemoteAnswerSet,
     CandidateAdded, HaveRemoteDescription, Holding, Silent, Quiet
<1>6. CASE \/ NegotiationNeeded(p) \/ IceFails(p) \/ ChannelOpens(p) \/ ChannelLost(p)
           \/ Control(p) \/ HeartbeatTimeout(p)
  BY <1>6 DEF NegotiationNeeded, IceFails, ChannelOpens, ChannelLost, Control, ChannelRegistered,
     ControlOpened, ControlClosed, HeartbeatTimeout, Holding, Silent, Quiet
<1> QED
  BY <1>1, <1>2, <1>3, <1>4, <1>5, <1>6 DEF StepOf, Operation

LEMMA WiresKeep ==
  ASSUME Inv, Wires, NEW p \in Peers,
         Quiet(p) \/ Describes(p) \/ Finds(p) \/ Receives(p)
  PROVE  Wires'
<1> DEFINE q == Other(p)
<1>1. q \in Peers /\ q # p /\ Other(q) = p /\ \A r \in Peers : r = p \/ r = q
  BY OtherPeer
<1>2. /\ wire[p] \in Seq(SignalTypes) /\ wire[q] \in Seq(SignalTypes)
      /\ held[p] \in Nat /\ held[q] \in Nat /\ candidates[p] \in Nat /\ candidates[q] \in Nat
      /\ Number(wire[p]) \in Nat /\ Number(wire[q]) \in Nat /\ MaxCandidates \in Nat
  BY <1>1, NumberIsNat, PeerConnectionAssumption DEF Inv, Typed, Wires
<1>3. /\ held[p] + Number(wire[q]) <= candidates[q]
      /\ held[q] + Number(wire[p]) <= candidates[p]
      /\ candidates[p] <= MaxCandidates /\ candidates[q] <= MaxCandidates
  BY <1>1 DEF Wires, Held
<1>4. /\ wire \in [Peers -> Seq(SignalTypes)] /\ held \in [Peers -> Nat]
      /\ candidates \in [Peers -> Nat]
  BY DEF Inv, Typed, Wires
<1> HIDE DEF q
<1>5. SUFFICES /\ wire' \in [Peers -> Seq(SignalTypes)]
               /\ held'[p] + Number(wire'[q]) <= candidates'[q]
               /\ held'[q] + Number(wire'[p]) <= candidates'[p]
               /\ candidates'[p] <= MaxCandidates /\ candidates'[q] <= MaxCandidates
  <2> SUFFICES ASSUME /\ wire' \in [Peers -> Seq(SignalTypes)]
                      /\ held'[p] + Number(wire'[q]) <= candidates'[q]
                      /\ held'[q] + Number(wire'[p]) <= candidates'[p]
                      /\ candidates'[p] <= MaxCandidates /\ candidates'[q] <= MaxCandidates
               PROVE  Wires'
    OBVIOUS
  <2>1. Other(p) = q
    BY DEF q
  <2>2. Held(p)' /\ Held(q)'
    BY <1>1, <2>1 DEF Held
  <2> QED
    BY <1>1, <2>2 DEF Wires
<1>6. CASE Quiet(p)
  <2>1. held'[q] = held[q] /\ held'[p] \in {0, held[p]}
    BY <1>1, <1>4, <1>6 DEF Quiet, Set
  <2> QED
    BY <1>2, <1>3, <1>4, <1>6, <2>1 DEF Quiet
<1>7. CASE Describes(p)
  <2>1. PICK t \in {"OFFER", "ANSWER"} : wire' = Push(wire, p, t)
    BY <1>7 DEF Describes
  <2>2. Append(wire[p], t) \in Seq(SignalTypes) /\ Number(Append(wire[p], t)) = Number(wire[p])
    BY <1>2, NumberAppend, AppendProperties DEF SignalTypes
  <2>3. /\ wire' \in [Peers -> Seq(SignalTypes)] /\ wire'[p] = Append(wire[p], t)
        /\ wire'[q] = wire[q]
    BY <1>1, <1>4, <2>1, <2>2 DEF Push
  <2> QED
    BY <1>2, <1>3, <1>7, <2>2, <2>3 DEF Describes
<1>8. CASE Finds(p)
  <2>1. /\ Append(wire[p], "CANDIDATE") \in Seq(SignalTypes)
        /\ Number(Append(wire[p], "CANDIDATE")) = Number(wire[p]) + 1
    BY <1>2, NumberAppend, AppendProperties DEF SignalTypes
  <2>2. /\ wire' \in [Peers -> Seq(SignalTypes)] /\ wire'[p] = Append(wire[p], "CANDIDATE")
        /\ wire'[q] = wire[q]
    BY <1>1, <1>4, <1>8, <2>1 DEF Finds, Push
  <2>3. /\ candidates'[p] = candidates[p] + 1 /\ candidates'[q] = candidates[q]
        /\ candidates[p] + candidates[q] < MaxCandidates /\ held' = held
    BY <1>1, <1>4, <1>8 DEF Finds, Set, q
  <2>4. Number(wire'[p]) = Number(wire[p]) + 1 /\ Number(wire'[q]) = Number(wire[q])
    BY <2>1, <2>2
  <2>5. candidates'[p] <= MaxCandidates /\ candidates'[q] <= MaxCandidates
    BY <1>2, <1>3, <2>3
  <2>6. /\ held'[p] + Number(wire'[q]) <= candidates'[q]
        /\ held'[q] + Number(wire'[p]) <= candidates'[p]
    BY <1>2, <1>3, <2>3, <2>4
  <2> QED
    BY <2>2, <2>5, <2>6
<1>9. CASE Receives(p)
  <2>1. /\ Tail(wire[q]) \in Seq(SignalTypes) /\ Number(Tail(wire[q])) <= Number(wire[q])
        /\ Head(wire[q]) = "CANDIDATE" => Number(Tail(wire[q])) + 1 <= Number(wire[q])
        /\ Number(Tail(wire[q])) \in Nat
    <3>1. wire[q] # <<>>
      BY <1>9 DEF Receives, q
    <3> QED
      BY <1>2, <3>1, NumberTail, NumberIsNat
  <2>2. /\ wire' \in [Peers -> Seq(SignalTypes)] /\ wire'[q] = Tail(wire[q])
        /\ wire'[p] = wire[p]
    BY <1>1, <1>4, <1>9, <2>1 DEF Receives, Takes, Set, q
  <2>3. /\ candidates' = candidates /\ held'[q] = held[q]
        /\ held'[p] = held[p] \/ (held'[p] = held[p] + 1 /\ Head(wire[q]) = "CANDIDATE")
    BY <1>1, <1>4, <1>9 DEF Receives, Set, q
  <2> QED
    BY <1>2, <1>3, <2>1, <2>2, <2>3
<1> QED
  BY <1>6, <1>7, <1>8, <1>9

LEMMA WiresInit == Init => Wires
<1> SUFFICES ASSUME Init PROVE Wires
  OBVIOUS
<1>1. /\ wire = [p \in Peers |-> <<>>] /\ held = [p \in Peers |-> 0]
      /\ candidates = [p \in Peers |-> 0] /\ MaxCandidates \in Nat
  BY PeerConnectionAssumption DEF Init
<1>2. ASSUME NEW p \in Peers PROVE Held(p)
  BY <1>1, OtherPeer, NumberEmpty DEF Held
<1> QED
  BY <1>1, <1>2 DEF Wires

LEMMA WiresStep ==
  ASSUME Inv, Wires, [Next]_vars
  PROVE  Wires'
<1>1. ASSUME NEW p \in Peers, StepOf(p) PROVE Wires'
  BY <1>1, WireMoves, WiresKeep
<1>2. CASE LinkUp \/ LinkBreaks \/ UNCHANGED vars
  <2>1. UNCHANGED <<wire, held, candidates>>
    BY <1>2 DEF LinkUp, LinkBreaks, vars, historyVars, Holding, Silent
  <2> QED
    BY <2>1 DEF Wires, Held
<1> QED
  BY <1>1, <1>2 DEF Next, StepOf

\* Every variable of the two classes and their browsers keeps its type; a class holds no
\* more candidates than there are.
THEOREM PeerTyped == Spec => []TypeOK
<1>1. Inv /\ Rest /\ Counted /\ Wires => TypeOK
  <2> SUFFICES ASSUME Inv, Rest, Counted, Wires PROVE TypeOK
    OBVIOUS
  <2>1. ASSUME NEW p \in Peers PROVE held[p] \in 0..MaxCandidates /\ candidates[p] \in 0..MaxCandidates
    <3>1. Other(p) \in Peers /\ wire[Other(p)] \in Seq(SignalTypes)
      BY OtherPeer DEF Wires
    <3>2. Number(wire[Other(p)]) \in Nat
      BY <3>1, NumberIsNat
    <3>3. /\ held[p] \in Nat /\ candidates[p] \in Nat /\ candidates[Other(p)] \in Nat
          /\ held[p] + Number(wire[Other(p)]) <= candidates[Other(p)]
          /\ candidates[p] <= MaxCandidates /\ candidates[Other(p)] <= MaxCandidates
          /\ MaxCandidates \in Nat
      BY <3>1, PeerConnectionAssumption DEF Wires, Held, Inv, Typed
    <3> QED
      BY <3>2, <3>3
  <2>2. held \in [Peers -> 0..MaxCandidates] /\ candidates \in [Peers -> 0..MaxCandidates]
    BY <2>1 DEF Inv, Typed
  <2> QED
    BY <2>2 DEF TypeOK, Inv, Typed, CallsAllowed, Rest, Counted, Wires, SignalTypes
<1>2. Init => Inv /\ Rest /\ Counted /\ Wires
  BY InvInit, WiresInit, PeerConnectionAssumption DEF Init, Rest, Counted, Limit
<1>3. (Inv /\ Rest /\ Counted /\ Wires) /\ [Next]_vars => (Inv /\ Rest /\ Counted /\ Wires)'
  BY InvStep, RestStep, CountedStep, WiresStep
<1> QED
  BY <1>1, <1>2, <1>3, PTL DEF Spec

-----------------------------------------------------------------------------
(* After an end *)

\* What a peer is asked that waits, and what only a peer is asked that was sent an offer.
Early == {"createChannel", "tie"}
Answering == {"tie", "setRemoteOffer", "createAnswer", "setLocalAnswer"}
Unasked == (Operations \cup Reads) \ Answering

\* The browser is asked to close before it does anything but create the channel.
Blocked(s) == \E i \in 1..Len(s) : /\ s[i] = "close"
                                   /\ \A j \in 1..(i - 1) : s[j] \in Reads \cup {"createChannel"}

\* A peer that waits has said nothing, so that nobody answers it, and has not closed.
Waiting(p) ==
  state[p] = "WAITING" =>
    /\ ~onceClosed[p] /\ ~remote[p] /\ ~gathering[p] /\ signaling[p] = "stable"
    /\ calls[p] \in Seq(Early) /\ wire[p] = <<>>
    /\ calls[Other(p)] \in Seq(Unasked) /\ wire[Other(p)] \in Seq({"OFFER", "CANDIDATE"})

\* One that closes while it waits settles nothing: its browser has no remote description,
\* and closes before it could be given one.
Ended(p) ==
  /\ state[p] = "CLOSED" => onceClosed[p]
  /\ state[p] = "CONNECTED" => onceConnected[p] # "pending"
  /\ onceClosed[p] /\ onceConnected[p] = "pending" =>
       ~remote[p] /\ (signaling[p] = "closed" \/ Blocked(calls[p]))

\* A channel opens only between browsers with both descriptions.
Linked == /\ link # "down" => \A p \in Peers : remote[p]
          /\ \A p \in Peers : channel[p] \in {"open", "closed"} => link # "down"

Course == (\A p \in Peers : Waiting(p)) /\ (\A p \in Peers : Ended(p)) /\ Linked

LEMMA BlockedGrows ==
  ASSUME NEW S, NEW s \in Seq(S), NEW t \in Seq(S), Blocked(s)
  PROVE  Blocked(s \o t)
<1>1. PICK i \in 1..Len(s) : /\ s[i] = "close"
                             /\ \A j \in 1..(i - 1) : s[j] \in Reads \cup {"createChannel"}
  BY DEF Blocked
<1>2. /\ Len(s \o t) = Len(s) + Len(t) /\ Len(s) \in Nat /\ Len(t) \in Nat
      /\ \A j \in 1..Len(s) : (s \o t)[j] = s[j]
  BY ConcatProperties, LenProperties
<1>3. i \in 1..Len(s \o t) /\ \A j \in 1..(i - 1) : j \in 1..Len(s)
  BY <1>2
<1> QED
  BY <1>1, <1>2, <1>3 DEF Blocked

LEMMA BlockedAppend ==
  ASSUME NEW S, NEW s \in Seq(S), NEW c \in S, Blocked(s)
  PROVE  Blocked(Append(s, c))
<1>1. <<c>> \in Seq(S) /\ Append(s, c) = s \o <<c>>
  BY AppendIsConcat
<1> QED
  BY <1>1, BlockedGrows

LEMMA BlockedAsks ==
  ASSUME NEW p, NEW s \in Seq(Operations \cup Reads), Blocked(s)
  PROVE  Blocked(AskToClose(p, s)) /\ Blocked(AskChanged(s))
<1>1. "close" \in Operations \cup Reads /\ "change" \in Operations \cup Reads
  BY DEF Reads
<1> QED
  BY <1>1, BlockedAppend DEF AskToClose, AskChanged

LEMMA BlockedTail ==
  ASSUME NEW s \in Seq(Operations \cup Reads), s # <<>>, Blocked(s)
  PROVE  /\ Head(s) \in Reads \cup {"createChannel"}
         /\ Head(s) # "close" => Blocked(Tail(s))
<1>1. PICK i \in 1..Len(s) : /\ s[i] = "close"
                             /\ \A j \in 1..(i - 1) : s[j] \in Reads \cup {"createChannel"}
  BY DEF Blocked
<1>2. /\ Len(s) \in Nat /\ Len(Tail(s)) = Len(s) - 1 /\ Head(s) = s[1]
      /\ \A j \in 1..Len(Tail(s)) : Tail(s)[j] = s[j + 1]
  BY HeadTailProperties, LenProperties
<1>3. CASE i = 1
  BY <1>1, <1>2, <1>3 DEF Reads
<1>4. CASE i # 1
  <2>1. Head(s) \in Reads \cup {"createChannel"}
    BY <1>1, <1>2, <1>4
  <2>2. /\ i - 1 \in 1..Len(Tail(s)) /\ Tail(s)[i - 1] = "close"
        /\ \A j \in 1..((i - 1) - 1) : j \in 1..Len(Tail(s)) /\ j + 1 \in 1..(i - 1)
    BY <1>1, <1>2, <1>4
  <2>3. \A j \in 1..((i - 1) - 1) : Tail(s)[j] \in Reads \cup {"createChannel"}
    BY <1>1, <1>2, <2>2
  <2> QED
    BY <2>1, <2>2, <2>3 DEF Blocked
<1> QED
  BY <1>3, <1>4

\* Another question than the one to close is answered.
LEMMA BlockedRemoves ==
  ASSUME NEW s \in Seq(Operations \cup Reads), NEW k \in 1..Len(s), s[k] # "close", Blocked(s)
  PROVE  Blocked(RemoveAt(s, k))
<1> DEFINE t == RemoveAt(s, k)
           B == Reads \cup {"createChannel"}
<1>1. PICK i \in 1..Len(s) : s[i] = "close" /\ \A j \in 1..(i - 1) : s[j] \in B
  BY DEF Blocked
<1>2. Len(s) \in Nat /\ \A j \in 1..Len(s) : s[j] \in Operations \cup Reads
  BY LenProperties, ElementOfSeq
<1>3. /\ SubSeq(s, 1, k - 1) \in Seq(Operations \cup Reads) /\ Len(SubSeq(s, 1, k - 1)) = k - 1
      /\ \A j \in 1..(k - 1) : SubSeq(s, 1, k - 1)[j] = s[j]
  <2>1. /\ SubSeq(s, 1, k - 1) \in Seq(Operations \cup Reads)
        /\ Len(SubSeq(s, 1, k - 1)) = IF 1 <= k - 1 THEN (k - 1) - 1 + 1 ELSE 0
        /\ \A j \in 1..((k - 1) - 1 + 1) : SubSeq(s, 1, k - 1)[j] = s[1 + j - 1]
    BY <1>2, SubSeqProperties
  <2> QED
    BY <1>2, <2>1
<1>4. /\ SubSeq(s, k + 1, Len(s)) \in Seq(Operations \cup Reads)
      /\ Len(SubSeq(s, k + 1, Len(s))) = Len(s) - k
      /\ \A j \in 1..(Len(s) - k) : SubSeq(s, k + 1, Len(s))[j] = s[k + j]
  <2>1. /\ SubSeq(s, k + 1, Len(s)) \in Seq(Operations \cup Reads)
        /\ Len(SubSeq(s, k + 1, Len(s))) = IF k + 1 <= Len(s) THEN Len(s) - (k + 1) + 1 ELSE 0
        /\ \A j \in 1..(Len(s) - (k + 1) + 1) : SubSeq(s, k + 1, Len(s))[j] = s[(k + 1) + j - 1]
    BY <1>2, SubSeqProperties
  <2> QED
    BY <1>2, <2>1
<1>5. /\ Len(t) = Len(s) - 1
      /\ \A j \in 1..(Len(s) - 1) : t[j] = IF j < k THEN s[j] ELSE s[j + 1]
  <2> DEFINE a == SubSeq(s, 1, k - 1)
             b == SubSeq(s, k + 1, Len(s))
  <2>3. t = a \o b /\ a \in Seq(Operations \cup Reads) /\ b \in Seq(Operations \cup Reads)
        /\ Len(a) = k - 1 /\ Len(b) = Len(s) - k
    BY <1>3, <1>4 DEF RemoveAt
  <2> HIDE DEF a, b, t
  <2>4. /\ Len(t) = Len(a) + Len(b)
        /\ \A j \in 1..(Len(a) + Len(b)) : t[j] = IF j <= Len(a) THEN a[j] ELSE b[j - Len(a)]
    BY <2>3, ConcatProperties
  <2>1. /\ Len(t) = (k - 1) + (Len(s) - k)
        /\ \A j \in 1..((k - 1) + (Len(s) - k)) :
             t[j] = IF j <= k - 1 THEN SubSeq(s, 1, k - 1)[j]
                                  ELSE SubSeq(s, k + 1, Len(s))[j - (k - 1)]
    BY <2>3, <2>4 DEF a, b
  <2>2. ASSUME NEW j \in 1..(Len(s) - 1) PROVE t[j] = IF j < k THEN s[j] ELSE s[j + 1]
    <3>1. CASE j < k
      BY <1>2, <1>3, <2>1, <3>1
    <3>2. CASE j >= k
      <4>1. j - (k - 1) \in 1..(Len(s) - k) /\ ~(j <= k - 1) /\ k + (j - (k - 1)) = j + 1
        BY <1>2, <3>2
      <4>2. t[j] = SubSeq(s, k + 1, Len(s))[j - (k - 1)]
        BY <1>2, <2>1, <4>1
      <4> QED
        BY <1>4, <3>2, <4>1, <4>2
    <3> QED
      BY <1>2, <3>1, <3>2
  <2> QED
    BY <1>2, <2>1, <2>2
<1> HIDE DEF t
<1>6. CASE i < k
  <2>1. i \in 1..Len(t) /\ t[i] = "close" /\ \A j \in 1..(i - 1) : t[j] = s[j]
    BY <1>1, <1>2, <1>5, <1>6
  <2> QED
    BY <1>1, <2>1 DEF Blocked, t
<1>7. CASE i > k
  <2>1. i - 1 \in 1..Len(t) /\ t[i - 1] = "close"
    BY <1>1, <1>2, <1>5, <1>7
  <2>2. ASSUME NEW j \in 1..((i - 1) - 1) PROVE t[j] \in B
    BY <1>1, <1>2, <1>5, <1>7
  <2> QED
    BY <2>1, <2>2 DEF Blocked, t
<1> QED
  BY <1>1, <1>6, <1>7

\* Whoever waits has nothing in its queue that would come before the end.
LEMMA CloseBlocks ==
  ASSUME NEW p, NEW s \in Seq(Early), signaling[p] # "closed"
  PROVE  Blocked(AskToClose(p, s))
<1>1. /\ Len(s) \in Nat /\ \A i \in 1..Len(s) : s[i] \in Reads \cup {"createChannel"}
  BY LenProperties, ElementOfSeq DEF Early, Reads
<1>2. CASE Contains(s, "close")
  <2>1. PICK i \in 1..Len(s) : s[i] = "close"
    BY <1>2 DEF Contains
  <2>2. \A j \in 1..(i - 1) : j \in 1..Len(s)
    BY <1>1
  <2>3. Blocked(s)
    BY <1>1, <2>1, <2>2 DEF Blocked
  <2> QED
    BY <1>2, <2>3 DEF AskToClose
<1>3. CASE ~Contains(s, "close")
  <2>1. AskToClose(p, s) = Append(s, "close")
    BY <1>3 DEF AskToClose
  <2>2. s \in Seq(Early \cup {"close"})
    BY SeqMonotonic
  <2>3. /\ Len(Append(s, "close")) = Len(s) + 1 /\ Append(s, "close")[Len(s) + 1] = "close"
        /\ \A j \in 1..Len(s) : Append(s, "close")[j] = s[j]
    BY <2>2, AppendProperties
  <2>4. Len(s) + 1 \in 1..Len(Append(s, "close")) /\ (Len(s) + 1) - 1 = Len(s)
    BY <1>1, <2>3
  <2> QED
    BY <1>1, <2>1, <2>3, <2>4 DEF Blocked
<1> QED
  BY <1>2, <1>3

\* What is left of a queue is as harmless as the queue was.
Passes(p, queue) ==
  /\ Blocked(calls[p]) => Blocked(queue)
  /\ calls[p] \in Seq(Early) => queue \in Seq(Early)
  /\ calls[p] \in Seq(Unasked) => queue \in Seq(Unasked)
  /\ queue \in Seq(Operations \cup Reads)

LEMMA QueuePasses ==
  ASSUME Inv, NEW p \in Peers
  PROVE  /\ Passes(p, calls[p])
         /\ calls[p] # <<>> /\ Head(calls[p]) # "close" => Passes(p, Tail(calls[p]))
         /\ FirstRead(p) > 0 => Others(p) \in Seq(Operations \cup Reads)
         /\ FirstRead(p) > 0 /\ calls[p][FirstRead(p)] # "close" => Passes(p, Others(p))
         /\ FirstRead(p) > 0 =>
              /\ calls[p] \in Seq(Early) => calls[p][FirstRead(p)] \in Early
              /\ calls[p] \in Seq(Unasked) => /\ calls[p][FirstRead(p)] \in Unasked
                                             /\ Others(p) \in Seq(Unasked)
<1>1. calls[p] \in Seq(Operations \cup Reads)
  BY DEF Inv, CallsAllowed
<1>2. Passes(p, calls[p])
  BY <1>1 DEF Passes
<1>3. ASSUME calls[p] # <<>>, Head(calls[p]) # "close" PROVE Passes(p, Tail(calls[p]))
  <2>1. Blocked(calls[p]) => Blocked(Tail(calls[p]))
    BY <1>1, <1>3, BlockedTail
  <2>2. /\ calls[p] \in Seq(Early) => Tail(calls[p]) \in Seq(Early)
        /\ calls[p] \in Seq(Unasked) => Tail(calls[p]) \in Seq(Unasked)
        /\ Tail(calls[p]) \in Seq(Operations \cup Reads)
    BY <1>1, <1>3, HeadTailProperties
  <2> QED
    BY <2>1, <2>2 DEF Passes
<1>4. ASSUME FirstRead(p) > 0
      PROVE  /\ FirstRead(p) \in 1..Len(calls[p])
             /\ calls[p] \in Seq(Early) => Others(p) \in Seq(Early) /\ calls[p][FirstRead(p)] \in Early
             /\ calls[p] \in Seq(Unasked) =>
                  Others(p) \in Seq(Unasked) /\ calls[p][FirstRead(p)] \in Unasked
             /\ Others(p) \in Seq(Operations \cup Reads)
  <2>1. FirstRead(p) \in 1..Len(calls[p])
    BY <1>1, <1>4, FirstReadIsOne
  <2>2. /\ Early \subseteq Operations \cup Reads /\ Unasked \subseteq Operations \cup Reads
        /\ Operations \cup Reads \subseteq Operations \cup Reads
    BY DEF Early, Unasked, Operations, Reads
  <2>3. \A i \in 1..Len(calls[p]) : /\ calls[p] \in Seq(Early) => calls[p][i] \in Early
                                    /\ calls[p] \in Seq(Unasked) => calls[p][i] \in Unasked
    BY ElementOfSeq
  <2>4. calls[p] \in Seq(Early) => Others(p) \in Seq(Early)
    BY <1>4, <2>2, OthersIn
  <2>5. calls[p] \in Seq(Unasked) => Others(p) \in Seq(Unasked)
    BY <1>4, <2>2, OthersIn
  <2>6. Others(p) \in Seq(Operations \cup Reads)
    BY <1>1, <1>4, <2>2, OthersIn
  <2> QED
    BY <2>1, <2>3, <2>4, <2>5, <2>6
<1>5. ASSUME FirstRead(p) > 0, calls[p][FirstRead(p)] # "close" PROVE Passes(p, Others(p))
  <2>1. Blocked(calls[p]) => Blocked(RemoveAt(calls[p], FirstRead(p)))
    BY <1>1, <1>4, <1>5, BlockedRemoves
  <2> QED
    BY <1>4, <1>5, <2>1 DEF Passes, Others
<1> QED
  BY <1>2, <1>3, <1>4, <1>5

\* A step of p leaves the other peer alone, but for the signals between them.
LEMMA OthersSame ==
  ASSUME Inv, Rest, NEW p \in Peers, StepOf(p), NEW q \in Peers \ {p}
  PROVE  /\ state'[q] = state[q] /\ onceConnected'[q] = onceConnected[q]
         /\ onceClosed'[q] = onceClosed[q] /\ remote'[q] = remote[q]
         /\ gathering'[q] = gathering[q] /\ signaling'[q] = signaling[q]
         /\ calls'[q] = calls[q] /\ channel'[q] = channel[q]
<1>1. CASE User(p) \/ Signal(p)
  BY <1>1 DEF User, Signal, NegotiateConnection, Close, HandleOffer, HandleAnswer, HandleCandidate,
     Closing, NotClosing, promiseVars, browserVars, Set, Push, Rest, Inv, Typed, CallsAllowed
<1>2. CASE Answer(p)
  BY <1>2 DEF Answer, AnsweredClose, AnsweredChange, AnsweredTie, RefuseOffer, AcceptOffer,
     Closing, NotClosing, promiseVars, browserVars, Set, Rest, Inv, Typed, CallsAllowed
<1>3. CASE Operation(p)
  BY <1>3 DEF Operation, ChannelCreated, OfferCreated, LocalOfferSet, RemoteOfferSet,
     AnswerCreated, LocalAnswerSet, RemoteAnswerSet, CandidateAdded, Then, Becomes, NotClosing,
     promiseVars, browserVars, Set, Rest, Inv, Typed, CallsAllowed
<1>4. CASE OperationFails(p)
  BY <1>4 DEF OperationFails, Closing, NotClosing, promiseVars, browserVars, Set, Rest, Inv,
     Typed, CallsAllowed
<1>5. CASE NegotiationNeeded(p) \/ IceCandidate(p) \/ IceFails(p) \/ HeartbeatTimeout(p)
  BY <1>5 DEF NegotiationNeeded, IceCandidate, IceFails, HeartbeatTimeout, Closing, NotClosing,
     promiseVars, browserVars, Set, Push, Rest, Inv, Typed, CallsAllowed
<1>6. CASE ChannelOpens(p) \/ ChannelLost(p) \/ Control(p)
  BY <1>6 DEF ChannelOpens, ChannelLost, Control, ChannelRegistered, ControlOpened, ControlClosed,
     Closing, NotClosing, promiseVars, browserVars, Set, Rest, Inv, Typed, CallsAllowed
<1> QED
  BY <1>1, <1>2, <1>3, <1>4, <1>5, <1>6 DEF StepOf

\* A remote description lasts, and a channel opens when there is a link.
LEMMA LinkMoves ==
  ASSUME Inv, Rest, NEW p \in Peers, StepOf(p)
  PROVE  /\ link' = link /\ (remote[p] => remote'[p])
         /\ channel'[p] \in {"open", "closed"} => channel[p] \in {"open", "closed"} \/ link = "up"
<1>1. CASE User(p) \/ Signal(p)
  BY <1>1 DEF User, Signal, NegotiateConnection, Close, HandleOffer, HandleAnswer, HandleCandidate,
     browserVars
<1>2. CASE Answer(p)
  BY <1>2 DEF Answer, AnsweredClose, AnsweredChange, AnsweredTie, browserVars, Set, Rest
<1>3. CASE Operation(p)
  BY <1>3 DEF Operation, ChannelCreated, OfferCreated, LocalOfferSet, RemoteOfferSet,
     AnswerCreated, LocalAnswerSet, RemoteAnswerSet, CandidateAdded, browserVars, Set, Rest, Inv,
     Typed
<1>4. CASE \/ OperationFails(p) \/ NegotiationNeeded(p) \/ IceCandidate(p) \/ IceFails(p)
           \/ HeartbeatTimeout(p)
  BY <1>4 DEF OperationFails, NegotiationNeeded, IceCandidate, IceFails, HeartbeatTimeout,
     browserVars
<1>5. CASE ChannelOpens(p) \/ ChannelLost(p) \/ Control(p)
  BY <1>5 DEF ChannelOpens, ChannelLost, Control, ChannelRegistered, ControlOpened, ControlClosed,
     browserVars, Set, Rest
<1> QED
  BY <1>1, <1>2, <1>3, <1>4, <1>5 DEF StepOf

\* Who waits says nothing, and whoever is with it does not answer.
LEMMA NothingSaid ==
  ASSUME Course, NEW p \in Peers
  PROVE  /\ state[p] = "WAITING" =>
              /\ calls[p] # <<>> => Head(calls[p]) \in Early
              /\ ~OfferCreated(p) /\ ~AnswerCreated(p) /\ ~IceCandidate(p)
         /\ state[Other(p)] = "WAITING" =>
              /\ calls[p] \in Seq(Unasked) /\ wire[Other(p)] = <<>>
              /\ calls[p] # <<>> => Head(calls[p]) \in Unasked
              /\ ~AnswerCreated(p)
<1>1. ASSUME state[p] = "WAITING"
      PROVE  ~gathering[p] /\ (calls[p] # <<>> => Head(calls[p]) \in Early)
  BY <1>1, HeadTailProperties DEF Course, Waiting
<1>2. ASSUME state[Other(p)] = "WAITING"
      PROVE  /\ calls[p] \in Seq(Unasked) /\ wire[Other(p)] = <<>>
             /\ calls[p] # <<>> => Head(calls[p]) \in Unasked
  BY <1>2, OtherPeer, HeadTailProperties DEF Course, Waiting
<1> QED
  BY <1>1, <1>2 DEF OfferCreated, AnswerCreated, IceCandidate, Does, Early, Unasked, Answering

\* A step of p that keeps its own course, and asks for nothing of one that waits.
LEMMA CourseKeeps ==
  ASSUME Inv, Rest, Wires, Wires', Course, NEW p \in Peers, StepOf(p), Waiting(p)', Ended(p)',
         state[Other(p)] = "WAITING" => calls'[p] \in Seq(Unasked)
  PROVE  Course'
<1> DEFINE q == Other(p)
<1>1. q \in Peers /\ q \in Peers \ {p} /\ Other(q) = p /\ \A r \in Peers : r = p \/ r = q
  BY OtherPeer
<1>2. /\ state'[q] = state[q] /\ onceConnected'[q] = onceConnected[q]
      /\ onceClosed'[q] = onceClosed[q] /\ remote'[q] = remote[q]
      /\ gathering'[q] = gathering[q] /\ signaling'[q] = signaling[q]
      /\ calls'[q] = calls[q] /\ channel'[q] = channel[q]
  BY <1>1, OthersSame
<1>3. Ended(q)'
  BY <1>1, <1>2 DEF Course, Ended
<1>4. Linked'
  <2>1. /\ link' = link /\ (remote[p] => remote'[p])
        /\ channel'[p] \in {"open", "closed"} => channel[p] \in {"open", "closed"} \/ link = "up"
    BY LinkMoves
  <2> QED
    BY <1>1, <1>2, <2>1 DEF Course, Linked
<1>5. ASSUME state[q] = "WAITING"
      PROVE  wire'[q] = <<>> /\ wire'[p] \in Seq({"OFFER", "CANDIDATE"})
  <2>1. wire[q] = <<>> /\ wire[p] \in Seq({"OFFER", "CANDIDATE"}) /\ ~AnswerCreated(p)
    BY <1>1, <1>5, NothingSaid DEF Course, Waiting
  <2>2. wire \in [Peers -> Seq(SignalTypes)]
    BY DEF Wires
  <2>3. Quiet(p) \/ Describes(p) \/ Finds(p) \/ Receives(p)
    BY WireMoves
  <2>4. CASE wire' = wire
    BY <2>1, <2>4
  <2>5. ASSUME NEW t \in {"OFFER", "CANDIDATE"}, wire' = Push(wire, p, t)
        PROVE  wire'[q] = <<>> /\ wire'[p] \in Seq({"OFFER", "CANDIDATE"})
    <3>1. wire'[q] = wire[q] /\ wire'[p] = Append(wire[p], t)
      BY <1>1, <2>2, <2>5 DEF Push
    <3> QED
      BY <2>1, <3>1, AppendProperties
  <2>6. ~Receives(p)
    BY <2>1 DEF Receives
  <2> QED
    BY <2>1, <2>3, <2>4, <2>5, <2>6 DEF Quiet, Describes, Finds
<1>6. Waiting(q)'
  <2>1. Waiting(q)
    BY <1>1 DEF Course
  <2> QED
    BY <1>1, <1>2, <1>5, <2>1 DEF Waiting
<1> QED
  BY <1>1, <1>3, <1>4, <1>6 DEF Course

\* A peer that goes on waiting.
LEMMA WaitingKeeps ==
  ASSUME Inv, Rest, Wires, Course, NEW p \in Peers, StepOf(p),
         state'[p] = "WAITING" =>
           /\ state[p] = "WAITING" /\ ~onceClosed'[p] /\ calls'[p] \in Seq(Early)
           /\ remote'[p] = remote[p] /\ gathering'[p] = gathering[p]
           /\ signaling'[p] = signaling[p]
  PROVE  Waiting(p)'
<1> SUFFICES ASSUME state'[p] = "WAITING"
             PROVE  /\ ~onceClosed'[p] /\ ~remote'[p] /\ ~gathering'[p]
                    /\ signaling'[p] = "stable" /\ calls'[p] \in Seq(Early)
                    /\ wire'[p] = <<>> /\ calls'[Other(p)] \in Seq(Unasked)
                    /\ wire'[Other(p)] \in Seq({"OFFER", "CANDIDATE"})
  BY DEF Waiting
<1>1. Waiting(p) /\ state[p] = "WAITING"
  BY DEF Course
<1>2. /\ Other(p) \in Peers \ {p} /\ calls'[Other(p)] = calls[Other(p)]
  BY OtherPeer, OthersSame
<1>3. Quiet(p) \/ Receives(p)
  BY <1>1, NothingSaid, WireMoves DEF Describes, Finds
<1>4. /\ wire[p] = <<>> /\ wire[Other(p)] \in Seq({"OFFER", "CANDIDATE"})
      /\ ~remote[p] /\ ~gathering[p] /\ signaling[p] = "stable"
      /\ calls[Other(p)] \in Seq(Unasked)
  BY <1>1 DEF Waiting
<1>5. wire'[p] = <<>> /\ wire'[Other(p)] \in Seq({"OFFER", "CANDIDATE"})
  <2>1. CASE Quiet(p)
    BY <1>4, <2>1 DEF Quiet
  <2>2. CASE Receives(p)
    <3>1. /\ wire[Other(p)] # <<>>
          /\ wire' = [wire EXCEPT ![Other(p)] = Tail(wire[Other(p)])]
      BY <2>2 DEF Receives, Takes, Set
    <3>2. wire'[p] = wire[p] /\ wire'[Other(p)] = Tail(wire[Other(p)])
      BY <1>2, <3>1 DEF Wires
    <3> QED
      BY <1>4, <3>1, <3>2, HeadTailProperties
  <2> QED
    BY <1>3, <2>1, <2>2
<1> QED
  BY <1>1, <1>2, <1>4, <1>5

\* A peer that was closed while it waited for a connection.
Late(p) == onceClosed[p] /\ onceConnected[p] = "pending"

\* A step of p in which nothing is settled.
LEMMA StepKeeps ==
  ASSUME Inv, Rest, Wires, Wires', Course, NEW p \in Peers, StepOf(p),
         onceConnected'[p] = onceConnected[p], onceClosed'[p] = onceClosed[p],
         state'[p] = state[p] \/ state'[p] = "CONNECTING",
         Late(p) => /\ remote'[p] = remote[p]
                    /\ signaling[p] = "closed" => signaling'[p] = "closed"
                    /\ Blocked(calls[p]) => Blocked(calls'[p]) \/ signaling'[p] = "closed",
         state'[p] = "WAITING" =>
           /\ calls'[p] \in Seq(Early) /\ remote'[p] = remote[p] /\ gathering'[p] = gathering[p]
           /\ signaling'[p] = signaling[p],
         state[Other(p)] = "WAITING" => calls'[p] \in Seq(Unasked)
  PROVE  Course'
<1>1. Waiting(p) /\ Ended(p)
  BY DEF Course
<1>2. Waiting(p)'
  <2>1. state'[p] = "WAITING" => state[p] = "WAITING" /\ ~onceClosed'[p]
    BY <1>1 DEF Waiting
  <2> QED
    BY <2>1, WaitingKeeps
<1>3. Ended(p)'
  BY <1>1 DEF Ended, Late
<1> QED
  BY <1>2, <1>3, CourseKeeps

LEMMA UnaskedCalls ==
  /\ Early \subseteq Operations \cup Reads /\ Unasked \subseteq Operations \cup Reads
  /\ {"close", "change", "createChannel", "createOffer", "setLocalOffer", "setRemoteAnswer",
      "addCandidate"} \subseteq Unasked
  BY DEF Early, Unasked, Answering, Operations, Reads

\* A step of p in which the connection closes.  If it waits, it is in CONNECTING or its
\* browser has not been asked for more than it is after an end.
LEMMA ClosingKeeps ==
  ASSUME Inv, Rest, Wires, Wires', Course, NEW p \in Peers, StepOf(p), Closing(p),
         NEW queue, Passes(p, queue), NEW more \in Seq({"addCandidate"}),
         calls' = Set(calls, p, AskToClose(p, queue) \o more),
         UNCHANGED <<remote, signaling>>
  PROVE  Course'
<1> DEFINE asked == AskToClose(p, queue)
<1>1. /\ state'[p] = "CLOSED" /\ onceClosed'[p] /\ calls'[p] = asked \o more
      /\ onceConnected'[p] = "pending" => onceConnected[p] = "pending" /\ state[p] # "CONNECTING"
  BY DEF Closing, Set, Inv, Typed, CallsAllowed, Rest
<1>2. Waiting(p) /\ Ended(p)
  BY DEF Course
<1>3. /\ queue \in Seq(Operations \cup Reads) /\ asked \in Seq(Operations \cup Reads)
      /\ more \in Seq(Operations \cup Reads) /\ more \in Seq(Unasked)
  <2>1. queue \in Seq(Operations \cup Reads) /\ "close" \in Operations \cup Reads
                                             /\ "change" \in Operations \cup Reads
    BY DEF Passes, Reads
  <2>2. asked \in Seq(Operations \cup Reads)
    BY <2>1, AskIn
  <2>3. {"addCandidate"} \subseteq Operations \cup Reads /\ {"addCandidate"} \subseteq Unasked
    BY UnaskedCalls DEF Operations
  <2> QED
    BY <2>1, <2>2, <2>3, SeqMonotonic
<1>4. ASSUME onceConnected'[p] = "pending" PROVE ~remote[p] /\ (signaling[p] = "closed" \/ Blocked(asked))
  <2>1. state[p] \in {"WAITING", "CLOSED"}
    BY <1>1, <1>2, <1>4 DEF Rest, Ended
  <2>2. CASE state[p] = "WAITING"
    <3>1. ~remote[p] /\ signaling[p] # "closed" /\ queue \in Seq(Early)
      BY <1>2, <2>2 DEF Waiting, Passes
    <3> QED
      BY <3>1, CloseBlocks
  <2>3. CASE state[p] = "CLOSED"
    <3>1. ~remote[p] /\ (signaling[p] = "closed" \/ Blocked(queue))
      BY <1>1, <1>2, <1>4, <2>3 DEF Ended, Passes
    <3> QED
      BY <1>3, <3>1, BlockedAsks
  <2> QED
    BY <2>1, <2>2, <2>3
<1>5. ASSUME state[Other(p)] = "WAITING" PROVE calls'[p] \in Seq(Unasked)
  <2>1. queue \in Seq(Unasked)
    BY <1>5, NothingSaid DEF Passes
  <2>2. asked \in Seq(Unasked)
    BY <2>1, UnaskedCalls, AskIn
  <2> HIDE DEF asked
  <2> QED
    BY <1>1, <1>3, <2>2, ConcatProperties
<1> HIDE DEF asked
<1>6. Ended(p)'
  <2>1. onceConnected'[p] = "pending" => ~remote'[p] /\ (signaling'[p] = "closed" \/ Blocked(calls'[p]))
    BY <1>1, <1>3, <1>4, BlockedGrows
  <2> QED
    BY <1>1, <2>1 DEF Ended
<1>7. Waiting(p)'
  BY <1>1 DEF Waiting
<1> QED
  BY <1>5, <1>6, <1>7, CourseKeeps

LEMMA CloseCourse ==
  ASSUME Inv, Rest, Wires, Wires', Course, NEW p \in Peers,
         Close(p) \/ IceFails(p) \/ ControlClosed(p) \/ HeartbeatTimeout(p)
  PROVE  Course'
<1>1. Closing(p) /\ UNCHANGED <<remote, signaling>> /\ calls' = Set(calls, p, AskToClose(p, calls[p]))
  BY DEF Close, IceFails, ControlClosed, HeartbeatTimeout, browserVars
<1>2. StepOf(p)
  BY DEF StepOf, User, Control
<1>3. Passes(p, calls[p])
  BY QueuePasses
<1>4. /\ AskToClose(p, calls[p]) \o <<>> = AskToClose(p, calls[p])
      /\ <<>> \in Seq({"addCandidate"})
  <2>1. calls[p] \in Seq(Operations \cup Reads) /\ "close" \in Operations \cup Reads
                                               /\ "change" \in Operations \cup Reads
    BY <1>3 DEF Passes, Reads
  <2> QED
    BY <2>1, AskIn, EmptySeq, ConcatEmptySeq
<1> QED
  BY <1>1, <1>2, <1>3, <1>4, ClosingKeeps

\* One more call.
LEMMA PushCourse ==
  ASSUME Inv, Rest, Wires, Wires', Course, NEW p \in Peers, StepOf(p),
         NEW c \in Operations \cup Reads, calls' = Push(calls, p, c),
         UNCHANGED <<promiseVars, remote, gathering, signaling>>,
         state' = state \/ state' = Set(state, p, "CONNECTING"),
         state[p] = "WAITING" /\ state' = state => c \in Early,
         state[Other(p)] = "WAITING" => c \in Unasked
  PROVE  Course'
<1>1. /\ calls'[p] = Append(calls[p], c) /\ calls[p] \in Seq(Operations \cup Reads)
      /\ \/ state' = state
         \/ state'[p] = "CONNECTING"
  BY DEF Push, Set, Inv, CallsAllowed, Rest
<1>2. Blocked(calls[p]) => Blocked(calls'[p])
  BY <1>1, BlockedAppend
<1>3. ASSUME state'[p] = "WAITING" PROVE calls'[p] \in Seq(Early)
  <2>1. calls[p] \in Seq(Early) /\ c \in Early
    BY <1>1, <1>3 DEF Course, Waiting
  <2> QED
    BY <1>1, <2>1, AppendProperties
<1>4. ASSUME state[Other(p)] = "WAITING" PROVE calls'[p] \in Seq(Unasked)
  BY <1>1, <1>4, NothingSaid, AppendProperties
<1> QED
  BY <1>1, <1>2, <1>3, <1>4, StepKeeps DEF promiseVars

LEMMA CallsCourse ==
  ASSUME Inv, Rest, Wires, Wires', Course, NEW p \in Peers,
         \/ NegotiateConnection(p) \/ HandleOffer(p) \/ HandleAnswer(p) \/ NegotiationNeeded(p)
  PROVE  Course'
<1>1. StepOf(p)
  BY DEF StepOf, User, Signal
<1>2. UNCHANGED <<promiseVars, remote, gathering, signaling>>
  BY DEF NegotiateConnection, HandleOffer, HandleAnswer, NegotiationNeeded, NotClosing, browserVars
<1>3. CASE NegotiateConnection(p)
  <2>1. calls' = Push(calls, p, "createChannel") /\ state' = state
    BY <1>3 DEF NegotiateConnection, NotClosing
  <2> QED
    BY <1>1, <1>2, <2>1, PushCourse, UnaskedCalls DEF Early, Operations
<1>4. CASE HandleOffer(p)
  <2>1. calls' = Push(calls, p, "tie") /\ state' = state /\ state[Other(p)] # "WAITING"
    BY <1>4, NothingSaid DEF HandleOffer, NotClosing
  <2> QED
    BY <1>1, <1>2, <2>1, PushCourse DEF Early, Reads
<1>5. CASE HandleAnswer(p)
  <2>1. /\ calls' = Push(calls, p, "setRemoteAnswer") /\ state' = state
        /\ wire[Other(p)] # <<>> /\ Head(wire[Other(p)]) = "ANSWER"
    BY <1>5 DEF HandleAnswer, NotClosing
  <2>2. state[p] # "WAITING"
    BY <2>1, HeadTailProperties DEF Course, Waiting
  <2> QED
    BY <1>1, <1>2, <2>1, <2>2, PushCourse, UnaskedCalls DEF Operations
<1>6. CASE NegotiationNeeded(p)
  <2>1. calls' = Push(calls, p, "createOffer") /\ state' = Set(state, p, "CONNECTING")
    BY <1>6 DEF NegotiationNeeded
  <2>2. state' # state \/ state[p] # "WAITING"
    BY <2>1 DEF Set, Rest
  <2> QED
    BY <1>1, <1>2, <2>1, <2>2, PushCourse, UnaskedCalls DEF Operations
<1> QED
  BY <1>3, <1>4, <1>5, <1>6

\* No call is made or answered.
LEMMA StillCourse ==
  ASSUME Inv, Rest, Wires, Wires', Course, NEW p \in Peers, StepOf(p),
         UNCHANGED <<state, promiseVars, calls, remote, gathering, signaling>>
  PROVE  Course'
<1>1. state[p] = "WAITING" => calls[p] \in Seq(Early)
  BY DEF Course, Waiting
<1> QED
  BY <1>1, NothingSaid, StepKeeps DEF promiseVars

LEMMA CandidateCourse ==
  ASSUME Inv, Rest, Wires, Wires', Course, NEW p \in Peers, HandleCandidate(p)
  PROVE  Course'
<1>1. StepOf(p)
  BY DEF StepOf, Signal
<1>2. /\ UNCHANGED <<state, promiseVars, remote, gathering, signaling>>
      /\ \/ calls' = calls
         \/ onceHaveRemoteDescription[p] /\ calls' = Push(calls, p, "addCandidate")
  BY DEF HandleCandidate, NotClosing, browserVars
<1>3. onceHaveRemoteDescription[p] => state[p] # "WAITING"
  BY DEF Inv, Stages, Stage, Course, Waiting
<1> QED
  BY <1>1, <1>2, <1>3, StillCourse, PushCourse, UnaskedCalls DEF Operations

LEMMA EventsCourse ==
  ASSUME Inv, Rest, Wires, Wires', Course, NEW p \in Peers,
         IceCandidate(p) \/ ChannelOpens(p) \/ ChannelLost(p) \/ ChannelRegistered(p)
  PROVE  Course'
<1>1. StepOf(p)
  BY DEF StepOf, Control
<1>2. UNCHANGED <<state, promiseVars, calls, remote, gathering, signaling>>
  BY DEF IceCandidate, ChannelOpens, ChannelLost, ChannelRegistered, NotClosing, browserVars
<1> QED
  BY <1>1, <1>2, StillCourse

\* The control channel opens only if there is a remote description.
LEMMA OpenedCourse ==
  ASSUME Inv, Rest, Wires, Wires', Course, NEW p \in Peers, ControlOpened(p)
  PROVE  Course' /\ ~Late(p)
<1>1. remote[p]
  BY DEF ControlOpened, Course, Linked
<1>2. ~Late(p)
  BY <1>1 DEF Course, Ended, Late
<1>3. /\ state'[p] = "CONNECTED" /\ onceConnected'[p] # "pending"
      /\ calls' = calls
  BY DEF ControlOpened, Set, Rest
<1>4. Waiting(p)' /\ Ended(p)'
  BY <1>3 DEF Waiting, Ended
<1>5. StepOf(p)
  BY DEF StepOf, Control
<1> QED
  BY <1>2, <1>3, <1>4, <1>5, NothingSaid, CourseKeeps

LEMMA AnsweredCloseCourse ==
  ASSUME Inv, Rest, Wires, Wires', Course, NEW p \in Peers, AnsweredClose(p)
  PROVE  Course'
<1>1. /\ FirstRead(p) > 0 /\ calls[p][FirstRead(p)] = "close"
      /\ UNCHANGED <<state, promiseVars, remote, gathering>>
      /\ \/ signaling[p] = "closed" /\ signaling' = signaling /\ calls' = Set(calls, p, Others(p))
         \/ /\ signaling' = Set(signaling, p, "closed")
            /\ calls' = Set(calls, p, AskChanged(Others(p)))
  BY DEF AnsweredClose, Answered, NotClosing
<1>2. signaling'[p] = "closed" /\ (calls'[p] = Others(p) \/ calls'[p] = AskChanged(Others(p)))
  BY <1>1 DEF Set, Inv, Typed, CallsAllowed
<1>3. state[p] # "WAITING"
  BY <1>1, QueuePasses DEF Course, Waiting, Early
<1>4. ASSUME state[Other(p)] = "WAITING" PROVE calls'[p] \in Seq(Unasked)
  <2>1. Others(p) \in Seq(Unasked)
    BY <1>1, <1>4, NothingSaid, QueuePasses
  <2> QED
    BY <1>2, <2>1, UnaskedCalls, AskIn
<1>5. StepOf(p)
  BY DEF StepOf, Answer
<1> QED
  BY <1>1, <1>2, <1>3, <1>4, <1>5, StepKeeps DEF promiseVars

LEMMA AnsweredChangeCourse ==
  ASSUME Inv, Rest, Wires, Wires', Course, NEW p \in Peers, AnsweredChange(p)
  PROVE  Course'
<1>1. /\ FirstRead(p) > 0 /\ calls[p][FirstRead(p)] = "change"
      /\ UNCHANGED <<remote, gathering, signaling>>
      /\ \/ Closing(p) /\ calls' = Set(calls, p, AskToClose(p, Others(p)))
         \/ UNCHANGED <<state, promiseVars>> /\ calls' = Set(calls, p, Others(p))
  BY DEF AnsweredChange, Answered, NotClosing, browserVars
<1>2. StepOf(p)
  BY DEF StepOf, Answer
<1>3. Passes(p, Others(p))
  BY <1>1, QueuePasses
<1>4. state[p] # "WAITING"
  BY <1>1, QueuePasses DEF Course, Waiting, Early
<1>5. CASE Closing(p) /\ calls' = Set(calls, p, AskToClose(p, Others(p)))
  <2>1. Others(p) \in Seq(Operations \cup Reads) /\ "close" \in Operations \cup Reads
                                                 /\ "change" \in Operations \cup Reads
    BY <1>3 DEF Passes, Reads
  <2>2. /\ AskToClose(p, Others(p)) \o <<>> = AskToClose(p, Others(p))
        /\ <<>> \in Seq({"addCandidate"})
    BY <2>1, AskIn, EmptySeq, ConcatEmptySeq
  <2> QED
    BY <1>1, <1>2, <1>3, <1>5, <2>2, ClosingKeeps
<1>6. CASE UNCHANGED <<state, promiseVars>> /\ calls' = Set(calls, p, Others(p))
  <2>1. calls'[p] = Others(p)
    BY <1>6 DEF Set, Inv, CallsAllowed
  <2>2. state[Other(p)] = "WAITING" => calls[p] \in Seq(Unasked)
    BY NothingSaid
  <2> QED
    BY <1>1, <1>2, <1>3, <1>4, <1>6, <2>1, <2>2, StepKeeps DEF promiseVars, Passes
<1> QED
  BY <1>1, <1>5, <1>6

LEMMA AnsweredTieCourse ==
  ASSUME Inv, Rest, Wires, Wires', Course, NEW p \in Peers, AnsweredTie(p)
  PROVE  Course'
<1>1. /\ FirstRead(p) > 0 /\ calls[p][FirstRead(p)] = "tie"
      /\ UNCHANGED <<remote, gathering, signaling>>
      /\ RefuseOffer(p) \/ AcceptOffer(p)
  BY DEF AnsweredTie, Answered, browserVars
<1>2. StepOf(p)
  BY DEF StepOf, Answer
<1>3. Passes(p, Others(p))
  BY <1>1, QueuePasses
<1>4. state[Other(p)] # "WAITING"
  BY <1>1, NothingSaid, QueuePasses DEF Unasked, Answering
<1>5. CASE RefuseOffer(p)
  <2>1. Closing(p) /\ calls' = Set(calls, p, AskToClose(p, Others(p)) \o AddHeld(p))
    BY <1>5 DEF RefuseOffer
  <2>2. AddHeld(p) \in Seq({"addCandidate"})
    BY HeldIn DEF Inv, Typed
  <2> QED
    BY <1>1, <1>2, <1>3, <2>1, <2>2, ClosingKeeps
<1>6. CASE AcceptOffer(p)
  <2>1. /\ state'[p] = "CONNECTING" /\ UNCHANGED promiseVars
        /\ calls'[p] = Append(Others(p), "setRemoteOffer")
    BY <1>6 DEF AcceptOffer, Set, Rest, Inv, CallsAllowed
  <2>2. Others(p) \in Seq(Operations \cup Reads) /\ "setRemoteOffer" \in Operations \cup Reads
    BY <1>3 DEF Passes, Operations
  <2>3. Blocked(calls[p]) => Blocked(calls'[p])
    BY <1>3, <2>1, <2>2, BlockedAppend DEF Passes
  <2> QED
    BY <1>1, <1>2, <1>4, <2>1, <2>3, StepKeeps DEF promiseVars
<1> QED
  BY <1>1, <1>5, <1>6

\* An operation of the browser other than to create the channel is not done for a peer
\* that waits, nor for one that closed while it waited.
LEMMA NotLate ==
  ASSUME Inv, Course, NEW p \in Peers, NEW op \in Operations \ {"createChannel"}, Does(p, op)
  PROVE  ~Late(p) /\ state[p] # "WAITING"
<1>1. calls[p] # <<>> /\ Head(calls[p]) = op /\ calls[p] \in Seq(Operations \cup Reads)
  BY DEF Does, Inv, CallsAllowed
<1>2. state[p] # "WAITING"
  BY <1>1, NothingSaid DEF Early, Operations
<1>3. ASSUME Late(p) PROVE FALSE
  <2>1. ~remote[p] /\ (signaling[p] = "closed" \/ Blocked(calls[p]))
    BY <1>3 DEF Course, Ended, Late
  <2>2. ~Blocked(calls[p])
    BY <1>1, BlockedTail DEF Operations, Reads
  <2> QED
    BY <2>1, <2>2 DEF Does, Able, Operations
<1> QED
  BY <1>2, <1>3

\* Such an operation is done, and others follow it.
LEMMA DoneCourse ==
  ASSUME Inv, Rest, Wires, Wires', Course, NEW p \in Peers, StepOf(p),
         NEW op \in Operations \ {"createChannel"}, Does(p, op),
         UNCHANGED <<state, promiseVars>>,
         NEW more \in Seq(Operations \cup Reads), op \notin Answering => more \in Seq(Unasked),
         \/ calls' = Set(calls, p, Tail(calls[p]) \o more)
         \/ calls' = Set(calls, p, AskChanged(Tail(calls[p])) \o more)
  PROVE  Course'
<1>1. ~Late(p) /\ state[p] # "WAITING"
  BY NotLate
<1>2. /\ calls[p] # <<>> /\ Head(calls[p]) = op
      /\ \/ calls'[p] = Tail(calls[p]) \o more
         \/ calls'[p] = AskChanged(Tail(calls[p])) \o more
  BY DEF Does, Set, Inv, CallsAllowed
<1>3. ASSUME state[Other(p)] = "WAITING" PROVE calls'[p] \in Seq(Unasked)
  <2>1. calls[p] \in Seq(Unasked) /\ op \in Unasked
    BY <1>2, <1>3, NothingSaid
  <2>2. Tail(calls[p]) \in Seq(Unasked) /\ more \in Seq(Unasked)
    BY <1>2, <2>1, HeadTailProperties DEF Unasked
  <2>3. AskChanged(Tail(calls[p])) \in Seq(Unasked)
    BY <2>2, UnaskedCalls, AskIn
  <2> QED
    BY <1>2, <2>2, <2>3, ConcatProperties
<1> QED
  BY <1>1, <1>3, StepKeeps DEF promiseVars

LEMMA OperationCourse ==
  ASSUME Inv, Rest, Wires, Wires', Course, NEW p \in Peers, Operation(p)
  PROVE  Course'
<1>1. StepOf(p)
  BY DEF StepOf
<1>2. CASE ChannelCreated(p)
  <2>1. /\ calls[p] # <<>> /\ Head(calls[p]) = "createChannel"
        /\ calls' = Set(calls, p, Tail(calls[p]) \o <<>>)
        /\ UNCHANGED <<state, promiseVars, remote, gathering, signaling>>
    BY <1>2 DEF ChannelCreated, Does, Then, NotClosing
  <2>2. Passes(p, Tail(calls[p]))
    BY <2>1, QueuePasses
  <2>3. calls'[p] = Tail(calls[p])
    BY <2>1, <2>2, ConcatEmptySeq DEF Set, Inv, CallsAllowed, Passes
  <2>4. /\ state[p] = "WAITING" => calls[p] \in Seq(Early)
        /\ state[Other(p)] = "WAITING" => calls[p] \in Seq(Unasked)
    BY NothingSaid DEF Course, Waiting
  <2> QED
    BY <1>1, <2>1, <2>2, <2>3, <2>4, StepKeeps DEF promiseVars, Passes
<1>3. CASE OfferCreated(p) \/ AnswerCreated(p)
  <2>1. /\ UNCHANGED <<state, promiseVars>>
        /\ \/ Does(p, "createOffer") /\ calls' = Set(calls, p, Tail(calls[p]) \o <<"setLocalOffer">>)
           \/ Does(p, "createAnswer") /\ calls' = Set(calls, p, Tail(calls[p]) \o <<"setLocalAnswer">>)
    BY <1>3 DEF OfferCreated, AnswerCreated, Then, NotClosing
  <2>2. /\ "setLocalOffer" \in Operations \cup Reads /\ "setLocalAnswer" \in Operations \cup Reads
        /\ "setLocalOffer" \in Unasked /\ "createAnswer" \in Answering
        /\ {"createOffer", "createAnswer"} \subseteq Operations \ {"createChannel"}
    BY UnaskedCalls DEF Operations, Answering
  <2>3. /\ <<"setLocalOffer">> \in Seq(Operations \cup Reads) /\ <<"setLocalOffer">> \in Seq(Unasked)
        /\ <<"setLocalAnswer">> \in Seq(Operations \cup Reads)
    BY <2>2
  <2> QED
    BY <1>1, <2>1, <2>2, <2>3, DoneCourse
<1>4. CASE LocalOfferSet(p) \/ RemoteOfferSet(p) \/ CandidateAdded(p)
  <2>1. /\ UNCHANGED <<state, promiseVars>>
        /\ \/ /\ Does(p, "setLocalOffer") \/ Does(p, "addCandidate")
              /\ \/ calls' = Set(calls, p, Tail(calls[p]) \o <<>>)
                 \/ calls' = Set(calls, p, AskChanged(Tail(calls[p])) \o <<>>)
           \/ /\ Does(p, "setRemoteOffer")
              /\ calls' = Set(calls, p, AskChanged(Tail(calls[p])) \o <<"createAnswer">>)
    BY <1>4 DEF LocalOfferSet, RemoteOfferSet, CandidateAdded, Then, Becomes, NotClosing
  <2>2. /\ "createAnswer" \in Operations \cup Reads /\ "setRemoteOffer" \in Answering
        /\ {"setLocalOffer", "addCandidate", "setRemoteOffer"} \subseteq
             Operations \ {"createChannel"}
    BY DEF Operations, Answering
  <2>3. /\ <<"createAnswer">> \in Seq(Operations \cup Reads)
        /\ <<>> \in Seq(Operations \cup Reads) /\ <<>> \in Seq(Unasked)
    BY <2>2, EmptySeq
  <2> QED
    BY <1>1, <2>1, <2>2, <2>3, DoneCourse
<1>5. CASE LocalAnswerSet(p) \/ RemoteAnswerSet(p)
  <2>1. /\ UNCHANGED <<state, promiseVars>>
        /\ Does(p, "setLocalAnswer") \/ Does(p, "setRemoteAnswer")
        /\ calls' = Set(calls, p, AskChanged(Tail(calls[p])) \o AddHeld(p))
    BY <1>5 DEF LocalAnswerSet, RemoteAnswerSet, Becomes, NotClosing
  <2>2. AddHeld(p) \in Seq(Operations \cup Reads) /\ AddHeld(p) \in Seq(Unasked)
    BY HeldIn, UnaskedCalls DEF Operations, Inv, Typed
  <2>3. {"setLocalAnswer", "setRemoteAnswer"} \subseteq Operations \ {"createChannel"}
    BY DEF Operations
  <2> QED
    BY <1>1, <2>1, <2>2, <2>3, DoneCourse
<1> QED
  BY <1>2, <1>3, <1>4, <1>5 DEF Operation

LEMMA FailsCourse ==
  ASSUME Inv, Rest, Wires, Wires', Course, NEW p \in Peers, OperationFails(p)
  PROVE  Course'
<1> DEFINE op == Head(calls[p])
<1>1. /\ calls[p] # <<>> /\ op \in Operations
      /\ UNCHANGED <<remote, gathering, signaling>>
      /\ op \in Fatal => Closing(p)
      /\ op \notin Fatal => UNCHANGED <<state, promiseVars>>
      /\ calls' = Set(calls, p, (IF op \in Fatal THEN AskToClose(p, Tail(calls[p])) ELSE Tail(calls[p]))
                                  \o (IF op \in Settling THEN AddHeld(p) ELSE <<>>))
  BY DEF OperationFails, NotClosing, browserVars
<1>2. StepOf(p)
  BY DEF StepOf
<1>3. Passes(p, Tail(calls[p]))
  BY <1>1, QueuePasses DEF Operations
<1>4. CASE op \in Fatal
  <2>1. PICK more \in Seq({"addCandidate"}) : more = IF op \in Settling THEN AddHeld(p) ELSE <<>>
    BY HeldIn, EmptySeq DEF Inv, Typed
  <2>2. calls' = Set(calls, p, AskToClose(p, Tail(calls[p])) \o more)
    BY <1>1, <1>4, <2>1
  <2> QED
    BY <1>1, <1>2, <1>3, <1>4, <2>2, ClosingKeeps
<1>5. CASE op \notin Fatal
  <2>1. op \notin Settling
    BY <1>5 DEF Settling, Fatal, Operations
  <2>2. calls'[p] = Tail(calls[p]) \o <<>>
    BY <1>1, <1>5, <2>1 DEF Set, Inv, CallsAllowed
  <2>3. calls'[p] = Tail(calls[p])
    BY <1>3, <2>2, ConcatEmptySeq DEF Passes
  <2>4. /\ state[p] = "WAITING" => calls[p] \in Seq(Early)
        /\ state[Other(p)] = "WAITING" => calls[p] \in Seq(Unasked)
    BY NothingSaid DEF Course, Waiting
  <2> QED
    BY <1>1, <1>2, <1>3, <1>5, <2>3, <2>4, StepKeeps DEF promiseVars, Passes
<1> QED
  BY <1>4, <1>5

LEMMA CourseInit == Init => Course
<1> SUFFICES ASSUME Init PROVE Course
  OBVIOUS
<1>1. \A p \in Peers : calls[p] = <<>> /\ wire[p] = <<>>
  BY DEF Init
<1>2. ASSUME NEW p \in Peers PROVE Waiting(p) /\ Ended(p)
  BY <1>1, OtherPeer, EmptySeq DEF Init, Waiting, Ended
<1>3. Linked
  BY DEF Init, Linked
<1> QED
  BY <1>2, <1>3 DEF Course

LEMMA CourseStep ==
  ASSUME Inv, Rest, Wires, Course, [Next]_vars
  PROVE  Course'
<1>1. Wires'
  BY WiresStep
<1>2. ASSUME NEW p \in Peers, User(p) \/ Signal(p) \/ Answer(p) PROVE Course'
  BY <1>1, <1>2, CloseCourse, CallsCourse, CandidateCourse, AnsweredCloseCourse,
     AnsweredChangeCourse, AnsweredTieCourse DEF User, Signal, Answer
<1>3. ASSUME NEW p \in Peers, Operation(p) \/ OperationFails(p) PROVE Course'
  BY <1>1, <1>3, OperationCourse, FailsCourse
<1>4. ASSUME NEW p \in Peers,
             \/ NegotiationNeeded(p) \/ IceCandidate(p) \/ IceFails(p) \/ HeartbeatTimeout(p)
      PROVE  Course'
  BY <1>1, <1>4, CallsCourse, EventsCourse, CloseCourse
<1>5. ASSUME NEW p \in Peers, ChannelOpens(p) \/ ChannelLost(p) \/ Control(p) PROVE Course'
  BY <1>1, <1>5, EventsCourse, OpenedCourse, CloseCourse DEF Control
<1>6. CASE LinkUp \/ LinkBreaks \/ UNCHANGED vars
  <2>1. /\ UNCHANGED <<state, promiseVars, calls, remote, gathering, signaling, channel, wire>>
        /\ \/ link' = link
           \/ link' = "up" /\ \A p \in Peers : remote[p]
           \/ link = "up" /\ link' = "broken"
    BY <1>6 DEF LinkUp, LinkBreaks, vars, NotClosing, Silent, browserVars
  <2>2. Linked'
    BY <2>1 DEF Course, Linked
  <2>3. ASSUME NEW p \in Peers PROVE Waiting(p)' /\ Ended(p)'
    BY <2>1 DEF Course, Waiting, Ended, promiseVars
  <2> QED
    BY <2>2, <2>3 DEF Course
<1> QED
  BY <1>2, <1>3, <1>4, <1>5, <1>6 DEF Next

\* Only the control channel's opening fulfils a promise to connect.
LEMMA OnlyOpened ==
  ASSUME Inv, Rest, NEW r \in Peers, StepOf(r), NEW p \in Peers, onceConnected'[p] = "fulfilled",
         onceConnected[p] # "fulfilled"
  PROVE  p = r /\ ControlOpened(p) /\ onceConnected[p] = "pending"
<1>1. p = r
  BY OthersSame
<1>2. ASSUME NotClosing \/ Closing(r) \/ UNCHANGED promiseVars PROVE FALSE
  BY <1>1, <1>2 DEF NotClosing, Closing, promiseVars, Set, Rest
<1>3. ~User(r) /\ ~Signal(r) /\ ~Answer(r)
  BY <1>2 DEF User, Signal, Answer, NegotiateConnection, Close, HandleOffer, HandleAnswer,
     HandleCandidate, AnsweredClose, AnsweredChange, AnsweredTie, RefuseOffer, AcceptOffer
<1>4. ~Operation(r) /\ ~OperationFails(r)
  BY <1>2 DEF Operation, ChannelCreated, OfferCreated, LocalOfferSet, RemoteOfferSet,
     AnswerCreated, LocalAnswerSet, RemoteAnswerSet, CandidateAdded, OperationFails
<1>5. /\ ~NegotiationNeeded(r) /\ ~IceCandidate(r) /\ ~IceFails(r) /\ ~HeartbeatTimeout(r)
      /\ ~ChannelOpens(r) /\ ~ChannelLost(r) /\ ~ChannelRegistered(r) /\ ~ControlClosed(r)
  BY <1>2 DEF NegotiationNeeded, IceCandidate, IceFails, HeartbeatTimeout, ChannelOpens,
     ChannelLost, ChannelRegistered, ControlClosed
<1>6. ControlOpened(r)
  BY <1>3, <1>4, <1>5 DEF StepOf, Control
<1> QED
  BY <1>1, <1>6 DEF ControlOpened, Set, Rest

\* However late the events of the browser are, and whatever is closed, fails or ties: a
\* user who has been told that a connection has closed is not told later that it is
\* established.
THEOREM NeverConnectedAfterClose == Spec => NoConnectionAfterClose
<1> DEFINE I == Inv /\ Rest /\ Wires /\ Course
           A == \A p \in Peers : onceClosed[p] /\ onceConnected'[p] = "fulfilled" =>
                                   onceConnected[p] = "fulfilled"
<1>1. Init => I
  BY InvInit, WiresInit, CourseInit DEF Init, Rest
<1>2. I /\ [Next]_vars => I'
  BY InvStep, RestStep, WiresStep, CourseStep
<1>3. I /\ [Next]_vars => [A]_vars
  <2> SUFFICES ASSUME I, Next, NEW p \in Peers, onceClosed[p], onceConnected'[p] = "fulfilled",
                      onceConnected[p] # "fulfilled"
               PROVE  FALSE
    OBVIOUS
  <2>1. Wires'
    BY WiresStep
  <2>2. ASSUME NEW r \in Peers, StepOf(r) PROVE FALSE
    BY <2>1, <2>2, OnlyOpened, OpenedCourse DEF Late
  <2>3. ~(LinkUp \/ LinkBreaks)
    BY DEF LinkUp, LinkBreaks, NotClosing, promiseVars
  <2> QED
    BY <2>2, <2>3 DEF Next, StepOf
<1> QED
  BY <1>1, <1>2, <1>3, PTL DEF Spec, NoConnectionAfterClose
=============================================================================
