------------------------- MODULE DataChannelProofs -------------------------
(* Proofs about DataChannel, for any limits, sizes and numbers of calls:   *)
(* the channel is reliable and ordered, and one pump runs while it is open.*)
EXTENDS DataChannel, SequenceTheorems, WellFoundedInduction, TLAPS

\* A chunk as send() makes it: one of a buffer is not empty and within CHUNK_SIZE.
Item == {c \in Chunk : c.str \/ c.size \in 1..CHUNK_SIZE}

Typed ==
  /\ accepted \in Seq(Item) /\ received \in Seq(Item)
  /\ browser \in Seq(Item) /\ queue \in Seq(Item)
  /\ armed \in BOOLEAN

\* Nothing is passed on before the channel opens.
Lifecycle ==
  /\ ready \in {"connecting", "open", "closed"}
  /\ ready = "connecting" => ~armed /\ poll = "idle"
  /\ onceClosed <=> ready = "closed"
  /\ onceClosed \in BOOLEAN

\* What the browser holds comes next after what was received ...
BrowserNext == \E rest \in Seq(Item) : accepted = (received \o browser) \o rest

\* ... and the queue, while no close is under way, has all the rest.
QueueNext == ready # "closed" /\ ~closing => accepted = (received \o browser) \o queue

ChannelInv == Typed /\ Lifecycle /\ BrowserNext /\ QueueNext /\ OnePump

-----------------------------------------------------------------------------
\* A non-empty set of natural numbers has a least element.
LEMMA Least ==
  ASSUME NEW T \in SUBSET Nat, T # {}
  PROVE  \E n \in T : \A m \in T : n <= m
<1>1. PICK n \in T : \A m \in T : ~(<<m, n>> \in OpToRel(<, Nat))
  BY NatLessThanWellFounded, WFMin
<1>2. \A m \in T : ~(m < n)
  BY <1>1 DEF OpToRel
<1> QED
  BY <1>2

\* The loop of sendNext_ goes on only while canSendMore_ is true, and ends with the queue
\* empty or canSendMore_ false.
LEMMA PassedStops ==
  ASSUME NEW open, NEW amount, NEW q \in Seq(Item), NEW k \in 0..Len(q)
  PROVE  LET n == Passed(open, amount, q, k)
         IN  /\ n \in k..Len(q)
             /\ CanSendMore(open, amount + BufferBytes(SubSeq(q, 1, n)))
                  => n = Len(q)
             /\ \A m \in k..n :
                  m < n => CanSendMore(open, amount + BufferBytes(SubSeq(q, 1, m)))
<1> DEFINE More(m) == /\ m < Len(q)
                      /\ CanSendMore(open, amount + BufferBytes(SubSeq(q, 1, m)))
           Stops == {m \in k..Len(q) : ~More(m)}
           Is(n) == \A m \in k..n : (m < n) <=> More(m)
<1>0. Len(q) \in Nat /\ k \in Nat
  OBVIOUS
<1>1. Len(q) \in Stops /\ Stops \in SUBSET Nat
  BY <1>0
<1>2. PICK n \in Stops : \A m \in Stops : n <= m
  <2> HIDE DEF Stops
  <2> QED
    BY <1>1, Least
<1>3. n \in k..Len(q) /\ ~More(n)
  BY <1>2
<1>4. Is(n)
  <2> SUFFICES ASSUME NEW m \in k..n
               PROVE  (m < n) <=> More(m)
    OBVIOUS
  <2>1. CASE m = n
    BY <2>1, <1>3, <1>0
  <2>2. CASE m < n
    <3>1. m \notin Stops
      <4> HIDE DEF Stops
      <4> QED
        BY <1>2, <2>2, <1>1, <1>3, <1>0
    <3> HIDE DEF More
    <3> QED
      BY <3>1, <2>2, <1>3, <1>0
  <2> QED
    BY <2>1, <2>2, <1>3, <1>0
<1>5. Passed(open, amount, q, k) = CHOOSE x \in k..Len(q) : Is(x)
  BY DEF Passed
<1>6. Passed(open, amount, q, k) \in k..Len(q) /\ Is(Passed(open, amount, q, k))
  <2> HIDE DEF Is
  <2> QED
    BY <1>3, <1>4, <1>5
<1>7. \A p \in k..Len(q) : Is(p) => ~More(p) /\ \A m \in k..p : m < p => More(m)
  <2> HIDE DEF More
  <2> QED
    BY <1>0
<1> QED
  BY <1>6, <1>7, <1>0

-----------------------------------------------------------------------------
LEMMA Assoc == \A s, t, u \in Seq(Item) : (s \o t) \o u = s \o (t \o u)
  BY ConcatAssociative

\* A sequence cut in two after n elements.
LEMMA Cut ==
  ASSUME NEW q \in Seq(Item), NEW n \in 0..Len(q)
  PROVE  /\ SubSeq(q, 1, n) \in Seq(Item) /\ SubSeq(q, n + 1, Len(q)) \in Seq(Item)
         /\ SubSeq(q, 1, n) \o SubSeq(q, n + 1, Len(q)) = q
<1>0. Len(q) \in Nat /\ n \in Nat /\ \A i \in 1..Len(q) : q[i] \in Item
  BY ElementOfSeq
<1>1. SubSeq(q, 1, n) \in Seq(Item)
  BY <1>0, SubSeqProperties
<1>2. SubSeq(q, n + 1, Len(q)) \in Seq(Item)
  BY <1>0, SubSeqProperties
<1>3. SubSeq(q, 1, n) \o SubSeq(q, n + 1, Len(q)) = SubSeq(q, 1, Len(q))
  <2>1. 1 \in 1..Len(q) + 1 /\ n \in 1 - 1..Len(q) /\ Len(q) \in n..Len(q)
    BY <1>0
  <2> QED
    BY <2>1, ConcatAdjacentSubSeq, Zenon
<1> QED
  BY <1>1, <1>2, <1>3, SubSeqFull

\* What one run of sendNext_ does to the sequences and to the pump.
Moved(added, n) ==
  /\ queue' = SubSeq(queue \o added, n + 1, Len(queue \o added))
  /\ browser' = IF ready' = "open" /\ ~closing
                  THEN browser \o SubSeq(queue \o added, 1, n) ELSE browser

LEMMA SendNextMoves ==
  ASSUME NEW open, NEW amount, NEW added \in Seq(Item), queue \in Seq(Item),
         NEW k \in 0..Len(queue \o added),
         SendNext(open, amount, added, k)
  PROVE  /\ \E n \in 0..Len(queue \o added) : Moved(added, n)
         /\ armed' \in BOOLEAN
         /\ armed' <=> poll' = "idle"
         /\ armed' => queue' = <<>>
<1> DEFINE q == queue \o added
           n == Passed(open, amount, q, k)
<1>1. q \in Seq(Item) /\ Len(q) \in Nat
  BY ConcatProperties
<1>2. /\ n \in 0..Len(q)
      /\ CanSendMore(open, amount + BufferBytes(SubSeq(q, 1, n))) => n = Len(q)
  <2>1. /\ n \in k..Len(q)
        /\ CanSendMore(open, amount + BufferBytes(SubSeq(q, 1, n))) => n = Len(q)
    BY <1>1, PassedStops
  <2> HIDE DEF n
  <2>2. n \in 0..Len(q)
    BY <1>1, <2>1
  <2> QED
    BY <2>1, <2>2
<1>3. /\ queue' = SubSeq(q, n + 1, Len(q))
      /\ last' = amount + BufferBytes(SubSeq(q, 1, n))
      /\ browser' = IF ready' = "open" /\ ~closing
                      THEN browser \o SubSeq(q, 1, n) ELSE browser
  BY DEF SendNext, Unhandled
<1>4. \/ CanSendMore(open, last') /\ armed' = TRUE /\ poll' = "idle"
      \/ armed' = FALSE /\ poll' = "asked"
  BY DEF SendNext, AwaitClear
<1>5. Moved(added, n)
  BY <1>3 DEF Moved
<1> HIDE DEF n
<1>6. CanSendMore(open, last') => queue' = <<>>
  BY <1>1, <1>2, <1>3, SubSeqEmpty
<1> QED
  BY <1>2, <1>4, <1>5, <1>6

\* A run of sendNext_ keeps the order.
LEMMA MovedInOrder ==
  ASSUME Typed, BrowserNext, QueueNext,
         NEW added \in Seq(Item), NEW n \in 0..Len(queue \o added),
         Moved(added, n),
         accepted' = accepted \o added, received' = received, closing' = closing,
         ready' \in {"open", "closed"}, ready' = "open" => ready # "closed"
  PROVE  /\ accepted' \in Seq(Item) /\ received' \in Seq(Item)
         /\ browser' \in Seq(Item) /\ queue' \in Seq(Item)
         /\ BrowserNext' /\ QueueNext'
<1>1. /\ accepted \in Seq(Item) /\ received \in Seq(Item)
      /\ browser \in Seq(Item) /\ queue \in Seq(Item)
      /\ received \o browser \in Seq(Item)
  BY ConcatProperties DEF Typed
<1>2. queue \o added \in Seq(Item) /\ accepted \o added \in Seq(Item)
  BY <1>1, ConcatProperties
<1>3. PICK front \in Seq(Item), back \in Seq(Item) :
        /\ front = SubSeq(queue \o added, 1, n)
        /\ back = SubSeq(queue \o added, n + 1, Len(queue \o added))
        /\ front \o back = queue \o added
  BY <1>2, Cut
<1>4. PICK x \in Seq(Item) : x = received \o browser
  BY <1>1
<1>5. queue' = back /\ browser' \in {browser, browser \o front}
  BY <1>3 DEF Moved
<1>6. CASE ready' = "open" /\ ~closing
  <2>1. browser' = browser \o front
    BY <1>6, <1>3 DEF Moved
  <2>2. accepted = x \o queue
    BY <1>4, <1>6 DEF QueueNext
  <2>3. (x \o queue) \o added = x \o (queue \o added)
    BY <1>1, Assoc
  <2>4. (x \o front) \o back = x \o (front \o back)
    BY Assoc
  <2>5. (received \o browser) \o front = received \o (browser \o front)
    <3>1. \A u \in Seq(Item) : (received \o browser) \o u = received \o (browser \o u)
      BY <1>1, Assoc, Zenon
    <3>2. front \in Seq(Item)
      OBVIOUS
    <3> QED
      BY <3>1, <3>2, Zenon
  <2>6. accepted' = (received' \o browser') \o queue'
    <3>1. accepted' = (x \o front) \o back
      BY <2>2, <2>3, <2>4, <1>3, Zenon
    <3>2. x \o front = received' \o browser'
      BY <2>1, <2>5, <1>4, Zenon
    <3> QED
      BY <3>1, <3>2, <1>5, Zenon
  <2>7. browser' \in Seq(Item)
    BY <2>1, <1>1, ConcatProperties
  <2>8. back \in Seq(Item)
    OBVIOUS
  <2>9. BrowserNext' /\ QueueNext'
    BY <2>6, <2>8, <1>5 DEF BrowserNext, QueueNext
  <2> QED
    BY <2>7, <2>9, <1>1, <1>2, <1>5
<1>7. CASE ~(ready' = "open" /\ ~closing)
  <2>1. browser' = browser
    BY <1>7 DEF Moved
  <2>2. QueueNext'
    BY <1>7 DEF QueueNext
  <2>3. PICK rest \in Seq(Item) : accepted = x \o rest
    BY <1>4 DEF BrowserNext
  <2>4. rest \o added \in Seq(Item)
    BY ConcatProperties
  <2>5. (x \o rest) \o added = x \o (rest \o added)
    BY Assoc
  <2>6. accepted' = (received' \o browser') \o (rest \o added)
    BY <2>1, <2>3, <2>5, <1>4, Zenon
  <2>7. BrowserNext'
    BY <2>4, <2>6, Zenon DEF BrowserNext
  <2> QED
    BY <2>1, <2>2, <2>7, <1>1, <1>2, <1>5
<1> QED
  BY <1>6, <1>7

-----------------------------------------------------------------------------
(* The steps.  Each keeps the invariant and is a step of OrderedChannel.   *)

ChannelStep == [Channel!Next]_<<accepted, received, onceClosed>>

\* A step that leaves the sequences, and what the pump depends on, alone.
LEMMA NothingMoves ==
  ASSUME ChannelInv,
         UNCHANGED <<accepted, received, browser, queue, armed, ready, onceClosed, isOpen>>,
         closing => closing',
         poll' = "idle" <=> poll = "idle"
  PROVE  ChannelInv' /\ ChannelStep
<1>1. Typed' /\ BrowserNext'
  BY DEF ChannelInv, Typed, BrowserNext
<1>2. Lifecycle'
  BY DEF ChannelInv, Lifecycle
<1>3. QueueNext'
  BY DEF ChannelInv, QueueNext
<1>4. OnePump'
  BY DEF ChannelInv, OnePump
<1> QED
  BY <1>1, <1>2, <1>3, <1>4 DEF ChannelInv, ChannelStep

\* A step that runs sendNext_.
LEMMA SendNextStep ==
  ASSUME ChannelInv, NEW open, NEW amount, NEW added \in Seq(Item),
         NEW k \in 0..Len(queue \o added), SendNext(open, amount, added, k),
         accepted' = accepted \o added,
         received' = received, closing' = closing, onceClosed' = onceClosed,
         \/ ready' = ready /\ ready # "connecting"
         \/ ready' = "open" /\ ready = "connecting"
  PROVE  ChannelInv'
<1>1. /\ Typed /\ Lifecycle /\ BrowserNext /\ QueueNext
      /\ queue \in Seq(Item)
  BY DEF ChannelInv, Typed
<1>2. /\ armed' \in BOOLEAN
      /\ armed' <=> poll' = "idle"
      /\ armed' => queue' = <<>>
  BY <1>1, SendNextMoves
<1>3. PICK n \in 0..Len(queue \o added) : Moved(added, n)
  BY <1>1, SendNextMoves
<1>4. /\ ready' \in {"open", "closed"}
      /\ ready' = "open" => ready # "closed"
      /\ Lifecycle'
  BY <1>1 DEF Lifecycle
<1>5. /\ accepted' \in Seq(Item) /\ received' \in Seq(Item)
      /\ browser' \in Seq(Item) /\ queue' \in Seq(Item)
      /\ BrowserNext' /\ QueueNext'
  BY <1>1, <1>3, <1>4, MovedInOrder
<1>6. Typed' /\ OnePump'
  BY <1>2, <1>5 DEF Typed, OnePump
<1> QED
  BY <1>4, <1>5, <1>6 DEF ChannelInv

\* A buffer is cut in chunks of CHUNK_SIZE and a rest that is not empty.
LEMMA Pieces ==
  ASSUME NEW C \in Nat \ {0}, NEW size \in Nat
  PROVE  LET n == (size + C - 1) \div C
         IN  n \in Nat /\ (n # 0 => size - (n - 1) * C \in 1..C)
<1> DEFINE n == (size + C - 1) \div C
           a == size + C - 1
<1>1. a \in Nat /\ C \in Nat /\ C > 0
  OBVIOUS
<1>2. n = a \div C
  OBVIOUS
<1>3. n \in Nat /\ C * n <= a /\ a < C * n + C
  <2> HIDE DEF a, n
  <2>1. a = C * (a \div C) + (a % C) /\ a % C \in 0..(C - 1) /\ a \div C \in Nat
    BY <1>1, Z3
  <2> QED
    BY <1>1, <1>2, <2>1
<1>4. (n - 1) * C = C * n - C /\ C * n \in Int
  <2> HIDE DEF n
  <2> QED
    BY <1>3
<1> HIDE DEF n
<1>5. size - (n - 1) * C \in 1..C
  BY <1>3, <1>4
<1> QED
  BY <1>3, <1>5 DEF n

LEMMA ChunksTyped ==
  ASSUME NEW str \in BOOLEAN, NEW size \in Nat, accepted \in Seq(Item)
  PROVE  Chunks(str, size) \in Seq(Item)
<1> DEFINE n == IF str THEN 1 ELSE (size + CHUNK_SIZE - 1) \div CHUNK_SIZE
           f == [i \in 1..n |->
                  [id |-> Len(accepted) + i, str |-> str,
                   size |-> IF str THEN size
                            ELSE IF i < n THEN CHUNK_SIZE
                            ELSE size - (n - 1) * CHUNK_SIZE]]
<1>1. CHUNK_SIZE \in Nat /\ CHUNK_SIZE > 0 /\ Len(accepted) \in Nat
  BY DataChannelAssumption
<1>2. n \in Nat /\ (~str => \A i \in 1..n : i = n => size - (n - 1) * CHUNK_SIZE \in 1..CHUNK_SIZE)
  BY <1>1, Pieces
<1>3. Chunks(str, size) = f
  BY DEF Chunks
<1> HIDE DEF n
<1>4. ASSUME NEW i \in 1..n
      PROVE  f[i] \in Item
  <2>1. i \in Nat /\ (i < n \/ i = n)
    BY <1>2
  <2>2. CASE str
    BY <1>1, <2>1, <2>2 DEF Item, Chunk
  <2>3. CASE ~str /\ i < n
    BY <1>1, <2>1, <2>3 DEF Item, Chunk
  <2>4. CASE ~str /\ i = n
    <3>1. size - (n - 1) * CHUNK_SIZE \in 1..CHUNK_SIZE
      BY <1>2, <2>4
    <3>2. f[i] = [id |-> Len(accepted) + i, str |-> str, size |-> size - (n - 1) * CHUNK_SIZE]
      BY <2>1, <2>4
    <3>3. size - (n - 1) * CHUNK_SIZE \in Nat /\ Len(accepted) + i \in Nat
      BY <1>1, <2>1, <3>1
    <3> HIDE DEF f
    <3> QED
      BY <3>1, <3>2, <3>3 DEF Item, Chunk
  <2> QED
    BY <2>1, <2>2, <2>3, <2>4
<1>5. f \in [1..n -> Item]
  BY <1>4
<1> HIDE DEF f
<1> QED
  BY <1>2, <1>3, <1>5, SeqDef

LEMMA SendStep ==
  ASSUME ChannelInv, NEW str \in BOOLEAN, NEW size \in Nat, Send(str, size)
  PROVE  ChannelInv' /\ ChannelStep
<1> DEFINE chunks == Chunks(str, size)
<1>1. /\ accepted \in Seq(Item) /\ queue \in Seq(Item) /\ armed \in BOOLEAN
      /\ received \in Seq(Item) /\ browser \in Seq(Item)
  BY DEF ChannelInv, Typed
<1>2. chunks \in Seq(Item)
  BY <1>1, ChunksTyped
<1>3. /\ ready' = ready /\ closing' = closing /\ received' = received
      /\ isOpen' = isOpen /\ onceClosed' = onceClosed
      /\ accepted' = accepted \o chunks
  BY DEF Send, browserVars, openVars
<1>4. \/ armed /\ chunks # <<>> /\ SendNext(isOpen, last, chunks, 1)
      \/ /\ ~(armed /\ chunks # <<>>)
         /\ queue' = queue \o chunks
         /\ armed' = armed /\ browser' = browser /\ poll' = poll
  BY DEF Send
<1> HIDE DEF chunks
<1>5. ChannelStep
  <2>1. CASE chunks = <<>>
    <3>1. accepted' = accepted
      BY <2>1, <1>1, <1>3, ConcatEmptySeq
    <3> QED
      BY <3>1, <1>3 DEF ChannelStep
  <2>2. CASE chunks # <<>>
    <3>1. Len(accepted') > Len(accepted)
      <4>1. Len(chunks) \in Nat \ {0}
        BY <2>2, <1>2, EmptySeq
      <4>2. Len(accepted \o chunks) = Len(accepted) + Len(chunks)
        BY <1>1, <1>2, ConcatProperties
      <4> QED
        BY <4>1, <4>2, <1>1, <1>3
    <3>2. SubSeq(accepted', 1, Len(accepted)) = accepted
      <4>1. CASE Len(accepted) = 0
        BY <4>1, <1>1, SubSeqEmpty, EmptySeq
      <4>2. CASE Len(accepted) # 0
        BY <4>2, <1>1, <1>2, <1>3, SubSeqOfConcat1, SubSeqFull
      <4> QED
        BY <4>1, <4>2
    <3>3. Channel!Accept
      BY <3>1, <3>2, <1>3 DEF Channel!Accept
    <3> QED
      BY <3>3 DEF ChannelStep, Channel!Next
  <2> QED
    BY <2>1, <2>2
<1>6. CASE armed /\ chunks # <<>> /\ SendNext(isOpen, last, chunks, 1)
  <2>1. 1 \in 0..Len(queue \o chunks)
    <3>1. Len(chunks) \in Nat \ {0}
      BY <1>6, <1>2, EmptySeq
    <3>2. Len(queue \o chunks) = Len(queue) + Len(chunks)
      BY <1>1, <1>2, ConcatProperties
    <3> QED
      BY <3>1, <3>2, <1>1
  <2>2. ready # "connecting"
    BY <1>6 DEF ChannelInv, Lifecycle
  <2>3. ChannelInv'
    BY <2>1, <2>2, <1>2, <1>3, <1>6, SendNextStep
  <2> QED
    BY <2>3, <1>5
<1>7. CASE /\ ~(armed /\ chunks # <<>>)
           /\ queue' = queue \o chunks
           /\ armed' = armed /\ browser' = browser /\ poll' = poll
  <2>1. Typed'
    BY <1>1, <1>2, <1>3, <1>7, ConcatProperties DEF Typed
  <2>2. Lifecycle'
    BY <1>3, <1>7 DEF ChannelInv, Lifecycle
  <2>3. PICK x \in Seq(Item) : x = received \o browser
    BY <1>1, ConcatProperties
  <2>4. BrowserNext'
    <3>1. PICK rest \in Seq(Item) : accepted = x \o rest
      BY <2>3 DEF ChannelInv, BrowserNext
    <3>2. rest \o chunks \in Seq(Item) /\ (x \o rest) \o chunks = x \o (rest \o chunks)
      BY <1>2, Assoc, ConcatProperties
    <3>3. accepted' = (received' \o browser') \o (rest \o chunks)
      BY <3>1, <3>2, <2>3, <1>3, <1>7, Zenon
    <3> QED
      BY <3>2, <3>3, Zenon DEF BrowserNext
  <2>5. QueueNext'
    <3>1. SUFFICES ASSUME ready # "closed" /\ ~closing
                   PROVE  accepted' = (received' \o browser') \o queue'
      BY <1>3 DEF QueueNext
    <3>2. accepted = x \o queue
      BY <3>1, <2>3 DEF ChannelInv, QueueNext
    <3>3. (x \o queue) \o chunks = x \o (queue \o chunks)
      BY <1>1, <1>2, Assoc
    <3> QED
      BY <3>2, <3>3, <2>3, <1>3, <1>7, Zenon
  <2>6. OnePump'
    <3>1. chunks = <<>> => queue' = queue
      BY <1>1, <1>7, ConcatEmptySeq
    <3> QED
      BY <3>1, <1>3, <1>7 DEF ChannelInv, OnePump
  <2> QED
    BY <2>1, <2>2, <2>4, <2>5, <2>6, <1>5 DEF ChannelInv
<1> QED
  BY <1>4, <1>6, <1>7

\* Opened, the reaction to onceOpened.
LEMMA OpenedStep ==
  ASSUME ChannelInv, Opened, received' = received, closing' = closing,
         onceClosed' = onceClosed,
         \/ ready' = ready /\ ready # "connecting"
         \/ ready' = "open" /\ ready = "connecting"
  PROVE  ChannelInv' /\ ChannelStep
<1>1. /\ SendNext(TRUE, last, <<>>, 0)
      /\ accepted' = accepted
  BY DEF Opened
<1>2. /\ accepted \in Seq(Item) /\ queue \in Seq(Item) /\ <<>> \in Seq(Item)
      /\ accepted' = accepted \o <<>> /\ queue \o <<>> = queue
  BY <1>1, ConcatEmptySeq, EmptySeq DEF ChannelInv, Typed
<1>3. 0 \in 0..Len(queue \o <<>>)
  BY <1>2
<1>4. ChannelInv'
  BY <1>1, <1>2, <1>3, SendNextStep
<1> QED
  BY <1>1, <1>4 DEF ChannelStep

LEMMA GotReadyStateStep ==
  ASSUME ChannelInv, GotReadyState
  PROVE  ChannelInv' /\ ChannelStep
<1>1. /\ ready' = ready /\ closing' = closing /\ received' = received
      /\ onceClosed' = onceClosed
  BY DEF GotReadyState, browserVars
<1>2. CASE ready = "open"
  <2>1. Opened
    BY <1>2 DEF GotReadyState
  <2> QED
    BY <2>1, <1>1, <1>2, OpenedStep
<1>3. CASE ready # "open"
  <2>1. NotOpened
    BY <1>3 DEF GotReadyState
  <2>2. /\ UNCHANGED <<accepted, received, browser, queue, armed, ready, onceClosed, isOpen>>
        /\ poll' = poll /\ closing' = closing
    BY <2>1, <1>1 DEF NotOpened, sendVars, flowVars
  <2> QED
    BY <2>2, NothingMoves
<1> QED
  BY <1>2, <1>3

LEMMA BrowserOpensStep ==
  ASSUME ChannelInv, BrowserOpens
  PROVE  ChannelInv' /\ ChannelStep
<1>1. /\ ready = "connecting" /\ ready' = "open" /\ ~closing
      /\ closing' = closing /\ received' = received /\ onceClosed' = onceClosed
  BY DEF BrowserOpens
<1>2. CASE opening = "registered"
  <2>1. Opened
    BY <1>2 DEF BrowserOpens
  <2> QED
    BY <2>1, <1>1, OpenedStep
<1>3. CASE opening # "registered"
  <2>1. NotOpened
    BY <1>3 DEF BrowserOpens
  <2>2. UNCHANGED <<accepted, browser, queue, armed, isOpen, poll>>
    BY <2>1 DEF NotOpened, sendVars, flowVars
  <2>3. Typed' /\ BrowserNext' /\ QueueNext'
    BY <2>2, <1>1 DEF ChannelInv, Typed, BrowserNext, QueueNext
  <2>4. Lifecycle' /\ OnePump'
    BY <2>2, <1>1 DEF ChannelInv, Lifecycle, OnePump
  <2> QED
    BY <2>2, <2>3, <2>4, <1>1 DEF ChannelInv, ChannelStep
<1> QED
  BY <1>2, <1>3

LEMMA BrowserClosesStep ==
  ASSUME ChannelInv, BrowserCloses
  PROVE  ChannelInv' /\ ChannelStep
<1>1. /\ ready' = "closed" /\ browser' = <<>> /\ onceClosed' = TRUE /\ isOpen' = FALSE
      /\ closing' = closing
      /\ UNCHANGED <<accepted, received, queue, armed>>
  BY DEF BrowserCloses, sendVars
<1>2. Typed' /\ Lifecycle' /\ QueueNext' /\ OnePump'
  BY <1>1, EmptySeq DEF ChannelInv, Typed, Lifecycle, QueueNext, OnePump
<1>3. BrowserNext'
  <2>1. /\ received \in Seq(Item) /\ browser \in Seq(Item)
        /\ received \o <<>> = received
    BY ConcatEmptySeq DEF ChannelInv, Typed
  <2>2. PICK rest \in Seq(Item) : accepted = (received \o browser) \o rest
    BY DEF ChannelInv, BrowserNext
  <2>3. browser \o rest \in Seq(Item)
    BY <2>1, ConcatProperties
  <2>4. (received \o browser) \o rest = received \o (browser \o rest)
    <3>1. rest \in Seq(Item)
      OBVIOUS
    <3> QED
      BY <2>1, <3>1, Assoc, Zenon
  <2>5. accepted' = (received' \o browser') \o (browser \o rest)
    BY <2>1, <2>2, <2>4, <1>1, Zenon
  <2> QED
    BY <2>3, <2>5, Zenon DEF BrowserNext
<1>4. ChannelStep
  BY <1>1 DEF ChannelStep, Channel!Next, Channel!Close
<1> QED
  BY <1>2, <1>3, <1>4 DEF ChannelInv

LEMMA TransmitStep ==
  ASSUME ChannelInv, Transmit
  PROVE  ChannelInv' /\ ChannelStep
<1>1. /\ ready = "open" /\ browser # <<>>
      /\ received' = Append(received, Head(browser))
      /\ browser' = Tail(browser)
      /\ UNCHANGED <<accepted, queue, armed, ready, closing, onceClosed, isOpen, poll>>
  BY DEF Transmit, browserVars, openVars, sendVars, flowVars
<1>2. /\ accepted \in Seq(Item) /\ received \in Seq(Item)
      /\ browser \in Seq(Item) /\ queue \in Seq(Item)
  BY DEF ChannelInv, Typed
<1>3. PICK h \in Item, t \in Seq(Item) : h = Head(browser) /\ t = Tail(browser)
  BY <1>1, <1>2, HeadTailProperties
<1>4. <<h>> \in Seq(Item) /\ browser = <<h>> \o t
  BY <1>1, <1>2, <1>3, SubSeqRecursiveFirst, SubSeqFull, TailIsSubSeq, EmptySeq
<1>5. received' = received \o <<h>> /\ received' \in Seq(Item) /\ browser' = t
  BY <1>1, <1>2, <1>3, AppendIsConcat, AppendProperties
<1>6. received' \o browser' = received \o browser
  <2>1. (received \o <<h>>) \o t = received \o (<<h>> \o t)
    BY <1>2, <1>4, Assoc
  <2> QED
    BY <2>1, <1>4, <1>5, Zenon
<1>7. Typed' /\ Lifecycle' /\ OnePump'
  BY <1>1, <1>2, <1>3, <1>5 DEF ChannelInv, Typed, Lifecycle, OnePump
<1>8. BrowserNext' /\ QueueNext'
  BY <1>1, <1>6, Zenon DEF ChannelInv, BrowserNext, QueueNext
<1>9. ChannelStep
  <2>1. PICK rest \in Seq(Item) : accepted = (received \o browser) \o rest
    BY DEF ChannelInv, BrowserNext
  <2>2. received \o browser = received' \o t
    BY <1>5, <1>6
  <2>3. accepted = (received' \o t) \o rest
    BY <2>1, <2>2, Zenon
  <2>4. PICK s \in Seq(Item) : s = t \o rest
    BY ConcatProperties
  <2>5. accepted = received' \o s
    BY <2>3, <2>4, <1>5, Assoc
  <2>6. /\ Len(received') = Len(received) + 1
        /\ received'[Len(received) + 1] = h
    BY <1>1, <1>2, <1>3, AppendProperties
  <2>7. /\ Len(accepted) = Len(received') + Len(s)
        /\ \A i \in 1..Len(received') : accepted[i] = received'[i]
    BY <2>5, <1>5, ConcatProperties
  <2>8. Len(received) < Len(accepted) /\ accepted[Len(received) + 1] = h
    BY <2>6, <2>7, <1>2
  <2>9. ~onceClosed
    BY <1>1 DEF ChannelInv, Lifecycle
  <2> QED
    BY <2>8, <2>9, <1>1, <1>3 DEF ChannelStep, Channel!Next, Channel!Deliver
<1> QED
  BY <1>7, <1>8, <1>9 DEF ChannelInv

LEMMA PollAnsweredStep ==
  ASSUME ChannelInv, PollAnswered
  PROVE  ChannelInv' /\ ChannelStep
<1>1. /\ poll = "answered"
      /\ ready' = ready /\ closing' = closing /\ received' = received
      /\ isOpen' = isOpen /\ onceClosed' = onceClosed /\ accepted' = accepted
  BY DEF PollAnswered, browserVars, openVars
<1>2. CASE CanSendMore(isOpen, pollAmount)
  <2>1. SendNext(isOpen, pollAmount, <<>>, 0)
    BY <1>2 DEF PollAnswered
  <2>2. /\ accepted \in Seq(Item) /\ queue \in Seq(Item) /\ <<>> \in Seq(Item)
        /\ accepted' = accepted \o <<>> /\ queue \o <<>> = queue
    BY <1>1, ConcatEmptySeq, EmptySeq DEF ChannelInv, Typed
  <2>3. 0 \in 0..Len(queue \o <<>>)
    BY <2>2
  <2>4. ready # "connecting"
    BY <1>1 DEF ChannelInv, Lifecycle
  <2>5. ChannelInv'
    BY <2>1, <2>2, <2>3, <2>4, <1>1, SendNextStep
  <2> QED
    BY <2>5, <1>1 DEF ChannelStep
<1>3. CASE ~CanSendMore(isOpen, pollAmount)
  <2>1. /\ poll' = PollAgain
        /\ UNCHANGED <<queue, armed, browser>>
    BY <1>3 DEF PollAnswered
  <2>2. Typed' /\ BrowserNext' /\ QueueNext'
    BY <2>1, <1>1 DEF ChannelInv, Typed, BrowserNext, QueueNext
  <2>3. Lifecycle' /\ OnePump'
    BY <2>1, <1>1 DEF ChannelInv, Lifecycle, OnePump, PollAgain
  <2> QED
    BY <2>2, <2>3, <1>1 DEF ChannelInv, ChannelStep
<1> QED
  BY <1>2, <1>3

-----------------------------------------------------------------------------
LEMMA ChannelNext ==
  ASSUME ChannelInv, [Next]_vars, DataChannelAssumption
  PROVE  ChannelInv' /\ ChannelStep
<1>1. CASE GotReadyState
  BY <1>1, GotReadyStateStep
<1>2. CASE BrowserOpens
  BY <1>2, BrowserOpensStep
<1>3. CASE BrowserCloses
  BY <1>3, BrowserClosesStep
<1>4. CASE Transmit
  BY <1>4, TransmitStep
<1>5. CASE PollRead \/ PollTimer
  <2>1. /\ UNCHANGED <<accepted, received, browser, queue, armed, ready, onceClosed,
                       isOpen, closing>>
        /\ poll' = "idle" <=> poll = "idle"
    BY <1>5 DEF PollRead, PollTimer, browserVars, openVars, sendVars
  <2> QED
    BY <2>1, NothingMoves
<1>6. CASE PollAnswered
  BY <1>6, PollAnsweredStep
<1>7. ASSUME NEW c \in Closers, DrainRead(c) \/ DrainAnswered(c) \/ DrainTimer(c)
      PROVE  ChannelInv' /\ ChannelStep
  <2>1. UNCHANGED <<accepted, received, browser, queue, armed, ready, onceClosed, isOpen>>
    BY <1>7 DEF DrainRead, DrainAnswered, DrainTimer, browserVars, openVars, sendVars
  <2>2. poll' = poll
    BY <1>7 DEF DrainRead, DrainAnswered, DrainTimer, flowVars
  <2>3. closing => closing'
    <3>1. CASE DrainAnswered(c)
      <4>1. closing' = (closing \/ drainAmount[c] = 0)
        BY <3>1 DEF DrainAnswered
      <4> QED
        BY <4>1, Zenon
    <3>2. CASE DrainRead(c) \/ DrainTimer(c)
      BY <3>2 DEF DrainRead, DrainTimer, browserVars
    <3> QED
      BY <3>1, <3>2, <1>7
  <2> QED
    BY <2>1, <2>2, <2>3, NothingMoves
<1>8. ASSUME NEW str \in BOOLEAN, NEW size \in BufferSizes \cup {StringSize},
             Send(str, size)
      PROVE  ChannelInv' /\ ChannelStep
  <2>1. size \in Nat
    BY DataChannelAssumption
  <2> QED
    BY <2>1, <1>8, SendStep
<1>9. CASE SetOverflowListener \/ Close \/ UNCHANGED vars
  <2>1. /\ UNCHANGED <<accepted, received, browser, queue, armed, ready, onceClosed, isOpen>>
        /\ poll' = poll /\ closing' = closing
    BY <1>9 DEF SetOverflowListener, Close, vars, browserVars, openVars, sendVars, flowVars
  <2> QED
    BY <2>1, NothingMoves
<1>10. CASE Browser
  BY <1>10, <1>1, <1>2, <1>3, <1>4, <1>5, <1>6, <1>7 DEF Browser
<1>11. CASE Owner
  BY <1>11, <1>8, <1>9 DEF Owner
<1> QED
  BY <1>9, <1>10, <1>11 DEF Next

LEMMA ChannelInit == Init => ChannelInv /\ Channel!Init
<1> SUFFICES ASSUME Init
             PROVE  ChannelInv /\ Channel!Init
  OBVIOUS
<1>1. /\ accepted = <<>> /\ received = <<>> /\ browser = <<>> /\ queue = <<>>
      /\ armed = FALSE /\ isOpen = FALSE /\ onceClosed = FALSE /\ poll = "idle"
      /\ ready \in {"connecting", "open"}
  BY DEF Init
<1>2. Typed /\ Lifecycle /\ OnePump
  BY <1>1, EmptySeq DEF Typed, Lifecycle, OnePump
<1>3. <<>> \in Seq(Item) /\ <<>> = (<<>> \o <<>>) \o <<>>
  BY EmptySeq, ConcatEmptySeq
<1>4. BrowserNext /\ QueueNext
  BY <1>1, <1>3, Zenon DEF BrowserNext, QueueNext
<1>5. Channel!Init
  BY <1>1 DEF Channel!Init
<1> QED
  BY <1>2, <1>4, <1>5 DEF ChannelInv

\* While the channel is open, either toPeerDataQueue_ has its handler and is
\* empty, or exactly one poll of the browser's buffer is under way that will
\* set the handler again.
THEOREM PumpIsOne == Spec => []OnePump
<1>1. ChannelInv /\ [Next]_vars => ChannelInv'
  BY ChannelNext, DataChannelAssumption
<1>2. ChannelInv => OnePump
  BY DEF ChannelInv
<1> QED
  BY <1>1, <1>2, ChannelInit, PTL DEF Spec

\* DataChannel implements OrderedChannel: chunking, queueing, the overflow
\* and the close never lose, repeat or reorder what send() accepted, up to
\* the close.
THEOREM ChannelIsOrdered == Spec => Ordered
<1>1. ChannelInv /\ [Next]_vars => ChannelInv' /\ [Channel!Next]_Channel!vars
  BY ChannelNext, DataChannelAssumption DEF ChannelStep, Channel!vars
<1> QED
  BY <1>1, ChannelInit, PTL DEF Spec, Ordered, Channel!Spec

-----------------------------------------------------------------------------
(* Totals *)

\* f has the total of each prefix of w.
Sums(f, w) == /\ f \in [0..Len(w) -> Nat] /\ f[0] = 0
              /\ \A n \in 1..Len(w) : f[n] = f[n - 1] + w[n]

LEMMA SumsExist ==
  ASSUME NEW w \in Seq(Nat)
  PROVE  \E f : f = [n \in 0..Len(w) |-> IF n = 0 THEN 0 ELSE f[n - 1] + w[n]]
<1> DEFINE Has(m) == \E f : f = [n \in 0..m |-> IF n = 0 THEN 0 ELSE f[n - 1] + w[n]]
           bad == {m \in 0..Len(w) : ~Has(m)}
<1>1. Len(w) \in Nat
  OBVIOUS
<1>2. Has(0)
  <2>1. PICK f : f = [n \in 0..0 |-> 0]
    OBVIOUS
  <2>2. f = [n \in 0..0 |-> IF n = 0 THEN 0 ELSE f[n - 1] + w[n]]
    BY <2>1
  <2> QED
    BY <2>2
<1>3. ASSUME NEW m \in 1..Len(w), Has(m - 1) PROVE Has(m)
  <2>1. PICK f : f = [n \in 0..(m - 1) |-> IF n = 0 THEN 0 ELSE f[n - 1] + w[n]]
    BY <1>3
  <2>2. PICK g : g = [n \in 0..m |-> IF n = m THEN f[m - 1] + w[m] ELSE f[n]]
    OBVIOUS
  <2>3. ASSUME NEW n \in 0..m PROVE g[n] = IF n = 0 THEN 0 ELSE g[n - 1] + w[n]
    <3>1. CASE n = 0
      BY <1>1, <2>1, <2>2, <3>1
    <3>2. CASE n \in 1..(m - 1)
      <4>1. n - 1 \in 0..m /\ n - 1 # m /\ n # m /\ n # 0 /\ n \in 0..(m - 1)
        BY <1>1, <3>2
      <4>2. f[n] = f[n - 1] + w[n]
        BY <2>1, <4>1
      <4> QED
        BY <2>2, <4>1, <4>2
    <3>3. CASE n = m
      BY <1>1, <2>2, <3>3
    <3> QED
      BY <1>1, <3>1, <3>2, <3>3
  <2>4. g = [n \in 0..m |-> IF n = 0 THEN 0 ELSE g[n - 1] + w[n]]
    BY <2>2, <2>3
  <2> QED
    BY <2>4
<1> HIDE DEF Has
<1>4. bad = {}
  <2>1. SUFFICES ASSUME bad # {} PROVE FALSE
    OBVIOUS
  <2>2. bad \in SUBSET Nat
    BY <1>1
  <2>3. PICK m \in bad : \A k \in bad : m <= k
    <3> HIDE DEF bad
    <3> QED
      BY <2>1, <2>2, Least
  <2>4. m \in 1..Len(w) /\ m - 1 \in 0..Len(w) /\ ~(m <= m - 1)
    BY <1>1, <1>2, <2>3
  <2> QED
    BY <1>3, <2>3, <2>4
<1> QED
  BY <1>1, <1>4 DEF Has

LEMMA TotalSums ==
  ASSUME NEW w \in Seq(Nat)
  PROVE  \E f : Sums(f, w) /\ Total(w) = f[Len(w)]
<1> DEFINE f == CHOOSE g : g = [n \in 0..Len(w) |-> IF n = 0 THEN 0 ELSE g[n - 1] + w[n]]
           bad == {n \in 0..Len(w) : f[n] \notin Nat}
<1>1. f = [n \in 0..Len(w) |-> IF n = 0 THEN 0 ELSE f[n - 1] + w[n]]
  BY SumsExist
<1>2. Total(w) = f[Len(w)]
  BY DEF Total
<1>3. Len(w) \in Nat /\ \A n \in 1..Len(w) : w[n] \in Nat
  OBVIOUS
<1> HIDE DEF f
<1>4. bad = {}
  <2>1. SUFFICES ASSUME bad # {} PROVE FALSE
    OBVIOUS
  <2>2. bad \in SUBSET Nat
    BY <1>3
  <2>3. PICK n \in bad : \A k \in bad : n <= k
    <3> HIDE DEF bad
    <3> QED
      BY <2>1, <2>2, Least
  <2>4. n \in 1..Len(w) /\ n - 1 \in 0..Len(w) /\ ~(n <= n - 1)
    BY <1>1, <1>3, <2>3
  <2>5. f[n - 1] \in Nat /\ f[n] = f[n - 1] + w[n]
    BY <1>1, <2>3, <2>4
  <2> QED
    BY <1>3, <2>3, <2>4, <2>5
<1>5. Sums(f, w)
  <2>1. \A n \in 0..Len(w) : f[n] \in Nat
    BY <1>4
  <2>2. f \in [0..Len(w) -> Nat]
    BY <1>1, <2>1
  <2>3. f[0] = 0
    BY <1>1, <1>3
  <2>4. \A n \in 1..Len(w) : n \in 0..Len(w) /\ n # 0
    BY <1>3
  <2>5. \A n \in 1..Len(w) : f[n] = f[n - 1] + w[n]
    BY <1>1, <2>4
  <2> QED
    BY <2>2, <2>3, <2>5 DEF Sums
<1> QED
  BY <1>2, <1>5

LEMMA SumsUnique ==
  ASSUME NEW w \in Seq(Nat), NEW f, NEW g, Sums(f, w), Sums(g, w)
  PROVE  f[Len(w)] = g[Len(w)]
<1> DEFINE bad == {n \in 0..Len(w) : f[n] # g[n]}
<1>1. Len(w) \in Nat /\ \A n \in 1..Len(w) : w[n] \in Nat
  OBVIOUS
<1>2. bad = {}
  <2>1. SUFFICES ASSUME bad # {} PROVE FALSE
    OBVIOUS
  <2>2. bad \in SUBSET Nat
    BY <1>1
  <2>3. PICK n \in bad : \A k \in bad : n <= k
    <3> HIDE DEF bad
    <3> QED
      BY <2>1, <2>2, Least
  <2>4. n \in 1..Len(w) /\ n - 1 \in 0..Len(w) /\ ~(n <= n - 1)
    BY <1>1, <2>3 DEF Sums
  <2>5. f[n - 1] = g[n - 1]
    BY <2>3, <2>4
  <2> QED
    BY <2>3, <2>4, <2>5 DEF Sums
<1> QED
  BY <1>1, <1>2

LEMMA TotalIs ==
  ASSUME NEW w \in Seq(Nat), NEW f, Sums(f, w)
  PROVE  Total(w) = f[Len(w)] /\ Total(w) \in Nat
<1>1. Total(w) = f[Len(w)]
  BY TotalSums, SumsUnique
<1> QED
  BY <1>1 DEF Sums

LEMMA TotalIsNat ==
  ASSUME NEW w \in Seq(Nat)
  PROVE  Total(w) \in Nat
  BY TotalSums, TotalIs

LEMMA TotalConcat ==
  ASSUME NEW v \in Seq(Nat), NEW w \in Seq(Nat)
  PROVE  Total(v \o w) = Total(v) + Total(w)
<1>1. PICK f : Sums(f, v) /\ Total(v) = f[Len(v)]
  BY TotalSums
<1>2. PICK g : Sums(g, w) /\ Total(w) = g[Len(w)]
  BY TotalSums
<1> DEFINE a == Len(v)
           b == Len(w)
           h == [n \in 0..(a + b) |-> IF n <= a THEN f[n] ELSE f[a] + g[n - a]]
<1>3. /\ v \o w \in Seq(Nat) /\ Len(v \o w) = a + b /\ a \in Nat /\ b \in Nat
      /\ \A n \in 1..(a + b) : (v \o w)[n] = IF n <= a THEN v[n] ELSE w[n - a]
  BY ConcatProperties
<1>4. /\ \A n \in 0..a : f[n] \in Nat
      /\ \A n \in 1..a : f[n] = f[n - 1] + v[n]
      /\ \A n \in 0..b : g[n] \in Nat
      /\ \A n \in 1..b : g[n] = g[n - 1] + w[n]
      /\ f[0] = 0 /\ g[0] = 0
  BY <1>1, <1>2 DEF Sums
<1> HIDE DEF a, b
<1>5. ASSUME NEW n \in 0..(a + b) PROVE h[n] \in Nat
  <2>1. CASE n <= a
    BY <1>3, <1>4, <2>1
  <2>2. CASE n > a
    <3>1. n - a \in 0..b /\ a \in 0..a
      BY <1>3, <2>2
    <3> QED
      BY <1>3, <1>4, <2>2, <3>1
  <2> QED
    BY <1>3, <2>1, <2>2
<1>6. ASSUME NEW n \in 1..(a + b) PROVE h[n] = h[n - 1] + (v \o w)[n]
  <2>1. CASE n <= a
    <3>1. n \in 1..a /\ n \in 0..(a + b) /\ n - 1 \in 0..(a + b) /\ n - 1 <= a
      BY <1>3, <2>1
    <3> QED
      BY <1>3, <1>4, <2>1, <3>1
  <2>2. CASE n = a + 1
    <3>1. /\ n \in 0..(a + b) /\ n - 1 \in 0..(a + b) /\ n - 1 = a /\ n - a = 1 /\ 1 \in 1..b
          /\ ~(n <= a) /\ a <= a /\ 1 - 1 = 0
      BY <1>3, <2>2
    <3>2. h[n] = f[a] + g[1] /\ h[n - 1] = f[a] /\ (v \o w)[n] = w[1]
      BY <1>3, <3>1
    <3>3. g[1] = w[1]
      <4>1. g[1] = g[0] + w[1] /\ w[1] \in Nat
        BY <1>3, <1>4, <3>1 DEF b
      <4> QED
        BY <1>4, <4>1
    <3> QED
      BY <3>2, <3>3
  <2>3. CASE n > a + 1
    <3>1. /\ n \in 0..(a + b) /\ n - 1 \in 0..(a + b) /\ n - a \in 1..b
          /\ ~(n <= a) /\ ~(n - 1 <= a) /\ (n - 1) - a = (n - a) - 1 /\ (n - a) - 1 \in 0..b
      BY <1>3, <2>3
    <3>2. h[n] = f[a] + g[n - a] /\ h[n - 1] = f[a] + g[(n - a) - 1] /\ (v \o w)[n] = w[n - a]
      BY <1>3, <3>1
    <3>3. g[n - a] = g[(n - a) - 1] + w[n - a] /\ g[(n - a) - 1] \in Nat /\ f[a] \in Nat
      BY <1>3, <1>4, <3>1
    <3>4. w[n - a] \in Nat
      BY <3>1 DEF b
    <3> QED
      BY <3>2, <3>3, <3>4
  <2> QED
    BY <1>3, <2>1, <2>2, <2>3
<1>7. h[0] = 0 /\ h[a + b] = f[a] + g[b]
  <2>1. CASE b = 0
    BY <1>3, <1>4, <2>1
  <2>2. CASE b # 0
    BY <1>3, <1>4, <2>2
  <2> QED
    BY <2>1, <2>2
<1>8. Sums(h, v \o w)
  BY <1>3, <1>5, <1>6, <1>7 DEF Sums
<1> HIDE DEF h
<1>9. Total(v \o w) = h[a + b]
  BY <1>3, <1>8, TotalIs
<1> QED
  BY <1>1, <1>2, <1>7, <1>9 DEF a, b

LEMMA TotalElement ==
  ASSUME NEW w \in Seq(Nat), NEW i \in 1..Len(w)
  PROVE  w[i] <= Total(w)
<1>1. PICK f : Sums(f, w) /\ Total(w) = f[Len(w)]
  BY TotalSums
<1> DEFINE bad == {n \in i..Len(w) : ~(w[i] <= f[n])}
<1>2. /\ Len(w) \in Nat /\ \A n \in 1..Len(w) : w[n] \in Nat
      /\ f \in [0..Len(w) -> Nat]
      /\ \A n \in 1..Len(w) : f[n] = f[n - 1] + w[n]
  BY <1>1 DEF Sums
<1>3. bad = {}
  <2>1. SUFFICES ASSUME bad # {} PROVE FALSE
    OBVIOUS
  <2>2. bad \in SUBSET Nat
    BY <1>2
  <2>3. PICK n \in bad : \A k \in bad : n <= k
    <3> HIDE DEF bad
    <3> QED
      BY <2>1, <2>2, Least
  <2>4. n \in 1..Len(w) /\ f[n] = f[n - 1] + w[n] /\ f[n - 1] \in Nat /\ w[n] \in Nat /\ w[i] \in Nat
    BY <1>2, <2>3
  <2>5. n # i
    BY <2>3, <2>4
  <2>6. n - 1 \in i..Len(w) /\ ~(n <= n - 1)
    BY <1>2, <2>3, <2>5
  <2>7. w[i] <= f[n - 1]
    BY <2>3, <2>6
  <2> QED
    BY <2>3, <2>4, <2>7
<1>4. Len(w) \in i..Len(w)
  BY <1>2
<1> QED
  BY <1>1, <1>3, <1>4

-----------------------------------------------------------------------------
(* Bytes of chunks *)

AllSizes(s) == [i \in DOMAIN s |-> s[i].size]
BufferSizesOf(s) == [i \in DOMAIN s |-> IF s[i].str THEN 0 ELSE s[i].size]
StringSizesOf(s) == [i \in DOMAIN s |-> IF s[i].str THEN s[i].size ELSE 0]
StringBytes(s) == Total(StringSizesOf(s))

LEMMA FunctionIsSeq ==
  ASSUME NEW n \in Nat, NEW f \in [1..n -> Nat]
  PROVE  f \in Seq(Nat) /\ Len(f) = n
<1>1. f \in Seq(Nat)
  BY SeqDef
<1> QED
  BY <1>1, LenProperties

LEMMA NatConcat ==
  ASSUME NEW v \in Seq(Nat), NEW w \in Seq(Nat)
  PROVE  /\ v \o w \in Seq(Nat) /\ Len(v \o w) = Len(v) + Len(w)
         /\ \A i \in 1..(Len(v) + Len(w)) : (v \o w)[i] = IF i <= Len(v) THEN v[i] ELSE w[i - Len(v)]
  BY ConcatProperties

LEMMA SizesAreNat ==
  ASSUME NEW s \in Seq(Item)
  PROVE  /\ AllSizes(s) \in Seq(Nat) /\ Len(AllSizes(s)) = Len(s)
         /\ BufferSizesOf(s) \in Seq(Nat) /\ Len(BufferSizesOf(s)) = Len(s)
         /\ StringSizesOf(s) \in Seq(Nat) /\ Len(StringSizesOf(s)) = Len(s)
<1>1. Len(s) \in Nat /\ DOMAIN s = 1..Len(s)
  OBVIOUS
<1>2. \A i \in 1..Len(s) : s[i].size \in Nat /\ s[i].str \in BOOLEAN
  BY ElementOfSeq DEF Item, Chunk
<1>3. /\ AllSizes(s) \in [1..Len(s) -> Nat] /\ BufferSizesOf(s) \in [1..Len(s) -> Nat]
      /\ StringSizesOf(s) \in [1..Len(s) -> Nat]
  BY <1>1, <1>2 DEF AllSizes, BufferSizesOf, StringSizesOf
<1> QED
  BY <1>1, <1>3, FunctionIsSeq

LEMMA BytesAreNat ==
  ASSUME NEW s \in Seq(Item)
  PROVE  BufferBytes(s) \in Nat /\ StringBytes(s) \in Nat /\ Bytes(s) \in Nat
<1>1. BufferBytes(s) = Total(BufferSizesOf(s)) /\ Bytes(s) = Total(AllSizes(s))
  BY DEF BufferBytes, Bytes, BufferSizesOf, AllSizes
<1> QED
  BY <1>1, SizesAreNat, TotalIsNat DEF StringBytes

LEMMA SizesConcat ==
  ASSUME NEW s \in Seq(Item), NEW t \in Seq(Item)
  PROVE  /\ BufferSizesOf(s \o t) = BufferSizesOf(s) \o BufferSizesOf(t)
         /\ StringSizesOf(s \o t) = StringSizesOf(s) \o StringSizesOf(t)
<1> DEFINE u == s \o t
           a == Len(s)
           b == Len(t)
<1>1. /\ u \in Seq(Item) /\ Len(u) = a + b /\ a \in Nat /\ b \in Nat
      /\ \A i \in 1..(a + b) : u[i] = IF i <= a THEN s[i] ELSE t[i - a]
      /\ DOMAIN u = 1..(a + b) /\ DOMAIN s = 1..a /\ DOMAIN t = 1..b
  BY ConcatProperties
<1>2. /\ BufferSizesOf(s) \in Seq(Nat) /\ Len(BufferSizesOf(s)) = a
      /\ BufferSizesOf(t) \in Seq(Nat) /\ Len(BufferSizesOf(t)) = b
      /\ StringSizesOf(s) \in Seq(Nat) /\ Len(StringSizesOf(s)) = a
      /\ StringSizesOf(t) \in Seq(Nat) /\ Len(StringSizesOf(t)) = b
      /\ BufferSizesOf(u) \in Seq(Nat) /\ Len(BufferSizesOf(u)) = a + b
      /\ StringSizesOf(u) \in Seq(Nat) /\ Len(StringSizesOf(u)) = a + b
  BY <1>1, SizesAreNat
<1> HIDE DEF u, a, b
<1>3. ASSUME NEW i \in 1..(a + b)
      PROVE  /\ BufferSizesOf(u)[i] = IF i <= a THEN BufferSizesOf(s)[i] ELSE BufferSizesOf(t)[i - a]
             /\ StringSizesOf(u)[i] = IF i <= a THEN StringSizesOf(s)[i] ELSE StringSizesOf(t)[i - a]
  <2>1. CASE i <= a
    <3>1. i \in 1..a /\ u[i] = s[i]
      BY <1>1, <2>1
    <3> QED
      BY <1>1, <2>1, <3>1 DEF BufferSizesOf, StringSizesOf
  <2>2. CASE ~(i <= a)
    <3>1. i - a \in 1..b /\ u[i] = t[i - a]
      BY <1>1, <2>2
    <3> QED
      BY <1>1, <2>2, <3>1 DEF BufferSizesOf, StringSizesOf
  <2> QED
    BY <2>1, <2>2
<1> DEFINE x == BufferSizesOf(s) \o BufferSizesOf(t)
           y == StringSizesOf(s) \o StringSizesOf(t)
<1>4. /\ x \in Seq(Nat) /\ Len(x) = a + b
      /\ \A i \in 1..(a + b) : x[i] = IF i <= a THEN BufferSizesOf(s)[i] ELSE BufferSizesOf(t)[i - a]
  <2> DEFINE v == BufferSizesOf(s)
             w == BufferSizesOf(t)
  <2>1. v \in Seq(Nat) /\ w \in Seq(Nat) /\ Len(v) = a /\ Len(w) = b
    BY <1>2
  <2> HIDE DEF v, w
  <2>2. /\ v \o w \in Seq(Nat) /\ Len(v \o w) = a + b
        /\ \A i \in 1..(a + b) : (v \o w)[i] = IF i <= a THEN v[i] ELSE w[i - a]
    BY <2>1, NatConcat
  <2> QED
    BY <2>2 DEF v, w
<1>5. /\ y \in Seq(Nat) /\ Len(y) = a + b
      /\ \A i \in 1..(a + b) : y[i] = IF i <= a THEN StringSizesOf(s)[i] ELSE StringSizesOf(t)[i - a]
  <2> DEFINE v == StringSizesOf(s)
             w == StringSizesOf(t)
  <2>1. v \in Seq(Nat) /\ w \in Seq(Nat) /\ Len(v) = a /\ Len(w) = b
    BY <1>2
  <2> HIDE DEF v, w
  <2>2. /\ v \o w \in Seq(Nat) /\ Len(v \o w) = a + b
        /\ \A i \in 1..(a + b) : (v \o w)[i] = IF i <= a THEN v[i] ELSE w[i - a]
    BY <2>1, NatConcat
  <2> QED
    BY <2>2 DEF v, w
<1> HIDE DEF x, y
<1>6. BufferSizesOf(u) = x
  BY <1>2, <1>3, <1>4, SeqEqual
<1>7. StringSizesOf(u) = y
  BY <1>2, <1>3, <1>5, SeqEqual
<1> QED
  BY <1>6, <1>7 DEF u, x, y

LEMMA BytesConcat ==
  ASSUME NEW s \in Seq(Item), NEW t \in Seq(Item)
  PROVE  /\ BufferBytes(s \o t) = BufferBytes(s) + BufferBytes(t)
         /\ StringBytes(s \o t) = StringBytes(s) + StringBytes(t)
<1>1. \A u : BufferBytes(u) = Total(BufferSizesOf(u))
  BY DEF BufferBytes, BufferSizesOf
<1>2. /\ Total(BufferSizesOf(s) \o BufferSizesOf(t)) = Total(BufferSizesOf(s)) + Total(BufferSizesOf(t))
      /\ Total(StringSizesOf(s) \o StringSizesOf(t)) = Total(StringSizesOf(s)) + Total(StringSizesOf(t))
  BY SizesAreNat, TotalConcat
<1> QED
  BY <1>1, <1>2, SizesConcat DEF StringBytes

LEMMA BytesEmpty == BufferBytes(<<>>) = 0 /\ StringBytes(<<>>) = 0
<1>1. BufferSizesOf(<<>>) = <<>> /\ StringSizesOf(<<>>) = <<>>
  BY DEF BufferSizesOf, StringSizesOf
<1> DEFINE f == [n \in 0..0 |-> 0]
<1>2. Sums(f, <<>>) /\ Len(<<>>) = 0 /\ f[0] = 0 /\ <<>> \in Seq(Nat)
  BY EmptySeq DEF Sums
<1>3. Total(<<>>) = 0
  <2> HIDE DEF f
  <2> QED
    BY <1>2, TotalIs
<1> QED
  BY <1>1, <1>3 DEF BufferBytes, BufferSizesOf, StringBytes

\* The browser counts the strings too.
LEMMA BytesSplit ==
  ASSUME NEW s \in Seq(Item)
  PROVE  Bytes(s) = BufferBytes(s) + StringBytes(s)
<1>1. PICK f : Sums(f, BufferSizesOf(s)) /\ Total(BufferSizesOf(s)) = f[Len(s)]
  BY SizesAreNat, TotalSums
<1>2. PICK g : Sums(g, StringSizesOf(s)) /\ Total(StringSizesOf(s)) = g[Len(s)]
  BY SizesAreNat, TotalSums
<1> DEFINE h == [n \in 0..Len(s) |-> f[n] + g[n]]
<1>3. Len(s) \in Nat /\ DOMAIN s = 1..Len(s)
  OBVIOUS
<1>4. /\ f \in [0..Len(s) -> Nat] /\ g \in [0..Len(s) -> Nat] /\ f[0] = 0 /\ g[0] = 0
      /\ \A n \in 1..Len(s) : f[n] = f[n - 1] + BufferSizesOf(s)[n]
      /\ \A n \in 1..Len(s) : g[n] = g[n - 1] + StringSizesOf(s)[n]
      /\ \A n \in 1..Len(s) : BufferSizesOf(s)[n] \in Nat /\ StringSizesOf(s)[n] \in Nat
  BY <1>1, <1>2, SizesAreNat, ElementOfSeq DEF Sums
<1>5. ASSUME NEW n \in 1..Len(s) PROVE BufferSizesOf(s)[n] + StringSizesOf(s)[n] = AllSizes(s)[n]
  <2>1. s[n].size \in Nat /\ s[n].str \in BOOLEAN
    BY ElementOfSeq DEF Item, Chunk
  <2> QED
    BY <1>3, <2>1 DEF AllSizes, BufferSizesOf, StringSizesOf
<1>6. ASSUME NEW n \in 1..Len(s) PROVE h[n] = h[n - 1] + AllSizes(s)[n]
  <2>1. n \in 0..Len(s) /\ n - 1 \in 0..Len(s)
    BY <1>3
  <2>2. /\ f[n] = f[n - 1] + BufferSizesOf(s)[n] /\ g[n] = g[n - 1] + StringSizesOf(s)[n]
        /\ f[n - 1] \in Nat /\ g[n - 1] \in Nat
        /\ BufferSizesOf(s)[n] \in Nat /\ StringSizesOf(s)[n] \in Nat
    BY <1>4, <2>1
  <2>3. h[n] = f[n] + g[n] /\ h[n - 1] = f[n - 1] + g[n - 1]
    BY <2>1
  <2> HIDE DEF h
  <2> QED
    BY <1>5, <2>2, <2>3
<1>7. Sums(h, AllSizes(s))
  <2>1. h \in [0..Len(s) -> Nat] /\ h[0] = 0
    BY <1>3, <1>4
  <2>2. Len(AllSizes(s)) = Len(s)
    BY SizesAreNat
  <2> HIDE DEF h
  <2> QED
    BY <1>6, <2>1, <2>2 DEF Sums
<1>8. h[Len(s)] = f[Len(s)] + g[Len(s)]
  BY <1>3
<1> HIDE DEF h
<1>9. Total(AllSizes(s)) = h[Len(s)]
  BY <1>7, SizesAreNat, TotalIs
<1> QED
  BY <1>1, <1>2, <1>8, <1>9 DEF Bytes, BufferBytes, StringBytes, AllSizes, BufferSizesOf

\* A queue without bytes has no buffers.
LEMMA NoBytes ==
  ASSUME NEW s \in Seq(Item), BufferBytes(s) = 0, NEW i \in DOMAIN s
  PROVE  s[i].str
<1>1. i \in 1..Len(s) /\ s[i] \in Item
  BY ElementOfSeq
<1>2. BufferSizesOf(s)[i] <= BufferBytes(s) /\ BufferSizesOf(s) \in Seq(Nat)
  BY <1>1, SizesAreNat, TotalElement DEF BufferBytes, BufferSizesOf
<1> QED
  BY <1>1, <1>2 DEF BufferSizesOf, Item, Chunk

-----------------------------------------------------------------------------
(* Bounds *)

\* The most the browser holds of buffers, and the most it is known to hold.
Room == PC_QUEUE_LIMIT + CHUNK_SIZE
KnownRoom == PC_QUEUE_LIMIT + CHUNK_SIZE + MaxSends * StringSize

\* The types that nothing above has needed.
Rest ==
  /\ closing \in BOOLEAN /\ opening \in {"asked", "registered", "done"}
  /\ onceOpened \in {"pending", "fulfilled", "rejected"} /\ isOpen \in BOOLEAN
  /\ last \in Nat /\ overflow \in BOOLEAN /\ listener \in {"none", "owner", "close"}
  /\ told \in {"nothing", "overflow", "clear"}
  /\ poll \in PollStates /\ pollAmount \in Nat /\ draining \in BOOLEAN
  /\ drain \in [Closers -> DrainStates] /\ drainAmount \in [Closers -> Nat]
  /\ sends \in 0..MaxSends /\ closes \in 0..MaxCloses /\ openAtClose \in BOOLEAN

\* Nothing is sent before the channel opens, which it does once.
Unopened ==
  /\ isOpen => ready = "open" /\ opening # "asked"
  /\ ~isOpen /\ ready # "closed" => ~armed /\ last = 0 /\ browser = <<>> /\ poll = "idle"

\* toPeerDataBytes_ counts the buffers that are held back, and sends the strings.
Counts == /\ bytes = BufferBytes(queue)
          /\ StringBytes(accepted) <= sends * StringSize

\* The amount a may be what is in the browser, or what was.
Covers(a) == BufferBytes(browser) <= a /\ a <= KnownRoom

\* What the class knows of the browser's buffer, and what it will know when the answer
\* that is on its way arrives, covers the buffers in it.
Flow ==
  isOpen => /\ Covers(last) /\ BufferBytes(browser) <= Room
            /\ armed => last <= PC_QUEUE_LIMIT
            /\ poll = "answered" => Covers(pollAmount)

\* A close() that waits for the browser only has no buffers to wait for.
Drains ==
  /\ \A c \in Closers : /\ drain[c] # "idle" => draining
                        /\ c > closes => drain[c] = "idle"
  /\ \A c \in Closers : drain[c] \notin {"idle", "js", "failed"} => bytes = 0
  /\ closing => \E c \in Closers : drain[c] = "done"

FlowInv == Rest /\ Unopened /\ Counts /\ Flow /\ Drains

LEMMA TotalOne ==
  ASSUME NEW w \in Seq(Nat), Len(w) = 1
  PROVE  Total(w) = w[1]
<1> DEFINE f == [n \in 0..1 |-> IF n = 0 THEN 0 ELSE w[1]]
<1>1. w[1] \in Nat
  <2>1. 1 \in 1..Len(w)
    OBVIOUS
  <2> QED
    BY <2>1, ElementOfSeq
<1>2. f \in [0..1 -> Nat] /\ f[0] = 0 /\ f[1] = w[1]
  BY <1>1
<1> HIDE DEF f
<1>3. \A n \in 1..1 : n = 1 /\ n - 1 = 0
  OBVIOUS
<1>4. \A n \in 1..Len(w) : f[n] = f[n - 1] + w[n]
  BY <1>1, <1>2, <1>3
<1>5. Sums(f, w)
  BY <1>2, <1>4 DEF Sums
<1> QED
  BY <1>2, <1>5, TotalIs

\* One chunk is within its limit.
LEMMA BytesOfOne ==
  ASSUME NEW s \in Seq(Item), Len(s) = 1
  PROVE  BufferBytes(s) \in 0..CHUNK_SIZE
         /\ StringBytes(s) = IF s[1].str THEN s[1].size ELSE 0
<1>1. s[1] \in Item /\ 1 \in DOMAIN s
  BY ElementOfSeq
<1>2. BufferBytes(s) = BufferSizesOf(s)[1] /\ StringBytes(s) = StringSizesOf(s)[1]
  BY SizesAreNat, TotalOne DEF BufferBytes, BufferSizesOf, StringBytes
<1>3. CHUNK_SIZE \in Nat
  BY DataChannelAssumption
<1> QED
  BY <1>1, <1>2, <1>3 DEF BufferSizesOf, StringSizesOf, Item, Chunk

LEMMA OneIsSeq ==
  ASSUME NEW x \in Item
  PROVE  <<x>> \in Seq(Item) /\ Len(<<x>>) = 1
  OBVIOUS

\* One more chunk of q.
LEMMA PrefixGrows ==
  ASSUME NEW q \in Seq(Item), NEW n \in 1..Len(q)
  PROVE  /\ SubSeq(q, 1, n) \in Seq(Item) /\ SubSeq(q, 1, n - 1) \in Seq(Item)
         /\ BufferBytes(SubSeq(q, 1, n)) <= BufferBytes(SubSeq(q, 1, n - 1)) + CHUNK_SIZE
<1>1. /\ Len(q) \in Nat /\ n \in 0..Len(q) /\ n - 1 \in 0..Len(q) /\ q[n] \in Item
      /\ 1 \in 1..Len(q) /\ CHUNK_SIZE \in Nat
  BY ElementOfSeq, DataChannelAssumption
<1>2. SubSeq(q, 1, n) \in Seq(Item) /\ SubSeq(q, 1, n - 1) \in Seq(Item)
  BY <1>1, Cut
<1>3. SubSeq(q, 1, n) = SubSeq(q, 1, n - 1) \o <<q[n]>>
  BY <1>1, SubSeqRecursiveSecond
<1>4. PICK s \in Seq(Item) : s = <<q[n]>> /\ Len(s) = 1
  BY <1>1, OneIsSeq
<1>5. BufferBytes(SubSeq(q, 1, n)) = BufferBytes(SubSeq(q, 1, n - 1)) + BufferBytes(s)
  BY <1>2, <1>3, <1>4, BytesConcat
<1>6. BufferBytes(s) \in 0..CHUNK_SIZE /\ BufferBytes(SubSeq(q, 1, n - 1)) \in Nat
  BY <1>2, <1>4, BytesOfOne, BytesAreNat
<1> QED
  BY <1>1, <1>2, <1>5, <1>6

\* sendNext_ goes over the limit by one chunk at most.
LEMMA PassedFits ==
  ASSUME NEW open, NEW amount \in Nat, amount <= PC_QUEUE_LIMIT,
         NEW q \in Seq(Item), NEW k \in 0..Len(q), k <= 1
  PROVE  amount + BufferBytes(SubSeq(q, 1, Passed(open, amount, q, k))) <= Room
<1> DEFINE n == Passed(open, amount, q, k)
<1>1. /\ n \in k..Len(q)
      /\ \A m \in k..n : m < n => CanSendMore(open, amount + BufferBytes(SubSeq(q, 1, m)))
  BY PassedStops
<1>2. CHUNK_SIZE \in Nat /\ PC_QUEUE_LIMIT \in Nat /\ Len(q) \in Nat
  BY DataChannelAssumption
<1>3. SubSeq(q, 1, 0) = <<>>
  BY SubSeqEmpty
<1> HIDE DEF n
<1>4. CASE n = 0
  <2>1. BufferBytes(SubSeq(q, 1, n)) = 0
    BY <1>3, <1>4, BytesEmpty
  <2>2. amount + BufferBytes(SubSeq(q, 1, n)) <= Room
    BY <1>2, <2>1 DEF Room
  <2> QED
    BY <2>2 DEF n
<1>5. CASE n # 0
  <2>1. n \in 1..Len(q)
    BY <1>1, <1>2, <1>5
  <2>2. amount + BufferBytes(SubSeq(q, 1, n - 1)) <= PC_QUEUE_LIMIT
    <3>1. CASE n - 1 = 0
      <4>1. BufferBytes(SubSeq(q, 1, n - 1)) = 0
        BY <1>3, <3>1, BytesEmpty
      <4> QED
        BY <4>1
    <3>2. CASE n - 1 # 0
      <4>1. n - 1 \in k..n /\ n - 1 < n
        BY <1>2, <2>1, <3>2
      <4> QED
        BY <1>1, <4>1 DEF CanSendMore
    <3> QED
      BY <3>1, <3>2
  <2>3. /\ BufferBytes(SubSeq(q, 1, n)) <= BufferBytes(SubSeq(q, 1, n - 1)) + CHUNK_SIZE
        /\ SubSeq(q, 1, n) \in Seq(Item) /\ SubSeq(q, 1, n - 1) \in Seq(Item)
    BY <2>1, PrefixGrows
  <2>4. BufferBytes(SubSeq(q, 1, n)) \in Nat /\ BufferBytes(SubSeq(q, 1, n - 1)) \in Nat
    BY <2>3, BytesAreNat
  <2>5. amount + BufferBytes(SubSeq(q, 1, n)) <= Room
    BY <1>2, <2>2, <2>3, <2>4 DEF Room
  <2> QED
    BY <2>5 DEF n
<1> QED
  BY <1>4, <1>5

\* What a run of sendNext_ does to what the class knows.
LEMMA SendNextFlows ==
  ASSUME Typed, Counts, drain \in [Closers -> DrainStates], told \in {"nothing", "overflow", "clear"},
         NEW open, NEW amount \in Nat, NEW added \in Seq(Item),
         NEW k \in 0..Len(queue \o added), SendNext(open, amount, added, k)
  PROVE  /\ bytes' = BufferBytes(queue') /\ (added = <<>> => bytes' <= bytes)
         /\ last' \in Nat /\ amount <= last'
         /\ BufferBytes(browser') <= BufferBytes(browser) + (last' - amount)
         /\ amount <= PC_QUEUE_LIMIT /\ k <= 1 => last' <= Room
         /\ armed' => last' <= PC_QUEUE_LIMIT
         /\ poll' \in {"idle", "asked"} /\ overflow' \in BOOLEAN
         /\ told' \in {"nothing", "overflow", "clear"}
         /\ drain' \in [Closers -> DrainStates]
         /\ \A c \in Closers : \/ drain'[c] = drain[c]
                               \/ drain[c] = "js" /\ drain'[c] = "asked" /\ bytes' = 0
<1> DEFINE q == queue \o added
           n == Passed(open, amount, q, k)
<1>1. q \in Seq(Item) /\ queue \in Seq(Item) /\ browser \in Seq(Item)
  BY ConcatProperties DEF Typed
<1>2. n \in 0..Len(q)
  <2>1. n \in k..Len(q)
    BY <1>1, PassedStops
  <2>2. k \in 0..Len(q) /\ Len(q) \in Nat
    BY <1>1
  <2> HIDE DEF n, q
  <2> QED
    BY <2>1, <2>2
<1>3. PICK front \in Seq(Item), back \in Seq(Item) :
        /\ front = SubSeq(q, 1, n) /\ back = SubSeq(q, n + 1, Len(q)) /\ front \o back = q
  <2> HIDE DEF n, q
  <2> QED
    BY <1>1, <1>2, Cut
<1>4. /\ queue' = back /\ last' = amount + BufferBytes(front)
      /\ browser' = browser \/ browser' = browser \o front
      /\ bytes' = bytes + BufferBytes(added) - BufferBytes(front)
      /\ \/ /\ CanSendMore(open, last') /\ armed' = TRUE /\ poll' = "idle" /\ SetOverflow(FALSE)
         \/ armed' = FALSE /\ poll' = "asked" /\ SetOverflow(TRUE)
  BY <1>3 DEF SendNext, Unhandled, BytesAfter, AwaitClear
<1>5. amount <= PC_QUEUE_LIMIT /\ k <= 1 => amount + BufferBytes(front) <= Room
  BY <1>1, <1>3, PassedFits
<1>6. /\ BufferBytes(front) \in Nat /\ BufferBytes(back) \in Nat /\ BufferBytes(added) \in Nat
      /\ BufferBytes(queue) \in Nat /\ BufferBytes(browser) \in Nat
  BY <1>1, BytesAreNat
<1>7. /\ BufferBytes(queue) + BufferBytes(added) = BufferBytes(front) + BufferBytes(back)
      /\ BufferBytes(browser \o front) = BufferBytes(browser) + BufferBytes(front)
  <2>1. BufferBytes(q) = BufferBytes(queue) + BufferBytes(added)
    BY <1>1, BytesConcat
  <2>2. BufferBytes(front \o back) = BufferBytes(front) + BufferBytes(back)
    BY BytesConcat
  <2>3. BufferBytes(browser \o front) = BufferBytes(browser) + BufferBytes(front)
    BY <1>1, BytesConcat
  <2> HIDE DEF q
  <2> QED
    BY <1>3, <2>1, <2>2, <2>3
<1>8. added = <<>> => BufferBytes(added) = 0
  BY BytesEmpty
<1>9. bytes = BufferBytes(queue)
  BY DEF Counts
<1> HIDE DEF n, q
<1>10. /\ bytes' = BufferBytes(queue') /\ (added = <<>> => bytes' <= bytes)
       /\ last' \in Nat /\ amount <= last'
       /\ BufferBytes(browser') <= BufferBytes(browser) + (last' - amount)
  <2>1. BufferBytes(queue') = BufferBytes(back)
    BY <1>4
  <2>2. \/ BufferBytes(browser') = BufferBytes(browser)
        \/ BufferBytes(browser') = BufferBytes(browser) + BufferBytes(front)
    BY <1>4, <1>7
  <2>3. last' = amount + BufferBytes(front) /\ bytes' = bytes + BufferBytes(added) - BufferBytes(front)
    BY <1>4
  <2>4. bytes' = BufferBytes(queue')
    BY <1>6, <1>7, <1>9, <2>1, <2>3
  <2>5. added = <<>> => bytes' <= bytes
    BY <1>6, <1>8, <1>9, <2>3
  <2>6. last' \in Nat /\ amount <= last'
    BY <1>6, <2>3
  <2>7. BufferBytes(browser') <= BufferBytes(browser) + (last' - amount)
    BY <1>6, <2>2, <2>3
  <2> QED
    BY <2>4, <2>5, <2>6, <2>7
<1>11. armed' => last' <= PC_QUEUE_LIMIT /\ queue' = <<>>
  <2>1. armed' => queue' = <<>>
    BY <1>1, SendNextMoves DEF q
  <2> QED
    BY <1>4, <2>1 DEF CanSendMore
<1>12. armed' => bytes' = 0
  BY <1>10, <1>11, BytesEmpty
<1>13. /\ overflow' \in BOOLEAN /\ told' \in {"nothing", "overflow", "clear"}
       /\ drain' \in [Closers -> DrainStates]
       /\ \A c \in Closers : \/ drain'[c] = drain[c]
                             \/ drain[c] = "js" /\ drain'[c] = "asked" /\ armed'
  <2>1. CASE armed' = TRUE /\ SetOverflow(FALSE)
    BY <2>1 DEF SetOverflow, ToldAfter, DrainStates, PollStates
  <2>2. CASE SetOverflow(TRUE)
    BY <2>2 DEF SetOverflow, ToldAfter, DrainStates, PollStates
  <2> QED
    BY <1>4, <2>1, <2>2
<1> QED
  BY <1>4, <1>5, <1>10, <1>11, <1>12, <1>13

LEMMA Sizes ==
  /\ CHUNK_SIZE \in Nat /\ PC_QUEUE_LIMIT \in Nat /\ StringSize \in Nat /\ MaxSends \in Nat
  /\ MaxCloses \in Nat
  /\ MaxSends * StringSize \in Nat
  /\ Room \in Nat /\ KnownRoom \in Nat /\ KnownRoom = Room + MaxSends * StringSize
<1>1. /\ CHUNK_SIZE \in Nat /\ PC_QUEUE_LIMIT \in Nat /\ StringSize \in Nat /\ MaxSends \in Nat
      /\ MaxCloses \in Nat
  BY DataChannelAssumption
<1>2. MaxSends * StringSize \in Nat
  BY <1>1
<1> QED
  BY <1>1, <1>2 DEF Room, KnownRoom

\* A step that runs sendNext_ from an amount that covers what the browser holds.
LEMMA SentKeeps ==
  ASSUME ChannelInv, Typed', FlowInv, NEW open, NEW amount \in Nat, NEW added \in Seq(Item),
         NEW k \in 0..Len(queue \o added), k <= 1, SendNext(open, amount, added, k),
         isOpen' => amount <= PC_QUEUE_LIMIT /\ BufferBytes(browser) <= amount,
         added = <<>> \/ ~draining,
         isOpen' \in BOOLEAN, isOpen' => ready' = "open" /\ opening' # "asked",
         isOpen' \/ ready' = "closed",
         opening' \in {"asked", "registered", "done"},
         onceOpened' \in {"pending", "fulfilled", "rejected"},
         pollAmount' \in Nat, sends' \in 0..MaxSends,
         StringBytes(accepted') <= sends' * StringSize,
         UNCHANGED <<closing, listener, draining, drainAmount, closes, openAtClose>>
  PROVE  FlowInv'
<1>1. /\ Typed /\ Rest /\ Counts /\ Drains
      /\ drain \in [Closers -> DrainStates] /\ told \in {"nothing", "overflow", "clear"}
  BY DEF ChannelInv, FlowInv, Rest
<1>2. /\ bytes' = BufferBytes(queue') /\ (added = <<>> => bytes' <= bytes)
      /\ last' \in Nat /\ amount <= last'
      /\ BufferBytes(browser') <= BufferBytes(browser) + (last' - amount)
      /\ amount <= PC_QUEUE_LIMIT /\ k <= 1 => last' <= Room
      /\ armed' => last' <= PC_QUEUE_LIMIT
      /\ poll' \in {"idle", "asked"} /\ overflow' \in BOOLEAN
      /\ told' \in {"nothing", "overflow", "clear"}
      /\ drain' \in [Closers -> DrainStates]
      /\ \A c \in Closers : \/ drain'[c] = drain[c]
                            \/ drain[c] = "js" /\ drain'[c] = "asked" /\ bytes' = 0
  BY <1>1, SendNextFlows
<1>3. Rest'
  BY <1>1, <1>2 DEF Rest, PollStates
<1>4. Unopened'
  BY <1>2 DEF Unopened
<1>5. Counts'
  BY <1>2 DEF Counts
<1>6. Flow'
  <2>1. SUFFICES ASSUME isOpen'
                 PROVE  /\ BufferBytes(browser') <= last' /\ last' <= KnownRoom
                        /\ BufferBytes(browser') <= Room
                        /\ armed' => last' <= PC_QUEUE_LIMIT
                        /\ poll' # "answered"
    BY DEF Flow, Covers
  <2>2. BufferBytes(browser) \in Nat /\ BufferBytes(browser') \in Nat
    BY <1>1, BytesAreNat DEF Typed
  <2>3. amount <= PC_QUEUE_LIMIT /\ BufferBytes(browser) <= amount /\ last' <= Room
    BY <1>2, <2>1
  <2>4. BufferBytes(browser') <= last'
    BY <1>2, <2>2, <2>3
  <2>5. last' \in Nat /\ last' <= Room
    BY <1>2, <2>3
  <2>6. Room <= KnownRoom /\ Room \in Nat /\ KnownRoom \in Nat
    <3>1. /\ Room \in Nat /\ KnownRoom \in Nat /\ MaxSends * StringSize \in Nat
          /\ KnownRoom = Room + MaxSends * StringSize
      BY Sizes
    <3> QED
      BY <3>1
  <2>7. last' <= KnownRoom /\ BufferBytes(browser') <= Room
    BY <2>2, <2>4, <2>5, <2>6
  <2>8. (armed' => last' <= PC_QUEUE_LIMIT) /\ poll' # "answered"
    BY <1>2
  <2> QED
    BY <2>4, <2>7, <2>8
<1>7. Drains'
  <2>1. bytes \in Nat /\ bytes' \in Nat
    BY <1>1, <1>2, BytesAreNat DEF Typed, Counts
  <2>2. ASSUME NEW c \in Closers, drain'[c] \notin {"idle", "js", "failed"} PROVE bytes' = 0
    <3>1. CASE drain'[c] = drain[c]
      <4>1. drain[c] \notin {"idle", "js", "failed"}
        BY <2>2, <3>1
      <4>2. draining /\ bytes = 0
        BY <1>1, <4>1 DEF Drains
      <4> QED
        BY <1>2, <2>1, <4>2
    <3> QED
      BY <1>2, <3>1
  <2>3. \A c \in Closers : /\ drain'[c] # "idle" => draining
                           /\ c > closes => drain'[c] = "idle"
    BY <1>1, <1>2 DEF Drains
  <2>4. closing => \E c \in Closers : drain'[c] = "done"
    BY <1>1, <1>2 DEF Drains
  <2> QED
    BY <2>2, <2>3, <2>4 DEF Drains
<1> QED
  BY <1>3, <1>4, <1>5, <1>6, <1>7 DEF FlowInv

LEMMA TotalZero ==
  ASSUME NEW w \in Seq(Nat), \A i \in 1..Len(w) : w[i] = 0
  PROVE  Total(w) = 0
<1> DEFINE f == [n \in 0..Len(w) |-> 0]
<1>1. Len(w) \in Nat
  OBVIOUS
<1>2. \A n \in 1..Len(w) : n \in 0..Len(w) /\ n - 1 \in 0..Len(w)
  BY <1>1
<1>3. Sums(f, w)
  BY <1>1, <1>2 DEF Sums
<1>4. f[Len(w)] = 0
  BY <1>1
<1> HIDE DEF f
<1> QED
  BY <1>3, <1>4, TotalIs

\* A string is one chunk.
LEMMA ChunkStrings ==
  ASSUME accepted \in Seq(Item), NEW str \in BOOLEAN, NEW size \in Nat, str => size = StringSize
  PROVE  Chunks(str, size) \in Seq(Item) /\ StringBytes(Chunks(str, size)) <= StringSize
<1> DEFINE s == Chunks(str, size)
<1>1. s \in Seq(Item) /\ StringSize \in Nat
  BY ChunksTyped, Sizes
<1>2. CASE str
  <2>1. /\ s = [i \in 1..1 |-> [id |-> Len(accepted) + i, str |-> str, size |-> size]]
    BY <1>2 DEF Chunks
  <2>2. Len(s) = 1 /\ s[1].str /\ s[1].size = size
    <3>1. DOMAIN s = 1..1 /\ s[1] = [id |-> Len(accepted) + 1, str |-> str, size |-> size]
      BY <2>1
    <3> HIDE DEF s
    <3> QED
      BY <1>1, <1>2, <3>1, LenProperties
  <2> HIDE DEF s
  <2> QED
    <3>1. StringBytes(s) = StringSize
      BY <1>1, <1>2, <2>2, BytesOfOne
    <3> QED
      BY <1>1, <3>1 DEF s
<1>3. CASE ~str
  <2>1. \A i \in DOMAIN s : ~s[i].str
    BY <1>3 DEF Chunks
  <2> HIDE DEF s
  <2>2. /\ StringSizesOf(s) \in Seq(Nat) /\ Len(StringSizesOf(s)) = Len(s) /\ DOMAIN s = 1..Len(s)
    BY <1>1, SizesAreNat
  <2>3. \A i \in 1..Len(StringSizesOf(s)) : StringSizesOf(s)[i] = 0
    BY <2>1, <2>2 DEF StringSizesOf
  <2>4. StringBytes(s) = 0
    BY <2>2, <2>3, TotalZero DEF StringBytes
  <2> QED
    BY <1>1, <2>4 DEF s
<1> QED
  BY <1>1, <1>2, <1>3

\* A step that leaves what is counted alone, and may take some of what the browser holds.
LEMMA KnownKeeps ==
  ASSUME ChannelInv, Typed', FlowInv, Rest', Unopened', Drains',
         UNCHANGED <<queue, bytes, accepted, sends>>,
         isOpen' => /\ isOpen /\ armed' = armed
                    /\ BufferBytes(browser') <= BufferBytes(browser)
                    /\ (last' = last \/ (Covers(last') /\ ~armed))
                    /\ \/ poll' # "answered"
                       \/ poll = "answered" /\ pollAmount' = pollAmount
                       \/ Covers(pollAmount')
  PROVE  FlowInv'
<1>1. Counts'
  BY DEF FlowInv, Counts
<1>2. Flow'
  <2>1. SUFFICES ASSUME isOpen'
                 PROVE  /\ Covers(last)' /\ BufferBytes(browser') <= Room
                        /\ armed' => last' <= PC_QUEUE_LIMIT
                        /\ poll' = "answered" => Covers(pollAmount)'
    BY DEF Flow
  <2>2. /\ BufferBytes(browser) \in Nat /\ BufferBytes(browser') \in Nat
        /\ BufferBytes(browser') <= BufferBytes(browser)
        /\ last \in Nat /\ last' \in Nat /\ pollAmount \in Nat /\ pollAmount' \in Nat
    BY <2>1, BytesAreNat DEF ChannelInv, Typed, FlowInv, Rest
  <2>3. /\ Covers(last') /\ BufferBytes(browser) <= Room
        /\ armed => last' <= PC_QUEUE_LIMIT
        /\ poll' = "answered" => Covers(pollAmount')
    BY <2>1 DEF FlowInv, Flow
  <2>4. ASSUME NEW a \in Nat, Covers(a) PROVE BufferBytes(browser') <= a /\ a <= KnownRoom
    BY <2>2, <2>4 DEF Covers
  <2>5. Covers(last)' /\ (poll' = "answered" => Covers(pollAmount)')
    BY <2>2, <2>3, <2>4 DEF Covers
  <2> QED
    BY <2>1, <2>2, <2>3, <2>5, Sizes
<1> QED
  BY <1>1, <1>2 DEF FlowInv

\* The channel opens: what waits in toPeerDataQueue_ is passed on.
LEMMA OpenedFlows ==
  ASSUME ChannelInv, ChannelInv', FlowInv, Opened, ~isOpen, ready # "closed",
         ready' = "open", opening' \in {"registered", "done"},
         UNCHANGED <<closing, listener, closeVars>>
  PROVE  FlowInv'
<1>1. /\ SendNext(TRUE, last, <<>>, 0) /\ isOpen' = TRUE /\ onceOpened' = "fulfilled"
      /\ UNCHANGED <<accepted, pollAmount, sends, draining, drainAmount, closes, openAtClose>>
  BY DEF Opened, closeVars
<1>2. last = 0 /\ browser = <<>> /\ 0 \in 0..Len(queue \o <<>>) /\ <<>> \in Seq(Item)
  BY ConcatEmptySeq, EmptySeq DEF FlowInv, Unopened, ChannelInv, Typed
<1>3. BufferBytes(browser) = 0
  BY <1>2, BytesEmpty
<1>4. /\ last \in Nat /\ pollAmount' \in Nat /\ sends' \in 0..MaxSends
      /\ StringBytes(accepted') <= sends' * StringSize
  BY <1>1 DEF FlowInv, Rest, Counts
<1>5. Typed'
  BY DEF ChannelInv
<1>6. last <= PC_QUEUE_LIMIT /\ BufferBytes(browser) <= last /\ 0 <= 1
  BY <1>2, <1>3, Sizes
<1>7. /\ isOpen' \in BOOLEAN /\ (isOpen' => ready' = "open" /\ opening' # "asked")
      /\ (isOpen' \/ ready' = "closed") /\ opening' \in {"asked", "registered", "done"}
      /\ onceOpened' \in {"pending", "fulfilled", "rejected"}
      /\ UNCHANGED <<closing, listener, draining, drainAmount, closes, openAtClose>>
  BY <1>1
<1> QED
  BY <1>1, <1>2, <1>4, <1>5, <1>6, <1>7, SentKeeps

LEMMA OpeningFlows ==
  ASSUME ChannelInv, ChannelInv', FlowInv, GotReadyState \/ BrowserOpens
  PROVE  FlowInv'
<1>1. CASE Opened
  <2>1. /\ ~isOpen /\ ready # "closed" /\ ready' = "open" /\ opening' \in {"registered", "done"}
        /\ UNCHANGED <<closing, listener, closeVars>>
    <3>1. CASE GotReadyState
      <4>1. ready = "open"
        BY <1>1, <3>1 DEF GotReadyState, NotOpened, Opened, FlowInv, Unopened
      <4> QED
        BY <3>1, <4>1 DEF GotReadyState, browserVars, FlowInv, Unopened
    <3>2. CASE BrowserOpens
      <4>1. opening = "registered"
        BY <1>1, <3>2 DEF BrowserOpens, NotOpened, Opened, FlowInv, Unopened
      <4> QED
        BY <3>2, <4>1 DEF BrowserOpens, FlowInv, Unopened
    <3> QED
      BY <3>1, <3>2
  <2> QED
    BY <1>1, <2>1, OpenedFlows
<1>2. CASE NotOpened
  <2>1. /\ UNCHANGED <<onceOpened, isOpen, sendVars, flowVars, drain, browser>>
        /\ UNCHANGED <<closing, listener, closeVars>>
        /\ opening' \in {opening, "registered", "done"}
        /\ (ready' = ready \/ (ready = "connecting" /\ ready' = "open"))
    <3>1. CASE GotReadyState
      <4>1. /\ ready' = ready /\ closing' = closing /\ UNCHANGED listener /\ UNCHANGED closeVars
            /\ opening' = IF ready = "connecting" THEN "registered" ELSE "done"
        BY <3>1 DEF GotReadyState, browserVars, closeVars
      <4> QED
        BY <1>2, <4>1 DEF NotOpened
    <3>2. CASE BrowserOpens
      BY <1>2, <3>2 DEF NotOpened, BrowserOpens
    <3> QED
      BY <3>1, <3>2
  <2>2. /\ Rest' /\ Unopened' /\ Drains'
        /\ UNCHANGED <<queue, bytes, accepted, sends, armed, last, poll, pollAmount, isOpen>>
    BY <2>1 DEF sendVars, flowVars, closeVars, FlowInv, Rest, Unopened, Drains
  <2>3. BufferBytes(browser') = BufferBytes(browser)
    BY <2>1
  <2>4. BufferBytes(browser) \in Nat /\ Typed'
    BY BytesAreNat DEF ChannelInv, Typed
  <2>5. BufferBytes(browser') <= BufferBytes(browser)
    BY <2>3, <2>4
  <2>6. /\ UNCHANGED <<queue, bytes, accepted, sends>>
        /\ isOpen' => /\ isOpen /\ armed' = armed
                      /\ BufferBytes(browser') <= BufferBytes(browser)
                      /\ (last' = last \/ (Covers(last') /\ ~armed))
                      /\ \/ poll' # "answered"
                         \/ poll = "answered" /\ pollAmount' = pollAmount
                         \/ Covers(pollAmount')
    BY <2>2, <2>5
  <2> QED
    BY <2>2, <2>4, <2>6, KnownKeeps
<1> QED
  BY <1>1, <1>2 DEF GotReadyState, BrowserOpens

LEMMA ClosesFlows ==
  ASSUME ChannelInv, ChannelInv', FlowInv, BrowserCloses
  PROVE  FlowInv'
<1>1. /\ isOpen' = FALSE /\ ready' = "closed"
      /\ onceOpened' \in {"pending", "fulfilled", "rejected"}
      /\ UNCHANGED <<closing, opening, listener, draining, drain, drainAmount, closes, openAtClose>>
      /\ UNCHANGED <<overflow, told, poll, pollAmount, last>>
      /\ UNCHANGED <<queue, bytes, accepted, sends>>
  BY DEF BrowserCloses, sendVars, flowVars, closeVars, OpenedRejected, FlowInv, Rest
<1>2. Rest'
  BY <1>1 DEF FlowInv, Rest
<1>3. Drains'
  BY <1>1 DEF FlowInv, Drains
<1>4. Unopened'
  BY <1>1 DEF Unopened
<1>5. Flow'
  BY <1>1 DEF Flow
<1>6. Counts'
  BY <1>1 DEF FlowInv, Counts
<1> QED
  BY <1>2, <1>3, <1>4, <1>5, <1>6 DEF FlowInv

LEMMA TailFits ==
  ASSUME NEW s \in Seq(Item), s # <<>>
  PROVE  BufferBytes(Tail(s)) <= BufferBytes(s)
<1>1. Len(s) \in Nat /\ 1 \in 0..Len(s) /\ Tail(s) = SubSeq(s, 2, Len(s))
  BY EmptySeq, TailIsSubSeq
<1>2. PICK one \in Seq(Item), more \in Seq(Item) :
        one = SubSeq(s, 1, 1) /\ more = SubSeq(s, 2, Len(s)) /\ one \o more = s
  <2>1. 1 + 1 = 2
    OBVIOUS
  <2> QED
    BY <1>1, <2>1, Cut
<1>3. BufferBytes(one \o more) = BufferBytes(one) + BufferBytes(more)
  BY BytesConcat
<1>4. BufferBytes(one) \in Nat /\ BufferBytes(more) \in Nat
  BY BytesAreNat
<1>5. BufferBytes(s) = BufferBytes(one \o more) /\ BufferBytes(Tail(s)) = BufferBytes(more)
  BY <1>1, <1>2
<1> QED
  BY <1>3, <1>4, <1>5

\* The peer receives a chunk.
LEMMA TransmitFlows ==
  ASSUME ChannelInv, ChannelInv', FlowInv, Transmit
  PROVE  FlowInv'
<1>1. /\ ready = "open" /\ browser # <<>> /\ browser' = Tail(browser)
      /\ UNCHANGED <<ready, closing, opening, onceOpened, listener, draining, drain, drainAmount>>
      /\ UNCHANGED <<closes, openAtClose, overflow, told>>
      /\ UNCHANGED <<queue, bytes, accepted, sends, armed, last, poll, pollAmount, isOpen>>
  BY DEF Transmit, browserVars, openVars, sendVars, flowVars, closeVars
<1>2. Rest' /\ Drains'
  BY <1>1 DEF FlowInv, Rest, Drains
<1>3. isOpen /\ Unopened'
  BY <1>1 DEF FlowInv, Rest, Unopened
<1>4. BufferBytes(browser') <= BufferBytes(browser) /\ Typed'
  BY <1>1, TailFits DEF ChannelInv, Typed
<1>5. /\ UNCHANGED <<queue, bytes, accepted, sends>>
      /\ isOpen' => /\ isOpen /\ armed' = armed
                    /\ BufferBytes(browser') <= BufferBytes(browser)
                    /\ (last' = last \/ (Covers(last') /\ ~armed))
                    /\ \/ poll' # "answered"
                       \/ poll = "answered" /\ pollAmount' = pollAmount
                       \/ Covers(pollAmount')
  BY <1>1, <1>3, <1>4
<1> QED
  BY <1>2, <1>3, <1>4, <1>5, KnownKeeps

LEMMA ProductGrows ==
  ASSUME NEW a \in Nat, NEW b \in Nat, NEW c \in Nat, a <= b
  PROVE  a * c \in Nat /\ a * c <= b * c
<1>1. PICK d \in Nat : b = a + d
  <2>1. b - a \in Nat /\ b = a + (b - a)
    OBVIOUS
  <2> QED
    BY <2>1
<1>2. b * c = a * c + d * c /\ a * c \in Nat /\ d * c \in Nat
  BY <1>1
<1> QED
  BY <1>2

\* The strings in the browser are among those that were sent.
LEMMA StringsFit ==
  ASSUME ChannelInv, Counts, sends \in 0..MaxSends
  PROVE  StringBytes(browser) \in Nat /\ StringBytes(browser) <= MaxSends * StringSize
<1>1. PICK rest \in Seq(Item) : accepted = (received \o browser) \o rest
  BY DEF ChannelInv, BrowserNext
<1>2. received \in Seq(Item) /\ browser \in Seq(Item) /\ received \o browser \in Seq(Item)
  BY ConcatProperties DEF ChannelInv, Typed
<1>3. /\ StringBytes((received \o browser) \o rest)
           = StringBytes(received \o browser) + StringBytes(rest)
      /\ StringBytes(received \o browser) = StringBytes(received) + StringBytes(browser)
  BY <1>2, BytesConcat
<1>4. /\ StringBytes(received) \in Nat /\ StringBytes(browser) \in Nat
      /\ StringBytes(rest) \in Nat
  BY <1>2, BytesAreNat
<1>5. StringBytes(accepted) = StringBytes((received \o browser) \o rest)
  BY <1>1
<1>6. StringBytes(browser) <= StringBytes(accepted) /\ StringBytes(accepted) \in Nat
  BY <1>3, <1>4, <1>5
<1>7. sends * StringSize \in Nat /\ sends * StringSize <= MaxSends * StringSize
  <2>1. sends \in Nat /\ MaxSends \in Nat /\ StringSize \in Nat /\ sends <= MaxSends
    BY Sizes
  <2> QED
    BY <2>1, ProductGrows
<1>8. StringBytes(accepted) <= sends * StringSize
  BY DEF Counts
<1> QED
  BY <1>4, <1>6, <1>7, <1>8, Sizes

\* A step that changes only what is going on in the polls and closes.
LEMMA PollReadFlows ==
  ASSUME ChannelInv, ChannelInv', FlowInv, PollRead
  PROVE  FlowInv'
<1>1. /\ poll = "asked" /\ poll' = "answered" /\ pollAmount' = Bytes(browser)
      /\ UNCHANGED <<ready, closing, opening, onceOpened, listener, draining, drain, drainAmount>>
      /\ UNCHANGED <<closes, openAtClose, overflow, told, browser>>
      /\ UNCHANGED <<queue, bytes, accepted, sends, armed, last, isOpen>>
  BY DEF PollRead, browserVars, openVars, sendVars, closeVars
<1>2. /\ Bytes(browser) = BufferBytes(browser) + StringBytes(browser)
      /\ Bytes(browser) \in Nat /\ BufferBytes(browser) \in Nat
  BY BytesSplit, BytesAreNat DEF ChannelInv, Typed
<1>3. StringBytes(browser) \in Nat /\ StringBytes(browser) <= MaxSends * StringSize
  BY StringsFit DEF FlowInv, Rest
<1>4. Drains'
  BY <1>1 DEF FlowInv, Drains
<1>5. Unopened'
  BY <1>1 DEF FlowInv, Unopened
<1>6. Rest'
  BY <1>1, <1>2 DEF FlowInv, Rest, PollStates
<1>7. isOpen => BufferBytes(browser) <= Room
  BY DEF FlowInv, Flow
<1>8. isOpen => Covers(Bytes(browser))
  BY <1>2, <1>3, <1>7, Sizes DEF Covers
<1>9. BufferBytes(browser') = BufferBytes(browser) /\ Typed'
  BY <1>1 DEF ChannelInv
<1>10. BufferBytes(browser') <= BufferBytes(browser)
  BY <1>2, <1>9
<1>11. isOpen => Covers(pollAmount')
  BY <1>1, <1>8
<1>12. /\ UNCHANGED <<queue, bytes, accepted, sends>>
       /\ isOpen' => /\ isOpen /\ armed' = armed
                     /\ BufferBytes(browser') <= BufferBytes(browser)
                     /\ (last' = last \/ (Covers(last') /\ ~armed))
                     /\ \/ poll' # "answered"
                        \/ poll = "answered" /\ pollAmount' = pollAmount
                        \/ Covers(pollAmount')
  BY <1>1, <1>10, <1>11
<1> QED
  BY <1>4, <1>5, <1>6, <1>9, <1>12, KnownKeeps

LEMMA PollAnsweredFlows ==
  ASSUME ChannelInv, ChannelInv', FlowInv, PollAnswered
  PROVE  FlowInv'
<1>1. /\ poll = "answered" /\ pollAmount' = 0
      /\ UNCHANGED <<ready, closing, opening, onceOpened, isOpen, listener, draining>>
      /\ UNCHANGED <<drainAmount, closes, openAtClose, accepted, sends>>
  BY DEF PollAnswered, browserVars, openVars, closeVars
<1>2. /\ pollAmount \in Nat /\ isOpen \in BOOLEAN /\ sends \in 0..MaxSends
      /\ opening \in {"asked", "registered", "done"}
      /\ onceOpened \in {"pending", "fulfilled", "rejected"}
      /\ StringBytes(accepted) <= sends * StringSize
      /\ isOpen => ready = "open" /\ opening # "asked"
      /\ isOpen => Covers(pollAmount)
  BY <1>1 DEF FlowInv, Rest, Counts, Unopened, Flow
<1>3. Typed'
  BY DEF ChannelInv
<1>4. CASE CanSendMore(isOpen, pollAmount)
  <2>1. SendNext(isOpen, pollAmount, <<>>, 0) /\ isOpen /\ pollAmount <= PC_QUEUE_LIMIT
    BY <1>4 DEF PollAnswered, CanSendMore
  <2>2. 0 \in 0..Len(queue \o <<>>) /\ <<>> \in Seq(Item) /\ 0 <= 1
    BY ConcatEmptySeq, EmptySeq DEF ChannelInv, Typed
  <2>3. BufferBytes(browser) <= pollAmount
    BY <1>2, <2>1 DEF Covers
  <2>4. /\ isOpen' \in BOOLEAN /\ (isOpen' => ready' = "open" /\ opening' # "asked")
        /\ (isOpen' \/ ready' = "closed") /\ opening' \in {"asked", "registered", "done"}
        /\ onceOpened' \in {"pending", "fulfilled", "rejected"}
        /\ pollAmount' \in Nat /\ sends' \in 0..MaxSends
        /\ StringBytes(accepted') <= sends' * StringSize
        /\ UNCHANGED <<closing, listener, draining, drainAmount, closes, openAtClose>>
    BY <1>1, <1>2, <2>1
  <2> QED
    BY <1>2, <1>3, <2>1, <2>2, <2>3, <2>4, SentKeeps
<1>5. CASE ~CanSendMore(isOpen, pollAmount)
  <2>1. /\ last' = pollAmount /\ poll' \in {"timer", "idle"} /\ (isOpen => poll' = "timer")
        /\ UNCHANGED <<queue, armed, bytes, browser, overflow, told, drain>>
    BY <1>2, <1>5 DEF PollAnswered, PollAgain
  <2>2. BufferBytes(browser) \in Nat /\ BufferBytes(browser') = BufferBytes(browser)
    BY <2>1, BytesAreNat DEF ChannelInv, Typed
  <2>3. BufferBytes(browser') <= BufferBytes(browser)
    BY <2>2
  <2>4. isOpen => ~armed
    BY <1>1 DEF ChannelInv, OnePump
  <2>5. Rest'
    BY <1>1, <1>2, <2>1 DEF FlowInv, Rest, PollStates
  <2>6. Drains'
    BY <1>1, <2>1 DEF FlowInv, Drains
  <2>7. Unopened'
    BY <1>1, <2>1 DEF FlowInv, Unopened
  <2>8. /\ UNCHANGED <<queue, bytes, accepted, sends>>
        /\ isOpen' => /\ isOpen /\ armed' = armed
                      /\ BufferBytes(browser') <= BufferBytes(browser)
                      /\ (last' = last \/ (Covers(last') /\ ~armed))
                      /\ \/ poll' # "answered"
                         \/ poll = "answered" /\ pollAmount' = pollAmount
                         \/ Covers(pollAmount')
    BY <1>1, <1>2, <2>1, <2>3, <2>4
  <2> QED
    BY <1>3, <2>5, <2>6, <2>7, <2>8, KnownKeeps
<1> QED
  BY <1>4, <1>5

\* A step that changes nothing but timers, closes and the listener.
LEMMA QuietKeeps ==
  ASSUME ChannelInv, ChannelInv', FlowInv, Rest', Drains',
         UNCHANGED <<queue, bytes, accepted, sends, browser, armed, last, isOpen, pollAmount>>,
         UNCHANGED <<ready, opening>>,
         poll' = poll \/ (poll # "idle" /\ poll' = "asked")
  PROVE  FlowInv'
<1>1. Unopened'
  BY DEF FlowInv, Unopened
<1>2. Typed' /\ BufferBytes(browser) \in Nat
  BY BytesAreNat DEF ChannelInv, Typed
<1>3. BufferBytes(browser') = BufferBytes(browser)
  OBVIOUS
<1>4. BufferBytes(browser') <= BufferBytes(browser)
  BY <1>2, <1>3
<1>5. /\ UNCHANGED <<queue, bytes, accepted, sends>>
      /\ isOpen' => /\ isOpen /\ armed' = armed
                    /\ BufferBytes(browser') <= BufferBytes(browser)
                    /\ (last' = last \/ (Covers(last') /\ ~armed))
                    /\ \/ poll' # "answered"
                       \/ poll = "answered" /\ pollAmount' = pollAmount
                       \/ Covers(pollAmount')
  BY <1>4
<1> QED
  BY <1>1, <1>2, <1>5, KnownKeeps

LEMMA PollTimerFlows ==
  ASSUME ChannelInv, ChannelInv', FlowInv, PollTimer
  PROVE  FlowInv'
<1>1. /\ poll = "timer" /\ poll' = "asked"
      /\ UNCHANGED <<ready, closing, opening, onceOpened, listener, draining, drain, drainAmount>>
      /\ UNCHANGED <<closes, openAtClose, overflow, told>>
      /\ UNCHANGED <<queue, bytes, accepted, sends, browser, armed, last, isOpen, pollAmount>>
  BY DEF PollTimer, browserVars, openVars, sendVars, closeVars
<1>2. Rest' /\ Drains'
  BY <1>1 DEF FlowInv, Rest, PollStates, Drains
<1> QED
  BY <1>1, <1>2, QuietKeeps

\* close() number c waits for the browser to drain.
LEMMA DrainFlows ==
  ASSUME ChannelInv, ChannelInv', FlowInv, NEW c \in Closers,
         DrainRead(c) \/ DrainAnswered(c) \/ DrainTimer(c)
  PROVE  FlowInv'
<1>1. /\ UNCHANGED <<ready, opening, onceOpened, listener, draining, closes, openAtClose>>
      /\ UNCHANGED <<overflow, told, poll>>
      /\ UNCHANGED <<queue, bytes, accepted, sends, browser, armed, last, isOpen, pollAmount>>
  <2>1. CASE DrainRead(c)
    BY <2>1 DEF DrainRead, browserVars, openVars, sendVars, flowVars
  <2>2. CASE DrainAnswered(c)
    BY <2>2 DEF DrainAnswered, openVars, sendVars, flowVars
  <2>3. CASE DrainTimer(c)
    BY <2>3 DEF DrainTimer, browserVars, openVars, sendVars, flowVars, closeVars
  <2> QED
    BY <2>1, <2>2, <2>3
<1>2. drain \in [Closers -> DrainStates] /\ drainAmount \in [Closers -> Nat] /\ closing \in BOOLEAN
  BY DEF FlowInv, Rest
<1>3. PICK v \in {"asked", "answered", "done", "timer", "gaveUp"} :
        /\ drain[c] \in {"asked", "answered", "timer"}
        /\ drain' = [drain EXCEPT ![c] = v]
        /\ closing' = closing \/ (closing' = TRUE /\ v = "done")
        /\ drainAmount' \in [Closers -> Nat] /\ closing' \in BOOLEAN
  <2>1. CASE DrainRead(c)
    <3>1. Bytes(browser) \in Nat
      BY BytesAreNat DEF ChannelInv, Typed
    <3> QED
      BY <1>2, <2>1, <3>1 DEF DrainRead, browserVars
  <2>2. CASE DrainAnswered(c)
    <3>1. CASE drainAmount[c] = 0
      BY <1>2, <2>2, <3>1 DEF DrainAnswered
    <3>2. CASE drainAmount[c] # 0
      BY <1>2, <2>2, <3>2 DEF DrainAnswered, DrainAgain
    <3> QED
      BY <3>1, <3>2
  <2>3. CASE DrainTimer(c)
    BY <1>2, <2>3 DEF DrainTimer, browserVars, closeVars
  <2> QED
    BY <2>1, <2>2, <2>3
<1>4. Rest'
  BY <1>1, <1>2, <1>3 DEF FlowInv, Rest, DrainStates, PollStates
<1>5. Drains'
  <2>1. /\ draining /\ bytes = 0 /\ ~(c > closes)
    BY <1>3 DEF FlowInv, Drains
  <2>2. \A d \in Closers : drain'[d] = IF d = c THEN v ELSE drain[d]
    BY <1>2, <1>3
  <2>3. ASSUME closing' PROVE \E d \in Closers : drain'[d] = "done"
    <3>1. CASE v = "done"
      BY <2>2, <3>1
    <3>2. CASE v # "done"
      <4>1. PICK d \in Closers : drain[d] = "done"
        BY <1>3, <2>3, <3>2 DEF FlowInv, Drains
      <4>2. drain'[d] = "done"
        BY <1>3, <2>2, <4>1
      <4> QED
        BY <4>2
    <3> QED
      BY <3>1, <3>2
  <2>4. \A d \in Closers : /\ drain'[d] # "idle" => draining
                           /\ d > closes => drain'[d] = "idle"
                           /\ drain'[d] \notin {"idle", "js", "failed"} => bytes = 0
    BY <2>1, <2>2 DEF FlowInv, Drains
  <2> QED
    BY <1>1, <2>3, <2>4 DEF Drains
<1> QED
  BY <1>1, <1>4, <1>5, QuietKeeps

LEMMA OwnerFlows ==
  ASSUME ChannelInv, ChannelInv', FlowInv, SetOverflowListener \/ Close \/ UNCHANGED vars
  PROVE  FlowInv'
<1>1. /\ UNCHANGED <<ready, closing, opening, onceOpened, drainAmount>>
      /\ UNCHANGED <<overflow, told, poll>>
      /\ UNCHANGED <<queue, bytes, accepted, sends, browser, armed, last, isOpen, pollAmount>>
  <2>1. CASE SetOverflowListener
    BY <2>1 DEF SetOverflowListener, browserVars, openVars, sendVars, flowVars, closeVars
  <2>2. CASE Close
    BY <2>2 DEF Close, browserVars, openVars, sendVars, flowVars
  <2>3. CASE UNCHANGED vars
    BY <2>3 DEF vars, browserVars, openVars, sendVars, flowVars, closeVars
  <2> QED
    BY <2>1, <2>2, <2>3
<1>2. Rest' /\ Drains'
  <2>1. CASE SetOverflowListener
    BY <1>1, <2>1 DEF SetOverflowListener, closeVars, FlowInv, Rest, Drains
  <2>2. CASE Close
    <3> DEFINE new == closes + 1
    <3>1. /\ closes \in Nat /\ closes < MaxCloses /\ MaxCloses \in Nat
          /\ closes' = new /\ drain' = [drain EXCEPT ![new] = FirstWait]
          /\ listener' \in {"close", listener} /\ draining' = TRUE
          /\ openAtClose' \in {openAtClose, isOpen}
      BY <2>2, Sizes DEF Close, FlowInv, Rest
    <3>2. new \in Closers /\ new > closes /\ closes' \in 0..MaxCloses
      BY <3>1 DEF Closers
    <3>3. /\ FirstWait \in {"asked", "failed", "js"}
          /\ FirstWait = "asked" => bytes = 0
      BY DEF FirstWait
    <3> HIDE DEF new
    <3>4. Rest'
      BY <1>1, <3>1, <3>2, <3>3 DEF FlowInv, Rest, DrainStates, PollStates
    <3>5. \A d \in Closers : drain'[d] = IF d = new THEN FirstWait ELSE drain[d]
      BY <3>1, <3>2 DEF FlowInv, Rest
    <3>6. drain[new] = "idle" /\ \A d \in Closers : d > new => d > closes /\ d # new
      BY <3>1, <3>2 DEF FlowInv, Drains, new, Closers
    <3>7. Drains'
      <4>1. ASSUME closing' PROVE \E d \in Closers : drain'[d] = "done"
        <5>1. PICK d \in Closers : drain[d] = "done"
          BY <1>1, <4>1 DEF FlowInv, Drains
        <5>2. drain'[d] = "done"
          BY <3>5, <3>6, <5>1
        <5> QED
          BY <5>2
      <4>2. \A d \in Closers : /\ d > new => drain'[d] = "idle"
                               /\ drain'[d] \notin {"idle", "js", "failed"} => bytes = 0
        BY <3>3, <3>5, <3>6 DEF FlowInv, Drains
      <4> QED
        BY <1>1, <3>1, <4>1, <4>2 DEF Drains
    <3> QED
      BY <3>4, <3>7
  <2>3. CASE UNCHANGED vars
    BY <1>1, <2>3 DEF vars, closeVars, FlowInv, Rest, Drains
  <2> QED
    BY <2>1, <2>2, <2>3
<1> QED
  BY <1>1, <1>2, QuietKeeps

LEMMA SumGrows ==
  ASSUME NEW a \in Nat, NEW b \in Nat, NEW c \in Nat, NEW d \in Nat, a <= c, b <= d
  PROVE  a + b <= c + d
  OBVIOUS

LEMMA SendFlows ==
  ASSUME ChannelInv, ChannelInv', FlowInv, NEW str \in BOOLEAN, NEW size \in Nat,
         str => size = StringSize, Send(str, size)
  PROVE  FlowInv'
<1>1. /\ sends < MaxSends /\ ~draining /\ sends' = sends + 1
      /\ UNCHANGED <<ready, closing, opening, onceOpened, isOpen, pollAmount, listener, draining>>
      /\ UNCHANGED <<drainAmount, closes, openAtClose>>
  BY DEF Send, browserVars, openVars, closeVars
<1>2. PICK chunks \in Seq(Item) :
        /\ chunks = Chunks(str, size) /\ StringBytes(chunks) <= StringSize
        /\ accepted' = accepted \o chunks
        /\ IF armed /\ chunks # <<>>
             THEN SendNext(isOpen, last, chunks, 1)
             ELSE /\ queue' = queue \o chunks
                  /\ bytes' = BytesAfter(chunks, <<>>)
                  /\ UNCHANGED <<armed, last, browser, overflow, told, poll, drain>>
  BY ChunkStrings DEF Send, ChannelInv, Typed
<1>3. /\ accepted \in Seq(Item) /\ queue \in Seq(Item) /\ browser \in Seq(Item) /\ Typed'
      /\ sends \in 0..MaxSends /\ isOpen \in BOOLEAN /\ last \in Nat /\ pollAmount \in Nat
      /\ opening \in {"asked", "registered", "done"} /\ armed \in BOOLEAN
      /\ onceOpened \in {"pending", "fulfilled", "rejected"}
      /\ ready \in {"connecting", "open", "closed"}
      /\ bytes = BufferBytes(queue) /\ StringBytes(accepted) <= sends * StringSize
  BY DEF ChannelInv, Typed, Lifecycle, FlowInv, Rest, Counts
<1>4. sends' \in 0..MaxSends /\ StringBytes(accepted') <= sends' * StringSize
  <2>1. StringBytes(accepted \o chunks) = StringBytes(accepted) + StringBytes(chunks)
    BY <1>3, BytesConcat
  <2>2. StringBytes(accepted') = StringBytes(accepted) + StringBytes(chunks)
    BY <1>2, <2>1
  <2>3. StringBytes(accepted) \in Nat /\ StringBytes(chunks) \in Nat
    BY <1>3, BytesAreNat
  <2>4. sends \in Nat /\ MaxSends \in Nat /\ StringSize \in Nat /\ sends' \in 0..MaxSends
    BY <1>1, <1>3, Sizes
  <2>5. (sends + 1) * StringSize = sends * StringSize + StringSize /\ sends * StringSize \in Nat
    BY <2>4
  <2>6. sends' * StringSize = sends * StringSize + StringSize
    BY <1>1, <2>5
  <2>7. StringBytes(accepted) + StringBytes(chunks) <= sends * StringSize + StringSize
    BY <1>2, <1>3, <2>3, <2>4, <2>5, SumGrows
  <2>8. StringBytes(accepted') <= sends' * StringSize
    BY <2>2, <2>6, <2>7
  <2> QED
    BY <2>4, <2>8
<1>5. CASE armed /\ chunks # <<>>
  <2>1. SendNext(isOpen, last, chunks, 1) /\ 1 <= 1
    BY <1>2, <1>5
  <2>2. 1 \in 0..Len(queue \o chunks)
    <3>1. Len(chunks) \in Nat /\ Len(chunks) # 0 /\ Len(queue) \in Nat
      BY <1>5, EmptySeq
    <3>2. Len(queue \o chunks) = Len(queue) + Len(chunks)
      BY <1>3, ConcatProperties
    <3> QED
      BY <3>1, <3>2
  <2>3. isOpen' => last <= PC_QUEUE_LIMIT /\ BufferBytes(browser) <= last
    BY <1>1, <1>5 DEF FlowInv, Flow, Covers
  <2>4. isOpen \/ ready = "closed"
    BY <1>3, <1>5 DEF FlowInv, Unopened
  <2>5. isOpen => ready = "open" /\ opening # "asked"
    BY DEF FlowInv, Unopened
  <2>6. /\ isOpen' \in BOOLEAN /\ (isOpen' => ready' = "open" /\ opening' # "asked")
        /\ (isOpen' \/ ready' = "closed") /\ opening' \in {"asked", "registered", "done"}
        /\ onceOpened' \in {"pending", "fulfilled", "rejected"}
        /\ pollAmount' \in Nat
        /\ UNCHANGED <<closing, listener, draining, drainAmount, closes, openAtClose>>
    BY <1>1, <1>3, <2>4, <2>5
  <2> QED
    BY <1>1, <1>3, <1>4, <2>1, <2>2, <2>3, <2>6, SentKeeps
<1>6. CASE ~(armed /\ chunks # <<>>)
  <2>1. /\ queue' = queue \o chunks /\ bytes' = bytes + BufferBytes(chunks) - BufferBytes(<<>>)
        /\ UNCHANGED <<armed, last, browser, overflow, told, poll, drain>>
    BY <1>2, <1>6 DEF BytesAfter
  <2>2. /\ BufferBytes(queue \o chunks) = BufferBytes(queue) + BufferBytes(chunks)
        /\ BufferBytes(queue) \in Nat /\ BufferBytes(chunks) \in Nat
    BY <1>3, BytesConcat, BytesAreNat
  <2>3. bytes' = BufferBytes(queue')
    <3>1. BufferBytes(queue') = BufferBytes(queue) + BufferBytes(chunks)
      BY <2>1, <2>2
    <3> QED
      BY <1>3, <2>1, <2>2, <3>1, BytesEmpty
  <2>4. Counts'
    BY <1>4, <2>3 DEF Counts
  <2>5. Rest'
    BY <1>1, <1>4, <2>1 DEF FlowInv, Rest
  <2>6. Unopened'
    BY <1>1, <2>1 DEF FlowInv, Unopened
  <2>7. Flow'
    BY <1>1, <2>1 DEF FlowInv, Flow, Covers
  <2>8. Drains'
    BY <1>1, <2>1 DEF FlowInv, Drains
  <2> QED
    BY <2>4, <2>5, <2>6, <2>7, <2>8 DEF FlowInv
<1> QED
  BY <1>5, <1>6

LEMMA FlowNext ==
  ASSUME ChannelInv, ChannelInv', FlowInv, [Next]_vars
  PROVE  FlowInv'
<1>1. CASE GotReadyState \/ BrowserOpens
  BY <1>1, OpeningFlows
<1>2. CASE BrowserCloses
  BY <1>2, ClosesFlows
<1>3. CASE Transmit
  BY <1>3, TransmitFlows
<1>4. CASE PollRead
  BY <1>4, PollReadFlows
<1>5. CASE PollAnswered
  BY <1>5, PollAnsweredFlows
<1>6. CASE PollTimer
  BY <1>6, PollTimerFlows
<1>7. CASE \E c \in Closers : DrainRead(c) \/ DrainAnswered(c) \/ DrainTimer(c)
  BY <1>7, DrainFlows
<1>8. CASE Send(TRUE, StringSize)
  BY <1>8, Sizes, SendFlows
<1>9. CASE \E size \in BufferSizes : Send(FALSE, size)
  <2>1. PICK size \in Nat : Send(FALSE, size)
    BY <1>9, DataChannelAssumption
  <2> QED
    BY <2>1, SendFlows
<1>10. CASE SetOverflowListener \/ Close \/ UNCHANGED vars
  BY <1>10, OwnerFlows
<1>11. CASE Browser
  BY <1>11, <1>1, <1>2, <1>3, <1>4, <1>5, <1>6, <1>7 DEF Browser
<1>12. CASE Owner
  BY <1>12, <1>8, <1>9, <1>10 DEF Owner
<1> QED
  BY <1>10, <1>11, <1>12 DEF Next

LEMMA FlowInit == Init => FlowInv
<1> SUFFICES ASSUME Init
             PROVE  FlowInv
  OBVIOUS
<1>1. Rest
  <2>1. drain \in [Closers -> DrainStates] /\ drainAmount \in [Closers -> Nat]
    BY DEF Init, PollStates, DrainStates
  <2>2. sends \in 0..MaxSends /\ closes \in 0..MaxCloses /\ last \in Nat /\ pollAmount \in Nat
    BY Sizes DEF Init
  <2> QED
    BY <2>1, <2>2 DEF Init, Rest, PollStates
<1>2. Unopened
  BY DEF Init, Unopened
<1>3. Counts
  <2>1. StringBytes(accepted) = StringBytes(<<>>) /\ BufferBytes(queue) = BufferBytes(<<>>)
    BY DEF Init
  <2>2. sends * StringSize = 0 /\ bytes = 0
    BY Sizes DEF Init
  <2>3. StringBytes(accepted) <= sends * StringSize
    BY <2>1, <2>2, BytesEmpty
  <2> QED
    BY <2>1, <2>2, <2>3, BytesEmpty DEF Counts
<1>4. Flow
  BY DEF Init, Flow
<1>5. Drains
  BY DEF Init, Drains
<1> QED
  BY <1>1, <1>2, <1>3, <1>4, <1>5 DEF FlowInv

LEMMA FlowSpec == Spec => [](ChannelInv /\ FlowInv)
<1>1. ChannelInv /\ FlowInv /\ [Next]_vars => (ChannelInv /\ FlowInv)'
  BY ChannelNext, FlowNext, DataChannelAssumption
<1> QED
  BY <1>1, ChannelInit, FlowInit, PTL DEF Spec

LEMMA ItemsAreChunks ==
  ASSUME NEW s \in Seq(Item)
  PROVE  s \in Seq(Chunk)
<1>1. /\ Len(s) \in Nat /\ s = [i \in 1..Len(s) |-> s[i]] /\ \A i \in 1..Len(s) : s[i] \in Item
  BY ElementOfSeq
<1>2. \A i \in 1..Len(s) : s[i] \in Chunk
  BY <1>1 DEF Item
<1> QED
  BY <1>1, <1>2, IsASeq

\* The channel's state keeps its type for any limits and any number of calls: the byte counter
\* toPeerDataBytes_ of src/src/webrtc/datachannel.ts, which goes down with every buffer passed on,
\* never gets below zero.
THEOREM ChannelTyped == Spec => []TypeOK
<1>1. ChannelInv /\ FlowInv => TypeOK
  <2> SUFFICES ASSUME ChannelInv, FlowInv
               PROVE  TypeOK
    OBVIOUS
  <2>1. /\ browser \in Seq(Chunk) /\ received \in Seq(Chunk) /\ queue \in Seq(Chunk)
        /\ accepted \in Seq(Chunk)
    BY ItemsAreChunks DEF ChannelInv, Typed
  <2>2. bytes \in Nat
    BY BytesAreNat DEF ChannelInv, Typed, FlowInv, Counts
  <2> QED
    BY <2>1, <2>2 DEF ChannelInv, Typed, Lifecycle, FlowInv, Rest, TypeOK
<1> QED
  BY <1>1, FlowSpec, PTL

\* However stale the readings of the browser's buffered amount are, the browser never holds more
\* of the buffers than the limit and one chunk; and close() closes the RTCDataChannel only when
\* every buffer that send() accepted was passed to the browser.
THEOREM BuffersAreBounded == Spec => []BufferBounds
<1>1. ChannelInv /\ FlowInv => BufferBounds
  <2> SUFFICES ASSUME ChannelInv, FlowInv
               PROVE  BufferedBound /\ BuffersSentBeforeClose
    BY DEF BufferBounds
  <2>1. BufferedBound
    BY DEF FlowInv, Flow, Covers, Room, KnownRoom, BufferedBound
  <2>2. BuffersSentBeforeClose
    <3>1. SUFFICES ASSUME closing, NEW i \in DOMAIN queue
                   PROVE  queue[i].str
      BY DEF BuffersSentBeforeClose
    <3>2. PICK c \in Closers : drain[c] = "done"
      BY <3>1 DEF FlowInv, Drains
    <3>3. BufferBytes(queue) = 0 /\ queue \in Seq(Item)
      BY <3>2 DEF FlowInv, Drains, Counts, ChannelInv, Typed
    <3> QED
      BY <3>1, <3>3, NoBytes
  <2> QED
    BY <2>1, <2>2
<1> QED
  BY <1>1, FlowSpec, PTL
=============================================================================
