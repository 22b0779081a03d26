----------------------------- MODULE DataChannel -----------------------------
(***************************************************************************)
(* The DataChannelClass of src/src/webrtc/datachannel.ts, one side of an   *)
(* RTCDataChannel.  Outgoing data is cut into chunks, which wait in        *)
(* toPeerDataQueue_ while the browser's buffer is over PC_QUEUE_LIMIT and  *)
(* are passed on when a poll of getBufferedAmount() finds room again.      *)
(*                                                                         *)
(* A call or callback and the promise reactions it sets off are one step.  *)
(* The browser reads the buffered amount in one step and its answer        *)
(* arrives in a later one.  Data from the peer goes straight to a handler  *)
(* queue (see HandlerQueue) and is left out.                               *)
(***************************************************************************)
EXTENDS Naturals, Sequences

CONSTANTS
  CHUNK_SIZE,      \* size limit of a message on the wire
  PC_QUEUE_LIMIT,  \* limit of the browser's buffer
  BufferSizes,     \* sizes of the buffers given to send()
  StringSize,      \* size of the strings given to send()
  MaxSends,        \* bound: calls of send()
  MaxCloses        \* bound: calls of close()

ASSUME DataChannelAssumption ==
  /\ CHUNK_SIZE \in Nat \ {0} /\ PC_QUEUE_LIMIT \in Nat
  /\ BufferSizes \subseteq Nat /\ StringSize \in Nat
  /\ MaxSends \in Nat /\ MaxCloses \in Nat

VARIABLES
  ready,        \* the browser's readyState
  closing,      \* close() was called on the RTCDataChannel
  browser,      \* chunks in the browser's buffer
  received,     \* chunks that have reached the peer
  opening,      \* what the constructor knows of readyState
  onceOpened, onceClosed,  \* the two promises
  isOpen,       \* isOpen_
  queue,        \* toPeerDataQueue_
  armed,        \* toPeerDataQueue_ has its handler
  bytes,        \* toPeerDataBytes_
  last,         \* lastBrowserBufferedAmount_
  overflow,     \* overflow_
  listener,     \* whose function overflowListener_ is
  told,         \* what the owner's listener was last told
  poll, pollAmount,    \* waitForOverflowToClear_ and the amount it is answered
  draining,     \* draining_
  drain, drainAmount,  \* each close() and the amount it is answered
  accepted,     \* history: chunks in the order they were accepted
  sends, closes,       \* history: calls of send() and close()
  openAtClose   \* history: was the channel open when close() was called?

browserVars == <<ready, closing>>
openVars == <<opening, onceOpened, onceClosed, isOpen>>
sendVars == <<queue, armed, bytes, last, accepted, sends>>
flowVars == <<overflow, told, poll, pollAmount>>
closeVars == <<draining, drainAmount, closes, openAtClose>>
vars == <<browserVars, browser, received, openVars, sendVars, flowVars, listener,
          closeVars, drain>>

Closers == 1..MaxCloses
PollStates == {"idle", "asked", "answered", "timer"}
DrainStates == PollStates \cup {"js", "done", "failed", "gaveUp"}
Chunk == [id : Nat, str : BOOLEAN, size : Nat]

TypeOK ==
  /\ ready \in {"connecting", "open", "closed"} /\ closing \in BOOLEAN
  /\ browser \in Seq(Chunk) /\ received \in Seq(Chunk)
  /\ opening \in {"asked", "registered", "done"}
  /\ onceOpened \in {"pending", "fulfilled", "rejected"}
  /\ onceClosed \in BOOLEAN /\ isOpen \in BOOLEAN
  /\ queue \in Seq(Chunk) /\ armed \in BOOLEAN
  /\ bytes \in Nat /\ last \in Nat
  /\ overflow \in BOOLEAN
  /\ listener \in {"none", "owner", "close"}
  /\ told \in {"nothing", "overflow", "clear"}
  /\ poll \in PollStates /\ pollAmount \in Nat
  /\ draining \in BOOLEAN
  /\ drain \in [Closers -> DrainStates] /\ drainAmount \in [Closers -> Nat]
  /\ accepted \in Seq(Chunk)
  /\ sends \in 0..MaxSends /\ closes \in 0..MaxCloses
  /\ openAtClose \in BOOLEAN

\* A channel of the peer may already be open.
Init ==
  /\ ready \in {"connecting", "open"} /\ closing = FALSE
  /\ browser = <<>> /\ received = <<>>
  /\ opening = "asked" /\ onceOpened = "pending"
  /\ onceClosed = FALSE /\ isOpen = FALSE
  /\ queue = <<>> /\ armed = FALSE /\ bytes = 0 /\ last = 0
  /\ overflow = FALSE /\ listener = "none" /\ told = "nothing"
  /\ poll = "idle" /\ pollAmount = 0
  /\ draining = FALSE /\ drain = [c \in Closers |-> "idle"]
  /\ drainAmount = [c \in Closers |-> 0]
  /\ accepted = <<>> /\ sends = 0 /\ closes = 0 /\ openAtClose = FALSE

-----------------------------------------------------------------------------
Total(sizes) ==
  LET sum[n \in 0..Len(sizes)] == IF n = 0 THEN 0 ELSE sum[n - 1] + sizes[n]
  IN  sum[Len(sizes)]

\* All bytes of s, as the browser counts them.
Bytes(s) == Total([i \in DOMAIN s |-> s[i].size])

\* The bytes of s that this class counts: those in buffers.
BufferBytes(s) == Total([i \in DOMAIN s |-> IF s[i].str THEN 0 ELSE s[i].size])

\* Fault: the limit is not looked at.
CanSendUnlimited(open, amount) == open

\* canSendMore_, when isOpen_ is open and lastBrowserBufferedAmount_ amount.
CanSendMore(open, amount) == open /\ amount <= PC_QUEUE_LIMIT

\* How many chunks of q go to the browser before canSendMore_ fails; the
\* first k go without its being called.
Passed(open, amount, q, k) ==
  CHOOSE n \in k..Len(q) :
    \A m \in k..n :
      (m < n) <=> /\ m < Len(q)
                  /\ CanSendMore(open, amount + BufferBytes(SubSeq(q, 1, m)))

\* What the owner's listener has been told after setOverflow_(o).
ToldAfter(o) ==
  IF overflow = o \/ listener # "owner" THEN told
  ELSE IF o THEN "overflow" ELSE "clear"

\* setOverflow_: the listener is told of a change.  A close() that waits for
\* toPeerDataQueue_ to drain then asks the browser for its buffered amount.
SetOverflow(o) ==
  /\ overflow' = o
  /\ told' = ToldAfter(o)
  /\ drain' = [c \in Closers |->
                IF listener = "close" /\ overflow /\ ~o /\ drain[c] = "js"
                THEN "asked" ELSE drain[c]]

\* Fault: nothing is started that ends the overflow.
AwaitNothing == armed' = FALSE /\ poll' = "idle"

\* waitForOverflowToClear_, from sendNext_ when it cannot send.
AwaitClear == armed' = FALSE /\ poll' = "asked"

\* Fault: toPeerDataBytes_ goes down by the strings too.
BytesLessAll(added, out) == bytes + BufferBytes(added) - Bytes(out)

\* toPeerDataBytes_ after the chunks added are queued and out is passed on.
BytesAfter(added, out) == bytes + BufferBytes(added) - BufferBytes(out)

\* Fault: the chunk passed on last stays in the queue.
StillQueued(q, n) == IF n = 0 THEN q ELSE SubSeq(q, n, Len(q))

\* toPeerDataQueue_ after its first n elements are handled.
Unhandled(q, n) == SubSeq(q, n + 1, Len(q))

\* sendNext_ and handleSendDataToPeer_, which call each other through the
\* handler of the queue until the queue is empty or the browser has enough.
\* What is sent on a channel that is not open any more is lost.
SendNext(open, amount, added, k) ==
  LET q == queue \o added
      n == Passed(open, amount, q, k)
      out == SubSeq(q, 1, n)
  IN /\ queue' = Unhandled(q, n)
     /\ last' = amount + BufferBytes(out)
     /\ browser' = IF ready' = "open" /\ ~closing THEN browser \o out ELSE browser
     /\ bytes' = BytesAfter(added, out)
     /\ IF CanSendMore(open, last')
          THEN armed' = TRUE /\ poll' = "idle" /\ SetOverflow(FALSE)
          ELSE AwaitClear /\ SetOverflow(TRUE)

-----------------------------------------------------------------------------
\* The reaction to onceOpened.
Opened ==
  /\ onceOpened' = "fulfilled"
  /\ isOpen' = TRUE
  /\ SendNext(TRUE, last, <<>>, 0)
  /\ UNCHANGED <<accepted, pollAmount, sends>>

NotOpened ==
  UNCHANGED <<onceOpened, isOpen, sendVars, flowVars, drain, browser>>

\* getReadyState() is answered.  Only a channel still connecting registers
\* for onopen.
GotReadyState ==
  /\ opening = "asked"
  /\ opening' = IF ready = "connecting" THEN "registered" ELSE "done"
  /\ UNCHANGED <<browserVars, received, onceClosed, listener, closeVars>>
  /\ IF ready = "open" THEN Opened ELSE NotOpened

\* The browser opens the channel: onopen.
BrowserOpens ==
  /\ ready = "connecting" /\ ~closing
  /\ ready' = "open"
  /\ UNCHANGED <<closing, received, opening, onceClosed, listener, closeVars>>
  /\ IF opening = "registered" THEN Opened ELSE NotOpened

\* rejectOpened_, which has no effect on a settled promise.
OpenedRejected ==
  IF ~isOpen /\ onceOpened = "pending" THEN "rejected" ELSE onceOpened

\* onclose: the channel was closed here or by the peer.
BrowserCloses ==
  /\ ready # "closed"
  /\ ready' = "closed"
  /\ browser' = <<>>
  /\ onceClosed' = TRUE
  /\ onceOpened' = OpenedRejected
  /\ isOpen' = FALSE
  /\ UNCHANGED <<closing, received, opening, sendVars, flowVars, listener,
                 closeVars, drain>>

\* The next chunk reaches the peer.
Transmit ==
  /\ ready = "open" /\ browser # <<>>
  /\ received' = Append(received, Head(browser))
  /\ browser' = Tail(browser)
  /\ UNCHANGED <<browserVars, openVars, sendVars, flowVars, listener, closeVars,
                 drain>>

-----------------------------------------------------------------------------
\* The browser reads bufferedAmount for waitForOverflowToClear_ ...
PollRead ==
  /\ poll = "asked"
  /\ poll' = "answered"
  /\ pollAmount' = Bytes(browser)
  /\ UNCHANGED <<browserVars, browser, received, openVars, sendVars, overflow, told,
                 listener, closeVars, drain>>

\* Fault: the poll is not repeated.
PollOnce == "idle"

\* Poll again in 20 ms, unless the channel has closed.
PollAgain == IF isOpen THEN "timer" ELSE "idle"

\* ... and its answer arrives.
PollAnswered ==
  /\ poll = "answered"
  /\ UNCHANGED <<browserVars, received, openVars, accepted, sends, listener, closeVars>>
  /\ pollAmount' = 0
  /\ IF CanSendMore(isOpen, pollAmount)
       THEN SendNext(isOpen, pollAmount, <<>>, 0)
       ELSE /\ last' = pollAmount
            /\ poll' = PollAgain
            /\ UNCHANGED <<queue, armed, bytes, browser, overflow, told, drain>>

PollTimer ==
  /\ poll = "timer"
  /\ poll' = "asked"
  /\ UNCHANGED <<browserVars, browser, received, openVars, sendVars, overflow, told,
                 pollAmount, listener, closeVars, drain>>

\* The browser reads bufferedAmount for waitForBrowserToDrain_ of close() c ...
DrainRead(c) ==
  /\ drain[c] = "asked"
  /\ drain' = [drain EXCEPT ![c] = "answered"]
  /\ drainAmount' = [drainAmount EXCEPT ![c] = Bytes(browser)]
  /\ UNCHANGED <<browserVars, browser, received, openVars, sendVars, flowVars, listener,
                 draining, closes, openAtClose>>

\* Ask again in 20 ms, unless the channel has closed.
DrainAgain == IF isOpen THEN "timer" ELSE "gaveUp"

\* ... and its answer arrives.  When nothing is left the RTCDataChannel is
\* closed.
DrainAnswered(c) ==
  /\ drain[c] = "answered"
  /\ drainAmount' = [drainAmount EXCEPT ![c] = 0]
  /\ drain' = [drain EXCEPT ![c] = IF drainAmount[c] = 0 THEN "done" ELSE DrainAgain]
  /\ closing' = (closing \/ drainAmount[c] = 0)
  /\ UNCHANGED <<ready, browser, received, openVars, sendVars, flowVars, listener,
                 draining, closes, openAtClose>>

DrainTimer(c) ==
  /\ drain[c] = "timer"
  /\ drain' = [drain EXCEPT ![c] = "asked"]
  /\ UNCHANGED <<browserVars, browser, received, openVars, sendVars, flowVars, listener,
                 closeVars>>

-----------------------------------------------------------------------------
\* What send() puts on the queue: a string whole, and a buffer in chunks of
\* CHUNK_SIZE and a rest; an empty buffer has no chunk.
Chunks(str, size) ==
  LET n == IF str THEN 1 ELSE (size + CHUNK_SIZE - 1) \div CHUNK_SIZE
  IN [i \in 1..n |->
       [id |-> Len(accepted) + i, str |-> str,
        size |-> IF str THEN size
                 ELSE IF i < n THEN CHUNK_SIZE
                 ELSE size - (n - 1) * CHUNK_SIZE]]

\* send(): rejected, without effect, once close() has been called.  If the
\* queue has its handler the first chunk is passed on at once.
Send(str, size) ==
  /\ sends < MaxSends /\ ~draining
  /\ sends' = sends + 1
  /\ UNCHANGED <<browserVars, received, openVars, pollAmount, listener, closeVars>>
  /\ LET chunks == Chunks(str, size)
     IN /\ accepted' = accepted \o chunks
        /\ IF armed /\ chunks # <<>>
             THEN SendNext(isOpen, last, chunks, 1)
             ELSE /\ queue' = queue \o chunks
                  /\ bytes' = BytesAfter(chunks, <<>>)
                  /\ UNCHANGED <<armed, last, browser, overflow, told, poll, drain>>

\* setOverflowListener() by the owner; it throws once close() has been called.
SetOverflowListener ==
  /\ ~draining /\ listener = "none"
  /\ listener' = "owner"
  /\ UNCHANGED <<browserVars, browser, received, openVars, sendVars, flowVars, closeVars,
                 drain>>

\* Where a close() begins.  A second one that would have to wait for
\* toPeerDataQueue_ fails, because it cannot set the overflow listener.
FirstWait == IF bytes = 0 THEN "asked" ELSE IF draining THEN "failed" ELSE "js"

\* close()
Close ==
  /\ closes < MaxCloses
  /\ closes' = closes + 1
  /\ drain' = [drain EXCEPT ![closes + 1] = FirstWait]
  /\ listener' = IF bytes > 0 /\ ~draining THEN "close" ELSE listener
  /\ draining' = TRUE
  /\ openAtClose' = IF draining THEN openAtClose ELSE isOpen
  /\ UNCHANGED <<browserVars, browser, received, openVars, sendVars, flowVars, drainAmount>>

Browser ==
  \/ GotReadyState \/ BrowserOpens \/ BrowserCloses \/ Transmit
  \/ PollRead \/ PollAnswered \/ PollTimer
  \/ \E c \in Closers : DrainRead(c) \/ DrainAnswered(c) \/ DrainTimer(c)

Owner ==
  \/ Send(TRUE, StringSize)
  \/ \E size \in BufferSizes : Send(FALSE, size)
  \/ SetOverflowListener
  \/ Close

Next == Browser \/ Owner

Spec == Init /\ [][Next]_vars

\* The browser answers, sends what it has buffered, and closes a channel that
\* was told to close.  Timers fire.
FairSpec ==
  /\ Spec
  /\ WF_vars(GotReadyState)
  /\ WF_vars(Transmit)
  /\ WF_vars(closing /\ BrowserCloses)
  /\ WF_vars(PollRead) /\ WF_vars(PollAnswered) /\ WF_vars(PollTimer)
  /\ \A c \in Closers :
       WF_vars(DrainRead(c)) /\ WF_vars(DrainAnswered(c)) /\ WF_vars(DrainTimer(c))

-----------------------------------------------------------------------------
(* Properties *)

\* While the channel is open, either the queue has its handler and is empty,
\* or one poll is under way that will set it; never both (the "Last packet
\* handler should not still be present" of sendNext_), never neither.
OnePump == isOpen => /\ armed <=> poll = "idle"
                     /\ armed => queue = <<>>

\* lastBrowserBufferedAmount_ bounds the buffers in the browser, although its
\* readings are stale, so that the browser never holds more of them than the
\* limit and one chunk.
BufferedBound ==
  isOpen => /\ BufferBytes(browser) <= last
            /\ last <= PC_QUEUE_LIMIT + CHUNK_SIZE + MaxSends * StringSize
            /\ BufferBytes(browser) <= PC_QUEUE_LIMIT + CHUNK_SIZE

\* close() closes the RTCDataChannel only after every buffer accepted by
\* send() was passed to the browser.
BuffersSentBeforeClose ==
  closing /\ openAtClose /\ ready = "open" => \A i \in DOMAIN queue : queue[i].str

\* Buffers are held back neither too little nor for too long: the browser is not
\* flooded, and close() waits for those that are held back.
BufferBounds == BufferedBound /\ BuffersSentBeforeClose

\* The channel is reliable and ordered: chunking, queueing and the overflow
\* never lose, repeat or reorder a chunk.
Channel == INSTANCE OrderedChannel
             WITH delivered <- received, closed <- onceClosed
Ordered == Channel!Spec

\* While the channel stays open, what was sent arrives.
EverythingArrives ==
  (isOpen /\ received # accepted) ~> (received = accepted \/ ~isOpen)

\* An owner that was told of overflow (and so has paused its source) is told
\* when it is over, unless the channel is closed.
OverflowClears ==
  (isOpen /\ told = "overflow") ~> (told = "clear" \/ draining \/ ~isOpen)

\* close() of an open channel completes.
CloseCompletes == (draining /\ openAtClose) ~> onceClosed

\* Nothing that was held back stays so: neither data, nor overflow, nor close().
Progress == EverythingArrives /\ OverflowClears /\ CloseCompletes
=============================================================================
