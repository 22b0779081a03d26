---------------------------- MODULE HandlerQueue ----------------------------
(***************************************************************************)
(* The handler queue of src/src/handler/queue.ts: a stream of events and a *)
(* stream of functions that handle them.  Every channel, socket and signal *)
(* of the library is one of these queues.                                  *)
(*                                                                         *)
(* The class is single-threaded but re-entrant: a handler may call the     *)
(* queue that is calling it.  The call stack is therefore part of the      *)
(* state.  A frame "loop" is a processQueue_ in progress, a frame "body"   *)
(* is user code run by the queue, and a frame "arm" is a setNextHandler    *)
(* whose setHandler call has not returned.  User code may call the queue   *)
(* when the stack is empty or when it is the code on top of the stack.     *)
(*                                                                         *)
(* Events are numbered in order of arrival.  Calls that set a handler are  *)
(* numbered too: the number stands for the function and, for a one-shot    *)
(* handler, for the promise setNextHandler returns.                        *)
(***************************************************************************)
EXTENDS Naturals, Sequences, FiniteSets

CONSTANTS
  MaxEvents,  \* bound: calls of handle()
  MaxSets,    \* bound: calls of setHandler() and setNextHandler()
  MaxDepth    \* bound: depth of the call stack from which handlers call

ASSUME BoundsAssumption ==
  MaxEvents \in Nat /\ MaxSets \in Nat /\ MaxDepth \in Nat

VARIABLES
  queue,     \* queue_: events waiting, oldest first
  handler,   \* handler_: 0 stands for null
  rejectFn,  \* rejectFn_: the setNextHandler call whose promise it rejects
  stats,     \* stats_
  stack,     \* the synchronous call stack, innermost frame first
  oneShot,   \* the handlers that setNextHandler installed
  calls,     \* calls of setHandler and setNextHandler so far
  promise,   \* state of the promise of each setNextHandler call
  result,    \* state of the promise of each event
  running,   \* handler calls whose own promise has not settled
  left,      \* history: events that left the queue, in order
  direct,    \* history: events handled without being queued
  uses,      \* history: how many events each handler was called with
  nested,    \* history: has a handler been set while setNextHandler was running?
  thrown     \* history: has a handler thrown?

vars == <<queue, handler, rejectFn, stats, stack, oneShot, calls, promise,
          result, running, left, direct, uses, nested, thrown>>

Events == 1..MaxEvents
Handlers == 1..MaxSets
Null == 0

\* The frames of the call stack, by the code that is running in them.
Frame ==
  [at : {"loop"}, event : {0}, handler : {Null}, queued : {FALSE}]
    \cup [at : {"arm"}, event : {0}, handler : Handlers, queued : {FALSE}]
    \cup [at : {"body"}, event : Events, handler : Handlers, queued : BOOLEAN]

LoopFrame == [at |-> "loop", event |-> 0, handler |-> Null, queued |-> FALSE]
ArmFrame(p) == [at |-> "arm", event |-> 0, handler |-> p, queued |-> FALSE]
BodyFrame(x, h, q) == [at |-> "body", event |-> x, handler |-> h, queued |-> q]

\* A handler call whose promise is outstanding: the event, the function, and
\* whether the event came off the queue (its promise is then a
\* PendingPromiseHandler's, not the handler's own).
Call == [event : Events, handler : Handlers, queued : BOOLEAN]

StatNames == {"total", "queued", "immediate", "queuedHandled", "rejected",
              "set", "change", "clear", "rejections"}

Settled == {"fulfilled", "rejected"}
PromiseState == {"absent", "pending"} \cup Settled

TypeOK ==
  /\ queue \in Seq(Events)
  /\ handler \in 0..MaxSets
  /\ rejectFn \in 0..MaxSets
  /\ stats \in [StatNames -> Nat]
  /\ stack \in Seq(Frame)
  /\ oneShot \subseteq Handlers
  /\ calls \in 0..MaxSets
  /\ promise \in [Handlers -> PromiseState]
  /\ result \in [Events -> PromiseState]
  /\ running \subseteq Call
  /\ left \in Seq(Events)
  /\ direct \subseteq Events
  /\ uses \in [Handlers -> Nat]
  /\ nested \in BOOLEAN /\ thrown \in BOOLEAN

Init ==
  /\ queue = <<>> /\ handler = Null /\ rejectFn = Null
  /\ stats = [n \in StatNames |-> 0]
  /\ stack = <<>> /\ oneShot = {} /\ calls = 0
  /\ promise = [h \in Handlers |-> "absent"]
  /\ result = [x \in Events |-> "absent"]
  /\ running = {} /\ left = <<>> /\ direct = {}
  /\ uses = [h \in Handlers |-> 0] /\ nested = FALSE /\ thrown = FALSE

-----------------------------------------------------------------------------
\* User code is running: nothing is on the stack, or a handler is on top.
UserCode ==
  \/ stack = <<>>
  \/ stack # <<>> /\ stack[1].at = "body" /\ Len(stack) < MaxDepth

Idle == stack = <<>>

\* A call of setNextHandler has not returned: the queue hands events over, to the
\* handler it has installed, on top of it.
Setting == \E i \in 1..Len(stack) : stack[i].at = "arm"

\* A promise can settle once; later attempts have no effect.
Settle(f, i, s) == [f EXCEPT ![i] = IF @ = "pending" THEN s ELSE @]

\* The promises after the one behind rejectFn_, if any, is rejected.
ArmedRejected == IF rejectFn = Null THEN promise
                 ELSE Settle(promise, rejectFn, "rejected")

\* Add one to each of the named counters.
Bump(names) ==
  stats' = [n \in StatNames |-> IF n \in names THEN stats[n] + 1 ELSE stats[n]]

Rejections == IF rejectFn = Null THEN {} ELSE {"rejections"}

\* Calling handler_ on an event.  The wrapper that setNextHandler installs
\* takes itself off the queue before it runs the user's function.
Invoke(x, q, counters) ==
  /\ stack' = <<BodyFrame(x, handler, q)>> \o stack
  /\ uses' = [uses EXCEPT ![handler] = @ + 1]
  /\ IF handler \in oneShot
       THEN handler' = Null /\ rejectFn' = Null /\ Bump(counters \cup {"clear"})
       ELSE Bump(counters) /\ UNCHANGED <<handler, rejectFn>>

\* handle(x) when a handler is installed: its promise is handle()'s own.
HandleNow(x) ==
  /\ handler # Null
  /\ Invoke(x, FALSE, {"total", "immediate"})
  /\ direct' = direct \cup {x}
  /\ UNCHANGED queue

\* Fault: the newest event is put at the front.
EnqueueFront(x) ==
  /\ handler = Null
  /\ queue' = <<x>> \o queue
  /\ Bump({"total", "queued"})
  /\ UNCHANGED <<handler, rejectFn, stack, direct, uses>>

\* handle(x) when none is: the event waits.
Enqueue(x) ==
  /\ handler = Null
  /\ queue' = Append(queue, x)
  /\ Bump({"total", "queued"})
  /\ UNCHANGED <<handler, rejectFn, stack, direct, uses>>

Handle ==
  /\ UserCode
  /\ stats.total < MaxEvents
  /\ LET x == stats.total + 1 IN
     /\ result' = [result EXCEPT ![x] = "pending"]
     /\ HandleNow(x) \/ Enqueue(x)
  /\ UNCHANGED <<oneShot, calls, promise, running, left, nested, thrown>>

\* One test of the while condition of processQueue_, and the shift and the
\* call if it holds.
ProcessQueue ==
  /\ ~Idle /\ stack[1].at = "loop"
  /\ \/ /\ handler # Null /\ queue # <<>>
        /\ queue' = Tail(queue)
        /\ left' = Append(left, Head(queue))
        /\ Invoke(Head(queue), TRUE, {"queuedHandled"})
     \/ /\ handler = Null \/ queue = <<>>
        /\ stack' = Tail(stack)
        /\ UNCHANGED <<queue, left, handler, rejectFn, stats, uses>>
  /\ UNCHANGED <<oneShot, calls, promise, result, running, direct, nested, thrown>>

\* clear()
Clear ==
  /\ UserCode
  /\ stats' = [stats EXCEPT !.rejected = @ + Len(queue)]
  /\ left' = left \o queue
  /\ queue' = <<>>
  /\ result' = [x \in Events |-> IF \E i \in 1..Len(queue) : queue[i] = x
                                 THEN "rejected" ELSE result[x]]
  /\ UNCHANGED <<handler, rejectFn, stack, oneShot, calls, promise, running,
                 direct, uses, nested, thrown>>

\* Fault: setHandler leaves what is queued to the next call of handle().
InstallNoDrain(h, below) ==
  /\ calls' = h
  /\ handler' = h
  /\ rejectFn' = Null
  /\ Bump(Rejections \cup {IF handler = Null THEN "set" ELSE "change"})
  /\ stack' = below

\* setHandler(h) up to its call of processQueue_: below is what the frame of
\* processQueue_ returns to.
Install(h, below) ==
  /\ calls' = h
  /\ handler' = h
  /\ rejectFn' = Null
  /\ Bump(Rejections \cup {IF handler = Null THEN "set" ELSE "change"})
  /\ stack' = <<LoopFrame>> \o below

\* setHandler(h) and setSyncHandler(h); setHandler(null) throws and changes
\* nothing.
SetHandler ==
  /\ UserCode /\ calls < MaxSets
  /\ nested' = (nested \/ Setting)
  /\ Install(calls + 1, stack)
  /\ promise' = ArmedRejected
  /\ UNCHANGED <<queue, oneShot, result, running, left, direct, uses, thrown>>

\* setNextHandler(h) and setSyncNextHandler(h), up to processQueue_.
SetNextHandler ==
  /\ UserCode /\ calls < MaxSets
  /\ nested' = (nested \/ Setting)
  /\ Install(calls + 1, <<ArmFrame(calls + 1)>> \o stack)
  /\ oneShot' = oneShot \cup {calls + 1}
  /\ promise' = [ArmedRejected EXCEPT ![calls + 1] = "pending"]
  /\ UNCHANGED <<queue, result, running, left, direct, uses, thrown>>

\* Fault: setNextHandler leaves no rejection function behind.
ArmForgets ==
  /\ ~Idle /\ stack[1].at = "arm"
  /\ stack' = Tail(stack)
  /\ UNCHANGED <<queue, handler, rejectFn, stats, oneShot, calls, promise, result,
                 running, left, direct, uses, nested, thrown>>

\* The end of setNextHandler: leave a rejection function behind if some
\* handler is still installed.
Arm ==
  /\ ~Idle /\ stack[1].at = "arm"
  /\ rejectFn' = IF handler # Null THEN stack[1].handler ELSE rejectFn
  /\ stack' = Tail(stack)
  /\ UNCHANGED <<queue, handler, stats, oneShot, calls, promise, result,
                 running, left, direct, uses, nested, thrown>>

\* stopHandling()
StopHandling ==
  /\ UserCode
  /\ promise' = ArmedRejected
  /\ rejectFn' = Null
  /\ handler' = Null
  /\ Bump(Rejections \cup (IF handler = Null THEN {} ELSE {"clear"}))
  /\ UNCHANGED <<queue, stack, oneShot, calls, result, running, left, direct, uses, nested, thrown>>

-----------------------------------------------------------------------------
\* Fault: the call is recorded under the handler installed when it returns.
ReturnReadsHandler ==
  /\ ~Idle /\ stack[1].at = "body"
  /\ running' = running \cup {[event |-> stack[1].event, handler |-> handler,
                               queued |-> stack[1].queued]}
  /\ stack' = Tail(stack)
  /\ UNCHANGED <<queue, handler, rejectFn, stats, oneShot, calls, promise,
                 result, left, direct, uses, nested, thrown>>

\* The handler on top of the stack returns its promise.
Return ==
  /\ ~Idle /\ stack[1].at = "body"
  /\ running' = running \cup {[event |-> stack[1].event,
                               handler |-> stack[1].handler,
                               queued |-> stack[1].queued]}
  /\ stack' = Tail(stack)
  /\ UNCHANGED <<queue, handler, rejectFn, stats, oneShot, calls, promise,
                 result, left, direct, uses, nested, thrown>>

\* The handler on top of the stack throws.  The exception leaves the
\* processQueue_ that called it and is caught by the promise constructor of
\* setNextHandler, or by the user code below, which may throw in its turn.
Throw ==
  /\ thrown' = TRUE
  /\ ~Idle /\ stack[1].at = "body"
  /\ LET rest == Tail(stack)
         out == IF rest # <<>> /\ rest[1].at = "loop" THEN Tail(rest) ELSE rest
     IN IF out # <<>> /\ out[1].at = "arm"
          THEN /\ stack' = Tail(out)
               /\ promise' = Settle(promise, out[1].handler, "rejected")
          ELSE /\ stack' = out
               /\ UNCHANGED promise
  /\ UNCHANGED <<queue, handler, rejectFn, stats, oneShot, calls, result,
                 running, left, direct, uses, nested>>

\* The promise a handler returned is fulfilled: so are the event's promise
\* and, for a one-shot handler, the promise of setNextHandler.
HandlerFulfils ==
  /\ Idle
  /\ \E c \in running :
       /\ running' = running \ {c}
       /\ result' = Settle(result, c.event, "fulfilled")
       /\ promise' = IF c.handler \in oneShot
                     THEN Settle(promise, c.handler, "fulfilled") ELSE promise
  /\ UNCHANGED <<queue, handler, rejectFn, stats, stack, oneShot, calls, left,
                 direct, uses, nested, thrown>>

\* The promise a handler returned is rejected.  handle() returned that very
\* promise if it called the handler itself, but handleWith and the wrapper of
\* setNextHandler forward fulfilment only.
HandlerRejects ==
  /\ Idle
  /\ \E c \in running :
       /\ running' = running \ {c}
       /\ result' = IF c.queued THEN result
                    ELSE Settle(result, c.event, "rejected")
  /\ UNCHANGED <<queue, handler, rejectFn, stats, stack, oneShot, calls,
                 promise, left, direct, uses, nested, thrown>>

Next ==
  \/ Handle \/ Clear \/ SetHandler \/ SetNextHandler \/ StopHandling
  \/ ProcessQueue \/ Arm \/ Return \/ Throw
  \/ HandlerFulfils \/ HandlerRejects

Spec == Init /\ [][Next]_vars

-----------------------------------------------------------------------------
(* Properties *)

\* The counters account for every event.  Events that arrived were queued or
\* handled at once; events that were queued were handled, rejected by a clear,
\* or are still waiting.  This is how the code counts, not what the comment on
\* HandlerQueueStats (queue.ts:40-43) says: there the rejected are added to the
\* queued and to those handled at once, though each was counted as queued when it
\* came, so that the comment is false from the first clear() that rejects.
StatsAccount ==
  /\ stats.total = stats.queued + stats.immediate
  /\ stats.queued = stats.queuedHandled + stats.rejected + Len(queue)

\* Each event has exactly one destiny, and the queue hands events over in the
\* order they arrived: the events that left the queue, followed by those in
\* it, are in order of arrival without repetition, and together with those
\* handled directly they are all the events that arrived.
Order == left \o queue

Fifo == \A i, j \in 1..Len(Order) : i < j => Order[i] < Order[j]

Ordered(x) == \E i \in 1..Len(Order) : Order[i] = x

ExactlyOnce ==
  \A x \in Events :
    IF x > stats.total THEN x \notin direct /\ ~Ordered(x)
                       ELSE x \in direct <=> ~Ordered(x)

EachOnceInOrder == Fifo /\ ExactlyOnce

\* handler_set_count and handler_clear_count are the edges of one bit: their
\* difference says whether a handler is installed, whoever removed the last
\* one (stopHandling, or a one-shot handler that removed itself).
HandlerEdges ==
  stats.set = stats.clear + (IF handler = Null THEN 0 ELSE 1)

\* The handler given to setNextHandler sees one event at most, also when the
\* queue is full of events and the handler calls the queue.
OneShotOnce == \A h \in oneShot : uses[h] <= 1

\* Until a handler throws, a handler is never installed over a non-empty
\* queue while no call of the queue is in progress: handle() cannot let an
\* event overtake those that wait.
DrainedWhenIdle == Idle /\ handler # Null /\ ~thrown => queue = <<>>

\* The promise of setNextHandler does not dangle: when a one-shot handler is
\* taken off the queue, it has been called or its promise has been rejected,
\* whatever handlers do, but for one thing: a handler set while a call of
\* setNextHandler hands events over.  That call finds it installed when it looks
\* at handler_ (queue.ts:292), and puts its own rejection function, whose promise
\* is settled, in the place of the other's.
NextHandlerNotLost ==
  [][\A h \in oneShot :
       ~nested /\ handler = h /\ handler' # h
         => uses'[h] = 1 \/ promise'[h] \in Settled]_vars

\* What the promise of setNextHandler rests on: its handler is called once at
\* most, and taken off the queue only if it was called or its promise rejected.
OneShotContract == []OneShotOnce /\ NextHandlerNotLost
=============================================================================
