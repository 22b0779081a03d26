----------------------------- MODULE SocketProofs -----------------------------
(***************************************************************************)
(* Proofs about HandlerQueue, for every value of its constants; about      *)
(* Counter, for any finite set of calls; and about the connection that     *)
(* EXTENDS it, for any messages, and any number of receives, buffers and   *)
(* reports of the disconnection.                                           *)
(***************************************************************************)
EXTENDS HandlerQueue, TcpConnection, FiniteSetTheorems, SequenceTheorems, TLAPS

USE BoundsAssumption

-----------------------------------------------------------------------------
(* What the parts of an action do to the types. *)

LEMMA PushFrame ==
  ASSUME NEW f \in Frame, NEW s \in Seq(Frame)
  PROVE  <<f>> \o s \in Seq(Frame)
  BY ConcatProperties

LEMMA FrameFields ==
  /\ LoopFrame \in Frame
  /\ \A p \in Handlers : ArmFrame(p) \in Frame
  /\ \A x \in Events, h \in Handlers, q \in BOOLEAN : BodyFrame(x, h, q) \in Frame
  /\ \A f \in Frame : f.at = "arm" => f.handler \in Handlers
  /\ \A f \in Frame : f.at = "body" =>
       /\ f.event \in Events /\ f.handler \in Handlers /\ f.queued \in BOOLEAN
  BY DEF Frame, LoopFrame, ArmFrame, BodyFrame

LEMMA SettleType ==
  ASSUME NEW S, NEW f \in [S -> PromiseState], NEW i, NEW s \in Settled
  PROVE  Settle(f, i, s) \in [S -> PromiseState]
  BY DEF Settle, PromiseState, Settled

LEMMA SettleTypes ==
  ASSUME TypeOK
  PROVE  /\ \A i, s : s \in Settled =>
                Settle(promise, i, s) \in [Handlers -> PromiseState]
         /\ \A i, s : s \in Settled =>
                Settle(result, i, s) \in [Events -> PromiseState]
         /\ "fulfilled" \in Settled /\ "rejected" \in Settled
  BY SettleType DEF TypeOK, Settled

LEMMA ArmedRejectedType ==
  ASSUME promise \in [Handlers -> PromiseState]
  PROVE  ArmedRejected \in [Handlers -> PromiseState]
  BY SettleType DEF ArmedRejected, Settled

LEMMA BumpType ==
  ASSUME stats \in [StatNames -> Nat], NEW names, Bump(names)
  PROVE  stats' \in [StatNames -> Nat]
  BY DEF Bump

LEMMA TotalType ==
  ASSUME TypeOK, stats.total < MaxEvents
  PROVE  stats.total + 1 \in Events
  BY DEF TypeOK, StatNames, Events

LEMMA InvokeType ==
  ASSUME TypeOK, NEW x \in Events, NEW q \in BOOLEAN, NEW names, handler # Null,
         Invoke(x, q, names)
  PROVE  /\ stack' \in Seq(Frame)
         /\ handler' \in 0..MaxSets
         /\ rejectFn' \in 0..MaxSets
         /\ stats' \in [StatNames -> Nat]
         /\ uses' \in [Handlers -> Nat]
<1>1. handler \in Handlers /\ stack \in Seq(Frame)
  BY DEF TypeOK, Handlers, Null
<1>2. stack' \in Seq(Frame)
  BY <1>1, FrameFields, PushFrame DEF Invoke
<1>3. handler' \in 0..MaxSets /\ rejectFn' \in 0..MaxSets
  BY DEF Invoke, TypeOK, Null
<1>4. stats' \in [StatNames -> Nat]
  BY BumpType DEF Invoke, TypeOK
<1>5. uses' \in [Handlers -> Nat]
  BY <1>1 DEF Invoke, TypeOK
<1> QED
  BY <1>2, <1>3, <1>4, <1>5

LEMMA InstallType ==
  ASSUME TypeOK, calls < MaxSets, NEW below \in Seq(Frame),
         Install(calls + 1, below)
  PROVE  /\ calls + 1 \in Handlers
         /\ stack' \in Seq(Frame)
         /\ handler' \in 0..MaxSets /\ rejectFn' \in 0..MaxSets
         /\ calls' \in 0..MaxSets
         /\ stats' \in [StatNames -> Nat]
<1>1. calls + 1 \in Handlers
  BY DEF TypeOK, Handlers
<1>2. stack' \in Seq(Frame)
  BY FrameFields, PushFrame DEF Install
<1>3. stats' \in [StatNames -> Nat]
  BY BumpType DEF Install, TypeOK
<1> QED
  BY <1>1, <1>2, <1>3 DEF Install, Handlers, Null

LEMMA TopFrame ==
  ASSUME stack \in Seq(Frame), ~Idle
  PROVE  stack[1] \in Frame /\ Tail(stack) \in Seq(Frame)
  BY DEF Idle

-----------------------------------------------------------------------------
\* TypeOK: no call of the queue, whatever the handlers do while they run,
\* leaves a field of the class or of the call stack outside of its type.
THEOREM TypeInvariant == Spec => []TypeOK
<1>1. Init => TypeOK
  <2> SUFFICES ASSUME Init PROVE TypeOK
    OBVIOUS
  <2>1. stats \in [StatNames -> Nat] /\ uses \in [Handlers -> Nat]
    BY DEF Init
  <2>2. promise \in [Handlers -> PromiseState] /\ result \in [Events -> PromiseState]
    BY DEF Init, PromiseState
  <2>3. queue \in Seq(Events) /\ left \in Seq(Events) /\ stack \in Seq(Frame)
    BY EmptySeq DEF Init
  <2>4. handler \in 0..MaxSets /\ rejectFn \in 0..MaxSets /\ calls \in 0..MaxSets
    BY DEF Init, Null
  <2>5. /\ oneShot \subseteq Handlers /\ running \subseteq Call /\ direct \subseteq Events
        /\ nested \in BOOLEAN /\ thrown \in BOOLEAN
    BY DEF Init
  <2> QED
    BY <2>1, <2>2, <2>3, <2>4, <2>5 DEF TypeOK
<1>2. TypeOK /\ [Next]_vars => TypeOK'
  <2> SUFFICES ASSUME TypeOK, [Next]_vars PROVE TypeOK'
    OBVIOUS
  <2>1. CASE Handle
    <3>1. stats.total + 1 \in Events
      BY <2>1, TotalType DEF Handle, HandleNow, Enqueue
    <3>2. result' \in [Events -> PromiseState]
      BY <2>1, <3>1 DEF Handle, HandleNow, Enqueue, TypeOK, PromiseState
    <3>3. CASE handler = Null
      <4>1. queue' = Append(queue, stats.total + 1) /\ Bump({"total", "queued"})
            /\ UNCHANGED <<handler, rejectFn, stack, direct, uses>>
        BY <2>1, <3>3 DEF Handle, HandleNow, Enqueue
      <4>2. queue' \in Seq(Events) /\ stats' \in [StatNames -> Nat]
        BY <3>1, <4>1, BumpType, AppendProperties DEF TypeOK
      <4>3. UNCHANGED <<oneShot, calls, promise, running, left, nested, thrown>>
        BY <2>1 DEF Handle, HandleNow, Enqueue
      <4> QED
        BY <3>2, <4>1, <4>2, <4>3 DEF TypeOK
    <3>4. CASE handler # Null
      <4>1. Invoke(stats.total + 1, FALSE, {"total", "immediate"})
            /\ direct' = direct \cup {stats.total + 1} /\ UNCHANGED queue
        BY <2>1, <3>4 DEF Handle, HandleNow, Enqueue
      <4> QED
        BY <2>1, <3>1, <3>2, <3>4, <4>1, InvokeType DEF Handle, HandleNow, Enqueue, TypeOK
    <3> QED
      BY <3>3, <3>4
  <2>2. CASE Clear
    <3>0. stats' \in [StatNames -> Nat]
      <4>1. "rejected" \in StatNames /\ Len(queue) \in Nat
        BY DEF TypeOK, StatNames
      <4>2. stats' = [stats EXCEPT !.rejected = @ + Len(queue)]
        BY <2>2 DEF Clear
      <4>3. stats \in [StatNames -> Nat] /\ stats["rejected"] \in Nat
        BY <4>1 DEF TypeOK
      <4> QED
        BY <4>1, <4>2, <4>3
    <3>1. result' \in [Events -> PromiseState]
      <4>1. "rejected" \in PromiseState
        BY DEF PromiseState, Settled
      <4> QED
        BY <2>2, <4>1 DEF Clear, TypeOK
    <3>2. left' \in Seq(Events) /\ queue' \in Seq(Events)
      BY <2>2, ConcatProperties, EmptySeq DEF Clear, TypeOK
    <3> QED
      BY <2>2, <3>0, <3>1, <3>2 DEF Clear, TypeOK
  <2>3. CASE SetHandler
    BY <2>3, InstallType, ArmedRejectedType DEF SetHandler, TypeOK
  <2>4. CASE SetNextHandler
    <3>1. calls < MaxSets /\ calls + 1 \in Handlers
      BY <2>4 DEF SetNextHandler, TypeOK, Handlers
    <3>2. <<ArmFrame(calls + 1)>> \o stack \in Seq(Frame)
      BY <3>1, FrameFields, PushFrame DEF TypeOK
    <3>3. promise' \in [Handlers -> PromiseState]
      BY <2>4, ArmedRejectedType DEF SetNextHandler, TypeOK, PromiseState
    <3> QED
      BY <2>4, <3>1, <3>2, <3>3, InstallType DEF SetNextHandler, TypeOK
  <2>5. CASE StopHandling
    BY <2>5, BumpType, ArmedRejectedType DEF StopHandling, TypeOK, Null
  <2>6. CASE ProcessQueue
    <3>1. CASE handler # Null /\ queue # <<>>
      <4>1. Head(queue) \in Events /\ Tail(queue) \in Seq(Events)
        BY <3>1 DEF TypeOK
      <4>2. /\ Invoke(Head(queue), TRUE, {"queuedHandled"})
            /\ left' = Append(left, Head(queue)) /\ queue' = Tail(queue)
        BY <2>6, <3>1 DEF ProcessQueue
      <4>3. left' \in Seq(Events)
        BY <4>1, <4>2, AppendProperties DEF TypeOK
      <4> QED
        BY <2>6, <3>1, <4>1, <4>2, <4>3, InvokeType DEF ProcessQueue, TypeOK
    <3>2. CASE ~(handler # Null /\ queue # <<>>)
      BY <2>6, <3>2, TopFrame DEF ProcessQueue, TypeOK
    <3> QED
      BY <3>1, <3>2
  <2>7. CASE Arm
    BY <2>7, TopFrame, FrameFields DEF Arm, TypeOK, Handlers
  <2>8. CASE Return
    <3>1. running' \subseteq Call
      BY <2>8, TopFrame, FrameFields DEF Return, TypeOK, Call
    <3> QED
      BY <2>8, <3>1, TopFrame DEF Return, TypeOK
  <2>9. CASE Throw
    <3> DEFINE rest == Tail(stack)
               out == IF rest # <<>> /\ rest[1].at = "loop"
                      THEN Tail(rest) ELSE rest
    <3>1. rest \in Seq(Frame)
      BY <2>9, TopFrame DEF Throw, TypeOK
    <3>2. out \in Seq(Frame)
      BY <3>1
    <3>3. out # <<>> => Tail(out) \in Seq(Frame)
      BY <3>2
    <3>4. stack' \in Seq(Frame)
      BY <2>9, <3>2, <3>3 DEF Throw
    <3>5. promise' \in [Handlers -> PromiseState]
      <4>1. promise' = promise \/ \E i : promise' = Settle(promise, i, "rejected")
        BY <2>9 DEF Throw
      <4> QED
        BY <4>1, SettleTypes DEF TypeOK
    <3> QED
      BY <2>9, <3>4, <3>5 DEF Throw, TypeOK
  <2>10. CASE HandlerFulfils
    <3>1. result' \in [Events -> PromiseState] /\ promise' \in [Handlers -> PromiseState]
      <4>1. PICK c \in running :
              /\ result' = Settle(result, c.event, "fulfilled")
              /\ promise' = IF c.handler \in oneShot
                            THEN Settle(promise, c.handler, "fulfilled")
                            ELSE promise
        BY <2>10 DEF HandlerFulfils
      <4> QED
        BY <4>1, SettleTypes DEF TypeOK
    <3>2. running' \subseteq running
      BY <2>10 DEF HandlerFulfils
    <3> QED
      BY <2>10, <3>1, <3>2 DEF HandlerFulfils, TypeOK
  <2>11. CASE HandlerRejects
    <3>1. result' \in [Events -> PromiseState]
      <4>1. result' = result \/ \E i : result' = Settle(result, i, "rejected")
        BY <2>11 DEF HandlerRejects
      <4> QED
        BY <4>1, SettleTypes DEF TypeOK
    <3>2. running' \subseteq running
      BY <2>11 DEF HandlerRejects
    <3> QED
      BY <2>11, <3>1, <3>2 DEF HandlerRejects, TypeOK
  <2>12. CASE UNCHANGED vars
    BY <2>12 DEF vars, TypeOK
  <2> QED
    BY <2>1, <2>2, <2>3, <2>4, <2>5, <2>6, <2>7, <2>8, <2>9, <2>10, <2>11, <2>12
       DEF Next
<1> QED
  BY <1>1, <1>2, PTL DEF Spec

-----------------------------------------------------------------------------
(* The counters. *)

LEMMA BumpValue ==
  ASSUME stats \in [StatNames -> Nat], NEW names, Bump(names)
  PROVE  \A n \in StatNames :
           stats'[n] = IF n \in names THEN stats[n] + 1 ELSE stats[n]
  BY DEF Bump

LEMMA RejectionsOnly == Rejections \subseteq {"rejections"}
  BY DEF Rejections

Accounted == StatsAccount /\ HandlerEdges

LEMMA AccountedStep ==
  ASSUME TypeOK, Accounted, [Next]_vars
  PROVE  Accounted'
<1> USE DEF Accounted, StatsAccount, HandlerEdges
<1>0. /\ stats \in [StatNames -> Nat] /\ queue \in Seq(Events)
      /\ \A n \in StatNames : stats[n] \in Nat
  BY DEF TypeOK
<1>1. ASSUME UNCHANGED <<queue, stats, handler>> PROVE Accounted'
  BY <1>1
<1>2. ASSUME NEW names, names \cap {"set", "clear"} = {}, NEW x, NEW q,
             handler # Null, Invoke(x, q, names)
      PROVE  /\ HandlerEdges'
             /\ \A n \in StatNames \ {"clear"} :
                  stats'[n] = IF n \in names THEN stats[n] + 1 ELSE stats[n]
  <2>1. CASE handler \in oneShot
    <3>1. Bump(names \cup {"clear"}) /\ handler' = Null
      BY <1>2, <2>1 DEF Invoke
    <3>2. \A n \in StatNames : stats'[n] = IF n \in names \cup {"clear"}
                                         THEN stats[n] + 1 ELSE stats[n]
      BY <1>0, <3>1, BumpValue
    <3>3. stats'.set = stats.set /\ stats'.clear = stats.clear + 1
      BY <1>2, <3>2 DEF StatNames
    <3>4. HandlerEdges'
      BY <1>0, <1>2, <3>1, <3>3 DEF StatNames
    <3> QED
      BY <3>2, <3>4
  <2>2. CASE handler \notin oneShot
    <3>1. Bump(names) /\ handler' = handler
      BY <1>2, <2>2 DEF Invoke
    <3> QED
      BY <1>0, <1>2, <3>1, BumpValue DEF StatNames
  <2> QED
    BY <2>1, <2>2
<1>3. ASSUME NEW below, Install(calls + 1, below), UNCHANGED queue
      PROVE  Accounted'
  <2>1. Bump(Rejections \cup {IF handler = Null THEN "set" ELSE "change"})
        /\ handler' = calls + 1 /\ handler' # Null
    BY <1>3 DEF Install, TypeOK, Null
  <2>2. \A n \in StatNames :
          stats'[n] = IF n \in Rejections \cup {IF handler = Null THEN "set" ELSE "change"}
                      THEN stats[n] + 1 ELSE stats[n]
    BY <1>0, <2>1, BumpValue
  <2>3. /\ \A n \in {"total", "queued", "immediate", "queuedHandled", "rejected",
                    "clear"} : stats'[n] = stats[n]
        /\ stats'.set = stats.set + (IF handler = Null THEN 1 ELSE 0)
    BY <1>0, <2>2, RejectionsOnly DEF StatNames
  <2>4. StatsAccount'
    BY <1>3, <2>3
  <2>5. HandlerEdges'
    BY <1>0, <2>1, <2>3 DEF StatNames
  <2> QED
    BY <2>4, <2>5
<1>4. CASE Handle
  <2>1. CASE handler = Null
    <3>1. queue' = Append(queue, stats.total + 1) /\ Bump({"total", "queued"})
          /\ handler' = handler
      BY <1>4, <2>1 DEF Handle, HandleNow, Enqueue
    <3>2. Len(queue') = Len(queue) + 1
      BY <1>0, <3>1, AppendProperties
    <3>3. \A n \in StatNames : stats'[n] = IF n \in {"total", "queued"}
                                         THEN stats[n] + 1 ELSE stats[n]
      BY <1>0, <3>1, BumpValue
    <3>4. /\ stats'.total = stats.total + 1 /\ stats'.queued = stats.queued + 1
          /\ \A n \in StatNames \ {"total", "queued"} : stats'[n] = stats[n]
      BY <3>3 DEF StatNames
    <3>5. /\ stats'.immediate = stats.immediate
          /\ stats'.queuedHandled = stats.queuedHandled
          /\ stats'.rejected = stats.rejected
          /\ stats'.set = stats.set /\ stats'.clear = stats.clear
      BY <3>4 DEF StatNames
    <3>6. StatsAccount'
      <4>1. /\ stats.total \in Nat /\ stats.queued \in Nat
            /\ stats.immediate \in Nat /\ stats.queuedHandled \in Nat
            /\ stats.rejected \in Nat /\ Len(queue) \in Nat
        BY <1>0 DEF StatNames
      <4>2. stats'.total = stats.total + 1 /\ stats'.queued = stats.queued + 1
        BY <3>4
      <4> QED
        BY <4>1, <4>2, <3>2, <3>5
    <3>7. HandlerEdges'
      BY <3>1, <3>5
    <3> QED
      BY <3>6, <3>7
  <2>2. CASE handler # Null
    <3>1. Invoke(stats.total + 1, FALSE, {"total", "immediate"}) /\ queue' = queue
      BY <1>4, <2>2 DEF Handle, HandleNow, Enqueue
    <3>2. /\ HandlerEdges'
          /\ \A n \in StatNames \ {"clear"} :
               stats'[n] = IF n \in {"total", "immediate"}
                           THEN stats[n] + 1 ELSE stats[n]
      BY <1>2, <2>2, <3>1
    <3>3. /\ stats'.total = stats.total + 1
          /\ stats'.immediate = stats.immediate + 1
          /\ \A n \in {"queued", "queuedHandled", "rejected"} : stats'[n] = stats[n]
      BY <3>2 DEF StatNames
    <3> QED
      BY <1>0, <3>1, <3>2, <3>3 DEF StatNames
  <2> QED
    BY <2>1, <2>2
<1>5. CASE Clear
  BY <1>0, <1>5 DEF Clear, StatNames
<1>6. CASE SetHandler
  BY <1>3, <1>6 DEF SetHandler
<1>7. CASE SetNextHandler
  BY <1>3, <1>7 DEF SetNextHandler
<1>8. CASE StopHandling
  <2>1. Bump(Rejections \cup (IF handler = Null THEN {} ELSE {"clear"}))
        /\ handler' = Null /\ queue' = queue
    BY <1>8 DEF StopHandling
  <2> QED
    BY <1>0, <2>1, BumpValue, RejectionsOnly DEF StatNames
<1>9. CASE ProcessQueue
  <2>1. CASE handler # Null /\ queue # <<>>
    <3>1. Invoke(Head(queue), TRUE, {"queuedHandled"}) /\ queue' = Tail(queue)
      BY <1>9, <2>1 DEF ProcessQueue
    <3>2. Len(queue') = Len(queue) - 1 /\ Len(queue) \in Nat
      BY <1>0, <2>1, <3>1
    <3>3. /\ HandlerEdges'
          /\ \A n \in StatNames \ {"clear"} :
               stats'[n] = IF n \in {"queuedHandled"}
                           THEN stats[n] + 1 ELSE stats[n]
      BY <1>2, <2>1, <3>1
    <3>4. /\ stats'.queuedHandled = stats.queuedHandled + 1
          /\ \A n \in {"total", "queued", "immediate", "rejected"} :
               stats'[n] = stats[n]
      BY <3>3 DEF StatNames
    <3> QED
      BY <1>0, <3>2, <3>3, <3>4 DEF StatNames
  <2>2. CASE ~(handler # Null /\ queue # <<>>)
    BY <1>1, <1>9, <2>2 DEF ProcessQueue
  <2> QED
    BY <2>1, <2>2
<1>10. CASE Arm
  BY <1>1, <1>10 DEF Arm
<1>11. CASE Return
  BY <1>1, <1>11 DEF Return
<1>12. CASE Throw
  BY <1>1, <1>12 DEF Throw
<1>13. CASE HandlerFulfils
  BY <1>1, <1>13 DEF HandlerFulfils
<1>14. CASE HandlerRejects
  BY <1>1, <1>14 DEF HandlerRejects
<1>15. CASE UNCHANGED vars
  BY <1>1, <1>15 DEF vars
<1> QED
  BY <1>4, <1>5, <1>6, <1>7, <1>8, <1>9, <1>10, <1>11, <1>12, <1>13, <1>14,
     <1>15 DEF Next

\* The counters of HandlerQueueStats account for every event and for the
\* installed handler, also while handlers re-enter the queue or throw.
THEOREM CountersAccount == Spec => [](StatsAccount /\ HandlerEdges)
<1>1. Init => Accounted
  BY DEF Init, Accounted, StatsAccount, HandlerEdges, StatNames, Null
<1>2. TypeOK /\ Accounted /\ [Next]_vars => Accounted'
  BY AccountedStep
<1>3. Accounted => StatsAccount /\ HandlerEdges
  BY DEF Accounted
<1> QED
  BY <1>1, <1>2, <1>3, TypeInvariant, PTL DEF Spec

-----------------------------------------------------------------------------
(* One-shot handlers. *)

OneShotInv ==
  /\ handler <= calls
  /\ \A h \in Handlers : h > calls => uses[h] = 0 /\ h \notin oneShot
  /\ \A h \in oneShot : uses[h] <= 1
  /\ handler \in oneShot => uses[handler] = 0

LEMMA OneShotStep ==
  ASSUME TypeOK, OneShotInv, [Next]_vars
  PROVE  OneShotInv'
<1>0. /\ oneShot \subseteq Handlers /\ uses \in [Handlers -> Nat]
      /\ calls \in 0..MaxSets /\ handler \in 0..MaxSets
      /\ \A h \in Handlers : h \in Nat /\ h # Null
  BY DEF TypeOK, Handlers, Null
<1>1. ASSUME UNCHANGED <<uses, calls, oneShot>>, handler' \in {handler, Null}
      PROVE  OneShotInv'
  BY <1>0, <1>1 DEF OneShotInv, Null
<1>2. ASSUME NEW x, NEW q, NEW names, handler # Null, Invoke(x, q, names),
             UNCHANGED <<calls, oneShot>>
      PROVE  OneShotInv'
  <2>1. handler \in Handlers
    BY <1>0, <1>2 DEF Handlers, Null
  <2>2. uses' = [uses EXCEPT ![handler] = @ + 1]
    BY <1>2 DEF Invoke
  <2>3. handler \in oneShot => handler' = Null
    BY <1>2 DEF Invoke
  <2>4. handler \notin oneShot => handler' = handler
    BY <1>2 DEF Invoke
  <2>5. \A h \in Handlers : h # handler => uses'[h] = uses[h]
    BY <1>0, <2>1, <2>2
  <2>6. uses'[handler] = uses[handler] + 1
    BY <1>0, <2>1, <2>2
  <2> QED
    BY <1>0, <1>2, <2>1, <2>3, <2>4, <2>5, <2>6 DEF OneShotInv, Null
<1>3. ASSUME NEW below, calls < MaxSets, Install(calls + 1, below), UNCHANGED uses,
             oneShot' = oneShot \/ oneShot' = oneShot \cup {calls + 1}
      PROVE  OneShotInv'
  <2>1. calls' = calls + 1 /\ handler' = calls + 1
    BY <1>3 DEF Install
  <2>2. calls + 1 \in Handlers /\ calls + 1 > calls
    BY <1>0, <1>3 DEF Handlers
  <2>3. uses[calls + 1] = 0 /\ calls + 1 \notin oneShot
    BY <2>2 DEF OneShotInv
  <2> QED
    BY <1>0, <1>3, <2>1, <2>2, <2>3 DEF OneShotInv
<1>4. CASE Handle
  BY <1>1, <1>2, <1>4 DEF Handle, HandleNow, Enqueue
<1>5. CASE Clear
  BY <1>1, <1>5 DEF Clear
<1>6. CASE SetHandler
  BY <1>3, <1>6 DEF SetHandler
<1>7. CASE SetNextHandler
  BY <1>3, <1>7 DEF SetNextHandler
<1>8. CASE StopHandling
  BY <1>1, <1>8 DEF StopHandling
<1>9. CASE ProcessQueue
  BY <1>1, <1>2, <1>9 DEF ProcessQueue
<1>10. CASE Arm
  BY <1>1, <1>10 DEF Arm
<1>11. CASE Return
  BY <1>1, <1>11 DEF Return
<1>12. CASE Throw
  BY <1>1, <1>12 DEF Throw
<1>13. CASE HandlerFulfils
  BY <1>1, <1>13 DEF HandlerFulfils
<1>14. CASE HandlerRejects
  BY <1>1, <1>14 DEF HandlerRejects
<1>15. CASE UNCHANGED vars
  BY <1>1, <1>15 DEF vars
<1> QED
  BY <1>4, <1>5, <1>6, <1>7, <1>8, <1>9, <1>10, <1>11, <1>12, <1>13, <1>14,
     <1>15 DEF Next

\* A handler given to setNextHandler is called at most once, however the
\* handlers re-enter the queue that is calling them.
THEOREM OneShotCalledOnce == Spec => []OneShotOnce
<1>1. Init => OneShotInv
  BY DEF Init, OneShotInv, Null, Handlers
<1>2. TypeOK /\ OneShotInv /\ [Next]_vars => OneShotInv'
  BY OneShotStep
<1>3. OneShotInv => OneShotOnce
  BY DEF OneShotInv, OneShotOnce
<1> QED
  BY <1>1, <1>2, <1>3, TypeInvariant, PTL DEF Spec

-----------------------------------------------------------------------------
(* A handler over a non-empty queue. *)

\* While a handler is installed over a non-empty queue, a processQueue_ is in
\* progress somewhere on the stack and will go on with the queue.
DrainInv ==
  ~thrown /\ handler # Null /\ queue # <<>> =>
    \E i \in 1..Len(stack) : stack[i].at = "loop"

LEMMA LoopBelow ==
  ASSUME stack \in Seq(Frame), NEW f,
         \E i \in 1..Len(stack) : stack[i].at = "loop"
  PROVE  \E i \in 1..Len(<<f>> \o stack) : (<<f>> \o stack)[i].at = "loop"
<1>1. PICK i \in 1..Len(stack) : stack[i].at = "loop"
  OBVIOUS
<1>2. i + 1 \in 1..Len(<<f>> \o stack) /\ (<<f>> \o stack)[i + 1] = stack[i]
  OBVIOUS
<1> QED
  BY <1>1, <1>2

LEMMA LoopUnder ==
  ASSUME stack \in Seq(Frame), ~Idle, stack[1].at # "loop",
         \E i \in 1..Len(stack) : stack[i].at = "loop"
  PROVE  \E i \in 1..Len(Tail(stack)) : Tail(stack)[i].at = "loop"
<1>1. PICK i \in 1..Len(stack) : stack[i].at = "loop"
  OBVIOUS
<1>2. i - 1 \in 1..Len(Tail(stack)) /\ Tail(stack)[i - 1] = stack[i]
  BY <1>1 DEF Idle
<1> QED
  BY <1>1, <1>2

LEMMA DrainStep ==
  ASSUME TypeOK, DrainInv, [Next]_vars
  PROVE  DrainInv'
<1>0. stack \in Seq(Frame) /\ queue \in Seq(Events)
  BY DEF TypeOK
<1>1. ASSUME UNCHANGED <<handler, queue, stack, thrown>> PROVE DrainInv'
  BY <1>1 DEF DrainInv
<1>2. ASSUME UNCHANGED <<handler, queue, thrown>>, ~Idle, stack[1].at # "loop",
             stack' = Tail(stack)
      PROVE  DrainInv'
  BY <1>0, <1>2, LoopUnder DEF DrainInv
<1>3. ASSUME NEW below \in Seq(Frame), Install(calls + 1, below)
      PROVE  DrainInv'
  <2>1. stack' = <<LoopFrame>> \o below
    BY <1>3 DEF Install
  <2>2. 1 \in 1..Len(stack') /\ stack'[1] = LoopFrame
    BY <2>1
  <2> QED
    BY <2>2 DEF DrainInv, LoopFrame
<1>4. CASE Handle
  <2>1. CASE handler = Null
    BY <1>4, <2>1 DEF Handle, HandleNow, Enqueue, DrainInv
  <2>2. CASE handler # Null
    <3>1. /\ Invoke(stats.total + 1, FALSE, {"total", "immediate"})
          /\ queue' = queue
      BY <1>4, <2>2 DEF Handle, HandleNow, Enqueue
    <3>2. stack' = <<BodyFrame(stats.total + 1, handler, FALSE)>> \o stack
      BY <3>1 DEF Invoke
    <3>0. thrown' <=> thrown
      BY <1>4, ZenonT(20) DEF Handle
    <3>3. ~thrown /\ queue # <<>> => \E i \in 1..Len(stack) : stack[i].at = "loop"
      BY <2>2 DEF DrainInv
    <3>4. ~thrown /\ queue # <<>> => \E i \in 1..Len(stack') : stack'[i].at = "loop"
      BY <1>0, <3>2, <3>3, LoopBelow
    <3> QED
      BY <3>0, <3>1, <3>4 DEF DrainInv
  <2> QED
    BY <2>1, <2>2
<1>5. CASE Clear
  BY <1>5 DEF Clear, DrainInv
<1>6. CASE SetHandler
  BY <1>0, <1>3, <1>6 DEF SetHandler
<1>7. CASE SetNextHandler
  <2>1. calls + 1 \in Handlers
    BY <1>7 DEF SetNextHandler, TypeOK, Handlers
  <2>2. <<ArmFrame(calls + 1)>> \o stack \in Seq(Frame)
    BY <1>0, <2>1, FrameFields, PushFrame
  <2> QED
    BY <1>3, <1>7, <2>2 DEF SetNextHandler
<1>8. CASE StopHandling
  BY <1>8 DEF StopHandling, DrainInv
<1>9. CASE ProcessQueue
  <2>1. CASE handler # Null /\ queue # <<>>
    <3>1. Invoke(Head(queue), TRUE, {"queuedHandled"})
      BY <1>9, <2>1 DEF ProcessQueue
    <3>2. stack' = <<BodyFrame(Head(queue), handler, TRUE)>> \o stack
      BY <3>1 DEF Invoke
    <3>0. thrown' <=> thrown
      BY <1>9 DEF ProcessQueue
    <3>3. ~thrown /\ queue # <<>> => \E i \in 1..Len(stack) : stack[i].at = "loop"
      BY <2>1 DEF DrainInv
    <3>4. ~thrown /\ queue # <<>> => \E i \in 1..Len(stack') : stack'[i].at = "loop"
      BY <1>0, <3>2, <3>3, LoopBelow
    <3> QED
      BY <2>1, <3>0, <3>4 DEF DrainInv
  <2>2. CASE ~(handler # Null /\ queue # <<>>)
    BY <1>9, <2>2 DEF ProcessQueue, DrainInv
  <2> QED
    BY <2>1, <2>2
<1>10. CASE Arm
  BY <1>2, <1>10 DEF Arm
<1>11. CASE Return
  BY <1>2, <1>11 DEF Return
<1>12. CASE Throw
  BY <1>12 DEF Throw, DrainInv
<1>13. CASE HandlerFulfils
  BY <1>1, <1>13 DEF HandlerFulfils
<1>14. CASE HandlerRejects
  BY <1>1, <1>14 DEF HandlerRejects
<1>15. CASE UNCHANGED vars
  BY <1>1, <1>15 DEF vars
<1> QED
  BY <1>4, <1>5, <1>6, <1>7, <1>8, <1>9, <1>10, <1>11, <1>12, <1>13, <1>14,
     <1>15 DEF Next

\* Until a handler throws, a queue with a handler installed is empty
\* whenever no call of the queue is in progress, so that handle() cannot let
\* an event overtake those that wait.
THEOREM NothingWaitsBehindHandler == Spec => []DrainedWhenIdle
<1>1. Init => DrainInv
  BY DEF Init, DrainInv
<1>2. TypeOK /\ DrainInv /\ [Next]_vars => DrainInv'
  BY DrainStep
<1>3. DrainInv => DrainedWhenIdle
  BY DEF DrainInv, DrainedWhenIdle, Idle
<1> QED
  BY <1>1, <1>2, <1>3, TypeInvariant, PTL DEF Spec

-----------------------------------------------------------------------------
(* Order and destiny of the events. *)

\* Every event in Order has arrived.
OrderInv ==
  /\ Fifo
  /\ ExactlyOnce
  /\ stats.total \in 0..MaxEvents

\* A step leaves Order alone, or the next event to arrive joins its end or
\* goes straight to a handler.
OrderStays == Order' = Order /\ direct' = direct /\ stats'.total = stats.total

NextEvent == stats.total + 1

EventJoins ==
  /\ NextEvent \in Events /\ stats'.total = NextEvent
  /\ \/ Order' = Append(Order, NextEvent) /\ direct' = direct
     \/ Order' = Order /\ direct' = direct \cup {NextEvent}

LEMMA MoveHead ==
  ASSUME NEW S, NEW a \in Seq(S), NEW b \in Seq(S), b # <<>>
  PROVE  Append(a, Head(b)) \o Tail(b) = a \o b
<1> DEFINE x == Append(a, Head(b)) \o Tail(b)
           y == a \o b
<1>1. x \in Seq(S) /\ y \in Seq(S) /\ Len(x) = Len(y)
  BY ConcatProperties, AppendProperties, HeadTailProperties
<1>2. \A i \in 1..Len(x) : x[i] = y[i]
  OBVIOUS
<1> QED
  BY <1>1, <1>2, SeqEqual

LEMMA AppendRight ==
  ASSUME NEW S, NEW a \in Seq(S), NEW b \in Seq(S), NEW e \in S
  PROVE  a \o Append(b, e) = Append(a \o b, e)
<1> DEFINE x == a \o Append(b, e)
           y == Append(a \o b, e)
<1>1. x \in Seq(S) /\ y \in Seq(S) /\ Len(x) = Len(y)
  BY ConcatProperties, AppendProperties
<1>2. \A i \in 1..Len(x) : x[i] = y[i]
  OBVIOUS
<1> QED
  BY <1>1, <1>2, SeqEqual

LEMMA TotalOf ==
  ASSUME TypeOK
  PROVE  /\ \A names : Bump(names) /\ "total" \notin names => stats'.total = stats.total
         /\ \A names : Bump(names) /\ "total" \in names
                       => stats'.total = stats.total + 1
  BY BumpValue DEF TypeOK, StatNames

LEMMA InvokeTotal ==
  ASSUME TypeOK, NEW x, NEW q, NEW names, Invoke(x, q, names)
  PROVE  stats'.total = IF "total" \in names THEN stats.total + 1 ELSE stats.total
<1>1. Bump(names) \/ Bump(names \cup {"clear"})
  BY DEF Invoke
<1>2. PICK more : Bump(more) /\ (more = names \/ more = names \cup {"clear"})
  BY <1>1
<1>3. "total" \in more <=> "total" \in names
  BY <1>2
<1> QED
  BY <1>2, <1>3, TotalOf

LEMMA OrderMoves ==
  ASSUME TypeOK, [Next]_vars
  PROVE  OrderStays \/ EventJoins
<1>0. queue \in Seq(Events) /\ left \in Seq(Events)
  BY DEF TypeOK
<1>1. ASSUME UNCHANGED <<queue, left, direct>>, stats'.total = stats.total
      PROVE  OrderStays
  BY <1>1 DEF OrderStays, Order
<1>2. ASSUME NEW below, Install(calls + 1, below) PROVE stats'.total = stats.total
  BY <1>2, TotalOf, RejectionsOnly DEF Install
<1>4. CASE Handle
  <2>1. NextEvent \in Events
    BY <1>4, TotalType DEF Handle, HandleNow, Enqueue, NextEvent
  <2>2. CASE handler = Null
    <3>1. queue' = Append(queue, NextEvent) /\ Bump({"total", "queued"})
          /\ UNCHANGED <<left, direct>>
      BY <1>4, <2>2 DEF Handle, HandleNow, Enqueue, NextEvent
    <3>2. Order' = Append(Order, NextEvent)
      BY <1>0, <2>1, <3>1, AppendRight DEF Order
    <3> QED
      BY <2>1, <3>1, <3>2, TotalOf DEF EventJoins, NextEvent
  <2>3. CASE handler # Null
    <3>1. /\ Invoke(NextEvent, FALSE, {"total", "immediate"})
          /\ direct' = direct \cup {NextEvent} /\ UNCHANGED <<queue, left>>
      BY <1>4, <2>3 DEF Handle, HandleNow, Enqueue, NextEvent
    <3>2. stats'.total = NextEvent
      <4>1. "total" \in {"total", "immediate"}
        OBVIOUS
      <4> QED
        BY <3>1, <4>1, InvokeTotal DEF NextEvent
    <3>3. Order' = Order
      BY <3>1 DEF Order
    <3> QED
      BY <2>1, <3>1, <3>2, <3>3 DEF EventJoins
  <2> QED
    BY <2>2, <2>3
<1>5. CASE Clear
  <2>1. left' = left \o queue /\ queue' = <<>> /\ direct' = direct
        /\ stats' = [stats EXCEPT !.rejected = @ + Len(queue)]
    BY <1>5 DEF Clear
  <2>2. Order' = Order
    BY <1>0, <2>1, ConcatProperties, ConcatEmptySeq DEF Order
  <2>3. stats'.total = stats.total
    BY <2>1 DEF TypeOK, StatNames
  <2> QED
    BY <2>1, <2>2, <2>3 DEF OrderStays
<1>6. CASE SetHandler
  BY <1>1, <1>2, <1>6 DEF SetHandler
<1>7. CASE SetNextHandler
  BY <1>1, <1>2, <1>7 DEF SetNextHandler
<1>8. CASE StopHandling
  BY <1>1, <1>8, TotalOf, RejectionsOnly DEF StopHandling
<1>9. CASE ProcessQueue
  <2>1. CASE handler # Null /\ queue # <<>>
    <3>1. /\ Invoke(Head(queue), TRUE, {"queuedHandled"}) /\ queue' = Tail(queue)
          /\ left' = Append(left, Head(queue)) /\ direct' = direct
      BY <1>9, <2>1 DEF ProcessQueue
    <3>2. Order' = Order
      BY <1>0, <2>1, <3>1, MoveHead DEF Order
    <3>3. stats'.total = stats.total
      <4>1. "total" \notin {"queuedHandled"}
        OBVIOUS
      <4> QED
        BY <3>1, <4>1, InvokeTotal
    <3> QED
      BY <3>1, <3>2, <3>3 DEF OrderStays
  <2>2. CASE ~(handler # Null /\ queue # <<>>)
    BY <1>1, <1>9, <2>2 DEF ProcessQueue
  <2> QED
    BY <2>1, <2>2
<1>10. CASE Arm
  BY <1>1, <1>10 DEF Arm
<1>11. CASE Return
  BY <1>1, <1>11 DEF Return
<1>12. CASE Throw
  BY <1>1, <1>12 DEF Throw
<1>13. CASE HandlerFulfils
  BY <1>1, <1>13 DEF HandlerFulfils
<1>14. CASE HandlerRejects
  BY <1>1, <1>14 DEF HandlerRejects
<1>15. CASE UNCHANGED vars
  BY <1>1, <1>15 DEF vars
<1> QED
  BY <1>4, <1>5, <1>6, <1>7, <1>8, <1>9, <1>10, <1>11, <1>12, <1>13, <1>14,
     <1>15 DEF Next

LEMMA OrderStep ==
  ASSUME TypeOK, OrderInv, [Next]_vars
  PROVE  OrderInv'
<1>0. /\ Order \in Seq(Events) /\ direct \subseteq Events /\ stats.total \in 0..MaxEvents
      /\ \A x \in Events : x \in Nat /\ x >= 1 /\ x <= MaxEvents
  BY ConcatProperties DEF TypeOK, Order, OrderInv, Events
<1>1. \A i \in 1..Len(Order) : Order[i] \in Events /\ Order[i] <= stats.total
  BY <1>0 DEF OrderInv, ExactlyOnce, Ordered
<1>2. CASE OrderStays
  BY <1>2 DEF OrderStays, OrderInv, Fifo, ExactlyOnce, Ordered
<1>3. CASE EventJoins
  <2>0. NextEvent \in Events /\ stats'.total = NextEvent /\ NextEvent > stats.total
    BY <1>0, <1>3 DEF EventJoins, NextEvent
  <2>a. NextEvent \notin direct /\ ~Ordered(NextEvent)
    BY <2>0 DEF OrderInv, ExactlyOnce
  <2>b. \A x \in Events : x # NextEvent =>
           (IF x > NextEvent THEN x \notin direct /\ ~Ordered(x)
                             ELSE x \in direct <=> ~Ordered(x))
    BY <1>0, <2>0 DEF OrderInv, ExactlyOnce, NextEvent
  <2>1. CASE Order' = Append(Order, NextEvent) /\ direct' = direct
    <3>1. /\ Len(Order') = Len(Order) + 1 /\ Order'[Len(Order) + 1] = NextEvent
          /\ \A i \in 1..Len(Order) : Order'[i] = Order[i]
      BY <1>0, <2>0, <2>1, AppendProperties
    <3>2. Fifo'
      <4> SUFFICES ASSUME NEW i \in 1..Len(Order'), NEW j \in 1..Len(Order'), i < j
                   PROVE  Order'[i] < Order'[j]
        BY DEF Fifo
      <4>1. i \in 1..Len(Order) /\ Order'[i] = Order[i]
        BY <1>0, <3>1
      <4>2. CASE j \in 1..Len(Order)
        BY <3>1, <4>1, <4>2 DEF OrderInv, Fifo
      <4>3. CASE j = Len(Order) + 1
        <5>1. Order[i] \in Nat /\ Order[i] <= stats.total
          BY <1>0, <1>1, <4>1
        <5> QED
          BY <1>0, <2>0, <3>1, <4>1, <4>3, <5>1 DEF NextEvent
      <4> QED
        BY <1>0, <3>1, <4>2, <4>3
    <3>3. \A x \in Events : Ordered(x)' <=> Ordered(x) \/ x = NextEvent
      BY <1>0, <3>1 DEF Ordered
    <3>4. ExactlyOnce'
      BY <1>0, <2>0, <2>a, <2>b, <2>1, <3>3 DEF ExactlyOnce
    <3> QED
      BY <1>0, <2>0, <3>2, <3>4 DEF OrderInv
  <2>2. CASE Order' = Order /\ direct' = direct \cup {NextEvent}
    <3>1. Fifo' /\ \A x \in Events : Ordered(x)' <=> Ordered(x)
      BY <2>2 DEF OrderInv, Fifo, Ordered
    <3>2. ExactlyOnce'
      BY <1>0, <2>0, <2>a, <2>b, <2>2, <3>1 DEF ExactlyOnce
    <3> QED
      BY <1>0, <2>0, <3>1, <3>2 DEF OrderInv
  <2> QED
    BY <1>3, <2>1, <2>2 DEF EventJoins
<1> QED
  BY <1>2, <1>3, OrderMoves

\* Every event has one destiny and those that were queued leave in the order
\* in which they arrived.
THEOREM EventsInOrder == Spec => []EachOnceInOrder
<1>1. Init => OrderInv
  <2> SUFFICES ASSUME Init PROVE OrderInv
    OBVIOUS
  <2>1. Order = <<>> /\ direct = {} /\ stats.total = 0
    BY DEF Init, Order, StatNames
  <2> QED
    BY <2>1 DEF OrderInv, Fifo, ExactlyOnce, Ordered, Events
<1>2. TypeOK /\ OrderInv /\ [Next]_vars => OrderInv'
  BY OrderStep
<1>3. OrderInv => EachOnceInOrder
  BY DEF OrderInv, EachOnceInOrder
<1> QED
  BY <1>1, <1>2, <1>3, TypeInvariant, PTL DEF Spec

-----------------------------------------------------------------------------
(* The promise of setNextHandler. *)

\* Until a handler is set while setNextHandler runs, a handler that
\* setNextHandler installed is the one rejectFn_ stands for, or setNextHandler has not returned and
\* no user code runs on top of it.
Armed(h) ==
  \/ rejectFn = h
  \/ stack # <<>> /\ stack[1] = ArmFrame(h)
  \/ Len(stack) > 1 /\ stack[1].at = "loop" /\ stack[2] = ArmFrame(h)

ArmsOf(h) == \A i \in 1..Len(stack) : stack[i].at = "arm" => h \in {Null, stack[i].handler}

Arming ==
  /\ \A h \in oneShot : promise[h] # "absent"
  /\ ~nested => ArmsOf(handler)
  /\ ~nested /\ handler \in oneShot => Armed(handler)

LEMMA Pushed ==
  ASSUME NEW s \in Seq(Frame), NEW f \in Frame
  PROVE  /\ Len(<<f>> \o s) = Len(s) + 1 /\ (<<f>> \o s)[1] = f
         /\ \A i \in 1..Len(s) : (<<f>> \o s)[i + 1] = s[i]
         /\ \A i \in 1..(Len(s) + 1) : i = 1 \/ (i - 1 \in 1..Len(s) /\ (<<f>> \o s)[i] = s[i - 1])
  OBVIOUS

LEMMA Dropped ==
  ASSUME NEW s \in Seq(Frame), s # <<>>
  PROVE  /\ Tail(s) \in Seq(Frame) /\ Len(Tail(s)) = Len(s) - 1 /\ Len(s) \in Nat \ {0}
         /\ \A i \in 1..Len(Tail(s)) : i + 1 \in 1..Len(s) /\ Tail(s)[i] = s[i + 1]
  OBVIOUS

\* User code runs only once setNextHandler has armed the rejection of its handler.
LEMMA ArmedForUser ==
  ASSUME stack \in Seq(Frame), Idle \/ (~Idle /\ stack[1].at = "body"), NEW h, Armed(h)
  PROVE  rejectFn = h
<1>1. Idle => stack = <<>> /\ Len(stack) = 0
  BY DEF Idle
<1>2. ArmFrame(h).at = "arm"
  BY DEF ArmFrame
<1> QED
  BY <1>1, <1>2 DEF Armed

LEMMA SettledIs ==
  ASSUME promise \in [Handlers -> PromiseState], NEW i, NEW s \in Settled, NEW h \in Handlers,
         promise[h] # "absent"
  PROVE  /\ Settle(promise, i, s)[h] # "absent"
         /\ i = h => Settle(promise, i, s)[h] \in Settled
         /\ ArmedRejected[h] # "absent"
         /\ rejectFn = h => ArmedRejected[h] \in Settled
  BY DEF Settle, Settled, PromiseState, ArmedRejected, Null, Handlers

LEMMA ArmingStep ==
  ASSUME TypeOK, OneShotInv, Arming, [Next]_vars
  PROVE  Arming'
<1>0. /\ stack \in Seq(Frame) /\ oneShot \subseteq Handlers /\ calls \in 0..MaxSets
      /\ promise \in [Handlers -> PromiseState] /\ handler \in 0..MaxSets
      /\ Null \notin Handlers /\ "rejected" \in Settled /\ "fulfilled" \in Settled
  BY DEF TypeOK, Handlers, Null, Settled
<1> DEFINE Told == \A h \in oneShot' : promise'[h] # "absent"
\* Nothing of it changes.
<1>1. ASSUME UNCHANGED <<handler, rejectFn, stack, oneShot, nested>>, Told
      PROVE  Arming'
  BY <1>1 DEF Arming, ArmsOf, Armed
\* The handler is taken off, and the frames are below others.
<1>2. ASSUME UNCHANGED <<oneShot, nested, promise>>, NEW x \in Events, NEW q \in BOOLEAN, NEW names,
             handler # Null, Invoke(x, q, names)
      PROVE  Arming'
  <2>1. /\ stack' = <<BodyFrame(x, handler, q)>> \o stack
        /\ IF handler \in oneShot THEN handler' = Null ELSE handler' = handler
    BY <1>2 DEF Invoke
  <2>2. BodyFrame(x, handler, q) \in Frame /\ BodyFrame(x, handler, q).at = "body"
    BY <1>0, <1>2, FrameFields DEF BodyFrame, Handlers, Null
  <2>3. handler' \notin oneShot
    BY <1>0, <2>1
  <2>4. ~nested => ArmsOf(handler)'
    <3>1. SUFFICES ASSUME ~nested, NEW i \in 1..Len(stack'), stack'[i].at = "arm"
                   PROVE  handler' \in {Null, stack'[i].handler}
      BY DEF ArmsOf
    <3>2. i - 1 \in 1..Len(stack) /\ stack'[i] = stack[i - 1]
      <4>1. /\ Len(stack') = Len(stack) + 1 /\ stack'[1].at = "body"
            /\ \A j \in 1..(Len(stack) + 1) :
                 j = 1 \/ (j - 1 \in 1..Len(stack) /\ stack'[j] = stack[j - 1])
        BY <1>0, <2>1, <2>2, Pushed
      <4> QED
        BY <3>1, <4>1
    <3>3. handler \in {Null, stack[i - 1].handler}
      BY <3>1, <3>2 DEF Arming, ArmsOf
    <3> QED
      BY <2>1, <3>2, <3>3
  <2> QED
    BY <1>2, <2>3, <2>4 DEF Arming
\* A frame leaves the stack: what is armed stays so if it was a body.
<1>3. ASSUME UNCHANGED <<handler, rejectFn, oneShot, nested>>, Told, ~Idle, stack[1].at = "body",
             NEW n \in 1..Len(stack), stack' \in Seq(Frame), Len(stack') = Len(stack) - n,
             \A i \in 1..Len(stack') : i + n \in 1..Len(stack) /\ stack'[i] = stack[i + n]
      PROVE  Arming'
  <2>1. ~nested => ArmsOf(handler)'
    BY <1>3 DEF Arming, ArmsOf
  <2>2. ~nested /\ handler \in oneShot => rejectFn = handler
    BY <1>0, <1>3, ArmedForUser DEF Arming
  <2> QED
    BY <1>3, <2>1, <2>2 DEF Arming, Armed
\* A handler is set, while no call of setNextHandler runs.
<1>4. ASSUME UserCode, calls < MaxSets, nested' = (nested \/ Setting), NEW below \in Seq(Frame),
             Install(calls + 1, below), Told,
             \/ below = stack /\ oneShot' = oneShot
             \/ below = <<ArmFrame(calls + 1)>> \o stack
      PROVE  Arming'
  <2>1. SUFFICES ASSUME ~nested'
                 PROVE  ArmsOf(handler)' /\ (handler' \in oneShot' => Armed(handler)')
    BY <1>4 DEF Arming
  <2>2. ~nested /\ \A i \in 1..Len(stack) : stack[i].at # "arm"
    BY <1>4, <2>1 DEF Setting
  <2>3. handler' = calls + 1 /\ stack' = <<LoopFrame>> \o below /\ calls + 1 \in Handlers
    BY <1>0, <1>4 DEF Install, Handlers
  <2>4. /\ Len(stack') = Len(below) + 1 /\ stack'[1] = LoopFrame /\ LoopFrame.at = "loop"
        /\ \A i \in 1..Len(below) : stack'[i + 1] = below[i]
        /\ \A i \in 1..Len(stack') : i = 1 \/ (i - 1 \in 1..Len(below) /\ stack'[i] = below[i - 1])
    <3>1. LoopFrame.at = "loop"
      BY DEF LoopFrame
    <3> QED
      BY <2>3, <3>1, FrameFields, Pushed
  <2>5. CASE below = stack /\ oneShot' = oneShot
    <3>1. calls + 1 \notin oneShot
      BY <1>0, <2>3 DEF OneShotInv
    <3>2. \A i \in 1..Len(stack') : stack'[i].at # "arm"
      BY <2>2, <2>4, <2>5
    <3> QED
      BY <2>3, <2>5, <3>1, <3>2 DEF ArmsOf
  <2>6. CASE below = <<ArmFrame(calls + 1)>> \o stack
    <3>1. ArmFrame(calls + 1) \in Frame /\ ArmFrame(calls + 1).handler = calls + 1
      BY <2>3, FrameFields DEF ArmFrame
    <3>2. /\ Len(below) = Len(stack) + 1 /\ below[1] = ArmFrame(calls + 1) /\ Len(stack) \in Nat
          /\ \A i \in 1..Len(below) : i = 1 \/ (i - 1 \in 1..Len(stack) /\ below[i] = stack[i - 1])
      BY <1>0, <2>6, <3>1, Pushed
    <3>3. \A i \in 1..Len(below) : below[i].at = "arm" => below[i] = ArmFrame(calls + 1)
      BY <2>2, <3>2
    <3>4. ArmsOf(handler)'
      BY <2>3, <2>4, <3>1, <3>3 DEF ArmsOf
    <3>5. 1 \in 1..Len(below) /\ 1 + 1 = 2
      BY <3>2
    <3>6. Len(stack') > 1 /\ stack'[2] = ArmFrame(calls + 1)
      BY <2>4, <3>2, <3>5
    <3>7. Armed(handler)'
      BY <2>3, <2>4, <3>6 DEF Armed
    <3> QED
      BY <3>4, <3>7
  <2> QED
    BY <1>4, <2>5, <2>6
<1>5. CASE Handle
  <2>1. stats.total + 1 \in Events /\ UNCHANGED <<oneShot, promise, nested>>
    BY <1>5, TotalType DEF Handle
  <2>2. CASE handler # Null
    <3>1. Invoke(stats.total + 1, FALSE, {"total", "immediate"})
      BY <1>5, <2>2 DEF Handle, HandleNow, Enqueue
    <3> QED
      BY <1>2, <2>1, <2>2, <3>1
  <2>3. CASE handler = Null
    <3>1. UNCHANGED <<handler, rejectFn, stack>>
      BY <1>5, <2>3 DEF Handle, HandleNow, Enqueue
    <3>2. Told
      BY <2>1 DEF Arming
    <3> QED
      BY <1>1, <2>1, <3>1, <3>2
  <2> QED
    BY <2>2, <2>3
<1>6. CASE Clear
  BY <1>1, <1>6 DEF Clear, Arming
<1>7. ASSUME NEW h \in oneShot PROVE h \in Handlers /\ promise[h] # "absent"
  BY <1>0, <1>7 DEF Arming
<1>8. CASE SetHandler
  <2>1. Told
    BY <1>0, <1>7, <1>8, SettledIs DEF SetHandler
  <2> QED
    BY <1>0, <1>4, <1>8, <2>1 DEF SetHandler
<1>9. CASE SetNextHandler
  <2>1. calls + 1 \in Handlers
    BY <1>0, <1>9 DEF SetNextHandler, Handlers
  <2>2. <<ArmFrame(calls + 1)>> \o stack \in Seq(Frame)
    BY <1>0, <2>1, FrameFields, PushFrame
  <2>3. ArmedRejected \in [Handlers -> PromiseState]
    BY <1>0, ArmedRejectedType
  <2>4. ASSUME NEW h \in oneShot' PROVE promise'[h] # "absent"
    <3>1. /\ oneShot' = oneShot \cup {calls + 1}
          /\ promise' = [ArmedRejected EXCEPT ![calls + 1] = "pending"]
      BY <1>9 DEF SetNextHandler
    <3>2. CASE h = calls + 1
      BY <2>1, <2>3, <3>1, <3>2
    <3>3. CASE h # calls + 1
      <4>1. h \in oneShot
        BY <2>4, <3>1, <3>3
      <4>2. ArmedRejected[h] # "absent" /\ h \in Handlers
        BY <1>0, <1>7, <4>1, SettledIs
      <4> QED
        BY <2>3, <3>1, <3>3, <4>2
    <3> QED
      BY <3>2, <3>3
  <2> QED
    BY <1>4, <1>9, <2>2, <2>4 DEF SetNextHandler
<1>10. CASE StopHandling
  <2>1. Told
    BY <1>0, <1>7, <1>10, SettledIs DEF StopHandling
  <2>2. handler' = Null /\ UNCHANGED <<stack, oneShot, nested>>
    BY <1>10 DEF StopHandling
  <2> QED
    BY <1>0, <2>1, <2>2 DEF Arming, ArmsOf
<1>11. CASE ProcessQueue
  <2>1. CASE handler # Null /\ queue # <<>>
    <3>1. Invoke(Head(queue), TRUE, {"queuedHandled"}) /\ UNCHANGED <<oneShot, promise, nested>>
      BY <1>11, <2>1 DEF ProcessQueue
    <3>2. Head(queue) \in Events
      BY <2>1 DEF TypeOK
    <3> QED
      BY <1>2, <2>1, <3>1, <3>2
  <2>2. CASE handler = Null \/ queue = <<>>
    <3>1. /\ stack # <<>> /\ stack[1].at = "loop" /\ stack' = Tail(stack)
          /\ UNCHANGED <<handler, rejectFn, oneShot, promise, nested>>
      BY <1>11, <2>2 DEF ProcessQueue, Idle
    <3>2. /\ Len(stack') = Len(stack) - 1 /\ Len(stack) \in Nat \ {0} /\ stack' \in Seq(Frame)
          /\ \A i \in 1..Len(stack') : i + 1 \in 1..Len(stack) /\ stack'[i] = stack[i + 1]
      BY <1>0, <3>1, Dropped
    <3>3. ~nested => ArmsOf(handler)'
      BY <3>1, <3>2 DEF Arming, ArmsOf
    <3>4. Armed(handler) => Armed(handler)'
      <4>1. CASE rejectFn = handler
        BY <3>1, <4>1 DEF Armed
      <4>2. CASE stack[1] = ArmFrame(handler)
        BY <3>1, <4>2 DEF ArmFrame
      <4>3. CASE Len(stack) > 1 /\ stack[2] = ArmFrame(handler)
        <5>1. 1 \in 1..Len(stack') /\ 1 + 1 = 2
          BY <3>2, <4>3
        <5>2. stack' # <<>> /\ stack'[1] = ArmFrame(handler)
          BY <3>2, <4>3, <5>1
        <5> QED
          BY <3>1, <5>2 DEF Armed
      <4> QED
        BY <4>1, <4>2, <4>3 DEF Armed
    <3> QED
      BY <3>1, <3>3, <3>4 DEF Arming
  <2> QED
    BY <2>1, <2>2
<1>12. CASE Arm
  <2>1. /\ stack # <<>> /\ stack[1].at = "arm" /\ stack' = Tail(stack)
        /\ rejectFn' = (IF handler # Null THEN stack[1].handler ELSE rejectFn)
        /\ UNCHANGED <<handler, oneShot, promise, nested>>
    BY <1>12 DEF Arm, Idle
  <2>2. /\ Len(stack') = Len(stack) - 1 /\ Len(stack) \in Nat \ {0}
        /\ \A i \in 1..Len(stack') : i + 1 \in 1..Len(stack) /\ stack'[i] = stack[i + 1]
    BY <1>0, <2>1, Dropped
  <2>3. ~nested => ArmsOf(handler)'
    BY <2>1, <2>2 DEF Arming, ArmsOf
  <2>4. ~nested /\ handler \in oneShot => rejectFn' = handler
    <3>1. SUFFICES ASSUME ~nested, handler \in oneShot PROVE rejectFn' = handler
      OBVIOUS
    <3>2. handler # Null /\ 1 \in 1..Len(stack)
      BY <1>0, <2>2, <3>1
    <3>3. handler \in {Null, stack[1].handler}
      BY <2>1, <3>1, <3>2 DEF Arming, ArmsOf
    <3> QED
      BY <2>1, <3>2, <3>3
  <2> QED
    BY <2>1, <2>3, <2>4 DEF Arming, Armed
<1>13. CASE Return
  <2>1. /\ stack # <<>> /\ stack[1].at = "body" /\ stack' = Tail(stack)
        /\ UNCHANGED <<handler, rejectFn, oneShot, promise, nested>>
    BY <1>13 DEF Return, Idle
  <2>2. /\ Len(stack') = Len(stack) - 1 /\ 1 \in 1..Len(stack) /\ stack' \in Seq(Frame)
        /\ \A i \in 1..Len(stack') : i + 1 \in 1..Len(stack) /\ stack'[i] = stack[i + 1]
    BY <1>0, <2>1, Dropped
  <2>3. ~Idle /\ Told
    BY <2>1 DEF Idle, Arming
  <2> QED
    BY <1>3, <2>1, <2>2, <2>3
<1>14. CASE Throw
  <2> DEFINE rest == Tail(stack)
             out == IF rest # <<>> /\ rest[1].at = "loop" THEN Tail(rest) ELSE rest
  <2>1. /\ stack # <<>> /\ stack[1].at = "body" /\ ~Idle
        /\ \/ out # <<>> /\ stack' = Tail(out) /\ promise' = Settle(promise, out[1].handler, "rejected")
           \/ stack' = out /\ promise' = promise
        /\ UNCHANGED <<handler, rejectFn, oneShot, nested>>
    BY <1>14 DEF Throw, Idle
  <2>2. Told
    <3> HIDE DEF out
    <3> QED
      BY <1>0, <1>7, <2>1, SettledIs
  <2>3. /\ rest \in Seq(Frame) /\ Len(rest) = Len(stack) - 1 /\ Len(stack) \in Nat \ {0}
        /\ \A i \in 1..Len(rest) : i + 1 \in 1..Len(stack) /\ rest[i] = stack[i + 1]
    BY <1>0, <2>1, Dropped
  <2> HIDE DEF rest
  <2>4. PICK m \in 1..2 :
          /\ m <= Len(stack) /\ out \in Seq(Frame) /\ Len(out) = Len(stack) - m
          /\ \A i \in 1..Len(out) : i + m \in 1..Len(stack) /\ out[i] = stack[i + m]
    <3>1. CASE rest # <<>> /\ rest[1].at = "loop"
      <4>1. out = Tail(rest)
        BY <3>1
      <4>2. /\ out \in Seq(Frame) /\ Len(out) = Len(rest) - 1 /\ Len(rest) \in Nat \ {0}
            /\ \A i \in 1..Len(out) : i + 1 \in 1..Len(rest) /\ out[i] = rest[i + 1]
        BY <2>3, <3>1, <4>1, Dropped
      <4> HIDE DEF out
      <4>3. \A i \in 1..Len(out) : i + 2 \in 1..Len(stack) /\ out[i] = stack[i + 2]
        <5>1. ASSUME NEW i \in 1..Len(out)
              PROVE  i + 2 \in 1..Len(stack) /\ out[i] = stack[i + 2]
          <6>1. i + 1 \in 1..Len(rest) /\ out[i] = rest[i + 1]
            BY <4>2
          <6>2. (i + 1) + 1 \in 1..Len(stack) /\ rest[i + 1] = stack[(i + 1) + 1] /\ (i + 1) + 1 = i + 2
            BY <2>3, <6>1
          <6> QED
            BY <6>1, <6>2
        <5> QED
          BY <5>1
      <4>4. 2 \in 1..2 /\ 2 <= Len(stack) /\ Len(out) = Len(stack) - 2
        BY <2>3, <4>2
      <4> QED
        BY <4>2, <4>3, <4>4
    <3>2. CASE ~(rest # <<>> /\ rest[1].at = "loop")
      <4>1. out = rest
        BY <3>2
      <4>2. 1 \in 1..2 /\ 1 <= Len(stack)
        BY <2>3
      <4> QED
        BY <2>3, <4>1, <4>2
    <3> QED
      BY <3>1, <3>2
  <2> HIDE DEF out
  <2>5. CASE stack' = out
    <3>1. m \in 1..Len(stack)
      BY <2>3, <2>4
    <3> QED
      BY <1>3, <2>1, <2>2, <2>4, <2>5, <3>1
  <2>6. CASE out # <<>> /\ stack' = Tail(out)
    <3>1. /\ stack' \in Seq(Frame) /\ Len(stack') = Len(out) - 1 /\ Len(out) \in Nat \ {0}
          /\ \A i \in 1..Len(stack') : i + 1 \in 1..Len(out) /\ stack'[i] = out[i + 1]
      BY <2>4, <2>6, Dropped
    <3>2. m + 1 \in 1..Len(stack) /\ Len(stack') = Len(stack) - (m + 1)
      BY <2>3, <2>4, <3>1
    <3>3. ASSUME NEW i \in 1..Len(stack')
          PROVE  i + (m + 1) \in 1..Len(stack) /\ stack'[i] = stack[i + (m + 1)]
      <4>1. i + 1 \in 1..Len(out) /\ stack'[i] = out[i + 1]
        BY <3>1
      <4>2. (i + 1) + m \in 1..Len(stack) /\ out[i + 1] = stack[(i + 1) + m]
        BY <2>4, <4>1
      <4>3. (i + 1) + m = i + (m + 1)
        BY <3>1
      <4> QED
        BY <4>1, <4>2, <4>3
    <3> DEFINE n == m + 1
    <3>4. /\ n \in 1..Len(stack) /\ Len(stack') = Len(stack) - n
          /\ \A i \in 1..Len(stack') : i + n \in 1..Len(stack) /\ stack'[i] = stack[i + n]
      BY <3>2, <3>3
    <3> HIDE DEF n
    <3> QED
      BY <1>3, <2>1, <2>2, <3>1, <3>4
  <2> QED
    BY <2>1, <2>5, <2>6
<1>15. CASE HandlerFulfils
  <2>1. Told
    BY <1>0, <1>7, <1>15, SettledIs DEF HandlerFulfils
  <2> QED
    BY <1>1, <1>15, <2>1 DEF HandlerFulfils
<1>16. CASE HandlerRejects
  BY <1>1, <1>16 DEF HandlerRejects, Arming
<1>17. CASE UNCHANGED vars
  BY <1>1, <1>17 DEF vars, Arming
<1> QED
  BY <1>5, <1>6, <1>8, <1>9, <1>10, <1>11, <1>12, <1>13, <1>14, <1>15, <1>16, <1>17 DEF Next

LEMMA NotLostStep ==
  ASSUME TypeOK, OneShotInv, Arming, [Next]_vars, NEW h \in oneShot,
         ~nested, handler = h, handler' # h
  PROVE  uses'[h] = 1 \/ promise'[h] \in Settled
<1>0. /\ h \in Handlers /\ h # Null /\ promise[h] # "absent" /\ uses[h] = 0 /\ h <= calls
      /\ calls \in 0..MaxSets /\ h \in Nat
      /\ promise \in [Handlers -> PromiseState] /\ uses \in [Handlers -> Nat] /\ stack \in Seq(Frame)
      /\ "rejected" \in Settled
  BY DEF TypeOK, OneShotInv, Arming, Handlers, Null, Settled
<1>1. ASSUME NEW x, NEW q, NEW names, Invoke(x, q, names) PROVE uses'[h] = 1
  <2>1. uses' = [uses EXCEPT ![h] = @ + 1]
    BY <1>1 DEF Invoke
  <2> QED
    BY <1>0, <2>1
<1>2. UserCode => ArmedRejected[h] \in Settled
  <2>1. SUFFICES ASSUME UserCode PROVE ArmedRejected[h] \in Settled
    OBVIOUS
  <2>2. Idle \/ (~Idle /\ stack[1].at = "body")
    BY <2>1 DEF UserCode, Idle
  <2>3. rejectFn = h
    BY <1>0, <2>2, ArmedForUser DEF Arming
  <2> QED
    BY <1>0, <2>3, SettledIs
<1>3. CASE Handle
  BY <1>0, <1>1, <1>3 DEF Handle, HandleNow, Enqueue
<1>4. CASE ProcessQueue
  BY <1>1, <1>4 DEF ProcessQueue
<1>5. CASE SetHandler
  BY <1>2, <1>5 DEF SetHandler
<1>6. CASE SetNextHandler
  <2>1. promise' = [ArmedRejected EXCEPT ![calls + 1] = "pending"]
    BY <1>6 DEF SetNextHandler
  <2>2. ArmedRejected \in [Handlers -> PromiseState] /\ h # calls + 1
    BY <1>0, ArmedRejectedType
  <2>3. promise'[h] = ArmedRejected[h]
    BY <1>0, <2>1, <2>2
  <2> QED
    BY <1>2, <1>6, <2>3 DEF SetNextHandler
<1>7. CASE StopHandling
  BY <1>2, <1>7 DEF StopHandling
<1>8. CASE Clear \/ Arm \/ Return \/ Throw \/ HandlerFulfils \/ HandlerRejects \/ UNCHANGED vars
  BY <1>8 DEF Clear, Arm, Return, Throw, HandlerFulfils, HandlerRejects, vars
<1> QED
  BY <1>3, <1>4, <1>5, <1>6, <1>7, <1>8 DEF Next

\* What the promise of setNextHandler rests on: its handler is called at most once, and,
\* unless one was set while setNextHandler ran, when it is taken off the queue it was
\* called or its promise has been rejected.
THEOREM NextHandlerContract == Spec => OneShotContract
<1>1. Init => OneShotInv /\ Arming
  <2>1. Init => OneShotInv
    BY DEF Init, OneShotInv, Null, Handlers
  <2>2. Init => Arming
    BY DEF Init, Arming, ArmsOf
  <2> QED
    BY <2>1, <2>2
<1>2. TypeOK /\ OneShotInv /\ Arming /\ [Next]_vars => OneShotInv' /\ Arming'
  BY OneShotStep, ArmingStep
<1>3. OneShotInv => OneShotOnce
  BY DEF OneShotInv, OneShotOnce
<1>4. TypeOK /\ OneShotInv /\ Arming /\ [Next]_vars =>
        [\A h \in oneShot :
           ~nested /\ handler = h /\ handler' # h
             => uses'[h] = 1 \/ promise'[h] \in Settled]_vars
  BY NotLostStep
<1> QED
  BY <1>1, <1>2, <1>3, <1>4, TypeInvariant, PTL DEF Spec, OneShotContract, NextHandlerNotLost

-----------------------------------------------------------------------------
(* The counter *)

\* The counter is the number of calls outstanding less the discards; that is
\* why testing it is testing for quiet.
Balance ==
  /\ call \in [Calls -> {"idle", "pending", "done"}]
  /\ discards \in 0..MaxDiscards
  /\ destructions \in Nat
  /\ onceDestroyed \in {"pending", "fulfilled", "rejected"}
  /\ counter = Cardinality(Pending) - discards

CounterInv == Balance /\ DestroyedIfQuiet

LEMMA PendingFinite ==
  /\ IsFiniteSet(Pending) /\ Cardinality(Pending) \in Nat
  /\ Cardinality(Pending) <= Cardinality(Calls) /\ Cardinality(Calls) \in Nat
  /\ Cardinality(Pending) = 0 <=> Pending = {}
<1>1. Pending \subseteq Calls
  BY DEF Pending
<1> QED
  BY <1>1, CounterAssumption, FS_Subset, FS_CardinalityType, FS_EmptySet

LEMMA AfterType ==
  ASSUME Balance, After
  PROVE  /\ counter' = counter - 1
         /\ destructions' \in Nat
         /\ destructions' >= destructions
         /\ onceDestroyed' \in {"pending", "fulfilled", "rejected"}
         /\ counter' < 0 => destructions' > 0
         /\ destructions' > destructions => counter' < 0
  BY DEF Balance, After

LEMMA CounterStep ==
  ASSUME CounterInv, [CounterNext]_counterVars
  PROVE  /\ CounterInv'
         /\ MaxDiscards <= 1 =>
              (destructions' > destructions => discards' > 0 /\ Pending' = {})
<1>0. /\ Balance /\ discards \in Nat /\ MaxDiscards \in Nat
  BY CounterAssumption DEF CounterInv, Balance
<1>1. ASSUME NEW c \in Calls, Wrap(c)
      PROVE  CounterInv' /\ destructions' = destructions
  <2>1. Pending' = Pending \cup {c} /\ c \notin Pending
    BY <1>0, <1>1 DEF Wrap, Pending, Balance
  <2>2. Cardinality(Pending') = Cardinality(Pending) + 1
    BY <2>1, PendingFinite, FS_AddElement
  <2>3. Balance'
    BY <1>0, <1>1, <2>2, PendingFinite DEF Wrap, Balance
  <2> QED
    BY <1>1, <2>1, <2>3 DEF CounterInv, DestroyedIfQuiet, Wrap
<1>2. ASSUME NEW c \in Calls, Resolve(c)
      PROVE  /\ CounterInv'
             /\ MaxDiscards <= 1 =>
                  (destructions' > destructions => discards' > 0 /\ Pending' = {})
  <2>1. Pending' = Pending \ {c} /\ c \in Pending
    BY <1>0, <1>2 DEF Resolve, Pending, Balance
  <2>2. Cardinality(Pending') = Cardinality(Pending) - 1 /\ IsFiniteSet(Pending')
    BY <2>1, PendingFinite, FS_RemoveElement, FS_Subset
  <2>3. /\ Cardinality(Pending') \in Nat
        /\ Cardinality(Pending') = 0 <=> Pending' = {}
    BY <2>2, FS_CardinalityType, FS_EmptySet
  <2>4. After /\ discards' = discards
        /\ call' \in [Calls -> {"idle", "pending", "done"}]
    BY <1>0, <1>2 DEF Resolve, Balance
  <2>5. counter' = Cardinality(Pending') - discards'
    BY <1>0, <2>2, <2>4, AfterType, PendingFinite DEF Balance
  <2>6. Balance'
    BY <1>0, <2>4, <2>5, AfterType DEF Balance
  <2>7. DestroyedIfQuiet'
    BY <1>0, <2>3, <2>4, <2>5, AfterType DEF DestroyedIfQuiet
  <2>8. ASSUME MaxDiscards <= 1, destructions' > destructions
        PROVE  discards' > 0 /\ Pending' = {}
    <3>1. counter' < 0
      BY <1>0, <2>4, <2>8, AfterType
    <3>2. discards' \in Nat /\ discards' <= 1
      BY <1>0, <2>4, <2>8 DEF Balance
    <3> QED
      BY <2>3, <2>5, <3>1, <3>2
  <2> QED
    BY <2>6, <2>7, <2>8 DEF CounterInv
<1>3. ASSUME Discard
      PROVE  /\ CounterInv'
             /\ MaxDiscards <= 1 =>
                  (destructions' > destructions => discards' > 0 /\ Pending' = {})
  <2>1. /\ Pending' = Pending /\ call' = call /\ After /\ discards < MaxDiscards
        /\ discards' = discards + 1
    BY <1>3 DEF Discard, Pending
  <2>2. discards' \in 1..MaxDiscards /\ discards' \in Nat
    BY <1>0, <2>1
  <2>3. counter' = Cardinality(Pending') - discards'
    BY <1>0, <2>1, <2>2, AfterType, PendingFinite DEF Balance
  <2>4. Balance'
    BY <1>0, <2>1, <2>2, <2>3, AfterType DEF Balance
  <2>5. DestroyedIfQuiet'
    BY <1>0, <2>1, <2>2, <2>3, AfterType, PendingFinite DEF DestroyedIfQuiet
  <2>6. ASSUME MaxDiscards <= 1, destructions' > destructions
        PROVE  discards' > 0 /\ Pending' = {}
    BY <1>0, <2>1, <2>2, <2>3, <2>6, AfterType, PendingFinite
  <2> QED
    BY <2>4, <2>5, <2>6 DEF CounterInv
<1>4. CASE UNCHANGED counterVars
  <2>1. Pending' = Pending
    BY <1>4 DEF counterVars, Pending
  <2>2. CounterInv' /\ destructions' = destructions
    BY <1>4, <2>1 DEF counterVars, CounterInv, Balance, DestroyedIfQuiet
  <2> QED
    BY <1>0, <2>2 DEF Balance
<1>5. destructions' = destructions => ~(destructions' > destructions)
  BY <1>0 DEF Balance
<1> QED
  BY <1>1, <1>2, <1>3, <1>4, <1>5 DEF CounterNext

LEMMA CounterInvInit == CounterInit => CounterInv
<1> SUFFICES ASSUME CounterInit PROVE CounterInv
  OBVIOUS
<1>1. Pending = {}
  BY DEF CounterInit, Pending
<1>2. Cardinality(Pending) = 0
  BY <1>1, FS_EmptySet
<1> QED
  BY <1>1, <1>2, CounterAssumption DEF CounterInit, CounterInv, Balance, DestroyedIfQuiet

\* CounterTypeOK, whose bounds on the counter rest on the balance.
THEOREM CounterTyped == CounterSpec => []CounterTypeOK
<1>1. CounterInv => CounterTypeOK
  BY PendingFinite, CounterAssumption DEF CounterInv, Balance, CounterTypeOK
<1> QED
  BY <1>1, CounterInvInit, CounterStep, PTL DEF CounterSpec

\* Once the provider is discarded and its calls have resolved, it has been
\* destroyed.
THEOREM QuietIsDestroyed == CounterSpec => []DestroyedIfQuiet
<1>1. CounterInv => DestroyedIfQuiet
  BY DEF CounterInv
<1> QED
  BY <1>1, CounterInvInit, CounterStep, PTL DEF CounterSpec

\* If discard() is called once, the provider is never destroyed under a call
\* that has not resolved.
THEOREM NeverDestroyedEarly ==
  ASSUME MaxDiscards <= 1 PROVE CounterSpec => DestroyedOnlyIfQuiet
<1>1. CounterInv /\ [CounterNext]_counterVars
        => CounterInv'
           /\ [destructions' > destructions => discards' > 0 /\ Pending' = {}]_counterVars
  BY CounterStep
<1> QED
  BY <1>1, CounterInvInit, PTL DEF CounterSpec, DestroyedOnlyIfQuiet

-----------------------------------------------------------------------------
(* The connection *)

\* A buffer in the queue has come from the socket.
Typed == ConnectionTypeOK /\ fromQueue <= data

\* The counter is discarded when the connection becomes CLOSED, and only then;
\* the provider is destroyed after that, when nothing is outstanding.
Once ==
  /\ discards = IF state = "CLOSED" THEN 1 ELSE 0
  /\ disconnectKind # "none" <=> state = "CLOSED"
  /\ kind = "bad" => onceClosed # "pending" /\ ~listening
  /\ destructions <= 1
  /\ destructions = 1 => Pending = {} /\ state = "CLOSED"
  /\ onceDestroyed = "fulfilled" => destructions = 1

Inv == Typed /\ CounterInv /\ Once /\ EndIsSafe

-----------------------------------------------------------------------------
(* What the steps of the counter do under this invariant *)

Counted ==
  /\ CounterInv'
  /\ destructions' <= 1
  /\ destructions' = 1 => Pending' = {} /\ discards' = 1
  /\ onceDestroyed' = "fulfilled" => destructions' = 1
  /\ destructions' >= destructions

LEMMA CountsAre ==
  ASSUME Inv
  PROVE  /\ counter = Cardinality(Pending) - discards
         /\ destructions \in {0, 1} /\ discards \in {0, 1}
         /\ onceDestroyed \in {"pending", "fulfilled", "rejected"}
         /\ destructions = 1 => Pending = {} /\ discards = 1
         /\ onceDestroyed = "fulfilled" => destructions = 1
         /\ call \in [Calls -> {"idle", "pending", "done"}]
  BY DEF Inv, CounterInv, Balance, Once

LEMMA ResolveCounts ==
  ASSUME Inv, NEW c \in Calls, Resolve(c)
  PROVE  Counted /\ discards' = discards
<1>1. CounterInv'
  BY CounterStep DEF Inv, CounterNext
<1>2. /\ call[c] = "pending" /\ call' = [call EXCEPT ![c] = "done"]
      /\ After /\ discards' = discards
  BY DEF Resolve
<1>3. Pending # {} /\ destructions = 0 /\ onceDestroyed # "fulfilled"
  BY <1>2, CountsAre DEF Pending
<1>4. Pending' \subseteq Calls /\ IsFiniteSet(Pending') /\ Cardinality(Pending') \in Nat
      /\ (Cardinality(Pending') = 0 <=> Pending' = {})
  BY CounterAssumption, FS_Subset, FS_CardinalityType, FS_EmptySet DEF Pending
<1>5. counter' = Cardinality(Pending') - discards'
  BY <1>1 DEF CounterInv, Balance
<1>6. counter' < 0 => Pending' = {} /\ discards' = 1
  BY <1>2, <1>4, <1>5, CountsAre
<1>7. counter' < 0 \/ (destructions' = destructions /\ onceDestroyed' = onceDestroyed)
  BY <1>2, <1>4, <1>5, CountsAre DEF After
<1>8. counter' < 0 => destructions' = 1
  BY <1>2, <1>3 DEF After
<1> QED
  BY <1>1, <1>2, <1>3, <1>6, <1>7, <1>8 DEF Counted

LEMMA DiscardCounts ==
  ASSUME Inv, state # "CLOSED", Discard
  PROVE  Counted /\ discards' = 1
<1>1. CounterInv'
  BY CounterStep DEF Inv, CounterNext
<1>2. discards = 0 /\ destructions = 0 /\ onceDestroyed # "fulfilled"
  BY CountsAre DEF Inv, Once
<1>3. After /\ discards' = 1 /\ Pending' = Pending /\ counter = Cardinality(Pending)
  BY <1>2, CountsAre, PendingFinite DEF Discard, Pending
<1>4. counter' < 0 => Pending' = {} /\ destructions' = 1
  BY <1>2, <1>3, PendingFinite DEF After
<1>5. counter' < 0 \/ (destructions' = destructions /\ onceDestroyed' = onceDestroyed)
  BY <1>3, PendingFinite DEF After
<1> QED
  BY <1>1, <1>2, <1>3, <1>4, <1>5 DEF Counted

LEMMA WrapCounts ==
  ASSUME Inv, state # "CLOSED", NEW c \in Calls, Wrap(c)
  PROVE  Counted /\ discards' = discards
<1>1. CounterInv'
  BY CounterStep DEF Inv, CounterNext
<1>2. destructions = 0 /\ onceDestroyed # "fulfilled"
  BY CountsAre DEF Inv, Once
<1> QED
  BY <1>1, <1>2 DEF Wrap, Counted

LEMMA SameCounts ==
  ASSUME Inv, UNCHANGED counterVars
  PROVE  Counted /\ discards' = discards
<1>1. CounterInv'
  BY CounterStep DEF Inv
<1>2. Pending' = Pending
  BY DEF counterVars, Pending
<1> QED
  BY <1>1, <1>2, CountsAre DEF counterVars, Counted

-----------------------------------------------------------------------------
(* The steps of the provider *)

\* An answer of the provider: the state does not become or cease to be CLOSED.
LEMMA AnswerKeeps ==
  ASSUME Inv, Counted, discards' = discards,
         state' = "CLOSED" <=> state = "CLOSED",
         NEW otherwise \in {"pending", "NEVER_CONNECTED"},
         SettleClosed(disconnectKind, otherwise),
         UNCHANGED <<disconnectKind, kind, listening>>
  PROVE  Once' /\ EndIsSafe'
         /\ onceClosed' \in CloseKinds \cup {"pending"}
         /\ receive' \in {receive, "aborted"}
<1>1. /\ onceClosed' = onceClosed \/ onceClosed' = otherwise
           \/ (onceClosed' = disconnectKind /\ disconnectKind # "none" /\ destructions' = 1)
      /\ onceClosed # "pending" => onceClosed' = onceClosed
      /\ receive' \in {receive, "aborted"}
      /\ receive' = "waiting" => onceClosed' = "pending"
  BY DEF SettleClosed, Counted
<1>2. Once'
  BY <1>1 DEF Inv, Once, Counted
<1>3. destructions' = 0 \/ destructions' = 1
  BY DEF Counted, CounterInv, Balance
<1>4. EndIsSafe'
  BY <1>1, <1>2, <1>3, CountsAre
  DEF Inv, Once, Counted, EndIsSafe, DestroyedSafely, NoHangingReceive
<1>5. onceClosed' \in CloseKinds \cup {"pending"}
  BY <1>1 DEF Inv, Typed, ConnectionTypeOK, CloseKinds
<1> QED
  BY <1>1, <1>2, <1>4, <1>5

LEMMA OpenedKeeps ==
  ASSUME Inv, Opened
  PROVE  Inv'
<1>1. Counted /\ discards' = discards
  BY ResolveCounts, ConnectionAssumption DEF Opened
<1>2. /\ state' = StateOnceOpen /\ onceConnected' = "fulfilled" /\ writing' = TRUE
      /\ sent' = [m \in Sends |-> IF sent[m] = "queued" THEN "written" ELSE sent[m]]
      /\ SettleClosed(disconnectKind, "pending")
      /\ UNCHANGED <<kind, disconnectKind, disconnects, fromQueue, fromHandler,
                     listening, receives, data, closeCalled>>
  BY DEF Opened
<1>3. state' = "CLOSED" <=> state = "CLOSED"
  BY <1>2 DEF StateOnceOpen
<1>4. Once' /\ EndIsSafe' /\ onceClosed' \in CloseKinds \cup {"pending"}
      /\ receive' \in {receive, "aborted"}
  BY <1>1, <1>2, <1>3, AnswerKeeps
<1>5. sent' \in [Sends -> {"absent", "queued", "written", "rejected"}] /\ state' \in States
  BY <1>2 DEF Inv, Typed, ConnectionTypeOK, StateOnceOpen, States
<1>6. Typed'
  BY <1>2, <1>4, <1>5 DEF Inv, Typed, ConnectionTypeOK
<1> QED
  BY <1>1, <1>4, <1>6 DEF Inv, Counted

LEMMA OpenFailsKeeps ==
  ASSUME Inv, OpenFails
  PROVE  Inv'
<1>1. Counted /\ discards' = discards
  BY ResolveCounts, ConnectionAssumption DEF OpenFails
<1>2. /\ onceConnected' = "rejected"
      /\ SettleClosed(disconnectKind, "NEVER_CONNECTED")
      /\ UNCHANGED <<kind, state, disconnectKind, disconnects, sendVars, fromQueue,
                     fromHandler, listening, receives, data, closeCalled>>
  BY DEF OpenFails
<1>3. Once' /\ EndIsSafe' /\ onceClosed' \in CloseKinds \cup {"pending"}
      /\ receive' \in {receive, "aborted"}
  BY <1>1, <1>2, AnswerKeeps
<1>4. Typed'
  BY <1>2, <1>3 DEF Inv, Typed, ConnectionTypeOK, sendVars
<1> QED
  BY <1>1, <1>3, <1>4 DEF Inv, Counted

LEMMA CloseResolvesKeeps ==
  ASSUME Inv, CloseResolves
  PROVE  Inv'
<1>1. Counted /\ discards' = discards
  BY ResolveCounts, ConnectionAssumption DEF CloseResolves
<1>2. /\ SettleClosed(disconnectKind, "pending")
      /\ UNCHANGED <<kind, state, onceConnected, disconnectKind, disconnects, sendVars,
                     fromQueue, fromHandler, listening, receives, data, closeCalled>>
  BY DEF CloseResolves
<1>3. Once' /\ EndIsSafe' /\ onceClosed' \in CloseKinds \cup {"pending"}
      /\ receive' \in {receive, "aborted"}
  BY <1>1, <1>2, AnswerKeeps
<1>4. Typed'
  BY <1>2, <1>3 DEF Inv, Typed, ConnectionTypeOK, sendVars
<1> QED
  BY <1>1, <1>3, <1>4 DEF Inv, Counted

\* Only the first report of the disconnection reaches the counter.
LEMMA DisconnectedKeeps ==
  ASSUME Inv, NEW k \in {"WE_CLOSED_IT", "REMOTELY_CLOSED", "UNKOWN"},
         kind # "bad", state # "CLOSED", disconnects' \in 0..MaxDisconnects, Disconnected(k)
  PROVE  Inv'
<1>1. Counted /\ discards' = 1
  BY DiscardCounts DEF Disconnected
<1>2. /\ state' = "CLOSED" /\ disconnectKind' = k /\ writing' = FALSE
      /\ sent' = QueueRejected
      /\ SettleClosed(k, "pending")
      /\ UNCHANGED <<kind, onceConnected, fromQueue, fromHandler, listening,
                     receives, data, closeCalled>>
  BY DEF Disconnected
<1>3. /\ onceClosed' = onceClosed \/ (onceClosed' = k /\ destructions' = 1)
      /\ receive' \in {receive, "aborted"}
      /\ receive' = "waiting" => onceClosed' = "pending"
  BY <1>1, <1>2 DEF SettleClosed, Counted, Inv, EndIsSafe, NoHangingReceive
<1>4. destructions' = 0 \/ destructions' = 1
  BY <1>1 DEF Counted, CounterInv, Balance
<1>5. onceClosed \in {"pending", "NEVER_CONNECTED"}
  BY DEF Inv, EndIsSafe, DestroyedSafely
<1>6. Once'
  BY <1>1, <1>2 DEF Once, Counted
<1>7. EndIsSafe'
  BY <1>1, <1>2, <1>3, <1>4, <1>5, <1>6
  DEF Once, Counted, EndIsSafe, DestroyedSafely, NoHangingReceive
<1>8. sent' \in [Sends -> {"absent", "queued", "written", "rejected"}]
  BY <1>2 DEF Inv, Typed, ConnectionTypeOK, QueueRejected
<1>9. Typed'
  BY <1>2, <1>3, <1>5, <1>8 DEF Inv, Typed, ConnectionTypeOK, States, CloseKinds
<1> QED
  BY <1>1, <1>6, <1>7, <1>9 DEF Inv, Counted

LEMMA OnDisconnectKeeps ==
  ASSUME Inv, OnDisconnect
  PROVE  Inv'
<1>1. kind # "bad" /\ disconnects' \in 0..MaxDisconnects
  BY ConnectionAssumption DEF OnDisconnect, Inv, Typed, ConnectionTypeOK
<1>2. CASE /\ state = "CLOSED"
           /\ UNCHANGED <<kind, state, onceConnected, onceClosed, counterVars,
                          disconnectKind, sendVars, recvVars, closeCalled>>
  <2>1. Counted /\ discards' = discards /\ Pending' = Pending /\ destructions' = destructions
    BY <1>2, SameCounts DEF counterVars, Pending
  <2>2. Typed'
    BY <1>1, <1>2 DEF Inv, Typed, ConnectionTypeOK, sendVars, recvVars
  <2>3. Once' /\ EndIsSafe'
    BY <1>2, <2>1
    DEF Inv, Once, Counted, EndIsSafe, DestroyedSafely, NoHangingReceive, recvVars
  <2> QED
    BY <2>1, <2>2, <2>3 DEF Inv, Counted
<1>3. CASE /\ state # "CLOSED"
           /\ \E k \in {"WE_CLOSED_IT", "REMOTELY_CLOSED", "UNKOWN"} : Disconnected(k)
  BY <1>1, <1>3, DisconnectedKeeps
<1> QED
  BY <1>2, <1>3 DEF OnDisconnect

-----------------------------------------------------------------------------
(* The steps of the owner, and data *)

\* A step that neither counts nor settles.
LEMMA QuietKeeps ==
  ASSUME Inv, Typed', Counted, discards' = discards,
         UNCHANGED <<kind, onceClosed, disconnectKind>>,
         state' = "CLOSED" <=> state = "CLOSED",
         listening' => listening,
         receive' = "waiting" => onceClosed = "pending"
  PROVE  Inv'
<1>1. Once'
  BY DEF Inv, Once, Counted
<1>2. destructions' = 0 \/ destructions' = 1
  BY DEF Counted, CounterInv, Balance
<1>3. EndIsSafe'
  BY <1>1, <1>2, CountsAre
  DEF Inv, Once, Counted, EndIsSafe, DestroyedSafely, NoHangingReceive
<1> QED
  BY <1>1, <1>3 DEF Inv, Counted

LEMMA CloseKeeps ==
  ASSUME Inv, Close
  PROVE  Inv'
<1>1. /\ kind # "bad" /\ state \in {"CONNECTING", "CONNECTED"} /\ state' = "CLOSING"
      /\ closeCalled' = TRUE /\ fromHandler' = "none"
      /\ receive' = (IF receive = "waiting" THEN "aborted" ELSE receive)
      /\ fromQueue' = 0 /\ listening' = FALSE
      /\ Wrap("close")
      /\ UNCHANGED <<kind, onceConnected, onceClosed, disconnectKind, disconnects,
                     sent, writing, receives, data>>
  BY DEF Close, StopFrom, DataOff, sendVars
<1>2. Counted /\ discards' = discards
  <2>1. state # "CLOSED" /\ "close" \in Calls /\ Wrap("close")
    BY <1>1, ConnectionAssumption
  <2> QED
    BY <2>1, WrapCounts
<1>3. Typed'
  <2>1. listening' \in BOOLEAN /\ closeCalled' \in BOOLEAN
    BY <1>1, Zenon
  <2>2. state' \in States /\ receive' \in {"absent", "waiting", "got", "aborted"}
        /\ fromQueue' \in 0..MaxData /\ fromQueue' <= data'
    BY <1>1, ConnectionAssumption DEF Inv, Typed, ConnectionTypeOK, States
  <2> QED
    BY <1>1, <2>1, <2>2 DEF Inv, Typed, ConnectionTypeOK
<1> QED
  BY <1>1, <1>2, <1>3, QuietKeeps

LEMMA CloseBadKeeps ==
  ASSUME Inv, CloseBad
  PROVE  Inv'
<1>1. /\ state = "ERROR" /\ state' = "CLOSING" /\ closeCalled' = TRUE
      /\ fromHandler' = "none"
      /\ receive' = (IF receive = "waiting" THEN "aborted" ELSE receive)
      /\ fromQueue' = 0
      /\ UNCHANGED <<kind, onceConnected, onceClosed, counterVars, disconnectKind,
                     disconnects, sent, writing, listening, receives, data>>
  BY DEF CloseBad, StopFrom, sendVars
<1>2. Counted /\ discards' = discards
  BY <1>1, SameCounts
<1>3. Typed'
  BY <1>1, ConnectionAssumption DEF Inv, Typed, ConnectionTypeOK, States
<1> QED
  BY <1>1, <1>2, <1>3, QuietKeeps

LEMMA SendKeeps ==
  ASSUME Inv, NEW m \in Sends, Send(m)
  PROVE  Inv'
<1>1. /\ sent' = [sent EXCEPT ![m] = IF writing THEN "written" ELSE "queued"]
      /\ UNCHANGED <<kind, state, onceConnected, onceClosed, counterVars, disconnectKind,
                     disconnects, writing, fromQueue, fromHandler, listening, receives,
                     receive, data, closeCalled>>
  BY DEF Send, recvVars
<1>2. Counted /\ discards' = discards
  BY <1>1, SameCounts
<1>3. sent' \in [Sends -> {"absent", "queued", "written", "rejected"}]
  BY <1>1 DEF Inv, Typed, ConnectionTypeOK
<1>4. Typed'
  BY <1>1, <1>3 DEF Inv, Typed, ConnectionTypeOK
<1>5. receive' = "waiting" => onceClosed = "pending"
  BY <1>1 DEF Inv, EndIsSafe, NoHangingReceive
<1> QED
  BY <1>1, <1>2, <1>4, <1>5, QuietKeeps

LEMMA ReceiveNextKeeps ==
  ASSUME Inv, ReceiveNext
  PROVE  Inv'
<1>1. /\ receives < MaxReceives /\ receives' = receives + 1
      /\ \/ /\ fromQueue > 0 /\ receive' = "got" /\ fromHandler' = "none"
            /\ fromQueue' = fromQueue - 1
         \/ /\ receive' = NothingToReceive /\ fromHandler' = "next"
            /\ fromQueue' = fromQueue
      /\ UNCHANGED <<kind, state, onceConnected, onceClosed, counterVars, disconnectKind,
                     disconnects, sent, writing, listening, data, closeCalled>>
  BY DEF ReceiveNext, sendVars
<1>2. Counted /\ discards' = discards
  BY <1>1, SameCounts
<1>3. Typed'
  BY <1>1, ConnectionAssumption DEF Inv, Typed, ConnectionTypeOK, NothingToReceive
<1>4. receive' = "waiting" => onceClosed = "pending"
  BY <1>1 DEF NothingToReceive
<1> QED
  BY <1>1, <1>2, <1>3, <1>4, QuietKeeps

LEMMA SetDataHandlerKeeps ==
  ASSUME Inv, SetDataHandler
  PROVE  Inv'
<1>1. /\ fromHandler' = "all" /\ fromQueue' = 0
      /\ receive' = (IF receive = "waiting" THEN "aborted" ELSE receive)
      /\ UNCHANGED <<kind, state, onceConnected, onceClosed, counterVars, disconnectKind,
                     disconnects, sent, writing, listening, receives, data, closeCalled>>
  BY DEF SetDataHandler, sendVars
<1>2. Counted /\ discards' = discards
  BY <1>1, SameCounts
<1>3. Typed'
  BY <1>1, ConnectionAssumption DEF Inv, Typed, ConnectionTypeOK
<1> QED
  BY <1>1, <1>2, <1>3, QuietKeeps

LEMMA OnDataKeeps ==
  ASSUME Inv, OnData
  PROVE  Inv'
<1>1. /\ data < MaxData /\ data' = data + 1
      /\ \/ fromQueue' = fromQueue + 1 /\ UNCHANGED <<fromHandler, receive>>
         \/ UNCHANGED <<fromQueue, fromHandler, receive>>
         \/ /\ fromHandler' = "none" /\ fromQueue' = fromQueue
            /\ receive' = (IF receive = "waiting" THEN "got" ELSE receive)
      /\ UNCHANGED <<kind, state, onceConnected, onceClosed, counterVars, disconnectKind,
                     disconnects, sent, writing, listening, receives, closeCalled>>
  BY DEF OnData, sendVars
<1>2. Counted /\ discards' = discards
  BY <1>1, SameCounts
<1>3. Typed'
  BY <1>1, ConnectionAssumption DEF Inv, Typed, ConnectionTypeOK
<1>4. receive' = "waiting" => onceClosed = "pending"
  BY <1>1 DEF Inv, EndIsSafe, NoHangingReceive
<1> QED
  BY <1>1, <1>2, <1>3, <1>4, QuietKeeps

-----------------------------------------------------------------------------
(* The invariant *)

LEMMA InvInit == ConnectionInit => Inv
<1> SUFFICES ASSUME ConnectionInit PROVE Inv
  OBVIOUS
<1>1. Typed
  <2>1. /\ kind \in {"bad", "existing", "endpoint"} /\ state \in States
        /\ onceConnected \in {"pending", "fulfilled", "rejected"}
        /\ onceClosed \in CloseKinds \cup {"pending"}
    BY DEF ConnectionInit, States, CloseKinds
  <2>2. sent \in [Sends -> {"absent", "queued", "written", "rejected"}]
    BY DEF ConnectionInit
  <2>3. writing \in BOOLEAN /\ listening \in BOOLEAN /\ closeCalled \in BOOLEAN
    BY Zenon DEF ConnectionInit
  <2>4. /\ disconnectKind = "none" /\ disconnects = 0 /\ fromQueue = 0 /\ receives = 0
        /\ data = 0 /\ fromHandler = "none" /\ receive = "absent"
    BY DEF ConnectionInit
  <2> QED
    BY <2>1, <2>2, <2>3, <2>4, ConnectionAssumption DEF Typed, ConnectionTypeOK
<1>2. CASE kind = "bad"
  <2>0. call = [c \in Calls |-> "idle"]
    BY <1>2 DEF ConnectionInit
  <2>1. Pending = {} /\ counter = 0 /\ call \in [Calls -> {"idle", "pending", "done"}]
    BY <1>2, <2>0 DEF ConnectionInit, Pending
  <2>2. CounterInv
    BY <2>1, FS_EmptySet, CounterAssumption
    DEF ConnectionInit, CounterInv, Balance, DestroyedIfQuiet
  <2>3. /\ state = "ERROR" /\ onceClosed = "NEVER_CONNECTED" /\ discards = 0
        /\ disconnectKind = "none" /\ destructions = 0 /\ onceDestroyed = "pending"
        /\ receive = "absent"
    BY <1>2 DEF ConnectionInit
  <2>4. ~listening
    BY <1>2 DEF ConnectionInit
  <2> QED
    BY <1>1, <2>2, <2>3, <2>4
    DEF Inv, Once, EndIsSafe, DestroyedSafely, NoHangingReceive
<1>3. CASE kind # "bad"
  <2>1. Pending = {"open"} /\ counter = 1 /\ call \in [Calls -> {"idle", "pending", "done"}]
    BY <1>3, ConnectionAssumption DEF ConnectionInit, Pending
  <2>2. Cardinality(Pending) = 1
    BY <2>1, FS_Singleton
  <2>3. CounterInv
    BY <2>1, <2>2, CounterAssumption
    DEF ConnectionInit, CounterInv, Balance, DestroyedIfQuiet
  <2> QED
    BY <1>1, <1>3, <2>1, <2>3
    DEF ConnectionInit, Inv, Once, EndIsSafe, DestroyedSafely, NoHangingReceive
<1> QED
  BY <1>2, <1>3

LEMMA InvStep == Inv /\ [ConnectionNext]_connectionVars => Inv'
<1> SUFFICES ASSUME Inv, [ConnectionNext]_connectionVars PROVE Inv'
  OBVIOUS
<1>1. CASE Provider
  BY <1>1, OpenedKeeps, OpenFailsKeeps, CloseResolvesKeeps, OnDisconnectKeeps, OnDataKeeps
  DEF Provider
<1>2. CASE Owner
  BY <1>2, CloseKeeps, CloseBadKeeps, SendKeeps, ReceiveNextKeeps, SetDataHandlerKeeps
  DEF Owner
<1>3. CASE UNCHANGED connectionVars
  <2>1. Counted /\ discards' = discards
    BY <1>3, SameCounts DEF connectionVars
  <2>2. Typed'
    BY <1>3 DEF connectionVars, Inv, Typed, ConnectionTypeOK, sendVars, recvVars
  <2> QED
    BY <1>3, <2>1, <2>2, QuietKeeps
    DEF connectionVars, recvVars, Inv, EndIsSafe, NoHangingReceive
<1> QED
  BY <1>1, <1>2, <1>3 DEF ConnectionNext

\* Every field of a connection keeps its type.
THEOREM ConnectionTyped == ConnectionSpec => []ConnectionTypeOK
<1>1. Inv => ConnectionTypeOK
  BY DEF Inv, Typed
<1> QED
  BY <1>1, InvInit, InvStep, PTL DEF ConnectionSpec

\* However the answers of the provider, the disconnection, however often it is
\* reported, and close() come: the provider is destroyed at most once and only
\* when all is quiet, and a reported end has come, for the provider and for
\* whoever waits for data.
THEOREM EndsSafely == ConnectionSpec => []EndIsSafe
<1>1. Inv => EndIsSafe
  BY DEF Inv
<1> QED
  BY <1>1, InvInit, InvStep, PTL DEF ConnectionSpec

\* A connection that has begun to close never comes back, and its provider is
\* destroyed in a step that leaves nothing outstanding.
THEOREM NoReturn == ConnectionSpec => NoRevival /\ DestroyedOnlyIfQuiet
<1>1. Inv /\ [ConnectionNext]_connectionVars =>
        [/\ state = "CLOSING" => state' \in {"CLOSING", "CLOSED"}
         /\ state = "CLOSED" => state' = "CLOSED"]_connectionVars
  BY DEF ConnectionNext, Provider, Owner, Opened, StateOnceOpen, OpenFails, CloseResolves, OnDisconnect,
         Disconnected, OnData, Close, CloseBad, Send, ReceiveNext, SetDataHandler, connectionVars
<1>2. Inv /\ Inv' =>
        [destructions' > destructions => discards' > 0 /\ Pending' = {}]_counterVars
  BY DEF Inv, CounterInv, Balance, Once
<1> QED
  BY <1>1, <1>2, InvInit, InvStep, PTL DEF ConnectionSpec, NoRevival, DestroyedOnlyIfQuiet
=============================================================================
