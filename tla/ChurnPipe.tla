------------------------------ MODULE ChurnPipe ------------------------------
(***************************************************************************)
(* The sockets of a churn pipe (src/src/churn-pipe/churn-pipe.ts).         *)
(*                                                                         *)
(* A public socket is bound to a port of an interface, and exchanges       *)
(* obfuscated packets with the remote endpoints.  For each of them there   *)
(* is one mirror socket per index, and mirror i stands for the way through *)
(* the i-th public socket of an interface.  The browser is told of the     *)
(* mirrors of the endpoints that were signaled, and reaches those          *)
(* endpoints by no other way.                                              *)
(*                                                                         *)
(* All addresses here are of one family; what a packet holds is the matter *)
(* of Datagrams.                                                           *)
(***************************************************************************)
EXTENDS Naturals, Sequences, FiniteSets, FiniteSetsExt, SequencesExt

CONSTANTS
  Interfaces, Ports, Remotes,
  DelayLimit,    \* 2000 in retry_
  MaxPublic,     \* bound: public sockets of all interfaces
  MaxFailures    \* bound: mirror sockets that cannot be bound

ASSUME ChurnPipeAssumption ==
  /\ IsFiniteSet(Interfaces) /\ IsFiniteSet(Ports) /\ IsFiniteSet(Remotes)
  /\ Interfaces # {}
  /\ DelayLimit \in Nat /\ DelayLimit >= 10 /\ MaxPublic \in Nat /\ MaxFailures \in Nat

Endpoints == Interfaces \X Ports
Indices == 1..MaxPublic  \* the code counts from 0
NoInterface == "none"

VARIABLES
  lastInterface,  \* lastInterface_
  publicSockets,  \* publicSockets_, by the ports they are for
  publicPorts,    \* publicPorts_: the promise for each port
  delay,          \* delayMs of its retries
  held,           \* ports the browser has not released yet
  maxSockets,     \* maxSocketsPerInterface_
  signaled,       \* the endpoints so marked in mirrorSockets_
  mirrorSockets,  \* and the sockets there
  emitting,       \* mirrors that will be reported when they are bound
  emitted,        \* mirrors that were reported
  browser,        \* browserEndpoints_
  closing,        \* public sockets whose destroy() has been called
  down,           \* shutdown() has been called
  hadPorts, hadMirrors,  \* history: the sockets there were when it was
  failures

publicVars == <<lastInterface, publicSockets, publicPorts, delay>>
mirrorVars == <<maxSockets, signaled, mirrorSockets, emitting, emitted>>
shutdownVars == <<closing, down, hadPorts, hadMirrors>>
churnPipeVars == <<publicVars, held, mirrorVars, browser, shutdownVars, failures>>

PipeTypeOK ==
  /\ lastInterface \in Interfaces \cup {NoInterface}
  /\ \A a \in Interfaces : publicSockets[a] \in Seq(Ports) /\ IsInjective(publicSockets[a])
  /\ publicPorts \in [Endpoints -> {"none", "binding", "bound", "failed", "closed"}]
  /\ delay \in [Endpoints -> {10} \cup 20..(2 * DelayLimit)]
  /\ held \subseteq Endpoints
  /\ maxSockets \in Nat /\ signaled \subseteq Remotes
  /\ mirrorSockets \in [Remotes \X Indices ->
                         {"none", "binding", "bound", "failed", "doomed", "closing", "closed"}]
  /\ emitting \subseteq Remotes \X Indices /\ emitted \subseteq Remotes \X Indices
  /\ browser \subseteq Interfaces /\ failures \in 0..MaxFailures
  /\ closing \subseteq Endpoints /\ down \in BOOLEAN
  /\ hadPorts \subseteq Endpoints /\ hadMirrors \subseteq Remotes \X Indices

PipeInit ==
  /\ lastInterface = NoInterface
  /\ publicSockets = [a \in Interfaces |-> <<>>]
  /\ publicPorts = [e \in Endpoints |-> "none"] /\ delay = [e \in Endpoints |-> 10]
  /\ held = Endpoints
  /\ maxSockets = 0 /\ signaled = {}
  /\ mirrorSockets = [m \in Remotes \X Indices |-> "none"]
  /\ emitting = {} /\ emitted = {}
  /\ browser = {} /\ failures = 0
  /\ closing = {} /\ down = FALSE /\ hadPorts = {} /\ hadMirrors = {}

-----------------------------------------------------------------------------
(* Mirror sockets *)

\* getMirrorSocketAndEmit_ for some mirrors: those that are not there are made, and
\* what is bound is reported at once.  A mirror that could not be bound is not tried
\* again, and one that shutdown() has taken has nothing to report by now.
GetMirrorsAndEmit(ms) ==
  /\ mirrorSockets' = [m \in DOMAIN mirrorSockets |->
                        IF m \in ms /\ mirrorSockets[m] = "none" THEN "binding" ELSE mirrorSockets[m]]
  /\ emitted' = emitted \cup {m \in ms : mirrorSockets[m] = "bound"}
  /\ emitting' = emitting \cup {m \in ms : mirrorSockets'[m] = "binding"}

\* Fault: the new route is opened to the endpoints known so far one index too early.
ReplicateLast(max) ==
  /\ GetMirrorsAndEmit({<<r, max>> : r \in IF max = 0 THEN {} ELSE signaled})
  /\ maxSockets' = max + 1

\* increaseReplication_.
IncreaseReplication(max) ==
  /\ GetMirrorsAndEmit({<<r, max + 1>> : r \in signaled})
  /\ maxSockets' = max + 1

\* Its bind() returns: emitMirror_, and then the destroy() of shutdown() if that came
\* in between, which the mirror is "doomed" to.
MirrorBound(m) ==
  /\ mirrorSockets[m] \in {"binding", "doomed"}
  /\ mirrorSockets' = [mirrorSockets EXCEPT ![m] = IF @ = "binding" THEN "bound" ELSE "closing"]
  /\ emitted' = IF m \in emitting THEN emitted \cup {m} ELSE emitted
  /\ emitting' = emitting \ {m}
  /\ UNCHANGED <<publicVars, held, maxSockets, signaled, browser, shutdownVars, failures>>

MirrorFails(m) ==
  /\ mirrorSockets[m] \in {"binding", "doomed"} /\ failures < MaxFailures
  /\ mirrorSockets' = [mirrorSockets EXCEPT ![m] = "failed"]
  /\ emitting' = emitting \ {m}
  /\ failures' = failures + 1
  /\ UNCHANGED <<publicVars, held, maxSockets, signaled, emitted, browser, shutdownVars>>

\* getLocalInterface_ throws before the first bindLocal.
HasLocalInterface == lastInterface # NoInterface

\* ensureRemoteEndpoint_ for an endpoint that is signaled: it stays marked.
EnsureRemoteEndpoint(r) == signaled' = signaled \cup {r}

\* bindRemote.
BindRemote(r) ==
  /\ HasLocalInterface
  /\ EnsureRemoteEndpoint(r)
  /\ GetMirrorsAndEmit({<<r, i>> : i \in 1..maxSockets})
  /\ UNCHANGED <<publicVars, held, maxSockets, browser, shutdownVars, failures>>

-----------------------------------------------------------------------------
(* Public sockets *)

\* addPublicSocket_.
AddPublicSocket(a, p) ==
  /\ publicSockets' = [publicSockets EXCEPT ![a] = Append(@, p)]
  /\ IF Len(publicSockets'[a]) > maxSockets
     THEN IncreaseReplication(maxSockets)
     ELSE UNCHANGED <<mirrorSockets, emitted, emitting, maxSockets>>

\* bindLocal; a second one for a port returns the promise of the first.
BindLocal(a, p) ==
  /\ lastInterface' = a
  /\ IF publicPorts[<<a, p>>] = "none"
     THEN /\ Cardinality({e \in Endpoints : publicPorts[e] # "none"}) < MaxPublic
          /\ AddPublicSocket(a, p)
          /\ publicPorts' = [publicPorts EXCEPT ![<<a, p>>] = "binding"]
     ELSE UNCHANGED <<publicSockets, publicPorts, mirrorSockets, emitted, emitting, maxSockets>>
  /\ UNCHANGED <<delay, held, signaled, browser, shutdownVars, failures>>

\* Fault: it is tried for ever.
RetryForever(e) ==
  /\ publicPorts[e] = "binding"
  /\ IF e \notin held
     THEN publicPorts' = [publicPorts EXCEPT ![e] = "bound"] /\ UNCHANGED delay
     ELSE delay' = [delay EXCEPT ![e] = 2 * @] /\ UNCHANGED publicPorts

\* retry_: the delay grows, up to a limit.  A call that destroy() has overtaken may
\* still succeed; a socket that is destroyed cannot be bound.
Retry(e) ==
  /\ publicPorts[e] = "binding"
  /\ IF e \notin held
     THEN publicPorts' = [publicPorts EXCEPT ![e] = "bound"] /\ UNCHANGED delay
     ELSE /\ delay' = [delay EXCEPT ![e] = 2 * @]
          /\ publicPorts' = [publicPorts EXCEPT
                               ![e] = IF delay'[e] > DelayLimit THEN "failed" ELSE @]

TryBind(e) ==
  /\ Retry(e)
  /\ UNCHANGED <<lastInterface, publicSockets, held, mirrorVars, browser, shutdownVars, failures>>

\* The browser releases a port after the RTCPeerConnection has been closed.  When it
\* does so matters only to a port that is being bound.
PortReleased(e) ==
  /\ e \in held /\ publicPorts[e] = "binding" /\ held' = held \ {e}
  /\ UNCHANGED <<publicVars, mirrorVars, browser, shutdownVars, failures>>

AddBrowserEndpoint(a) ==
  /\ browser' = browser \cup {a}
  /\ UNCHANGED <<publicVars, held, mirrorVars, shutdownVars, failures>>

\* onIncomingData_, whoever sent it: the packet will leave through the mirror of its
\* sender, which is made if need be but not reported.  That a public socket is being
\* destroyed does not stop its packets.
OnIncomingData(a, i, r) ==
  /\ i \in DOMAIN publicSockets[a] /\ publicPorts[<<a, publicSockets[a][i]>>] = "bound"
  /\ a \in browser
  /\ mirrorSockets[<<r, i>>] = "none"
  /\ mirrorSockets' = [mirrorSockets EXCEPT ![<<r, i>>] = "binding"]
  /\ UNCHANGED <<publicVars, held, maxSockets, signaled, emitting, emitted, browser,
                 shutdownVars, failures>>

-----------------------------------------------------------------------------
(* shutdown() *)

\* closeSocket_ for every public socket.
ClosePublicSockets ==
  /\ closing' = {e \in Endpoints : publicPorts[e] # "none"}
  /\ hadPorts' = closing'
  /\ UNCHANGED publicVars

\* Fault: mirrors that are being bound are forgotten.
ShutdownBound ==
  /\ ~down /\ down' = TRUE
  /\ ClosePublicSockets
  /\ mirrorSockets' = [m \in DOMAIN mirrorSockets |->
                        IF mirrorSockets[m] = "bound" THEN "closing" ELSE mirrorSockets[m]]
  /\ hadMirrors' = {m \in DOMAIN mirrorSockets : mirrorSockets[m] # "none"}
  /\ UNCHANGED <<held, maxSockets, signaled, emitting, emitted, browser, failures>>

\* It walks the sockets there are: every public socket, and every mirror when it has
\* been bound.
Shutdown ==
  /\ ~down /\ down' = TRUE
  /\ ClosePublicSockets
  /\ mirrorSockets' = [m \in DOMAIN mirrorSockets |->
                        CASE mirrorSockets[m] = "bound" -> "closing"
                          [] mirrorSockets[m] = "binding" -> "doomed"
                          [] OTHER -> mirrorSockets[m]]
  /\ hadMirrors' = {m \in DOMAIN mirrorSockets : mirrorSockets[m] # "none"}
  /\ UNCHANGED <<held, maxSockets, signaled, emitting, emitted, browser, failures>>

\* destroy() has its effect.
PublicDestroyed(e) ==
  /\ e \in closing /\ closing' = closing \ {e}
  /\ publicPorts' = [publicPorts EXCEPT ![e] = "closed"]
  /\ UNCHANGED <<lastInterface, publicSockets, delay, held, mirrorVars, browser, down,
                 hadPorts, hadMirrors, failures>>

MirrorDestroyed(m) ==
  /\ mirrorSockets[m] = "closing"
  /\ mirrorSockets' = [mirrorSockets EXCEPT ![m] = "closed"]
  /\ UNCHANGED <<publicVars, held, maxSockets, signaled, emitting, emitted, browser,
                 shutdownVars, failures>>

-----------------------------------------------------------------------------
PipeNext ==
  \/ \E a \in Interfaces :
       \/ AddBrowserEndpoint(a)
       \/ \E p \in Ports : BindLocal(a, p)
       \/ \E i \in Indices, r \in Remotes : OnIncomingData(a, i, r)
  \/ \E e \in Endpoints : TryBind(e) \/ PortReleased(e) \/ PublicDestroyed(e)
  \/ \E r \in Remotes : BindRemote(r)
  \/ \E m \in Remotes \X Indices : MirrorBound(m) \/ MirrorFails(m) \/ MirrorDestroyed(m)
  \/ Shutdown

PipeSpec == PipeInit /\ [][PipeNext]_churnPipeVars

\* Calls to the provider of sockets return, and timers expire.
FairPipeSpec ==
  /\ PipeSpec
  /\ \A e \in Endpoints : WF_churnPipeVars(TryBind(e)) /\ WF_churnPipeVars(PublicDestroyed(e))
  /\ \A m \in Remotes \X Indices :
       /\ WF_churnPipeVars(MirrorBound(m) \/ MirrorFails(m))
       /\ WF_churnPipeVars(MirrorDestroyed(m))

-----------------------------------------------------------------------------
(* Properties *)

\* maxSocketsPerInterface_ is what it says, and every endpoint signaled has a mirror
\* for every index, reported once it is bound: in whatever order ports and endpoints
\* come, and whether or not packets of the endpoint came before it was signaled.
MirrorsComplete ==
  /\ maxSockets = Max({Len(publicSockets[a]) : a \in Interfaces})
  /\ \A r \in signaled, i \in 1..maxSockets :
       /\ mirrorSockets[<<r, i>>] # "none"
       /\ mirrorSockets[<<r, i>>] = "bound" => <<r, i>> \in emitted
       /\ mirrorSockets[<<r, i>>] = "binding" => <<r, i>> \in emitting
  /\ \A m \in emitted : m[1] \in signaled

\* So the browser is told of every way to the endpoint, unless its mirror fails or
\* was there when the pipe was shut down.
EveryWayReported ==
  \A r \in Remotes, i \in Indices :
    (r \in signaled /\ i <= maxSockets) ~>
      (<<r, i>> \in emitted \/ mirrorSockets[<<r, i>>] = "failed" \/ <<r, i>> \in hadMirrors)

\* A port that the browser releases in time is bound: a try that fails is not the
\* last while the delay allows another, and all of them come to an end.
PortsSettle ==
  /\ [][\A e \in Endpoints : publicPorts[e] = "binding" /\ publicPorts'[e] = "failed"
          => e \in held /\ 2 * delay[e] > DelayLimit]_churnPipeVars
  /\ \A e \in Endpoints : publicPorts[e] = "binding" ~> publicPorts[e] # "binding"

\* No socket that there was when shutdown() was called escapes it: each is about to be
\* closed, and what is open later was made later, by a packet or a call that came
\* after shutdown() had walked its lists.
ShutdownTakesAll ==
  down => /\ \A e \in hadPorts : e \in closing \/ publicPorts[e] = "closed"
          /\ \A m \in hadMirrors : mirrorSockets[m] \notin {"none", "binding", "bound"}

\* In the end all of these are closed, those included that were being bound.
ShutdownClosesAll ==
  down ~> /\ \A e \in hadPorts : publicPorts[e] = "closed"
          /\ \A m \in hadMirrors : mirrorSockets[m] \in {"closed", "failed"}

\* What the pipe owes to the browser and to the system in the end.
PipeProgress == EveryWayReported /\ PortsSettle /\ ShutdownClosesAll
=============================================================================
