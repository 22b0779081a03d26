------------------------------- MODULE Counter -------------------------------
(***************************************************************************)
(* src/src/net/counter.ts: counts the calls of a freedom.js provider that  *)
(* have not resolved, so that the provider is destroyed only when they     *)
(* have.  The owner of the provider calls discard() when the provider has  *)
(* disconnected.                                                           *)
(***************************************************************************)
EXTENDS Integers, FiniteSets

CONSTANTS
  Calls,        \* the calls of wrap(), each made once
  MaxDiscards   \* bound: calls of discard()

ASSUME CounterAssumption == IsFiniteSet(Calls) /\ MaxDiscards \in Nat

VARIABLES
  counter,       \* counter_
  call,          \* what has become of each call
  discards,      \* history: calls of discard()
  destructions,  \* history: runs of the destructor
  onceDestroyed  \* onceDestroyed_

counterVars == <<counter, call, discards, destructions, onceDestroyed>>

Pending == {c \in Calls : call[c] = "pending"}

CounterTypeOK ==
  /\ counter \in (0 - MaxDiscards)..Cardinality(Calls)
  /\ call \in [Calls -> {"idle", "pending", "done"}]
  /\ discards \in 0..MaxDiscards
  /\ destructions \in Nat
  /\ onceDestroyed \in {"pending", "fulfilled", "rejected"}

CounterInit ==
  /\ counter = 0
  /\ call = [c \in Calls |-> "idle"]
  /\ discards = 0
  /\ destructions = 0
  /\ onceDestroyed = "pending"

\* Fault: the destructor is left to the calls.
AfterNever ==
  /\ counter' = counter - 1
  /\ UNCHANGED <<destructions, onceDestroyed>>

\* after_(): the destructor may throw.
After ==
  /\ counter' = counter - 1
  /\ IF counter' < 0
       THEN /\ destructions' = destructions + 1
            /\ onceDestroyed' \in IF onceDestroyed = "pending"
                                  THEN {"fulfilled", "rejected"}
                                  ELSE {onceDestroyed}
       ELSE UNCHANGED <<destructions, onceDestroyed>>

\* wrap(f), up to the promise of f.
Wrap(c) ==
  /\ call[c] = "idle"
  /\ call' = [call EXCEPT ![c] = "pending"]
  /\ counter' = counter + 1
  /\ UNCHANGED <<discards, destructions, onceDestroyed>>

\* The promise of f settles, either way.
Resolve(c) ==
  /\ call[c] = "pending"
  /\ call' = [call EXCEPT ![c] = "done"]
  /\ After
  /\ UNCHANGED discards

Discard ==
  /\ discards < MaxDiscards
  /\ discards' = discards + 1
  /\ After
  /\ UNCHANGED call

CounterNext ==
  \/ \E c \in Calls : Wrap(c) \/ Resolve(c)
  \/ Discard

CounterSpec == CounterInit /\ [][CounterNext]_counterVars

-----------------------------------------------------------------------------
(* Properties *)

\* The destructor has run if, the provider being discarded, no call is
\* outstanding: neither the last call nor the discard can miss it.
DestroyedIfQuiet == discards > 0 /\ Pending = {} => destructions > 0

\* It never runs while a call is outstanding, nor before discard().
DestroyedOnlyIfQuiet ==
  [][destructions' > destructions => discards' > 0 /\ Pending' = {}]_counterVars
=============================================================================
