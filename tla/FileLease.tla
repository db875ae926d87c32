------------------------------ MODULE FileLease ------------------------------
(***************************************************************************)
(* The crash-safe file lease of the agent orchestrator: a marker file that *)
(* names the owner's process, created and removed under an advisory guard  *)
(* (a lockf held by a helper process).  A marker whose owner is dead may   *)
(* be taken over; a process that is alive is never robbed.                 *)
(*                                                                         *)
(* The candidate file a marker is linked from, its digests and the reaper  *)
(* marker of older versions are left out: under the guard the marker       *)
(* appears and disappears in one step.  The helper is taken to live as     *)
(* long as its owner works under the guard.                                *)
(***************************************************************************)

CONSTANTS
  Proc,    \* orchestrator processes; a restarted one comes back under its name
  NoOne,
  Ghost    \* the owner of a marker left by a process that died

ASSUME OwnersDiffer == NoOne \notin Proc /\ Ghost \notin Proc /\ NoOne # Ghost

VARIABLES
  marker,   \* whose record the lock leaf holds
  guard,    \* whose helper holds the advisory lock
  phase     \* how far a process is with this lease

leaseVars == <<marker, guard, phase>>

Phases == {"out", "guarded", "cleared", "holding", "leaving"}

LeaseTypeOK ==
  /\ marker \in Proc \cup {NoOne, Ghost}
  /\ guard \in Proc \cup {NoOne}
  /\ phase \in [Proc -> Phases]

LeaseInit ==
  /\ marker = NoOne
  /\ guard = NoOne
  /\ phase = [p \in Proc |-> "out"]

\* Mutant: an owner nobody can identify counts as dead.
RemovableAny(p) == {NoOne, Ghost} \cup Proc
\* leaseOwnerDecision: a process knows the identity of no other process, so it
\* finds any other live pid ambiguous.  Only a dead owner, or an inactive token
\* of its own, leaves a marker it may remove.
Removable(p) == {NoOne, Ghost, p}

TakeGuard(p) ==
  /\ phase[p] = "out"
  /\ guard = NoOne
  /\ guard' = p
  /\ phase' = [phase EXCEPT ![p] = "guarded"]
  /\ UNCHANGED marker

Clear(p) ==
  /\ phase[p] = "guarded"
  /\ marker \in Removable(p)
  /\ marker' = NoOne
  /\ phase' = [phase EXCEPT ![p] = "cleared"]
  /\ UNCHANGED guard

\* The owner lives, or its pid was given to another program.
Refuse(p) ==
  /\ phase[p] = "guarded"
  /\ marker \notin {NoOne, p}
  /\ guard' = NoOne
  /\ phase' = [phase EXCEPT ![p] = "out"]
  /\ UNCHANGED marker

Enter(p) ==
  /\ phase[p] = "cleared"
  /\ marker' = p
  /\ guard' = NoOne
  /\ phase' = [phase EXCEPT ![p] = "holding"]

\* Writing the marker failed; what was written of it may stay.
AbandonEntry(p) ==
  /\ phase[p] = "cleared"
  /\ marker' \in {NoOne, p}
  /\ guard' = NoOne
  /\ phase' = [phase EXCEPT ![p] = "out"]

\* The token becomes inactive before the marker goes.
Deactivate(p) ==
  /\ phase[p] = "holding"
  /\ phase' = [phase EXCEPT ![p] = "leaving"]
  /\ UNCHANGED <<marker, guard>>

\* With the guard taken by another process the marker stays behind.
Leave(p) ==
  /\ phase[p] = "leaving"
  /\ marker' = IF guard = NoOne /\ marker = p THEN NoOne ELSE marker
  /\ phase' = [phase EXCEPT ![p] = "out"]
  /\ UNCHANGED guard

\* The helper outlives its owner until it notices the closed pipe.
LeaseCrash(p) ==
  /\ marker' = IF marker = p THEN Ghost ELSE marker
  /\ phase' = [phase EXCEPT ![p] = "out"]
  /\ UNCHANGED guard

\* A marker is synced before the lease is used and its removal may not be.
LeasePowerLoss ==
  /\ marker' \in IF marker = NoOne THEN {NoOne, Ghost} ELSE {Ghost}
  /\ guard' = NoOne
  /\ phase' = [p \in Proc |-> "out"]

HelperExits(p) ==
  /\ guard = p
  /\ phase[p] \notin {"guarded", "cleared"}
  /\ guard' = NoOne
  /\ UNCHANGED <<marker, phase>>

LeaseNext ==
  \/ \E p \in Proc :
       \/ TakeGuard(p) \/ Clear(p) \/ Refuse(p) \/ Enter(p) \/ AbandonEntry(p)
       \/ Deactivate(p) \/ Leave(p) \/ LeaseCrash(p) \/ HelperExits(p)
  \/ LeasePowerLoss

LeaseSpec == LeaseInit /\ [][LeaseNext]_leaseVars

Holds(p) == phase[p] = "holding"

-----------------------------------------------------------------------------
\* Two processes never work under the lease at once, whatever died or was left
\* behind before: acquireCrashSafeFileLease and releaseCrashSafeFileLease.
OneHolder == \A p, q \in Proc : Holds(p) /\ Holds(q) => p = q

LeaseInv ==
  /\ LeaseTypeOK
  /\ \A p \in Proc : phase[p] \in {"guarded", "cleared"} => guard = p
  /\ \A p \in Proc : phase[p] = "cleared" => marker = NoOne
  /\ \A p \in Proc : phase[p] \in {"holding", "leaving"} => marker = p
=============================================================================
