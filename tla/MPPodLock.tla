------------------------------ MODULE MPPodLock ------------------------------
(***************************************************************************)
(* What the Mountpoint Pod lock registry of PodMounter promises            *)
(* (getMPPodLock, mpPodLock.mutex, releaseMPPodLock in                     *)
(* pkg/driver/node/mounter/pod_mounter.go), stated without lock objects,   *)
(* reference counts or generations:                                        *)
(*   - each Mountpoint Pod UID has one mutual-exclusion lock;              *)
(*   - a caller registers for a UID, waits, holds the lock, releases it   *)
(*     and deregisters;                                                    *)
(*   - the registry holds an entry exactly for the UIDs that have         *)
(*     registered callers;                                                 *)
(*   - every waiting caller eventually holds the lock.                    *)
(* PodMounter implements it (MC_PodMounter, refinement run).              *)
(***************************************************************************)
EXTENDS FiniteSets

CONSTANTS
  Callers,   \* concurrent Mount / Unmount calls (one per target)
  UIDs,      \* Mountpoint Pod UIDs
  None

VARIABLES
  phase,     \* each caller: out, waiting, inside, leaving
  at,        \* the UID a registered caller works on
  entries    \* UIDs with an entry in the registry

vars == <<phase, at, entries>>

Users(u) == {c \in Callers : phase[c] # "out" /\ at[c] = u}

\* getMPPodLock: register for u, creating its entry if needed.
Get(c, u) ==
  /\ phase[c] = "out"
  /\ phase' = [phase EXCEPT ![c] = "waiting"]
  /\ at' = [at EXCEPT ![c] = u]
  /\ entries' = entries \cup {u}

\* mutex.Lock: only while nobody else holds u's lock.
Acquire(c) ==
  /\ phase[c] = "waiting"
  /\ \A d \in Users(at[c]) : phase[d] # "inside"
  /\ phase' = [phase EXCEPT ![c] = "inside"]
  /\ UNCHANGED <<at, entries>>

\* mutex.Unlock.
Unlock(c) ==
  /\ phase[c] = "inside"
  /\ phase' = [phase EXCEPT ![c] = "leaving"]
  /\ UNCHANGED <<at, entries>>

\* releaseMPPodLock: deregister; the last caller removes the entry.
Put(c) ==
  /\ phase[c] = "leaving"
  /\ phase' = [phase EXCEPT ![c] = "out"]
  /\ at' = [at EXCEPT ![c] = None]
  /\ entries' = IF Users(at[c]) = {c} THEN entries \ {at[c]} ELSE entries

Init ==
  /\ phase = [c \in Callers |-> "out"]
  /\ at = [c \in Callers |-> None]
  /\ entries = {}

Next ==
  \E c \in Callers :
    \/ \E u \in UIDs : Get(c, u)
    \/ Acquire(c) \/ Unlock(c) \/ Put(c)

\* A caller that waits gets the lock if it is free infinitely often; a
\* holder releases it and deregisters.  Registering is up to the caller.
Spec ==
  /\ Init /\ [][Next]_vars
  /\ \A c \in Callers : SF_vars(Acquire(c)) /\ WF_vars(Unlock(c))
                        /\ WF_vars(Put(c))
=============================================================================
