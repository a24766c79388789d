--------------------------- MODULE TransactionLock ---------------------------
(***************************************************************************)
(* The lock of a service's transactions: a file that names its owner, made *)
(* under a name of its own and linked to the name of the lock.  A lock     *)
(* whose owner is dead is moved aside and dropped; if what was moved is    *)
(* not what was read, it is put back.                                      *)
(*                                                                         *)
(* A lock file is its owner: each process makes one.  Moving a file and    *)
(* looking at what was moved are two steps.                                *)
(***************************************************************************)
CONSTANTS Process, NoOwner

ASSUME LockAssumption == NoOwner \notin Process

VARIABLES
  lock,     \* the owner in the file that has the name of the lock
  aside,    \* for each process, the lock file it moved aside
  at,       \* where each process is in acquiring and releasing the lock
  seen,     \* the dead owner whose lock a process is about to take
  dead      \* the processes that are no longer alive

lockVars == <<lock, aside, at, seen, dead>>

Acquiring == {"want", "busy", "linked", "steal", "stolen"}
Releasing == {"release", "unlock", "unlocked"}

LockTypeOK ==
  /\ lock \in Process \cup {NoOwner}
  /\ aside \in [Process -> Process \cup {NoOwner}]
  /\ at \in [Process -> {"out", "held", "failed"} \cup Acquiring \cup Releasing]
  /\ seen \in [Process -> Process \cup {NoOwner}]
  /\ dead \subseteq Process

LockInit ==
  /\ lock = NoOwner
  /\ aside = [p \in Process |-> NoOwner]
  /\ at = [p \in Process |-> "out"]
  /\ seen = [p \in Process |-> NoOwner]
  /\ dead = {}

GoTo(p, place) == at' = [at EXCEPT ![p] = place]

At(p, place) == at[p] = place /\ p \notin dead

---------------------------------------------------------------------------
(* Acquiring.                                                              *)

LinkLock(p) ==
  /\ At(p, "want")
  /\ IF lock = NoOwner THEN lock' = p /\ GoTo(p, "linked")
                       ELSE GoTo(p, "busy") /\ UNCHANGED lock
  /\ UNCHANGED <<aside, seen, dead>>

\* The lock and the file it was linked from are still one.
ProveLock(p) ==
  /\ At(p, "linked")
  /\ GoTo(p, IF lock = p THEN "held" ELSE "failed")
  /\ UNCHANGED <<lock, aside, seen, dead>>

ReadOwner(p) ==
  /\ At(p, "busy")
  /\ IF lock \in dead
       THEN GoTo(p, "steal") /\ seen' = [seen EXCEPT ![p] = lock]
       ELSE GoTo(p, "failed") /\ UNCHANGED seen
  /\ UNCHANGED <<lock, aside, dead>>

\* The name is free once the file has been moved.
MoveAside(p, next) ==
  /\ IF lock = NoOwner
       THEN GoTo(p, "failed") /\ UNCHANGED <<lock, aside>>
       ELSE /\ aside' = [aside EXCEPT ![p] = lock]
            /\ lock' = NoOwner
            /\ GoTo(p, next)
  /\ UNCHANGED <<seen, dead>>

\* restoreNoClobber, then the error of a lock that changed.
PutBack(p) ==
  /\ IF lock = NoOwner
       THEN lock' = aside[p] /\ aside' = [aside EXCEPT ![p] = NoOwner]
       ELSE UNCHANGED <<lock, aside>>
  /\ GoTo(p, "failed")

DropAside(p, next) ==
  /\ aside' = [aside EXCEPT ![p] = NoOwner]
  /\ GoTo(p, next)
  /\ UNCHANGED lock

TakeStale(p) == At(p, "steal") /\ MoveAside(p, "stolen")

\* mutant: a stale lock is dropped without a look at what was moved
ProveStaleBlindly(p) ==
  /\ At(p, "stolen")
  /\ DropAside(p, "want")
  /\ UNCHANGED <<seen, dead>>

ProveStale(p) ==
  /\ At(p, "stolen")
  /\ IF aside[p] = seen[p] THEN DropAside(p, "want") ELSE PutBack(p)
  /\ UNCHANGED <<seen, dead>>

---------------------------------------------------------------------------
(* Releasing.                                                              *)

CheckOwner(p) ==
  /\ At(p, "release")
  /\ GoTo(p, IF lock = p THEN "unlock" ELSE "failed")
  /\ UNCHANGED <<lock, aside, seen, dead>>

Unlock(p) == At(p, "unlock") /\ MoveAside(p, "unlocked")

ProveUnlocked(p) ==
  /\ At(p, "unlocked")
  /\ IF aside[p] = p THEN DropAside(p, "out") ELSE PutBack(p)
  /\ UNCHANGED <<seen, dead>>

LockStep(p) ==
  \/ LinkLock(p) \/ ProveLock(p) \/ ReadOwner(p) \/ TakeStale(p) \/ ProveStale(p)
  \/ CheckOwner(p) \/ Unlock(p) \/ ProveUnlocked(p)

\* A process that holds the lock as far as it knows.
Holders == {p \in Process : at[p] = "held" /\ p \notin dead}
=============================================================================
