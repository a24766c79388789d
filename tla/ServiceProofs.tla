---------------------------- MODULE ServiceProofs ----------------------------
(***************************************************************************)
(* The transactions of a service, for any number of processes and any      *)
(* world they start from.                                                  *)
(*                                                                         *)
(* The lock: no process that holds it loses its file, however many race    *)
(* for the file of a dead one.                                             *)
(*                                                                         *)
(* The plists: none is lost while transactions exclude each other.  The    *)
(* invariant is of the files and of the program of the process that has    *)
(* the lock (ServiceInvariant).  A step replaces the first operation of    *)
(* that program; what it puts in its place is typed, and may stand in      *)
(* front of what is left (Steps, StandFor), whatever the operation was.    *)
(*                                                                         *)
(* Transactions do exclude each other when commands come in turn, and when *)
(* there are at most three processes.                                      *)
(***************************************************************************)
EXTENDS ServiceInvariant, SequenceTheorems, FiniteSetTheorems, TLAPS

---------------------------------------------------------------------------
(* The lock                                                                *)

\* What a process does has the fields that Enter and Then change.
Shape ==
  /\ DOMAIN proc = Process
  /\ \A p \in Process : {"stage", "plan", "todo", "mode", "tx", "failed"} \subseteq DOMAIN proc[p]

Locking == {"recover", "transact"}

\* Where the lock goes wrong ends the command, so that a file that a process
\* has aside is still there when it moves the next one.
AsideOK ==
  \A p \in Process :
    /\ at[p] # "out" => proc[p].stage \in Locking
    /\ aside[p] # NoOwner => at[p] \in {"stolen", "unlocked", "failed"} \/ proc[p].stage = "done"
    /\ at[p] \in {"stolen", "unlocked"} => aside[p] # NoOwner

\* Only the owner of what was read as stale is dropped, and it stays dead.
SeenOK ==
  \A p \in Process : at[p] \in {"steal", "stolen"} => seen[p] \in dead

Inv == LockTypeOK /\ Shape /\ AsideOK /\ SeenOK /\ HolderHasItsLock

---------------------------------------------------------------------------
(* What the operations of a transaction leave alone                        *)

Kept == \A q \in Process : proc'[q].stage = proc[q].stage

LEMMA ThenKeeps ==
  ASSUME NEW p \in Process, NEW steps, Shape, Then(p, steps) PROVE Kept /\ Shape'
BY DEF Shape, Then, Kept

LEMMA ThrowKeeps ==
  ASSUME NEW p \in Process, Shape, Throw(p) PROVE Kept /\ Shape'
BY DEF Shape, Throw, Kept

LEMMA PrimitiveKeeps ==
  ASSUME NEW p \in Process, Shape, Primitive(p) PROVE Kept /\ Shape'
<1>1. CASE DoMkdir(p)    BY <1>1, ThenKeeps, ThrowKeeps DEF DoMkdir
<1>2. CASE DoRmdir(p)    BY <1>2, ThenKeeps, ThrowKeeps DEF DoRmdir
<1>3. CASE DoCreate(p)   BY <1>3, ThenKeeps, ThrowKeeps DEF DoCreate
<1>4. CASE DoFill(p)     BY <1>4, ThenKeeps DEF DoFill
<1>5. CASE DoMove(p)     BY <1>5, ThenKeeps, ThrowKeeps DEF DoMove
<1>6. CASE DoCheck(p)    BY <1>6, ThenKeeps, ThrowKeeps DEF DoCheck
<1>7. CASE DoRemove(p)   BY <1>7, ThenKeeps, ThrowKeeps DEF DoRemove
<1>8. CASE DoDiscard(p)  BY <1>8, ThenKeeps DEF DoDiscard
<1>9. CASE DoThrow(p)    BY <1>9, ThrowKeeps DEF DoThrow
<1>10. CASE DoBootout(p) BY <1>10, ThenKeeps, ThrowKeeps DEF DoBootout
<1>11. CASE DoBootstrap(p) BY <1>11, ThenKeeps, ThrowKeeps DEF DoBootstrap
<1>12. CASE DoProve(p)   BY <1>12, ThenKeeps, ThrowKeeps DEF DoProve
<1> QED BY <1>1, <1>2, <1>3, <1>4, <1>5, <1>6, <1>7, <1>8, <1>9, <1>10, <1>11, <1>12 DEF Primitive

LEMMA JournalKeeps ==
  ASSUME NEW p \in Process, Shape, DoUpdate(p) \/ DoRead(p) PROVE Kept /\ Shape'
<1>1. CASE DoUpdate(p) BY <1>1, ThenKeeps, ThrowKeeps DEF DoUpdate
<1>2. CASE DoRead(p)
  <2>1. CASE Throw(p) BY <2>1, ThrowKeeps
  <2>2. CASE ~Throw(p)
    <3>1. PICK tx, todo : proc' = [proc EXCEPT ![p].tx = tx, ![p].todo = todo]
      BY <1>2, <2>2 DEF DoRead
    <3> QED BY <3>1 DEF Shape, Kept
  <2> QED BY <2>1, <2>2
<1> QED BY <1>1, <1>2

LEMMA PerformKeeps ==
  ASSUME NEW p \in Process, Shape, Perform(p) PROVE Kept /\ Shape'
<1>1. CASE Primitive(p)  BY <1>1, PrimitiveKeeps
<1>2. CASE DoUpdate(p) \/ DoRead(p) BY <1>2, JournalKeeps
<1>3. CASE DoTransact(p)
  <2>1. CASE Throw(p) BY <2>1, ThrowKeeps
  <2>2. CASE ~Throw(p) BY <1>3, <2>2 DEF DoTransact, Shape, Kept
  <2> QED BY <2>1, <2>2
<1>4. CASE DoBody(p)     BY <1>4 DEF DoBody, Shape, Kept
<1>5. CASE DoQuarantine(p) BY <1>5, ThenKeeps, ThrowKeeps DEF DoQuarantine
<1>6. CASE DoPublish(p)  BY <1>6, ThenKeeps, ThrowKeeps DEF DoPublish
<1>7. CASE DoFinish(p)   BY <1>7, ThenKeeps, ThrowKeeps DEF DoFinish
<1>8. CASE DoRollback(p) BY <1>8, ThenKeeps, ThrowKeeps DEF DoRollback
<1>9. CASE DoDisplace(p) BY <1>9, ThenKeeps, ThrowKeeps DEF DoDisplace
<1>10. CASE DoRestore(p) BY <1>10, ThenKeeps, ThrowKeeps DEF DoRestore
<1>11. CASE DoCleanup(p) BY <1>11, ThenKeeps, ThrowKeeps DEF DoCleanup
<1>12. CASE DoDiscardAll(p) BY <1>12, ThenKeeps, ThrowKeeps DEF DoDiscardAll
<1>13. CASE DoRecover(p) BY <1>13, ThenKeeps DEF DoRecover
<1>14. CASE DoResolve(p) BY <1>14 DEF DoResolve, Shape, Kept
<1> QED BY <1>1, <1>2, <1>3, <1>4, <1>5, <1>6, <1>7, <1>8, <1>9, <1>10, <1>11, <1>12, <1>13, <1>14
        DEF Perform

\* A step that leaves the lock and the stages alone preserves the invariant.
LEMMA KeptPreserves ==
  ASSUME Inv, Kept, Shape', UNCHANGED lockVars PROVE Inv'
BY DEF Inv, LockTypeOK, AsideOK, SeenOK, HolderHasItsLock, Holders, Kept, lockVars

---------------------------------------------------------------------------
(* The steps of the lock                                                   *)

\* A move of a lock file overwrites nothing that is aside, and is seen there.
LEMMA MovePreserves ==
  ASSUME Inv, NEW p \in Process, NEW next \in {"stolen", "unlocked"},
         at[p] \in {"steal", "unlock"}, next = "stolen" => at[p] = "steal",
         MoveAside(p, next), UNCHANGED proc
  PROVE  Inv'
<1> USE DEF Inv
<1>1. aside[p] = NoOwner /\ proc[p].stage \in Locking
  BY DEF AsideOK, Locking
<1>2. CASE lock = NoOwner
  <2>1. at' = [at EXCEPT ![p] = "failed"] /\ UNCHANGED <<lock, aside, seen, dead, proc>>
    BY <1>2 DEF MoveAside, GoTo
  <2>2. LockTypeOK' /\ Shape' /\ AsideOK' /\ SeenOK'
    BY <1>1, <2>1 DEF LockTypeOK, Shape, AsideOK, SeenOK
  <2>3. HolderHasItsLock'
    BY <2>1 DEF LockTypeOK, HolderHasItsLock, Holders
  <2> QED BY <2>2, <2>3
<1>3. CASE lock # NoOwner
  <2>1. /\ aside' = [aside EXCEPT ![p] = lock] /\ lock' = NoOwner
        /\ at' = [at EXCEPT ![p] = next] /\ UNCHANGED <<seen, dead, proc>>
    BY <1>3 DEF MoveAside, GoTo
  <2>2. LockTypeOK' /\ Shape' /\ AsideOK' /\ SeenOK'
    BY <1>1, <1>3, <2>1 DEF LockTypeOK, Shape, AsideOK, SeenOK, Releasing, Acquiring
  <2>3. HolderHasItsLock'
    BY <1>1, <2>1, LockAssumption DEF LockTypeOK, HolderHasItsLock, Holders
  <2> QED BY <2>2, <2>3
<1> QED BY <1>2, <1>3

\* What is not what was meant is put back, or stays aside.
LEMMA PutBackPreserves ==
  ASSUME Inv, NEW p \in Process, at[p] \in {"stolen", "unlocked"}, aside[p] # NoOwner,
         PutBack(p), UNCHANGED <<seen, dead, proc>>
  PROVE  Inv'
<1> USE DEF Inv
<1>1. proc[p].stage \in Locking
  BY DEF AsideOK
<1>2. LockTypeOK' /\ Shape' /\ AsideOK' /\ SeenOK'
  BY <1>1 DEF PutBack, GoTo, LockTypeOK, Shape, AsideOK, SeenOK, Releasing, Acquiring
<1>3. HolderHasItsLock'
  BY LockAssumption DEF PutBack, GoTo, LockTypeOK, HolderHasItsLock, Holders
<1> QED BY <1>2, <1>3

\* What is dropped is the file of nobody who holds the lock.
LEMMA DropPreserves ==
  ASSUME Inv, NEW p \in Process, NEW next \in {"want", "out"},
         at[p] \in {"stolen", "unlocked"}, aside[p] \notin Holders,
         DropAside(p, next), UNCHANGED <<seen, dead, proc>>
  PROVE  Inv'
<1> USE DEF Inv
<1>1. proc[p].stage \in Locking
  BY DEF AsideOK
<1>2. LockTypeOK' /\ Shape' /\ AsideOK' /\ SeenOK'
  BY <1>1 DEF DropAside, GoTo, LockTypeOK, Shape, AsideOK, SeenOK, Releasing, Acquiring
<1>3. HolderHasItsLock'
  BY DEF DropAside, GoTo, LockTypeOK, HolderHasItsLock, Holders
<1> QED BY <1>2, <1>3

LEMMA LockStepPreserves ==
  ASSUME Inv, NEW p \in Process, LockStep(p), UNCHANGED proc PROVE Inv'
<1> USE DEF Inv
<1>1. ASSUME LinkLock(p) PROVE Inv'
  BY <1>1, LockAssumption DEF LinkLock, At, GoTo, LockTypeOK, Shape, AsideOK, SeenOK,
              HolderHasItsLock, Holders, Acquiring
<1>2. ASSUME ProveLock(p) PROVE Inv'
  BY <1>2 DEF ProveLock, At, GoTo, LockTypeOK, Shape, AsideOK, SeenOK, HolderHasItsLock, Holders
<1>3. ASSUME ReadOwner(p) PROVE Inv'
  BY <1>3 DEF ReadOwner, At, GoTo, LockTypeOK, Shape, AsideOK, SeenOK,
              HolderHasItsLock, Holders, Acquiring
<1>4. ASSUME TakeStale(p) PROVE Inv'
  BY <1>4, MovePreserves DEF TakeStale, At
<1>5. ASSUME ProveStale(p) PROVE Inv'
  <2>1. CASE aside[p] = seen[p]
    <3>1. aside[p] \notin Holders
      BY <1>5, <2>1 DEF ProveStale, At, SeenOK, Holders
    <3> QED BY <1>5, <2>1, <3>1, DropPreserves DEF ProveStale, At
  <2>2. CASE aside[p] # seen[p]
    BY <1>5, <2>2, PutBackPreserves DEF AsideOK, ProveStale, At
  <2> QED BY <2>1, <2>2
<1>6. ASSUME CheckOwner(p) PROVE Inv'
  BY <1>6 DEF CheckOwner, At, GoTo, LockTypeOK, Shape, AsideOK, SeenOK, HolderHasItsLock, Holders, Releasing
<1>7. ASSUME Unlock(p) PROVE Inv'
  BY <1>7, MovePreserves DEF Unlock, At
<1>8. ASSUME ProveUnlocked(p) PROVE Inv'
  <2>1. CASE aside[p] = p
    BY <1>8, <2>1, DropPreserves DEF ProveUnlocked, At, Holders
  <2>2. CASE aside[p] # p
    BY <1>8, <2>2, PutBackPreserves DEF AsideOK, ProveUnlocked, At
  <2> QED BY <2>1, <2>2
<1> QED BY <1>1, <1>2, <1>3, <1>4, <1>5, <1>6, <1>7, <1>8 DEF LockStep

---------------------------------------------------------------------------
(* The commands                                                            *)

\* A command waits for the lock only between two stages that do without it.
LEMMA AcquirePreserves ==
  ASSUME Inv, NEW p \in Process, NEW stage \in Locking, proc[p].stage \notin Locking \cup {"done"},
         Acquire(p, stage), UNCHANGED <<lock, aside, seen, dead>>
  PROVE  Inv'
<1> USE DEF Inv
<1>1. aside[p] = NoOwner /\ at[p] = "out"
  BY DEF AsideOK
<1>2. /\ at' = [at EXCEPT ![p] = "want"]
      /\ proc' = [proc EXCEPT ![p].stage = stage, ![p].todo = <<Do(stage)>>, ![p].mode = "open"]
  BY DEF Acquire, GoTo
<1>3. /\ Shape' /\ proc'[p].stage = stage
      /\ \A q \in Process \ {p} : proc'[q] = proc[q]
  BY <1>2 DEF Shape
<1>4. LockTypeOK' /\ AsideOK' /\ SeenOK' /\ HolderHasItsLock'
  BY <1>1, <1>2, <1>3 DEF LockTypeOK, AsideOK, SeenOK, HolderHasItsLock, Holders, Acquiring
<1> QED BY <1>3, <1>4

LEMMA EnterShape ==
  ASSUME Shape, NEW p \in Process, NEW stage, Enter(p, stage)
  PROVE  Shape' /\ proc'[p].stage = stage /\ \A q \in Process \ {p} : proc'[q] = proc[q]
BY DEF Shape, Enter

\* A command goes on only with nothing of the lock in hand.
LEMMA EnterPreserves ==
  ASSUME Inv, NEW p \in Process, NEW stage, proc[p].stage \notin Locking \cup {"done"},
         Enter(p, stage), UNCHANGED lockVars
  PROVE  Inv'
<1> USE DEF Inv
<1>1. aside[p] = NoOwner /\ at[p] = "out"
  BY DEF AsideOK
<1>2. /\ Shape' /\ proc'[p].stage = stage
      /\ \A q \in Process \ {p} : proc'[q] = proc[q]
  BY EnterShape
<1>3. LockTypeOK' /\ AsideOK' /\ SeenOK' /\ HolderHasItsLock'
  BY <1>1, <1>2 DEF LockTypeOK, AsideOK, SeenOK, HolderHasItsLock, Holders, lockVars
<1> QED BY <1>2, <1>3

LEMMA StartPreserves == ASSUME Inv, NEW p \in Process, Start(p) PROVE Inv'
<1> USE DEF Inv
<1>1. PICK job : proc' = [proc EXCEPT ![p].job = job, ![p].stage = "pending"]
  BY DEF Start
<1>2. /\ Shape' /\ proc'[p].stage = "pending"
      /\ \A q \in Process \ {p} : proc'[q] = proc[q]
  BY <1>1 DEF Shape
<1>3. aside[p] = NoOwner /\ at[p] = "out"
  BY DEF Start, AsideOK, Locking
<1>4. LockTypeOK' /\ AsideOK' /\ SeenOK' /\ HolderHasItsLock'
  BY <1>2, <1>3 DEF Start, LockTypeOK, AsideOK, SeenOK, HolderHasItsLock, Holders, lockVars
<1> QED BY <1>2, <1>4

LEMMA MakePlanPreserves == ASSUME Inv, NEW p \in Process, MakePlan(p) PROVE Inv'
<1> USE DEF Inv
<1>1. PICK plan : \/ proc' = [proc EXCEPT ![p].stage = "done"]
                  \/ proc' = [proc EXCEPT ![p].stage = "pending", ![p].plan = plan, ![p].planned = TRUE]
  BY DEF MakePlan
<1>2. /\ Shape' /\ proc'[p].stage \in {"done", "pending"}
      /\ \A q \in Process \ {p} : proc'[q] = proc[q]
  BY <1>1 DEF Shape
<1>3. aside[p] = NoOwner /\ at[p] = "out"
  BY DEF MakePlan, AsideOK, Locking
<1>4. LockTypeOK' /\ AsideOK' /\ SeenOK' /\ HolderHasItsLock'
  BY <1>2, <1>3 DEF MakePlan, LockTypeOK, AsideOK, SeenOK, HolderHasItsLock, Holders, lockVars
<1> QED BY <1>2, <1>4

LEMMA FinishedPreserves == ASSUME Inv, NEW p \in Process, Finished(p) PROVE Inv'
BY DEF Inv, Finished, At, GoTo, fileVars, LockTypeOK, Shape, AsideOK, SeenOK, HolderHasItsLock,
       Holders, Releasing

\* With a file still aside, the command ends.
LEMMA LeavePreserves == ASSUME Inv, NEW p \in Process, Leave(p) PROVE Inv'
<1> USE DEF Inv
<1> DEFINE next == IF at[p] = "out" /\ proc[p].stage = "recover" /\ ~proc[p].failed THEN Onward(p) ELSE "done"
<1>1. at' = [at EXCEPT ![p] = "out"] /\ UNCHANGED <<lock, aside, seen, dead>>
  BY DEF Leave, GoTo
<1>2. /\ Shape' /\ proc'[p].stage = next
      /\ \A q \in Process \ {p} : proc'[q] = proc[q]
  BY EnterShape DEF Leave
<1>3. aside[p] # NoOwner => next = "done"
  BY DEF Leave, AsideOK, Locking
<1>4. LockTypeOK' /\ AsideOK' /\ SeenOK' /\ HolderHasItsLock'
  BY <1>1, <1>2, <1>3 DEF LockTypeOK, AsideOK, SeenOK, HolderHasItsLock, Holders
<1> QED BY <1>2, <1>4

\* Who dies keeps aside what it had.
LEMMA CrashPreserves == ASSUME Inv, NEW p \in Process, Crash(p) PROVE Inv'
<1> USE DEF Inv
<1>1. at' = [at EXCEPT ![p] = "out"] /\ dead' = dead \cup {p} /\ UNCHANGED <<lock, aside, seen>>
  BY DEF Crash, GoTo
<1>2. /\ Shape' /\ proc'[p].stage = "done"
      /\ \A q \in Process \ {p} : proc'[q] = proc[q]
  BY EnterShape DEF Crash
<1>3. LockTypeOK' /\ AsideOK' /\ SeenOK' /\ HolderHasItsLock'
  BY <1>1, <1>2 DEF LockTypeOK, AsideOK, SeenOK, HolderHasItsLock, Holders
<1> QED BY <1>2, <1>3

---------------------------------------------------------------------------
(* The file of a holder is not dropped                                     *)

LEMMA InvInit == Init => Inv
<1> SUFFICES ASSUME Init PROVE Inv
  OBVIOUS
<1>1. LockTypeOK /\ SeenOK /\ HolderHasItsLock
  BY DEF Init, LockInit, LockTypeOK, SeenOK, HolderHasItsLock, Holders
<1>2. Shape /\ AsideOK
  BY DEF Init, LockInit, Shape, AsideOK
<1> QED BY <1>1, <1>2 DEF Inv

LEMMA InvStep == Inv /\ [Next]_vars => Inv'
<1> SUFFICES ASSUME Inv, [Next]_vars PROVE Inv'
  OBVIOUS
<1>1. CASE EditorMoves \/ UNCHANGED vars
  <2>1. UNCHANGED <<lockVars, proc>>
    BY <1>1 DEF EditorMoves, vars, fileVars
  <2> QED BY <2>1, KeptPreserves DEF Kept, Inv, Shape
<1>2. ASSUME NEW p \in Process, Start(p) PROVE Inv'
  BY <1>2, StartPreserves
<1>3. ASSUME NEW p \in Process, RecoverPending(p) PROVE Inv'
  BY <1>3, AcquirePreserves, EnterPreserves DEF RecoverPending, Locking
<1>4. ASSUME NEW p \in Process, CheckPending(p) PROVE Inv'
  BY <1>4, EnterPreserves DEF CheckPending, Locking
<1>5. ASSUME NEW p \in Process, MakePlan(p) PROVE Inv'
  BY <1>5, MakePlanPreserves
<1>6. ASSUME NEW p \in Process, Inspect(p) PROVE Inv'
  BY <1>6, AcquirePreserves, EnterPreserves DEF Inspect, Locking
<1>7. ASSUME NEW p \in Process, Lock(p) PROVE Inv'
  BY <1>7, LockStepPreserves DEF Lock, fileVars
<1>8. ASSUME NEW p \in Process, Perform(p) PROVE Inv'
  <2>1. Kept /\ Shape' /\ UNCHANGED lockVars
    BY <1>8, PerformKeeps DEF Perform, Inv
  <2> QED BY <2>1, KeptPreserves
<1>9. ASSUME NEW p \in Process, Fault(p) PROVE Inv'
  <2>1. Kept /\ Shape' /\ UNCHANGED lockVars
    BY <1>9, ThrowKeeps DEF Fault, Inv
  <2> QED BY <2>1, KeptPreserves
<1>10. ASSUME NEW p \in Process, Finished(p) \/ Leave(p) \/ Crash(p) PROVE Inv'
  BY <1>10, FinishedPreserves, LeavePreserves, CrashPreserves
<1> QED BY <1>1, <1>2, <1>3, <1>4, <1>5, <1>6, <1>7, <1>8, <1>9, <1>10 DEF Next

\* Recoverers, installers and removers race for a lock whose owner died, and
\* more may die: the file of a live holder is under the name of the lock, or
\* with the one process that took it for another (acquireTransactionLock).
THEOREM LockIsNeverDropped == Spec => []HolderHasItsLock
<1>1. Inv => HolderHasItsLock
  BY DEF Inv
<1> QED BY InvInit, InvStep, <1>1, PTL DEF Spec

---------------------------------------------------------------------------
(* Sequences                                                               *)

LEMMA SeqTyped == ASSUME NEW s, IsSeq(s) PROVE s \in Seq({s[i] : i \in 1..Len(s)})
BY SeqDef DEF IsSeq

LEMMA TypedSeq == ASSUME NEW S, NEW s \in Seq(S) PROVE IsSeq(s)
BY LenProperties DEF IsSeq

Joined(t, a, b) ==
  /\ IsSeq(t) /\ Len(t) = Len(a) + Len(b)
  /\ \A i \in 1..Len(a) : t[i] = a[i]
  /\ \A i \in 1..Len(b) : t[Len(a) + i] = b[i]

LEMMA Join ==
  ASSUME NEW a, NEW b, IsSeq(a), IsSeq(b) PROVE Joined(a \o b, a, b)
<1> DEFINE S == {a[i] : i \in 1..Len(a)} \cup {b[i] : i \in 1..Len(b)}
<1>1. a \in Seq(S) /\ b \in Seq(S)
  <2>1. a \in Seq({a[i] : i \in 1..Len(a)}) /\ b \in Seq({b[i] : i \in 1..Len(b)})
    BY SeqTyped
  <2> QED BY <2>1
<1> HIDE DEF S
<1>2. a \o b \in Seq(S) /\ Len(a \o b) = Len(a) + Len(b)
  BY <1>1, ConcatProperties
<1>3. \A i \in 1..(Len(a) + Len(b)) :
        (a \o b)[i] = IF i <= Len(a) THEN a[i] ELSE b[i - Len(a)]
  BY <1>1, ConcatProperties
<1>4. Len(a) \in Nat /\ Len(b) \in Nat
  BY DEF IsSeq
<1>5. IsSeq(a \o b)
  BY <1>2, TypedSeq
<1>6. \A i \in 1..Len(b) : Len(a) + i \in 1..(Len(a) + Len(b)) /\ ~(Len(a) + i <= Len(a)) /\ Len(a) + i - Len(a) = i
  BY <1>4
<1> QED BY <1>2, <1>3, <1>4, <1>5, <1>6 DEF Joined

LEMMA Rest ==
  ASSUME NEW s, IsSeq(s), s # <<>>
  PROVE  /\ IsSeq(Tail(s)) /\ Len(s) >= 1 /\ Len(Tail(s)) = Len(s) - 1 /\ Head(s) = s[1]
         /\ \A i \in 1..(Len(s) - 1) : Tail(s)[i] = s[i + 1]
<1> DEFINE S == {s[i] : i \in 1..Len(s)}
<1>1. s \in Seq(S)
  BY SeqTyped
<1> HIDE DEF S
<1>2. Tail(s) \in Seq(S) /\ Len(Tail(s)) = Len(s) - 1 /\ Head(s) = s[1]
      /\ \A i \in 1..(Len(s) - 1) : Tail(s)[i] = s[i + 1]
  BY <1>1, HeadTailProperties
<1>3. Len(s) >= 1
  BY <1>1, EmptySeq DEF IsSeq
<1> QED BY <1>2, <1>3, TypedSeq

LEMMA Seq0 == IsSeq(<<>>) /\ Len(<<>>) = 0
BY DEF IsSeq
LEMMA Seq1 == ASSUME NEW a PROVE IsSeq(<<a>>) /\ Len(<<a>>) = 1 /\ <<a>>[1] = a
BY DEF IsSeq

---------------------------------------------------------------------------
(* Programs                                                                *)

\* Whether b may follow a, as a whole
Fits(a, b, mode) ==
  /\ \A i \in 1..Len(a), j \in 1..Len(b) : Follows(a[i], b[j])
  /\ a # <<>> /\ b # <<>> /\ a[Len(a)].do \in Ending => b[1].do = "throw" /\ mode = "forward"

\* Whether the steps may take the place of the operation
StandFor(steps, o) ==
  \/ o.do \in Finals
  \/ /\ \A i \in 1..Len(steps) : steps[i].do \notin Finals /\ (steps[i].do \in Enders => o.do \in Enders)
     /\ steps # <<>> /\ steps[Len(steps)].do \in Ending => o.do \in Ending

\* Of a sequence that is none, or begins
LEMMA SeqEmpty == ASSUME NEW s, IsSeq(s) PROVE s = <<>> <=> Len(s) = 0
<1>1. s \in Seq({s[i] : i \in 1..Len(s)})
  BY SeqTyped
<1> QED BY <1>1, EmptySeq

LEMMA JoinWellFormed ==
  ASSUME NEW a, NEW b, NEW p, NEW own, NEW mode,
         WellFormed(a, p, own, mode), WellFormed(b, p, own, mode), Fits(a, b, mode)
  PROVE  WellFormed(a \o b, p, own, mode)
<1> DEFINE s == a \o b
<1>1. IsSeq(a) /\ IsSeq(b) /\ Len(a) \in Nat /\ Len(b) \in Nat
  BY DEF WellFormed, IsSeq
<1>0. Joined(s, a, b)
  BY <1>1, Join
<1>2. /\ IsSeq(s) /\ Len(s) = Len(a) + Len(b)
      /\ \A i \in 1..Len(a) : s[i] = a[i]
      /\ \A i \in 1..Len(b) : s[Len(a) + i] = b[i]
  BY <1>0 DEF Joined
<1>3. \A i \in 1..Len(s) : i \in 1..Len(a) \/ (i - Len(a) \in 1..Len(b) /\ s[i] = b[i - Len(a)] /\ i > Len(a))
  <2> TAKE i \in 1..Len(s)
  <2>1. CASE i <= Len(a)
    BY <2>1, <1>1, <1>2
  <2>2. CASE i > Len(a)
    <3>1. i - Len(a) \in 1..Len(b) /\ Len(a) + (i - Len(a)) = i
      BY <2>2, <1>1, <1>2
    <3> QED BY <3>1, <2>2, <1>2
  <2> QED BY <2>1, <2>2, <1>1, <1>2
<1> HIDE DEF s
<1>4. \A i \in 1..Len(s) : OpOK(s[i], p, own, mode)
  BY <1>2, <1>3 DEF WellFormed
<1>5. ASSUME NEW i \in 1..Len(s), NEW j \in 1..Len(s), i < j PROVE Follows(s[i], s[j])
  <2>1. CASE j \in 1..Len(a)
    BY <1>1, <1>2, <1>5, <2>1 DEF WellFormed
  <2>2. CASE i \in 1..Len(a) /\ j \notin 1..Len(a)
    BY <1>2, <1>3, <1>5, <2>2 DEF Fits
  <2>3. CASE i \notin 1..Len(a) /\ j \notin 1..Len(a)
    <3>1. i - Len(a) \in 1..Len(b) /\ j - Len(a) \in 1..Len(b) /\ i - Len(a) < j - Len(a)
          /\ s[i] = b[i - Len(a)] /\ s[j] = b[j - Len(a)]
      BY <1>1, <1>2, <1>3, <1>5, <2>3
    <3> QED BY <3>1 DEF WellFormed
  <2> QED BY <1>1, <1>2, <1>5, <2>1, <2>2, <2>3
<1>6. ASSUME NEW i \in 1..(Len(s) - 1), s[i].do \in Ending PROVE s[i + 1].do = "throw" /\ mode = "forward"
  <2>1. CASE i < Len(a)
    <3>1. i \in 1..(Len(a) - 1) /\ i \in 1..Len(a) /\ i + 1 \in 1..Len(a)
      BY <1>1, <1>2, <2>1
    <3> QED BY <3>1, <1>2, <1>6 DEF WellFormed
  <2>2. CASE i = Len(a)
    <3>1. i \in 1..Len(a) /\ 1 \in 1..Len(b) /\ s[i + 1] = b[1] /\ s[i] = a[i]
      BY <1>1, <1>2, <2>2
    <3>2. a # <<>> /\ b # <<>>
      BY <3>1, <1>1, SeqEmpty
    <3> QED BY <3>1, <3>2, <1>6, <2>2 DEF Fits
  <2>3. CASE i > Len(a)
    <3>1. i - Len(a) \in 1..(Len(b) - 1) /\ i - Len(a) \in 1..Len(b) /\ i - Len(a) + 1 \in 1..Len(b)
          /\ i \in 1..Len(s) /\ i \notin 1..Len(a) /\ Len(a) + (i - Len(a) + 1) = i + 1
      BY <1>1, <1>2, <2>3
    <3>2. s[i] = b[i - Len(a)] /\ s[i + 1] = b[i - Len(a) + 1]
      BY <3>1, <1>2, <1>3
    <3> QED BY <3>1, <3>2, <1>6 DEF WellFormed
  <2> QED BY <1>1, <1>2, <2>1, <2>2, <2>3
<1> QED BY <1>2, <1>4, <1>5, <1>6 DEF WellFormed, s

\* What is left of a program when its first operation is taken away
RestOK(s, p, own, mode) ==
  /\ WellFormed(Tail(s), p, own, mode)
  /\ \A j \in 1..Len(Tail(s)) : Follows(Head(s), Tail(s)[j])
  /\ Tail(s) # <<>> /\ Head(s).do \in Ending => Tail(s)[1].do = "throw" /\ mode = "forward"

LEMMA RestWellFormed ==
  ASSUME NEW s, NEW p, NEW own, NEW mode, WellFormed(s, p, own, mode), s # <<>>
  PROVE  RestOK(s, p, own, mode)
<1> DEFINE t == Tail(s)
<1>1. IsSeq(s) /\ Len(s) \in Nat
  BY DEF WellFormed, IsSeq
<1>2. /\ IsSeq(t) /\ Len(s) >= 1 /\ Len(t) = Len(s) - 1 /\ Head(s) = s[1]
      /\ \A i \in 1..(Len(s) - 1) : t[i] = s[i + 1]
  BY <1>1, Rest
<1>3. t = <<>> <=> Len(t) = 0
  BY <1>2, SeqEmpty
<1> HIDE DEF t
<1>4. \A i \in 1..Len(t) : i + 1 \in 1..Len(s) /\ t[i] = s[i + 1]
  BY <1>1, <1>2
<1>5. \A i, j \in 1..Len(t) : i < j => i + 1 < j + 1
  BY <1>1, <1>2
<1>6. \A i \in 1..(Len(t) - 1) : i \in 1..Len(t) /\ i + 1 \in 1..Len(t) /\ i + 1 \in 1..(Len(s) - 1)
  BY <1>1, <1>2
<1>7. WellFormed(t, p, own, mode)
  <2>1. \A i \in 1..Len(t) : OpOK(t[i], p, own, mode)
    BY <1>4 DEF WellFormed
  <2>2. \A i, j \in 1..Len(t) : i < j => Follows(t[i], t[j])
    BY <1>4, <1>5 DEF WellFormed
  <2>3. \A i \in 1..(Len(t) - 1) : t[i].do \in Ending => t[i + 1].do = "throw" /\ mode = "forward"
    BY <1>4, <1>6 DEF WellFormed
  <2> QED BY <1>2, <2>1, <2>2, <2>3 DEF WellFormed
<1>8. \A j \in 1..Len(t) : Follows(Head(s), t[j])
  <2> TAKE j \in 1..Len(t)
  <2>1. 1 \in 1..Len(s) /\ 1 < j + 1
    BY <1>1, <1>2
  <2> QED BY <1>2, <1>4, <2>1 DEF WellFormed
<1>9. ASSUME t # <<>>, Head(s).do \in Ending PROVE t[1].do = "throw" /\ mode = "forward"
  <2>1. 1 \in 1..(Len(s) - 1) /\ 1 + 1 \in 1..Len(s) /\ 1 \in 1..Len(t)
    BY <1>1, <1>2, <1>3, <1>9
  <2> QED BY <1>2, <1>4, <1>9, <2>1 DEF WellFormed
<1> QED BY <1>7, <1>8, <1>9 DEF t, RestOK

LEMMA SpliceWellFormed ==
  ASSUME NEW s, NEW steps, NEW p, NEW own, NEW mode, s # <<>>,
         WellFormed(s, p, own, mode), WellFormed(steps, p, own, mode), StandFor(steps, Head(s))
  PROVE  WellFormed(steps \o Tail(s), p, own, mode)
<1> DEFINE t == Tail(s)
<1>0. RestOK(s, p, own, mode)
  BY RestWellFormed
<1>1. /\ WellFormed(t, p, own, mode)
      /\ \A j \in 1..Len(t) : Follows(Head(s), t[j])
      /\ t # <<>> /\ Head(s).do \in Ending => t[1].do = "throw" /\ mode = "forward"
  BY <1>0 DEF RestOK
<1> HIDE DEF t
<1>2. Fits(steps, t, mode)
  <2>1. IsSeq(t) /\ Len(t) \in Nat
    BY <1>1 DEF WellFormed, IsSeq
  <2>2. CASE t = <<>>
    BY <2>1, <2>2, SeqEmpty DEF Fits
  <2>3. CASE t # <<>>
    <3>1. 1 \in 1..Len(t)
      BY <2>1, <2>3, SeqEmpty
    <3>2. Head(s).do \notin Finals
      BY <1>1, <3>1 DEF Follows
    <3> QED BY <1>1, <3>2 DEF Fits, StandFor, Follows
  <2> QED BY <2>2, <2>3
<1> QED BY <1>1, <1>2, JoinWellFormed DEF t

---------------------------------------------------------------------------
(* A step of the process that has the lock                                 *)

\* What no step of a program changes
Turn(p) ==
  /\ \A q \in Process \ {p} : proc'[q] = proc[q]
  /\ proc'[p].stage = proc[p].stage /\ proc'[p].plan = proc[p].plan

Replaced(p, steps) ==
  /\ Turn(p)
  /\ proc'[p].todo = steps \o Tail(proc[p].todo)
  /\ proc'[p].mode = proc[p].mode /\ proc'[p].tx = proc[p].tx

LEMMA ThenReplaces ==
  ASSUME Shape, NEW p \in Process, NEW steps, Then(p, steps) PROVE Replaced(p, steps)
BY DEF Shape, Then, Replaced, Turn

LEMMA ThrowTurns ==
  ASSUME Shape, NEW p \in Process, Throw(p)
  PROVE  /\ Turn(p)
         /\ proc'[p].todo = Handler(p) /\ proc'[p].mode = "undo" /\ proc'[p].tx = proc[p].tx
BY DEF Shape, Throw, Turn

\* The elements of a program whose first operation is replaced
Spliced(t, steps, s) ==
  /\ IsSeq(t)
  /\ \A i \in 1..Len(t) : \/ \E j \in 1..Len(steps) : t[i] = steps[j]
                          \/ \E j \in 2..Len(s) : t[i] = s[j]
  /\ \A j \in 1..Len(steps) : \E i \in 1..Len(t) : t[i] = steps[j]
  /\ \A j \in 2..Len(s) : \E i \in 1..Len(t) : t[i] = s[j]
  /\ t # <<>> => Head(t) = IF steps = <<>> THEN s[2] ELSE Head(steps)
  /\ t # <<>> /\ steps = <<>> => 2 \in 1..Len(s)

LEMMA SpliceElements ==
  ASSUME NEW s, NEW steps, s # <<>>, IsSeq(s), IsSeq(steps)
  PROVE  Spliced(steps \o Tail(s), steps, s)
<1> DEFINE r == Tail(s)
           t == steps \o r
<1>1. /\ IsSeq(r) /\ Len(s) >= 1 /\ Len(r) = Len(s) - 1
      /\ \A i \in 1..(Len(s) - 1) : r[i] = s[i + 1]
  BY Rest
<1> HIDE DEF r
<1>0. Joined(t, steps, r)
  BY <1>1, Join
<1>2. /\ IsSeq(t) /\ Len(t) = Len(steps) + Len(r)
      /\ \A i \in 1..Len(steps) : t[i] = steps[i]
      /\ \A i \in 1..Len(r) : t[Len(steps) + i] = r[i]
  BY <1>0 DEF Joined
<1>3. Len(s) \in Nat /\ Len(steps) \in Nat /\ Len(t) \in Nat
  BY <1>1, <1>2 DEF IsSeq
<1> HIDE DEF t
<1>4. ASSUME NEW i \in 1..Len(t), i \notin 1..Len(steps)
      PROVE  i - Len(steps) + 1 \in 2..Len(s) /\ t[i] = s[i - Len(steps) + 1]
  <2>1. i - Len(steps) \in 1..Len(r) /\ i - Len(steps) \in 1..(Len(s) - 1) /\ Len(steps) + (i - Len(steps)) = i
    BY <1>1, <1>2, <1>3, <1>4
  <2>2. t[Len(steps) + (i - Len(steps))] = r[i - Len(steps)] /\ r[i - Len(steps)] = s[i - Len(steps) + 1]
    BY <1>1, <1>2, <2>1
  <2>3. i - Len(steps) + 1 \in 2..Len(s)
    BY <1>3, <2>1
  <2> QED BY <2>1, <2>2, <2>3
<1>5. ASSUME NEW j \in 2..Len(s)
      PROVE  Len(steps) + (j - 1) \in 1..Len(t) /\ t[Len(steps) + (j - 1)] = s[j]
  <2>1. j - 1 \in 1..Len(r) /\ j - 1 \in 1..(Len(s) - 1) /\ j - 1 + 1 = j
    BY <1>1, <1>3, <1>5
  <2>2. t[Len(steps) + (j - 1)] = r[j - 1] /\ r[j - 1] = s[j - 1 + 1]
    BY <1>1, <1>2, <2>1
  <2>3. Len(steps) + (j - 1) \in 1..Len(t)
    BY <1>2, <1>3, <2>1
  <2> QED BY <2>1, <2>2, <2>3
<1>6. \A j \in 1..Len(steps) : j \in 1..Len(t) /\ t[j] = steps[j]
  BY <1>1, <1>2, <1>3
<1>7. ASSUME t # <<>> PROVE Head(t) = t[1] /\ 1 \in 1..Len(t)
  BY <1>2, <1>3, <1>7, Rest
<1>8. ASSUME t # <<>>, steps # <<>> PROVE Head(t) = Head(steps)
  <2>1. Head(steps) = steps[1] /\ 1 \in 1..Len(steps)
    BY <1>3, <1>8, Rest
  <2> QED BY <1>6, <1>7, <1>8, <2>1
<1>9. ASSUME t # <<>>, steps = <<>> PROVE Head(t) = s[2] /\ 2 \in 1..Len(s)
  <2>1. Len(steps) = 0
    BY <1>9, SeqEmpty
  <2>2. 1 \in 1..Len(t) /\ 1 \notin 1..Len(steps) /\ 1 - Len(steps) + 1 = 2
    BY <1>7, <1>9, <2>1
  <2> QED BY <1>3, <1>4, <1>7, <1>9, <2>2
<1>10. \A i \in 1..Len(t) : \/ \E j \in 1..Len(steps) : t[i] = steps[j]
                            \/ \E j \in 2..Len(s) : t[i] = s[j]
  BY <1>2, <1>4
<1>11. Spliced(t, steps, s)
  BY <1>2, <1>5, <1>6, <1>8, <1>9, <1>10 DEF Spliced
<1> QED BY <1>11 DEF t, r

\* What is required of the steps that take the place of the first operation
StepsPriorOK(steps, o) ==
  \/ dir'["prior"] = Nothing
  \/ /\ dir'["prior"] = dir["prior"] \/ o.do \in Enders
     /\ \A i \in 1..Len(steps) : steps[i].do \notin {"body", "quarantine"}
     /\ \/ \E i \in 1..Len(steps) : Restoring(steps[i])
        \/ /\ ~Restoring(o)
           /\ \A i \in 1..Len(steps) : steps[i].do = "cleanup" => steps[i].phase = "committed"

StepsOK(p, steps) ==
  LET o == Head(proc[p].todo) IN
  /\ WellFormed(steps, p, Own(p), proc[p].mode)
  /\ StandFor(steps, o)
  /\ \A i \in 1..Len(steps) : steps[i].do # "transact"
  /\ RemovesOK(steps, proc[p].tx)'
  /\ StepsPriorOK(steps, o)
  /\ HeadOK(steps)'
  /\ owed' = owed /\ committed \subseteq committed'
  /\ root' /\ o.do # "throw"

LEMMA RemovableStays ==
  ASSUME NEW p \in Process, Turn(p), owed' = owed, committed \subseteq committed', committed \subseteq Process,
         NEW f, NEW x, Removable(f, x)
  PROVE  Removable(f, x)'
<1>1. \A c \in Process : proc'[c].plan = proc[c].plan
  BY DEF Turn
<1> QED BY <1>1 DEF Removable, Expected, Desired, File

LEMMA ThenProgram ==
  ASSUME NEW p \in Process, NEW steps, ProgramOK(p), proc[p].todo # <<>>, committed \subseteq Process,
         proc[p].tx \in Process, Replaced(p, steps), StepsOK(p, steps)
  PROVE  ProgramOK(p)' /\ proc'[p].todo # <<Do("transact")>>
<1> PICK s, x, mode, t, o : /\ s = proc[p].todo /\ x = proc[p].tx /\ mode = proc[p].mode
                            /\ t = steps \o Tail(s) /\ o = Head(s)
  OBVIOUS
<1>1. /\ proc'[p].todo = t /\ proc'[p].mode = mode /\ proc'[p].tx = x /\ Own(p)' = Own(p)
      /\ Turn(p)
  BY DEF Replaced, Turn, Own
<1>2. /\ WellFormed(s, p, Own(p), mode) /\ RemovesOK(s, x) /\ PriorOK(s) /\ EndOK(s, mode, x)
      /\ x = p \/ ~Fresh(x)
  BY DEF ProgramOK
<1>3. IsSeq(s) /\ IsSeq(steps) /\ Head(s) = s[1] /\ Len(s) \in Nat /\ 1 \in 1..Len(s)
  <2>1. IsSeq(s) /\ IsSeq(steps) /\ Len(s) \in Nat
    BY <1>2 DEF WellFormed, StepsOK, IsSeq
  <2> QED BY <2>1, Rest
<1>4. WellFormed(t, p, Own(p), mode)
  BY <1>2, SpliceWellFormed DEF StepsOK
<1>5. Spliced(t, steps, s)
  BY <1>3, SpliceElements
<1>6. \A j \in 2..Len(s) : j \in 1..Len(s) /\ Follows(s[1], s[j])
  <2> TAKE j \in 2..Len(s)
  <2>1. j \in 1..Len(s) /\ 1 < j
    BY <1>3
  <2> QED BY <1>2, <1>3, <2>1 DEF WellFormed
<1>7. RemovesOK(t, x)'
  <2> SUFFICES ASSUME NEW i \in 1..Len(t), t[i].do = "remove"
               PROVE  t[i].links >= 2 \/ Removable(t[i].file, x)'
    BY <1>1 DEF RemovesOK
  <2>1. CASE \E j \in 1..Len(steps) : t[i] = steps[j]
    BY <1>1, <2>1 DEF StepsOK, RemovesOK
  <2>2. CASE \E j \in 2..Len(s) : t[i] = s[j]
    <3>1. t[i].links >= 2 \/ Removable(t[i].file, x)
      BY <1>2, <1>6, <2>2 DEF RemovesOK
    <3> QED BY <1>1, <3>1, RemovableStays DEF StepsOK
  <2> QED BY <1>5, <2>1, <2>2 DEF Spliced
<1>8. PriorOK(t)'
  <2> SUFFICES ASSUME dir'["prior"] # Nothing
               PROVE  /\ \A i \in 1..Len(t) : t[i].do \notin {"body", "quarantine"}
                      /\ \/ \E i \in 1..Len(t) : Restoring(t[i])
                         \/ \A i \in 1..Len(t) : t[i].do = "cleanup" => t[i].phase = "committed"
    BY <1>1 DEF PriorOK, Nothing, File
  <2>0. o = s[1]
    BY <1>3
  <2>1. /\ dir["prior"] # Nothing \/ o.do \in Enders
        /\ \A i \in 1..Len(steps) : steps[i].do \notin {"body", "quarantine"}
        /\ \/ \E i \in 1..Len(steps) : Restoring(steps[i])
           \/ /\ ~Restoring(s[1])
              /\ \A i \in 1..Len(steps) : steps[i].do = "cleanup" => steps[i].phase = "committed"
    BY <2>0 DEF StepsOK, StepsPriorOK, Nothing, File
  <2>2. /\ \A i \in 2..Len(s) : s[i].do \notin {"body", "quarantine"}
        /\ \/ \E i \in 1..Len(s) : Restoring(s[i])
           \/ \A i \in 2..Len(s) : s[i].do = "cleanup" => s[i].phase = "committed"
    <3>1. CASE o.do \in Enders
      BY <1>6, <2>0, <3>1 DEF Follows, Changing
    <3>2. CASE dir["prior"] # Nothing
      BY <1>2, <1>6, <3>2 DEF PriorOK
    <3> QED BY <2>1, <3>1, <3>2
  <2>3. \A i \in 1..Len(t) : t[i].do \notin {"body", "quarantine"}
    BY <1>5, <1>6, <2>1, <2>2 DEF Spliced
  <2>4. CASE \E i \in 1..Len(steps) : Restoring(steps[i])
    BY <1>5, <2>3, <2>4 DEF Spliced
  <2>5. CASE /\ ~Restoring(s[1])
             /\ \A i \in 1..Len(steps) : steps[i].do = "cleanup" => steps[i].phase = "committed"
    <3>1. CASE \E i \in 1..Len(s) : Restoring(s[i])
      <4>1. PICK i \in 1..Len(s) : Restoring(s[i])
        BY <3>1
      <4>2. i \in 2..Len(s)
        BY <4>1, <2>5, <1>3
      <4> QED BY <4>1, <4>2, <1>5, <2>3 DEF Spliced
    <3>2. CASE \A i \in 2..Len(s) : s[i].do = "cleanup" => s[i].phase = "committed"
      <4>1. ASSUME NEW i \in 1..Len(t), t[i].do = "cleanup" PROVE t[i].phase = "committed"
        <5>1. CASE \E j \in 1..Len(steps) : t[i] = steps[j]
          BY <2>5, <4>1, <5>1
        <5>2. CASE \E j \in 2..Len(s) : t[i] = s[j]
          BY <1>6, <3>2, <4>1, <5>2
        <5> QED BY <1>5, <5>1, <5>2 DEF Spliced
      <4> QED BY <2>3, <4>1
    <3> QED BY <2>2, <3>1, <3>2
  <2> QED BY <2>1, <2>4, <2>5
<1>9. HeadOK(t)'
  <2>1. CASE t = <<>>
    BY <1>1, <2>1 DEF HeadOK
  <2>2. CASE t # <<>> /\ steps = <<>>
    <3>1. Head(t) = s[2] /\ 2 \in 2..Len(s)
      BY <1>3, <1>5, <2>2 DEF Spliced
    <3>2. Head(t).do \notin {"fill", "discard"}
      BY <1>6, <3>1 DEF Follows, HeadOnly
    <3> QED BY <3>2 DEF HeadOK
  <2>3. CASE t # <<>> /\ steps # <<>>
    <3>1. Head(t) = Head(steps)
      BY <1>5, <2>3 DEF Spliced
    <3> QED BY <3>1, <2>3 DEF HeadOK, StepsOK, Dropped
  <2> QED BY <2>1, <2>2, <2>3
<1>10. EndOK(t, mode, x)'
  BY <1>1, <1>2, <1>3 DEF EndOK, StepsOK, Resting, Desired, File
<1>11. t # <<Do("transact")>>
  <2> SUFFICES ASSUME t = <<Do("transact")>> PROVE FALSE
    OBVIOUS
  <2>1. 1 \in 1..Len(t) /\ t[1].do = "transact"
    <3>1. Len(t) = 1 /\ t[1] = Do("transact")
      BY Seq1
    <3> QED BY <3>1 DEF Do
  <2>2. CASE \E j \in 1..Len(steps) : t[1] = steps[j]
    BY <2>1, <2>2 DEF StepsOK
  <2>3. CASE \E j \in 2..Len(s) : t[1] = s[j]
    BY <1>6, <2>1, <2>3 DEF Follows, HeadOnly
  <2> QED BY <1>5, <2>1, <2>2, <2>3 DEF Spliced
<1>12. x = p \/ ~Fresh(x)'
  BY <1>1, <1>2, <1>11 DEF Fresh, Turn
<1> QED BY <1>1, <1>4, <1>7, <1>8, <1>9, <1>10, <1>11, <1>12 DEF ProgramOK

LEMMA EmptyWellFormed ==
  ASSUME NEW p, NEW own, NEW mode PROVE WellFormed(<<>>, p, own, mode)
BY Seq0 DEF WellFormed

LEMMA SingleWellFormed ==
  ASSUME NEW p, NEW own, NEW mode, NEW o, OpOK(o, p, own, mode) PROVE WellFormed(<<o>>, p, own, mode)
<1> PICK s : s = <<o>>
  OBVIOUS
<1>1. IsSeq(s) /\ Len(s) = 1 /\ s[1] = o
  BY Seq1
<1> QED BY <1>1 DEF WellFormed

LEMMA ThrowProgram ==
  ASSUME NEW p \in Process, Shape, ProgramOK(p), proc[p].todo # <<>>, Throw(p),
         proc[p].tx \in Process,
         UNCHANGED <<dir, root, observers>>
  PROVE  ProgramOK(p)' /\ proc'[p].todo # <<Do("transact")>> /\ Turn(p) /\ proc'[p].tx = proc[p].tx
<1> PICK s, x, mode : s = proc[p].todo /\ x = proc[p].tx /\ mode = proc[p].mode
  OBVIOUS
<1> PICK t : t = Handler(p)
  OBVIOUS
<1>1. Turn(p) /\ proc'[p].todo = t /\ proc'[p].mode = "undo" /\ proc'[p].tx = x
  BY ThrowTurns
<1>2. dir' = dir /\ root' = root /\ owed' = owed /\ committed' = committed
  BY DEF observers
<1>3. /\ WellFormed(s, p, Own(p), mode) /\ EndOK(s, mode, x)
      /\ x = p \/ ~Fresh(x)
  BY DEF ProgramOK
<1>4. IsSeq(s) /\ Head(s) = s[1] /\ 1 \in 1..Len(s)
  <2>1. IsSeq(s) /\ Len(s) \in Nat
    BY <1>3 DEF WellFormed, IsSeq
  <2> QED BY <2>1, Rest
<1>5. ~root => t = <<>>
  <2> SUFFICES ASSUME ~root PROVE mode # "finish"
    BY DEF Handler
  <2>1. CASE mode = "forward"
    BY <2>1
  <2>2. CASE Head(s).do \in {"recover", "transact", "mkdir"}
    BY <1>3, <1>4, <2>2 DEF WellFormed, OpOK
  <2> QED BY <1>3, <2>1, <2>2 DEF EndOK, Resting
<1>6. t = <<>> \/ t = <<Do("read")>> \/ t = <<DoIn("rollback", "committed")>>
  BY DEF Handler
<1>7. Desired(x) \in owed => ~root
  BY <1>3 DEF EndOK
<1>8. CASE t = <<>>
  <2>1. WellFormed(t, p, Own(p)', "undo") /\ Len(t) = 0
    BY <1>8, EmptyWellFormed, Seq0
  <2>2. t # <<Do("transact")>>
    BY <2>1, Seq1
  <2>3. (x = p \/ ~Fresh(x))' /\ EndOK(t, "undo", x)'
    BY <1>1, <1>2, <1>3, <1>7, <1>8, <2>2 DEF Fresh, Turn, EndOK, Resting, Desired, File
  <2>4. RemovesOK(t, x)' /\ PriorOK(t)' /\ HeadOK(t)'
    BY <1>8, <2>1 DEF RemovesOK, PriorOK, HeadOK
  <2> QED BY <1>1, <2>1, <2>2, <2>3, <2>4 DEF ProgramOK
<1>9. ASSUME NEW o, t = <<o>>, o \in {Do("read"), DoIn("rollback", "committed")}
      PROVE  ProgramOK(p)' /\ t # <<Do("transact")>>
  <2>1. o.do \in {"read", "rollback"}
    BY <1>9 DEF Do, DoIn
  <2>2. IsSeq(t) /\ Len(t) = 1 /\ t[1] = o
    BY <1>9, Seq1
  <2>3. WellFormed(t, p, Own(p)', "undo")
    <3>1. OpOK(o, p, Own(p)', "undo")
      BY <2>1 DEF OpOK
    <3> QED BY <3>1, <1>9, SingleWellFormed
  <2>4. t # <<Do("transact")>>
    <3>1. Do("transact").do = "transact"
      BY DEF Do
    <3> QED BY <2>1, <2>2, <3>1, Seq1
  <2>5. t # <<>> /\ Head(t) = o
    BY <2>2, SeqEmpty, Rest
  <2>6. root
    BY <1>5, <2>5
  <2>7. (x = p \/ ~Fresh(x))' /\ EndOK(t, "undo", x)'
    BY <1>1, <1>2, <1>3, <1>7, <2>4, <2>6 DEF Fresh, Turn, EndOK, Desired, File
  <2>8. RemovesOK(t, x)' /\ PriorOK(t)' /\ HeadOK(t)'
    BY <2>1, <2>2, <2>5 DEF RemovesOK, PriorOK, HeadOK
  <2> QED BY <1>1, <2>3, <2>4, <2>7, <2>8 DEF ProgramOK
<1> QED BY <1>1, <1>6, <1>8, <1>9, Seq0, Seq1

---------------------------------------------------------------------------
(* Files                                                                   *)

FilesOK == DirOK /\ OwedOK /\ FreshOK /\ NothingIsLost

\* A step of the program that starts no transaction of another
Turned(p) == p \in Process /\ Turn(p) /\ proc'[p].todo # <<Do("transact")>>

LEMMA FreshBefore ==
  ASSUME NEW p, Turned(p) PROVE \A x \in Process : Fresh(x)' => Fresh(x)
BY DEF Turned, Turn, Fresh

LEMMA ExpectedStays ==
  ASSUME NEW p, Turned(p), OwedOK, committed \subseteq committed' PROVE \A f : Expected(f) => Expected(f)'
<1>1. \A c \in Process : proc'[c].plan = proc[c].plan
  BY DEF Turned, Turn
<1> QED BY <1>1 DEF Expected, OwedOK

\* The files are where they were.
LEMMA QuietFiles ==
  ASSUME FilesOK, NEW p, Turned(p), UNCHANGED <<dir, root, committed, owed>>
  PROVE  FilesOK'
<1>1. dir' = dir /\ root' = root /\ committed' = committed /\ owed' = owed
  OBVIOUS
<1>2. DirOK'
  BY <1>1 DEF FilesOK, DirOK, FileOK, RootIsEmpty, Desired, File, Nothing
<1>3. OwedOK'
  BY <1>1 DEF FilesOK, OwedOK
<1>4. FreshOK'
  BY <1>1, FreshBefore DEF FilesOK, FreshOK, Desired, File
<1>5. NothingIsLost'
  <2>1. \A c \in Process : proc'[c].plan = proc[c].plan
    BY DEF Turned, Turn
  <2> QED BY <1>1, <2>1 DEF FilesOK, NothingIsLost, OwedOK
<1> QED BY <1>2, <1>3, <1>4, <1>5 DEF FilesOK

\* Each name has nothing, or what some name had; journals stay where they may
\* be, and no plist that was installed loses its last name.
Rearranged ==
  /\ root' /\ owed' = owed /\ committed' = committed
  /\ DOMAIN dir' = Names
  /\ \A n \in Names : dir'[n] = Nothing \/ \E m \in Names : dir'[n] = dir[m]
  /\ \A n \in Names : dir'[n].is = "journal" => n \in JournalNames
  /\ \A f \in owed : (\E n \in Names : dir[n] = f) => Expected(f) \/ \E n \in Names : dir'[n] = f

LEMMA NothingOK == FileOK(Nothing) /\ Nothing.is = "nothing" /\ Nothing.of \notin Process
BY LockAssumption DEF FileOK, Nothing, File, Kinds

LEMMA RearrangedFiles ==
  ASSUME FilesOK, NEW p, Turned(p), Rearranged
  PROVE  FilesOK'
<1>1. root' /\ owed' = owed /\ committed' = committed /\ DOMAIN dir' = Names
  BY DEF Rearranged
<1>2. DirOK'
  <2>1. ASSUME NEW n \in Names
        PROVE  /\ FileOK(dir'[n])
               /\ dir'[n].is = "journal" =>
                    /\ n \in JournalNames
                    /\ dir'[n].phase = "committed" => dir'[n].of \in committed
                    /\ Desired(dir'[n].of) \notin owed
    <3>1. CASE dir'[n] = Nothing
      BY <3>1, NothingOK
    <3>2. CASE dir'[n] # Nothing
      <4>1. PICK m \in Names : dir'[n] = dir[m]
        BY <3>2 DEF Rearranged
      <4> QED BY <4>1 DEF Rearranged, FilesOK, DirOK
    <3> QED BY <3>1, <3>2
  <2> QED BY <1>1, <2>1 DEF DirOK, FileOK, Desired, File
<1>3. OwedOK'
  BY <1>1 DEF FilesOK, OwedOK
<1>4. FreshOK'
  <2>1. \A x \in Process : Fresh(x) => \A n \in Names : dir'[n].of # x
    BY NothingOK DEF Rearranged, FilesOK, FreshOK
  <2> QED BY <1>1, <2>1, FreshBefore DEF FilesOK, FreshOK, Desired, File
<1>5. NothingIsLost'
  <2>1. \A f \in owed : Expected(f) \/ \E n \in Names : dir'[n] = f
    BY DEF Rearranged, FilesOK, NothingIsLost, Expected
  <2>2. \A f : Expected(f) => Expected(f)'
    BY <1>1, ExpectedStays DEF FilesOK
  <2> QED BY <1>1, <2>1, <2>2 DEF NothingIsLost, Expected
<1> QED BY <1>2, <1>3, <1>4, <1>5 DEF FilesOK

\* A file is made, with its contents later.
LEMMA CreatedFiles ==
  ASSUME FilesOK, NEW p, Turned(p), NEW n \in Names, dir[n] = Nothing, root,
         dir' = [dir EXCEPT ![n] = Torn], UNCHANGED <<root, committed, owed>>
  PROVE  FilesOK'
<1>1. /\ root' /\ committed' = committed /\ owed' = owed /\ DOMAIN dir' = Names
      /\ dir'[n] = Torn /\ \A m \in Names \ {n} : dir'[m] = dir[m]
  BY DEF FilesOK, DirOK
<1>2. FileOK(Torn) /\ Torn.is = "torn" /\ Torn.of \notin Process
  BY LockAssumption DEF FileOK, Torn, File, Kinds
<1>3. DirOK'
  <2>1. ASSUME NEW m \in Names
        PROVE  /\ FileOK(dir'[m])
               /\ dir'[m].is = "journal" =>
                    /\ m \in JournalNames
                    /\ dir'[m].phase = "committed" => dir'[m].of \in committed
                    /\ Desired(dir'[m].of) \notin owed
    BY <1>1, <1>2 DEF FilesOK, DirOK
  <2> QED BY <1>1, <2>1 DEF DirOK, FileOK, Desired, File
<1>4. OwedOK'
  BY <1>1 DEF FilesOK, OwedOK
<1>5. FreshOK'
  <2>1. \A x \in Process : Fresh(x) => \A m \in Names : dir'[m].of # x
    BY <1>1, <1>2 DEF FilesOK, FreshOK
  <2> QED BY <1>1, <2>1, FreshBefore DEF FilesOK, FreshOK, Desired, File
<1>6. NothingIsLost'
  <2>1. \A f \in owed : f # Nothing
    BY NothingOK DEF FilesOK, OwedOK
  <2>2. \A f \in owed : Expected(f) \/ \E m \in Names : dir'[m] = f
    BY <1>1, <2>1 DEF FilesOK, NothingIsLost, Expected
  <2>3. \A f : Expected(f) => Expected(f)'
    BY <1>1, ExpectedStays DEF FilesOK
  <2> QED BY <1>1, <2>2, <2>3 DEF NothingIsLost, Expected
<1> QED BY <1>3, <1>4, <1>5, <1>6 DEF FilesOK

\* What a file is given as its contents: of the journal, when the transaction
\* is not over, and with a commit that is known.
Filled(n, f, p) ==
  /\ n \in Names /\ dir[n] = Torn /\ Written(n, f, p) /\ root /\ ~Fresh(p) /\ Desired(p) \notin owed
  /\ dir' = [dir EXCEPT ![n] = f]
  /\ committed' = IF f.phase = "committed" THEN committed \cup {f.of} ELSE committed
  /\ root' = root /\ owed' = owed

LEMMA WrittenOK ==
  ASSUME NEW p \in Process, NEW n, NEW f, Written(n, f, p)
  PROVE  FileOK(f) /\ f.of = p /\ f.is \in {"desired", "journal"} /\ (f.is = "journal" => n \in JournalNames)
BY DEF Written, FileOK, Desired, Journal, File, Kinds, JournalNames

LEMMA FilledFiles ==
  ASSUME FilesOK, NEW p, Turned(p), NEW n, NEW f, Filled(n, f, p)
  PROVE  FilesOK'
<1>1. p \in Process
  BY DEF Turned
<1>2. FileOK(f) /\ f.of = p /\ f.is \in {"desired", "journal"} /\ (f.is = "journal" => n \in JournalNames)
  BY <1>1, WrittenOK DEF Filled
<1>3. /\ root' /\ owed' = owed /\ DOMAIN dir' = Names /\ n \in Names /\ committed \subseteq committed'
      /\ committed' \subseteq committed \cup {p} /\ (f.phase = "committed" => p \in committed')
      /\ dir'[n] = f /\ \A m \in Names \ {n} : dir'[m] = dir[m]
  BY <1>2 DEF FilesOK, DirOK, Filled
<1>4. DirOK'
  <2>1. ASSUME NEW m \in Names
        PROVE  /\ FileOK(dir'[m])
               /\ dir'[m].is = "journal" =>
                    /\ m \in JournalNames
                    /\ dir'[m].phase = "committed" => dir'[m].of \in committed'
                    /\ Desired(dir'[m].of) \notin owed
    <3>1. CASE m = n
      BY <1>2, <1>3, <3>1 DEF Filled
    <3>2. CASE m # n
      BY <1>3, <3>2 DEF FilesOK, DirOK
    <3> QED BY <3>1, <3>2
  <2> QED BY <1>3, <2>1 DEF DirOK, FileOK, Desired, File
<1>5. OwedOK'
  BY <1>1, <1>3 DEF FilesOK, OwedOK
<1>6. FreshOK'
  <2>1. \A x \in Process : Fresh(x) => x # p
    BY DEF Filled
  <2>2. \A x \in Process : Fresh(x) => x \notin committed' /\ \A m \in Names : dir'[m].of # x
    BY <1>2, <1>3, <2>1 DEF FilesOK, FreshOK
  <2> QED BY <1>3, <2>2, FreshBefore DEF FilesOK, FreshOK, Desired, File
<1>7. NothingIsLost'
  <2>1. \A g \in owed : g # Torn
    BY DEF FilesOK, OwedOK, Torn, File
  <2>2. \A g \in owed : Expected(g) \/ \E m \in Names : dir'[m] = g
    BY <1>3, <2>1 DEF FilesOK, NothingIsLost, Expected, Filled
  <2>3. \A g : Expected(g) => Expected(g)'
    BY <1>3, ExpectedStays DEF FilesOK
  <2> QED BY <1>3, <2>2, <2>3 DEF NothingIsLost, Expected
<1> QED BY <1>4, <1>5, <1>6, <1>7 DEF FilesOK

---------------------------------------------------------------------------
(* The steps an operation stands for                                       *)

\* An operation of the process, which removes no plist by its last name
Good(o, p, own, mode, x) ==
  OpOK(o, p, own, mode) /\ (o.do = "remove" => o.links >= 2 \/ Removable(o.file, x))

\* Steps of these kinds
Steps(s, p, own, mode, x, kinds) ==
  /\ WellFormed(s, p, own, mode) /\ RemovesOK(s, x)
  /\ \A i \in 1..Len(s) : s[i].do \in kinds

Inner(o) == o.do \notin Finals \cup HeadOnly \cup Enders

\* What comes last may be of any kind.
Listed(s, p, own, mode, x) ==
  /\ IsSeq(s)
  /\ \A i \in 1..Len(s) : Good(s[i], p, own, mode, x)
  /\ \A i \in 1..(Len(s) - 1) : Inner(s[i])
  /\ Len(s) >= 2 => s[Len(s)].do \notin HeadOnly

LEMMA ListedSteps ==
  ASSUME NEW s, NEW p, NEW own, NEW mode, NEW x, Listed(s, p, own, mode, x),
         NEW kinds, \A i \in 1..Len(s) : s[i].do \in kinds
  PROVE  Steps(s, p, own, mode, x, kinds)
<1>1. IsSeq(s) /\ Len(s) \in Nat
  BY DEF Listed, IsSeq
<1>2. ASSUME NEW i \in 1..Len(s), NEW j \in 1..Len(s), i < j PROVE Follows(s[i], s[j])
  <2>1. i \in 1..(Len(s) - 1) /\ Len(s) >= 2 /\ (j = Len(s) \/ j \in 1..(Len(s) - 1))
    BY <1>1, <1>2
  <2> QED BY <2>1 DEF Listed, Inner, Follows
<1>3. \A i \in 1..(Len(s) - 1) : s[i].do \notin Ending
  BY DEF Listed, Inner, Ending, Enders
<1> QED BY <1>1, <1>2, <1>3 DEF Steps, WellFormed, Listed, Good, RemovesOK

LEMMA NoSteps ==
  ASSUME NEW p, NEW own, NEW mode, NEW x, NEW kinds PROVE Steps(<<>>, p, own, mode, x, kinds)
BY EmptyWellFormed, Seq0 DEF Steps, RemovesOK

LEMMA OneStep ==
  ASSUME NEW p, NEW own, NEW mode, NEW x, NEW a, Good(a, p, own, mode, x)
  PROVE  Steps(<<a>>, p, own, mode, x, {a.do})
<1> PICK s : s = <<a>>
  OBVIOUS
<1>1. IsSeq(s) /\ Len(s) = 1 /\ s[1] = a
  BY Seq1
<1>2. Listed(s, p, own, mode, x)
  BY <1>1 DEF Listed
<1>3. \A i \in 1..Len(s) : s[i].do \in {a.do}
  BY <1>1
<1> QED BY <1>2, <1>3, ListedSteps

Goods(S, p, own, mode, x) == \A o \in S : Good(o, p, own, mode, x)

LEMMA TwoSteps ==
  ASSUME NEW p, NEW own, NEW mode, NEW x, NEW a, NEW b,
         Goods({a, b}, p, own, mode, x), Inner(a), b.do \notin HeadOnly
  PROVE  Steps(<<a, b>>, p, own, mode, x, {a.do, b.do})
<1> PICK s : s = <<a, b>>
  OBVIOUS
<1>1. IsSeq(s) /\ Len(s) = 2 /\ s[1] = a /\ s[2] = b
  BY DEF IsSeq
<1>2. Listed(s, p, own, mode, x)
  BY <1>1 DEF Listed, Goods
<1>3. \A i \in 1..Len(s) : s[i].do \in {a.do, b.do}
  BY <1>1
<1> QED BY <1>2, <1>3, ListedSteps

LEMMA ThreeSteps ==
  ASSUME NEW p, NEW own, NEW mode, NEW x, NEW a, NEW b, NEW c,
         Goods({a, b, c}, p, own, mode, x), Inner(a), Inner(b), c.do \notin HeadOnly
  PROVE  Steps(<<a, b, c>>, p, own, mode, x, {a.do, b.do, c.do})
<1> PICK s : s = <<a, b, c>>
  OBVIOUS
<1>1. IsSeq(s) /\ Len(s) = 3 /\ s[1] = a /\ s[2] = b /\ s[3] = c
  BY DEF IsSeq
<1>2. Listed(s, p, own, mode, x)
  BY <1>1 DEF Listed, Goods
<1>3. \A i \in 1..Len(s) : s[i].do \in {a.do, b.do, c.do}
  BY <1>1
<1> QED BY <1>2, <1>3, ListedSteps

LEMMA FourSteps ==
  ASSUME NEW p, NEW own, NEW mode, NEW x, NEW a, NEW b, NEW c, NEW d,
         Goods({a, b, c, d}, p, own, mode, x), Inner(a), Inner(b), Inner(c), d.do \notin HeadOnly
  PROVE  Steps(<<a, b, c, d>>, p, own, mode, x, {a.do, b.do, c.do, d.do})
<1> PICK s : s = <<a, b, c, d>>
  OBVIOUS
<1>1. IsSeq(s) /\ Len(s) = 4 /\ s[1] = a /\ s[2] = b /\ s[3] = c /\ s[4] = d
  BY DEF IsSeq
<1>2. Listed(s, p, own, mode, x)
  BY <1>1 DEF Listed, Goods
<1>3. \A i \in 1..Len(s) : s[i].do \in {a.do, b.do, c.do, d.do}
  BY <1>1
<1> QED BY <1>2, <1>3, ListedSteps

LEMMA FiveSteps ==
  ASSUME NEW p, NEW own, NEW mode, NEW x, NEW a, NEW b, NEW c, NEW d, NEW e,
         Goods({a, b, c, d, e}, p, own, mode, x), Inner(a), Inner(b), Inner(c), Inner(d), e.do \notin HeadOnly
  PROVE  Steps(<<a, b, c, d, e>>, p, own, mode, x, {a.do, b.do, c.do, d.do, e.do})
<1> PICK s : s = <<a, b, c, d, e>>
  OBVIOUS
<1>1. IsSeq(s) /\ Len(s) = 5 /\ s[1] = a /\ s[2] = b /\ s[3] = c /\ s[4] = d /\ s[5] = e
  BY DEF IsSeq
<1>2. Listed(s, p, own, mode, x)
  BY <1>1 DEF Listed, Goods
<1>3. \A i \in 1..Len(s) : s[i].do \in {a.do, b.do, c.do, d.do, e.do}
  BY <1>1
<1> QED BY <1>2, <1>3, ListedSteps

\* Which kinds of steps may come after which
Compatible(D, E) ==
  D \cap (Finals \cup Ending) = {} /\ E \cap HeadOnly = {} /\ (D \cap Enders = {} \/ E \cap Changing = {})

LEMMA MoreSteps ==
  ASSUME NEW p, NEW own, NEW mode, NEW x, NEW a, NEW b, NEW D, NEW E,
         Steps(a, p, own, mode, x, D) /\ Steps(b, p, own, mode, x, E), Compatible(D, E)
  PROVE  Steps(a \o b, p, own, mode, x, D \cup E)
<1>1. WellFormed(a, p, own, mode) /\ WellFormed(b, p, own, mode) /\ IsSeq(a) /\ IsSeq(b)
      /\ Len(a) \in Nat /\ Len(b) \in Nat
  BY DEF Steps, WellFormed, IsSeq
<1>2. Fits(a, b, mode)
  <2>1. a # <<>> => Len(a) \in 1..Len(a)
    BY <1>1, SeqEmpty
  <2> QED BY <2>1 DEF Fits, Steps, Compatible, Follows
<1>3. WellFormed(a \o b, p, own, mode)
  BY <1>1, <1>2, JoinWellFormed
<1>4. Joined(a \o b, a, b)
  BY <1>1, Join
<1> PICK s : s = a \o b
  OBVIOUS
<1>5. \A i \in 1..Len(s) : \/ \E j \in 1..Len(a) : s[i] = a[j]
                           \/ \E j \in 1..Len(b) : s[i] = b[j]
  <2> TAKE i \in 1..Len(s)
  <2>1. CASE i <= Len(a)
    BY <2>1, <1>1, <1>4 DEF Joined
  <2>2. CASE i > Len(a)
    <3>1. i - Len(a) \in 1..Len(b) /\ Len(a) + (i - Len(a)) = i
      BY <2>2, <1>1, <1>4 DEF Joined
    <3> QED BY <3>1, <1>4 DEF Joined
  <2> QED BY <2>1, <2>2, <1>1, <1>4 DEF Joined
<1> QED BY <1>3, <1>5 DEF Steps, RemovesOK

---------------------------------------------------------------------------
(* Operations that change no file                                          *)

Running(p) == p \in Holders /\ proc[p].todo # <<>> /\ SafeInv /\ Inv

\* What a step of the process that has the lock is to establish
Advances(p) == FilesOK' /\ ProgramOK(p)' /\ Turn(p) /\ proc'[p].tx \in Process

LEMMA RunningFacts ==
  ASSUME NEW p, Running(p)
  PROVE  /\ p \in Process /\ Shape /\ FilesOK /\ ProgramOK(p) /\ proc[p].todo # <<>>
         /\ proc[p].tx \in Process /\ committed \subseteq Process
BY DEF Running, Holders, SafeInv, Inv, FilesOK, OwedOK, WaitingOK

\* Except at its beginning and its end, a program has its directory, and its
\* transaction is not over.
LEMMA RunningOp ==
  ASSUME NEW p, Running(p)
  PROVE  /\ OpOK(Op(p), p, Own(p), proc[p].mode)
         /\ Op(p).do # "throw" => Desired(proc[p].tx) \notin owed
         /\ Op(p).do \notin {"recover", "transact", "mkdir", "throw"} => root
         /\ Op(p).do = "remove" => Op(p).links >= 2 \/ Removable(Op(p).file, proc[p].tx)
         /\ Op(p) = proc[p].todo[1] /\ 1 \in 1..Len(proc[p].todo)
<1>1. ProgramOK(p) /\ proc[p].todo # <<>>
  BY RunningFacts
<1> PICK s : s = proc[p].todo
  OBVIOUS
<1>2. WellFormed(s, p, Own(p), proc[p].mode) /\ RemovesOK(s, proc[p].tx) /\ EndOK(s, proc[p].mode, proc[p].tx)
  BY <1>1 DEF ProgramOK
<1>3. IsSeq(s) /\ Head(s) = s[1] /\ 1 \in 1..Len(s)
  <2>1. IsSeq(s) /\ Len(s) \in Nat
    BY <1>2 DEF WellFormed, IsSeq
  <2> QED BY <1>1, <2>1, Rest
<1>4. OpOK(s[1], p, Own(p), proc[p].mode)
  BY <1>2, <1>3 DEF WellFormed
<1>5. s[1].do = "remove" => s[1].links >= 2 \/ Removable(s[1].file, proc[p].tx)
  BY <1>2, <1>3 DEF RemovesOK
<1>6. s[1].do # "throw" => Desired(proc[p].tx) \notin owed
  BY <1>1, <1>2, <1>3 DEF EndOK, Resting
<1>7. s[1].do \notin {"recover", "transact", "mkdir", "throw"} => root
  BY <1>1, <1>2, <1>3 DEF EndOK, Resting
<1> QED BY <1>3, <1>4, <1>5, <1>6, <1>7 DEF Op

LEMMA ThrowAdvances ==
  ASSUME NEW p, Running(p), Throw(p), UNCHANGED <<dir, root, observers>> PROVE Advances(p)
<1>1. /\ p \in Process /\ Shape /\ FilesOK /\ ProgramOK(p) /\ proc[p].todo # <<>>
      /\ proc[p].tx \in Process
  BY RunningFacts
<1>2. ProgramOK(p)' /\ proc'[p].todo # <<Do("transact")>> /\ Turn(p) /\ proc'[p].tx = proc[p].tx
  BY <1>1, ThrowProgram
<1>3. Turned(p)
  BY <1>1, <1>2 DEF Turned
<1>4. FilesOK'
  BY <1>1, <1>3, QuietFiles DEF observers
<1> QED BY <1>1, <1>2, <1>4 DEF Advances

\* The steps that stand for an operation that keeps what may go
PriorStays(steps, o) ==
  \/ dir["prior"] = Nothing
  \/ \E i \in 1..Len(steps) : Restoring(steps[i])
  \/ ~Restoring(o) /\ \A i \in 1..Len(steps) : steps[i].do = "cleanup" => steps[i].phase = "committed"

Quiet(p, steps, kinds) ==
  /\ Steps(steps, p, Own(p), proc[p].mode, proc[p].tx, kinds)
  /\ kinds \cap {"fill", "discard", "transact", "body", "quarantine"} = {}
  /\ StandFor(steps, Op(p))
  /\ PriorStays(steps, Op(p))
  /\ root /\ Op(p).do # "throw"

LEMMA QuietAdvances ==
  ASSUME NEW p, Running(p), NEW steps, NEW kinds, Quiet(p, steps, kinds), Then(p, steps),
         UNCHANGED <<dir, root, observers>>
  PROVE  Advances(p)
<1>1. /\ p \in Process /\ Shape /\ FilesOK /\ ProgramOK(p) /\ proc[p].todo # <<>>
      /\ proc[p].tx \in Process /\ committed \subseteq Process
  BY RunningFacts
<1>2. Replaced(p, steps)
  BY <1>1, ThenReplaces
<1>3. Turn(p) /\ dir' = dir /\ root' = root /\ owed' = owed /\ committed' = committed
      /\ proc'[p].tx = proc[p].tx
  BY <1>2 DEF Replaced, observers
<1>4. StepsOK(p, steps)
  <2>1. RemovesOK(steps, proc[p].tx)'
    <3> PICK x : x = proc[p].tx
      OBVIOUS
    <3>1. RemovesOK(steps, x)
      BY DEF Quiet, Steps
    <3>2. \A f : Removable(f, x) => Removable(f, x)'
      BY <1>1, <1>3, RemovableStays
    <3> QED BY <1>3, <3>1, <3>2 DEF RemovesOK
  <2>2. HeadOK(steps)'
    <3>1. steps # <<>> => Head(steps) = steps[1] /\ 1 \in 1..Len(steps)
      <4>1. IsSeq(steps) /\ Len(steps) \in Nat
        BY DEF Quiet, Steps, WellFormed, IsSeq
      <4> QED BY <4>1, Rest
    <3> QED BY <3>1 DEF HeadOK, Quiet, Steps
  <2>3. StepsPriorOK(steps, Head(proc[p].todo))
    BY <1>3 DEF Quiet, Steps, PriorStays, StepsPriorOK, Op
  <2>4. \A i \in 1..Len(steps) : steps[i].do # "transact"
    BY DEF Quiet, Steps
  <2> QED BY <1>3, <2>1, <2>2, <2>3, <2>4 DEF StepsOK, Quiet, Steps, Op
<1>5. ProgramOK(p)' /\ proc'[p].todo # <<Do("transact")>>
  BY <1>1, <1>2, <1>4, ThenProgram
<1>6. FilesOK'
  BY <1>1, <1>3, <1>5, QuietFiles DEF Turned
<1> QED BY <1>1, <1>3, <1>5, <1>6 DEF Advances

\* The operation is done, and no more.
LEMMA DoneAdvances ==
  ASSUME NEW p, Running(p), Then(p, <<>>), UNCHANGED <<dir, root, observers>>,
         root, Op(p).do # "throw", dir["prior"] = Nothing \/ ~Restoring(Op(p))
  PROVE  Advances(p)
<1>1. Steps(<<>>, p, Own(p), proc[p].mode, proc[p].tx, {})
  BY NoSteps
<1>2. Quiet(p, <<>>, {})
  BY <1>1, Seq0 DEF Quiet, StandFor, PriorStays
<1> QED BY <1>2, QuietAdvances

LEMMA OrdinaryStands ==
  ASSUME NEW steps, NEW kinds, \A i \in 1..Len(steps) : steps[i].do \in kinds,
         kinds \cap (Finals \cup Enders) = {}, IsSeq(steps), NEW o
  PROVE  StandFor(steps, o)
<1>1. steps # <<>> => Len(steps) \in 1..Len(steps)
  BY SeqEmpty DEF IsSeq
<1> QED BY <1>1 DEF StandFor, Ending, Enders

LEMMA CheckAdvances == ASSUME NEW p, Running(p), DoCheck(p) PROVE Advances(p)
<1>1. Op(p).do = "check" /\ UNCHANGED <<dir, root, observers>>
  BY DEF DoCheck, Ready, Op
<1>2. root
  BY <1>1, RunningOp
<1>3. Throw(p) \/ Then(p, <<>>)
  BY DEF DoCheck
<1> QED BY <1>1, <1>2, <1>3, ThrowAdvances, DoneAdvances DEF Restoring

LEMMA LaunchdAdvances ==
  ASSUME NEW p, Running(p), DoBootout(p) \/ DoBootstrap(p) \/ DoProve(p) PROVE Advances(p)
<1>1. Op(p).do \in {"bootout", "bootstrap", "prove"} /\ UNCHANGED <<dir, root, observers>>
  BY DEF DoBootout, DoBootstrap, DoProve, Ready, Op
<1>2. root
  BY <1>1, RunningOp
<1>3. Throw(p) \/ Then(p, <<>>)
  BY DEF DoBootout, DoBootstrap, DoProve
<1> QED BY <1>1, <1>2, <1>3, ThrowAdvances, DoneAdvances DEF Restoring

LEMMA DoThrowAdvances == ASSUME NEW p, Running(p), DoThrow(p) PROVE Advances(p)
BY ThrowAdvances DEF DoThrow

LEMMA DoKinds ==
  /\ \A do : Do(do).do = do
  /\ \A do, phase : DoIn(do, phase).do = do /\ DoIn(do, phase).phase = phase
  /\ \A n, f, l : Check(n, f, l).do = "check"
  /\ \A f : Prove(f).do = "prove"
  /\ \A r : Bootout(r).do = "bootout"
  /\ \A a, b : Update(a, b).do = "update"
BY DEF Do, DoIn, Check, Prove, Bootout, Update

LEMMA MoveKinds ==
  /\ \A n, to, f : Move(n, to, f).do = "move" /\ Move(n, to, f).name = n /\ Move(n, to, f).to = to
                   /\ Move(n, to, f).file = f
  /\ \A n, f, l : Remove(n, f, l).do = "remove" /\ Remove(n, f, l).name = n /\ Remove(n, f, l).file = f
                  /\ Remove(n, f, l).links = l
  /\ \A n, f : Create(n, f).do = "create" /\ Create(n, f).name = n /\ Create(n, f).file = f
BY DEF Move, Remove, Create

\* Operations on which nothing is required
Free == {"check", "prove", "bootout", "bootstrap", "throw", "displace", "restore", "cleanup",
         "rmdir", "finish", "rollback", "read", "resolve"}

LEMMA FreeGood ==
  ASSUME NEW o, o.do \in Free, NEW p, NEW own, NEW mode, NEW x PROVE Good(o, p, own, mode, x)
BY DEF Free, Good, OpOK

LEMMA MoveGood ==
  ASSUME NEW n, NEW to, NEW f, <<n, to>> \in Moves, NEW p, NEW own, NEW mode, NEW x
  PROVE  Good(Move(n, to, f), p, own, mode, x)
BY MoveKinds DEF Good, OpOK

LEMMA RemoveGood ==
  ASSUME NEW n \in Slots, NEW f, NEW links, NEW p, NEW own, NEW mode, NEW x,
         links >= 2 \/ Removable(f, x)
  PROVE  Good(Remove(n, f, links), p, own, mode, x)
BY MoveKinds DEF Good, OpOK

\* The steps by which an entry of the journal replaces another
LEMMA PublishSteps ==
  ASSUME NEW f, NEW g, f.is = "journal", NEW p, NEW own, NEW mode, NEW x
  PROVE  Steps(Publish(f, g), p, own, mode, x, {"move", "remove"})
<1>1. Good(Move("next", "journal", g), p, own, mode, x)
  BY MoveGood DEF Moves
<1>2. Good(Remove("previous", f, 1), p, own, mode, x)
  BY RemoveGood DEF Slots, Removable
<1>3. Goods({Move("next", "journal", g), Remove("previous", f, 1)}, p, own, mode, x)
  BY <1>1, <1>2 DEF Goods
<1>4. Move("next", "journal", g).do = "move" /\ Remove("previous", f, 1).do = "remove"
  BY MoveKinds
<1>5. Steps(<<Move("next", "journal", g), Remove("previous", f, 1)>>, p, own, mode, x,
            {Move("next", "journal", g).do, Remove("previous", f, 1).do})
  BY <1>3, <1>4, TwoSteps DEF Inner, Finals, HeadOnly, Enders
<1> QED BY <1>4, <1>5 DEF Publish

LEMMA ReplaceSteps ==
  ASSUME NEW f, NEW g, f.is = "journal", NEW p, NEW own, NEW mode, NEW x
  PROVE  Steps(Replace(f, g), p, own, mode, x, {"move", "remove"})
<1>1. Good(Move("journal", "previous", f), p, own, mode, x)
  BY MoveGood DEF Moves
<1>2. Steps(<<Move("journal", "previous", f)>>, p, own, mode, x, {"move"})
  BY <1>1, OneStep, MoveKinds
<1>3. Steps(Publish(f, g), p, own, mode, x, {"move", "remove"})
  BY PublishSteps
<1>4. Compatible({"move"}, {"move", "remove"})
  BY DEF Compatible, Finals, Ending, HeadOnly, Enders
<1>5. Steps(<<Move("journal", "previous", f)>> \o Publish(f, g), p, own, mode, x, {"move"} \cup {"move", "remove"})
  BY <1>2, <1>3, <1>4, MoreSteps
<1>6. {"move"} \cup {"move", "remove"} = {"move", "remove"}
  OBVIOUS
<1> QED BY <1>5, <1>6 DEF Replace

LEMMA QuietOrdinary ==
  ASSUME NEW p, Running(p), NEW steps, NEW kinds,
         Steps(steps, p, Own(p), proc[p].mode, proc[p].tx, kinds),
         kinds \cap (Finals \cup Enders \cup {"fill", "discard", "transact", "body"}) = {},
         root, Op(p).do # "throw", ~Restoring(Op(p)) \/ \E i \in 1..Len(steps) : Restoring(steps[i])
  PROVE  Quiet(p, steps, kinds)
<1>1. IsSeq(steps)
  BY DEF Steps, WellFormed
<1>2. StandFor(steps, Op(p))
  BY <1>1, OrdinaryStands DEF Steps
<1>3. \A i \in 1..Len(steps) : steps[i].do # "cleanup"
  BY DEF Steps, Enders
<1>4. kinds \cap {"fill", "discard", "transact", "body", "quarantine"} = {}
  BY DEF Enders
<1> QED BY <1>2, <1>3, <1>4 DEF Quiet, PriorStays

LEMMA UpdateAdvances == ASSUME NEW p, Running(p), DoUpdate(p) PROVE Advances(p)
<1> DEFINE f == Journal(proc[p].tx, Op(p).from)
           g == Journal(proc[p].tx, Op(p).phase)
           steps == <<Create("next", g)>> \o Replace(f, g)
<1>1. Op(p).do = "update" /\ UNCHANGED <<dir, root, observers>>
  BY DEF DoUpdate, Ready, Op
<1>2. root /\ Own(p)
  BY <1>1, RunningOp DEF OpOK
<1>3. CASE Throw(p)
  BY <1>1, <1>3, ThrowAdvances
<1>4. CASE Then(p, steps) /\ IsSuccessor(f, g)
  <2>1. f.is = "journal" /\ \E phase \in Phases : g = Journal(p, phase)
    BY <1>2, <1>4 DEF IsSuccessor, Successors, Journal, File, Phases, Own
  <2>2. Good(Create("next", g), p, Own(p), proc[p].mode, proc[p].tx)
    BY <1>2, <2>1, MoveKinds DEF Good, OpOK, Written
  <2>3. Steps(<<Create("next", g)>>, p, Own(p), proc[p].mode, proc[p].tx, {"create"})
    BY <2>2, OneStep, MoveKinds
  <2>4. Steps(Replace(f, g), p, Own(p), proc[p].mode, proc[p].tx, {"move", "remove"})
    BY <2>1, ReplaceSteps
  <2>5. Compatible({"create"}, {"move", "remove"})
    BY DEF Compatible, Finals, Ending, HeadOnly, Enders
  <2>6. Steps(steps, p, Own(p), proc[p].mode, proc[p].tx, {"create"} \cup {"move", "remove"})
    BY <2>3, <2>4, <2>5, MoreSteps
  <2> HIDE DEF steps
  <2>7. Quiet(p, steps, {"create"} \cup {"move", "remove"})
    BY <1>1, <1>2, <2>6, QuietOrdinary DEF Finals, Enders, Restoring
  <2> QED BY <1>1, <1>4, <2>7, QuietAdvances
<1> QED BY <1>3, <1>4 DEF DoUpdate

\* The elements of two sequences in one
Together(t, a, b) ==
  /\ \A i \in 1..Len(t) : \/ \E j \in 1..Len(a) : t[i] = a[j]
                          \/ \E j \in 1..Len(b) : t[i] = b[j]
  /\ \A j \in 1..Len(a) : \E i \in 1..Len(t) : t[i] = a[j]
  /\ \A j \in 1..Len(b) : \E i \in 1..Len(t) : t[i] = b[j]

LEMMA JoinTogether == ASSUME NEW a, NEW b, IsSeq(a) /\ IsSeq(b) PROVE Together(a \o b, a, b)
<1>1. Joined(a \o b, a, b)
  BY Join
<1> PICK t : t = a \o b
  OBVIOUS
<1>2. /\ Len(t) = Len(a) + Len(b) /\ Len(a) \in Nat /\ Len(b) \in Nat
      /\ \A i \in 1..Len(a) : t[i] = a[i]
      /\ \A i \in 1..Len(b) : t[Len(a) + i] = b[i]
  BY <1>1 DEF Joined, IsSeq
<1>3. ASSUME NEW i \in 1..Len(t) PROVE \/ \E j \in 1..Len(a) : t[i] = a[j]
                                       \/ \E j \in 1..Len(b) : t[i] = b[j]
  <2>1. CASE i <= Len(a)
    BY <2>1, <1>2
  <2>2. CASE i > Len(a)
    <3>1. i - Len(a) \in 1..Len(b) /\ Len(a) + (i - Len(a)) = i
      BY <2>2, <1>2
    <3> QED BY <3>1, <1>2
  <2> QED BY <2>1, <2>2, <1>2
<1>4. \A j \in 1..Len(a) : j \in 1..Len(t)
  BY <1>2
<1>5. \A j \in 1..Len(b) : Len(a) + j \in 1..Len(t)
  BY <1>2
<1> QED BY <1>2, <1>3, <1>4, <1>5 DEF Together

LEMMA StepsSeq ==
  ASSUME NEW s, NEW p, NEW own, NEW mode, NEW x, NEW kinds, Steps(s, p, own, mode, x, kinds)
  PROVE  IsSeq(s) /\ \A i \in 1..Len(s) : s[i].do \in kinds
BY DEF Steps, WellFormed

CommittedOnly(s) == \A i \in 1..Len(s) : s[i].do = "cleanup" => s[i].phase = "committed"

LEMMA TogetherCommitted ==
  ASSUME NEW t, NEW a, NEW b, Together(t, a, b), CommittedOnly(a) /\ CommittedOnly(b)
  PROVE  CommittedOnly(t)
<1> SUFFICES ASSUME NEW i \in 1..Len(t), t[i].do = "cleanup" PROVE t[i].phase = "committed"
  BY DEF CommittedOnly
<1>1. CASE \E j \in 1..Len(a) : t[i] = a[j]
  BY <1>1 DEF CommittedOnly
<1>2. CASE \E j \in 1..Len(b) : t[i] = b[j]
  BY <1>2 DEF CommittedOnly
<1> QED BY <1>1, <1>2 DEF Together

LEMMA FinishAdvances == ASSUME NEW p, Running(p), DoFinish(p) PROVE Advances(p)
<1> PICK own, mode, x, f, c : own = Own(p) /\ mode = proc[p].mode /\ x = proc[p].tx /\ f = dir["canonical"]
                              /\ c = DoIn("cleanup", "committed")
  OBVIOUS
<1>1. Op(p).do = "finish" /\ UNCHANGED <<dir, root, observers>>
  BY DEF DoFinish, Ready, Op
<1>2. root
  BY <1>1, RunningOp
<1>3. c.do = "cleanup" /\ c.phase = "committed"
  BY DoKinds
<1>4. CASE Throw(p)
  BY <1>1, <1>4, ThrowAdvances
<1>5. ASSUME NEW steps, NEW kinds, Then(p, steps), Steps(steps, p, own, mode, x, kinds),
             kinds \subseteq {"bootout", "prove", "check", "cleanup"}, CommittedOnly(steps)
      PROVE  Advances(p)
  <2>1. Quiet(p, steps, kinds)
    BY <1>1, <1>2, <1>5 DEF Quiet, StandFor, Finals, PriorStays, Restoring, CommittedOnly
  <2> QED BY <1>1, <1>5, <2>1, QuietAdvances
<1>6. Good(Check("canonical", f, Links(f)), p, own, mode, x) /\ Good(Prove(f), p, own, mode, x)
      /\ Good(c, p, own, mode, x) /\ Good(Check("canonical", Nothing, 0), p, own, mode, x)
      /\ Good(Bootout(FALSE), p, own, mode, x) /\ Good(Prove(Nothing), p, own, mode, x)
  BY <1>3 DEF Good, OpOK, Check, Prove, Bootout
<1>7. CASE Then(p, <<Prove(f), Check("canonical", f, Links(f)), c>>)
  <2>1. Goods({Prove(f), Check("canonical", f, Links(f)), c}, p, own, mode, x)
    BY <1>6 DEF Goods
  <2>2. Prove(f).do = "prove" /\ Check("canonical", f, Links(f)).do = "check"
    BY DEF Prove, Check
  <2> PICK a, b : a = Prove(f) /\ b = Check("canonical", f, Links(f))
    OBVIOUS
  <2>3. Steps(<<a, b, c>>, p, own, mode, x, {a.do, b.do, c.do})
    BY <1>3, <2>1, <2>2, ThreeSteps DEF Inner, Finals, HeadOnly, Enders
  <2>4. CommittedOnly(<<a, b, c>>)
    BY <1>3, <2>2 DEF CommittedOnly
  <2> QED BY <1>3, <1>5, <1>7, <2>2, <2>3, <2>4
<1>8. CASE Then(p, When(running # Nothing, <<Bootout(FALSE), Prove(Nothing)>>)
                   \o <<Check("canonical", Nothing, 0), c>>)
  <2> PICK a, b, d : a = Bootout(FALSE) /\ b = Prove(Nothing) /\ d = Check("canonical", Nothing, 0)
    OBVIOUS
  <2>1. a.do = "bootout" /\ b.do = "prove" /\ d.do = "check"
    BY DEF Bootout, Prove, Check
  <2>2. Goods({a, b}, p, own, mode, x) /\ Goods({d, c}, p, own, mode, x)
    BY <1>6 DEF Goods
  <2>3. Steps(<<a, b>>, p, own, mode, x, {a.do, b.do})
    BY <2>1, <2>2, TwoSteps DEF Inner, Finals, HeadOnly, Enders
  <2>4. Steps(<<d, c>>, p, own, mode, x, {d.do, c.do})
    BY <1>3, <2>1, <2>2, TwoSteps DEF Inner, Finals, HeadOnly, Enders
  <2> PICK s : s = When(running # Nothing, <<a, b>>)
    OBVIOUS
  <2>5. Steps(s, p, own, mode, x, {"bootout", "prove"})
    BY <2>1, <2>3, NoSteps DEF When
  <2>6. Steps(<<d, c>>, p, own, mode, x, {"check", "cleanup"})
    BY <1>3, <2>1, <2>4
  <2>7. Compatible({"bootout", "prove"}, {"check", "cleanup"})
    BY DEF Compatible, Finals, Ending, HeadOnly, Enders
  <2>8. Steps(s \o <<d, c>>, p, own, mode, x, {"bootout", "prove"} \cup {"check", "cleanup"})
    BY <2>5, <2>6, <2>7, MoreSteps
  <2>9. CommittedOnly(s \o <<d, c>>)
    <3>1. IsSeq(s) /\ IsSeq(<<d, c>>) /\ \A i \in 1..Len(s) : s[i].do \in {"bootout", "prove"}
      BY <2>5, <2>6, StepsSeq
    <3>2. Together(s \o <<d, c>>, s, <<d, c>>)
      BY <3>1, JoinTogether
    <3>3. CommittedOnly(<<d, c>>)
      BY <1>3, <2>1 DEF CommittedOnly
    <3>4. CommittedOnly(s)
      BY <3>1 DEF CommittedOnly
    <3> QED BY <3>2, <3>3, <3>4, TogetherCommitted
  <2> QED BY <1>5, <1>8, <2>8, <2>9
<1> QED BY <1>4, <1>7, <1>8 DEF DoFinish

LEMMA DiscardAllAdvances == ASSUME NEW p, Running(p), DoDiscardAll(p) PROVE Advances(p)
<1> PICK c : c = DoIn("cleanup", "prepared")
  OBVIOUS
<1>1. Op(p).do = "discardAll" /\ UNCHANGED <<dir, root, observers>> /\ c.do = "cleanup"
  BY DoKinds DEF DoDiscardAll, Ready, Op
<1>2. root
  BY <1>1, RunningOp
<1>3. CASE Throw(p)
  BY <1>1, <1>3, ThrowAdvances
<1>4. CASE Then(p, <<c>>) /\ dir["prior"] = Nothing
  <2>1. Good(c, p, Own(p), proc[p].mode, proc[p].tx)
    BY <1>1, FreeGood DEF Free
  <2>2. Steps(<<c>>, p, Own(p), proc[p].mode, proc[p].tx, {c.do})
    BY <2>1, OneStep
  <2>3. StandFor(<<c>>, Op(p))
    BY <1>1, Seq1 DEF StandFor, Finals, Enders, Ending
  <2>4. Quiet(p, <<c>>, {c.do})
    BY <1>1, <1>2, <1>4, <2>2, <2>3 DEF Quiet, PriorStays
  <2> QED BY <1>1, <1>4, <2>4, QuietAdvances
<1> QED BY <1>3, <1>4 DEF DoDiscardAll

LEMMA DisplaceKeeps == ASSUME NEW p, Running(p), DoDisplace(p), UNCHANGED dir, Throw(p) \/ Then(p, <<>>)
                       PROVE Advances(p)
<1>1. Op(p).do = "displace" /\ UNCHANGED <<dir, root, observers>>
  BY DEF DoDisplace, Ready, Op
<1>2. root
  BY <1>1, RunningOp
<1> QED BY <1>1, <1>2, ThrowAdvances, DoneAdvances DEF Restoring

RollbackTail(p) ==
  <<Bootout(FALSE),
    [do |-> "displace", file |-> dir["canonical"], links |-> Links(dir["canonical"]),
     known |-> Known(p, dir["canonical"], Op(p).phase)]>>
  \o (IF Plan(p).file = Nothing THEN <<Check("canonical", Nothing, 0)>> ELSE <<Do("restore")>>)

LEMMA RollbackSteps ==
  ASSUME NEW p, NEW own, NEW mode, NEW x
  PROVE  /\ Steps(RollbackTail(p), p, own, mode, x, {"bootout", "displace", "check", "restore"})
         /\ Plan(p).file # Nothing => \E i \in 1..Len(RollbackTail(p)) : Restoring(RollbackTail(p)[i])
<1> PICK a, b, c : /\ a = Bootout(FALSE)
                   /\ b = [do |-> "displace", file |-> dir["canonical"], links |-> Links(dir["canonical"]),
                           known |-> Known(p, dir["canonical"], Op(p).phase)]
                   /\ c = IF Plan(p).file = Nothing THEN Check("canonical", Nothing, 0) ELSE Do("restore")
  OBVIOUS
<1>1. a.do = "bootout" /\ b.do = "displace" /\ c.do \in {"check", "restore"}
      /\ (Plan(p).file # Nothing => c.do = "restore")
  BY DEF Bootout, Check, Do
<1>2. Goods({a, b}, p, own, mode, x) /\ Good(c, p, own, mode, x)
  BY <1>1 DEF Goods, Good, OpOK
<1>3. Steps(<<a, b>>, p, own, mode, x, {a.do, b.do})
  BY <1>1, <1>2, TwoSteps DEF Inner, Finals, HeadOnly, Enders
<1>4. Steps(<<c>>, p, own, mode, x, {c.do})
  BY <1>2, OneStep
<1>5. Compatible({a.do, b.do}, {c.do})
  BY <1>1 DEF Compatible, Finals, Ending, HeadOnly, Enders
<1>6. RollbackTail(p) = <<a, b>> \o <<c>>
  BY DEF RollbackTail
<1> PICK t : t = RollbackTail(p)
  OBVIOUS
<1> PICK D, E, r, q : D = {a.do, b.do} /\ E = {c.do} /\ r = <<a, b>> /\ q = <<c>>
  OBVIOUS
<1>7. Steps(r, p, own, mode, x, D) /\ Steps(q, p, own, mode, x, E) /\ Compatible(D, E)
  BY <1>3, <1>4, <1>5
<1>71. Steps(r \o q, p, own, mode, x, D \cup E)
  BY <1>7, MoreSteps
<1>8. Steps(t, p, own, mode, x, {"bootout", "displace", "check", "restore"})
  BY <1>1, <1>6, <1>71 DEF Steps
<1>9. ASSUME Plan(p).file # Nothing PROVE \E i \in 1..Len(t) : Restoring(t[i])
  <2>1. IsSeq(<<a, b>>) /\ IsSeq(<<c>>)
    BY <1>3, <1>4, StepsSeq
  <2>2. Together(t, <<a, b>>, <<c>>)
    BY <1>6, <2>1, JoinTogether
  <2>3. Len(<<c>>) = 1 /\ <<c>>[1] = c
    BY Seq1
  <2>4. \E i \in 1..Len(t) : t[i] = c
    BY <2>2, <2>3 DEF Together
  <2> QED BY <1>1, <1>9, <2>4 DEF Restoring
<1> QED BY <1>8, <1>9

LEMMA RollbackAdvances == ASSUME NEW p, Running(p), DoRollback(p) PROVE Advances(p)
<1> PICK own, mode, x, phase, c : own = Own(p) /\ mode = proc[p].mode /\ x = proc[p].tx
                                  /\ phase = Op(p).phase /\ c = DoIn("cleanup", phase)
  OBVIOUS
<1>1. Op(p).do = "rollback" /\ UNCHANGED <<dir, root, observers>> /\ c.do = "cleanup"
  BY DEF DoRollback, Ready, Op, DoIn
<1>2. root
  BY <1>1, RunningOp
<1>3. CASE Throw(p)
  BY <1>1, <1>3, ThrowAdvances
<1>4. CASE ~Throw(p)
  <2> PICK s : s = When(~NothingToUndo(p, phase), RollbackTail(p))
    OBVIOUS
  <2>1. Then(p, s \o <<c>>) /\ ~PriorIsUnknown(p)
    BY <1>4 DEF DoRollback, RollbackTail
  <2>2. Steps(s, p, own, mode, x, {"bootout", "displace", "check", "restore"})
    BY RollbackSteps, NoSteps DEF When
  <2>3. Good(c, p, own, mode, x)
    BY <1>1, FreeGood DEF Free
  <2>4. Steps(<<c>>, p, own, mode, x, {c.do})
    BY <2>3, OneStep
  <2>5. Compatible({"bootout", "displace", "check", "restore"}, {c.do})
    BY <1>1 DEF Compatible, Finals, Ending, HeadOnly, Enders
  <2> PICK kinds : kinds = {"bootout", "displace", "check", "restore"} \cup {c.do}
    OBVIOUS
  <2>6. Steps(s \o <<c>>, p, own, mode, x, kinds)
    BY <2>2, <2>4, <2>5, MoreSteps
  <2>7. PriorStays(s \o <<c>>, Op(p))
    <3>1. CASE dir["prior"] = Nothing
      BY <3>1 DEF PriorStays
    <3>2. CASE dir["prior"] # Nothing
      <4>1. Plan(p).file # Nothing /\ s = RollbackTail(p)
        BY <2>1, <3>2 DEF PriorIsUnknown, NothingToUndo, When
      <4>2. \E i \in 1..Len(s) : Restoring(s[i])
        BY <4>1, RollbackSteps
      <4>3. IsSeq(s) /\ IsSeq(<<c>>)
        BY <2>2, <2>4, StepsSeq
      <4>4. Together(s \o <<c>>, s, <<c>>)
        BY <4>3, JoinTogether
      <4>5. \E i \in 1..Len(s \o <<c>>) : Restoring((s \o <<c>>)[i])
        BY <4>2, <4>4 DEF Together
      <4> QED BY <4>5 DEF PriorStays
    <3> QED BY <3>1, <3>2
  <2>8. Quiet(p, s \o <<c>>, kinds)
    BY <1>1, <1>2, <2>6, <2>7 DEF Quiet, StandFor, Finals
  <2> QED BY <1>1, <2>1, <2>8, QuietAdvances
<1> QED BY <1>3, <1>4

LEMMA RecoverAdvances == ASSUME NEW p, Running(p), DoRecover(p), root PROVE Advances(p)
<1>1. Op(p).do = "recover" /\ UNCHANGED <<dir, root, observers>>
  BY DEF DoRecover, Ready, Op
<1>2. ASSUME NEW c, Then(p, <<c>>), c.do \in {"rmdir", "read"} PROVE Advances(p)
  <2>1. Good(c, p, Own(p), proc[p].mode, proc[p].tx)
    BY <1>2 DEF Good, OpOK
  <2>2. Steps(<<c>>, p, Own(p), proc[p].mode, proc[p].tx, {c.do})
    BY <2>1, OneStep
  <2>3. PriorStays(<<c>>, Op(p))
    BY <1>1, <1>2, Seq1 DEF PriorStays, Restoring
  <2>4. Quiet(p, <<c>>, {c.do})
    BY <1>1, <1>2, <2>2, <2>3 DEF Quiet, StandFor, Finals
  <2> QED BY <1>1, <1>2, <2>4, QuietAdvances
<1>3. Do("rmdir").do = "rmdir" /\ Do("read").do = "read"
  BY DEF Do
<1>4. Then(p, <<Do("rmdir")>>) \/ Then(p, <<Do("read")>>)
  BY DEF DoRecover
<1> QED BY <1>2, <1>3, <1>4

---------------------------------------------------------------------------
(* Links                                                                   *)

LEMMA NamesFinite == IsFiniteSet(Names) /\ "canonical" \in Names /\ Slots \subseteq Names /\ Trash \subseteq Names
<1>1. IsFiniteSet({"canonical"}) /\ IsFiniteSet(Trash)
  BY FS_Singleton, FilesAssumption DEF FilesAssumption
<1>2. IsFiniteSet(Slots)
  <2>1. Slots = {"journal"} \cup {"next"} \cup {"previous"} \cup {"prior"} \cup {"desired"} \cup {"displaced"}
    BY DEF Slots
  <2> QED BY <2>1, FS_Singleton, FS_Union
<1>3. IsFiniteSet({"canonical"} \cup Slots)
  BY <1>1, <1>2, FS_Union
<1>4. IsFiniteSet(({"canonical"} \cup Slots) \cup Trash)
  BY <1>1, <1>3, FS_Union
<1> QED BY <1>4 DEF Names

\* A file with two names has at least two links, and a file with two links has
\* a name besides each one.
LEMMA TwoNames ==
  ASSUME NEW f, NEW m \in Names, NEW n \in Names, m # n, dir[m] = f, dir[n] = f PROVE Links(f) >= 2
<1> DEFINE S == {k \in Names : dir[k] = f}
<1>1. IsFiniteSet(S)
  BY NamesFinite, FS_Subset
<1>2. {m, n} \subseteq S
  OBVIOUS
<1>3. Cardinality({m, n}) = 2
  <2>1. IsFiniteSet({m}) /\ Cardinality({m}) = 1
    BY FS_Singleton
  <2>2. Cardinality({m} \cup {n}) = 2
    BY <2>1, FS_AddElement
  <2>3. {m, n} = {m} \cup {n}
    OBVIOUS
  <2> QED BY <2>2, <2>3
<1>4. Cardinality({m, n}) <= Cardinality(S)
  BY <1>1, <1>2, FS_Subset
<1>5. Cardinality(S) \in Nat
  BY <1>1, FS_CardinalityType
<1> QED BY <1>3, <1>4, <1>5 DEF Links

LEMMA OtherName ==
  ASSUME NEW f, NEW n \in Names, dir[n] = f, Links(f) >= 2 PROVE \E m \in Names \ {n} : dir[m] = f
<1> SUFFICES ASSUME \A m \in Names \ {n} : dir[m] # f PROVE FALSE
  OBVIOUS
<1>1. {k \in Names : dir[k] = f} = {n}
  OBVIOUS
<1>2. Cardinality({n}) = 1
  BY FS_Singleton
<1> QED BY <1>1, <1>2 DEF Links

RestoreTail(p) ==
  <<Check("canonical", Plan(p).file, 1)>>
  \o When(Plan(p).loaded, <<Do("bootstrap"), Prove(Plan(p).file)>>) \o <<Check("canonical", Plan(p).file, 1)>>

LEMMA RestoreSteps ==
  ASSUME NEW p, NEW own, NEW mode, NEW x
  PROVE  Steps(RestoreTail(p), p, own, mode, x, {"check", "bootstrap", "prove"})
<1> PICK a, b, c, D, E : /\ a = Check("canonical", Plan(p).file, 1)
                         /\ b = Do("bootstrap") /\ c = Prove(Plan(p).file)
                         /\ D = {"check"} /\ E = {"bootstrap", "prove"}
  OBVIOUS
<1>1. a.do = "check" /\ b.do = "bootstrap" /\ c.do = "prove"
  BY DEF Check, Do, Prove
<1>2. Good(a, p, own, mode, x) /\ Goods({b, c}, p, own, mode, x)
  BY <1>1 DEF Good, Goods, OpOK
<1> PICK r, s : r = <<a>> /\ s = When(Plan(p).loaded, <<b, c>>)
  OBVIOUS
<1>3. Steps(r, p, own, mode, x, D)
  BY <1>1, <1>2, OneStep
<1>4. Steps(<<b, c>>, p, own, mode, x, E)
  BY <1>1, <1>2, TwoSteps DEF Inner, Finals, HeadOnly, Enders
<1>5. Steps(s, p, own, mode, x, E)
  BY <1>4, NoSteps DEF When
<1>6. Compatible(D, E) /\ Compatible(D \cup E, D)
  BY DEF Compatible, Finals, Ending, HeadOnly, Enders
<1>7. Steps(r \o s, p, own, mode, x, D \cup E)
  BY <1>3, <1>5, <1>6, MoreSteps
<1>8. Steps((r \o s) \o r, p, own, mode, x, (D \cup E) \cup D)
  BY <1>3, <1>6, <1>7, MoreSteps
<1> QED BY <1>8 DEF RestoreTail, Steps

LEMMA RestoreAdvances == ASSUME NEW p, Running(p), DoRestore(p) PROVE Advances(p)
<1> PICK own, mode, x, f, back : own = Own(p) /\ mode = proc[p].mode /\ x = proc[p].tx
                                  /\ f = Plan(p).file /\ back = RestoreTail(p)
  OBVIOUS
<1>1. Op(p).do = "restore" /\ UNCHANGED <<dir, root, observers>>
  BY DEF DoRestore, Ready, Op
<1>2. root
  BY <1>1, RunningOp
<1>3. CASE Throw(p)
  BY <1>1, <1>3, ThrowAdvances
<1>4. ASSUME NEW a, Then(p, <<a>> \o back), Good(a, p, own, mode, x), Restoring(a), a.do \in {"move", "remove"}
      PROVE  Advances(p)
  <2> PICK s, D, E : s = <<a>> /\ D = {a.do} /\ E = {"check", "bootstrap", "prove"}
    OBVIOUS
  <2>1. Steps(s, p, own, mode, x, D) /\ Steps(back, p, own, mode, x, E)
    BY <1>4, OneStep, RestoreSteps
  <2>2. Compatible(D, E)
    BY <1>4 DEF Compatible, Finals, Ending, HeadOnly, Enders
  <2>3. Steps(s \o back, p, own, mode, x, D \cup E)
    BY <2>1, <2>2, MoreSteps
  <2>4. IsSeq(s) /\ IsSeq(back)
    BY <2>1, StepsSeq
  <2>5. Together(s \o back, s, back)
    BY <2>4, JoinTogether
  <2>6. 1 \in 1..Len(s) /\ s[1] = a
    BY Seq1
  <2>7. \E i \in 1..Len(s \o back) : Restoring((s \o back)[i])
    BY <1>4, <2>5, <2>6 DEF Together
  <2>8. (D \cup E) \cap (Finals \cup Enders \cup {"fill", "discard", "transact", "body"}) = {}
    BY <1>4 DEF Finals, Enders
  <2>9. Quiet(p, s \o back, D \cup E)
    BY <1>1, <1>2, <2>3, <2>7, <2>8, QuietOrdinary
  <2> QED BY <1>1, <1>4, <2>9, QuietAdvances
<1>5. CASE Then(p, <<Move("prior", "canonical", f)>> \o back)
  <2>1. /\ Good(Move("prior", "canonical", f), p, own, mode, x)
        /\ Restoring(Move("prior", "canonical", f)) /\ Move("prior", "canonical", f).do = "move"
    BY DEF Good, OpOK, Moves, Restoring, Move
  <2> QED BY <1>4, <1>5, <2>1
<1>6. CASE Then(p, <<Remove("prior", f, Links(f))>> \o back) /\ dir["canonical"] = f /\ dir["prior"] = f
  <2>1. Links(f) >= 2
    BY <1>6, TwoNames, NamesFinite DEF Slots
  <2> PICK a : a = Remove("prior", f, Links(f))
    OBVIOUS
  <2>2. a.do = "remove" /\ a.name = "prior" /\ a.links = Links(f)
    BY DEF Remove
  <2>3. Good(a, p, own, mode, x) /\ Restoring(a)
    BY <2>1, <2>2 DEF Good, OpOK, Slots, Restoring
  <2> QED BY <1>4, <1>6, <2>2, <2>3
<1>7. \/ Throw(p)
      \/ Then(p, <<Move("prior", "canonical", f)>> \o back)
      \/ Then(p, <<Remove("prior", f, Links(f))>> \o back) /\ dir["canonical"] = f /\ dir["prior"] = f
  <2>1. CASE dir["prior"] # f
    BY <2>1 DEF DoRestore
  <2>2. CASE dir["prior"] = f /\ dir["canonical"] = Nothing
    BY <2>2 DEF DoRestore, RestoreTail
  <2>3. CASE dir["prior"] = f /\ dir["canonical"] # Nothing /\ dir["canonical"] = f
    BY <2>3 DEF DoRestore, RestoreTail
  <2>4. CASE dir["prior"] = f /\ dir["canonical"] # Nothing /\ dir["canonical"] # f
    BY <2>4 DEF DoRestore
  <2> QED BY <2>1, <2>2, <2>3, <2>4
<1> QED BY <1>3, <1>5, <1>6, <1>7

\* What a cleanup is to find: the journal of the transaction, its own plist,
\* and a prior one only when the transaction is committed.
LEMMA CleanFacts ==
  ASSUME NEW p, Running(p), Ready(p, "cleanup"), ~Unclean(p, Op(p).phase)
  PROVE  /\ Removable(MyDesired(p), proc[p].tx)
         /\ dir["journal"].is = "journal"
         /\ dir["prior"] # Nothing => Removable(dir["prior"], proc[p].tx)
<1> PICK x, s : x = proc[p].tx /\ s = proc[p].todo
  OBVIOUS
<1>1. Op(p).do = "cleanup" /\ Op(p) = s[1] /\ 1 \in 1..Len(s)
  BY RunningOp DEF Ready, Op
<1>2. Removable(MyDesired(p), x)
  BY <1>1, RunningOp DEF Removable, MyDesired
<1>3. dir["journal"] = Journal(x, Op(p).phase)
  BY DEF Unclean
<1>4. dir["journal"].is = "journal" /\ dir["journal"].of = x /\ dir["journal"].phase = Op(p).phase
  BY <1>3 DEF Journal, File
<1>5. ASSUME dir["prior"] # Nothing PROVE Removable(dir["prior"], x)
  <2>1. dir["prior"] = proc[x].plan.file
    BY <1>5 DEF Unclean, Plan
  <2>2. Op(p).phase = "committed"
    <3>1. WellFormed(s, p, Own(p), proc[p].mode) /\ PriorOK(s)
      BY RunningFacts DEF ProgramOK
    <3>2. ~Restoring(s[1])
      BY <1>1 DEF Restoring
    <3>3. \A i \in 1..Len(s) : i # 1 => ~Restoring(s[i])
      <4> SUFFICES ASSUME NEW i \in 1..Len(s), i # 1 PROVE ~Restoring(s[i])
        OBVIOUS
      <4>1. 1 < i
        BY <3>1 DEF WellFormed, IsSeq
      <4>2. Follows(s[1], s[i])
        BY <1>1, <3>1, <4>1 DEF WellFormed
      <4> QED BY <1>1, <4>2 DEF Follows, Enders, Changing, Restoring
    <3> QED BY <1>1, <1>5, <3>1, <3>2, <3>3 DEF PriorOK
  <2>3. x \in committed
    BY <1>4, <2>2, RunningFacts, NamesFinite DEF FilesOK, DirOK, Slots
  <2> QED BY <2>1, <2>3 DEF Removable, Expected
<1> QED BY <1>2, <1>4, <1>5

LEMMA RemovalSteps ==
  ASSUME NEW condition, NEW n \in Slots, NEW f, NEW links, NEW p, NEW own, NEW mode, NEW x,
         condition => Removable(f, x)
  PROVE  Steps(When(condition, <<Remove(n, f, links)>>), p, own, mode, x, {"remove"})
<1>1. CASE condition
  <2> PICK a : a = Remove(n, f, links)
    OBVIOUS
  <2>1. a.do = "remove" /\ Good(a, p, own, mode, x)
    BY <1>1, RemoveGood DEF Remove
  <2>2. Steps(<<a>>, p, own, mode, x, {a.do})
    BY <2>1, OneStep
  <2> QED BY <1>1, <2>1, <2>2 DEF When
<1>2. CASE ~condition
  BY <1>2, NoSteps DEF When
<1> QED BY <1>1, <1>2

\* What comes last may be replaced by what comes last.
LEMMA EndersStand ==
  ASSUME NEW p, NEW own, NEW mode, NEW x, NEW s, NEW kinds, Steps(s, p, own, mode, x, kinds),
         kinds \cap Finals = {}, NEW o, o.do \in Enders \cap Ending
  PROVE  StandFor(s, o)
<1>1. \A i \in 1..Len(s) : s[i].do \notin Finals
  BY DEF Steps
<1> QED BY <1>1 DEF StandFor

LEMMA PriorUntouched ==
  ASSUME NEW p, NEW own, NEW mode, NEW x, NEW s, NEW kinds, Steps(s, p, own, mode, x, kinds),
         "cleanup" \notin kinds, NEW o, ~Restoring(o)
  PROVE  PriorStays(s, o)
<1>1. \A i \in 1..Len(s) : s[i].do # "cleanup"
  BY DEF Steps
<1> QED BY <1>1 DEF PriorStays

LEMMA CleanupAdvances == ASSUME NEW p, Running(p), DoCleanup(p) PROVE Advances(p)
<1> PICK own, mode, x, f, g, h : /\ own = Own(p) /\ mode = proc[p].mode /\ x = proc[p].tx
                                 /\ f = MyDesired(p) /\ g = dir["prior"] /\ h = dir["journal"]
  OBVIOUS
<1>1. Op(p).do = "cleanup" /\ Ready(p, "cleanup") /\ UNCHANGED <<dir, root, observers>>
  BY DEF DoCleanup, Ready, Op
<1>2. root
  BY <1>1, RunningOp
<1>3. CASE Throw(p)
  BY <1>1, <1>3, ThrowAdvances
<1>4. CASE ~Throw(p)
  <2>1. ~Unclean(p, Op(p).phase)
    BY <1>4 DEF DoCleanup
  <2>2. Removable(f, x) /\ h.is = "journal" /\ (g # Nothing => Removable(g, x))
    BY <1>1, <2>1, CleanFacts
  <2> PICK a, b, c, d, links :
        /\ links = IF dir["desired"] # Nothing /\ dir["displaced"] # Nothing THEN Links(f) - 1 ELSE Links(f)
        /\ a = When(dir["desired"] # Nothing, <<Remove("desired", f, Links(f))>>)
        /\ b = When(dir["displaced"] # Nothing, <<Remove("displaced", f, links)>>)
        /\ c = When(g # Nothing, <<Remove("prior", g, 1)>>)
        /\ d = <<Remove("journal", h, 1), Do("rmdir")>>
    OBVIOUS
  <2>3. Then(p, ((a \o b) \o c) \o d)
    BY <1>4, <2>1 DEF DoCleanup
  <2>4. Steps(a, p, own, mode, x, {"remove"})
    BY <2>2, RemovalSteps DEF Slots
  <2>5. Steps(b, p, own, mode, x, {"remove"})
    BY <2>2, RemovalSteps DEF Slots
  <2>6. Steps(c, p, own, mode, x, {"remove"})
    BY <2>2, RemovalSteps DEF Slots
  <2>7. Steps(d, p, own, mode, x, {"remove", "rmdir"})
    <3> PICK v, w : v = Remove("journal", h, 1) /\ w = Do("rmdir")
      OBVIOUS
    <3>1. v.do = "remove" /\ w.do = "rmdir"
      BY DEF Remove, Do
    <3>2. Good(v, p, own, mode, x)
      BY <2>2, RemoveGood DEF Removable, Slots
    <3>3. Goods({v, w}, p, own, mode, x)
      BY <3>1, <3>2 DEF Goods, Good, OpOK
    <3>4. Steps(<<v, w>>, p, own, mode, x, {v.do, w.do})
      BY <3>1, <3>3, TwoSteps DEF Inner, Finals, HeadOnly, Enders
    <3> QED BY <3>1, <3>4
  <2> PICK D, E, s, t, r : D = {"remove"} /\ E = {"remove", "rmdir"} /\ s = a \o b /\ t = s \o c /\ r = t \o d
    OBVIOUS
  <2>8. Compatible(D, D) /\ Compatible(D, E) /\ D \cup D = D /\ D \cup E = E
    BY DEF Compatible, Finals, Ending, HeadOnly, Enders
  <2>9. Steps(s, p, own, mode, x, D)
    <3>1. Steps(a, p, own, mode, x, D) /\ Steps(b, p, own, mode, x, D)
      BY <2>4, <2>5
    <3>2. Steps(a \o b, p, own, mode, x, D \cup D)
      BY <3>1, <2>8, MoreSteps
    <3> QED BY <3>2, <2>8
  <2>10. Steps(t, p, own, mode, x, D)
    <3>1. Steps(s, p, own, mode, x, D) /\ Steps(c, p, own, mode, x, D)
      BY <2>6, <2>9
    <3>2. Steps(s \o c, p, own, mode, x, D \cup D)
      BY <3>1, <2>8, MoreSteps
    <3> QED BY <3>2, <2>8
  <2>11. Steps(r, p, own, mode, x, E)
    <3>1. Steps(t, p, own, mode, x, D) /\ Steps(d, p, own, mode, x, E)
      BY <2>7, <2>10
    <3>2. Steps(t \o d, p, own, mode, x, D \cup E)
      BY <3>1, <2>8, MoreSteps
    <3> QED BY <3>2, <2>8
  <2>12. StandFor(r, Op(p))
    <3>1. Op(p).do \in Enders \cap Ending /\ E \cap Finals = {}
      BY <1>1 DEF Enders, Ending, Finals
    <3> PICK o : o = Op(p)
      OBVIOUS
    <3>2. o.do \in Enders \cap Ending
      BY <3>1
    <3>3. StandFor(r, o)
      BY <2>11, <3>1, <3>2, EndersStand
    <3> QED BY <3>3
  <2>13. PriorStays(r, Op(p))
    <3>1. ~Restoring(Op(p)) /\ "cleanup" \notin E
      BY <1>1 DEF Restoring
    <3> PICK o : o = Op(p)
      OBVIOUS
    <3>2. PriorStays(r, o)
      BY <2>11, <3>1, PriorUntouched
    <3> QED BY <3>2
  <2>14. E \cap {"fill", "discard", "transact", "body", "quarantine"} = {} /\ Op(p).do # "throw"
    BY <1>1
  <2>15. Quiet(p, r, E)
    BY <1>2, <2>11, <2>12, <2>13, <2>14 DEF Quiet
  <2> QED BY <1>1, <2>3, <2>15, QuietAdvances
<1> QED BY <1>3, <1>4

---------------------------------------------------------------------------
(* Operations after which the program is another                           *)

LEMMA EmptyAfter == ASSUME NEW s, IsSeq(s) PROVE s \o <<>> = s
<1>1. s \in Seq({s[i] : i \in 1..Len(s)})
  BY SeqTyped
<1> QED BY <1>1, ConcatEmptySeq

LEMMA NoElement == ASSUME NEW t, IsSeq(t), 1 \notin 1..Len(t) PROVE t = <<>>
<1>1. Len(t) = 0
  BY DEF IsSeq
<1> QED BY <1>1, SeqEmpty

\* What is final stands alone.
LEMMA FinalAlone ==
  ASSUME NEW p, Running(p), Op(p).do \in Finals PROVE Tail(proc[p].todo) = <<>>
<1> PICK s : s = proc[p].todo
  OBVIOUS
<1>1. WellFormed(s, p, Own(p), proc[p].mode) /\ s # <<>>
  BY RunningFacts DEF ProgramOK
<1>2. RestOK(s, p, Own(p), proc[p].mode)
  BY <1>1, RestWellFormed
<1> PICK t : t = Tail(s)
  OBVIOUS
<1>3. IsSeq(t) /\ Len(t) \in Nat /\ \A j \in 1..Len(t) : Follows(Head(s), t[j])
  BY <1>2 DEF RestOK, WellFormed, IsSeq
<1>4. 1 \notin 1..Len(t)
  BY <1>3 DEF Follows, Op
<1> QED BY <1>3, <1>4, NoElement

Whole(p, t, x, mode, kinds) ==
  /\ Steps(t, p, proc[p].stage = "transact" /\ x = p, mode, x, kinds)
  /\ kinds \cap {"fill", "discard", "transact"} = {}
  /\ root \/ t = <<>> \/ Head(t).do = "mkdir"
  /\ Desired(x) \notin owed
  /\ x \in Process /\ (x = p \/ ~Fresh(x))
  /\ PriorOK(t)

Renewed(p, t, x, mode) ==
  /\ Turn(p)
  /\ proc'[p].todo = t /\ proc'[p].mode = mode /\ proc'[p].tx = x
  /\ UNCHANGED <<dir, root, committed, owed>>

LEMMA WholeAdvances ==
  ASSUME NEW p, Running(p), NEW t, NEW x, NEW mode, NEW kinds,
         Whole(p, t, x, mode, kinds) /\ Renewed(p, t, x, mode)
  PROVE  Advances(p)
<1>1. /\ p \in Process /\ Shape /\ FilesOK /\ committed \subseteq Process
  BY RunningFacts
<1>2. /\ proc'[p].todo = t /\ proc'[p].mode = mode /\ proc'[p].tx = x /\ Turn(p)
      /\ dir' = dir /\ root' = root /\ committed' = committed /\ owed' = owed
      /\ Own(p)' = (proc[p].stage = "transact" /\ x = p)
  BY DEF Renewed, Turn, Own
<1>3. IsSeq(t) /\ (t # <<>> => Head(t) = t[1] /\ 1 \in 1..Len(t)) /\ \A i \in 1..Len(t) : t[i].do \in kinds
  <2>1. IsSeq(t) /\ Len(t) \in Nat /\ \A i \in 1..Len(t) : t[i].do \in kinds
    BY DEF Whole, Steps, WellFormed, IsSeq
  <2> QED BY <2>1, Rest
<1>4. t # <<Do("transact")>>
  <2> SUFFICES ASSUME t = <<Do("transact")>> PROVE FALSE
    OBVIOUS
  <2>1. Len(t) = 1 /\ t[1] = Do("transact")
    BY Seq1
  <2>2. t[1].do = "transact" /\ t[1].do \in kinds
    BY <1>3, <2>1 DEF Do
  <2> QED BY <2>2 DEF Whole
<1>5. Turned(p)
  BY <1>1, <1>2, <1>4 DEF Turned
<1>6. FilesOK'
  BY <1>1, <1>2, <1>5, QuietFiles
<1>7. WellFormed(t, p, Own(p)', mode)
  BY <1>2 DEF Whole, Steps
<1>8. RemovesOK(t, x)'
  <2>1. RemovesOK(t, x)
    BY DEF Whole, Steps
  <2>2. \A f : Removable(f, x) => Removable(f, x)'
    BY <1>1, <1>2, RemovableStays
  <2> QED BY <2>1, <2>2 DEF RemovesOK
<1>9. PriorOK(t)'
  BY <1>2 DEF Whole, PriorOK, Nothing, File, Restoring
<1>10. HeadOK(t)'
  BY <1>3 DEF HeadOK, Whole
<1>11. EndOK(t, mode, x)'
  BY <1>2 DEF EndOK, Whole, Resting, Desired, File
<1>12. x = p \/ ~Fresh(x)'
  BY <1>5, FreshBefore DEF Whole
<1>13. ProgramOK(p)'
  BY <1>2, <1>7, <1>8, <1>9, <1>10, <1>11, <1>12 DEF ProgramOK
<1> QED BY <1>2, <1>6, <1>13 DEF Advances, Whole

\* A program with nothing that takes away
LEMMA PriorKept ==
  ASSUME NEW p, NEW own, NEW mode, NEW x, NEW t, NEW kinds, Steps(t, p, own, mode, x, kinds),
         kinds \cap {"body", "quarantine", "cleanup"} = {}
  PROVE  PriorOK(t)
BY DEF PriorOK, Steps

LEMMA RecoverEnds == ASSUME NEW p, Running(p), DoRecover(p), ~root PROVE Advances(p)
<1> PICK x, mode : x = proc[p].tx /\ mode = proc[p].mode
  OBVIOUS
<1>1. Op(p).do = "recover" /\ UNCHANGED <<dir, root, observers>> /\ Then(p, <<>>)
  BY DEF DoRecover, Ready, Op
<1>2. /\ p \in Process /\ Shape /\ ProgramOK(p) /\ x \in Process
  BY RunningFacts
<1>3. Replaced(p, <<>>)
  BY <1>1, <1>2, ThenReplaces
<1>4. Tail(proc[p].todo) = <<>>
  BY <1>1, FinalAlone DEF Finals
<1>5. <<>> \o <<>> = <<>>
  BY EmptyAfter, Seq0
<1>6. Renewed(p, <<>>, x, mode)
  BY <1>1, <1>3, <1>4, <1>5 DEF Renewed, Replaced, observers
<1>7. Steps(<<>>, p, proc[p].stage = "transact" /\ x = p, mode, x, {})
  BY NoSteps
<1>8. PriorOK(<<>>)
  BY <1>7, PriorKept
<1>9. Desired(x) \notin owed
  BY <1>1, RunningOp
<1>10. x = p \/ ~Fresh(x)
  BY <1>2 DEF ProgramOK
<1>11. Whole(p, <<>>, x, mode, {})
  BY <1>2, <1>7, <1>8, <1>9, <1>10 DEF Whole
<1> QED BY <1>6, <1>11, WholeAdvances

LEMMA ResolveAdvances == ASSUME NEW p, Running(p), DoResolve(p) PROVE Advances(p)
<1> PICK x, finish : x = proc[p].tx /\ finish = (Op(p).phase = "committed" /\ proc[p].mode = "open")
  OBVIOUS
<1> PICK a, mode, own : /\ a = IF finish THEN Do("finish") ELSE DoIn("rollback", Op(p).phase)
                        /\ mode = IF finish THEN "finish" ELSE "undo"
                        /\ own = (proc[p].stage = "transact" /\ x = p)
  OBVIOUS
<1>1. /\ Op(p).do = "resolve" /\ UNCHANGED <<dir, root, observers>>
      /\ proc' = [proc EXCEPT ![p].mode = mode, ![p].todo = <<a>>]
  BY DEF DoResolve, Ready, Op
<1>2. /\ p \in Process /\ Shape /\ ProgramOK(p) /\ x \in Process
  BY RunningFacts
<1>3. Renewed(p, <<a>>, x, mode)
  BY <1>1, <1>2 DEF Renewed, Turn, Shape, observers
<1>4. a.do \in {"finish", "rollback"}
  BY DEF Do, DoIn
<1>5. Good(a, p, own, mode, x)
  BY <1>4 DEF Good, OpOK
<1>6. Steps(<<a>>, p, own, mode, x, {a.do})
  BY <1>5, OneStep
<1>7. PriorOK(<<a>>)
  BY <1>4, <1>6, PriorKept
<1>8. root /\ Desired(x) \notin owed
  BY <1>1, RunningOp
<1>9. x = p \/ ~Fresh(x)
  BY <1>2 DEF ProgramOK
<1>10. Whole(p, <<a>>, x, mode, {a.do})
  BY <1>2, <1>4, <1>6, <1>7, <1>8, <1>9 DEF Whole
<1> QED BY <1>3, <1>10, WholeAdvances

LEMMA OneAndTwo == ASSUME NEW a, NEW b, NEW c PROVE <<a>> \o <<b, c>> = <<a, b, c>>
<1> PICK r, q, t : r = <<a>> /\ q = <<b, c>> /\ t = r \o q
  OBVIOUS
<1>1. IsSeq(r) /\ IsSeq(q) /\ Len(r) = 1 /\ Len(q) = 2 /\ r[1] = a /\ q[1] = b /\ q[2] = c
  BY DEF IsSeq
<1>2. Joined(t, r, q)
  BY <1>1, Join
<1>3. Len(t) = 3 /\ t[1] = a /\ t[2] = b /\ t[3] = c /\ t = [i \in 1..3 |-> t[i]]
  <2>1. Len(t) = 3 /\ IsSeq(t) /\ t[1] = r[1] /\ t[1 + 1] = q[1] /\ t[1 + 2] = q[2]
    BY <1>1, <1>2 DEF Joined
  <2> QED BY <1>1, <2>1 DEF IsSeq
<1>4. <<a, b, c>> = [i \in 1..3 |-> <<a, b, c>>[i]]
  OBVIOUS
<1>5. \A i \in 1..3 : t[i] = <<a, b, c>>[i]
  BY <1>3
<1> QED BY <1>3, <1>4, <1>5

LEMMA TransactAdvances == ASSUME NEW p, Running(p), DoTransact(p) PROVE Advances(p)
<1> PICK a, b, c, t, own : /\ a = Do("mkdir") /\ b = Create("journal", Journal(p, "prepared")) /\ c = Do("body")
                           /\ t = <<a, b, c>> /\ own = (proc[p].stage = "transact" /\ p = p)
  OBVIOUS
<1>1. Op(p).do = "transact" /\ UNCHANGED <<dir, root, observers>>
  BY DEF DoTransact, Ready, Op
<1>2. /\ p \in Process /\ Shape /\ ProgramOK(p) /\ FilesOK
  BY RunningFacts
<1>3. CASE root
  BY <1>1, <1>3, ThrowAdvances DEF DoTransact
<1>4. CASE ~root
  <2>1. proc' = [proc EXCEPT ![p].tx = p, ![p].todo = t]
    BY <1>4 DEF DoTransact
  <2>2. proc[p].mode = "open" /\ own /\ proc[p].tx = p
    BY <1>1, RunningOp DEF OpOK, Own
  <2>3. Renewed(p, t, p, "open")
    BY <1>1, <1>2, <2>1, <2>2 DEF Renewed, Turn, Shape, observers
  <2>4. a.do = "mkdir" /\ b.do = "create" /\ c.do = "body"
    BY DEF Do, Create
  <2>5. Good(a, p, own, "open", p)
    BY <2>2, <2>4 DEF Good, OpOK
  <2>6. Good(b, p, own, "open", p)
    BY <2>2, <2>4 DEF Good, OpOK, Create, Written, Phases
  <2>7. Good(c, p, own, "open", p)
    BY <2>2, <2>4 DEF Good, OpOK
  <2>8. Goods({b, c}, p, own, "open", p)
    BY <2>6, <2>7 DEF Goods
  <2> PICK r, q, D, E : r = <<a>> /\ q = <<b, c>> /\ D = {a.do} /\ E = {b.do, c.do}
    OBVIOUS
  <2>9. Steps(r, p, own, "open", p, D)
    BY <2>5, OneStep
  <2>10. Steps(q, p, own, "open", p, E)
    BY <2>4, <2>8, TwoSteps DEF Inner, Finals, HeadOnly, Enders
  <2>11. Compatible(D, E)
    BY <2>4 DEF Compatible, Finals, Ending, HeadOnly, Enders
  <2>12. Steps(r \o q, p, own, "open", p, D \cup E)
    BY <2>9, <2>10, <2>11, MoreSteps
  <2>13. r \o q = t
    BY OneAndTwo
  <2>14. Steps(t, p, own, "open", p, {"mkdir", "create", "body"})
    BY <2>4, <2>12, <2>13 DEF Steps
  <2>15. Head(t).do = "mkdir"
    BY <2>4
  <2>16. dir["prior"] = Nothing
    BY <1>2, <1>4 DEF FilesOK, DirOK, RootIsEmpty, Slots
  <2>17. Desired(p) \notin owed
    BY <1>1, <2>2, RunningOp
  <2>18. PriorOK(t)
    BY <2>16 DEF PriorOK
  <2>19. Whole(p, t, p, "open", {"mkdir", "create", "body"})
    BY <1>2, <2>14, <2>15, <2>17, <2>18 DEF Whole
  <2> QED BY <2>3, <2>19, WholeAdvances
<1> QED BY <1>3, <1>4

LEMMA WhenStep ==
  ASSUME NEW condition, NEW a, NEW p, NEW own, NEW mode, NEW x, Good(a, p, own, mode, x)
  PROVE  Steps(When(condition, <<a>>), p, own, mode, x, {a.do})
<1>1. Steps(<<a>>, p, own, mode, x, {a.do}) /\ Steps(<<>>, p, own, mode, x, {a.do})
  BY OneStep, NoSteps
<1> QED BY <1>1 DEF When

\* What the programs of a transaction are made of
LEMMA BodyGoods ==
  ASSUME NEW p, NEW x
  PROVE  /\ \A phase, from : Good(Update(from, phase), p, TRUE, "forward", x)
         /\ \A do \in {"quarantine", "publish", "bootstrap", "finish"} : Good(Do(do), p, TRUE, "forward", x)
         /\ Good(Create("desired", Desired(p)), p, TRUE, "forward", x)
         /\ \A f : Good(Prove(f), p, TRUE, "forward", x)
         /\ \A n, f, links : Good(Check(n, f, links), p, TRUE, "forward", x)
         /\ Good(Bootout(TRUE), p, TRUE, "forward", x)
BY DEF Good, OpOK, Update, Do, Create, Prove, Check, Bootout, Written

LEMMA RemoveBody ==
  ASSUME NEW p, NEW x
  PROVE  Steps(RemoveSteps(p), p, TRUE, "forward", x,
               {"quarantine", "bootout", "prove", "check", "update", "finish"})
<1> PICK a, b, c, d, e, f : /\ a = Do("quarantine") /\ b = Bootout(TRUE) /\ c = Prove(Nothing)
                            /\ d = Check("canonical", Nothing, 0)
                            /\ e = Update(FirstPhase(p), "committed") /\ f = Do("finish")
  OBVIOUS
<1>1. /\ a.do = "quarantine" /\ b.do = "bootout" /\ c.do = "prove" /\ d.do = "check"
      /\ e.do = "update" /\ f.do = "finish"
  BY DEF Do, Bootout, Prove, Check, Update
<1>2. Good(a, p, TRUE, "forward", x) /\ Good(b, p, TRUE, "forward", x)
  BY BodyGoods
<1>3. Goods({c, d, e, f}, p, TRUE, "forward", x)
  BY BodyGoods DEF Goods
<1> PICK r, s, t, D, E, F : /\ r = When(Plan(p).file # Nothing, <<a>>) /\ s = When(Plan(p).loaded, <<b>>)
                            /\ t = <<c, d, e, f>> /\ D = {"quarantine"} /\ E = {"bootout"}
                            /\ F = {"prove", "check", "update", "finish"}
  OBVIOUS
<1>4. Steps(r, p, TRUE, "forward", x, D) /\ Steps(s, p, TRUE, "forward", x, E)
  BY <1>1, <1>2, WhenStep
<1>5. Steps(t, p, TRUE, "forward", x, {c.do, d.do, e.do, f.do})
  BY <1>1, <1>3, FourSteps DEF Inner, Finals, HeadOnly, Enders
<1>6. Steps(t, p, TRUE, "forward", x, F)
  BY <1>1, <1>5
<1>7. Compatible(D, E) /\ Compatible(D \cup E, F)
  BY DEF Compatible, Finals, Ending, HeadOnly, Enders, Changing
<1>8. Steps(r \o s, p, TRUE, "forward", x, D \cup E)
  BY <1>4, <1>7, MoreSteps
<1>9. Steps((r \o s) \o t, p, TRUE, "forward", x, (D \cup E) \cup F)
  BY <1>6, <1>7, <1>8, MoreSteps
<1>10. RemoveSteps(p) = (r \o s) \o t
  BY DEF RemoveSteps
<1> QED BY <1>9, <1>10 DEF Steps

\* Five parts that may follow one another are a program.
LEMMA FiveParts ==
  ASSUME NEW p, NEW own, NEW mode, NEW x, NEW r, NEW s, NEW t, NEW u, NEW v,
         NEW A, NEW B, NEW C, NEW D, NEW E,
         Steps(r, p, own, mode, x, A), Steps(s, p, own, mode, x, B), Steps(t, p, own, mode, x, C),
         Steps(u, p, own, mode, x, D), Steps(v, p, own, mode, x, E),
         Compatible(A, B), Compatible(A \cup B, C), Compatible((A \cup B) \cup C, D),
         Compatible(((A \cup B) \cup C) \cup D, E)
  PROVE  Steps((((r \o s) \o t) \o u) \o v, p, own, mode, x, (((A \cup B) \cup C) \cup D) \cup E)
<1>1. Steps(r \o s, p, own, mode, x, A \cup B)
  BY MoreSteps
<1>2. Steps((r \o s) \o t, p, own, mode, x, (A \cup B) \cup C)
  BY <1>1, MoreSteps
<1>3. Steps(((r \o s) \o t) \o u, p, own, mode, x, ((A \cup B) \cup C) \cup D)
  BY <1>2, MoreSteps
<1> QED BY <1>3, MoreSteps

LEMMA ApplyBody ==
  ASSUME NEW p, NEW x
  PROVE  Steps(ApplySteps(p), p, TRUE, "forward", x,
               {"create", "quarantine", "publish", "bootout", "bootstrap", "check", "prove", "update", "finish"})
<1>ops1. PICK a, b, c, d : /\ a = Create("desired", Desired(p)) /\ b = Do("quarantine") /\ c = Do("publish")
                      /\ d = Bootout(TRUE)
  OBVIOUS
<1>ops2. PICK e, f, g, h, i : /\ e = Do("bootstrap") /\ f = Check("canonical", Desired(p), 1) /\ g = Prove(Desired(p))
                         /\ h = Update("desired-published", "committed") /\ i = Do("finish")
  OBVIOUS
<1>1. /\ a.do = "create" /\ b.do = "quarantine" /\ c.do = "publish" /\ d.do = "bootout"
      /\ e.do = "bootstrap" /\ f.do = "check" /\ g.do = "prove" /\ h.do = "update" /\ i.do = "finish"
  BY <1>ops1, <1>ops2 DEF Do, Bootout, Prove, Check, Update, Create
<1>2. /\ Good(a, p, TRUE, "forward", x) /\ Good(b, p, TRUE, "forward", x)
      /\ Good(c, p, TRUE, "forward", x) /\ Good(d, p, TRUE, "forward", x)
  BY <1>ops1, BodyGoods
<1>3. Goods({e, f, g, h, i}, p, TRUE, "forward", x)
  BY <1>ops2, BodyGoods DEF Goods
<1>parts. PICK r, s, t, u, v : /\ r = <<a>> /\ s = When(Plan(p).file # Nothing, <<b>>) /\ t = <<c>>
                         /\ u = When(Plan(p).loaded, <<d>>) /\ v = <<e, f, g, h, i>>
  OBVIOUS
<1>kinds. PICK A, B, C, D, E : /\ A = {"create"} /\ B = {"quarantine"} /\ C = {"publish"} /\ D = {"bootout"}
                         /\ E = {"bootstrap", "check", "prove", "update", "finish"}
  OBVIOUS
<1>4. /\ Steps(r, p, TRUE, "forward", x, A) /\ Steps(s, p, TRUE, "forward", x, B)
      /\ Steps(t, p, TRUE, "forward", x, C) /\ Steps(u, p, TRUE, "forward", x, D)
  <2>1. Steps(r, p, TRUE, "forward", x, {a.do}) /\ Steps(t, p, TRUE, "forward", x, {c.do})
    BY <1>2, <1>parts, OneStep
  <2>2. Steps(s, p, TRUE, "forward", x, {b.do}) /\ Steps(u, p, TRUE, "forward", x, {d.do})
    BY <1>2, <1>parts, WhenStep
  <2> QED BY <1>1, <1>kinds, <2>1, <2>2
<1>5. Steps(v, p, TRUE, "forward", x, {e.do, f.do, g.do, h.do, i.do})
  BY <1>1, <1>3, <1>parts, FiveSteps DEF Inner, Finals, HeadOnly, Enders
<1>6. Steps(v, p, TRUE, "forward", x, E)
  BY <1>1, <1>5, <1>kinds
<1>7. Compatible(A, B) /\ Compatible(A \cup B, C)
  BY <1>kinds DEF Compatible, Finals, Ending, HeadOnly, Enders, Changing
<1>8. Compatible((A \cup B) \cup C, D) /\ Compatible(((A \cup B) \cup C) \cup D, E)
  BY <1>kinds DEF Compatible, Finals, Ending, HeadOnly, Enders, Changing
<1>most. PICK m : m = ((r \o s) \o t) \o u
  OBVIOUS
<1>before. PICK H : H = ((A \cup B) \cup C) \cup D
  OBVIOUS
<1>15. Steps(m \o v, p, TRUE, "forward", x, H \cup E)
  <2>1. Steps((((r \o s) \o t) \o u) \o v, p, TRUE, "forward", x, (((A \cup B) \cup C) \cup D) \cup E)
    BY <1>4, <1>6, <1>7, <1>8, FiveParts
  <2> QED BY <2>1, <1>most, <1>before
<1>16. ApplySteps(p) = m \o v
  BY <1>ops1, <1>ops2, <1>parts, <1>most DEF ApplySteps
<1>17. H \cup E = {"create", "quarantine", "publish", "bootout", "bootstrap", "check", "prove", "update", "finish"}
  BY <1>kinds, <1>before
<1> QED BY <1>15, <1>16, <1>17

LEMMA BodyAdvances == ASSUME NEW p, Running(p), DoBody(p) PROVE Advances(p)
<1> PICK t : t = IF IsApply(p) THEN ApplySteps(p) ELSE RemoveSteps(p)
  OBVIOUS
<1> PICK kinds : kinds = {"create", "quarantine", "publish", "bootout", "bootstrap",
                          "check", "prove", "update", "finish"}
  OBVIOUS
<1>1. /\ Op(p).do = "body" /\ UNCHANGED <<dir, root, observers>>
      /\ proc' = [proc EXCEPT ![p].mode = "forward", ![p].todo = t]
  BY DEF DoBody, Ready, Op
<1>2. /\ p \in Process /\ Shape /\ ProgramOK(p)
  BY RunningFacts
<1>3. Own(p) /\ proc[p].tx = p /\ root /\ Desired(p) \notin owed
  BY <1>1, RunningOp DEF OpOK, Own
<1>4. Renewed(p, t, p, "forward")
  BY <1>1, <1>2, <1>3 DEF Renewed, Turn, Shape, observers
<1>5. Steps(t, p, TRUE, "forward", p, kinds)
  BY ApplyBody, RemoveBody DEF Steps
<1>6. Steps(t, p, proc[p].stage = "transact" /\ p = p, "forward", p, kinds)
  BY <1>3, <1>5 DEF Own
<1>7. dir["prior"] = Nothing
  <2>1. Op(p) = proc[p].todo[1] /\ 1 \in 1..Len(proc[p].todo)
    BY RunningOp
  <2> QED BY <1>1, <1>2, <2>1 DEF ProgramOK, PriorOK
<1>8. PriorOK(t)
  BY <1>7 DEF PriorOK
<1>9. Whole(p, t, p, "forward", kinds)
  BY <1>2, <1>3, <1>6, <1>8 DEF Whole
<1> QED BY <1>4, <1>9, WholeAdvances

RepairKinds == {"move", "remove", "check"}

\* What reading the journal finds: nothing that can be told, or the entry and
\* the moves that were left.
Repairs(r, p, own, mode, x) ==
  \/ r.entry = Nothing
  \/ /\ Steps(r.steps, p, own, mode, x, RepairKinds)
     /\ r.entry.is = "journal" /\ \E n \in Names : r.entry = dir[n]

LEMMA RepairRepairs ==
  ASSUME NEW p, NEW own, NEW mode, NEW x, NEW n \in Names, NEW steps, NEW kinds, NEW f,
         dir[n] = f, f.is = "journal", Steps(steps, p, own, mode, x, kinds), kinds \subseteq RepairKinds
  PROVE  Repairs(Repair(steps, f), p, own, mode, x)
<1>1. Steps(steps, p, own, mode, x, RepairKinds)
  BY DEF Steps
<1> QED BY <1>1 DEF Repairs, Repair

LEMMA LinkSteps ==
  ASSUME NEW p, NEW own, NEW mode, NEW x, NEW f, f.is = "journal", NEW n \in Slots, NEW links
  PROVE  Good(Remove(n, f, links), p, own, mode, x)
BY RemoveGood DEF Removable

LEMMA CheckGood == ASSUME NEW p, NEW own, NEW mode, NEW x, NEW n, NEW f, NEW links
                   PROVE  Good(Check(n, f, links), p, own, mode, x) /\ Inner(Check(n, f, links))
BY DEF Good, OpOK, Check, Inner, Finals, HeadOnly, Enders

LEMMA RemoveInner ==
  ASSUME NEW n, NEW f, NEW links
  PROVE  Inner(Remove(n, f, links)) /\ Remove(n, f, links).do = "remove"
BY DEF Remove, Inner, Finals, HeadOnly, Enders

LEMMA RecoveredRepairs ==
  ASSUME NEW p, NEW own, NEW mode, NEW x
  PROVE  Repairs(Recovered, p, own, mode, x)
<1> PICK C, N, P : C = dir["journal"] /\ N = dir["next"] /\ P = dir["previous"]
  OBVIOUS
<1>0. "journal" \in Names /\ "next" \in Names /\ "previous" \in Names
      /\ "journal" \in Slots /\ "next" \in Slots /\ "previous" \in Slots
  BY NamesFinite DEF Slots
<1>1. Repairs(Unreadable, p, own, mode, x)
  BY DEF Unreadable, Repair, Repairs
<1>2. ASSUME C.is = "journal" PROVE Repairs(Repair(<<>>, C), p, own, mode, x)
  <2>1. Steps(<<>>, p, own, mode, x, {})
    BY NoSteps
  <2> QED BY <1>0, <1>2, <2>1, RepairRepairs
<1>3. ASSUME C.is = "journal", N.is = "journal" PROVE Repairs(Repair(Replace(C, N), N), p, own, mode, x)
  <2>1. Steps(Replace(C, N), p, own, mode, x, {"move", "remove"})
    BY <1>3, ReplaceSteps
  <2> QED BY <1>0, <1>3, <2>1, RepairRepairs DEF RepairKinds
<1>4. ASSUME P.is = "journal", C.is = "journal"
      PROVE  Repairs(Repair(<<Remove("previous", P, 2), Check("journal", C, 1)>>, C), p, own, mode, x)
  <2> PICK a, b : a = Remove("previous", P, 2) /\ b = Check("journal", C, 1)
    OBVIOUS
  <2>1. a.do = "remove" /\ b.do = "check" /\ Inner(a) /\ b.do \notin HeadOnly
    BY RemoveInner DEF Check, HeadOnly
  <2>2. Goods({a, b}, p, own, mode, x)
    BY <1>0, <1>4, LinkSteps, CheckGood DEF Goods
  <2>3. Steps(<<a, b>>, p, own, mode, x, {a.do, b.do})
    BY <2>1, <2>2, TwoSteps
  <2> QED BY <1>0, <1>4, <2>1, <2>3, RepairRepairs DEF RepairKinds
<1>5. ASSUME P.is = "journal", C.is = "journal", N.is = "journal"
      PROVE  Repairs(Repair(<<Remove("journal", C, 2)>> \o Publish(P, N), N), p, own, mode, x)
  <2> PICK a, s, t, D, E : /\ a = Remove("journal", C, 2) /\ s = <<a>> /\ t = Publish(P, N)
                           /\ D = {a.do} /\ E = {"move", "remove"}
    OBVIOUS
  <2>1. a.do = "remove" /\ Good(a, p, own, mode, x)
    BY <1>0, <1>5, LinkSteps, RemoveInner
  <2>2. Steps(s, p, own, mode, x, D)
    BY <2>1, OneStep
  <2>3. Steps(t, p, own, mode, x, E)
    BY <1>5, PublishSteps
  <2>4. Compatible(D, E)
    BY <2>1 DEF Compatible, Finals, Ending, HeadOnly, Enders
  <2>5. Steps(s \o t, p, own, mode, x, D \cup E)
    BY <2>2, <2>3, <2>4, MoreSteps
  <2> QED BY <1>0, <1>5, <2>1, <2>5, RepairRepairs DEF RepairKinds
<1>6. ASSUME P.is = "journal", C.is = "journal"
      PROVE  Repairs(Repair(<<Check("journal", C, 1), Remove("previous", P, 1)>>, C), p, own, mode, x)
  <2> PICK a, b : b = Remove("previous", P, 1) /\ a = Check("journal", C, 1)
    OBVIOUS
  <2>1. b.do = "remove" /\ a.do = "check" /\ Inner(a) /\ b.do \notin HeadOnly
    BY RemoveInner, CheckGood DEF Check, HeadOnly
  <2>2. Goods({a, b}, p, own, mode, x)
    BY <1>0, <1>6, LinkSteps, CheckGood DEF Goods
  <2>3. Steps(<<a, b>>, p, own, mode, x, {a.do, b.do})
    BY <2>1, <2>2, TwoSteps
  <2> QED BY <1>0, <1>6, <2>1, <2>3, RepairRepairs DEF RepairKinds
<1>7. ASSUME P.is = "journal", C.is = "journal", N.is = "journal"
      PROVE  Repairs(Repair(<<Remove("next", N, 2), Check("journal", C, 1), Remove("previous", P, 1)>>, C),
                    p, own, mode, x)
  <2> PICK a, b, c : c = Remove("previous", P, 1) /\ b = Check("journal", C, 1) /\ a = Remove("next", N, 2)
    OBVIOUS
  <2>1. a.do = "remove" /\ b.do = "check" /\ c.do = "remove" /\ Inner(a) /\ Inner(b) /\ c.do \notin HeadOnly
    BY RemoveInner, CheckGood DEF Check, HeadOnly
  <2>2. Goods({a, b, c}, p, own, mode, x)
    BY <1>0, <1>7, LinkSteps, CheckGood DEF Goods
  <2>3. Steps(<<a, b, c>>, p, own, mode, x, {a.do, b.do, c.do})
    BY <2>1, <2>2, ThreeSteps
  <2> QED BY <1>0, <1>7, <2>1, <2>3, RepairRepairs DEF RepairKinds
<1>8. ASSUME P.is = "journal", N.is = "journal" PROVE Repairs(Repair(Publish(P, N), N), p, own, mode, x)
  <2>1. Steps(Publish(P, N), p, own, mode, x, {"move", "remove"})
    BY <1>8, PublishSteps
  <2> QED BY <1>0, <1>8, <2>1, RepairRepairs DEF RepairKinds
<1>9. ASSUME P.is = "journal"
      PROVE  Repairs(Repair(<<Move("previous", "journal", P)>>, P), p, own, mode, x)
  <2> PICK a : a = Move("previous", "journal", P)
    OBVIOUS
  <2>1. a.do = "move" /\ Good(a, p, own, mode, x)
    BY MoveGood DEF Moves, Move
  <2>2. Steps(<<a>>, p, own, mode, x, {a.do})
    BY <2>1, OneStep
  <2> QED BY <1>0, <1>9, <2>1, <2>2, RepairRepairs DEF RepairKinds
<1>10. \A f : f = Nothing \/ ~Readable(f, 2) \/ f.is = "journal"
  BY DEF Readable
<1>11. \A f : Readable(f, 1) => f.is = "journal"
  BY DEF Readable
<1> PICK r : r = Recovered
  OBVIOUS
<1>12. CASE P = Nothing /\ N = Nothing
  <2>1. r = IF Readable(C, 1) THEN Repair(<<>>, C) ELSE Unreadable
    BY <1>12 DEF Recovered
  <2> QED BY <1>1, <1>2, <1>11, <2>1
<1>13. CASE ~(P = Nothing /\ N = Nothing)
  <2>1. CASE ~((C = Nothing \/ Readable(C, 2)) /\ (N = Nothing \/ Readable(N, 2)) /\ (P = Nothing \/ Readable(P, 2)))
    <3>1. r = Unreadable
      BY <1>13, <2>1 DEF Recovered
    <3> QED BY <1>1, <3>1
  <2>2. CASE (C = Nothing \/ Readable(C, 2)) /\ (N = Nothing \/ Readable(N, 2)) /\ (P = Nothing \/ Readable(P, 2))
    <3>0. (C # Nothing => C.is = "journal") /\ (N # Nothing => N.is = "journal") /\ (P # Nothing => P.is = "journal")
      BY <1>10, <2>2
    <3>1. CASE P = Nothing
      <4>1. r = IF C # Nothing /\ IsSuccessor(C, N) THEN Repair(Replace(C, N), N) ELSE Unreadable
        BY <1>13, <2>2, <3>1 DEF Recovered
      <4> QED BY <1>1, <1>3, <1>13, <3>0, <3>1, <4>1
    <3>2. CASE P # Nothing /\ C = P /\ N = Nothing
      <4>1. r = Repair(<<Remove("previous", P, 2), Check("journal", C, 1)>>, C)
        BY <2>2, <3>2 DEF Recovered
      <4> QED BY <1>4, <3>0, <3>2, <4>1
    <3>3. CASE P # Nothing /\ C = P /\ N # Nothing
      <4>1. r = IF IsSuccessor(P, N) THEN Repair(<<Remove("journal", C, 2)>> \o Publish(P, N), N) ELSE Unreadable
        BY <2>2, <3>3 DEF Recovered
      <4> QED BY <1>1, <1>5, <3>0, <3>3, <4>1
    <3>4. CASE P # Nothing /\ C # P /\ C # Nothing /\ N = Nothing
      <4>1. r = IF IsSuccessor(P, C)
                  THEN Repair(<<Check("journal", C, 1), Remove("previous", P, 1)>>, C) ELSE Unreadable
        BY <2>2, <3>4 DEF Recovered
      <4> QED BY <1>1, <1>6, <3>0, <3>4, <4>1
    <3>5. CASE P # Nothing /\ C # P /\ C # Nothing /\ N # Nothing
      <4>1. r \in {Repair(<<Remove("next", N, 2), Check("journal", C, 1), Remove("previous", P, 1)>>, C), Unreadable}
        BY <2>2, <3>5 DEF Recovered
      <4> QED BY <1>1, <1>7, <3>0, <3>5, <4>1
    <3>6. CASE P # Nothing /\ C # P /\ C = Nothing /\ N # Nothing
      <4>1. r = IF IsSuccessor(P, N) THEN Repair(Publish(P, N), N) ELSE Unreadable
        BY <2>2, <3>6 DEF Recovered
      <4> QED BY <1>1, <1>8, <3>0, <3>6, <4>1
    <3>7. CASE P # Nothing /\ C # P /\ C = Nothing /\ N = Nothing
      <4>1. r = Repair(<<Move("previous", "journal", P)>>, P)
        BY <2>2, <3>7 DEF Recovered
      <4> QED BY <1>9, <3>0, <3>7, <4>1
    <3> QED BY <3>1, <3>2, <3>3, <3>4, <3>5, <3>6, <3>7
  <2> QED BY <2>1, <2>2
<1> QED BY <1>12, <1>13

LEMMA ReadAdvances == ASSUME NEW p, Running(p), DoRead(p) PROVE Advances(p)
<1> PICK r, mode : r = Recovered /\ mode = proc[p].mode
  OBVIOUS
<1>1. Op(p).do = "read" /\ UNCHANGED <<dir, root, observers>>
  BY DEF DoRead, Ready, Op
<1>2. /\ p \in Process /\ Shape /\ FilesOK
  BY RunningFacts
<1>3. CASE r.entry = Nothing
  BY <1>1, <1>3, ThrowAdvances DEF DoRead
<1>4. CASE r.entry # Nothing
  <2> PICK x, a, q : x = r.entry.of /\ a = DoIn("resolve", r.entry.phase) /\ q = <<a>>
    OBVIOUS
  <2> PICK own : own = (proc[p].stage = "transact" /\ x = p)
    OBVIOUS
  <2>1. Repairs(r, p, own, mode, x)
    BY RecoveredRepairs
  <2>2. /\ Steps(r.steps, p, own, mode, x, RepairKinds)
        /\ r.entry.is = "journal" /\ \E n \in Names : r.entry = dir[n]
    BY <1>4, <2>1 DEF Repairs
  <2>3. x \in Process /\ Desired(x) \notin owed /\ ~Fresh(x)
    BY <1>2, <2>2 DEF FilesOK, DirOK, FileOK, FreshOK
  <2>4. Tail(proc[p].todo) = <<>>
    BY <1>1, FinalAlone DEF Finals
  <2> PICK s, t : s = r.steps /\ t = s \o q
    OBVIOUS
  <2>5. a.do = "resolve" /\ Good(a, p, own, mode, x)
    BY DEF DoIn, Good, OpOK
  <2>6. Steps(q, p, own, mode, x, {a.do})
    BY <2>5, OneStep
  <2>7. Compatible(RepairKinds, {a.do})
    BY <2>5 DEF Compatible, RepairKinds, Finals, Ending, HeadOnly, Enders
  <2>8. Steps(s \o q, p, own, mode, x, RepairKinds \cup {a.do})
    BY <2>2, <2>6, <2>7, MoreSteps
  <2> PICK kinds : kinds = RepairKinds \cup {a.do}
    OBVIOUS
  <2>9. Steps(t, p, own, mode, x, kinds) /\ IsSeq(t)
    <3>1. Steps(t, p, own, mode, x, kinds)
      BY <2>8
    <3> QED BY <3>1, StepsSeq
  <2>10. t \o <<>> = t
    BY <2>9, EmptyAfter
  <2>11. proc' = [proc EXCEPT ![p].tx = x, ![p].todo = s \o q \o Tail(@)]
    <3>1. proc' = [proc EXCEPT ![p].tx = Recovered.entry.of,
                               ![p].todo = Recovered.steps \o <<DoIn("resolve", Recovered.entry.phase)>> \o Tail(@)]
      <4>1. Recovered.entry # Nothing
        BY <1>4
      <4> QED BY <4>1, Zenon DEF DoRead
    <3>2. x = Recovered.entry.of /\ s = Recovered.steps /\ q = <<DoIn("resolve", Recovered.entry.phase)>>
      OBVIOUS
    <3> QED BY <3>1, <3>2, Zenon
  <2>12. proc'[p].todo = s \o q \o Tail(proc[p].todo)
    BY <1>2, <2>11 DEF Shape
  <2>13. proc'[p].todo = t
    BY <2>4, <2>10, <2>12
  <2>14. Renewed(p, t, x, mode)
    BY <1>1, <1>2, <2>11, <2>13 DEF Renewed, Turn, Shape, observers
  <2>15. PriorOK(t)
    <3>1. kinds \cap {"body", "quarantine", "cleanup"} = {}
      BY <2>5 DEF RepairKinds
    <3> QED BY <2>9, <3>1, PriorKept
  <2>16. root
    BY <1>1, RunningOp
  <2>17. kinds \cap {"fill", "discard", "transact"} = {}
    BY <2>5 DEF RepairKinds
  <2>18. Whole(p, t, x, mode, kinds)
    BY <2>3, <2>9, <2>15, <2>16, <2>17 DEF Whole
  <2> QED BY <2>14, <2>18, WholeAdvances
<1> QED BY <1>3, <1>4

---------------------------------------------------------------------------
(* Operations that change a file                                           *)

\* The operation is replaced by these steps.
Moving(p, steps, kinds) ==
  /\ Then(p, steps) /\ Steps(steps, p, Own(p), proc[p].mode, proc[p].tx, kinds)
  /\ "transact" \notin kinds /\ StandFor(steps, Op(p)) /\ Op(p).do # "throw"
  /\ StepsPriorOK(steps, Op(p)) /\ HeadOK(steps)'
  /\ owed' = owed /\ committed \subseteq committed' /\ root'

LEMMA MovingTurns ==
  ASSUME NEW p, Running(p), NEW steps, NEW kinds, Moving(p, steps, kinds)
  PROVE  ProgramOK(p)' /\ Turned(p) /\ proc'[p].tx \in Process
<1>1. /\ p \in Process /\ Shape /\ ProgramOK(p) /\ proc[p].todo # <<>>
      /\ proc[p].tx \in Process /\ committed \subseteq Process
  BY RunningFacts
<1>2. Replaced(p, steps)
  BY <1>1, ThenReplaces DEF Moving
<1>3. Turn(p) /\ proc'[p].tx = proc[p].tx
  BY <1>2 DEF Replaced
<1>4. RemovesOK(steps, proc[p].tx)'
  <2> PICK x : x = proc[p].tx
    OBVIOUS
  <2>1. RemovesOK(steps, x)
    BY DEF Moving, Steps
  <2>2. \A f : Removable(f, x) => Removable(f, x)'
    BY <1>1, <1>3, RemovableStays DEF Moving
  <2> QED BY <1>3, <2>1, <2>2 DEF RemovesOK
<1>5. \A i \in 1..Len(steps) : steps[i].do # "transact"
  BY DEF Moving, Steps
<1>6. WellFormed(steps, p, Own(p), proc[p].mode)
  BY DEF Moving, Steps
<1>7. StepsOK(p, steps)
  BY <1>4, <1>5, <1>6 DEF StepsOK, Moving, Op
<1>8. ProgramOK(p)' /\ proc'[p].todo # <<Do("transact")>>
  BY <1>1, <1>2, <1>7, ThenProgram
<1> QED BY <1>1, <1>3, <1>8 DEF Turned

LEMMA MovingAdvances ==
  ASSUME NEW p, Running(p), NEW steps, NEW kinds, Moving(p, steps, kinds), Rearranged
  PROVE  Advances(p)
<1>1. ProgramOK(p)' /\ Turned(p) /\ proc'[p].tx \in Process
  BY MovingTurns
<1>2. FilesOK'
  BY <1>1, RunningFacts, RearrangedFiles
<1> QED BY <1>1, <1>2 DEF Advances, Turned

\* Steps that are done in place of any operation
LEMMA PlainSteps ==
  ASSUME NEW p, NEW own, NEW mode, NEW x, NEW s, NEW kinds, Steps(s, p, own, mode, x, kinds),
         kinds \cap (Finals \cup Enders \cup {"fill", "discard"}) = {}, NEW o
  PROVE  StandFor(s, o) /\ HeadOK(s)'
<1>1. IsSeq(s) /\ \A i \in 1..Len(s) : s[i].do \in kinds
  BY StepsSeq
<1>2. StandFor(s, o)
  BY <1>1, OrdinaryStands
<1>3. s # <<>> => Head(s) = s[1] /\ 1 \in 1..Len(s)
  <2>1. s # <<>> => Head(s) = s[1] /\ Len(s) >= 1
    BY <1>1, Rest
  <2> QED BY <1>1, <2>1 DEF IsSeq
<1>4. HeadOK(s)'
  BY <1>1, <1>3 DEF HeadOK
<1> QED BY <1>2, <1>4

\* A file is given another name.
LEMMA OwedIsThere == ASSUME FilesOK, NEW f \in owed PROVE f # Nothing /\ f.is # "journal" /\ f # Torn
BY DEF FilesOK, OwedOK, Nothing, Torn, File

LEMMA NamesApart ==
  /\ Trash \cap (Slots \cup {"canonical"}) = {}
  /\ {"canonical", "prior", "desired", "displaced"} \cap JournalNames = {}
  /\ JournalNames \subseteq Names
BY FilesAssumption DEF FilesAssumption, JournalNames, Slots, Names

\* A free name is given what another name has, which keeps it or has nothing.
Renamed(n, to, kept) ==
  /\ n \in Names /\ to \in Names /\ n # to /\ dir[to] = Nothing
  /\ dir' = IF kept THEN [dir EXCEPT ![to] = dir[n]] ELSE [dir EXCEPT ![n] = Nothing, ![to] = dir[n]]
  /\ (n \in JournalNames => to \in JournalNames)
  /\ root /\ UNCHANGED <<root, owed, committed>>

LEMMA RenamedFiles ==
  ASSUME FilesOK, NEW n, NEW to, NEW kept, Renamed(n, to, kept) PROVE Rearranged
<1>1. /\ root' /\ owed' = owed /\ committed' = committed /\ DOMAIN dir' = Names
      /\ dir'[to] = dir[n] /\ dir'[n] \in {dir[n], Nothing} /\ n \in Names /\ to \in Names
      /\ \A m \in Names \ {n, to} : dir'[m] = dir[m]
  BY DEF Renamed, FilesOK, DirOK
<1>2. \A m \in Names : dir'[m] = Nothing \/ \E k \in Names : dir'[m] = dir[k]
  BY <1>1
<1>3. \A m \in Names : dir'[m].is = "journal" => m \in JournalNames
  BY <1>1, NothingOK DEF Renamed, FilesOK, DirOK
<1>4. \A f \in owed : (\E m \in Names : dir[m] = f) => \E m \in Names : dir'[m] = f
  <2> SUFFICES ASSUME NEW f \in owed, NEW m \in Names, dir[m] = f PROVE \E k \in Names : dir'[k] = f
    OBVIOUS
  <2>1. m # to
    BY OwedIsThere DEF Renamed
  <2> QED BY <1>1, <2>1
<1> QED BY <1>1, <1>2, <1>3, <1>4 DEF Rearranged

LEMMA MkdirAdvances == ASSUME NEW p, Running(p), DoMkdir(p) PROVE Advances(p)
<1>1. Op(p).do = "mkdir" /\ UNCHANGED <<dir, observers>> /\ FilesOK
  BY RunningFacts DEF DoMkdir, Ready, Op
<1>2. CASE root
  BY <1>1, <1>2, ThrowAdvances DEF DoMkdir
<1>3. CASE ~root
  <2>1. root' /\ Then(p, <<>>) /\ dir' = dir /\ owed' = owed /\ committed' = committed
    BY <1>1, <1>3 DEF DoMkdir, observers
  <2>2. Steps(<<>>, p, Own(p), proc[p].mode, proc[p].tx, {})
    BY NoSteps
  <2>3. StandFor(<<>>, Op(p)) /\ HeadOK(<<>>)'
    BY <2>2, PlainSteps
  <2>4. dir["prior"] = Nothing
    BY <1>1, <1>3 DEF FilesOK, DirOK, RootIsEmpty, Slots
  <2>5. StepsPriorOK(<<>>, Op(p))
    BY <2>1, <2>4 DEF StepsPriorOK
  <2>6. Moving(p, <<>>, {})
    BY <1>1, <2>1, <2>2, <2>3, <2>5 DEF Moving
  <2>7. Rearranged
    BY <1>1, <2>1 DEF Rearranged, FilesOK, DirOK
  <2> QED BY <2>6, <2>7, MovingAdvances
<1> QED BY <1>2, <1>3

LEMMA MoveAdvances == ASSUME NEW p, Running(p), DoMove(p) PROVE Advances(p)
<1> PICK o, n, to, f, own, mode, x : /\ o = Op(p) /\ n = o.name /\ to = o.to /\ f = o.file
                                     /\ own = Own(p) /\ mode = proc[p].mode /\ x = proc[p].tx
  OBVIOUS
<1>1. /\ o.do = "move" /\ UNCHANGED <<root, running, committed, owed>> /\ FilesOK
      /\ root /\ <<n, to>> \in Moves
  <2>1. Op(p).do = "move" /\ UNCHANGED <<root, running, committed, owed>>
    BY DEF DoMove, Ready, Op
  <2> QED BY <2>1, RunningOp, RunningFacts DEF OpOK
<1>2. CASE dir[n] = Nothing \/ dir[to] # Nothing
  <2>1. Throw(p) /\ UNCHANGED <<dir, restorer>>
    BY <1>2 DEF DoMove
  <2> QED BY <1>1, <2>1, ThrowAdvances DEF observers
<1>3. CASE ~(dir[n] = Nothing \/ dir[to] # Nothing)
  <2> PICK a, b, c, s : /\ a = Check(to, f, 2) /\ b = Remove(n, f, 2) /\ c = Check(to, f, 1)
                        /\ s = <<a, b, c>>
    OBVIOUS
  <2>1. dir' = [dir EXCEPT ![to] = dir[n]] /\ Then(p, s)
    BY <1>3 DEF DoMove
  <2>2. /\ n \in Slots /\ to \in Names /\ n \in Names /\ n # to /\ to # "prior"
        /\ (n \in JournalNames => to \in JournalNames)
    BY <1>1, NamesFinite, NamesApart DEF Moves, Slots, JournalNames
  <2>3. a.do = "check" /\ b.do = "remove" /\ c.do = "check" /\ b.name = n /\ b.links = 2 /\ Inner(a) /\ Inner(b)
        /\ c.do \notin HeadOnly
    BY CheckGood, RemoveInner DEF Check, Remove, HeadOnly
  <2>4. Good(b, p, own, mode, x)
    BY <2>2, <2>3 DEF Good, OpOK
  <2>5. Goods({a, b, c}, p, own, mode, x)
    BY <2>4, CheckGood DEF Goods
  <2> PICK kinds : kinds = {a.do, b.do, c.do}
    OBVIOUS
  <2>6. Steps(s, p, own, mode, x, kinds)
    BY <2>3, <2>5, ThreeSteps
  <2>7. kinds \cap (Finals \cup Enders \cup {"fill", "discard"}) = {} /\ "transact" \notin kinds
        /\ kinds \cap {"body", "quarantine", "cleanup"} = {}
    BY <2>3 DEF Finals, Enders
  <2>8. StandFor(s, o) /\ HeadOK(s)'
    BY <2>6, <2>7, PlainSteps
  <2>9. Renamed(n, to, TRUE)
    BY <1>1, <1>3, <2>1, <2>2 DEF Renamed
  <2>10. dir'["prior"] = dir["prior"]
    BY <1>1, <2>1, <2>2 DEF FilesOK, DirOK
  <2>11. StepsPriorOK(s, o)
    <3>1. \A i \in 1..Len(s) : s[i].do \notin {"body", "quarantine", "cleanup"}
      <4>1. \A i \in 1..Len(s) : s[i].do \in kinds
        BY <2>6, StepsSeq
      <4>2. \A k \in kinds : k \notin {"body", "quarantine", "cleanup"}
        BY <2>7
      <4> QED BY <4>1, <4>2
    <3>2. s[2] = b /\ 2 \in 1..Len(s)
      OBVIOUS
    <3>3. Restoring(o) => Restoring(b)
      BY <1>1, <2>3 DEF Restoring
    <3> QED BY <2>10, <3>1, <3>2, <3>3 DEF StepsPriorOK
  <2>12. Moving(p, s, kinds)
    BY <1>1, <2>1, <2>6, <2>7, <2>8, <2>11 DEF Moving
  <2>13. Rearranged
    BY <1>1, <2>9, RenamedFiles
  <2> QED BY <2>12, <2>13, MovingAdvances
<1> QED BY <1>2, <1>3

LEMMA DiscardAdvances == ASSUME NEW p, Running(p), DoDiscard(p) PROVE Advances(p)
<1> PICK n : n = Op(p).name
  OBVIOUS
<1>1. /\ Op(p).do = "discard" /\ UNCHANGED <<root, running, observers>> /\ FilesOK
      /\ dir' = [dir EXCEPT ![n] = Nothing] /\ Then(p, <<>>)
  BY RunningFacts DEF DoDiscard, Ready, Op
<1>2. root /\ n \in Trash /\ n \in Names /\ n # "prior" /\ "prior" \in Names
  BY <1>1, RunningOp, NamesFinite, NamesApart DEF OpOK, Slots
<1>3. Dropped(n)
  <2>1. HeadOK(proc[p].todo) /\ proc[p].todo # <<>>
    BY RunningFacts DEF ProgramOK
  <2> QED BY <1>1, <2>1 DEF HeadOK, Op
<1>4. /\ owed' = owed /\ committed' = committed /\ root' /\ DOMAIN dir' = Names /\ dir'[n] = Nothing
      /\ \A m \in Names \ {n} : dir'[m] = dir[m]
  BY <1>1, <1>2 DEF observers, FilesOK, DirOK
<1>5. Rearranged
  <2>1. \A f \in owed : (\E m \in Names : dir[m] = f) => Expected(f) \/ \E m \in Names : dir'[m] = f
    BY <1>3, <1>4 DEF Dropped
  <2>2. \A m \in Names : dir'[m].is = "journal" => m \in JournalNames
    BY <1>1, <1>4, NothingOK DEF FilesOK, DirOK
  <2> QED BY <1>4, <2>1, <2>2 DEF Rearranged
<1>6. Steps(<<>>, p, Own(p), proc[p].mode, proc[p].tx, {})
  BY NoSteps
<1>7. StandFor(<<>>, Op(p)) /\ HeadOK(<<>>)'
  BY <1>6, PlainSteps
<1>8. StepsPriorOK(<<>>, Op(p))
  BY <1>1, <1>2, <1>4, Seq0 DEF StepsPriorOK, Restoring
<1>9. Moving(p, <<>>, {})
  BY <1>1, <1>4, <1>6, <1>7, <1>8 DEF Moving
<1> QED BY <1>5, <1>9, MovingAdvances

\* What was prepared is discarded, and the reason thrown.
LEMMA DiscardThrow ==
  ASSUME NEW p, NEW own, NEW x
  PROVE  /\ Steps(<<Do("discardAll"), Do("throw")>>, p, own, "forward", x, {"discardAll", "throw"})
         /\ \A o : o.do \in Enders => StandFor(<<Do("discardAll"), Do("throw")>>, o)
<1> PICK a, b, s : a = Do("discardAll") /\ b = Do("throw") /\ s = <<a, b>>
  OBVIOUS
<1>1. IsSeq(s) /\ Len(s) = 2 /\ s[1] = a /\ s[2] = b /\ a.do = "discardAll" /\ b.do = "throw" /\ s # <<>>
  BY DEF IsSeq, Do
<1>2. \A i \in 1..Len(s) : OpOK(s[i], p, own, "forward")
  BY <1>1 DEF OpOK
<1>3. \A i, j \in 1..Len(s) : i < j => Follows(s[i], s[j])
  BY <1>1 DEF Follows, Finals, HeadOnly, Enders, Changing
<1>4. \A i \in 1..(Len(s) - 1) : s[i].do \in Ending => s[i + 1].do = "throw" /\ "forward" = "forward"
  BY <1>1
<1>5. WellFormed(s, p, own, "forward")
  BY <1>1, <1>2, <1>3, <1>4 DEF WellFormed
<1>6. Steps(s, p, own, "forward", x, {"discardAll", "throw"})
  BY <1>1, <1>5 DEF Steps, RemovesOK
<1>7. \A o : o.do \in Enders => StandFor(s, o)
  BY <1>1 DEF StandFor, Finals, Ending
<1> QED BY <1>6, <1>7

LEMMA PublishAdvances == ASSUME NEW p, Running(p), DoPublish(p) PROVE Advances(p)
<1> PICK o, own, mode, x, f : /\ o = Op(p) /\ own = Own(p) /\ mode = proc[p].mode /\ x = proc[p].tx
                              /\ f = Desired(p)
  OBVIOUS
<1>1. /\ o.do = "publish" /\ UNCHANGED <<root, running, observers>> /\ FilesOK
      /\ root /\ own /\ mode = "forward"
  <2>1. Op(p).do = "publish" /\ UNCHANGED <<root, running, observers>>
    BY DEF DoPublish, Ready, Op
  <2> QED BY <2>1, RunningOp, RunningFacts DEF OpOK
<1>2. ~Restoring(o) /\ o.do \in Enders /\ o.do # "throw"
  BY <1>1 DEF Restoring, Enders
<1>3. CASE Throw(p) /\ UNCHANGED dir
  BY <1>1, <1>3, ThrowAdvances
<1>4. CASE Then(p, <<Do("discardAll"), Do("throw")>>) /\ UNCHANGED dir
  <2> PICK s, kinds : s = <<Do("discardAll"), Do("throw")>> /\ kinds = {"discardAll", "throw"}
    OBVIOUS
  <2>1. Steps(s, p, own, mode, x, kinds) /\ StandFor(s, o)
    BY <1>1, <1>2, DiscardThrow
  <2>2. PriorStays(s, o)
    BY <1>2, <2>1, PriorUntouched
  <2>3. Quiet(p, s, kinds)
    BY <1>1, <1>2, <2>1, <2>2 DEF Quiet
  <2> QED BY <1>1, <1>4, <2>3, QuietAdvances
<1>5. CASE dir["canonical"] = Nothing
  <2> PICK a, b, c, d, e : /\ a = Check("canonical", f, 2) /\ b = Update(FirstPhase(p), "desired-linked")
                           /\ c = Remove("desired", f, 2) /\ d = Check("canonical", f, 1)
                           /\ e = Update("desired-linked", "desired-published")
    OBVIOUS
  <2> PICK s, kinds : s = <<a, b, c, d, e>> /\ kinds = {a.do, b.do, c.do, d.do, e.do}
    OBVIOUS
  <2>1. dir' = [dir EXCEPT !["canonical"] = dir["desired"]] /\ Then(p, s)
    BY <1>5 DEF DoPublish
  <2>2. /\ a.do = "check" /\ b.do = "update" /\ c.do = "remove" /\ d.do = "check" /\ e.do = "update"
        /\ c.name = "desired" /\ c.links = 2
    BY DEF Check, Update, Remove
  <2>3. Good(b, p, own, mode, x) /\ Good(e, p, own, mode, x) /\ Good(c, p, own, mode, x)
    BY <1>1, <2>2 DEF Good, OpOK, Slots
  <2>4. Goods({a, b, c, d, e}, p, own, mode, x)
    BY <2>3, CheckGood DEF Goods
  <2>5. Steps(s, p, own, mode, x, kinds)
    BY <2>2, <2>4, FiveSteps DEF Inner, Finals, HeadOnly, Enders
  <2>6. kinds \cap (Finals \cup Enders \cup {"fill", "discard"}) = {} /\ "transact" \notin kinds
        /\ \A k \in kinds : k \notin {"body", "quarantine", "cleanup"}
    BY <2>2 DEF Finals, Enders
  <2>7. StandFor(s, o) /\ HeadOK(s)'
    BY <2>5, <2>6, PlainSteps
  <2>8. /\ "desired" \in Names /\ "canonical" \in Names /\ "prior" \in Names /\ "desired" \notin JournalNames
    BY NamesFinite, NamesApart DEF Slots
  <2>9. Renamed("desired", "canonical", TRUE)
    BY <1>1, <1>5, <2>1, <2>8 DEF Renamed, observers
  <2>10. dir'["prior"] = dir["prior"]
    BY <1>1, <2>1, <2>8 DEF FilesOK, DirOK
  <2>11. StepsPriorOK(s, o)
    <3>1. \A i \in 1..Len(s) : s[i].do \in kinds
      BY <2>5, StepsSeq
    <3>2. \A i \in 1..Len(s) : s[i].do \notin {"body", "quarantine", "cleanup"}
      BY <2>6, <3>1
    <3> QED BY <1>2, <2>10, <3>2 DEF StepsPriorOK
  <2>12. Moving(p, s, kinds)
    BY <1>1, <1>2, <2>1, <2>5, <2>6, <2>7, <2>11 DEF Moving, observers
  <2>13. Rearranged
    BY <1>1, <2>9, RenamedFiles
  <2> QED BY <2>12, <2>13, MovingAdvances
<1> QED BY <1>3, <1>4, <1>5 DEF DoPublish

LEMMA QuarantineAdvances == ASSUME NEW p, Running(p), DoQuarantine(p) PROVE Advances(p)
<1> PICK o, own, mode, x, f : /\ o = Op(p) /\ own = Own(p) /\ mode = proc[p].mode /\ x = proc[p].tx
                              /\ f = dir["canonical"]
  OBVIOUS
<1>1. /\ o.do = "quarantine" /\ UNCHANGED <<root, running, observers>> /\ FilesOK
      /\ root /\ own /\ mode = "forward"
  <2>1. Op(p).do = "quarantine" /\ UNCHANGED <<root, running, observers>>
    BY DEF DoQuarantine, Ready, Op
  <2> QED BY <2>1, RunningOp, RunningFacts DEF OpOK
<1>2. ~Restoring(o) /\ o.do \in Enders /\ o.do # "throw"
  BY <1>1 DEF Restoring, Enders
<1>3. CASE f = Nothing
  BY <1>1, <1>3, ThrowAdvances DEF DoQuarantine
<1>4. CASE f # Nothing
  <2>1. dir["prior"] = Nothing
    <3>1. o = proc[p].todo[1] /\ 1 \in 1..Len(proc[p].todo) /\ ProgramOK(p)
      BY RunningOp, RunningFacts
    <3> QED BY <1>1, <3>1 DEF ProgramOK, PriorOK
  <2>2. dir' = [dir EXCEPT !["canonical"] = Nothing, !["prior"] = f]
    BY <1>4 DEF DoQuarantine
  <2>3. /\ "prior" \in Names /\ "canonical" \in Names /\ "canonical" \notin JournalNames
    BY NamesFinite, NamesApart DEF Slots
  <2>4. Renamed("canonical", "prior", FALSE)
    BY <1>1, <2>1, <2>2, <2>3 DEF Renamed, observers
  <2>5. Rearranged
    BY <1>1, <2>4, RenamedFiles
  <2>6. ASSUME NEW s, NEW kinds, Then(p, s), Steps(s, p, own, mode, x, kinds), StandFor(s, o),
               kinds \cap {"fill", "discard", "transact", "body", "quarantine", "cleanup"} = {}
        PROVE  Advances(p)
    <3>1. IsSeq(s) /\ \A i \in 1..Len(s) : s[i].do \in kinds
      BY <2>6, StepsSeq
    <3>2. \A i \in 1..Len(s) : s[i].do \notin {"fill", "discard", "transact", "body", "quarantine", "cleanup"}
      BY <2>6, <3>1
    <3>3. StepsPriorOK(s, o)
      BY <1>2, <3>2 DEF StepsPriorOK
    <3>4. s # <<>> => Head(s) = s[1] /\ 1 \in 1..Len(s)
      <4>1. s # <<>> => Head(s) = s[1] /\ Len(s) >= 1
        BY <3>1, Rest
      <4> QED BY <3>1, <4>1 DEF IsSeq
    <3>5. HeadOK(s)'
      BY <3>2, <3>4 DEF HeadOK
    <3>6. Moving(p, s, kinds)
      BY <1>1, <1>2, <2>6, <3>3, <3>5 DEF Moving, observers
    <3> QED BY <2>5, <3>6, MovingAdvances
  <2>7. CASE Then(p, <<Update("prepared", "prior-quarantined")>>)
    <3> PICK a, s, kinds : a = Update("prepared", "prior-quarantined") /\ s = <<a>> /\ kinds = {a.do}
      OBVIOUS
    <3>1. a.do = "update"
      BY DEF Update
    <3>2. Good(a, p, own, mode, x)
      BY <1>1, <3>1 DEF Good, OpOK
    <3>3. Steps(s, p, own, mode, x, kinds)
      BY <3>2, OneStep
    <3>4. kinds \cap (Finals \cup Enders \cup {"fill", "discard"}) = {}
      BY <3>1 DEF Finals, Enders
    <3>5. StandFor(s, o)
      BY <3>3, <3>4, PlainSteps
    <3> QED BY <2>6, <2>7, <3>1, <3>3, <3>5
  <2>8. CASE Then(p, <<Move("prior", "canonical", f), Do("discardAll"), Do("throw")>>)
    <3> PICK a, b, c, r, q, s : /\ a = Move("prior", "canonical", f) /\ b = Do("discardAll") /\ c = Do("throw")
                                /\ r = <<a>> /\ q = <<b, c>> /\ s = <<a, b, c>>
      OBVIOUS
    <3>1. a.do = "move" /\ Good(a, p, own, mode, x)
      BY MoveGood DEF Moves, Move
    <3>2. Steps(r, p, own, mode, x, {a.do})
      BY <3>1, OneStep
    <3>3. Steps(q, p, own, mode, x, {"discardAll", "throw"}) /\ StandFor(q, o)
      BY <1>1, <1>2, DiscardThrow
    <3>4. Compatible({a.do}, {"discardAll", "throw"})
      BY <3>1 DEF Compatible, Finals, Ending, HeadOnly, Enders
    <3>5. Steps(r \o q, p, own, mode, x, {a.do} \cup {"discardAll", "throw"})
      BY <3>2, <3>3, <3>4, MoreSteps
    <3>6. r \o q = s
      BY OneAndTwo
    <3>7. Steps(s, p, own, mode, x, {a.do} \cup {"discardAll", "throw"})
      BY <3>5, <3>6
    <3>8. StandFor(s, o)
      <4>1. s[Len(s)] = c /\ \A i \in 1..Len(s) : s[i] \in {a, b, c}
        OBVIOUS
      <4>2. b.do = "discardAll" /\ c.do = "throw"
        BY DEF Do
      <4> QED BY <1>2, <3>1, <4>1, <4>2 DEF StandFor, Finals, Ending
    <3> QED BY <2>6, <2>8, <3>1, <3>7, <3>8
  <2>9. \/ Then(p, <<Update("prepared", "prior-quarantined")>>)
        \/ Then(p, <<Move("prior", "canonical", f), Do("discardAll"), Do("throw")>>)
    BY <1>4 DEF DoQuarantine
  <2> QED BY <2>7, <2>8, <2>9
<1> QED BY <1>3, <1>4

LEMMA DisplaceAdvances == ASSUME NEW p, Running(p), DoDisplace(p) PROVE Advances(p)
<1> PICK o, own, mode, x, f : /\ o = Op(p) /\ own = Own(p) /\ mode = proc[p].mode /\ x = proc[p].tx
                              /\ f = dir["canonical"]
  OBVIOUS
<1>1. /\ o.do = "displace" /\ UNCHANGED <<root, running, observers>> /\ FilesOK /\ root
  <2>1. Op(p).do = "displace" /\ UNCHANGED <<root, running, observers>>
    BY DEF DoDisplace, Ready, Op
  <2> QED BY <2>1, RunningOp, RunningFacts
<1>2. CASE (Throw(p) \/ Then(p, <<>>)) /\ UNCHANGED dir
  BY <1>2, DisplaceKeeps
<1>3. CASE /\ dir["displaced"] = Nothing /\ dir' = [dir EXCEPT !["canonical"] = Nothing, !["displaced"] = f]
           /\ Then(p, <<>>) \/ Then(p, <<Move("displaced", "canonical", f), Do("throw")>>)
  <2>1. /\ "prior" \in Names /\ "canonical" \in Names /\ "displaced" \in Names /\ "canonical" \notin JournalNames
    BY NamesFinite, NamesApart DEF Slots
  <2>2. Renamed("canonical", "displaced", FALSE)
    BY <1>1, <1>3, <2>1 DEF Renamed, observers
  <2>3. Rearranged
    BY <1>1, <2>2, RenamedFiles
  <2>4. dir'["prior"] = dir["prior"]
    BY <1>1, <1>3, <2>1 DEF FilesOK, DirOK
  <2>5. ASSUME NEW s, NEW kinds, Then(p, s), Steps(s, p, own, mode, x, kinds), kinds \subseteq {"move", "throw"}
        PROVE  Advances(p)
    <3>1. StandFor(s, o) /\ HeadOK(s)'
      BY <2>5, PlainSteps DEF Finals, Enders
    <3>2. \A i \in 1..Len(s) : s[i].do \in kinds
      BY <2>5, StepsSeq
    <3>3. \A k \in kinds : k \notin {"body", "quarantine", "cleanup"}
      BY <2>5
    <3>4. \A i \in 1..Len(s) : s[i].do \notin {"body", "quarantine", "cleanup"}
      BY <3>2, <3>3
    <3>5. ~Restoring(o)
      BY <1>1 DEF Restoring
    <3>6. StepsPriorOK(s, o)
      BY <2>4, <3>4, <3>5 DEF StepsPriorOK
    <3>7. Moving(p, s, kinds)
      BY <1>1, <2>5, <3>1, <3>6 DEF Moving, observers
    <3> QED BY <2>3, <3>7, MovingAdvances
  <2>6. CASE Then(p, <<>>)
    <3>1. Steps(<<>>, p, own, mode, x, {})
      BY NoSteps
    <3> QED BY <2>5, <2>6, <3>1
  <2>7. CASE Then(p, <<Move("displaced", "canonical", f), Do("throw")>>)
    <3> PICK a, b, s : a = Move("displaced", "canonical", f) /\ b = Do("throw") /\ s = <<a, b>>
      OBVIOUS
    <3>1. a.do = "move" /\ Good(a, p, own, mode, x) /\ b.do = "throw"
      BY MoveGood DEF Moves, Move, Do
    <3>2. Good(b, p, own, mode, x)
      BY <3>1 DEF Good, OpOK
    <3>3. Goods({a, b}, p, own, mode, x)
      BY <3>1, <3>2 DEF Goods
    <3>4. Steps(s, p, own, mode, x, {a.do, b.do})
      BY <3>1, <3>3, TwoSteps DEF Inner, Finals, HeadOnly, Enders
    <3> QED BY <2>5, <2>7, <3>1, <3>4
  <2> QED BY <1>3, <2>6, <2>7
<1>4. \/ (Throw(p) \/ Then(p, <<>>)) /\ UNCHANGED dir
      \/ /\ dir["displaced"] = Nothing /\ dir' = [dir EXCEPT !["canonical"] = Nothing, !["displaced"] = f]
         /\ Then(p, <<>>) \/ Then(p, <<Move("displaced", "canonical", f), Do("throw")>>)
  BY DEF DoDisplace
<1> QED BY <1>2, <1>3, <1>4

LEMMA CreateAdvances == ASSUME NEW p, Running(p), DoCreate(p) PROVE Advances(p)
<1> PICK o, n, f, own, mode, x : /\ o = Op(p) /\ n = o.name /\ f = o.file
                                 /\ own = Own(p) /\ mode = proc[p].mode /\ x = proc[p].tx
  OBVIOUS
<1>1. /\ o.do = "create" /\ UNCHANGED <<root, running, observers>> /\ FilesOK /\ root
      /\ own /\ Written(n, f, p)
  <2>1. Op(p).do = "create" /\ UNCHANGED <<root, running, observers>>
    BY DEF DoCreate, Ready, Op
  <2> QED BY <2>1, RunningOp, RunningFacts DEF OpOK
<1>2. CASE dir[n] # Nothing
  BY <1>1, <1>2, ThrowAdvances DEF DoCreate
<1>3. CASE dir[n] = Nothing
  <2> PICK a, s : a = [do |-> "fill", name |-> n, file |-> f] /\ s = <<a>>
    OBVIOUS
  <2>1. dir' = [dir EXCEPT ![n] = Torn] /\ Then(p, s)
    BY <1>3 DEF DoCreate
  <2>2. n \in Names /\ n # "prior" /\ "prior" \in Names
    BY <1>1, NamesFinite DEF Written, Slots
  <2>3. a.do = "fill" /\ a.name = n /\ a.file = f
    OBVIOUS
  <2>4. Good(a, p, own, mode, x)
    BY <1>1, <2>3 DEF Good, OpOK
  <2>5. Steps(s, p, own, mode, x, {a.do})
    BY <2>4, OneStep
  <2>6. IsSeq(s) /\ Len(s) = 1 /\ s[1] = a /\ Head(s) = a
    <3>1. IsSeq(s) /\ Len(s) = 1 /\ s[1] = a
      BY Seq1
    <3> QED BY <3>1
  <2>7. StandFor(s, o)
    BY <2>3, <2>6 DEF StandFor, Finals, Enders, Ending
  <2>8. dir'["prior"] = dir["prior"] /\ dir'[n] = Torn
    BY <1>1, <2>1, <2>2 DEF FilesOK, DirOK
  <2>9. StepsPriorOK(s, o)
    BY <1>1, <2>3, <2>6, <2>8 DEF StepsPriorOK, Restoring
  <2>10. HeadOK(s)'
    BY <2>3, <2>6, <2>8 DEF HeadOK, Torn, File
  <2>11. Moving(p, s, {a.do})
    BY <1>1, <2>1, <2>3, <2>5, <2>7, <2>9, <2>10 DEF Moving, observers
  <2>12. ProgramOK(p)' /\ Turned(p) /\ proc'[p].tx \in Process
    BY <2>11, MovingTurns
  <2>13. FilesOK'
    BY <1>1, <1>3, <2>1, <2>2, <2>12, CreatedFiles DEF observers
  <2> QED BY <2>12, <2>13 DEF Advances, Turned
<1> QED BY <1>2, <1>3

LEMMA FillAdvances == ASSUME NEW p, Running(p), DoFill(p) PROVE Advances(p)
<1> PICK o, n, f, s : o = Op(p) /\ n = o.name /\ f = o.file /\ s = proc[p].todo
  OBVIOUS
<1>1. /\ o.do = "fill" /\ FilesOK /\ UNCHANGED <<root, running, restorer, owed>>
      /\ dir' = [dir EXCEPT ![n] = f] /\ Then(p, <<>>)
      /\ committed' = IF f.phase = "committed" THEN committed \cup {f.of} ELSE committed
  BY RunningFacts DEF DoFill, Ready, Op
<1>2. root /\ Own(p) /\ Written(n, f, p) /\ proc[p].tx = p /\ Desired(p) \notin owed
  BY <1>1, RunningOp DEF OpOK, Own
<1>3. n \in Names /\ n # "prior" /\ "prior" \in Names
  BY <1>2, NamesFinite DEF Written, Slots
<1>4. dir[n] = Torn
  <2>1. HeadOK(s) /\ s # <<>>
    BY RunningFacts DEF ProgramOK
  <2> QED BY <1>1, <2>1 DEF HeadOK, Op
<1>5. ~Fresh(p)
  <2>1. s # <<Do("transact")>>
    <3>1. Head(<<Do("transact")>>).do = "transact"
      BY DEF Do
    <3> QED BY <1>1, <3>1 DEF Op
  <2> QED BY <1>2, <2>1 DEF Fresh, Own
<1>6. Filled(n, f, p)
  BY <1>1, <1>2, <1>3, <1>4, <1>5 DEF Filled
<1>7. Steps(<<>>, p, Own(p), proc[p].mode, proc[p].tx, {})
  BY NoSteps
<1>8. StandFor(<<>>, o) /\ HeadOK(<<>>)'
  BY <1>7, PlainSteps
<1>9. dir'["prior"] = dir["prior"]
  BY <1>1, <1>3 DEF FilesOK, DirOK
<1>10. StepsPriorOK(<<>>, o)
  BY <1>1, <1>9, Seq0 DEF StepsPriorOK, Restoring
<1>11. Moving(p, <<>>, {})
  BY <1>1, <1>2, <1>7, <1>8, <1>10 DEF Moving
<1>12. ProgramOK(p)' /\ Turned(p) /\ proc'[p].tx \in Process
  BY <1>11, MovingTurns
<1>13. FilesOK'
  BY <1>1, <1>6, <1>12, FilledFiles
<1> QED BY <1>12, <1>13 DEF Advances, Turned

LEMMA RemoveAdvances == ASSUME NEW p, Running(p), DoRemove(p) PROVE Advances(p)
<1> PICK o, n, f, own, mode, x, t : /\ o = Op(p) /\ n = o.name /\ f = o.file
                                    /\ own = Own(p) /\ mode = proc[p].mode /\ x = proc[p].tx
                                    /\ t = CHOOSE k \in Trash : dir[k] = Nothing
  OBVIOUS
<1>1. /\ o.do = "remove" /\ UNCHANGED <<root, running, observers>> /\ FilesOK /\ root
      /\ n \in Slots /\ (o.links >= 2 \/ Removable(f, x))
  <2>1. Op(p).do = "remove" /\ UNCHANGED <<root, running, observers>>
    BY DEF DoRemove, Ready, Op
  <2> QED BY <2>1, RunningOp, RunningFacts DEF OpOK
<1>2. t \in Trash /\ dir[t] = Nothing
  <2>1. \E k \in Trash : dir[k] = Nothing
    BY DEF DoRemove, InTrash
  <2> QED BY <2>1
<1>3. CASE dir[n] # f \/ Links(f) # o.links
  <2>1. Throw(p) /\ UNCHANGED dir
    BY <1>3 DEF DoRemove
  <2> QED BY <1>1, <2>1, ThrowAdvances
<1>4. CASE dir[n] = f /\ Links(f) = o.links
  <2> PICK a, s : a = [do |-> "discard", name |-> t] /\ s = <<a>>
    OBVIOUS
  <2>1. dir' = [dir EXCEPT ![n] = Nothing, ![t] = f] /\ Then(p, s)
    BY <1>4 DEF DoRemove
  <2>2. /\ n \in Names /\ t \in Names /\ n # t /\ "prior" \in Names /\ t # "prior"
        /\ t \in JournalNames
    BY <1>1, <1>2, NamesFinite, NamesApart DEF Slots, JournalNames
  <2>3. a.do = "discard" /\ a.name = t
    OBVIOUS
  <2>4. Good(a, p, own, mode, x)
    BY <1>2, <2>3 DEF Good, OpOK
  <2>5. Steps(s, p, own, mode, x, {a.do})
    BY <2>4, OneStep
  <2>6. IsSeq(s) /\ Len(s) = 1 /\ s[1] = a /\ Head(s) = a
    <3>1. IsSeq(s) /\ Len(s) = 1 /\ s[1] = a
      BY Seq1
    <3> QED BY <3>1
  <2>7. StandFor(s, o)
    BY <2>3, <2>6 DEF StandFor, Finals, Enders, Ending
  <2>8. /\ dir'[n] = Nothing /\ dir'[t] = f /\ \A m \in Names \ {n, t} : dir'[m] = dir[m]
        /\ owed' = owed /\ committed' = committed
    BY <1>1, <2>1, <2>2 DEF FilesOK, DirOK, observers
  <2>9. StepsPriorOK(s, o)
    <3>1. CASE n = "prior"
      BY <2>8, <3>1 DEF StepsPriorOK
    <3>2. CASE n # "prior"
      <4>1. dir'["prior"] = dir["prior"]
        BY <2>2, <2>8, <3>2
      <4> QED BY <1>1, <2>3, <2>6, <3>2, <4>1 DEF StepsPriorOK, Restoring
    <3> QED BY <3>1, <3>2
  <2>10. Renamed(n, t, FALSE)
    BY <1>1, <1>2, <1>4, <2>1, <2>2 DEF Renamed, observers
  <2>11. Rearranged
    BY <1>1, <2>10, RenamedFiles
  <2>12. Replaced(p, s)
    BY <2>1, RunningFacts, ThenReplaces
  <2>13. HeadOK(s)'
    <3>0. ASSUME f \in owed => (\E c \in committed : proc'[c].plan.file = f) \/ \E m \in Names \ {t} : dir'[m] = f
          PROVE  HeadOK(s)'
      <4>1. dir'[t] \in owed' => (\E c \in committed' : proc'[c].plan.file = dir'[t])
                                  \/ \E m \in Names \ {t} : dir'[m] = dir'[t]
        BY <2>8, <3>0
      <4>2. Dropped(t)'
        BY <4>1 DEF Dropped, Expected
      <4>3. s # <<>> => Head(s).name = t /\ Head(s).do # "fill"
        BY <2>3, <2>6
      <4> QED BY <4>2, <4>3 DEF HeadOK, Dropped, Expected
    <3>1. SUFFICES ASSUME f \in owed
                   PROVE  (\E c \in committed : proc'[c].plan.file = f) \/ \E m \in Names \ {t} : dir'[m] = f
      BY <3>0
    <3>2. CASE o.links >= 2
      <4>1. PICK m \in Names \ {n} : dir[m] = f
        BY <1>4, <2>2, <3>2, OtherName
      <4>2. m # t
        BY <1>1, <1>2, <3>1, <4>1, OwedIsThere
      <4> QED BY <2>8, <4>1, <4>2
    <3>3. CASE Removable(f, x)
      <4>1. Expected(f)
        BY <1>1, <3>1, <3>3, OwedIsThere DEF Removable
      <4>2. \A c \in Process : proc'[c].plan = proc[c].plan
        BY <2>12 DEF Replaced, Turn
      <4> QED BY <2>8, <4>1, <4>2, RunningFacts DEF Expected
    <3> QED BY <1>1, <3>2, <3>3
  <2>14. Moving(p, s, {a.do})
    BY <1>1, <2>1, <2>3, <2>5, <2>7, <2>8, <2>9, <2>13 DEF Moving
  <2> QED BY <2>11, <2>14, MovingAdvances
<1> QED BY <1>3, <1>4

\* When the directory goes, its files have gone, and what is installed stays.
LEMMA GoneFiles ==
  ASSUME FilesOK, NEW p, Turned(p), RootIsEmpty, ~root', UNCHANGED <<dir, committed>>, NEW x \in Process,
         owed' = IF dir["canonical"] = Desired(x) THEN owed \cup {dir["canonical"]} ELSE owed
  PROVE  FilesOK'
<1>1. dir' = dir /\ committed' = committed /\ "canonical" \in Names /\ owed \subseteq owed'
      /\ \A f \in owed' : f \in owed \/ (f = dir["canonical"] /\ f = Desired(x))
  BY NamesFinite
<1>2. \A n \in Names : dir[n].is # "journal"
  <2>1. \A n \in Slots \cup Trash : dir[n].is = "nothing"
    BY DEF RootIsEmpty, Nothing, File
  <2>2. dir["canonical"].is # "journal"
    BY NamesApart, NamesFinite DEF FilesOK, DirOK
  <2> QED BY <2>1, <2>2 DEF Names
<1>3. DirOK'
  BY <1>1, <1>2 DEF FilesOK, DirOK, FileOK, RootIsEmpty, Nothing, File
<1>4. OwedOK'
  BY <1>1 DEF FilesOK, OwedOK, Desired, File
<1>5. FreshOK'
  <2>1. ASSUME NEW y \in Process, Fresh(y) PROVE Desired(y) \notin owed'
    <3>1. dir["canonical"].of # y /\ Desired(y) \notin owed
      BY <1>1, <2>1 DEF FilesOK, FreshOK
    <3> QED BY <1>1, <3>1 DEF Desired, File
  <2> QED BY <1>1, <2>1, FreshBefore DEF FilesOK, FreshOK, Desired, File
<1>6. NothingIsLost'
  <2>1. \A f \in owed' : Expected(f) \/ \E n \in Names : dir'[n] = f
    BY <1>1 DEF FilesOK, NothingIsLost, Expected
  <2>2. \A f : Expected(f) => Expected(f)'
    BY <1>1, ExpectedStays DEF FilesOK
  <2> QED BY <2>1, <2>2 DEF NothingIsLost, Expected
<1> QED BY <1>3, <1>4, <1>5, <1>6 DEF FilesOK

LEMMA RmdirAdvances == ASSUME NEW p, Running(p), DoRmdir(p) PROVE Advances(p)
<1> PICK x, mode, s : x = proc[p].tx /\ mode = proc[p].mode /\ s = proc[p].todo
  OBVIOUS
<1>1. /\ Op(p).do = "rmdir" /\ UNCHANGED <<dir, running, committed>> /\ FilesOK /\ Shape /\ p \in Process
      /\ s # <<>> /\ ProgramOK(p) /\ x \in Process
  BY RunningFacts DEF DoRmdir, Ready, Op
<1>2. CASE ~RootIsEmpty
  <2>1. Throw(p) /\ UNCHANGED <<root, restorer, owed>>
    BY <1>2 DEF DoRmdir
  <2> QED BY <1>1, <2>1, ThrowAdvances DEF observers
<1>3. CASE RootIsEmpty
  <2> PICK t, own : t = Tail(s) /\ own = Own(p)
    OBVIOUS
  <2>1. /\ root' = FALSE /\ Then(p, <<>>)
        /\ owed' = IF dir["canonical"] = Desired(x) THEN owed \cup {dir["canonical"]} ELSE owed
    BY <1>3 DEF DoRmdir
  <2>2. Replaced(p, <<>>)
    BY <1>1, <2>1, ThenReplaces
  <2>3. WellFormed(s, p, own, mode) /\ (x = p \/ ~Fresh(x))
    BY <1>1 DEF ProgramOK
  <2>4. RestOK(s, p, own, mode)
    BY <1>1, <2>3, RestWellFormed
  <2>5. /\ WellFormed(t, p, own, mode) /\ IsSeq(t)
        /\ \A j \in 1..Len(t) : Follows(Head(s), t[j])
        /\ t # <<>> /\ Head(s).do \in Ending => t[1].do = "throw" /\ mode = "forward"
    BY <2>4 DEF RestOK, WellFormed
  <2>6. Head(s).do = "rmdir"
    BY <1>1 DEF Op
  <2>7. \A j \in 1..Len(t) : t[j].do \notin HeadOnly \cup Changing
    BY <2>5, <2>6 DEF Follows, Enders
  <2>8. t # <<>> => Head(t) = t[1] /\ 1 \in 1..Len(t)
    <3>1. t # <<>> => Head(t) = t[1] /\ Len(t) >= 1
      BY <2>5, Rest
    <3> QED BY <2>5, <3>1 DEF IsSeq
  <2>9. Resting(t, mode)
    BY <2>5, <2>6, <2>8 DEF Resting, Ending
  <2>10. <<>> \o t = t
    <3>1. t \in Seq({t[i] : i \in 1..Len(t)})
      BY <2>5, SeqTyped
    <3> QED BY <3>1, ConcatEmptySeq
  <2>11. proc'[p].todo = t /\ proc'[p].mode = mode /\ proc'[p].tx = x /\ Turn(p) /\ Own(p)' = own
    BY <2>2, <2>10 DEF Replaced, Turn, Own
  <2>12. t # <<Do("transact")>>
    <3> SUFFICES ASSUME t = <<Do("transact")>> PROVE FALSE
      OBVIOUS
    <3>1. t[1] = Do("transact") /\ 1 \in 1..Len(t)
      <4>1. Len(t) = 1 /\ t[1] = Do("transact")
        BY Seq1
      <4> QED BY <4>1
    <3>2. Do("transact").do = "transact"
      BY DEF Do
    <3>3. t[1].do = "transact"
      BY <3>1, <3>2
    <3> QED BY <2>7, <3>1, <3>3 DEF HeadOnly
  <2>13. Turned(p)
    BY <1>1, <2>11, <2>12 DEF Turned
  <2>14. FilesOK'
    BY <1>1, <1>3, <2>1, <2>13, GoneFiles
  <2>15. RemovesOK(t, x)' /\ PriorOK(t)' /\ HeadOK(t)'
    <3>1. dir'["prior"] = Nothing
      BY <1>1, <1>3 DEF RootIsEmpty, Slots
    <3>2. RemovesOK(t, x)'
      BY <2>7 DEF RemovesOK, Changing
    <3>3. PriorOK(t)'
      BY <3>1 DEF PriorOK, Nothing, File
    <3>4. HeadOK(t)'
      BY <2>7, <2>8 DEF HeadOK, HeadOnly
    <3> QED BY <3>2, <3>3, <3>4
  <2>16. EndOK(t, mode, x)'
    BY <2>1, <2>9 DEF EndOK, Resting
  <2>17. x = p \/ ~Fresh(x)'
    BY <1>1, <2>3, <2>13, FreshBefore
  <2>18. ProgramOK(p)'
    BY <2>5, <2>11, <2>15, <2>16, <2>17 DEF ProgramOK
  <2> QED BY <1>1, <2>11, <2>14, <2>18 DEF Advances
<1> QED BY <1>2, <1>3

LEMMA PerformAdvances == ASSUME NEW p, Running(p), Perform(p) PROVE Advances(p)
<1>1. CASE Primitive(p)
  BY <1>1, MkdirAdvances, RmdirAdvances, CreateAdvances, FillAdvances, MoveAdvances, CheckAdvances, RemoveAdvances,
     DiscardAdvances, DoThrowAdvances, LaunchdAdvances DEF Primitive
<1>2. CASE DoUpdate(p) \/ DoRead(p) \/ DoTransact(p) \/ DoBody(p) \/ DoQuarantine(p) \/ DoPublish(p) \/ DoFinish(p)
  BY <1>2, UpdateAdvances, ReadAdvances, TransactAdvances, BodyAdvances, QuarantineAdvances, PublishAdvances,
     FinishAdvances
<1>3. CASE DoRollback(p) \/ DoDisplace(p) \/ DoRestore(p) \/ DoCleanup(p) \/ DoDiscardAll(p)
  BY <1>3, RollbackAdvances, DisplaceAdvances, RestoreAdvances, CleanupAdvances, DiscardAllAdvances
<1>4. CASE DoRecover(p)
  BY <1>4, RecoverAdvances, RecoverEnds
<1>5. CASE DoResolve(p)
  BY <1>5, ResolveAdvances
<1> QED BY <1>1, <1>2, <1>3, <1>4, <1>5 DEF Perform

LEMMA FaultAdvances == ASSUME NEW p, Running(p), Fault(p) PROVE Advances(p)
<1>1. Throw(p) /\ UNCHANGED <<dir, root, observers>>
  BY DEF Fault
<1> QED BY <1>1, ThrowAdvances

---------------------------------------------------------------------------
(* The steps of all processes                                              *)

LEMMA PerformReady == ASSUME NEW p \in Process, Perform(p) PROVE p \in Holders /\ proc[p].todo # <<>>
<1>1. \A do : Ready(p, do) => p \in Holders /\ proc[p].todo # <<>>
  BY DEF Ready, At, Holders
<1>2. CASE Primitive(p)
  BY <1>1, <1>2 DEF Primitive, DoMkdir, DoRmdir, DoCreate, DoFill, DoMove, DoCheck, DoRemove, DoDiscard, DoThrow,
     DoBootout, DoBootstrap, DoProve
<1>3. CASE DoUpdate(p) \/ DoRead(p) \/ DoTransact(p) \/ DoBody(p) \/ DoQuarantine(p) \/ DoPublish(p) \/ DoFinish(p)
  BY <1>1, <1>3 DEF DoUpdate, DoRead, DoTransact, DoBody, DoQuarantine, DoPublish, DoFinish
<1>4. CASE DoRollback(p) \/ DoDisplace(p) \/ DoRestore(p) \/ DoCleanup(p) \/ DoDiscardAll(p) \/ DoRecover(p)
           \/ DoResolve(p)
  BY <1>1, <1>4 DEF DoRollback, DoDisplace, DoRestore, DoCleanup, DoDiscardAll, DoRecover, DoResolve
<1> QED BY <1>2, <1>3, <1>4 DEF Perform

\* The only holder advances.
LEMMA HolderStep ==
  ASSUME SafeInv, Inv, Exclusive, NEW p \in Process, Perform(p) \/ Fault(p) PROVE SafeInv'
<1>1. p \in Holders /\ proc[p].todo # <<>>
  BY PerformReady DEF Fault, At, Holders
<1>2. Running(p)
  BY <1>1 DEF Running
<1>3. Advances(p)
  BY <1>2, PerformAdvances, FaultAdvances
<1>4. Holders = {p} /\ Holders' = {p}
  BY <1>1 DEF Exclusive, Holders, Perform, Fault, lockVars
<1>5. at' = at /\ at[p] = "held" /\ EditsOK'
  BY <1>1 DEF Perform, Fault, lockVars, Holders, SafeInv, EditsOK
<1>6. WaitingOK'
  <2>1. proc'[p].stage = proc[p].stage /\ proc[p].stage \in Locking /\ proc'[p].tx \in Process
    BY <1>3, <1>5 DEF Advances, Turn, Inv, AsideOK
  <2>2. \A q \in Process \ {p} : proc'[q] = proc[q]
    BY <1>3 DEF Advances, Turn
  <2>3. WaitingOK
    BY DEF SafeInv
  <2>4. \A q \in Process \ {p} :
          /\ proc'[q].tx \in Process
          /\ proc'[q].stage \notin {"recover", "transact", "done"} => proc'[q].tx = q
          /\ at'[q] \in Acquiring =>
               proc'[q].tx = q /\ proc'[q].mode = "open" /\ proc'[q].todo = <<Do(proc'[q].stage)>>
    BY <1>5, <2>2, <2>3 DEF WaitingOK
  <2> QED BY <1>5, <2>1, <2>4 DEF WaitingOK, Locking, Acquiring, Do
<1> QED BY <1>3, <1>4, <1>5, <1>6 DEF SafeInv, Advances, FilesOK

\* A process does something that touches no file and is no part of the work of
\* another.
Elsewhere(q) ==
  /\ q \in Process
  /\ \A r \in Process \ {q} : proc'[r] = proc[r]
  /\ q \in committed => proc'[q].plan = proc[q].plan
  /\ UNCHANGED <<dir, root, committed, owed>>

LEMMA ElsewhereKeeps ==
  ASSUME SafeInv, NEW q, Elsewhere(q), Fresh(q)' => Fresh(q)
  PROVE  FilesOK' /\ \A p \in Process : ProgramOK(p) /\ proc'[p] = proc[p] => ProgramOK(p)'
<1>1. dir' = dir /\ root' = root /\ committed' = committed /\ owed' = owed
      /\ DirOK /\ OwedOK /\ FreshOK /\ NothingIsLost
  BY DEF Elsewhere, SafeInv
<1>2. \A x \in Process : Fresh(x)' => Fresh(x)
  <2>1. \A x \in Process \ {q} : Fresh(x)' => Fresh(x)
    BY DEF Elsewhere, Fresh, Do
  <2> QED BY <2>1
<1>3. \A c \in committed : proc'[c].plan = proc[c].plan
  BY <1>1 DEF Elsewhere, OwedOK
<1>4. \A f : Expected(f) <=> Expected(f)'
  BY <1>1, <1>3 DEF Expected
<1>5. DirOK' /\ OwedOK'
  BY <1>1 DEF DirOK, FileOK, RootIsEmpty, Desired, File, Nothing, OwedOK
<1>6. FreshOK'
  BY <1>1, <1>2 DEF FreshOK, Desired, File
<1>7. NothingIsLost'
  BY <1>1, <1>3 DEF NothingIsLost
<1>8. ASSUME NEW p \in Process, ProgramOK(p), proc'[p] = proc[p] PROVE ProgramOK(p)'
  <2> PICK s, x, mode : s = proc[p].todo /\ x = proc[p].tx /\ mode = proc[p].mode
    OBVIOUS
  <2>1. /\ WellFormed(s, p, Own(p), mode) /\ RemovesOK(s, x) /\ PriorOK(s) /\ HeadOK(s) /\ EndOK(s, mode, x)
        /\ x = p \/ ~Fresh(x)
    BY <1>8 DEF ProgramOK
  <2>2. proc'[p].todo = s /\ proc'[p].tx = x /\ proc'[p].mode = mode /\ Own(p)' = Own(p) /\ x \in Process
    BY <1>8 DEF Own, SafeInv, WaitingOK
  <2>3. \A f : Removable(f, x) => Removable(f, x)'
    BY <1>1, <1>4 DEF Removable, Desired, File
  <2>4. RemovesOK(s, x)'
    BY <2>1, <2>3 DEF RemovesOK
  <2>5. PriorOK(s)' /\ EndOK(s, mode, x)'
    BY <1>1, <2>1 DEF PriorOK, EndOK, Resting, Nothing, Desired, File
  <2>6. HeadOK(s)'
    BY <1>1, <1>3, <2>1 DEF HeadOK, Dropped, Expected, Torn, File
  <2>7. x = p \/ ~Fresh(x)'
    BY <1>2, <2>1, <2>2
  <2> QED BY <2>1, <2>2, <2>4, <2>5, <2>6, <2>7 DEF ProgramOK
<1> QED BY <1>5, <1>6, <1>7, <1>8 DEF FilesOK

\* The step of a process that does not hold the lock
LEMMA ElsewherePreserves ==
  ASSUME SafeInv, NEW q, Elsewhere(q), Fresh(q)' => Fresh(q), EditsOK',
         q \notin Holders', Holders' \subseteq Holders,
         \A r \in Process \ {q} : at'[r] = at[r],
         /\ proc'[q].tx \in Process
         /\ proc'[q].stage \notin {"recover", "transact", "done"} => proc'[q].tx = q
         /\ at'[q] \in Acquiring =>
              proc'[q].tx = q /\ proc'[q].mode = "open" /\ proc'[q].todo = <<Do(proc'[q].stage)>>
  PROVE  SafeInv'
<1>1. FilesOK' /\ \A p \in Process : ProgramOK(p) /\ proc'[p] = proc[p] => ProgramOK(p)'
  BY ElsewhereKeeps
<1>2. \A p \in Holders' : p # q /\ p \in Holders /\ proc'[p] = proc[p]
  BY DEF Elsewhere, Holders
<1>3. WaitingOK'
  <2>1. \A r \in Process \ {q} :
          /\ proc'[r].tx \in Process
          /\ proc'[r].stage \notin {"recover", "transact", "done"} => proc'[r].tx = r
          /\ at'[r] \in Acquiring =>
               proc'[r].tx = r /\ proc'[r].mode = "open" /\ proc'[r].todo = <<Do(proc'[r].stage)>>
    BY DEF Elsewhere, SafeInv, WaitingOK
  <2> QED BY <2>1 DEF WaitingOK, Do
<1>4. \A p \in Holders' : ProgramOK(p)'
  BY <1>1, <1>2 DEF SafeInv, Holders
<1> QED BY <1>1, <1>3, <1>4 DEF SafeInv, FilesOK

\* Who enters a stage without the lock has nothing in hand.
LEMMA EnterSafe ==
  ASSUME SafeInv, Inv, NEW p \in Process, NEW stage, Enter(p, stage),
         stage = "done" \/ (stage # "transact" /\ Fresh(p)),
         at'[p] = "out", \A r \in Process \ {p} : at'[r] = at[r], dead \subseteq dead',
         UNCHANGED <<dir, root, observers>>, EditsOK'
  PROVE  SafeInv'
<1>1. /\ proc'[p].stage = stage /\ proc'[p].todo = <<>> /\ proc'[p].tx = p /\ proc'[p].plan = proc[p].plan
      /\ \A r \in Process \ {p} : proc'[r] = proc[r]
  BY DEF Enter, Inv, Shape
<1>2. Elsewhere(p)
  BY <1>1 DEF Elsewhere, observers
<1>3. Fresh(p)' => Fresh(p)
  BY <1>1 DEF Fresh
<1>4. p \notin Holders' /\ Holders' \subseteq Holders
  BY DEF Holders
<1> QED BY <1>1, <1>2, <1>3, <1>4, ElsewherePreserves DEF Acquiring

\* Who goes for the lock has done nothing yet.
LEMMA AcquireSafe ==
  ASSUME SafeInv, Inv, NEW p \in Process, NEW stage \in Locking, proc[p].stage \notin Locking \cup {"done"},
         Acquire(p, stage), UNCHANGED <<lock, aside, seen, dead, dir, root, observers>>, EditsOK'
  PROVE  SafeInv'
<1>1. /\ proc'[p].stage = stage /\ proc'[p].todo = <<Do(stage)>> /\ proc'[p].mode = "open"
      /\ proc'[p].tx = proc[p].tx /\ proc'[p].plan = proc[p].plan
      /\ \A r \in Process \ {p} : proc'[r] = proc[r]
  BY DEF Acquire, Inv, Shape
<1>2. Elsewhere(p) /\ proc[p].tx = p
  BY <1>1 DEF Elsewhere, observers, SafeInv, WaitingOK, Locking
<1>3. Fresh(p)
  BY DEF Fresh, Locking
<1>4. at'[p] = "want" /\ \A r \in Process \ {p} : at'[r] = at[r]
  BY DEF Acquire, GoTo, Inv, LockTypeOK
<1>5. p \notin Holders' /\ Holders' \subseteq Holders
  BY <1>4 DEF Holders
<1> QED BY <1>1, <1>2, <1>3, <1>4, <1>5, ElsewherePreserves

LEMMA StartSafe == ASSUME SafeInv, Inv, NEW p \in Process, Start(p) PROVE SafeInv'
<1>1. PICK job : proc' = [proc EXCEPT ![p].job = job, ![p].stage = "pending"]
  BY DEF Start
<1>2. /\ proc'[p].stage = "pending" /\ proc'[p].tx = proc[p].tx /\ proc'[p].plan = proc[p].plan
      /\ \A r \in Process \ {p} : proc'[r] = proc[r]
  BY <1>1 DEF Inv, Shape
<1>3. proc[p].stage = "idle" /\ UNCHANGED <<lockVars, dir, root, observers, left>>
  BY DEF Start
<1>4. Elsewhere(p) /\ Fresh(p) /\ EditsOK'
  BY <1>2, <1>3 DEF Elsewhere, observers, Fresh, EditsOK, SafeInv
<1>5. at[p] = "out" /\ proc[p].tx = p
  BY <1>3 DEF Inv, AsideOK, Locking, SafeInv, WaitingOK
<1>6. p \notin Holders' /\ Holders' = Holders /\ at' = at
  BY <1>3, <1>5 DEF Holders, lockVars
<1> QED BY <1>2, <1>4, <1>5, <1>6, ElsewherePreserves DEF Acquiring

LEMMA MakePlanSafe == ASSUME SafeInv, Inv, NEW p \in Process, MakePlan(p) PROVE SafeInv'
<1>1. PICK plan : \/ proc' = [proc EXCEPT ![p].stage = "done"]
                  \/ proc' = [proc EXCEPT ![p].stage = "pending", ![p].plan = plan, ![p].planned = TRUE]
  BY DEF MakePlan
<1>2. /\ proc'[p].tx = proc[p].tx /\ proc'[p].stage \in {"done", "pending"}
      /\ \A r \in Process \ {p} : proc'[r] = proc[r]
  BY <1>1 DEF Inv, Shape
<1>3. proc[p].stage = "plan" /\ UNCHANGED <<lockVars, dir, root, observers, left>>
  BY DEF MakePlan
<1>4. Fresh(p) /\ p \notin committed /\ EditsOK'
  BY <1>3 DEF Fresh, FreshOK, EditsOK, SafeInv
<1>5. at[p] = "out" /\ proc[p].tx = p
  BY <1>3 DEF Inv, AsideOK, Locking, SafeInv, WaitingOK
<1>6. p \notin Holders' /\ Holders' = Holders /\ at' = at /\ Elsewhere(p)
  BY <1>2, <1>3, <1>4, <1>5 DEF Holders, lockVars, Elsewhere, observers
<1> QED BY <1>2, <1>4, <1>5, <1>6, ElsewherePreserves DEF Acquiring

LEMMA RecoverPendingSafe == ASSUME SafeInv, Inv, NEW p \in Process, RecoverPending(p) PROVE SafeInv'
<1>1. proc[p].stage = "pending" /\ UNCHANGED <<dir, root, observers, left>> /\ EditsOK'
  BY DEF RecoverPending, EditsOK, SafeInv
<1>2. CASE Pending
  BY <1>1, <1>2, AcquireSafe DEF RecoverPending, Locking
<1>3. CASE ~Pending
  <2>1. at[p] = "out" /\ Fresh(p) /\ Onward(p) # "transact"
    BY <1>1 DEF Inv, AsideOK, Locking, Fresh, Onward
  <2>2. at' = at /\ dead' = dead /\ Enter(p, Onward(p))
    BY <1>3 DEF RecoverPending, lockVars
  <2> QED BY <1>1, <2>1, <2>2, EnterSafe
<1> QED BY <1>2, <1>3

LEMMA CheckPendingSafe == ASSUME SafeInv, Inv, NEW p \in Process, CheckPending(p) PROVE SafeInv'
<1>1. proc[p].stage = "check" /\ UNCHANGED <<lockVars, dir, root, observers, left>> /\ EditsOK'
  BY DEF CheckPending, EditsOK, SafeInv
<1>2. at[p] = "out" /\ Fresh(p)
  BY <1>1 DEF Inv, AsideOK, Locking, Fresh
<1>3. PICK stage : stage \in {"done", "plan"} /\ Enter(p, stage)
  BY DEF CheckPending
<1> QED BY <1>1, <1>2, <1>3, EnterSafe DEF lockVars

LEMMA InspectSafe == ASSUME SafeInv, Inv, NEW p \in Process, Inspect(p) PROVE SafeInv'
<1>1. proc[p].stage = "inspect" /\ UNCHANGED <<dir, root, observers, left>> /\ EditsOK'
  BY DEF Inspect, EditsOK, SafeInv
<1>2. CASE proc[p].plan = [file |-> dir["canonical"], loaded |-> running # Nothing]
  BY <1>1, <1>2, AcquireSafe DEF Inspect, Locking
<1>3. CASE proc[p].plan # [file |-> dir["canonical"], loaded |-> running # Nothing]
  <2>1. at[p] = "out"
    BY <1>1 DEF Inv, AsideOK, Locking
  <2>2. at' = at /\ dead' = dead /\ Enter(p, "done")
    BY <1>3 DEF Inspect, lockVars
  <2> QED BY <1>1, <2>1, <2>2, EnterSafe
<1> QED BY <1>2, <1>3

LEMMA LeaveSafe == ASSUME SafeInv, Inv, NEW p \in Process, Leave(p) PROVE SafeInv'
<1>1. UNCHANGED <<dead, dir, root, observers, left>> /\ EditsOK' /\ at' = [at EXCEPT ![p] = "out"]
  BY DEF Leave, GoTo, EditsOK, SafeInv
<1>2. PICK stage : Enter(p, stage) /\ stage = IF at[p] = "out" /\ proc[p].stage = "recover" /\ ~proc[p].failed
                                                THEN Onward(p) ELSE "done"
  BY DEF Leave
<1>3. stage = "done" \/ (stage # "transact" /\ Fresh(p))
  BY <1>2 DEF Onward, Fresh
<1>4. at'[p] = "out" /\ \A r \in Process \ {p} : at'[r] = at[r]
  BY <1>1 DEF Inv, LockTypeOK
<1> QED BY <1>1, <1>2, <1>3, <1>4, EnterSafe

LEMMA CrashSafe == ASSUME SafeInv, Inv, NEW p \in Process, Crash(p) PROVE SafeInv'
<1>1. /\ UNCHANGED <<dir, root, observers>> /\ dead \subseteq dead' /\ at' = [at EXCEPT ![p] = "out"]
      /\ left' = [left EXCEPT !.crashes = @ - 1] /\ Enter(p, "done")
  BY DEF Crash, GoTo
<1>2. EditsOK'
  BY <1>1 DEF EditsOK, SafeInv
<1>3. at'[p] = "out" /\ \A r \in Process \ {p} : at'[r] = at[r]
  BY <1>1 DEF Inv, LockTypeOK
<1> QED BY <1>1, <1>2, <1>3, EnterSafe

LEMMA FinishedSafe == ASSUME SafeInv, Inv, NEW p \in Process, Finished(p) PROVE SafeInv'
<1>1. UNCHANGED <<dead, fileVars, left>> /\ at' = [at EXCEPT ![p] = "release"]
  BY DEF Finished, GoTo
<1>2. proc' = proc /\ Elsewhere(p) /\ EditsOK' /\ Fresh(p)' = Fresh(p)
  BY <1>1 DEF Elsewhere, fileVars, observers, Fresh, EditsOK, SafeInv
<1>3. at'[p] = "release" /\ (\A r \in Process \ {p} : at'[r] = at[r]) /\ at[p] = "held"
  BY <1>1 DEF Inv, LockTypeOK, Finished, At
<1>4. p \notin Holders' /\ Holders' \subseteq Holders
  BY <1>1, <1>3 DEF Holders
<1>5. proc'[p].tx \in Process /\ (proc'[p].stage \notin {"recover", "transact", "done"} => proc'[p].tx = p)
  BY <1>2 DEF SafeInv, WaitingOK
<1> QED BY <1>2, <1>3, <1>4, <1>5, ElsewherePreserves DEF Acquiring

\* The program of a process that gets the lock
LEMMA BeginOK ==
  ASSUME SafeInv, Inv, NEW p \in Process, at[p] = "linked" PROVE ProgramOK(p)
<1> PICK stage, s : stage = proc[p].stage /\ s = proc[p].todo
  OBVIOUS
<1>1. stage \in Locking /\ proc[p].tx = p /\ proc[p].mode = "open" /\ s = <<Do(stage)>>
  BY DEF Inv, AsideOK, SafeInv, WaitingOK, Acquiring
<1>2. Own(p) <=> stage = "transact"
  BY <1>1 DEF Own
<1>3. Fresh(p) /\ Desired(p) \notin owed
  BY <1>1 DEF Fresh, Locking, SafeInv, FreshOK
<1>4. IsSeq(s) /\ Len(s) = 1 /\ s[1] = Do(stage)
  BY <1>1, Seq1
<1>5. s # <<>> /\ Head(s) = Do(stage) /\ Do(stage).do = stage /\ stage \in {"recover", "transact"}
  BY <1>1 DEF Do, Locking
<1>6. \A i \in 1..Len(s) : s[i] = Do(stage)
  BY <1>4
<1>7. WellFormed(s, p, Own(p), "open")
  <2>1. OpOK(Do(stage), p, Own(p), "open")
    BY <1>2, <1>5 DEF OpOK
  <2>2. \A i, j \in 1..Len(s) : ~(i < j)
    BY <1>4
  <2>3. \A i \in 1..(Len(s) - 1) : FALSE
    BY <1>4
  <2> QED BY <1>4, <1>6, <2>1, <2>2, <2>3 DEF WellFormed
<1>8. RemovesOK(s, p) /\ PriorOK(s)
  BY <1>5, <1>6 DEF RemovesOK, PriorOK
<1>9. HeadOK(s) /\ EndOK(s, "open", p)
  BY <1>3, <1>5 DEF HeadOK, EndOK
<1> QED BY <1>1, <1>7, <1>8, <1>9 DEF ProgramOK

\* Who becomes a holder had linked the lock.
LEMMA LockMoves ==
  ASSUME Inv, NEW p \in Process, LockStep(p)
  PROVE  /\ \A r \in Process \ {p} : at'[r] = at[r]
         /\ dead' = dead
         /\ at[p] \in Acquiring \cup Releasing
         /\ at'[p] \in Acquiring => at[p] \in Acquiring
         /\ at'[p] = "held" => at[p] = "linked"
BY DEF Inv, LockTypeOK, LockStep, LinkLock, ProveLock, ReadOwner, TakeStale, ProveStale, CheckOwner, Unlock,
       ProveUnlocked, MoveAside, DropAside, PutBack, GoTo, At, Acquiring, Releasing

LEMMA LockSafe == ASSUME SafeInv, Inv, NEW p \in Process, Lock(p) PROVE SafeInv'
<1>1. /\ \A r \in Process \ {p} : at'[r] = at[r]
      /\ dead' = dead
      /\ at'[p] \in Acquiring => at[p] \in Acquiring
      /\ at'[p] = "held" => at[p] = "linked"
  BY LockMoves DEF Lock
<1>2. proc' = proc /\ UNCHANGED <<dir, root, committed, owed, left>>
  BY DEF Lock, fileVars, observers
<1>3. Elsewhere(p) /\ Fresh(p)' = Fresh(p) /\ EditsOK'
  BY <1>2 DEF Elsewhere, Fresh, EditsOK, SafeInv
<1>4. FilesOK' /\ \A q \in Process : ProgramOK(q) => ProgramOK(q)'
  BY <1>2, <1>3, ElsewhereKeeps
<1>5. WaitingOK'
  BY <1>1, <1>2 DEF WaitingOK, SafeInv, Do
<1>6. ASSUME NEW q \in Holders' PROVE ProgramOK(q)'
  <2>1. CASE q \in Holders
    BY <1>4, <2>1 DEF SafeInv, Holders
  <2>2. CASE q \notin Holders
    <3>1. q = p /\ at[p] = "linked"
      BY <1>1, <1>6, <2>2 DEF Holders
    <3>2. ProgramOK(p)
      BY <3>1, BeginOK
    <3> QED BY <1>4, <3>1, <3>2
  <2> QED BY <2>1, <2>2
<1> QED BY <1>3, <1>4, <1>5, <1>6 DEF SafeInv, FilesOK

\* What the editor puts in the place of the installed plist
Edits(f) ==
  /\ f # dir["canonical"]
  /\ \E e \in Edit : f \in {Edited(e), Nothing}
  /\ dir' = [dir EXCEPT !["canonical"] = f]
  /\ owed' = (owed \ {dir["canonical"]}) \cup ({f} \ {Nothing})
  /\ UNCHANGED <<root, proc, committed>>

LEMMA EditedKind ==
  ASSUME NEW f, Edits(f)
  PROVE  /\ FileOK(f) /\ f.is \notin {"torn", "journal", "desired"} /\ f.of = NoOwner
         /\ f # Nothing => f.is # "nothing"
<1>1. PICK e \in Edit : f \in {Edited(e), Nothing}
  BY DEF Edits
<1>2. e \notin Kinds
  BY FilesAssumption DEF FilesAssumption
<1>3. CASE f = Nothing
  BY <1>3, NothingOK DEF Nothing, File
<1>4. CASE f = Edited(e)
  BY <1>2, <1>4 DEF Edited, File, FileOK, Kinds
<1> QED BY <1>1, <1>3, <1>4

\* What the editor leaves alone
LEMMA EditedRest ==
  ASSUME DirOK, NEW f, Edits(f)
  PROVE  /\ DOMAIN dir' = Names /\ dir'["canonical"] = f
         /\ \A n \in Names \ {"canonical"} : dir'[n] = dir[n]
         /\ \A n \in Slots \cup Trash : n \in Names /\ n # "canonical" /\ dir'[n] = dir[n]
         /\ \A x : Desired(x) \in owed' => Desired(x) \in owed
         /\ \A g \in owed' : g = f \/ (g \in owed /\ g # dir["canonical"])
         /\ root' = root /\ committed' = committed /\ proc' = proc
<1>1. DOMAIN dir = Names /\ "canonical" \in Names /\ \A n \in Slots \cup Trash : n \in Names /\ n # "canonical"
  BY FilesAssumption DEF FilesAssumption, DirOK, Names, Slots
<1>2. \A x : Desired(x) # f
  BY EditedKind DEF Desired, File
<1> QED BY <1>1, <1>2 DEF Edits

LEMMA EditedFiles ==
  ASSUME FilesOK, NEW f, Edits(f) PROVE FilesOK'
<1>1. /\ DOMAIN dir' = Names /\ dir'["canonical"] = f
      /\ \A n \in Names \ {"canonical"} : dir'[n] = dir[n]
      /\ \A n \in Slots \cup Trash : n \in Names /\ n # "canonical" /\ dir'[n] = dir[n]
      /\ \A x : Desired(x) \in owed' => Desired(x) \in owed
      /\ \A g \in owed' : g = f \/ (g \in owed /\ g # dir["canonical"])
      /\ root' = root /\ committed' = committed /\ proc' = proc
  BY EditedRest DEF FilesOK
<1>2. /\ FileOK(f) /\ f.is \notin {"torn", "journal", "desired"} /\ f.of = NoOwner
      /\ f # Nothing => f.is # "nothing"
  BY EditedKind
<1>3. DirOK'
  <2>1. \A n \in Names : FileOK(dir'[n])
    BY <1>1, <1>2 DEF FilesOK, DirOK
  <2>2. ASSUME NEW n \in Names, dir'[n].is = "journal"
        PROVE  /\ n \in JournalNames
               /\ dir'[n].phase = "committed" => dir'[n].of \in committed
               /\ Desired(dir'[n].of) \notin owed'
    <3>1. dir'[n] = dir[n]
      BY <1>1, <1>2, <2>2
    <3> QED BY <1>1, <2>2, <3>1 DEF FilesOK, DirOK
  <2>3. ~root' => \A n \in Slots \cup Trash : dir'[n] = Nothing
    BY <1>1 DEF FilesOK, DirOK, RootIsEmpty
  <2> QED BY <1>1, <2>1, <2>2, <2>3 DEF DirOK, FileOK, RootIsEmpty, Nothing, File, Desired
<1>4. OwedOK'
  <2>1. f \in owed' => f # Nothing
    BY <1>1 DEF Edits, FilesOK, OwedOK, Nothing, File
  <2> QED BY <1>1, <1>2, <2>1 DEF FilesOK, OwedOK
<1>5. FreshOK'
  <2>1. \A x \in Process : \A n \in Names : dir'[n].of = x => dir'[n] = dir[n]
    BY <1>1, <1>2, LockAssumption
  <2>2. \A x \in Process : Fresh(x)' = Fresh(x)
    BY <1>1 DEF Fresh, Do
  <2>3. \A x \in Process : Fresh(x) =>
          x \notin committed /\ Desired(x) \notin owed /\ \A n \in Names : dir[n].of # x
    BY DEF FilesOK, FreshOK
  <2>4. \A x \in Process : Fresh(x)' =>
          x \notin committed' /\ Desired(x) \notin owed' /\ \A n \in Names : dir'[n].of # x
    BY <1>1, <2>1, <2>2, <2>3
  <2> QED BY <2>4 DEF FreshOK, Desired, File
<1>6. NothingIsLost'
  <2>1. ASSUME NEW g \in owed' PROVE (\E n \in Names : dir'[n] = g) \/ \E p \in committed : proc[p].plan.file = g
    <3>1. CASE g = f
      BY <1>1, <3>1 DEF Names
    <3>2. CASE g # f
      <4>1. (\E n \in Names : dir[n] = g /\ n # "canonical") \/ \E p \in committed : proc[p].plan.file = g
        BY <1>1, <3>2 DEF FilesOK, NothingIsLost
      <4> QED BY <1>1, <4>1
    <3> QED BY <3>1, <3>2
  <2> QED BY <1>1, <2>1 DEF NothingIsLost
<1> QED BY <1>3, <1>4, <1>5, <1>6 DEF FilesOK

\* The program of whoever has the lock goes on.
LEMMA EditedProgram ==
  ASSUME FilesOK, NEW p \in Process, ProgramOK(p), proc[p].tx \in Process, NEW f, Edits(f) PROVE ProgramOK(p)'
<1> PICK s, x, mode : s = proc[p].todo /\ x = proc[p].tx /\ mode = proc[p].mode
  OBVIOUS
<1>1. /\ WellFormed(s, p, Own(p), mode) /\ RemovesOK(s, x) /\ PriorOK(s) /\ HeadOK(s) /\ EndOK(s, mode, x)
      /\ x = p \/ ~Fresh(x)
  BY DEF ProgramOK
<1>2. /\ DOMAIN dir' = Names /\ dir'["canonical"] = f
      /\ \A n \in Names \ {"canonical"} : dir'[n] = dir[n]
      /\ \A n \in Slots \cup Trash : n \in Names /\ n # "canonical" /\ dir'[n] = dir[n]
      /\ \A y : Desired(y) \in owed' => Desired(y) \in owed
      /\ \A g \in owed' : g = f \/ (g \in owed /\ g # dir["canonical"])
      /\ root' = root /\ committed' = committed /\ proc' = proc
  BY EditedRest DEF FilesOK
<1>3. \A g : Removable(g, x) => Removable(g, x)'
  BY <1>2 DEF Removable, Expected, Desired, File
<1>4. RemovesOK(s, x)'
  BY <1>1, <1>3 DEF RemovesOK
<1>5. PriorOK(s)'
  <2>1. dir'["prior"] = dir["prior"]
    BY <1>2 DEF Slots
  <2> QED BY <1>1, <2>1 DEF PriorOK, Nothing, File
<1>6. EndOK(s, mode, x)'
  BY <1>1, <1>2 DEF EndOK, Resting, Desired, File
<1>7. HeadOK(s)'
  <2>1. ASSUME s # <<>> PROVE OpOK(Head(s), p, Own(p), mode)
    <3>1. IsSeq(s) /\ \A i \in 1..Len(s) : OpOK(s[i], p, Own(p), mode)
      BY <1>1 DEF WellFormed
    <3>2. Len(s) >= 1 /\ Len(s) \in Nat /\ Head(s) = s[1]
      BY <2>1, <3>1, Rest DEF IsSeq
    <3>3. 1 \in 1..Len(s)
      BY <3>2
    <3> QED BY <3>1, <3>2, <3>3
  <2>2. ASSUME s # <<>>, Head(s).do = "fill" PROVE dir'[Head(s).name] = Torn
    <3>1. Head(s).name \in Slots
      BY <2>1, <2>2 DEF OpOK, Written, Slots
    <3> QED BY <1>1, <1>2, <2>2, <3>1 DEF HeadOK
  <2>3. ASSUME s # <<>>, Head(s).do = "discard"
        PROVE  dir'[Head(s).name] \in owed' =>
                 Expected(dir'[Head(s).name]) \/ \E n \in Names \ {Head(s).name} : dir'[n] = dir'[Head(s).name]
    <3> PICK t : t = Head(s).name
      OBVIOUS
    <3>1. t \in Trash
      BY <2>1, <2>3 DEF OpOK
    <3>2. dir'[t] = dir[t] /\ t # "canonical" /\ "canonical" \in Names
      BY <1>2, <3>1 DEF Names
    <3>3. dir[t] \in owed => Expected(dir[t]) \/ \E n \in Names \ {t} : dir[n] = dir[t]
      BY <1>1, <2>3 DEF HeadOK, Dropped
    <3>4. ASSUME dir[t] \in owed' PROVE Expected(dir[t]) \/ \E n \in Names \ {t} : dir'[n] = dir[t]
      <4>1. CASE dir[t] = f
        BY <1>2, <3>2, <4>1
      <4>2. CASE dir[t] # f
        <5>1. dir[t] \in owed /\ dir[t] # dir["canonical"]
          BY <1>2, <3>4, <4>2
        <5>2. CASE \E n \in Names \ {t} : dir[n] = dir[t]
          <6>1. PICK n \in Names \ {t} : dir[n] = dir[t]
            BY <5>2
          <6>2. dir'[n] = dir[t]
            BY <1>2, <5>1, <6>1
          <6> QED BY <6>2
        <5> QED BY <3>3, <5>1, <5>2
      <4> QED BY <4>1, <4>2
    <3> QED BY <3>2, <3>4
  <2>4. \A g : Expected(g) => Expected(g)'
    BY <1>2 DEF Expected
  <2> QED BY <2>2, <2>3, <2>4 DEF HeadOK, Dropped, Torn, File
<1>8. Own(p)' = Own(p) /\ Fresh(x)' = Fresh(x)
  BY <1>2 DEF Own, Fresh, Do
<1> QED BY <1>1, <1>2, <1>4, <1>5, <1>6, <1>7, <1>8 DEF ProgramOK

LEMMA EditorSafe == ASSUME SafeInv, EditorMoves PROVE SafeInv'
<1>1. PICK e \in left.edits :
        /\ left' = [left EXCEPT !.edits = @ \ {e}]
        /\ \E f \in {Edited(e), Nothing} :
             /\ f # dir["canonical"]
             /\ dir' = [dir EXCEPT !["canonical"] = f]
             /\ owed' = (owed \ {dir["canonical"]}) \cup ({f} \ {Nothing})
  BY DEF EditorMoves
<1>2. e \in Edit /\ "edits" \in DOMAIN left /\ left.edits \subseteq Edit
  BY <1>1 DEF SafeInv, EditsOK
<1>3. UNCHANGED <<at, dead, root, proc, committed>>
  BY DEF EditorMoves, lockVars
<1>4. PICK f : Edits(f)
  BY <1>1, <1>2, <1>3 DEF Edits
<1>5. FilesOK
  BY DEF SafeInv, FilesOK
<1>6. FilesOK'
  BY <1>4, <1>5, EditedFiles
<1>7. \A p \in Holders : ProgramOK(p)'
  BY <1>4, <1>5, EditedProgram DEF SafeInv, Holders, WaitingOK
<1>8. WaitingOK' /\ EditsOK' /\ Holders' = Holders
  <2>1. WaitingOK' /\ Holders' = Holders
    BY <1>3 DEF SafeInv, WaitingOK, Holders, Do
  <2>2. EditsOK'
    BY <1>1, <1>2 DEF EditsOK
  <2> QED BY <2>1, <2>2
<1> QED BY <1>6, <1>7, <1>8 DEF SafeInv, FilesOK

\* No transaction, and what is installed is the plist of before, or none.
LEMMA SafeInit == Init => SafeInv
<1> SUFFICES ASSUME Init PROVE SafeInv
  OBVIOUS
<1>1. PICK f \in setup.files :
        /\ dir = [n \in Names |-> IF n = "canonical" THEN f ELSE Nothing]
        /\ owed = {dir["canonical"]} \ {Nothing}
  BY DEF Init
<1>2. setup.files \subseteq {Nothing, Original} /\ setup.edits \subseteq Edit
  BY SetupsAssumption DEF SetupsAssumption, Init
<1>3. FileOK(f) /\ f.is \in {"nothing", "original"} /\ f.of = NoOwner /\ (f = Nothing \/ f.is = "original")
  BY <1>1, <1>2 DEF FileOK, Nothing, Original, File, Kinds
<1>4. /\ DOMAIN dir = Names /\ dir["canonical"] = f
      /\ \A n \in Names : dir[n] \in {f, Nothing}
      /\ \A n \in Slots \cup Trash : dir[n] = Nothing
      /\ owed \subseteq {f} /\ (f = Nothing => owed = {})
      /\ committed = {} /\ root = FALSE
  <2>1. "canonical" \in Names /\ \A n \in Slots \cup Trash : n \in Names /\ n # "canonical"
    BY FilesAssumption DEF FilesAssumption, Names, Slots
  <2> QED BY <1>1, <2>1 DEF Init
<1>5. FileOK(Nothing) /\ Nothing.is = "nothing" /\ Nothing.of = NoOwner
  BY NothingOK DEF Nothing, File
<1>6. \A n \in Names : FileOK(dir[n]) /\ dir[n].is # "journal" /\ dir[n].of = NoOwner
  BY <1>3, <1>4, <1>5
<1>7. DirOK /\ OwedOK
  BY <1>3, <1>4, <1>5, <1>6 DEF DirOK, OwedOK, RootIsEmpty
<1>8. FreshOK
  <2>1. \A x : Desired(x) # f
    BY <1>3 DEF Desired, File
  <2> QED BY <1>4, <1>6, <2>1, LockAssumption DEF FreshOK
<1>9. NothingIsLost
  <2>1. "canonical" \in Names
    BY DEF Names
  <2> QED BY <1>4, <2>1 DEF NothingIsLost
<1>10. WaitingOK /\ EditsOK /\ Holders = {}
  BY <1>2 DEF Init, LockInit, WaitingOK, EditsOK, Holders, Acquiring
<1> QED BY <1>7, <1>8, <1>9, <1>10 DEF SafeInv

LEMMA SafeStutter == ASSUME SafeInv, UNCHANGED vars PROVE SafeInv'
BY DEF SafeInv, DirOK, OwedOK, FreshOK, WaitingOK, EditsOK, NothingIsLost, ProgramOK, RemovesOK, PriorOK, HeadOK,
       EndOK, Own, Fresh, Removable, Dropped, Expected, RootIsEmpty, Holders, vars, lockVars, fileVars, observers

LEMMA SafeStep == SafeInv /\ Inv /\ Exclusive /\ [Next]_vars => SafeInv'
<1> SUFFICES ASSUME SafeInv, Inv, Exclusive, [Next]_vars PROVE SafeInv'
  OBVIOUS
<1>1. CASE UNCHANGED vars
  BY <1>1, SafeStutter
<1>2. CASE EditorMoves
  BY <1>2, EditorSafe
<1>3. ASSUME NEW p \in Process, Start(p) \/ RecoverPending(p) \/ CheckPending(p) \/ MakePlan(p) \/ Inspect(p)
      PROVE  SafeInv'
  BY <1>3, StartSafe, RecoverPendingSafe, CheckPendingSafe, MakePlanSafe, InspectSafe
<1>4. ASSUME NEW p \in Process, Lock(p) PROVE SafeInv'
  BY <1>4, LockSafe
<1>5. ASSUME NEW p \in Process, Perform(p) \/ Fault(p) PROVE SafeInv'
  BY <1>5, HolderStep
<1>6. ASSUME NEW p \in Process, Finished(p) \/ Leave(p) \/ Crash(p) PROVE SafeInv'
  BY <1>6, FinishedSafe, LeaveSafe, CrashSafe
<1> QED BY <1>1, <1>2, <1>3, <1>4, <1>5, <1>6 DEF Next

---------------------------------------------------------------------------
(* Transactions exclude each other                                         *)

LEMMA ExclusiveIsOne == Exclusive => OneMutation
<1> SUFFICES ASSUME Exclusive PROVE Cardinality(Holders) <= 1
  BY DEF OneMutation
<1>1. CASE Holders = {}
  <2>1. Cardinality(Holders) = 0
    BY <1>1, FS_EmptySet
  <2> QED BY <2>1
<1>2. CASE Holders # {}
  <2>1. PICK p : Holders = {p}
    BY <1>2 DEF Exclusive
  <2>2. Cardinality(Holders) = 1
    BY <2>1, FS_Singleton
  <2> QED BY <2>2
<1> QED BY <1>1, <1>2

\* Finitely many processes have the lock.
LEMMA HoldersStep == Inv /\ [Next]_vars => \E p : Holders' \subseteq Holders \cup {p}
<1> SUFFICES ASSUME Inv, [Next]_vars PROVE \E p : Holders' \subseteq Holders \cup {p}
  OBVIOUS
<1>1. CASE UNCHANGED <<at, dead>>
  BY <1>1 DEF Holders
<1>2. ASSUME NEW p \in Process, dead \subseteq dead', \A r \in Process \ {p} : at'[r] = at[r]
      PROVE  \E q : Holders' \subseteq Holders \cup {q}
  BY <1>2 DEF Holders
<1>3. ASSUME NEW p \in Process, NEW place, GoTo(p, place), dead \subseteq dead'
      PROVE  \E q : Holders' \subseteq Holders \cup {q}
  <2>1. \A r \in Process \ {p} : at'[r] = at[r]
    BY <1>3 DEF GoTo, Inv, LockTypeOK
  <2> QED BY <1>2, <1>3, <2>1
<1>4. CASE EditorMoves \/ UNCHANGED vars
  BY <1>1, <1>4 DEF EditorMoves, vars, lockVars
<1>5. ASSUME NEW p \in Process, Start(p) \/ CheckPending(p) \/ MakePlan(p) \/ Perform(p) \/ Fault(p)
      PROVE  \E q : Holders' \subseteq Holders \cup {q}
  BY <1>1, <1>5 DEF Start, CheckPending, MakePlan, Perform, Fault, lockVars
<1>6. ASSUME NEW p \in Process, RecoverPending(p) \/ Inspect(p) PROVE \E q : Holders' \subseteq Holders \cup {q}
  BY <1>1, <1>3, <1>6 DEF RecoverPending, Inspect, Acquire, lockVars
<1>7. ASSUME NEW p \in Process, Lock(p) PROVE \E q : Holders' \subseteq Holders \cup {q}
  BY <1>2, <1>7, LockMoves DEF Lock
<1>8. ASSUME NEW p \in Process, Finished(p) \/ Leave(p) \/ Crash(p) PROVE \E q : Holders' \subseteq Holders \cup {q}
  BY <1>3, <1>8 DEF Finished, Leave, Crash
<1> QED BY <1>4, <1>5, <1>6, <1>7, <1>8 DEF Next

LEMMA OneIsExclusive == IsFiniteSet(Holders) /\ OneMutation => Exclusive
<1> SUFFICES ASSUME IsFiniteSet(Holders), OneMutation, NEW p \in Holders, NEW q \in Holders, p # q PROVE FALSE
  BY DEF Exclusive
<1>1. Cardinality({p, q}) = 2
  <2>1. IsFiniteSet({p}) /\ Cardinality({p}) = 1
    BY FS_Singleton
  <2>2. Cardinality({p} \cup {q}) = Cardinality({p}) + 1
    BY <2>1, FS_AddElement
  <2>3. {p} \cup {q} = {p, q}
    OBVIOUS
  <2> QED BY <2>1, <2>2, <2>3
<1>2. {p, q} \subseteq Holders
  OBVIOUS
<1>3. Cardinality({p, q}) <= Cardinality(Holders)
  BY <1>2, FS_Subset
<1>4. Cardinality(Holders) \in Nat
  BY FS_CardinalityType
<1> QED BY <1>1, <1>3, <1>4 DEF OneMutation

LEMMA FinitelyManyHolders == Spec => []IsFiniteSet(Holders)
<1>1. Init => IsFiniteSet(Holders)
  <2>1. Init => Holders = {}
    BY DEF Init, LockInit, Holders
  <2> QED BY <2>1, FS_EmptySet
<1>2. Inv /\ IsFiniteSet(Holders) /\ [Next]_vars => IsFiniteSet(Holders)'
  <2> SUFFICES ASSUME Inv, IsFiniteSet(Holders), [Next]_vars PROVE IsFiniteSet(Holders')
    OBVIOUS
  <2>1. PICK p : Holders' \subseteq Holders \cup {p}
    BY HoldersStep
  <2>2. IsFiniteSet(Holders \cup {p})
    BY FS_AddElement
  <2> QED BY <2>1, <2>2, FS_Subset
<1> QED BY <1>1, <1>2, InvInit, InvStep, PTL DEF Spec

\* Whatever dies, fails or is edited in the middle of an installation, a removal
\* or a recovery: as long as no two processes have the lock at a time, every
\* plist that was installed stays under some name, unless its editor took it
\* away or a transaction that had expected it wrote that it is committed
\* (quarantineExpectedPrior, publishDesired, rollbackTransaction,
\* finishCommittedTransaction, readRecoverableJournal).
THEOREM NothingIsLostInTurn == Spec /\ []OneMutation => []NothingIsLost
<1>1. SafeInv /\ Inv /\ IsFiniteSet(Holders) /\ OneMutation /\ [Next]_vars => SafeInv'
  BY SafeStep, OneIsExclusive
<1>2. SafeInv => NothingIsLost
  BY DEF SafeInv
<1> QED BY <1>1, <1>2, SafeInit, InvInit, InvStep, FinitelyManyHolders, PTL DEF Spec

---------------------------------------------------------------------------
(* Three processes                                                         *)

FewProcesses == IsFiniteSet(Process) /\ Cardinality(Process) <= 3

LEMMA OneMore ==
  ASSUME NEW S, IsFiniteSet(S), NEW n, Cardinality(S) = n, NEW x, x \notin S
  PROVE  IsFiniteSet(S \cup {x}) /\ Cardinality(S \cup {x}) = n + 1
BY FS_AddElement

LEMMA NoFourth ==
  ASSUME FewProcesses, NEW a \in Process, NEW b \in Process, NEW c \in Process, NEW d \in Process
  PROVE  a = b \/ a = c \/ a = d \/ b = c \/ b = d \/ c = d
<1> SUFFICES ASSUME a # b, a # c, a # d, b # c, b # d, c # d PROVE FALSE
  OBVIOUS
<1> PICK S, T, U : S = {a} \cup {b} /\ T = S \cup {c} /\ U = T \cup {d}
  OBVIOUS
<1>1. IsFiniteSet({a}) /\ Cardinality({a}) = 1
  BY FS_Singleton
<1>2. IsFiniteSet({a} \cup {b}) /\ Cardinality({a} \cup {b}) = 1 + 1
  BY <1>1, OneMore
<1>3. IsFiniteSet(S \cup {c}) /\ Cardinality(S \cup {c}) = 2 + 1
  BY <1>2, OneMore
<1>4. Cardinality(T \cup {d}) = 3 + 1
  BY <1>3, OneMore
<1>5. U \subseteq Process /\ IsFiniteSet(Process) /\ Cardinality(Process) <= 3
  BY DEF FewProcesses
<1>6. Cardinality(U) <= Cardinality(Process) /\ Cardinality(Process) \in Nat
  BY <1>5, FS_Subset, FS_CardinalityType
<1>7. Cardinality(U) = 4
  BY <1>4
<1> QED BY <1>5, <1>6, <1>7

\* Who has the lock, or is about to give it up, has its file under the name of
\* the lock, or some process took it there for the file of a third, dead one.
TakenFor(p) == \E q \in Process : aside[q] = p /\ seen[q] \in dead \ {q}

FewOK ==
  /\ \A q \in Process : seen[q] # q
  /\ \A p \in Process \ dead : at[p] \in {"held", "release", "unlock"} => lock = p \/ TakenFor(p)

LEMMA FewExclusive == ASSUME FewProcesses, Inv, FewOK PROVE Exclusive
<1> SUFFICES ASSUME NEW p \in Holders, NEW r \in Holders, p # r PROVE FALSE
  BY DEF Exclusive
<1>1. \A h \in Holders : h \in Process \ dead /\ aside[h] = NoOwner /\ (lock = h \/ TakenFor(h))
  BY DEF Holders, Inv, AsideOK, Locking, FewOK
<1>2. \A h, g \in Holders : TakenFor(h) => g = h
  <2> SUFFICES ASSUME NEW h \in Holders, NEW g \in Holders, TakenFor(h), g # h PROVE FALSE
    OBVIOUS
  <2>1. PICK q \in Process : aside[q] = h /\ seen[q] \in dead \ {q}
    BY DEF TakenFor
  <2>2. seen[q] \in Process /\ q # h /\ q # g /\ seen[q] # h /\ seen[q] # g /\ seen[q] # q
    BY <1>1, <2>1, LockAssumption DEF Inv, LockTypeOK
  <2> QED BY <1>1, <2>2, NoFourth
<1> QED BY <1>1, <1>2

\* A step that leaves alone what was taken
LEMMA FewKeeps ==
  ASSUME FewOK, UNCHANGED <<lock, aside, seen>>, dead \subseteq dead',
         \A p \in Process : at'[p] \in {"held", "release", "unlock"} =>
                              lock = p \/ at[p] \in {"held", "release", "unlock"}
  PROVE  FewOK'
BY DEF FewOK, TakenFor

\* The file that is moved is the mover's own, or was read to be of a dead one.
LEMMA FewMove ==
  ASSUME FewProcesses, Inv, FewOK, NEW q \in Process \ dead, NEW next \in {"stolen", "unlocked"},
         at[q] \in {"steal", "unlock"}, MoveAside(q, next)
  PROVE  FewOK'
<1>1. aside[q] = NoOwner /\ \A p \in Process : at[p] \in {"held", "release", "unlock"} => aside[p] = NoOwner
  BY DEF Inv, AsideOK, Locking
<1>2. CASE lock = NoOwner
  <2>1. UNCHANGED <<lock, aside, seen, dead>> /\ at' = [at EXCEPT ![q] = "failed"]
    BY <1>2 DEF MoveAside, GoTo
  <2> QED BY <2>1, FewKeeps DEF Inv, LockTypeOK
<1>3. CASE lock # NoOwner
  <2>1. /\ aside' = [aside EXCEPT ![q] = lock] /\ lock' = NoOwner
        /\ at' = [at EXCEPT ![q] = next] /\ UNCHANGED <<seen, dead>>
    BY <1>3 DEF MoveAside, GoTo
  <2>2. ASSUME NEW p \in Process \ dead, at'[p] \in {"held", "release", "unlock"} PROVE TakenFor(p)'
    <3>1. p # q /\ at[p] \in {"held", "release", "unlock"}
      BY <2>1, <2>2 DEF Inv, LockTypeOK
    <3>2. CASE lock = p
      <4>1. CASE at[q] = "steal"
        BY <2>1, <3>2, <4>1 DEF TakenFor, Inv, LockTypeOK, SeenOK, FewOK
      <4>2. CASE at[q] = "unlock"
        <5>1. PICK s \in Process : aside[s] = q /\ seen[s] \in dead \ {s}
          BY <3>1, <3>2, <4>2 DEF FewOK, TakenFor
        <5>2. seen[s] \in Process /\ s # q /\ s # p /\ seen[s] # p /\ seen[s] # q
          BY <1>1, <3>1, <5>1, LockAssumption DEF Inv, LockTypeOK
        <5> QED BY <3>1, <5>1, <5>2, NoFourth
      <4> QED BY <4>1, <4>2
    <3>3. CASE lock # p
      <4>1. PICK s \in Process : aside[s] = p /\ seen[s] \in dead \ {s}
        BY <3>1, <3>3 DEF FewOK, TakenFor
      <4>2. s # q
        BY <1>1, <4>1, LockAssumption
      <4> QED BY <2>1, <4>1, <4>2 DEF TakenFor, Inv, LockTypeOK
    <3> QED BY <3>2, <3>3
  <2> QED BY <2>1, <2>2 DEF FewOK
<1> QED BY <1>2, <1>3

\* What was aside is put back, or stays there.
LEMMA FewPutBack ==
  ASSUME Inv, FewOK, NEW q \in Process, PutBack(q), UNCHANGED <<seen, dead>> PROVE FewOK'
<1>1. \A p \in Process : at'[p] \in {"held", "release", "unlock"} => p # q /\ at[p] \in {"held", "release", "unlock"}
  BY DEF PutBack, GoTo, Inv, LockTypeOK
<1>2. CASE lock = NoOwner
  <2>1. lock' = aside[q] /\ aside' = [aside EXCEPT ![q] = NoOwner]
    BY <1>2 DEF PutBack
  <2>2. ASSUME NEW p \in Process \ dead, at'[p] \in {"held", "release", "unlock"} PROVE lock' = p \/ TakenFor(p)'
    <3>1. PICK s \in Process : aside[s] = p /\ seen[s] \in dead \ {s}
      BY <1>1, <1>2, <2>2, LockAssumption DEF FewOK, TakenFor
    <3> QED BY <2>1, <3>1 DEF TakenFor, Inv, LockTypeOK
  <2> QED BY <2>1, <2>2 DEF FewOK
<1>3. CASE lock # NoOwner
  <2>1. UNCHANGED <<lock, aside>>
    BY <1>3 DEF PutBack
  <2> QED BY <1>1, <2>1, FewKeeps
<1> QED BY <1>2, <1>3

LEMMA FewDrop ==
  ASSUME Inv, FewOK, NEW q \in Process, NEW next \in {"want", "out"}, DropAside(q, next), UNCHANGED <<seen, dead>>,
         \A p \in Process \ dead : at[p] \in {"held", "release", "unlock"} /\ aside[q] = p => p = q
  PROVE  FewOK'
BY DEF DropAside, GoTo, FewOK, TakenFor, Inv, LockTypeOK

LEMMA FewLock == ASSUME FewProcesses, Inv, FewOK, NEW q \in Process, LockStep(q) PROVE FewOK'
<1>1. ASSUME LinkLock(q) PROVE FewOK'
  BY <1>1, LockAssumption DEF LinkLock, At, GoTo, FewOK, TakenFor, Inv, LockTypeOK
<1>2. ASSUME ProveLock(q) \/ CheckOwner(q) PROVE FewOK'
  BY <1>2, FewKeeps DEF ProveLock, CheckOwner, At, GoTo, Inv, LockTypeOK
<1>3. ASSUME ReadOwner(q) PROVE FewOK'
  <2>1. aside[q] = NoOwner
    BY <1>3 DEF ReadOwner, At, Inv, AsideOK, Locking
  <2> QED BY <1>3, <2>1, LockAssumption DEF ReadOwner, At, GoTo, FewOK, TakenFor, Inv, LockTypeOK
<1>4. ASSUME TakeStale(q) \/ Unlock(q) PROVE FewOK'
  BY <1>4, FewMove DEF TakeStale, Unlock, At
<1>5. ASSUME ProveStale(q) PROVE FewOK'
  BY <1>5, FewDrop, FewPutBack DEF ProveStale, At, Inv, SeenOK
<1>6. ASSUME ProveUnlocked(q) PROVE FewOK'
  BY <1>6, FewDrop, FewPutBack DEF ProveUnlocked, At
<1> QED BY <1>1, <1>2, <1>3, <1>4, <1>5, <1>6 DEF LockStep

LEMMA FewInit == Init => FewOK
BY LockAssumption DEF Init, LockInit, FewOK

LEMMA FewStep == FewProcesses /\ Inv /\ FewOK /\ [Next]_vars => FewOK'
<1> SUFFICES ASSUME FewProcesses, Inv, FewOK, [Next]_vars PROVE FewOK'
  OBVIOUS
<1>1. ASSUME UNCHANGED lockVars PROVE FewOK'
  BY <1>1, FewKeeps DEF lockVars
<1>2. ASSUME NEW p \in Process, NEW place, GoTo(p, place), UNCHANGED <<lock, aside, seen>>, dead \subseteq dead',
             place \in {"want", "out"} \/ (place = "release" /\ at[p] = "held")
      PROVE  FewOK'
  <2>1. \A r \in Process : at'[r] \in {"held", "release", "unlock"} => at[r] \in {"held", "release", "unlock"}
    BY <1>2 DEF GoTo, Inv, LockTypeOK
  <2> QED BY <1>2, <2>1, FewKeeps
<1>4. CASE EditorMoves \/ UNCHANGED vars
  BY <1>1, <1>4 DEF EditorMoves, vars
<1>5. ASSUME NEW p \in Process, Start(p) \/ CheckPending(p) \/ MakePlan(p) \/ Perform(p) \/ Fault(p) PROVE FewOK'
  BY <1>1, <1>5 DEF Start, CheckPending, MakePlan, Perform, Fault
<1>6. ASSUME NEW p \in Process, RecoverPending(p) \/ Inspect(p) PROVE FewOK'
  BY <1>1, <1>2, <1>6 DEF RecoverPending, Inspect, Acquire
<1>7. ASSUME NEW p \in Process, Lock(p) PROVE FewOK'
  BY <1>7, FewLock DEF Lock
<1>8. ASSUME NEW p \in Process, Finished(p) \/ Leave(p) \/ Crash(p) PROVE FewOK'
  BY <1>2, <1>8 DEF Finished, Leave, Crash, At
<1> QED BY <1>4, <1>5, <1>6, <1>7, <1>8 DEF Next

\* With three processes or fewer, of which any may die, two are never in a
\* transaction at a time: to take the file of a live process for that of a dead
\* one needs a fourth.  Four processes refute it (acquireTransactionLock).
THEOREM ThreeExclude == Spec /\ FewProcesses => []OneMutation
<1>1. FewProcesses /\ Inv /\ FewOK /\ [Next]_vars => FewProcesses' /\ FewOK'
  BY FewStep DEF FewProcesses
<1>2. FewProcesses /\ Inv /\ FewOK => OneMutation
  BY FewExclusive, ExclusiveIsOne
<1> QED BY <1>1, <1>2, InvInit, InvStep, FewInit, PTL DEF Spec

\* ... so that with three or fewer no plist is lost, whatever overlaps.
THEOREM ThreeLoseNothing == Spec /\ FewProcesses => []NothingIsLost
BY ThreeExclude, NothingIsLostInTurn, PTL

---------------------------------------------------------------------------
(* Commands in turn                                                        *)

\* A command starts when no other is under way; those before it may have died
\* at any point.
InTurn == \A s \in Setups : ~s.overlap

SoloOK ==
  /\ setup \in Setups
  /\ \A p, q \in Process : Busy(p) /\ Busy(q) => p = q

LEMMA SoloExclusive == Inv /\ SoloOK => Exclusive
<1>1. ASSUME Inv PROVE \A p \in Holders : Busy(p)
  BY <1>1 DEF Inv, AsideOK, Holders, Busy, Alive, Locking
<1> QED BY <1>1 DEF SoloOK, Exclusive, Holders

LEMMA SoloKeeps ==
  ASSUME SoloOK, UNCHANGED setup, \A p \in Process : Busy(p)' => Busy(p) PROVE SoloOK'
BY DEF SoloOK

LEMMA SoloStep == InTurn /\ Inv /\ SoloOK /\ [Next]_vars => SoloOK'
<1> SUFFICES ASSUME InTurn, Inv, SoloOK, [Next]_vars PROVE SoloOK'
  OBVIOUS
<1>1. ASSUME UNCHANGED setup, dead \subseteq dead', NEW p \in Process, p \in dead \/ Busy(p),
             \A r \in Process \ {p} : proc'[r].stage = proc[r].stage
      PROVE  SoloOK'
  <2>1. \A r \in Process : Busy(r)' => Busy(r)
    BY <1>1 DEF Busy, Alive
  <2> QED BY <1>1, <2>1, SoloKeeps
<1>2. CASE EditorMoves \/ UNCHANGED vars
  <2>1. UNCHANGED <<proc, dead, setup>>
    BY <1>2 DEF EditorMoves, vars, lockVars, fileVars
  <2> QED BY <2>1, SoloKeeps DEF Busy, Alive
<1>3. ASSUME NEW p \in Process, Start(p) PROVE SoloOK'
  <2>1. UNCHANGED <<dead, setup>> /\ \A q \in Process : ~Busy(q)
    BY <1>3 DEF Start, lockVars, InTurn, SoloOK
  <2>2. \A r \in Process \ {p} : proc'[r] = proc[r]
    BY <1>3 DEF Start, Inv, Shape
  <2>3. \A r \in Process \ {p} : ~Busy(r)'
    BY <2>1, <2>2 DEF Busy, Alive
  <2> QED BY <2>1, <2>3 DEF SoloOK
<1>4. ASSUME NEW p \in Process, NEW stage, Enter(p, stage), UNCHANGED setup, dead \subseteq dead', Busy(p) PROVE SoloOK'
  <2>1. \A r \in Process \ {p} : proc'[r] = proc[r]
    BY <1>4, EnterShape DEF Inv
  <2> QED BY <1>1, <1>4, <2>1
<1>5. ASSUME NEW p \in Process, NEW stage, Acquire(p, stage), UNCHANGED <<setup, dead>>, Busy(p) PROVE SoloOK'
  <2>1. \A r \in Process \ {p} : proc'[r] = proc[r]
    BY <1>5 DEF Acquire, Inv, Shape
  <2> QED BY <1>1, <1>5, <2>1
<1>6. ASSUME NEW p \in Process, RecoverPending(p) \/ CheckPending(p) \/ Inspect(p) \/ Leave(p) \/ Crash(p) PROVE SoloOK'
  <2>1. Busy(p) /\ UNCHANGED setup /\ dead \subseteq dead'
    BY <1>6 DEF RecoverPending, CheckPending, Inspect, Leave, Crash, Busy, lockVars
  <2>2. (\E stage : Enter(p, stage)) \/ (dead' = dead /\ \E stage : Acquire(p, stage))
    BY <1>6 DEF RecoverPending, CheckPending, Inspect, Leave, Crash
  <2> QED BY <1>4, <1>5, <2>1, <2>2
<1>7. ASSUME NEW p \in Process, MakePlan(p) PROVE SoloOK'
  <2>1. Busy(p) /\ UNCHANGED <<setup, dead>>
    BY <1>7 DEF MakePlan, Busy, lockVars
  <2>2. \A r \in Process \ {p} : proc'[r] = proc[r]
    BY <1>7 DEF MakePlan, Inv, Shape
  <2> QED BY <1>1, <2>1, <2>2
<1>8. ASSUME NEW p \in Process, Lock(p) \/ Finished(p) PROVE SoloOK'
  <2>1. UNCHANGED <<proc, dead, setup>>
    BY <1>8, LockMoves DEF Lock, Finished, fileVars
  <2> QED BY <2>1, SoloKeeps DEF Busy, Alive
<1>9. ASSUME NEW p \in Process, Perform(p) \/ Fault(p) PROVE SoloOK'
  <2>1. Kept /\ UNCHANGED <<dead, setup>>
    BY <1>9, PerformKeeps, ThrowKeeps DEF Perform, Fault, Inv, lockVars
  <2> QED BY <2>1, SoloKeeps DEF Kept, Busy, Alive
<1> QED BY <1>2, <1>3, <1>6, <1>7, <1>8, <1>9 DEF Next

LEMMA SoloInit == Init => SoloOK
BY DEF Init, SoloOK, Busy

\* Any number of commands, one after the other, of which any may die at any
\* point, with editors at work: no plist is lost
\* (recoverPendingServiceMacosTransaction).
THEOREM TurnsLoseNothing == Spec /\ InTurn => []NothingIsLost
<1>1. InTurn /\ Inv /\ SoloOK /\ [Next]_vars => InTurn' /\ SoloOK'
  BY SoloStep DEF InTurn
<1>2. Inv /\ SoloOK => OneMutation
  BY SoloExclusive, ExclusiveIsOne
<1>3. Spec /\ InTurn => []OneMutation
  BY <1>1, <1>2, InvInit, InvStep, SoloInit, PTL DEF Spec
<1> QED BY <1>3, NothingIsLostInTurn, PTL
=============================================================================
