-------------------------- MODULE ServiceTransaction --------------------------
(***************************************************************************)
(* Installing and removing the plist of a service: one transaction at a    *)
(* time, under a lock, undone or finished from its journal by whoever      *)
(* comes next when its process dies.                                       *)
(***************************************************************************)
EXTENDS ServiceFiles

CONSTANT Setups   \* the worlds a run starts from

VARIABLES setup, left

vars == <<lockVars, fileVars, setup, left>>

Jobs == {"apply", "remove", "recover"}

ASSUME SetupsAssumption ==
  \A s \in Setups :
    /\ s.jobs \subseteq Jobs /\ s.files \subseteq {Nothing, Original} /\ s.edits \subseteq Edit
    /\ s.faults \in Nat /\ s.crashes \in Nat /\ s.overlap \in BOOLEAN
Modes == {"open", "forward", "finish", "undo"}
Stages == {"idle", "pending", "recover", "check", "plan", "inspect", "transact", "done"}

NoPlan == [file |-> Nothing, loaded |-> FALSE]

Init ==
  /\ LockInit
  /\ setup \in Setups
  /\ left = [edits |-> setup.edits, faults |-> setup.faults, crashes |-> setup.crashes]
  /\ \E file \in setup.files, loaded \in BOOLEAN :
       /\ loaded => file = Original
       /\ dir = [n \in Names |-> IF n = "canonical" THEN file ELSE Nothing]
       /\ running = IF loaded THEN file ELSE Nothing
  /\ root = FALSE
  /\ proc = [p \in Process |-> [job |-> "recover", stage |-> "idle", planned |-> FALSE, plan |-> NoPlan, todo |-> <<>>,
                                mode |-> "open", tx |-> p, failed |-> FALSE]]
  /\ committed = {}
  /\ restorer = NoOwner
  /\ owed = {dir["canonical"]} \ {Nothing}

---------------------------------------------------------------------------
(* A transaction.  The plan of its process is what its journal expects.    *)

Plan(p) == proc[proc[p].tx].plan
IsApply(p) == proc[proc[p].tx].job = "apply"
MyDesired(p) == Desired(proc[p].tx)
FirstPhase(p) == IF Plan(p).file = Nothing THEN "prepared" ELSE "prior-quarantined"

\* isKnownDesired: what the journal says was published, or is still staged
Known(p, f, phase) ==
  /\ IsApply(p) /\ f = MyDesired(p)
  /\ phase \notin {"prepared", "prior-quarantined"} \/ dir["desired"] = f

DoTransact(p) ==
  /\ Ready(p, "transact")
  /\ IF root
       THEN Throw(p)
       ELSE proc' = [proc EXCEPT ![p].tx = p,
                                 ![p].todo = <<Do("mkdir"), Create("journal", Journal(p, "prepared")), Do("body")>>]
  /\ UNCHANGED <<dir, root, running, observers>>

When(condition, steps) == IF condition THEN steps ELSE <<>>

ApplySteps(p) ==
  <<Create("desired", Desired(p))>>
  \o When(Plan(p).file # Nothing, <<Do("quarantine")>>)
  \o <<Do("publish")>>
  \o When(Plan(p).loaded, <<Bootout(TRUE)>>)
  \o <<Do("bootstrap"), Check("canonical", Desired(p), 1), Prove(Desired(p)),
       Update("desired-published", "committed"), Do("finish")>>

RemoveSteps(p) ==
  When(Plan(p).file # Nothing, <<Do("quarantine")>>)
  \o When(Plan(p).loaded, <<Bootout(TRUE)>>)
  \o <<Prove(Nothing), Check("canonical", Nothing, 0), Update(FirstPhase(p), "committed"), Do("finish")>>

\* Once there is a journal, what is thrown is undone.
DoBody(p) ==
  /\ Ready(p, "body")
  /\ proc' = [proc EXCEPT ![p].mode = "forward",
                          ![p].todo = IF IsApply(p) THEN ApplySteps(p) ELSE RemoveSteps(p)]
  /\ UNCHANGED <<dir, root, running, observers>>

\* quarantineExpectedPrior: whatever has the name is moved, then looked at.
DoQuarantine(p) ==
  /\ Ready(p, "quarantine")
  /\ LET f == dir["canonical"] IN
     IF f = Nothing
       THEN Throw(p) /\ UNCHANGED dir
       ELSE /\ dir' = [dir EXCEPT !["canonical"] = Nothing, !["prior"] = f]
            /\ Then(p, IF f = Plan(p).file
                         THEN <<Update("prepared", "prior-quarantined")>>
                         ELSE <<Move("prior", "canonical", f), Do("discardAll"), Do("throw")>>)
  /\ UNCHANGED <<root, running, observers>>

\* publishDesired
DoPublish(p) ==
  /\ Ready(p, "publish")
  /\ IF dir["canonical"] # Nothing
       THEN /\ IF Plan(p).file = Nothing THEN Then(p, <<Do("discardAll"), Do("throw")>>) ELSE Throw(p)
            /\ UNCHANGED dir
       ELSE /\ dir' = [dir EXCEPT !["canonical"] = dir["desired"]]
            /\ Then(p, <<Check("canonical", Desired(p), 2), Update(FirstPhase(p), "desired-linked"),
                         Remove("desired", Desired(p), 2), Check("canonical", Desired(p), 1),
                         Update("desired-linked", "desired-published")>>)
  /\ UNCHANGED <<root, running, observers>>

\* finishCommittedTransaction
DoFinish(p) ==
  /\ Ready(p, "finish")
  /\ LET f == dir["canonical"]
         cleanup == DoIn("cleanup", "committed") IN
     CASE IsApply(p) /\ Known(p, f, "committed") ->
            Then(p, <<Prove(f), Check("canonical", f, Links(f)), cleanup>>)
       [] ~IsApply(p) /\ f = Nothing ->
            Then(p, When(running # Nothing, <<Bootout(FALSE), Prove(Nothing)>>)
                    \o <<Check("canonical", Nothing, 0), cleanup>>)
       [] OTHER -> Throw(p)
  /\ UNCHANGED <<dir, root, running, observers>>

---------------------------------------------------------------------------
(* Undoing and cleaning up.                                                *)

\* rollbackTransaction, up to the first change: what it refuses ...
PriorIsUnknown(p) ==
  LET f == dir["prior"] IN
  f # Nothing /\ ~(f = Plan(p).file /\ (Links(f) = 1 \/ (Links(f) = 2 /\ dir["canonical"] = f)))

DisplacedIsUnknown(p, phase) ==
  dir["displaced"] # Nothing /\ ~Known(p, dir["displaced"], phase)

CanonicalIsNotMine(p, phase) ==
  /\ dir["prior"] = Nothing
  /\ IF Plan(p).file # Nothing
       THEN dir["canonical"] # Plan(p).file
       ELSE /\ dir["canonical"] # Nothing /\ ~Known(p, dir["canonical"], phase)
            /\ ~(phase = "prepared" /\ dir["desired"] # Nothing /\ Links(dir["desired"]) = 1)

\* mutant: the journal is believed, not the directory
NothingToUndoByPhase(p, phase) == phase = "prepared"

\* ... and when there is nothing to undo.
NothingToUndo(p, phase) ==
  dir["prior"] = Nothing /\ (Plan(p).file = Nothing => ~Known(p, dir["canonical"], phase))

DoRollback(p) ==
  /\ Ready(p, "rollback")
  /\ LET phase == Op(p).phase IN
     IF PriorIsUnknown(p) \/ DisplacedIsUnknown(p, phase) \/ CanonicalIsNotMine(p, phase)
       THEN Throw(p)
       ELSE Then(p, When(~NothingToUndo(p, phase),
                         <<Bootout(FALSE),
                           [do |-> "displace", file |-> dir["canonical"], links |-> Links(dir["canonical"]),
                            known |-> Known(p, dir["canonical"], phase)]>>
                         \o (IF Plan(p).file = Nothing THEN <<Check("canonical", Nothing, 0)>>
                                                       ELSE <<Do("restore")>>))
                    \o <<DoIn("cleanup", phase)>>)
  /\ UNCHANGED <<dir, root, running, observers>>

\* What was seen to be published is moved aside, and looked at.
DoDisplace(p) ==
  /\ Ready(p, "displace")
  /\ LET o == Op(p)
         f == dir["canonical"] IN
     IF o.file \in {Nothing, Plan(p).file} \/ (o.known /\ dir["displaced"] = o.file)
       THEN Then(p, <<>>) /\ UNCHANGED dir
     ELSE IF ~o.known \/ dir["displaced"] # Nothing \/ f = Nothing
       THEN Throw(p) /\ UNCHANGED dir
     ELSE
       /\ dir' = [dir EXCEPT !["canonical"] = Nothing, !["displaced"] = f]
       /\ Then(p, IF f = o.file /\ Links(f) = o.links
                    THEN <<>> ELSE <<Move("displaced", "canonical", f), Do("throw")>>)
  /\ UNCHANGED <<root, running, observers>>

\* mutant: the plist is put back, its service is not
RestoreFileOnly(p) ==
  /\ Ready(p, "restore")
  /\ LET f == Plan(p).file IN
     IF dir["prior"] # f \/ dir["canonical"] \notin {Nothing, f}
       THEN Throw(p)
       ELSE Then(p, IF dir["canonical"] = Nothing
                      THEN <<Move("prior", "canonical", f)>> ELSE <<Remove("prior", f, Links(f))>>)
  /\ UNCHANGED <<dir, root, running, observers>>

DoRestore(p) ==
  /\ Ready(p, "restore")
  /\ LET f == Plan(p).file
         back == <<Check("canonical", f, 1)>>
                 \o When(Plan(p).loaded, <<Do("bootstrap"), Prove(f)>>) \o <<Check("canonical", f, 1)>> IN
     IF dir["prior"] # f \/ dir["canonical"] \notin {Nothing, f}
       THEN Throw(p)
       ELSE Then(p, (IF dir["canonical"] = Nothing
                       THEN <<Move("prior", "canonical", f)>> ELSE <<Remove("prior", f, Links(f))>>)
                    \o back)
  /\ UNCHANGED <<dir, root, running, observers>>

\* cleanupTransactionDirectory: all that is there is known, or all stays.
Unclean(p, phase) ==
  \/ InTrash # {} \/ dir["next"] # Nothing \/ dir["previous"] # Nothing
  \/ dir["journal"] # Journal(proc[p].tx, phase) \/ Links(dir["journal"]) # 1
  \/ dir["prior"] # Nothing /\ (dir["prior"] # Plan(p).file \/ Links(dir["prior"]) # 1)
  \/ dir["desired"] # Nothing /\ ~(IsApply(p) /\ dir["desired"] = MyDesired(p))
  \/ DisplacedIsUnknown(p, phase)

DoCleanup(p) ==
  /\ Ready(p, "cleanup")
  /\ LET f == MyDesired(p)
         both == dir["desired"] # Nothing /\ dir["displaced"] # Nothing IN
     IF Unclean(p, Op(p).phase)
       THEN Throw(p)
       ELSE Then(p, When(dir["desired"] # Nothing, <<Remove("desired", f, Links(f))>>)
                    \o When(dir["displaced"] # Nothing,
                            <<Remove("displaced", f, IF both THEN Links(f) - 1 ELSE Links(f))>>)
                    \o When(dir["prior"] # Nothing, <<Remove("prior", dir["prior"], 1)>>)
                    \o <<Remove("journal", dir["journal"], 1), Do("rmdir")>>)
  /\ UNCHANGED <<dir, root, running, observers>>

\* discardPreparedTransaction
DoDiscardAll(p) ==
  /\ Ready(p, "discardAll")
  /\ IF dir["prior"] # Nothing \/ dir["displaced"] # Nothing
       THEN Throw(p) ELSE Then(p, <<DoIn("cleanup", "prepared")>>)
  /\ UNCHANGED <<dir, root, running, observers>>

---------------------------------------------------------------------------
(* Recovery.                                                               *)

DoRecover(p) ==
  /\ Ready(p, "recover")
  /\ Then(p, IF ~root THEN <<>> ELSE IF RootIsEmpty THEN <<Do("rmdir")>> ELSE <<Do("read")>>)
  /\ UNCHANGED <<dir, root, running, observers>>

\* Who undoes what it failed to do does not finish it.
DoResolve(p) ==
  /\ Ready(p, "resolve")
  /\ LET finish == Op(p).phase = "committed" /\ proc[p].mode = "open" IN
     proc' = [proc EXCEPT ![p].mode = IF finish THEN "finish" ELSE "undo",
                          ![p].todo = IF finish THEN <<Do("finish")>> ELSE <<DoIn("rollback", Op(p).phase)>>]
  /\ UNCHANGED <<dir, root, running, observers>>

Perform(p) ==
  /\ \/ Primitive(p) \/ DoUpdate(p) \/ DoRead(p)
     \/ DoTransact(p) \/ DoBody(p) \/ DoQuarantine(p) \/ DoPublish(p) \/ DoFinish(p)
     \/ DoRollback(p) \/ DoDisplace(p) \/ DoRestore(p) \/ DoCleanup(p) \/ DoDiscardAll(p)
     \/ DoRecover(p) \/ DoResolve(p)
  /\ UNCHANGED <<lockVars, setup, left>>

\* launchctl or the file system fails, or the process is interrupted by it.
Fault(p) ==
  /\ At(p, "held") /\ proc[p].todo # <<>> /\ left.faults > 0
  /\ left' = [left EXCEPT !.faults = @ - 1]
  /\ Throw(p)
  /\ UNCHANGED <<lockVars, dir, root, running, observers, setup>>

---------------------------------------------------------------------------
(* A process: plan, recover what is pending, look again, transact.         *)

Alive(p) == p \notin dead
Busy(p) == Alive(p) /\ proc[p].stage \notin {"idle", "done"}

Pending == root \/ lock # NoOwner

\* Enter a stage; the one that needs the lock starts by acquiring it.
Enter(p, stage) ==
  proc' = [proc EXCEPT ![p].stage = stage, ![p].todo = <<>>, ![p].mode = "open", ![p].tx = p, ![p].failed = FALSE]
Acquire(p, stage) ==
  /\ proc' = [proc EXCEPT ![p].stage = stage, ![p].todo = <<Do(stage)>>, ![p].mode = "open"]
  /\ GoTo(p, "want")

\* A command recovers what is pending, and goes on if that succeeds.
Start(p) ==
  /\ Alive(p) /\ proc[p].stage = "idle"
  /\ setup.overlap \/ \A q \in Process : ~Busy(q)
  /\ \E job \in setup.jobs : proc' = [proc EXCEPT ![p].job = job, ![p].stage = "pending"]
  /\ UNCHANGED <<lockVars, dir, root, running, observers, setup, left>>

Onward(p) ==
  IF proc[p].job = "recover" THEN "done" ELSE IF proc[p].planned THEN "inspect" ELSE "check"

RecoverPending(p) ==
  /\ Alive(p) /\ proc[p].stage = "pending"
  /\ IF Pending
       THEN Acquire(p, "recover") /\ UNCHANGED <<lock, aside, seen, dead>>
       ELSE Enter(p, Onward(p)) /\ UNCHANGED lockVars
  /\ UNCHANGED <<dir, root, running, observers, setup, left>>

\* Planning refuses what is pending ...
CheckPending(p) ==
  /\ Alive(p) /\ proc[p].stage = "check"
  /\ Enter(p, IF Pending THEN "done" ELSE "plan")
  /\ UNCHANGED <<lockVars, dir, root, running, observers, setup, left>>

\* ... a service that is loaded without a plist, and what would change nothing.
MakePlan(p) ==
  /\ Alive(p) /\ proc[p].stage = "plan"
  /\ LET plan == [file |-> dir["canonical"], loaded |-> running # Nothing] IN
     proc' = IF plan.file = Nothing /\ (plan.loaded \/ proc[p].job = "remove")
               THEN [proc EXCEPT ![p].stage = "done"]
               ELSE [proc EXCEPT ![p].stage = "pending", ![p].plan = plan, ![p].planned = TRUE]
  /\ UNCHANGED <<lockVars, dir, root, running, observers, setup, left>>

\* The last look before the transaction; the lock is not held.
Inspect(p) ==
  /\ Alive(p) /\ proc[p].stage = "inspect"
  /\ IF proc[p].plan = [file |-> dir["canonical"], loaded |-> running # Nothing]
       THEN Acquire(p, "transact") /\ UNCHANGED <<lock, aside, seen, dead>>
       ELSE Enter(p, "done") /\ UNCHANGED lockVars
  /\ UNCHANGED <<dir, root, running, observers, setup, left>>

Finished(p) ==
  /\ At(p, "held") /\ proc[p].todo = <<>>
  /\ GoTo(p, "release")
  /\ UNCHANGED <<lock, aside, seen, dead, fileVars, setup, left>>

\* The lock is released, or was not to be had.
Leave(p) ==
  /\ Alive(p) /\ proc[p].stage \in {"recover", "transact"} /\ at[p] \in {"out", "failed"}
  /\ GoTo(p, "out")
  /\ Enter(p, IF at[p] = "out" /\ proc[p].stage = "recover" /\ ~proc[p].failed THEN Onward(p) ELSE "done")
  /\ UNCHANGED <<lock, aside, seen, dead, dir, root, running, observers, setup, left>>

\* A process that dies before it tries for the lock leaves nothing.
Crash(p) ==
  /\ Busy(p) /\ at[p] # "out" /\ left.crashes > 0
  /\ dead' = dead \cup {p}
  /\ GoTo(p, "out") /\ Enter(p, "done")
  /\ left' = [left EXCEPT !.crashes = @ - 1]
  /\ UNCHANGED <<lock, aside, seen, dir, root, running, observers, setup>>

\* An editor replaces, creates or removes the installed plist.
EditorMoves ==
  /\ \E p \in Process : Busy(p)
  /\ \E e \in left.edits :
       /\ left' = [left EXCEPT !.edits = @ \ {e}]
       /\ \E f \in {Edited(e), Nothing} :
            /\ f # dir["canonical"]
            /\ dir' = [dir EXCEPT !["canonical"] = f]
            /\ owed' = (owed \ {dir["canonical"]}) \cup ({f} \ {Nothing})
  /\ UNCHANGED <<lockVars, root, running, proc, committed, restorer, setup>>

Lock(p) == LockStep(p) /\ UNCHANGED <<fileVars, setup, left>>

Next ==
  \/ EditorMoves
  \/ \E p \in Process :
       \/ Start(p) \/ RecoverPending(p) \/ CheckPending(p) \/ MakePlan(p) \/ Inspect(p) \/ Lock(p)
       \/ Perform(p) \/ Fault(p) \/ Finished(p) \/ Leave(p) \/ Crash(p)

Spec == Init /\ [][Next]_vars

---------------------------------------------------------------------------
(* Properties.                                                             *)

\* Every process is at a known place of its command, with the
\* state of the lock and the stage of the command consistent (reconciler.ts).
TypeOK ==
  /\ LockTypeOK
  /\ DOMAIN dir = Names
  /\ \A p \in Process :
       /\ proc[p].job \in Jobs /\ proc[p].stage \in Stages /\ proc[p].mode \in Modes
       /\ proc[p].tx \in Process
       /\ at[p] # "out" => proc[p].stage \in {"recover", "transact"}
  /\ committed \subseteq Process /\ restorer \in Process \cup {NoOwner}

\* Undisturbed: no editor at work and no failing call, only crashes.
Undisturbed == left.edits = setup.edits /\ left.faults = setup.faults

\* Whoever holds the lock has its file under the name of the lock, or somebody
\* took it for the file of a dead process and has it aside: while several
\* processes race for a stale lock, no live one is dropped, and two transactions
\* are at work only when a live lock is aside (acquireTransactionLock).
HolderHasItsLock == \A p \in Holders : lock = p \/ \E q \in Process : aside[q] = p

\* Transactions exclude each other (acquireTransactionLock).  Four processes
\* refute it: see MCServiceLock.cfg.
OneMutation == Cardinality(Holders) <= 1

\* No plist is lost: what was installed before, what an editor put there and
\* what a transaction left installed stays under some name, unless the editor
\* took it away or a transaction that expected it wrote that it is committed.
NothingIsLost ==
  \A f \in owed :
    \/ \E n \in Names : dir[n] = f
    \/ \E p \in committed : proc[p].plan.file = f

\* The plist the plan expected is gone: another transaction came in between.
Overtaken(p) ==
  /\ proc[p].tx \notin committed
  /\ IF Plan(p).file = Nothing THEN dir["canonical"] \notin {Nothing, MyDesired(p)}
                              ELSE \A n \in Names : dir[n] # Plan(p).file

\* Between crashes at any point, a transaction happens or does not: when its
\* directory goes, either the new plist is installed and runs, or the service
\* is removed, or the plist of before is back, and runs if it did.  Two
\* exceptions: a transaction that was overtaken leaves what came in between,
\* and a service whose plist was put back by a process that went no further is
\* not started (rollbackTransaction, finishCommittedTransaction).
AllOrNothing ==
  [][ \A p \in Process :
        root /\ ~root' /\ left.edits = setup.edits /\ Ready(p, "rmdir") /\ proc[p].mode \in {"forward", "finish", "undo"} =>
          LET Now == [file |-> dir["canonical"], running |-> running]
              Before == [file |-> Plan(p).file, running |-> IF Plan(p).loaded THEN Plan(p).file ELSE Nothing]
              After == IF IsApply(p) THEN [file |-> MyDesired(p), running |-> MyDesired(p)]
                                     ELSE [file |-> Nothing, running |-> Nothing] IN
          IF proc[p].tx \in committed /\ proc[p].mode # "undo" THEN Now = After
          ELSE \/ Overtaken(p)
               \/ Now.file = Before.file /\ (restorer \in {NoOwner, p} => Now = Before) ]_vars

\* A crash alone does not leave a transaction that recovery refuses, except at
\* the points named here: while a file was being written or removed, after the
\* staged plist was dropped although the published one is displaced, and in a
\* transaction whose plan was stale before it had the lock.
RefusesOnlyWithCause ==
  \A p \in Process :
    proc[p].stage = "recover" /\ proc[p].failed /\ Undisturbed =>
      \/ InTrash # {}
      \/ \E n \in Slots : dir[n] = Torn
      \/ dir["displaced"] # Nothing /\ dir["desired"] = Nothing
      \/ Overtaken(p)
=============================================================================
