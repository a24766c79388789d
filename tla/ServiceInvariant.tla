-------------------------- MODULE ServiceInvariant --------------------------
(***************************************************************************)
(* Why no plist is lost while transactions exclude each other: what holds  *)
(* of the files, of the processes that do not have the lock, and of the    *)
(* program of the one that has it.                                         *)
(***************************************************************************)
EXTENDS ServiceTransaction

---------------------------------------------------------------------------
(* Files                                                                   *)

Phases == {"prepared", "prior-quarantined", "desired-linked", "desired-published", "committed"}

\* Only an entry of a journal has a phase, and it has a process.
FileOK(f) ==
  /\ f \in [is : Kinds \cup Edit, of : Process \cup {NoOwner}, phase : Phases \cup {"none"}]
  /\ IF f.is = "journal" THEN f.of \in Process /\ f.phase \in Phases ELSE f.phase = "none"

\* A process that has not begun a transaction: nothing of it is to be seen.
Fresh(x) == proc[x].stage \notin {"transact", "done"} \/ proc[x].todo = <<Do("transact")>>

JournalNames == {"journal", "next", "previous"} \cup Trash

DirOK ==
  /\ DOMAIN dir = Names
  /\ \A n \in Names :
       /\ FileOK(dir[n])
       /\ dir[n].is = "journal" =>
            /\ n \in JournalNames
            /\ dir[n].phase = "committed" => dir[n].of \in committed
            /\ Desired(dir[n].of) \notin owed
  /\ ~root => RootIsEmpty

\* Nothing that is torn or of the journal is ever installed.
OwedOK ==
  /\ \A f \in owed : f.is \notin {"nothing", "torn", "journal"}
  /\ committed \subseteq Process

FreshOK ==
  \A x \in Process : Fresh(x) =>
    /\ x \notin committed /\ Desired(x) \notin owed
    /\ \A n \in Names : dir[n].of # x

---------------------------------------------------------------------------
(* Processes                                                               *)

\* Who waits for the lock has done nothing yet; who needs none has no part in
\* the transaction of another.
WaitingOK ==
  \A q \in Process :
    /\ proc[q].tx \in Process
    /\ proc[q].stage \notin {"recover", "transact", "done"} => proc[q].tx = q
    /\ at[q] \in Acquiring =>
         proc[q].tx = q /\ proc[q].mode = "open" /\ proc[q].todo = <<Do(proc[q].stage)>>

\* An editor puts there what editors write.
EditsOK == "edits" \in DOMAIN left /\ left.edits \subseteq Edit

---------------------------------------------------------------------------
(* The program of the process that has the lock                            *)

IsSeq(s) == Len(s) \in Nat /\ DOMAIN s = 1..Len(s) /\ s = [i \in 1..Len(s) |-> s[i]]

\* Nothing follows these, ...
Finals == {"recover", "transact", "read", "resolve", "finish", "rollback"}
\* ... these are what a program begins with, ...
HeadOnly == {"recover", "transact", "mkdir", "fill", "discard"}
\* ... and after the first of these come none of the second.
Enders == {"quarantine", "publish", "discardAll", "cleanup", "rmdir"}
Changing == {"body", "quarantine", "move", "remove", "restore", "cleanup", "discardAll"}

Follows(a, b) ==
  /\ a.do \notin Finals /\ b.do \notin HeadOnly
  /\ a.do \in Enders => b.do \notin Changing

\* A directory goes at the end of a program, or before what throws.
Ending == {"discardAll", "cleanup", "rmdir"}

Moves == {<<"journal", "previous">>, <<"next", "journal">>, <<"previous", "journal">>,
          <<"prior", "canonical">>, <<"displaced", "canonical">>}

Written(n, f, p) ==
  \/ n = "desired" /\ f = Desired(p)
  \/ n \in {"journal", "next"} /\ \E phase \in Phases : f = Journal(p, phase)

\* own: whether the transaction is the process's own
OpOK(o, p, own, mode) ==
  /\ o.do \in {"create", "fill", "update", "body", "quarantine", "publish", "mkdir", "transact"} => own
  /\ o.do \in {"create", "fill"} => Written(o.name, o.file, p)
  /\ o.do \in {"recover", "transact", "mkdir"} => mode = "open"
  /\ o.do \in {"quarantine", "publish", "discardAll"} => mode = "forward"
  /\ o.do = "move" => <<o.name, o.to>> \in Moves
  /\ o.do = "remove" => o.name \in Slots
  /\ o.do = "discard" => o.name \in Trash

WellFormed(s, p, own, mode) ==
  /\ IsSeq(s)
  /\ \A i \in 1..Len(s) : OpOK(s[i], p, own, mode)
  /\ \A i, j \in 1..Len(s) : i < j => Follows(s[i], s[j])
  /\ \A i \in 1..(Len(s) - 1) : s[i].do \in Ending => s[i + 1].do = "throw" /\ mode = "forward"

\* What a committed transaction expected to find may go.
Expected(f) == \E c \in committed : proc[c].plan.file = f

\* The files that may be removed by their last name
Removable(f, x) == f.is = "journal" \/ (f = Desired(x) /\ f \notin owed) \/ Expected(f)

RemovesOK(s, x) ==
  \A i \in 1..Len(s) : s[i].do = "remove" => s[i].links >= 2 \/ Removable(s[i].file, x)

Restoring(o) == o.do = "restore" \/ (o.do \in {"move", "remove"} /\ o.name = "prior")

\* The prior plist is not overwritten, and goes only with a commit or back to
\* where it was.
PriorOK(s) ==
  dir["prior"] # Nothing =>
    /\ \A i \in 1..Len(s) : s[i].do \notin {"body", "quarantine"}
    /\ \/ \E i \in 1..Len(s) : Restoring(s[i])
       \/ \A i \in 1..Len(s) : s[i].do = "cleanup" => s[i].phase = "committed"

\* What has two names keeps one, what has one may go.
Dropped(t) ==
  dir[t] \in owed => Expected(dir[t]) \/ \E n \in Names \ {t} : dir[n] = dir[t]

HeadOK(s) ==
  s # <<>> =>
    /\ Head(s).do = "fill" => dir[Head(s).name] = Torn
    /\ Head(s).do = "discard" => Dropped(Head(s).name)

\* After the end of the transaction, and of its directory, nothing is done.
Resting(s, mode) == s = <<>> \/ (Head(s).do = "throw" /\ mode = "forward")

EndOK(s, mode, x) ==
  /\ ~root => Resting(s, mode) \/ Head(s).do \in {"recover", "transact", "mkdir"}
  /\ Desired(x) \in owed => ~root /\ Resting(s, mode)

Own(p) == proc[p].stage = "transact" /\ proc[p].tx = p

ProgramOK(p) ==
  LET s == proc[p].todo IN
  /\ WellFormed(s, p, Own(p), proc[p].mode)
  /\ RemovesOK(s, proc[p].tx)
  /\ PriorOK(s)
  /\ HeadOK(s)
  /\ EndOK(s, proc[p].mode, proc[p].tx)
  /\ proc[p].tx = p \/ ~Fresh(proc[p].tx)

---------------------------------------------------------------------------
\* At most one process has the lock as far as it knows.
Exclusive == \A p, q \in Holders : p = q

SafeInv ==
  /\ DirOK /\ OwedOK /\ FreshOK /\ WaitingOK /\ EditsOK
  /\ \A p \in Holders : ProgramOK(p)
  /\ NothingIsLost
=============================================================================
