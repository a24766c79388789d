---------------------------- MODULE ServiceFiles ----------------------------
(***************************************************************************)
(* The files of a service's transaction, and the primitives its owner      *)
(* changes them with.  A file has as many links as there are names for it; *)
(* nothing is overwritten: a file is moved by linking it to a free name,   *)
(* and removed by renaming it to a fresh name first.                       *)
(*                                                                         *)
(* What a process still has to do is a sequence of operations.  The first  *)
(* one is executed, throws, or is replaced by the operations it stands     *)
(* for.  Names in the transaction directory are touched by the owner of    *)
(* the lock alone; "canonical", the installed plist, by an editor as well. *)
(***************************************************************************)
EXTENDS Naturals, FiniteSets, Sequences, TransactionLock

CONSTANTS
  Edit,     \* the files an editor can put in the place of the installed plist
  Trash     \* the names a file is given while it is being removed

Slots == {"journal", "next", "previous", "prior", "desired", "displaced"}
Names == {"canonical"} \cup Slots \cup Trash

Kinds == {"nothing", "torn", "original", "desired", "journal"}

ASSUME FilesAssumption ==
  /\ IsFiniteSet(Trash) /\ Trash \cap (Slots \cup {"canonical"}) = {}
  /\ Edit \cap Kinds = {}   \* an edit is the kind of its file

VARIABLES
  dir,        \* the file each name has
  root,       \* whether there is a transaction directory
  running,    \* the plist launchd has loaded
  proc,       \* what each process does
  committed,  \* observer: the transactions that wrote that they are committed
  restorer,   \* observer: the process that put the prior plist back
  owed        \* observer: the plists that were installed by whoever may install one

observers == <<committed, restorer, owed>>
fileVars == <<dir, root, running, proc, observers>>

File(is, of, phase) == [is |-> is, of |-> of, phase |-> phase]
Nothing  == File("nothing", NoOwner, "none")
Torn     == File("torn", NoOwner, "none")
Original == File("original", NoOwner, "none")
Edited(e)  == File(e, NoOwner, "none")
Desired(p) == File("desired", p, "none")
Journal(p, phase) == File("journal", p, phase)

Links(f) == Cardinality({n \in Names : dir[n] = f})
InTrash == {n \in Trash : dir[n] # Nothing}
RootIsEmpty == \A n \in Slots \cup Trash : dir[n] = Nothing

---------------------------------------------------------------------------
(* Programs.  "Then" replaces the first operation by the given ones.       *)

Ready(p, do) == At(p, "held") /\ proc[p].todo # <<>> /\ Head(proc[p].todo).do = do
Op(p) == Head(proc[p].todo)

Then(p, steps) == proc' = [proc EXCEPT ![p].todo = steps \o Tail(@)]

Do(do) == [do |-> do]
DoIn(do, phase) == [do |-> do, phase |-> phase]

Create(n, f) == [do |-> "create", name |-> n, file |-> f]
Move(n, to, f) == [do |-> "move", name |-> n, to |-> to, file |-> f]
Remove(n, f, links) == [do |-> "remove", name |-> n, file |-> f, links |-> links]
Check(n, f, links) == [do |-> "check", name |-> n, file |-> f, links |-> links]

\* What is thrown ends the program, except where the code catches it: a
\* transaction is undone from its journal, a committed one that cannot be
\* finished from the journal in hand.
Handler(p) ==
  CASE proc[p].mode = "forward" /\ root -> <<Do("read")>>
    [] proc[p].mode = "finish" -> <<DoIn("rollback", "committed")>>
    [] OTHER -> <<>>

Throw(p) ==
  proc' = [proc EXCEPT ![p].failed = TRUE, ![p].mode = "undo", ![p].todo = Handler(p)]

---------------------------------------------------------------------------
(* Primitives.                                                             *)

DoMkdir(p) ==
  /\ Ready(p, "mkdir")
  /\ IF root THEN Throw(p) /\ UNCHANGED root
             ELSE root' = TRUE /\ Then(p, <<>>)
  /\ UNCHANGED <<dir, running, observers>>

\* The directory goes only when it is empty; with it, the transaction.
DoRmdir(p) ==
  /\ Ready(p, "rmdir")
  /\ IF RootIsEmpty
       THEN /\ root' = FALSE /\ restorer' = NoOwner /\ Then(p, <<>>)
            /\ owed' = IF dir["canonical"] = Desired(proc[p].tx) THEN owed \cup {dir["canonical"]} ELSE owed
       ELSE Throw(p) /\ UNCHANGED <<root, restorer, owed>>
  /\ UNCHANGED <<dir, running, committed>>

\* A file exists before it has its contents.
DoCreate(p) ==
  /\ Ready(p, "create")
  /\ IF dir[Op(p).name] = Nothing
       THEN /\ dir' = [dir EXCEPT ![Op(p).name] = Torn]
            /\ Then(p, <<[do |-> "fill", name |-> Op(p).name, file |-> Op(p).file]>>)
       ELSE Throw(p) /\ UNCHANGED dir
  /\ UNCHANGED <<root, running, observers>>

DoFill(p) ==
  /\ Ready(p, "fill")
  /\ dir' = [dir EXCEPT ![Op(p).name] = Op(p).file]
  /\ committed' = IF Op(p).file.phase = "committed" THEN committed \cup {Op(p).file.of}
                                                    ELSE committed
  /\ Then(p, <<>>)
  /\ UNCHANGED <<root, running, restorer, owed>>

\* The new name is taken only if it is free, and the old one is given up
\* only when both are known to name the file.
DoMove(p) ==
  /\ Ready(p, "move")
  /\ LET o == Op(p) IN
     IF dir[o.name] = Nothing \/ dir[o.to] # Nothing
       THEN Throw(p) /\ UNCHANGED <<dir, restorer>>
       ELSE /\ dir' = [dir EXCEPT ![o.to] = dir[o.name]]
            /\ restorer' = IF o.name = "prior" THEN p ELSE restorer
            /\ Then(p, <<Check(o.to, o.file, 2), Remove(o.name, o.file, 2), Check(o.to, o.file, 1)>>)
  /\ UNCHANGED <<root, running, committed, owed>>

DoCheck(p) ==
  /\ Ready(p, "check")
  /\ LET o == Op(p) IN
     IF dir[o.name] = o.file /\ (o.file = Nothing \/ Links(o.file) = o.links)
       THEN Then(p, <<>>) ELSE Throw(p)
  /\ UNCHANGED <<dir, root, running, observers>>

\* The file is given a fresh name, at which it is dropped.  The bound: there
\* is a fresh one among the names in Trash.
DoRemove(p) ==
  /\ Ready(p, "remove") /\ InTrash # Trash
  /\ LET o == Op(p)
         t == CHOOSE t \in Trash : dir[t] = Nothing IN
     IF dir[o.name] # o.file \/ Links(o.file) # o.links
       THEN Throw(p) /\ UNCHANGED dir
       ELSE /\ dir' = [dir EXCEPT ![o.name] = Nothing, ![t] = o.file]
            /\ Then(p, <<[do |-> "discard", name |-> t]>>)
  /\ UNCHANGED <<root, running, observers>>

DoDiscard(p) ==
  /\ Ready(p, "discard")
  /\ dir' = [dir EXCEPT ![Op(p).name] = Nothing]
  /\ Then(p, <<>>)
  /\ UNCHANGED <<root, running, observers>>

DoThrow(p) ==
  /\ Ready(p, "throw")
  /\ Throw(p)
  /\ UNCHANGED <<dir, root, running, observers>>

---------------------------------------------------------------------------
(* launchd.                                                                *)

DoBootout(p) ==
  /\ Ready(p, "bootout")
  /\ IF running = Nothing /\ Op(p).required
       THEN Throw(p) /\ UNCHANGED running
       ELSE running' = Nothing /\ Then(p, <<>>)
  /\ UNCHANGED <<dir, root, observers>>

DoBootstrap(p) ==
  /\ Ready(p, "bootstrap")
  /\ IF running # Nothing \/ dir["canonical"] = Nothing
       THEN Throw(p) /\ UNCHANGED running
       ELSE running' = dir["canonical"] /\ Then(p, <<>>)
  /\ UNCHANGED <<dir, root, observers>>

\* The service that runs, or none, is the one that is meant.
DoProve(p) ==
  /\ Ready(p, "prove")
  /\ IF running = Op(p).file THEN Then(p, <<>>) ELSE Throw(p)
  /\ UNCHANGED <<dir, root, running, observers>>

Bootout(required) == [do |-> "bootout", required |-> required]
Prove(f) == [do |-> "prove", file |-> f]

Primitive(p) ==
  \/ DoMkdir(p) \/ DoRmdir(p) \/ DoCreate(p) \/ DoFill(p) \/ DoMove(p) \/ DoCheck(p)
  \/ DoRemove(p) \/ DoDiscard(p) \/ DoThrow(p) \/ DoBootout(p) \/ DoBootstrap(p) \/ DoProve(p)

---------------------------------------------------------------------------
(* The journal: each entry replaces its predecessor by way of two more     *)
(* names, and is read back whatever moves had been made.                   *)

Successors ==
  {<<"prepared", "prior-quarantined">>, <<"prepared", "desired-linked">>,
   <<"prepared", "committed">>, <<"prior-quarantined", "desired-linked">>,
   <<"prior-quarantined", "committed">>, <<"desired-linked", "desired-published">>,
   <<"desired-published", "committed">>}

IsSuccessor(f, g) == f.of = g.of /\ <<f.phase, g.phase>> \in Successors

\* completeJournalUpdate, and what is left of it once the old entry is aside
Publish(f, g) == <<Move("next", "journal", g), Remove("previous", f, 1)>>
Replace(f, g) == <<Move("journal", "previous", f)>> \o Publish(f, g)

\* The old entry may not be aside already.
DoUpdate(p) ==
  /\ Ready(p, "update")
  /\ LET f == Journal(proc[p].tx, Op(p).from)
         g == Journal(proc[p].tx, Op(p).phase) IN
     IF dir["previous"] # Nothing \/ ~IsSuccessor(f, g)
       THEN Throw(p)
       ELSE Then(p, <<Create("next", g)>> \o Replace(f, g))
  /\ UNCHANGED <<dir, root, running, observers>>

Update(from, phase) == [do |-> "update", from |-> from, phase |-> phase]

Readable(f, links) == f.is = "journal" /\ Links(f) <= links

\* mutant: only the names that are there are looked at, not whether two are one file.
RecoveredByNames ==
  LET C == dir["journal"]
      N == dir["next"]
      P == dir["previous"] IN
  CASE P = Nothing /\ N = Nothing /\ Readable(C, 1) -> [steps |-> <<>>, entry |-> C]
    [] P = Nothing /\ Readable(N, 1) /\ IsSuccessor(C, N) -> [steps |-> Replace(C, N), entry |-> N]
    [] C = Nothing /\ Readable(N, 2) /\ IsSuccessor(P, N) -> [steps |-> Publish(P, N), entry |-> N]
    [] N = Nothing /\ IsSuccessor(P, C) -> [steps |-> <<Remove("previous", P, 1)>>, entry |-> C]
    [] OTHER -> [steps |-> <<>>, entry |-> Nothing]

\* readRecoverableJournal: the moves that are left, and the entry they leave.
Repair(steps, f) == [steps |-> steps, entry |-> f]
Unreadable == Repair(<<>>, Nothing)

Recovered ==
  LET C == dir["journal"]
      N == dir["next"]
      P == dir["previous"]
      None(f) == f = Nothing
      Good(f) == None(f) \/ Readable(f, 2)
  IN
  IF None(P) /\ None(N) THEN IF Readable(C, 1) THEN Repair(<<>>, C) ELSE Unreadable
  ELSE IF ~Good(C) \/ ~Good(N) \/ ~Good(P) THEN Unreadable
  ELSE IF None(P)
    THEN IF ~None(C) /\ IsSuccessor(C, N) THEN Repair(Replace(C, N), N) ELSE Unreadable
  ELSE IF C = P /\ None(N)
    THEN Repair(<<Remove("previous", P, 2), Check("journal", C, 1)>>, C)
  ELSE IF C = P
    THEN IF IsSuccessor(P, N)
           THEN Repair(<<Remove("journal", C, 2)>> \o Publish(P, N), N) ELSE Unreadable
  ELSE IF ~None(C) /\ None(N)
    THEN IF IsSuccessor(P, C)
           THEN Repair(<<Check("journal", C, 1), Remove("previous", P, 1)>>, C) ELSE Unreadable
  ELSE IF ~None(C)
    THEN IF IsSuccessor(P, C) /\ C = N /\ Links(C) = 2
           THEN Repair(<<Remove("next", N, 2), Check("journal", C, 1), Remove("previous", P, 1)>>, C)
           ELSE Unreadable
  ELSE IF ~None(N) THEN IF IsSuccessor(P, N) THEN Repair(Publish(P, N), N) ELSE Unreadable
  ELSE Repair(<<Move("previous", "journal", P)>>, P)

\* What a reader does with the entry follows when the moves are made.
DoRead(p) ==
  /\ Ready(p, "read")
  /\ LET r == Recovered IN
     IF r.entry = Nothing
       THEN Throw(p)
       ELSE proc' = [proc EXCEPT ![p].tx = r.entry.of,
                                 ![p].todo = r.steps \o <<DoIn("resolve", r.entry.phase)>> \o Tail(@)]
  /\ UNCHANGED <<dir, root, running, observers>>
=============================================================================
