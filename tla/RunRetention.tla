---------------------------- MODULE RunRetention ----------------------------
(***************************************************************************)
(* What the execution journal of state-local keeps in artifacts, and how   *)
(* it retires it: the publication intents, the settlement of runs, and the *)
(* retention of terminal runs, over the artifact store.                    *)
(*                                                                         *)
(* The journal runs one operation at a time (execution.ts, #enqueue), but  *)
(* the sweep of the artifact store (store.ts, maintain) is not one of its  *)
(* operations and may come between two artifacts of one.  A maintenance    *)
(* pass is modelled run by run: its limit may cut it anywhere.             *)
(*                                                                         *)
(* There is one conversation.  A transcript and a response are of one run; *)
(* the other contents are attachments, which runs may share.               *)
(***************************************************************************)
EXTENDS ArtifactStore, Sequences, SequencesExt

CONSTANTS
  Run, NoRun,
  Transcript, Response,   \* per run: its artifacts of the internal slots
  EventPages,             \* pages of the events of a run
  MaxTroubles,            \* how many operations fail and processes die
  TornWrites              \* a crash may leave a blob half-written

ASSUME RunAssumption ==
  /\ NoRun \notin Run
  /\ Transcript \in [Run -> Artifact] /\ Response \in [Run -> Artifact]
  /\ \A r, q \in Run : /\ Transcript[r] # Response[q]
                       /\ Transcript[r] = Transcript[q] => r = q
                       /\ Response[r] = Response[q] => r = q
  /\ EventPages \in Nat /\ MaxTroubles \in Nat
  /\ TornWrites \in BOOLEAN

Attachment == {a \in Artifact : \A r \in Run : a \notin {Transcript[r], Response[r]}}

VARIABLES
  run,           \* per run: status, pages of events, refs of its records
  conversation,  \* the run whose transcript artifact the conversation names
  mentioned,     \* the attachments its entries name
  intent,        \* per run: the publication intent
  checkpoint,    \* per run: the retention checkpoint
  task,          \* the journal operation under way
  up,            \* the store is open
  troubles       \* failures and crashes so far

records == <<run, conversation, mentioned, intent, checkpoint>>
vars == <<files, io, records, task, up, troubles>>

\* "orphaned" is a running run whose process is gone, "shown" one that settled
\* with a transcript and a response, "failed" one that ended without.
Status == {"absent", "running", "orphaned", "shown", "failed", "retired"}

NoIntent == [artifacts |-> {}, cleanup |-> {}]   \* and the record is absent
NoCheckpoint == [set |-> FALSE, artifacts |-> <<>>]
Idle == [do |-> "none", run |-> NoRun, left |-> <<>>, fresh |-> {}, tried |-> {},
         kept |-> FALSE]

\* left: the artifacts still to handle; fresh: activatedSlots; tried:
\* possiblyPublished; kept: referencedArtifact.
TaskOK ==
  /\ task \in [do : {"none", "stage", "settle", "retain"}, run : Run \cup {NoRun},
              left : Seq(Artifact), fresh : SUBSET Artifact, tried : SUBSET Artifact,
              kept : BOOLEAN]
  /\ task.tried \subseteq task.fresh
  /\ (task.do = "none") <=> (task.run = NoRun)

TypeOK ==
  /\ FilesTypeOK
  /\ run \in [Run -> [status : Status, events : 0..EventPages]]
  /\ conversation \in Run \cup {NoRun}
  /\ mentioned \subseteq Attachment
  /\ intent \in [Run -> [artifacts : SUBSET Artifact, cleanup : SUBSET Artifact]]
  /\ \A r \in Run : intent[r].artifacts \cap intent[r].cleanup = {}
  /\ checkpoint \in [Run -> [set : BOOLEAN, artifacts : Seq(Artifact)]]
  /\ TaskOK
  /\ up \in BOOLEAN
  /\ troubles \in 0..MaxTroubles

Init ==
  /\ FilesInit
  /\ run = [r \in Run |-> [status |-> "absent", events |-> 0]]
  /\ conversation = NoRun
  /\ mentioned = {}
  /\ intent = [r \in Run |-> NoIntent]
  /\ checkpoint = [r \in Run |-> NoCheckpoint]
  /\ task = Idle
  /\ up = TRUE
  /\ troubles = 0

Trouble == troubles < MaxTroubles /\ troubles' = troubles + 1

Free == up /\ task = Idle
SetRun(r, s) == run' = [run EXCEPT ![r].status = s]
SetIntent(r, i) == intent' = [intent EXCEPT ![r] = i]

---------------------------------------------------------------------------
(* Who names an artifact. *)

\* The records of a run name its artifacts until they are deleted together.
InRecords(a) ==
  \/ conversation # NoRun /\ a = Transcript[conversation]
  \/ \E r \in Run : run[r].status = "shown" /\ a \in {Transcript[r], Response[r]}

InIntents(a) == \E r \in Run : a \in intent[r].artifacts \cup intent[r].cleanup
InCheckpoints(a) == \E r \in Run : a \in Range(checkpoint[r].artifacts)

\* mutant: only the runs and their admissions are searched
ReferencedByRuns(a) ==
  \/ \E r \in Run : run[r].status = "shown" /\ a \in {Transcript[r], Response[r]}
  \/ InIntents(a)

\* mutant: the checkpoint of the run itself counts as a reference
ReferencedByCheckpoints(a) == InRecords(a) \/ InIntents(a) \/ InCheckpoints(a)

\* artifactIsReferenced
Referenced(a) == InRecords(a) \/ InIntents(a)

---------------------------------------------------------------------------
(* Publication *)

\* ensureArtifactIntent: a slot that awaits its cleanup cannot be used again.
Ensure(r, slots) ==
  /\ Free
  /\ run[r].status = "running"
  /\ Range(slots) \cap intent[r].cleanup = {}
  /\ SetIntent(r, [intent[r] EXCEPT !.artifacts = @ \cup Range(slots)])
  /\ UNCHANGED <<files, io, run, conversation, mentioned, checkpoint, up, troubles>>

Publish(do, r, slots) ==
  task' = [Idle EXCEPT !.do = do, !.run = r, !.left = slots,
                       !.fresh = Range(slots) \ intent[r].artifacts]

\* stageRunArtifacts, of one attachment.
Stage(r, a) ==
  /\ a \in Attachment
  /\ Ensure(r, <<a>>)
  /\ Publish("stage", r, <<a>>)

\* settle, of a user-visible run.  Its transcript mentions what the intent says
\* was staged, and that can be read; otherwise the intent is all it wrote.
Settle(r) ==
  LET slots == <<Transcript[r], Response[r]>>
      staged == intent[r].artifacts \cap Attachment
  IN
  /\ Ensure(r, slots)
  /\ \/ (\A a \in staged : Readable(a)) /\ Publish("settle", r, slots)
     \/ staged # {} /\ UNCHANGED task

PutNext ==
  /\ up /\ task.do \in {"stage", "settle"} /\ task.left # <<>>
  /\ Begin("put", Head(task.left))
  /\ task' = [task EXCEPT !.tried = @ \cup ({Head(task.left)} \cap task.fresh)]
  /\ UNCHANGED <<files, records, up, troubles>>

\* abandonArtifactPublication
Abandon(r) ==
  SetIntent(r, [artifacts |-> intent[r].artifacts \ task.fresh,
                cleanup |-> intent[r].cleanup \cup task.tried])

\* The file is created under its name and then written: whoever stops in between
\* leaves a part of it.
TornBlob ==
  /\ TornWrites
  /\ io.do = "put" /\ row[io.art] = "reserved" /\ blob[io.art] = "none"
  /\ blob' = [blob EXCEPT ![io.art] = "torn"]

\* The put fails, and so does the operation; it gives up its slots if it can.
PutFails(abandoned) ==
  /\ io' = Quiet
  /\ task' = Idle
  /\ IF abandoned THEN Abandon(task.run) ELSE UNCHANGED intent
  /\ UNCHANGED <<row, claim, run, conversation, mentioned, checkpoint, up>>

EndStage ==
  /\ up /\ task.do = "stage" /\ task.left = <<>>
  /\ task' = Idle
  /\ UNCHANGED <<files, io, records, up, troubles>>

\* The transaction of a user-visible settlement: run, admission, conversation
\* and intent at once.  It keeps of the intent what still awaits its cleanup.
CommitSettlement ==
  LET r == task.run IN
  /\ up /\ task.do = "settle" /\ task.left = <<>>
  /\ SetRun(r, "shown")
  /\ conversation' = r
  /\ mentioned' = mentioned \cup (intent[r].artifacts \cap Attachment)
  /\ SetIntent(r, [NoIntent EXCEPT !.cleanup = intent[r].cleanup])
  /\ task' = Idle
  /\ UNCHANGED <<files, io, checkpoint, up, troubles>>

\* A store that refuses the transaction rejects the settlement: no slot is
\* given up.
SettlementRefused ==
  /\ up /\ task.do = "settle" /\ task.left = <<>>
  /\ Trouble
  /\ task' = Idle
  /\ UNCHANGED <<files, io, records, up>>


\* A run that ends without anything to show keeps its artifacts out of every
\* record: they await their cleanup.
EndUnseen(r) ==
  /\ Free
  /\ run[r].status \in {"running", "orphaned"}
  /\ SetRun(r, "failed")
  /\ SetIntent(r, [artifacts |-> {}, cleanup |-> intent[r].cleanup \cup intent[r].artifacts])
  /\ UNCHANGED <<files, io, conversation, mentioned, checkpoint, task, up, troubles>>

---------------------------------------------------------------------------
(* Other operations on the records *)

Admit(r) ==
  /\ Free
  /\ run[r].status = "absent"
  /\ run' = [run EXCEPT ![r] = [status |-> "running", events |-> EventPages]]
  /\ UNCHANGED <<files, io, conversation, mentioned, intent, checkpoint, task, up, troubles>>

\* A delivery reads the transcript and stores the next revision in the state
\* itself, in chunks.
Deliver ==
  /\ Free
  /\ conversation # NoRun /\ Readable(Transcript[conversation])
  /\ conversation' = NoRun
  /\ UNCHANGED <<files, io, run, mentioned, intent, checkpoint, task, up, troubles>>

---------------------------------------------------------------------------
(* Retention *)

\* maintainExecution: a terminal run past the cutoff receives its checkpoint.
Claim(r) ==
  /\ Free
  /\ run[r].status \in {"shown", "failed"} /\ ~checkpoint[r].set
  /\ checkpoint' = [checkpoint EXCEPT ![r] =
       [set |-> TRUE,
        artifacts |-> IF run[r].status = "shown" THEN <<Transcript[r], Response[r]>>
                                                 ELSE <<>>]]
  /\ UNCHANGED <<files, io, run, conversation, mentioned, intent, task, up, troubles>>

\* resumeRunRetention: a page of events, then the owners, then the artifacts.
RetireEvents(r) ==
  /\ Free
  /\ checkpoint[r].set /\ run[r].events > 0
  /\ run' = [run EXCEPT ![r].events = @ - 1]
  /\ UNCHANGED <<files, io, conversation, mentioned, intent, checkpoint, task, up, troubles>>

RetireOwners(r) ==
  /\ Free
  /\ checkpoint[r].set /\ run[r].events = 0 /\ run[r].status # "retired"
  /\ SetRun(r, "retired")
  /\ UNCHANGED <<files, io, conversation, mentioned, intent, checkpoint, task, up, troubles>>

RetireArtifacts(r) ==
  /\ Free
  /\ checkpoint[r].set /\ run[r].status = "retired"
  /\ task' = [Idle EXCEPT !.do = "retain", !.run = r, !.left = checkpoint[r].artifacts]
  /\ UNCHANGED <<files, io, records, up, troubles>>

KeepReferenced ==
  /\ up /\ task.do = "retain" /\ task.left # <<>> /\ io = Quiet
  /\ Referenced(Head(task.left))
  /\ task' = [task EXCEPT !.left = Tail(@), !.kept = TRUE]
  /\ UNCHANGED <<files, io, records, up, troubles>>

ReleaseNext ==
  /\ up /\ task.do = "retain" /\ task.left # <<>>
  /\ ~Referenced(Head(task.left))
  /\ Begin("release", Head(task.left))
  /\ UNCHANGED <<files, records, task, up, troubles>>

\* mutant: the checkpoint goes although an artifact of the run is still named
EndRetentionAlways ==
  /\ up /\ task.do = "retain" /\ task.left = <<>>
  /\ checkpoint' = [checkpoint EXCEPT ![task.run] = NoCheckpoint]
  /\ task' = Idle
  /\ UNCHANGED <<files, io, run, conversation, mentioned, intent, up, troubles>>

EndRetention ==
  /\ up /\ task.do = "retain" /\ task.left = <<>>
  /\ IF task.kept
       THEN UNCHANGED checkpoint
       ELSE checkpoint' = [checkpoint EXCEPT ![task.run] = NoCheckpoint]
  /\ task' = Idle
  /\ UNCHANGED <<files, io, run, conversation, mentioned, intent, up, troubles>>

---------------------------------------------------------------------------
(* The artifact store at work *)

StoreStep ==
  /\ up
  /\ PutStep \/ ReleaseStep \/ SweepStep
  /\ UNCHANGED <<records, task, up, troubles>>

StoreReturns ==
  /\ up
  /\ PutDone \/ ReleaseDone \/ SweepDone
  /\ io' = Quiet
  /\ task' = IF io.do = "sweep" THEN task ELSE [task EXCEPT !.left = Tail(@)]
  /\ UNCHANGED <<files, records, up, troubles>>

NoRoom == up /\ PutRefused /\ PutFails(TRUE) /\ UNCHANGED <<blob, troubles>>

\* A read or a file operation fails, or the signal of the caller aborts.
StoreFails ==
  /\ up
  /\ Trouble
  /\ \/ /\ io.do = "put"
        /\ PutFails(TRUE) \/ PutFails(FALSE)
        /\ TornBlob \/ UNCHANGED blob
     \/ /\ io.do = "release"
        /\ io' = Quiet /\ task' = Idle
        /\ UNCHANGED <<files, records, up>>
     \/ /\ io.do = "sweep"
        /\ io' = Quiet
        /\ UNCHANGED <<files, records, task, up>>

Sweep(a) ==
  /\ up
  /\ Sweepable(a)
  /\ Begin("sweep", a)
  /\ UNCHANGED <<files, records, task, up, troubles>>

\* The process dies, or the store is poisoned and has to be reopened.
Crash ==
  /\ up
  /\ Trouble
  /\ up' = FALSE /\ io' = Quiet /\ task' = Idle
  /\ run' = [r \in Run |->
       IF run[r].status = "running" THEN [run[r] EXCEPT !.status = "orphaned"] ELSE run[r]]
  /\ TornBlob \/ UNCHANGED blob
  /\ UNCHANGED <<row, claim, conversation, mentioned, intent, checkpoint>>

Open ==
  /\ ~up
  /\ ScanAccepts
  /\ up' = TRUE
  /\ UNCHANGED <<files, io, records, task, troubles>>

---------------------------------------------------------------------------

Publication(r) ==
  \/ Admit(r) \/ Settle(r) \/ EndUnseen(r)
  \/ \E a \in Artifact : Stage(r, a)

Resume(r) == RetireEvents(r) \/ RetireOwners(r) \/ RetireArtifacts(r)

Working ==
  \/ PutNext \/ EndStage \/ CommitSettlement
  \/ KeepReferenced \/ ReleaseNext \/ EndRetention
  \/ StoreStep \/ StoreReturns \/ NoRoom

Faults == SettlementRefused \/ StoreFails \/ Crash

Next ==
  \/ \E r \in Run : Publication(r) \/ Claim(r) \/ Resume(r)
  \/ Deliver \/ Working \/ Faults \/ Open
  \/ \E a \in Artifact : Sweep(a)

Spec == Init /\ [][Next]_vars

\* An operation that started goes on, a closed store is opened again, and
\* maintenance is run again and again, until it gets its turn in the queue.
Fairness ==
  /\ WF_vars(Working) /\ WF_vars(Open)
  /\ \A r \in Run : SF_vars(Resume(r))

FairSpec == Spec /\ Fairness

---------------------------------------------------------------------------
(* Properties *)

\* The store can always be opened: whatever the single write an operation died
\* after, the index and the directory agree as scan demands.
AlwaysOpens == ScanAccepts

\* Every artifact that a conversation, a run or an admission names can be read,
\* and so can the attachments the transcript mentions: neither retention nor a
\* half-done removal takes them.
NamedIsReadable == \A a \in Artifact : InRecords(a) \/ a \in mentioned => Readable(a)

\* No bytes are left that nothing accounts for: they are named by a record, an
\* intent or a checkpoint, or their row is one the next sweep takes up.
BytesAreAccountedFor ==
  \A a \in Artifact :
    blob[a] # "none" \/ a \in claim =>
      \/ Sweepable(a)
      \/ InRecords(a) \/ a \in mentioned
      \/ InIntents(a) \/ InCheckpoints(a)

\* A checkpoint goes in the end, unless an artifact of its run is still named.
RetentionCompletes ==
  \A r \in Run :
    checkpoint[r].set ~>
      \/ ~checkpoint[r].set
      \/ \E a \in Range(checkpoint[r].artifacts) : InRecords(a) \/ InIntents(a)
=============================================================================
