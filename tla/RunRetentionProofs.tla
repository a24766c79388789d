------------------------- MODULE RunRetentionProofs -------------------------
(***************************************************************************)
(* Proofs about RunRetention, for every number of runs and artifacts, every *)
(* limit and every number of failures, when no write is torn: the store    *)
(* always opens, what a record names can be read, and no bytes are left    *)
(* that nothing accounts for.                                              *)
(***************************************************************************)
EXTENDS RunRetention, TLAPS

Own(r) == {Transcript[r], Response[r]}
Both(r) == <<Transcript[r], Response[r]>>
Second(r) == <<Response[r]>>

---------------------------------------------------------------------------
(* The inductive invariant *)

\* What the index and the directory agree on.  Then an artifact is readable
\* exactly when its row is published.
FilesOK ==
  \A a \in Artifact :
    /\ blob[a] \in {"none", "whole"}
    /\ blob[a] = "whole" => row[a] \notin {"absent", "removed"}
    /\ a \in claim => blob[a] = "none" /\ row[a] \in {"removing", "releasing"}
    /\ row[a] \in {"staged", "published"} => blob[a] = "whole"

\* Runs, checkpoints and the conversation follow each other.  The transcript of
\* the conversation stays claimed by a run, or by the checkpoint that retired it.
RecordsOK ==
  \A r \in Run :
    /\ intent[r].artifacts \cup intent[r].cleanup \subseteq Own(r) \cup Attachment
    /\ checkpoint[r].artifacts \in {<<>>, Both(r)}
    /\ ~checkpoint[r].set => checkpoint[r].artifacts = <<>>
    /\ checkpoint[r].set => run[r].status \in {"shown", "failed", "retired"}
    /\ checkpoint[r].set /\ run[r].status = "shown" => checkpoint[r].artifacts = Both(r)
    /\ conversation = r => run[r].status = "shown" \/ checkpoint[r].artifacts = Both(r)

StageOK ==
  LET r == task.run IN
    /\ run[r].status = "running"
    /\ \E a \in Attachment :
         /\ task.left \in {<<a>>, <<>>}
         /\ task.fresh \subseteq {a}
         /\ a \in intent[r].artifacts

\* What a settlement has put stays published, and what it did not try to put yet
\* was never published, so that giving it up leaves no bytes behind.
SettleOK ==
  LET r == task.run IN
    /\ run[r].status = "running"
    /\ task.left \in {Both(r), Second(r), <<>>}
    /\ task.fresh \subseteq Own(r)
    /\ Own(r) \subseteq intent[r].artifacts
    /\ \A a \in intent[r].artifacts \cap Attachment : row[a] = "published"
    /\ task.left # Both(r) => row[Transcript[r]] = "published"
    /\ task.left = <<>> => row[Response[r]] = "published"
    /\ \A a \in task.fresh \ task.tried : a \in Range(task.left) /\ row[a] # "published"

\* What a retention has been through and nobody names is not published.
RetainOK ==
  LET r == task.run IN
    /\ run[r].status = "retired" /\ checkpoint[r].set
    /\ task.left \in {Both(r), Second(r), <<>>}
    /\ checkpoint[r].artifacts = <<>> => task.left = <<>>
    /\ ~task.kept /\ checkpoint[r].artifacts = Both(r) =>
         /\ task.left # Both(r) => row[Transcript[r]] # "published"
         /\ task.left = <<>> => row[Response[r]] # "published"

ProgressOK ==
  /\ task.do = "none" => task = Idle
  /\ task.do = "stage" => StageOK
  /\ task.do = "settle" => SettleOK
  /\ task.do = "retain" => RetainOK

IoOK ==
  /\ io.do = "put" =>
       /\ task.do \in {"stage", "settle"}
       /\ task.left # <<>> /\ io.art = Head(task.left)
       /\ io.art \in task.fresh => io.art \in task.tried
  /\ io.do = "release" =>
       /\ task.do = "retain"
       /\ task.left # <<>> /\ io.art = Head(task.left)
       /\ ~Referenced(io.art)
  /\ ~up => io = Quiet /\ task = Idle

Named == \A a \in Artifact : InRecords(a) \/ a \in mentioned => row[a] = "published"

Accounted ==
  \A a \in Artifact :
    row[a] = "published" =>
      InRecords(a) \/ a \in mentioned \/ InIntents(a) \/ InCheckpoints(a)

Inv ==
  /\ TypeOK /\ FilesOK /\ RecordsOK /\ ProgressOK /\ IoOK
  /\ Named /\ Accounted

---------------------------------------------------------------------------
(* Sequences of at most two artifacts, and who owns an artifact *)

\* What the operators on sequences make of the slots of a run.
LEMMA SlotFacts ==
  ASSUME NEW r \in Run
  PROVE  /\ Both(r) \in Seq(Artifact) /\ Second(r) \in Seq(Artifact)
         /\ Both(r) # <<>> /\ Second(r) # <<>> /\ Both(r) # Second(r)
         /\ Head(Both(r)) = Transcript[r] /\ Tail(Both(r)) = Second(r)
         /\ Head(Second(r)) = Response[r] /\ Tail(Second(r)) = <<>>
         /\ Range(Both(r)) = Own(r) /\ Range(Second(r)) = {Response[r]}
         /\ Own(r) \subseteq Artifact
BY RunAssumption, SMT DEF Both, Second, Own, Range

LEMMA StageFacts ==
  ASSUME NEW a \in Artifact
  PROVE  /\ <<a>> \in Seq(Artifact) /\ <<a>> # <<>>
         /\ Head(<<a>>) = a /\ Tail(<<a>>) = <<>> /\ Range(<<a>>) = {a}
BY SMT DEF Range

LEMMA EmptyFacts == <<>> \in Seq(Artifact) /\ Range(<<>>) = {}
BY SMT DEF Range

\* No two runs own an artifact, and an attachment belongs to none.
LEMMA Owners ==
  ASSUME NEW r \in Run, NEW a \in Own(r)
  PROVE  /\ a \in Artifact /\ a \notin Attachment
         /\ Transcript[r] # Response[r]
         /\ \A q \in Run : a \in Own(q) => q = r
BY RunAssumption DEF Own, Attachment


---------------------------------------------------------------------------
(* The artifact store *)

\* An artifact is published by a put of it and by nothing else, and only its
\* release takes it back; the index and the directory go on agreeing.
LEMMA FileWrites ==
  ASSUME FilesTypeOK, FilesOK, StoreStep
  PROVE  /\ FilesTypeOK' /\ FilesOK' /\ io' = io
         /\ \A a \in Artifact :
              /\ row[a] = "published" =>
                   row'[a] = "published" \/ io = [do |-> "release", art |-> a]
              /\ row'[a] = "published" =>
                   row[a] = "published" \/ io = [do |-> "put", art |-> a]
<1> DEFINE b == io.art
<1>1. io' = io /\ io.do \in {"put", "release", "sweep"} /\ b \in Artifact
      /\ io = [do |-> io.do, art |-> b]
  BY DEF StoreStep, PutStep, ReleaseStep, SweepStep, FilesTypeOK
<1>2. SUFFICES /\ FilesTypeOK' /\ FilesOK'
               /\ \A a \in Artifact \ {b} : row'[a] = row[a]
               /\ row[b] = "published" => row'[b] = "published" \/ io.do = "release"
               /\ row'[b] = "published" => row[b] = "published" \/ io.do = "put"
  BY <1>1
<1>3. CASE \/ io.do = "put" /\ (Reserve(b) \/ StageRow(b) \/ PublishRow(b))
           \/ io.do = "release" /\ row[b] = "published" /\ blob[b] = "whole"
              /\ Write(b, "releasing") /\ UNCHANGED <<blob, claim>>
           \/ io.do = "sweep" /\ (DropReservation(b) \/ StageRow(b) \/ ClaimRemoval(b))
  BY <1>1, <1>3
     DEF Reserve, StageRow, PublishRow, DropReservation, ClaimRemoval, Write,
         FilesTypeOK, FilesOK, RowState
<1>4. CASE CreateBlob(b)
  BY <1>1, <1>4 DEF CreateBlob, FilesTypeOK, FilesOK
<1>5. CASE RemovalStep(b)
  BY <1>1, <1>5
     DEF RemovalStep, MoveToClaim, Unlink, MarkRemoved, Write, FilesTypeOK, FilesOK, RowState
<1> QED BY <1>1, <1>3, <1>4, <1>5 DEF StoreStep, PutStep, ReleaseStep, SweepStep

\* The artifact that is being put belongs to the intent of the operation's run.
LEMMA PutIsIntended ==
  ASSUME Inv, io.do = "put"
  PROVE  /\ task.run \in Run /\ io.art \in Artifact
         /\ io.art \in intent[task.run].artifacts /\ InIntents(io.art)
<1> USE DEF Inv
<1>1. /\ io.art \in Artifact /\ task.run \in Run
      /\ task.left # <<>> /\ io.art = Head(task.left) /\ task.do \in {"stage", "settle"}
  BY DEF IoOK, TypeOK, FilesTypeOK, TaskOK
<1>2. CASE task.do = "stage"
  <2>1. PICK a \in Attachment : task.left \in {<<a>>, <<>>} /\ a \in intent[task.run].artifacts
    BY <1>2 DEF ProgressOK, StageOK
  <2>2. a \in Artifact
    BY DEF Attachment
  <2> QED BY <1>1, <2>1, <2>2, StageFacts DEF InIntents
<1>3. CASE task.do = "settle"
  BY <1>1, <1>3, SlotFacts DEF ProgressOK, SettleOK, Own, InIntents
<1> QED BY <1>1, <1>2, <1>3

\* Nothing names the artifact that is being released.
LEMMA ReleaseIsUnnamed ==
  ASSUME Inv, io.do = "release"
  PROVE  /\ task.run \in Run /\ io.art \in Own(task.run)
         /\ ~InRecords(io.art) /\ io.art \notin mentioned
<1> USE DEF Inv
<1>1. /\ task.run \in Run /\ task.do = "retain"
      /\ task.left # <<>> /\ io.art = Head(task.left) /\ ~Referenced(io.art)
  BY DEF IoOK, TypeOK, TaskOK
<1>2. io.art \in Own(task.run)
  BY <1>1, SlotFacts DEF ProgressOK, RetainOK, Own
<1> QED BY <1>1, <1>2, Owners DEF Referenced, TypeOK

LEMMA StoreStepPreserves == Inv /\ StoreStep => Inv'
<1> SUFFICES ASSUME Inv, StoreStep PROVE Inv'
  OBVIOUS
<1> USE DEF Inv
<1>1. UNCHANGED <<run, conversation, mentioned, intent, checkpoint, task, up, troubles>>
  BY DEF StoreStep, records
<1>2. FilesTypeOK' /\ FilesOK' /\ io' = io
  BY FileWrites DEF TypeOK
<1>3. \A a \in Artifact : row[a] = "published" =>
        row'[a] = "published" \/ (io.do = "release" /\ a = io.art)
  BY FileWrites DEF TypeOK
<1>4. \A a \in Artifact : row'[a] = "published" =>
        row[a] = "published" \/ (io.do = "put" /\ a = io.art)
  BY FileWrites DEF TypeOK
<1>5. TypeOK'
  BY <1>1, <1>2 DEF TypeOK, TaskOK
<1>6. RecordsOK' /\ IoOK'
  BY <1>1, <1>2 DEF RecordsOK, IoOK, Referenced, InRecords, InIntents
<1>7. Named'
  BY <1>1, <1>3, ReleaseIsUnnamed DEF Named, InRecords
<1>8. Accounted'
  BY <1>1, <1>4, PutIsIntended DEF Accounted, InRecords, InIntents, InCheckpoints
<1>9. ProgressOK'
  <2>1. task.do = "stage" => StageOK'
    BY <1>1 DEF ProgressOK, StageOK
  <2>2. ASSUME task.do = "settle" PROVE SettleOK'
    <3>1. io.do # "release" /\ SettleOK /\ task.run \in Run
      BY <2>2 DEF IoOK, ProgressOK, TypeOK, TaskOK
    <3>2. Transcript[task.run] \in Artifact /\ Response[task.run] \in Artifact
      BY <3>1, RunAssumption
    <3>3. task.fresh \subseteq Artifact
      BY DEF TypeOK, TaskOK
    <3>4. \A a \in task.fresh \ task.tried : io.do = "put" => a # io.art
      BY DEF IoOK
    <3> QED BY <1>1, <1>3, <1>4, <3>1, <3>2, <3>3, <3>4 DEF SettleOK, Attachment
  <2>3. ASSUME task.do = "retain" PROVE RetainOK'
    <3>1. io.do # "put" /\ RetainOK /\ task.run \in Run
      BY <2>3 DEF IoOK, ProgressOK, TypeOK, TaskOK
    <3>2. Transcript[task.run] \in Artifact /\ Response[task.run] \in Artifact
      BY <3>1, RunAssumption
    <3> QED BY <1>1, <1>4, <3>1, <3>2 DEF RetainOK
  <2> QED BY <1>1, <2>1, <2>2, <2>3 DEF ProgressOK
<1> QED BY <1>2, <1>5, <1>6, <1>7, <1>8, <1>9


LEMMA Tails ==
  ASSUME NEW s \in Seq(Artifact), s # <<>>
  PROVE  Head(s) \in Artifact /\ Tail(s) \in Seq(Artifact)
OBVIOUS

\* The operation that began in the store returns to the one of the journal.
LEMMA StoreReturnsPreserves == Inv /\ StoreReturns => Inv'
<1> SUFFICES ASSUME Inv, StoreReturns PROVE Inv'
  OBVIOUS
<1> USE DEF Inv
<1>1. UNCHANGED <<row, blob, claim, run, conversation, mentioned, intent, checkpoint, up, troubles>>
      /\ io' = Quiet /\ up
  BY DEF StoreReturns, files, records
<1>2. FilesOK' /\ RecordsOK' /\ Named' /\ Accounted'
  BY <1>1 DEF FilesOK, RecordsOK, Named, Accounted, InRecords, InIntents, InCheckpoints
<1>3. CASE io.do = "sweep"
  <2>1. task' = task
    BY <1>3 DEF StoreReturns
  <2> QED
    BY <1>1, <1>2, <2>1 DEF TypeOK, FilesTypeOK, TaskOK, ProgressOK, StageOK, SettleOK,
       RetainOK, IoOK, Quiet
<1>4. ASSUME io.do \in {"put", "release"} PROVE Inv'
  <2> DEFINE r == task.run
  <2>1. /\ task' = [task EXCEPT !.left = Tail(task.left)]
        /\ task.do # "none" /\ task.left # <<>> /\ io.art = Head(task.left) /\ r \in Run
    BY <1>4 DEF StoreReturns, IoOK, TypeOK, TaskOK
  <2>a. /\ task'.do = task.do /\ task'.run = r /\ task'.left = Tail(task.left)
        /\ task'.fresh = task.fresh /\ task'.tried = task.tried /\ task'.kept = task.kept
    BY <2>1 DEF TypeOK, TaskOK
  <2>b. /\ Both(r) # <<>> /\ Second(r) # <<>> /\ Both(r) # Second(r)
        /\ Head(Both(r)) = Transcript[r] /\ Tail(Both(r)) = Second(r)
        /\ Head(Second(r)) = Response[r] /\ Tail(Second(r)) = <<>>
        /\ Range(Both(r)) = Own(r) /\ Range(Second(r)) = {Response[r]}
        /\ Transcript[r] # Response[r]
    BY <2>1, SlotFacts, RunAssumption
  <2>2. TypeOK'
    BY <1>1, <2>1, Tails DEF TypeOK, FilesTypeOK, TaskOK, Quiet
  <2>3. task.do = "stage" => StageOK'
    <3> SUFFICES ASSUME task.do = "stage" PROVE StageOK'
      OBVIOUS
    <3>1. PICK a \in Attachment : /\ task.left \in {<<a>>, <<>>} /\ task.fresh \subseteq {a}
                                  /\ a \in intent[r].artifacts /\ run[r].status = "running"
      BY DEF ProgressOK, StageOK
    <3>2. task'.left = <<>>
      BY <2>1, <3>1, StageFacts DEF Attachment, TypeOK, TaskOK
    <3> QED BY <1>1, <2>1, <3>1, <3>2 DEF StageOK, TypeOK, TaskOK
  <2>4. task.do = "settle" => SettleOK'
    <3> SUFFICES ASSUME task.do = "settle" PROVE SettleOK'
      OBVIOUS
    <3>1. io.do = "put" /\ row[io.art] = "published"
      BY <1>4 DEF StoreReturns, PutDone, ReleaseDone, SweepDone, IoOK
    <3>2. SettleOK
      BY DEF ProgressOK
    <3>3. io.art \in task.fresh => io.art \in task.tried
      BY <3>1 DEF IoOK
    <3>4. CASE task.left = Both(r)
      <4>1. task'.left = Second(r) /\ io.art = Transcript[r]
        BY <2>a, <2>b, <2>1, <3>4
      <4>2. \A a \in task.fresh \ task.tried : a = Response[r] /\ row[a] # "published"
        BY <2>b, <3>2, <3>3, <3>4, <4>1 DEF SettleOK, Own
      <4> QED BY <1>1, <2>a, <2>b, <3>1, <3>2, <4>1, <4>2 DEF SettleOK
    <3>5. CASE task.left = Second(r)
      BY <1>1, <2>a, <2>b, <2>1, <3>1, <3>2, <3>3, <3>5, EmptyFacts DEF SettleOK, Own
    <3> QED BY <2>1, <3>2, <3>4, <3>5 DEF SettleOK
  <2>5. task.do = "retain" => RetainOK'
    <3> SUFFICES ASSUME task.do = "retain" PROVE RetainOK'
      OBVIOUS
    <3>1. io.do = "release" /\ row[io.art] # "published"
      BY <1>4 DEF StoreReturns, PutDone, ReleaseDone, SweepDone, IoOK
    <3>2. RetainOK
      BY DEF ProgressOK
    <3>3. CASE task.left = Both(r)
      BY <1>1, <2>a, <2>b, <2>1, <3>1, <3>2, <3>3 DEF RetainOK
    <3>4. CASE task.left = Second(r)
      BY <1>1, <2>a, <2>b, <2>1, <3>1, <3>2, <3>4 DEF RetainOK
    <3> QED BY <2>1, <3>2, <3>3, <3>4 DEF RetainOK
  <2>6. ProgressOK' /\ IoOK'
    BY <1>1, <2>1, <2>3, <2>4, <2>5 DEF ProgressOK, IoOK, Quiet, TypeOK, TaskOK
  <2> QED BY <1>2, <2>2, <2>6
<1> QED BY <1>3, <1>4 DEF StoreReturns, PutDone, ReleaseDone, SweepDone


---------------------------------------------------------------------------
(* Steps that change neither the records nor the files *)

LEMMA SameRecords ==
  ASSUME Inv,
         UNCHANGED <<row, blob, claim, run, conversation, mentioned, intent, checkpoint>>
  PROVE  FilesOK' /\ RecordsOK' /\ Named' /\ Accounted'
BY DEF Inv, FilesOK, RecordsOK, Named, Accounted, InRecords, InIntents, InCheckpoints

LEMMA IdleFacts ==
  /\ Idle \in [do : {"none", "stage", "settle", "retain"}, run : Run \cup {NoRun},
               left : Seq(Artifact), fresh : SUBSET Artifact, tried : SUBSET Artifact,
               kept : BOOLEAN]
  /\ Idle.do = "none" /\ Idle.run = NoRun /\ Idle.fresh = {} /\ Idle.tried = {}
BY DEF Idle

\* When no operation of the journal is under way, the store puts and releases
\* nothing.
LEMMA FreeIsQuiet == Inv /\ (task = Idle \/ task.left = <<>>) => io.do \notin {"put", "release"}
BY IdleFacts DEF Inv, IoOK

\* The operation ends without a change of the records.
LEMMA TaskEnds ==
  ASSUME Inv, UNCHANGED <<files, records>>, task' = Idle, io' = Quiet \/ (io' = io /\ task.left = <<>>),
         up' = up, troubles' \in 0..MaxTroubles
  PROVE  Inv'
<1> USE DEF Inv
<1>1. FilesOK' /\ RecordsOK' /\ Named' /\ Accounted'
  BY SameRecords DEF files, records
<1>2. TypeOK'
  BY IdleFacts DEF TypeOK, TaskOK, FilesTypeOK, Quiet, files, records
<1>3. ProgressOK'
  BY IdleFacts DEF ProgressOK
<1>4. IoOK'
  BY FreeIsQuiet, IdleFacts DEF IoOK, Quiet
<1> QED BY <1>1, <1>2, <1>3, <1>4

LEMMA EndsPreserve == Inv /\ (EndStage \/ SettlementRefused) => Inv'
<1> SUFFICES ASSUME Inv, EndStage \/ SettlementRefused PROVE Inv'
  OBVIOUS
<1>1. troubles' \in 0..MaxTroubles
  BY RunAssumption DEF Inv, TypeOK, EndStage, SettlementRefused, Trouble
<1> QED BY <1>1, TaskEnds DEF EndStage, SettlementRefused

\* The sweep takes up an artifact, or fails.
LEMMA SweepPreserves ==
  ASSUME Inv, UNCHANGED <<files, records, task, up>>, io.do \notin {"put", "release"},
         io' = Quiet \/ \E a \in Artifact : up /\ io' = [do |-> "sweep", art |-> a],
         troubles' \in 0..MaxTroubles
  PROVE  Inv'
<1> USE DEF Inv
<1>1. FilesOK' /\ RecordsOK' /\ Named' /\ Accounted'
  BY SameRecords DEF files, records
<1>2. TypeOK'
  BY ArtifactAssumption DEF TypeOK, TaskOK, FilesTypeOK, Quiet, files, records
<1>3. ProgressOK'
  BY DEF ProgressOK, StageOK, SettleOK, RetainOK, files, records
<1>4. IoOK'
  BY DEF IoOK, Quiet
<1> QED BY <1>1, <1>2, <1>3, <1>4

LEMMA PutNextPreserves == Inv /\ PutNext => Inv'
<1> SUFFICES ASSUME Inv, PutNext PROVE Inv'
  OBVIOUS
<1> USE DEF Inv
<1>1. UNCHANGED <<row, blob, claim, run, conversation, mentioned, intent, checkpoint, up, troubles>>
      /\ up /\ task.do \in {"stage", "settle"} /\ task.left # <<>>
  BY DEF PutNext, files, records
<1>2. FilesOK' /\ RecordsOK' /\ Named' /\ Accounted'
  BY <1>1, SameRecords
<1> DEFINE a == Head(task.left)
<1>3. a \in Artifact
  BY <1>1, Tails DEF TypeOK, TaskOK
<1>4. io'.do = "put" /\ io'.art = a /\ io' = [do |-> "put", art |-> a]
  BY DEF PutNext, Begin
<1>5. /\ task'.do = task.do /\ task'.run = task.run /\ task'.left = task.left
      /\ task'.fresh = task.fresh /\ task'.kept = task.kept
      /\ task'.tried = task.tried \cup ({a} \cap task.fresh)
  BY DEF PutNext, TypeOK, TaskOK
<1>6. TypeOK'
  <2>1. TaskOK'
    BY DEF PutNext, TypeOK, TaskOK
  <2>2. FilesTypeOK'
    BY <1>1, <1>3, <1>4, ArtifactAssumption DEF TypeOK, FilesTypeOK
  <2> QED BY <1>1, <2>1, <2>2 DEF TypeOK
<1>7. ProgressOK' /\ IoOK'
  BY <1>1, <1>4, <1>5 DEF ProgressOK, StageOK, SettleOK, IoOK
<1> QED BY <1>2, <1>6, <1>7


LEMMA ReleaseNextPreserves == Inv /\ ReleaseNext => Inv'
<1> SUFFICES ASSUME Inv, ReleaseNext PROVE Inv'
  OBVIOUS
<1> USE DEF Inv
<1>1. UNCHANGED <<row, blob, claim, run, conversation, mentioned, intent, checkpoint, task, up, troubles>>
      /\ up /\ task.do = "retain" /\ task.left # <<>> /\ ~Referenced(Head(task.left))
  BY DEF ReleaseNext, files, records
<1>2. FilesOK' /\ RecordsOK' /\ Named' /\ Accounted'
  BY <1>1, SameRecords
<1>3. Head(task.left) \in Artifact
  BY <1>1, Tails DEF TypeOK, TaskOK
<1>4. io' = [do |-> "release", art |-> Head(task.left)]
  BY DEF ReleaseNext, Begin
<1>5. TypeOK'
  BY <1>1, <1>3, <1>4, ArtifactAssumption DEF TypeOK, TaskOK, FilesTypeOK
<1>6. ProgressOK'
  BY <1>1 DEF ProgressOK, StageOK, SettleOK, RetainOK
<1>7. IoOK'
  BY <1>1, <1>4 DEF IoOK, Referenced, InRecords, InIntents
<1> QED BY <1>2, <1>5, <1>6, <1>7

\* An artifact that is named stays, and so will the checkpoint.
LEMMA KeepReferencedPreserves == Inv /\ KeepReferenced => Inv'
<1> SUFFICES ASSUME Inv, KeepReferenced PROVE Inv'
  OBVIOUS
<1> USE DEF Inv
<1>1. UNCHANGED <<row, blob, claim, io, run, conversation, mentioned, intent, checkpoint, up, troubles>>
      /\ up /\ task.do = "retain" /\ task.left # <<>> /\ io = Quiet
  BY DEF KeepReferenced, files, records
<1>2. FilesOK' /\ RecordsOK' /\ Named' /\ Accounted'
  BY <1>1, SameRecords
<1>3. /\ task'.do = task.do /\ task'.run = task.run /\ task'.left = Tail(task.left)
      /\ task'.kept = TRUE
  BY DEF KeepReferenced, TypeOK, TaskOK
<1>4. TypeOK'
  BY <1>1, Tails DEF KeepReferenced, TypeOK, TaskOK, FilesTypeOK
<1>5. RetainOK /\ task.run \in Run
  BY <1>1 DEF ProgressOK, TypeOK, TaskOK
<1>6. Tail(task.left) \in {Second(task.run), <<>>}
  BY <1>1, <1>5, SlotFacts DEF RetainOK
<1>7. RetainOK'
  BY <1>1, <1>3, <1>5, <1>6 DEF RetainOK
<1> QED BY <1>1, <1>2, <1>3, <1>4, <1>7 DEF ProgressOK, IoOK, Quiet

---------------------------------------------------------------------------
(* Publication *)

\* Nothing of a running run is named by anything but its own intent.
LEMMA RunningIsUnnamed ==
  ASSUME Inv, NEW r \in Run, run[r].status = "running", NEW a \in Own(r),
         a \notin intent[r].artifacts \cup intent[r].cleanup
  PROVE  row[a] # "published"
<1> USE DEF Inv
<1>1. a \in Artifact /\ a \notin Attachment /\ \A q \in Run : a \in Own(q) => q = r
  BY Owners
<1>2. ~InIntents(a)
  BY <1>1 DEF InIntents, RecordsOK
<1>3. ~checkpoint[r].set /\ checkpoint[r].artifacts = <<>>
  BY DEF RecordsOK
<1>4. ~InCheckpoints(a)
  BY <1>1, <1>3, SlotFacts, EmptyFacts DEF InCheckpoints, RecordsOK
<1>5. conversation # r
  BY <1>3, SlotFacts DEF RecordsOK
<1>6. ~InRecords(a)
  BY <1>1, <1>5 DEF InRecords, Own, TypeOK
<1> QED BY <1>1, <1>2, <1>4, <1>6 DEF Accounted, TypeOK

\* The records and the files after slots of a running run joined its intent.
LEMMA EnsureKeeps ==
  ASSUME Inv, NEW r \in Run, NEW slots \in Seq(Artifact), Ensure(r, slots),
         Range(slots) \subseteq Own(r) \cup Attachment
  PROVE  /\ FilesOK' /\ RecordsOK' /\ Named' /\ Accounted' /\ (TaskOK' => TypeOK')
         /\ io.do \notin {"put", "release"} /\ io' = io /\ up /\ up'
         /\ row' = row /\ run' = run /\ checkpoint' = checkpoint
         /\ run[r].status = "running"
         /\ intent'[r].artifacts = intent[r].artifacts \cup Range(slots)
         /\ intent'[r].cleanup = intent[r].cleanup
         /\ Range(slots) \cap intent[r].cleanup = {}
<1> USE DEF Inv
<1>1. /\ UNCHANGED <<row, blob, claim, io, run, conversation, mentioned, checkpoint, up, troubles>>
      /\ up /\ task = Idle /\ run[r].status = "running"
      /\ Range(slots) \cap intent[r].cleanup = {}
  BY DEF Ensure, Free, files
<1>2. Range(slots) \subseteq Artifact
  BY SMT DEF Range
<1>3. /\ intent' \in [Run -> [artifacts : SUBSET Artifact, cleanup : SUBSET Artifact]]
      /\ intent'[r].artifacts = intent[r].artifacts \cup Range(slots)
      /\ intent'[r].cleanup = intent[r].cleanup
      /\ \A q \in Run \ {r} : intent'[q] = intent[q]
  BY <1>2 DEF Ensure, SetIntent, TypeOK
<1>4. FilesOK' /\ Named'
  BY <1>1 DEF FilesOK, Named, InRecords
<1>5. RecordsOK'
  BY <1>1, <1>3 DEF RecordsOK
<1>6. Accounted'
  BY <1>1, <1>3 DEF Accounted, InRecords, InIntents, InCheckpoints
<1>7. \A q \in Run : intent'[q].artifacts \cap intent'[q].cleanup = {}
  BY <1>1, <1>3 DEF TypeOK
<1>8. TaskOK' => TypeOK'
  BY <1>1, <1>3, <1>7 DEF TypeOK, FilesTypeOK
<1> QED BY <1>1, <1>3, <1>4, <1>5, <1>6, <1>8, FreeIsQuiet


\* The operation that begins, whose slots are fresh unless the intent had them.
LEMMA PublishedTask ==
  ASSUME Inv, NEW do \in {"stage", "settle"}, NEW r \in Run, NEW slots \in Seq(Artifact),
         Publish(do, r, slots), Range(slots) \subseteq Artifact
  PROVE  /\ task'.do = do /\ task'.run = r /\ task'.left = slots /\ task'.tried = {}
         /\ task'.fresh = Range(slots) \ intent[r].artifacts
         /\ TaskOK'
BY RunAssumption DEF Publish, Idle, TaskOK

LEMMA StagePreserves == ASSUME NEW r \in Run, NEW a \in Artifact PROVE Inv /\ Stage(r, a) => Inv'
<1> SUFFICES ASSUME Inv, Stage(r, a) PROVE Inv'
  OBVIOUS
<1>1. a \in Attachment /\ Ensure(r, <<a>>) /\ Publish("stage", r, <<a>>)
  BY DEF Stage
<1>2. <<a>> \in Seq(Artifact) /\ Range(<<a>>) = {a}
  BY StageFacts
<1>3. /\ FilesOK' /\ RecordsOK' /\ Named' /\ Accounted' /\ (TaskOK' => TypeOK')
      /\ io.do \notin {"put", "release"} /\ io' = io /\ up'
      /\ run' = run /\ run[r].status = "running"
      /\ a \in intent'[r].artifacts
  BY <1>1, <1>2, EnsureKeeps
<1>4. /\ task'.do = "stage" /\ task'.run = r /\ task'.left = <<a>> /\ task'.fresh \subseteq {a}
      /\ TaskOK'
  BY <1>1, <1>2, PublishedTask
<1>5. ProgressOK' /\ IoOK'
  BY <1>1, <1>3, <1>4 DEF ProgressOK, StageOK, IoOK
<1> QED BY <1>3, <1>4, <1>5 DEF Inv

LEMMA SettlePreserves == ASSUME NEW r \in Run PROVE Inv /\ Settle(r) => Inv'
<1> SUFFICES ASSUME Inv, Settle(r) PROVE Inv'
  OBVIOUS
<1>1. Ensure(r, Both(r))
  BY DEF Settle, Both
<1>2. /\ Both(r) \in Seq(Artifact) /\ Both(r) # <<>> /\ Range(Both(r)) = Own(r)
      /\ Own(r) \subseteq Artifact /\ \A a \in Own(r) : a \notin Attachment
  BY SlotFacts, Owners
<1>3. /\ FilesOK' /\ RecordsOK' /\ Named' /\ Accounted' /\ (TaskOK' => TypeOK')
      /\ io.do \notin {"put", "release"} /\ io' = io /\ up /\ up'
      /\ row' = row /\ run' = run /\ run[r].status = "running"
      /\ intent'[r].artifacts = intent[r].artifacts \cup Own(r)
      /\ Own(r) \cap intent[r].cleanup = {}
  BY <1>1, <1>2, EnsureKeeps
<1>4. CASE UNCHANGED task
  <2>1. task = Idle
    BY <1>1 DEF Ensure, Free
  <2> QED
    BY <1>3, <1>4, <2>1, IdleFacts DEF Inv, ProgressOK, IoOK, TypeOK, TaskOK
<1>5. CASE /\ \A a \in intent[r].artifacts \cap Attachment : Readable(a)
           /\ Publish("settle", r, Both(r))
  <2>1. /\ task'.do = "settle" /\ task'.run = r /\ task'.left = Both(r) /\ task'.tried = {}
        /\ task'.fresh = Own(r) \ intent[r].artifacts /\ TaskOK'
    BY <1>2, <1>5, PublishedTask
  <2>2. \A a \in Own(r) \ intent[r].artifacts : row[a] # "published"
    BY <1>3, RunningIsUnnamed
  <2>3. \A a \in intent'[r].artifacts \cap Attachment : row'[a] = "published"
    BY <1>2, <1>3, <1>5 DEF Readable
  <2>4. SettleOK'
    BY <1>2, <1>3, <2>1, <2>2, <2>3 DEF SettleOK
  <2> QED BY <1>3, <2>1, <2>4 DEF Inv, ProgressOK, IoOK
<1> QED BY <1>4, <1>5 DEF Settle, Both

\* Whatever the operation had tried to put awaits its cleanup, what it had not
\* was never published.
LEMMA AbandonKeepsBytes ==
  ASSUME Inv, io.do = "put", NEW a \in task.fresh \ task.tried
  PROVE  row[a] # "published"
<1> USE DEF Inv
<1>1. task.do \in {"stage", "settle"} /\ task.left # <<>> /\ io.art = Head(task.left)
      /\ (io.art \in task.fresh => io.art \in task.tried)
  BY DEF IoOK
<1>2. CASE task.do = "stage"
  <2>1. PICK x \in Attachment : task.left \in {<<x>>, <<>>} /\ task.fresh \subseteq {x}
    BY <1>2 DEF ProgressOK, StageOK
  <2>2. io.art = x
    BY <1>1, <2>1, StageFacts DEF Attachment
  <2> QED BY <1>1, <2>1, <2>2
<1>3. CASE task.do = "settle"
  BY <1>3 DEF ProgressOK, SettleOK
<1> QED BY <1>1, <1>2, <1>3

LEMMA PutFailsPreserves ==
  ASSUME Inv, io.do = "put", NEW abandoned \in BOOLEAN, PutFails(abandoned),
         UNCHANGED blob, up, troubles' \in 0..MaxTroubles
  PROVE  Inv'
<1> USE DEF Inv
<1> DEFINE r == task.run
<1>1. UNCHANGED <<row, blob, claim, run, conversation, mentioned, checkpoint, up>>
      /\ io' = Quiet /\ task' = Idle
  BY DEF PutFails
<1>2. CASE UNCHANGED intent
  <2>1. FilesOK' /\ RecordsOK' /\ Named' /\ Accounted'
    BY <1>1, <1>2, SameRecords
  <2>2. TypeOK' /\ ProgressOK' /\ IoOK'
    BY <1>1, <1>2, IdleFacts DEF TypeOK, TaskOK, FilesTypeOK, Quiet, ProgressOK, IoOK
  <2> QED BY <2>1, <2>2
<1>3. CASE Abandon(r)
  <2>1. r \in Run /\ task.tried \subseteq task.fresh /\ task.fresh \subseteq Artifact
    BY PutIsIntended DEF TypeOK, TaskOK
  <2>2. /\ intent' \in [Run -> [artifacts : SUBSET Artifact, cleanup : SUBSET Artifact]]
        /\ intent'[r].artifacts = intent[r].artifacts \ task.fresh
        /\ intent'[r].cleanup = intent[r].cleanup \cup task.tried
        /\ \A q \in Run \ {r} : intent'[q] = intent[q]
    BY <1>3, <2>1 DEF Abandon, SetIntent, TypeOK
  <2>3. FilesOK' /\ Named'
    BY <1>1 DEF FilesOK, Named, InRecords
  <2>4. task.fresh \subseteq Own(r) \cup Attachment
    BY DEF IoOK, ProgressOK, StageOK, SettleOK
  <2>5. RecordsOK'
    BY <1>1, <2>1, <2>2, <2>4 DEF RecordsOK
  <2>6. \A q \in Run : intent'[q].artifacts \cap intent'[q].cleanup = {}
    BY <2>1, <2>2 DEF TypeOK
  <2>7. TypeOK'
    BY <1>1, <2>2, <2>6, IdleFacts DEF TypeOK, TaskOK, FilesTypeOK, Quiet
  <2>8. ASSUME NEW a \in Artifact, row[a] = "published", InIntents(a) PROVE InIntents(a)'
    <3>1. a \notin task.fresh \ task.tried
      BY <2>8, AbandonKeepsBytes
    <3> QED BY <2>1, <2>2, <2>8, <3>1 DEF InIntents
  <2>9. Accounted'
    BY <1>1, <2>8 DEF Accounted, InRecords, InCheckpoints
  <2>10. ProgressOK' /\ IoOK'
    BY <1>1, IdleFacts DEF ProgressOK, IoOK, Quiet
  <2> QED BY <2>3, <2>5, <2>7, <2>9, <2>10
<1> QED BY <1>2, <1>3 DEF PutFails


LEMMA StoreFailsPreserves == ~TornWrites => (Inv /\ (StoreFails \/ NoRoom) => Inv')
<1> SUFFICES ASSUME ~TornWrites, Inv, StoreFails \/ NoRoom PROVE Inv'
  OBVIOUS
<1>1. up /\ troubles' \in 0..MaxTroubles
  <2>1. troubles \in 0..MaxTroubles
    BY DEF Inv, TypeOK
  <2>2. up
    BY DEF StoreFails, NoRoom
  <2>3. troubles' = troubles \/ Trouble
    BY DEF StoreFails, NoRoom
  <2> QED BY <2>1, <2>2, <2>3, RunAssumption DEF Trouble
<1>2. CASE NoRoom
  BY <1>1, <1>2, PutFailsPreserves DEF NoRoom, PutRefused
<1>3. ASSUME io.do = "put", UNCHANGED blob, NEW abandoned \in BOOLEAN, PutFails(abandoned)
      PROVE  Inv'
  BY <1>1, <1>3, PutFailsPreserves
<1>4. ASSUME io.do = "release", io' = Quiet, task' = Idle, UNCHANGED <<files, records, up>>
      PROVE  Inv'
  BY <1>1, <1>4, TaskEnds
<1>5. ASSUME io.do = "sweep", io' = Quiet, UNCHANGED <<files, records, task, up>>
      PROVE  Inv'
  BY <1>1, <1>5, SweepPreserves
<1> QED BY <1>2, <1>3, <1>4, <1>5 DEF StoreFails, TornBlob

\* Two records and the conversation at once take over what the intent named.
LEMMA CommitSettlementPreserves == Inv /\ CommitSettlement => Inv'
<1> SUFFICES ASSUME Inv, CommitSettlement PROVE Inv'
  OBVIOUS
<1> USE DEF Inv
<1> DEFINE r == task.run
<1>1. /\ UNCHANGED <<row, blob, claim, io, checkpoint, up, troubles>> /\ up
      /\ task.do = "settle" /\ task.left = <<>> /\ task' = Idle
      /\ conversation' = r
      /\ mentioned' = mentioned \cup (intent[r].artifacts \cap Attachment)
  BY DEF CommitSettlement, files
<1>2. r \in Run /\ SettleOK /\ io.do \notin {"put", "release"} /\ Own(r) \subseteq Artifact
  BY <1>1, FreeIsQuiet, SlotFacts DEF ProgressOK, TypeOK, TaskOK
<1>3. /\ run' \in [Run -> [status : Status, events : 0..EventPages]]
      /\ run'[r].status = "shown" /\ \A q \in Run \ {r} : run'[q] = run[q]
  BY <1>2 DEF CommitSettlement, SetRun, TypeOK, Status
<1>4. /\ intent' \in [Run -> [artifacts : SUBSET Artifact, cleanup : SUBSET Artifact]]
      /\ intent'[r].artifacts = {} /\ intent'[r].cleanup = intent[r].cleanup
      /\ \A q \in Run \ {r} : intent'[q] = intent[q]
  BY <1>2 DEF CommitSettlement, SetIntent, NoIntent, TypeOK
<1>5. /\ run[r].status = "running" /\ ~checkpoint[r].set
      /\ \A a \in Own(r) : row[a] = "published"
      /\ \A a \in intent[r].artifacts \cap Attachment : row[a] = "published"
  <2>1. \A a \in Own(r) : row[a] = "published"
    BY <1>1, <1>2, SlotFacts DEF SettleOK, Own
  <2> QED BY <1>2, <2>1 DEF SettleOK, RecordsOK
<1>6. TypeOK'
  <2>1. \A q \in Run : intent'[q].artifacts \cap intent'[q].cleanup = {}
    BY <1>4 DEF TypeOK
  <2>2. conversation' \in Run \cup {NoRun} /\ mentioned' \subseteq Attachment
    BY <1>1, <1>2 DEF TypeOK
  <2>3. TaskOK' /\ FilesTypeOK'
    BY <1>1, IdleFacts DEF TypeOK, TaskOK, FilesTypeOK
  <2> QED BY <1>1, <1>3, <1>4, <2>1, <2>2, <2>3 DEF TypeOK
<1>7. FilesOK' /\ RecordsOK'
  BY <1>1, <1>2, <1>3, <1>4, <1>5 DEF FilesOK, RecordsOK
<1>8. \A a \in Artifact : InRecords(a)' => InRecords(a) \/ a \in Own(r)
  BY <1>1, <1>2, <1>3 DEF InRecords, Own
<1>9. Named'
  BY <1>1, <1>5, <1>8 DEF Named
<1>10. ASSUME NEW a \in Artifact, row[a] = "published"
       PROVE  InRecords(a)' \/ a \in mentioned' \/ InIntents(a)' \/ InCheckpoints(a)'
  <2>1. CASE a \in Own(r)
    BY <1>2, <1>3, <2>1 DEF InRecords, Own
  <2>2. CASE a \in intent[r].artifacts /\ a \notin Own(r)
    BY <1>1, <1>2, <2>2 DEF RecordsOK
  <2>3. CASE InIntents(a) /\ a \notin intent[r].artifacts
    BY <1>2, <1>4, <2>3 DEF InIntents
  <2>4. CASE InRecords(a) /\ a \notin Own(r)
    <3>1. CASE conversation # NoRun /\ a = Transcript[conversation]
      <4>1. conversation \in Run /\ conversation # r
        BY <2>4, <3>1 DEF TypeOK, Own
      <4>2. CASE run[conversation].status = "shown"
        BY <1>3, <3>1, <4>1, <4>2 DEF InRecords
      <4>3. CASE checkpoint[conversation].artifacts = Both(conversation)
        BY <1>1, <3>1, <4>1, <4>3, SlotFacts DEF InCheckpoints, Own
      <4> QED BY <4>1, <4>2, <4>3 DEF RecordsOK
    <3>2. CASE \E q \in Run : run[q].status = "shown" /\ a \in Own(q)
      BY <1>3, <2>4, <3>2 DEF InRecords, Own
    <3> QED BY <2>4, <3>1, <3>2 DEF InRecords, Own
  <2>5. CASE a \in mentioned \/ InCheckpoints(a)
    BY <1>1, <2>5 DEF InCheckpoints
  <2> QED BY <1>10, <2>1, <2>2, <2>3, <2>4, <2>5 DEF Accounted, InIntents
<1>11. Accounted'
  BY <1>1, <1>10 DEF Accounted
<1>12. ProgressOK' /\ IoOK'
  BY <1>1, <1>2, IdleFacts DEF ProgressOK, IoOK
<1> QED BY <1>6, <1>7, <1>9, <1>11, <1>12


\* What the intent still named awaits its cleanup.
LEMMA EndUnseenPreserves == ASSUME NEW r \in Run PROVE Inv /\ EndUnseen(r) => Inv'
<1> SUFFICES ASSUME Inv, EndUnseen(r) PROVE Inv'
  OBVIOUS
<1> USE DEF Inv
<1>1. /\ UNCHANGED <<row, blob, claim, io, conversation, mentioned, checkpoint, task, up, troubles>>
      /\ task = Idle /\ run[r].status \in {"running", "orphaned"}
  BY DEF EndUnseen, Free, files
<1>2. /\ run' \in [Run -> [status : Status, events : 0..EventPages]]
      /\ run'[r].status = "failed" /\ \A q \in Run \ {r} : run'[q] = run[q]
  BY DEF EndUnseen, SetRun, TypeOK, Status
<1>3. /\ intent' \in [Run -> [artifacts : SUBSET Artifact, cleanup : SUBSET Artifact]]
      /\ intent'[r].artifacts = {}
      /\ intent'[r].cleanup = intent[r].cleanup \cup intent[r].artifacts
      /\ \A q \in Run \ {r} : intent'[q] = intent[q]
  BY DEF EndUnseen, SetIntent, TypeOK
<1>4. TypeOK'
  <2>1. \A q \in Run : intent'[q].artifacts \cap intent'[q].cleanup = {}
    BY <1>3 DEF TypeOK
  <2>2. TaskOK' /\ FilesTypeOK'
    BY <1>1 DEF TypeOK, TaskOK, FilesTypeOK
  <2> QED BY <1>1, <1>2, <1>3, <2>1, <2>2 DEF TypeOK
<1>5. FilesOK' /\ RecordsOK'
  <2>1. FilesOK'
    BY <1>1 DEF FilesOK
  <2>2. Both(r) # <<>> /\ ~checkpoint[r].set
    BY <1>1, SlotFacts DEF RecordsOK
  <2>3. \A q \in Run :
          intent'[q].artifacts \cup intent'[q].cleanup
            = intent[q].artifacts \cup intent[q].cleanup
    BY <1>3
  <2> QED BY <1>1, <1>2, <2>1, <2>2, <2>3 DEF RecordsOK
<1>6. \A a \in Artifact : InRecords(a)' <=> InRecords(a)
  BY <1>1, <1>2 DEF InRecords
<1>7. \A a \in Artifact : InIntents(a)' <=> InIntents(a)
  BY <1>3 DEF InIntents
<1>8. Named' /\ Accounted'
  BY <1>1, <1>6, <1>7 DEF Named, Accounted, InCheckpoints
<1>9. ProgressOK' /\ IoOK'
  BY <1>1, FreeIsQuiet, IdleFacts DEF ProgressOK, IoOK
<1> QED BY <1>4, <1>5, <1>8, <1>9

---------------------------------------------------------------------------
(* Other operations, and retention *)

\* A run that is not shown becomes another one that is not; nothing else changes.
LEMMA StatusPreserves ==
  ASSUME Inv, run' \in [Run -> [status : Status, events : 0..EventPages]],
         \A r \in Run :
           \/ run'[r].status = run[r].status
           \/ /\ run[r].status \in {"absent", "running"}
              /\ run'[r].status \in {"running", "orphaned"},
         UNCHANGED <<row, blob, claim, conversation, mentioned, intent, checkpoint>>
  PROVE  FilesOK' /\ RecordsOK' /\ Named' /\ Accounted'
<1> USE DEF Inv
<1>1. FilesOK' /\ RecordsOK'
  BY DEF FilesOK, RecordsOK
<1>2. \A r \in Run : run'[r].status = "shown" <=> run[r].status = "shown"
  OBVIOUS
<1>3. \A a \in Artifact : InRecords(a)' <=> InRecords(a)
  BY <1>2 DEF InRecords
<1> QED BY <1>1, <1>3 DEF Named, Accounted, InIntents, InCheckpoints

LEMMA AdmitPreserves == ASSUME NEW r \in Run PROVE Inv /\ Admit(r) => Inv'
<1> SUFFICES ASSUME Inv, Admit(r) PROVE Inv'
  OBVIOUS
<1> USE DEF Inv
<1>1. /\ UNCHANGED <<row, blob, claim, io, conversation, mentioned, intent, checkpoint, task, up, troubles>>
      /\ task = Idle /\ up
  BY DEF Admit, Free, files
<1>2. /\ run' \in [Run -> [status : Status, events : 0..EventPages]]
      /\ run[r].status = "absent" /\ run'[r].status = "running"
      /\ \A q \in Run \ {r} : run'[q] = run[q]
  BY RunAssumption DEF Admit, TypeOK, Status
<1>3. FilesOK' /\ RecordsOK' /\ Named' /\ Accounted'
  BY <1>1, <1>2, StatusPreserves
<1>4. TypeOK' /\ ProgressOK' /\ IoOK'
  BY <1>1, <1>2, FreeIsQuiet, IdleFacts DEF TypeOK, TaskOK, FilesTypeOK, ProgressOK, IoOK
<1> QED BY <1>3, <1>4

LEMMA RetireEventsPreserves == ASSUME NEW r \in Run PROVE Inv /\ RetireEvents(r) => Inv'
<1> SUFFICES ASSUME Inv, RetireEvents(r) PROVE Inv'
  OBVIOUS
<1> USE DEF Inv
<1>1. /\ UNCHANGED <<row, blob, claim, io, conversation, mentioned, intent, checkpoint, task, up, troubles>>
      /\ task = Idle /\ up
  BY DEF RetireEvents, Free, files
<1>2. /\ run' \in [Run -> [status : Status, events : 0..EventPages]]
      /\ \A q \in Run : run'[q].status = run[q].status
  <2>1. run \in [Run -> [status : Status, events : 0..EventPages]]
    BY DEF TypeOK
  <2>2. run[r].events - 1 \in 0..EventPages
    BY <2>1, RunAssumption DEF RetireEvents
  <2>3. run' = [run EXCEPT ![r].events = run[r].events - 1]
    BY DEF RetireEvents
  <2> QED BY <2>1, <2>2, <2>3
<1>3. FilesOK' /\ RecordsOK' /\ Named' /\ Accounted'
  BY <1>1, <1>2, StatusPreserves
<1>4. TypeOK' /\ ProgressOK' /\ IoOK'
  BY <1>1, <1>2, FreeIsQuiet, IdleFacts DEF TypeOK, TaskOK, FilesTypeOK, ProgressOK, IoOK
<1> QED BY <1>3, <1>4

\* A crash orphans the runs and ends what was under way.
LEMMA CrashPreserves == ~TornWrites => (Inv /\ Crash => Inv')
<1> SUFFICES ASSUME ~TornWrites, Inv, Crash PROVE Inv'
  OBVIOUS
<1> USE DEF Inv
<1>1. /\ UNCHANGED <<row, blob, claim, conversation, mentioned, intent, checkpoint>>
      /\ up' = FALSE /\ io' = Quiet /\ task' = Idle /\ troubles' \in 0..MaxTroubles
  <2>1. troubles \in 0..MaxTroubles
    BY DEF TypeOK
  <2> QED BY <2>1, RunAssumption DEF Crash, TornBlob, Trouble
<1>2. /\ run' \in [Run -> [status : Status, events : 0..EventPages]]
      /\ \A q \in Run : \/ run'[q] = run[q]
                        \/ run[q].status = "running" /\ run'[q].status = "orphaned"
  BY DEF Crash, TypeOK, Status
<1>3. FilesOK' /\ RecordsOK' /\ Named' /\ Accounted'
  BY <1>1, <1>2, StatusPreserves
<1>4. TypeOK' /\ ProgressOK' /\ IoOK'
  BY <1>1, <1>2, IdleFacts DEF TypeOK, TaskOK, FilesTypeOK, Quiet, ProgressOK, IoOK
<1> QED BY <1>3, <1>4

LEMMA OpenPreserves == Inv /\ Open => Inv'
<1> SUFFICES ASSUME Inv, Open PROVE Inv'
  OBVIOUS
<1> USE DEF Inv
<1>1. UNCHANGED <<row, blob, claim, io, run, conversation, mentioned, intent, checkpoint, task, troubles>>
      /\ up' = TRUE
  BY DEF Open, files, records
<1>2. FilesOK' /\ RecordsOK' /\ Named' /\ Accounted'
  BY <1>1, SameRecords
<1>3. TypeOK' /\ ProgressOK' /\ IoOK'
  BY <1>1 DEF TypeOK, TaskOK, FilesTypeOK, ProgressOK, StageOK, SettleOK, RetainOK,
     IoOK, Referenced, InRecords, InIntents
<1> QED BY <1>2, <1>3


\* The conversation gives its transcript up, which its run or the checkpoint of
\* the run still names.
LEMMA DeliverPreserves == Inv /\ Deliver => Inv'
<1> SUFFICES ASSUME Inv, Deliver PROVE Inv'
  OBVIOUS
<1> USE DEF Inv
<1>1. /\ UNCHANGED <<row, blob, claim, io, run, mentioned, intent, checkpoint, task, up, troubles>>
      /\ conversation' = NoRun /\ conversation \in Run /\ task = Idle
  BY DEF Deliver, Free, files, TypeOK
<1>2. TypeOK' /\ FilesOK' /\ RecordsOK'
  BY <1>1, RunAssumption DEF TypeOK, TaskOK, FilesTypeOK, FilesOK, RecordsOK
<1>3. Named'
  BY <1>1 DEF Named, InRecords
<1>4. ASSUME NEW a \in Artifact, InRecords(a)
      PROVE  InRecords(a)' \/ InCheckpoints(a)'
  <2>1. CASE a = Transcript[conversation]
    <3>1. CASE run[conversation].status = "shown"
      BY <1>1, <2>1, <3>1 DEF InRecords
    <3>2. CASE checkpoint[conversation].artifacts = Both(conversation)
      BY <1>1, <2>1, <3>2, SlotFacts DEF InCheckpoints, Own
    <3> QED BY <1>1, <3>1, <3>2 DEF RecordsOK
  <2>2. CASE a # Transcript[conversation]
    BY <1>1, <1>4, <2>2 DEF InRecords
  <2> QED BY <2>1, <2>2
<1>5. Accounted'
  BY <1>1, <1>4 DEF Accounted, InIntents, InCheckpoints
<1>6. ProgressOK' /\ IoOK'
  BY <1>1, FreeIsQuiet, IdleFacts DEF ProgressOK, IoOK
<1> QED BY <1>2, <1>3, <1>5, <1>6

LEMMA ClaimPreserves == ASSUME NEW r \in Run PROVE Inv /\ Claim(r) => Inv'
<1> SUFFICES ASSUME Inv, Claim(r) PROVE Inv'
  OBVIOUS
<1> USE DEF Inv
<1>1. /\ UNCHANGED <<row, blob, claim, io, run, conversation, mentioned, intent, task, up, troubles>>
      /\ task = Idle /\ run[r].status \in {"shown", "failed"} /\ ~checkpoint[r].set
  BY DEF Claim, Free, files
<1> DEFINE named == IF run[r].status = "shown" THEN Both(r) ELSE <<>>
<1>2. /\ checkpoint' = [checkpoint EXCEPT ![r] = [set |-> TRUE, artifacts |-> named]]
      /\ named \in Seq(Artifact) /\ named \in {<<>>, Both(r)}
  BY SlotFacts, EmptyFacts DEF Claim, Both
<1>3. /\ checkpoint' \in [Run -> [set : BOOLEAN, artifacts : Seq(Artifact)]]
      /\ checkpoint'[r].set /\ checkpoint'[r].artifacts = named
      /\ \A q \in Run \ {r} : checkpoint'[q] = checkpoint[q]
  BY <1>2 DEF TypeOK
<1>4. checkpoint[r].artifacts = <<>> /\ <<>> # Both(r)
  BY <1>1, SlotFacts DEF RecordsOK
<1>5. TypeOK'
  BY <1>1, <1>3 DEF TypeOK, TaskOK, FilesTypeOK
<1>6. FilesOK' /\ Named'
  BY <1>1 DEF FilesOK, Named, InRecords
<1>7. RecordsOK'
  BY <1>1, <1>2, <1>3, <1>4 DEF RecordsOK
<1>8. \A a \in Artifact : InCheckpoints(a) => InCheckpoints(a)'
  BY <1>3, <1>4, EmptyFacts DEF InCheckpoints
<1>9. Accounted'
  BY <1>1, <1>8 DEF Accounted, InRecords, InIntents
<1>10. ProgressOK' /\ IoOK'
  BY <1>1, FreeIsQuiet, IdleFacts DEF ProgressOK, IoOK
<1> QED BY <1>5, <1>6, <1>7, <1>9, <1>10

\* From here on the checkpoint names what the records named.
LEMMA RetireOwnersPreserves == ASSUME NEW r \in Run PROVE Inv /\ RetireOwners(r) => Inv'
<1> SUFFICES ASSUME Inv, RetireOwners(r) PROVE Inv'
  OBVIOUS
<1> USE DEF Inv
<1>1. /\ UNCHANGED <<row, blob, claim, io, conversation, mentioned, intent, checkpoint, task, up, troubles>>
      /\ task = Idle /\ checkpoint[r].set
  BY DEF RetireOwners, Free, files
<1>2. /\ run' \in [Run -> [status : Status, events : 0..EventPages]]
      /\ run'[r].status = "retired" /\ \A q \in Run \ {r} : run'[q] = run[q]
  BY DEF RetireOwners, SetRun, TypeOK, Status
<1>3. TypeOK'
  BY <1>1, <1>2 DEF TypeOK, TaskOK, FilesTypeOK
<1>4. FilesOK' /\ RecordsOK'
  BY <1>1, <1>2 DEF FilesOK, RecordsOK
<1>5. Named'
  BY <1>1, <1>2 DEF Named, InRecords
<1>6. ASSUME NEW a \in Artifact, InRecords(a)
      PROVE  InRecords(a)' \/ InCheckpoints(a)'
  <2>1. CASE run[r].status = "shown" /\ a \in Own(r)
    BY <1>1, <2>1, SlotFacts DEF RecordsOK, InCheckpoints
  <2>2. CASE ~(run[r].status = "shown" /\ a \in Own(r))
    BY <1>1, <1>2, <1>6, <2>2 DEF InRecords, Own
  <2> QED BY <2>1, <2>2
<1>7. Accounted'
  BY <1>1, <1>6 DEF Accounted, InIntents, InCheckpoints
<1>8. ProgressOK' /\ IoOK'
  BY <1>1, FreeIsQuiet, IdleFacts DEF ProgressOK, IoOK
<1> QED BY <1>3, <1>4, <1>5, <1>7, <1>8

LEMMA RetireArtifactsPreserves == ASSUME NEW r \in Run PROVE Inv /\ RetireArtifacts(r) => Inv'
<1> SUFFICES ASSUME Inv, RetireArtifacts(r) PROVE Inv'
  OBVIOUS
<1> USE DEF Inv
<1>1. /\ UNCHANGED <<row, blob, claim, io, run, conversation, mentioned, intent, checkpoint, up, troubles>>
      /\ task = Idle /\ up /\ checkpoint[r].set /\ run[r].status = "retired"
  BY DEF RetireArtifacts, Free, files, records
<1>2. FilesOK' /\ RecordsOK' /\ Named' /\ Accounted'
  BY <1>1, SameRecords
<1>3. /\ task'.do = "retain" /\ task'.run = r /\ task'.left = checkpoint[r].artifacts
      /\ task'.kept = FALSE /\ task'.fresh = {} /\ task'.tried = {}
      /\ task' = [do |-> "retain", run |-> r, left |-> checkpoint[r].artifacts,
                  fresh |-> {}, tried |-> {}, kept |-> FALSE]
  BY DEF RetireArtifacts, Idle
<1>4. TaskOK'
  BY <1>3, RunAssumption DEF TaskOK, TypeOK
<1>5. TypeOK'
  BY <1>1, <1>4 DEF TypeOK, FilesTypeOK
<1>6. checkpoint[r].artifacts \in {<<>>, Both(r)} /\ Both(r) # <<>>
  BY SlotFacts DEF RecordsOK
<1>7. RetainOK'
  BY <1>1, <1>3, <1>6 DEF RetainOK
<1>8. ProgressOK' /\ IoOK'
  BY <1>1, <1>3, <1>7, FreeIsQuiet DEF ProgressOK, IoOK
<1> QED BY <1>2, <1>5, <1>8

\* The checkpoint goes only when nothing it named is published any more.
LEMMA EndRetentionPreserves == Inv /\ EndRetention => Inv'
<1> SUFFICES ASSUME Inv, EndRetention PROVE Inv'
  OBVIOUS
<1> USE DEF Inv
<1> DEFINE r == task.run
<1>1. /\ UNCHANGED <<row, blob, claim, io, run, conversation, mentioned, intent, up, troubles>>
      /\ task.do = "retain" /\ task.left = <<>> /\ task' = Idle /\ up
  BY DEF EndRetention, files
<1>2. r \in Run /\ RetainOK /\ io.do \notin {"put", "release"}
  BY <1>1, FreeIsQuiet DEF ProgressOK, TypeOK, TaskOK
<1>3. CASE task.kept
  BY <1>1, <1>3, TaskEnds DEF EndRetention, files, records, TypeOK
<1>4. CASE ~task.kept
  <2>1. /\ checkpoint' \in [Run -> [set : BOOLEAN, artifacts : Seq(Artifact)]]
        /\ checkpoint'[r].set = FALSE /\ checkpoint'[r].artifacts = <<>>
        /\ \A q \in Run \ {r} : checkpoint'[q] = checkpoint[q]
    <3>1. checkpoint' = [checkpoint EXCEPT ![r] = NoCheckpoint]
      BY <1>4 DEF EndRetention
    <3>2. NoCheckpoint \in [set : BOOLEAN, artifacts : Seq(Artifact)]
      BY EmptyFacts DEF NoCheckpoint
    <3>3. NoCheckpoint.set = FALSE /\ NoCheckpoint.artifacts = <<>>
      BY DEF NoCheckpoint
    <3>4. checkpoint \in [Run -> [set : BOOLEAN, artifacts : Seq(Artifact)]]
      BY DEF TypeOK
    <3> QED BY <1>2, <3>1, <3>2, <3>3, <3>4
  <2>2. TypeOK'
    BY <1>1, <2>1, IdleFacts DEF TypeOK, TaskOK, FilesTypeOK
  <2>3. /\ Own(r) \subseteq Artifact /\ Both(r) # <<>> /\ Range(Both(r)) = Own(r)
    BY <1>2, SlotFacts
  <2>4. checkpoint[r].artifacts = Both(r) => \A a \in Own(r) : row[a] # "published"
    BY <1>1, <1>2, <1>4, <2>3 DEF RetainOK, Own
  <2>5. conversation # r
    <3> SUFFICES ASSUME conversation = r PROVE FALSE
      OBVIOUS
    <3>1. run[r].status = "retired" /\ checkpoint[r].artifacts = Both(r)
      BY <1>2 DEF RetainOK, RecordsOK
    <3>2. InRecords(Transcript[r])
      BY <1>2, RunAssumption DEF InRecords
    <3> QED BY <2>3, <2>4, <3>1, <3>2 DEF Named, Own
  <2>6. FilesOK' /\ RecordsOK'
    BY <1>1, <1>2, <2>1, <2>5 DEF FilesOK, RecordsOK
  <2>7. Named'
    BY <1>1 DEF Named, InRecords
  <2>8. ASSUME NEW a \in Artifact, row[a] = "published", InCheckpoints(a) PROVE InCheckpoints(a)'
    <3>1. a \notin Range(checkpoint[r].artifacts)
      BY <1>2, <2>3, <2>4, <2>8, EmptyFacts DEF RecordsOK
    <3> QED BY <2>1, <2>8, <3>1 DEF InCheckpoints
  <2>9. Accounted'
    BY <1>1, <2>8 DEF Accounted, InRecords, InIntents
  <2>10. ProgressOK' /\ IoOK'
    BY <1>1, <1>2, IdleFacts DEF ProgressOK, IoOK
  <2> QED BY <2>2, <2>6, <2>7, <2>9, <2>10
<1> QED BY <1>3, <1>4


---------------------------------------------------------------------------
(* The theorems *)

LEMMA InitInv == Init => Inv
<1> SUFFICES ASSUME Init PROVE Inv
  OBVIOUS
<1> USE DEF Init, FilesInit
<1>1. TypeOK
  <2>1. FilesTypeOK
    BY ArtifactAssumption DEF FilesTypeOK, RowState, Quiet
  <2>2. TaskOK
    BY IdleFacts DEF TaskOK
  <2>3. /\ run \in [Run -> [status : Status, events : 0..EventPages]]
        /\ troubles \in 0..MaxTroubles
    BY RunAssumption DEF Status
  <2>4. /\ intent \in [Run -> [artifacts : SUBSET Artifact, cleanup : SUBSET Artifact]]
        /\ \A r \in Run : intent[r].artifacts \cap intent[r].cleanup = {}
    BY DEF NoIntent
  <2>5. checkpoint \in [Run -> [set : BOOLEAN, artifacts : Seq(Artifact)]]
    BY DEF NoCheckpoint
  <2> QED BY <2>1, <2>2, <2>3, <2>4, <2>5 DEF TypeOK
<1>2. FilesOK
  BY DEF FilesOK
<1>3. RecordsOK
  BY RunAssumption DEF RecordsOK, NoIntent, NoCheckpoint
<1>4. ProgressOK /\ IoOK
  BY IdleFacts DEF ProgressOK, IoOK, Quiet
<1>5. Named /\ Accounted
  BY DEF Named, Accounted, InRecords
<1> QED BY <1>1, <1>2, <1>3, <1>4, <1>5 DEF Inv

LEMMA NextInv == ~TornWrites => (Inv /\ [Next]_vars => Inv')
<1> SUFFICES ASSUME ~TornWrites, Inv, [Next]_vars PROVE Inv'
  OBVIOUS
<1>1. ASSUME NEW r \in Run, Publication(r) PROVE Inv'
  BY <1>1, AdmitPreserves, SettlePreserves, EndUnseenPreserves, StagePreserves DEF Publication
<1>2. ASSUME NEW r \in Run, Claim(r) \/ Resume(r) PROVE Inv'
  BY <1>2, ClaimPreserves, RetireEventsPreserves, RetireOwnersPreserves,
     RetireArtifactsPreserves DEF Resume
<1>3. CASE Deliver
  BY <1>3, DeliverPreserves
<1>4. CASE Working
  BY <1>4, PutNextPreserves, EndsPreserve, CommitSettlementPreserves, KeepReferencedPreserves,
     ReleaseNextPreserves, EndRetentionPreserves, StoreStepPreserves, StoreReturnsPreserves,
     StoreFailsPreserves DEF Working
<1>5. CASE Faults
  BY <1>5, EndsPreserve, StoreFailsPreserves, CrashPreserves DEF Faults
<1>6. CASE Open
  BY <1>6, OpenPreserves
<1>7. ASSUME NEW a \in Artifact, Sweep(a) PROVE Inv'
  <2>1. /\ UNCHANGED <<files, records, task, up>> /\ troubles' = troubles /\ up /\ io = Quiet
        /\ io' = [do |-> "sweep", art |-> a]
    BY <1>7 DEF Sweep, Begin
  <2>2. io.do \notin {"put", "release"}
    BY <2>1 DEF Quiet
  <2>3. troubles' \in 0..MaxTroubles
    BY <2>1 DEF Inv, TypeOK
  <2> QED BY <2>1, <2>2, <2>3, SweepPreserves
<1>8. CASE UNCHANGED vars
  <2>1. UNCHANGED <<row, blob, claim, io, run, conversation, mentioned, intent, checkpoint, task, up, troubles>>
    BY <1>8 DEF vars, files, records
  <2>2. FilesOK' /\ RecordsOK' /\ Named' /\ Accounted'
    BY <2>1, SameRecords
  <2>3. TypeOK' /\ ProgressOK' /\ IoOK'
    BY <2>1 DEF Inv, TypeOK, TaskOK, FilesTypeOK, ProgressOK, StageOK, SettleOK, RetainOK,
       IoOK, Referenced, InRecords, InIntents
  <2> QED BY <2>2, <2>3 DEF Inv
<1> QED BY <1>1, <1>2, <1>3, <1>4, <1>5, <1>6, <1>7, <1>8 DEF Next

\* When no write is torn, the inductive invariant holds in every reachable state.
THEOREM RetentionInvariance == ~TornWrites => (Spec => []Inv)
<1>1. ASSUME ~TornWrites PROVE Inv /\ [Next]_vars => Inv'
  BY <1>1, NextInv
<1> SUFFICES ASSUME ~TornWrites PROVE Spec => []Inv
  OBVIOUS
<1> QED BY InitInv, <1>1, PTL DEF Spec


\* Rows, files, records and operations keep their types, and no slot of an intent
\* is at once active and awaiting its cleanup.
THEOREM RetentionTypeCorrect == ~TornWrites => (Spec => []TypeOK)
<1>1. Inv => TypeOK
  BY DEF Inv
<1> QED BY <1>1, RetentionInvariance, PTL

\* Whatever the single write after which an operation failed or the process died,
\* scan accepts what is on the disk: the store opens and every operation begins.
THEOREM StoreAlwaysOpens == ~TornWrites => (Spec => []AlwaysOpens)
<1>1. Inv => AlwaysOpens
  BY DEF Inv, FilesOK, AlwaysOpens, ScanAccepts
<1> QED BY <1>1, RetentionInvariance, PTL

\* No retention, sweep or failed publication takes an artifact that a run, an
\* admission, the conversation or a settled transcript names.
THEOREM NamedStaysReadable == ~TornWrites => (Spec => []NamedIsReadable)
<1>1. Inv => NamedIsReadable
  BY DEF Inv, Named, FilesOK, NamedIsReadable, Readable
<1> QED BY <1>1, RetentionInvariance, PTL

\* Bytes on the disk are named by a record, an intent or a checkpoint, or their
\* row is one that the next sweep takes up: nothing leaks.
THEOREM NothingLeaksForGood == ~TornWrites => (Spec => []BytesAreAccountedFor)
<1>1. Inv => BytesAreAccountedFor
  <2> SUFFICES ASSUME Inv, NEW a \in Artifact, blob[a] # "none" \/ a \in claim
               PROVE  Sweepable(a) \/ row[a] = "published"
    BY DEF Inv, Accounted, BytesAreAccountedFor
  <2>1. row[a] \in RowState /\ row[a] \notin {"absent", "removed"}
    BY DEF Inv, FilesOK, TypeOK, FilesTypeOK
  <2> QED BY <2>1 DEF Sweepable, RowState
<1> QED BY <1>1, RetentionInvariance, PTL
=============================================================================
