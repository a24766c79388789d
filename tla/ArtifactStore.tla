--------------------------- MODULE ArtifactStore ---------------------------
(***************************************************************************)
(* The content-addressed artifact store of state-local                     *)
(* (state-local/src/artifacts.ts): a transactional index of rows and a     *)
(* directory of blobs, kept in agreement by the order of single writes.    *)
(*                                                                         *)
(* The store runs one operation at a time (store.ts, runExclusive).  An    *)
(* operation is a sequence of index writes and file operations, each       *)
(* chosen by what the row and the files show, so that an operation that    *)
(* failed or died half-way is taken up by a later one.  An index append    *)
(* that fails poisons the index until it is reopened, as a crash does.     *)
(***************************************************************************)
EXTENDS Naturals, FiniteSets

CONSTANTS
  Artifact,       \* contents, identified by their digests
  NoArtifact,
  MaxArtifacts    \* STATE_LOCAL_MAX_ARTIFACTS, which also bounds the index

ASSUME ArtifactAssumption ==
  /\ NoArtifact \notin Artifact
  /\ MaxArtifacts \in Nat

VARIABLES
  row,      \* per artifact: the state of its index row
  blob,     \* per artifact: the file under the row's storageName
  claim,    \* the artifacts whose file is under the row's removalClaim
  io        \* the operation under way and its artifact

files == <<row, blob, claim>>

RowState == {"absent", "reserved", "staged", "published", "removing",
             "releasing", "removed"}

Quiet == [do |-> "none", art |-> NoArtifact]

FilesTypeOK ==
  /\ row \in [Artifact -> RowState]
  /\ blob \in [Artifact -> {"none", "torn", "whole"}]
  /\ claim \subseteq Artifact
  /\ io \in [do : {"none", "put", "release", "sweep"}, art : Artifact \cup {NoArtifact}]
  /\ io.do = "none" <=> io.art = NoArtifact

FilesInit ==
  /\ row = [a \in Artifact |-> "absent"]
  /\ blob = [a \in Artifact |-> "none"]
  /\ claim = {}
  /\ io = Quiet

Write(a, state) == row' = [row EXCEPT ![a] = state]
Readable(a) == row[a] = "published" /\ blob[a] = "whole"

\* What scan accepts.  It runs when the store opens and before each operation.
\* A file without a row is tolerated, a row of a removal need not have a file.
ScanAccepts ==
  \A a \in Artifact :
    /\ blob[a] # "none" => row[a] # "removed"
    /\ blob[a] = "torn" => row[a] = "absent"
    /\ a \in claim => blob[a] = "none" /\ row[a] \in {"removing", "releasing"}
    /\ row[a] \in {"staged", "published"} => blob[a] = "whole"

Begin(do, a) ==
  /\ io = Quiet
  /\ ScanAccepts
  /\ io' = [do |-> do, art |-> a]

---------------------------------------------------------------------------
(* put *)

Rows(states) == {a \in Artifact : row[a] \in states}

\* Removed rows are not active, but their keys stay in the index.
Room(a) ==
  /\ Cardinality(Rows(RowState \ {"absent", "removed"})) < MaxArtifacts
  /\ row[a] = "absent" => Cardinality(Rows(RowState \ {"absent"})) < MaxArtifacts

Reserve(a) ==
  /\ row[a] \in {"absent", "removed"} /\ Room(a)
  /\ Write(a, "reserved")
  /\ UNCHANGED <<blob, claim>>

CreateBlob(a) ==
  /\ row[a] = "reserved" /\ blob[a] = "none"
  /\ blob' = [blob EXCEPT ![a] = "whole"]
  /\ UNCHANGED <<row, claim>>

\* The blob is verified before the row is written.
StageRow(a) ==
  /\ row[a] = "reserved" /\ blob[a] = "whole"
  /\ Write(a, "staged")
  /\ UNCHANGED <<blob, claim>>

PublishRow(a) ==
  /\ row[a] = "staged" /\ blob[a] = "whole"
  /\ Write(a, "published")
  /\ UNCHANGED <<blob, claim>>

---------------------------------------------------------------------------
(* finishArtifactRemoval *)

DropReservation(a) ==
  /\ row[a] = "reserved" /\ blob[a] = "none"
  /\ Write(a, "removed")
  /\ UNCHANGED <<blob, claim>>

ClaimRemoval(a) ==
  /\ row[a] = "staged" /\ blob[a] = "whole"
  /\ Write(a, "removing")
  /\ UNCHANGED <<blob, claim>>

MoveToClaim(a) ==
  /\ row[a] \in {"removing", "releasing"} /\ blob[a] = "whole"
  /\ blob' = [blob EXCEPT ![a] = "none"]
  /\ claim' = claim \cup {a}
  /\ UNCHANGED row

Unlink(a) ==
  /\ row[a] \in {"removing", "releasing"} /\ a \in claim
  /\ claim' = claim \ {a}
  /\ UNCHANGED <<row, blob>>

\* mutant: the row is written before the claimed file is unlinked
MarkRemovedEarly(a) ==
  /\ row[a] \in {"removing", "releasing"} /\ blob[a] = "none"
  /\ Write(a, "removed")
  /\ UNCHANGED <<blob, claim>>

MarkRemoved(a) ==
  /\ row[a] \in {"removing", "releasing"} /\ blob[a] = "none" /\ a \notin claim
  /\ Write(a, "removed")
  /\ UNCHANGED <<blob, claim>>

RemovalStep(a) == MoveToClaim(a) \/ Unlink(a) \/ MarkRemoved(a)

---------------------------------------------------------------------------
(* The steps of the operation under way. *)

\* A row that is being removed is removed before it is reserved again.
PutStep ==
  /\ io.do = "put"
  /\ LET a == io.art IN
       Reserve(a) \/ CreateBlob(a) \/ StageRow(a) \/ PublishRow(a) \/ RemovalStep(a)
  /\ UNCHANGED io

\* releasePublished: only a published row starts its release, which a row left
\* releasing takes up again.
ReleaseStep ==
  /\ io.do = "release"
  /\ LET a == io.art IN
       \/ /\ row[a] = "published" /\ blob[a] = "whole"
          /\ Write(a, "releasing")
          /\ UNCHANGED <<blob, claim>>
       \/ row[a] = "releasing" /\ RemovalStep(a)
  /\ UNCHANGED io

\* maintain, of one of its candidates.
SweepStep ==
  /\ io.do = "sweep"
  /\ LET a == io.art IN
       DropReservation(a) \/ StageRow(a) \/ ClaimRemoval(a) \/ RemovalStep(a)
  /\ UNCHANGED io

PutDone == io.do = "put" /\ row[io.art] = "published"
PutRefused == io.do = "put" /\ row[io.art] \in {"absent", "removed"} /\ ~Room(io.art)
ReleaseDone == io.do = "release" /\ row[io.art] \notin {"published", "releasing"}
SweepDone == io.do = "sweep" /\ row[io.art] = "removed"

Sweepable(a) == row[a] \in {"reserved", "staged", "removing", "releasing"}
=============================================================================
