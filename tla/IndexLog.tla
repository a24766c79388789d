------------------------------ MODULE IndexLog ------------------------------
(***************************************************************************)
(* The index log of a state directory (state-local/src/secure-fs.ts and    *)
(* index-log-compaction.ts): one file of framed entries behind a process   *)
(* lease, appended to, compacted in place, and repaired when it is opened. *)
(*                                                                         *)
(* An entry is two durable appends, its body and its commit footer.  A     *)
(* compaction appends a stage (control, compact image, footer), copies the *)
(* image over the head of the file and truncates; when the image is longer *)
(* than the log, a growth marker and zeros first make room between them.   *)
(* Each durable operation (its writes and the fsync after them) is a step; *)
(* a fault in the midst of one leaves any state its writes can leave.      *)
(*                                                                         *)
(* The file is a sequence of cells, each naming the frame it is a part of: *)
(* a digest holds where all cells of its range are those of one frame.     *)
(* The header of the log, which nothing rewrites, is left out.             *)
(***************************************************************************)
EXTENDS Naturals, FiniteSets, SequencesExt

CONSTANTS
  Key,                 \* the keys, numbered in their sort order
  Value, NoValue,
  Size,                \* the cells of an entry's frame, by its value
  MaxCells,            \* maximumBytes
  MaxFrames,           \* maximumFrames
  CompactObsolete,     \* compactAfterObsoleteFrames
  CompactReclaimable,  \* compactAfterReclaimableBytes
  CachePersists        \* what a dead process wrote may stay in the cache,
                       \* unsynced, until a later loss of power

ASSUME IndexLogAssumption ==
  /\ Key \subseteq Nat /\ IsFiniteSet(Key)
  /\ NoValue \notin Value
  /\ Size \in [Value -> Nat] /\ \A v \in Value : Size[v] >= 3
  /\ MaxFrames \in Nat /\ MaxFrames >= 2
  /\ CompactObsolete \in 1..(MaxFrames - 1)
  /\ MaxCells \in Nat /\ CompactReclaimable \in 1..(MaxCells - 1)
  /\ CachePersists \in BOOLEAN

VARIABLES
  phase,    \* closed, broken, open, or the durable operation under way
  file,     \* the cells a read returns
  disk,     \* the cells that survive a loss of power
  frame,    \* the frame being appended, or the stage being copied
  keep,     \* the length a truncation under way leaves
  index,    \* the index in memory: where the entry of each key begins
  frames,   \* frameCount
  asked,    \* the last write asked for, and what was stored then
  told,     \* what its caller was told: none, applied, refused, or doubt
  stored    \* a history variable: what reopening after a loss of power would give

vars == <<phase, file, disk, frame, keep, index, frames, asked, told, stored>>

---------------------------------------------------------------------------
(* Frames *)

MarkerCells == 2
StageOverhead == 3     \* head, control and footer
StagingLimit == 2 * MaxCells + StageOverhead + MarkerCells

NoFrame == [kind |-> "zero"]
Entry(k, v) == [kind |-> "entry", key |-> k, value |-> v]
Stage(source, image) == [kind |-> "stage", source |-> source, image |-> image]
Marker(source, outer, compact) ==
  [kind |-> "marker", source |-> source, outer |-> outer, compact |-> compact]

Total(f) ==
  CASE f.kind = "entry"  -> Size[f.value]
    [] f.kind = "stage"  -> Len(f.image) + StageOverhead
    [] f.kind = "marker" -> MarkerCells

Cell(f, i) == [of |-> f, at |-> i]
Zero == Cell(NoFrame, 0)

Cells(f) ==
  IF f.kind = "stage"
    THEN <<Cell(f, 1), Cell(f, 2)>> \o f.image \o <<Cell(f, Total(f))>>
    ELSE [i \in 1..Total(f) |-> Cell(f, i)]

IsHead(c, kind) == c.of.kind = kind /\ c.at = 1
IsFoot(c) == c.of.kind \in {"entry", "stage"} /\ c.at = Total(c.of)

Prefix(log, n) == SubSeq(log, 1, n)
HoldsAt(log, o, f) ==
  o + Total(f) <= Len(log) /\ SubSeq(log, o + 1, o + Total(f)) = Cells(f)
EndsWithFoot(log) == IsFoot(Last(log))
CommittedFrom(log, o) ==
  EndsWithFoot(log) /\ o = Len(log) - Total(Last(log).of)
---------------------------------------------------------------------------
(* Reading the log *)

EntryAt(log, o) ==
  /\ o < Len(log)
  /\ log[o + 1].of.kind = "entry"
  /\ HoldsAt(log, o, log[o + 1].of)

\* The entries a load passes, from the first cell to the first that begins none.
Entries(log) ==
  LET from[o \in 0..Len(log)] ==
        IF EntryAt(log, o) THEN <<log[o + 1].of>> \o from[o + Total(log[o + 1].of)] ELSE <<>>
  IN  from[0]

CellsOf(entries) == FoldSeq(LAMBDA f, sum : sum + Total(f), 0, entries)
TailOf(log) == CellsOf(Entries(log))

NoEntry == [at |-> 0, cells |-> 0]
LastOf(entries, k) == SelectLastInSeq(entries, LAMBDA f : f.key = k)

IndexOf(log) ==
  LET entries == Entries(log) IN
  [k \in Key |->
    LET i == LastOf(entries, k) IN
    IF i = 0 THEN NoEntry
    ELSE [at |-> CellsOf(Prefix(entries, i - 1)), cells |-> Total(entries[i])]]

Contents(log) ==
  LET entries == Entries(log) IN
  [k \in Key |->
    LET i == LastOf(entries, k) IN IF i = 0 THEN NoValue ELSE entries[i].value]

\* What a digest of the whole log tells apart, once its entries are parsed.
Digest(log) == [cells |-> Len(log), entries |-> Entries(log)]

\* What a tail that is not a whole entry may be and still be cut off.
TornEntry(log, t) ==
  /\ IsHead(log[t + 1], "entry")
  /\ Len(log) < t + Total(log[t + 1].of)
  /\ ~EndsWithFoot(log)

TornMarker(log, t) ==
  /\ IsHead(log[t + 1], "marker")
  /\ LET m == log[t + 1].of IN
       \/ Len(log) = t + 1
       \/ /\ log[t + 2] = Cell(m, 2)
          /\ m.source = Digest(Prefix(log, t))
          /\ Len(log) < m.outer + m.compact + StageOverhead
          /\ \A i \in (t + 3)..Len(log) : i <= m.outer => log[i] = Zero
          /\ ~CommittedFrom(log, m.outer)

TornStage(log, t) ==
  /\ IsHead(log[t + 1], "stage")
  /\ LET s == log[t + 1].of IN
       /\ Len(log) < t + Total(s)
       /\ Len(log) = t + 1 \/ (log[t + 2] = Cell(s, 2) /\ s.source = Digest(Prefix(log, t)))
       /\ ~CommittedFrom(log, t)

\* mutant: recovery also demands that the source is as the control names it.
ReadyUntouched(log) ==
  /\ log # <<>> /\ EndsWithFoot(log) /\ Last(log).of.kind = "stage"
  /\ LET s == Last(log).of
         o == Len(log) - Total(s)
     IN  /\ s.source = Digest(Prefix(log, o))
         /\ HoldsAt(log, o, s)

\* A stage is ready when it is whole and follows as many cells as its source
\* had.  Those cells may have changed: the copying over them may have begun.
Ready(log) ==
  /\ log # <<>> /\ EndsWithFoot(log) /\ Last(log).of.kind = "stage"
  /\ LET s == Last(log).of
         o == Len(log) - Total(s)
     IN  /\ o = s.source.cells
         /\ HoldsAt(log, o, s)

Verdict(log) ==
  LET t == TailOf(log)
      fits == t <= MaxCells /\ Len(Entries(log)) <= MaxFrames
      torn == TornEntry(log, t) \/ TornMarker(log, t) \/ TornStage(log, t)
  IN  IF Ready(log) THEN "ready"
      ELSE IF fits /\ t = Len(log) THEN "clean"
      ELSE IF fits /\ torn THEN "torn"
      ELSE "corrupt"

\* What a reopening makes of the content of a file.
Lost == "lost"
Recovered(log) ==
  LET verdict == Verdict(log) IN
  IF verdict = "corrupt" THEN [k \in Key |-> Lost]
  ELSE Contents(IF verdict = "ready" THEN Last(log).of.image ELSE log)

---------------------------------------------------------------------------
(* Durable operations *)

Outer(source, image) ==
  IF Len(image) > source.cells
    THEN Max({Len(image), source.cells + MarkerCells})
    ELSE source.cells

Overlay(log, image) == image \o SubSeq(log, Len(image) + 1, Len(log))

GrowthMarker ==
  Marker(frame.source, Outer(frame.source, frame.image), Len(frame.image))

\* What the operation under way makes of the file.
Target ==
  CASE phase = "marking"    -> file \o Cells(GrowthMarker)
    [] phase = "extending"  -> file \o [i \in 1..(Outer(frame.source, frame.image) - Len(file)) |-> Zero]
    [] phase = "writing"    -> file \o Front(Cells(frame))
    [] phase = "committing" -> file \o <<Last(Cells(frame))>>
    [] phase = "copying"    -> Overlay(file, frame.image)
    [] phase = "trimming"   -> Prefix(file, keep)
    [] OTHER                -> file

\* The contents a fault can leave: cells are added in order, and of those
\* written over any number has changed.
Between(old, new) ==
  LET merge(landed) ==
        [i \in 1..Max({Len(old), Len(new)}) |->
          IF i > Len(old) \/ i \in landed THEN new[i] ELSE old[i]]
      rewritten == {i \in 1..Min({Len(old), Len(new)}) : old[i] # new[i]}
      lengths == IF Len(old) <= Len(new) THEN Len(old)..Len(new) ELSE {Len(old), Len(new)}
  IN  {Prefix(merge(landed), n) : n \in lengths, landed \in SUBSET rewritten}

Perform(operation, next) ==
  /\ phase = operation
  /\ file' = Target /\ disk' = Target
  /\ stored' = Recovered(disk')
  /\ phase' = next

\* mutant: entries known before a compaction keep their offsets.
LoadKeeping(log) ==
  /\ index' = [k \in Key |-> IF index[k] # NoEntry THEN index[k] ELSE IndexOf(log)[k]]
  /\ frames' = Len(Entries(log))

Load(log) ==
  /\ index' = IndexOf(log)
  /\ frames' = Len(Entries(log))

Idle == frame' = NoFrame /\ keep' = 0
Forget == index' = [k \in Key |-> NoEntry] /\ frames' = 0

Init ==
  /\ phase = "open"
  /\ file = <<>> /\ disk = <<>>
  /\ frame = NoFrame /\ keep = 0
  /\ index = [k \in Key |-> NoEntry] /\ frames = 0
  /\ asked = [key |-> "none"] /\ told = "idle"
  /\ stored = [k \in Key |-> NoValue]

---------------------------------------------------------------------------
(* Opening *)

\* A prepared compaction is finished, then the log is loaded; a torn tail is cut.
Open ==
  /\ phase = "closed"
  /\ LET verdict == Verdict(file) IN
       /\ phase' = CASE verdict = "ready"   -> "copying"
                     [] verdict = "torn"    -> "trimming"
                     [] verdict = "clean"   -> "open"
                     [] verdict = "corrupt" -> "broken"
       /\ frame' = IF verdict = "ready" THEN Last(file).of ELSE NoFrame
       /\ keep' = IF verdict = "torn" THEN TailOf(file) ELSE 0
       /\ IF verdict = "clean" THEN Load(file) ELSE UNCHANGED <<index, frames>>
  /\ UNCHANGED <<file, disk, asked, told, stored>>

---------------------------------------------------------------------------
(* Writing *)

Has(k) == index[k] # NoEntry

\* What lies where the index says the entry of k is.
Read(k) ==
  LET found == {v \in Value : Size[v] = index[k].cells /\ HoldsAt(file, index[k].at, Entry(k, v))}
  IN  IF ~Has(k) THEN NoValue
      ELSE IF found = {} THEN Lost
      ELSE CHOOSE v \in found : TRUE

HardLimit(v) == frames >= MaxFrames \/ Len(file) + Size[v] > MaxCells

LiveCells == SumFunction([k \in Key |-> index[k].cells])
Obsolete == frames - Cardinality({k \in Key : Has(k)})

\* One entry per key, in the order of the keys.
Image(k, v) ==
  LET keys == {j \in Key : Has(j)} \cup {k}
      sorted == SetToSortSeq(keys, <)
  IN  FlattenSeq([i \in 1..Len(sorted) |->
        Cells(Entry(sorted[i], IF sorted[i] = k THEN v ELSE Read(sorted[i])))])

Trigger(k, v) ==
  \/ /\ Obsolete > 0
     /\ \/ HardLimit(v)
        \/ Obsolete >= CompactObsolete
        \/ Len(file) - LiveCells >= CompactReclaimable
  \/ HardLimit(v) /\ Has(k)

\* planIndexCompaction and compactIndexLog refuse before they write.
CompactionFits(k, v) ==
  LET image == Image(k, v) IN
  /\ Len(image) <= MaxCells
  /\ Cardinality({j \in Key : Has(j)} \cup {k}) <= frames
  /\ Outer(Digest(file), image) + Len(image) + StageOverhead <= StagingLimit

Compacts(k, v) == Trigger(k, v) /\ CompactionFits(k, v)

BeginCompaction(k, v) ==
  /\ Compacts(k, v)
  /\ frame' = Stage(Digest(file), Image(k, v))
  /\ phase' = IF Len(Image(k, v)) > Len(file) THEN "marking" ELSE "writing"
  /\ told' = "none"

BeginAppend(k, v) ==
  /\ ~Compacts(k, v) /\ ~HardLimit(v)
  /\ frame' = Entry(k, v)
  /\ phase' = "writing"
  /\ told' = "none"

Refuse(k, v) ==
  /\ ~Compacts(k, v) /\ HardLimit(v)
  /\ told' = "refused"
  /\ UNCHANGED <<phase, frame>>

WriteIndex(k, v) ==
  /\ phase = "open"
  /\ asked' = [key |-> k, value |-> v, before |-> stored]
  /\ BeginCompaction(k, v) \/ BeginAppend(k, v) \/ Refuse(k, v)
  /\ UNCHANGED <<file, disk, keep, index, frames, stored>>

PlaceMarker ==
  /\ Perform("marking", "extending")
  /\ UNCHANGED <<frame, keep, index, frames, asked, told>>

\* The control of a stage names all that precedes it, marker and zeros included.
Extend ==
  /\ Perform("extending", "writing")
  /\ frame' = [frame EXCEPT !.source = Digest(Target)]
  /\ UNCHANGED <<keep, index, frames, asked, told>>

WriteBody ==
  /\ Perform("writing", "committing")
  /\ UNCHANGED <<frame, keep, index, frames, asked, told>>

CommitEntry ==
  /\ frame.kind = "entry"
  /\ Perform("committing", "open")
  /\ index' = [index EXCEPT ![frame.key] =
                [at |-> Len(file) + 1 - Total(frame), cells |-> Total(frame)]]
  /\ frames' = frames + 1
  /\ told' = "applied"
  /\ Idle
  /\ UNCHANGED asked

CommitStage ==
  /\ frame.kind = "stage"
  /\ Perform("committing", "copying")
  /\ UNCHANGED <<frame, keep, index, frames, asked, told>>

CopyImage ==
  /\ Perform("copying", "trimming")
  /\ keep' = Len(frame.image)
  /\ UNCHANGED <<frame, index, frames, asked, told>>

\* The end of a compaction, of its recovery, and of the repair of a torn tail.
Trim ==
  /\ Perform("trimming", "open")
  /\ Load(Target)
  /\ told' = IF told = "none" THEN "applied" ELSE told
  /\ Idle
  /\ UNCHANGED asked

---------------------------------------------------------------------------
(* Faults *)

Close ==
  /\ phase' = "closed"
  /\ told' = IF told = "none" THEN "doubt" ELSE told
  /\ Idle /\ Forget
  /\ UNCHANGED asked

\* The process dies, or an operation fails and the lease refuses all further
\* use until it is reopened (STATE_POISONED).
ProcessEnds ==
  /\ phase # "closed"
  /\ file' \in Between(file, Target)
  /\ disk' = IF CachePersists /\ phase # "trimming" THEN disk ELSE file'
  /\ stored' = Recovered(disk')
  /\ Close

PowerLoss ==
  /\ phase # "closed" \/ file # disk
  /\ file' \in Between(disk, Target)
  /\ disk' = file'
  /\ stored' = Recovered(disk')
  /\ Close

Operation ==
  \/ PlaceMarker \/ Extend \/ WriteBody \/ CommitEntry \/ CommitStage
  \/ CopyImage \/ Trim

Next ==
  \/ Open \/ Operation \/ ProcessEnds \/ PowerLoss
  \/ \E k \in Key, v \in Value : WriteIndex(k, v)

Spec == Init /\ [][Next]_vars

---------------------------------------------------------------------------
(* Properties *)

\* Every write answered as applied is in the log and every one refused is not,
\* whatever the process or the power does in the midst of an append, of each
\* step of a compaction, or of its repeated recovery, and nothing else changes
\* what the log holds.
Promise == INSTANCE AtomicIndex
KeepsPromise == Promise!Spec

\* The offsets and counts kept in memory are those a load would compute, so that
\* reads return the last write of each key and the check that precedes a
\* compaction ("changed before compaction") cannot fail.
ReadsAreCurrent ==
  phase = "open" =>
    /\ frames = Len(Entries(file)) /\ index = IndexOf(file)
    /\ \A k \in Key : Read(k) = Contents(file)[k]

\* A directory can be opened again after any fault: reopening finishes a
\* committed compaction or cuts a proven incomplete tail.
AlwaysRecovers == phase # "broken"
=============================================================================
