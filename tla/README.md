# Formal verification of mono-agent

TLA+ specifications of the parts of mono-agent whose correctness depends on
order, failure and concurrency, the TLC instances that check them, and proofs
(TLAPS) of the results that matter for every size of the system. Paths below are
relative to `packages/`; line numbers refer to the commit the modules were
translated from.

Contents: [inventory](#1-inventory) · [modules](#2-modules) ·
[runs](#3-what-is-checked) · [proofs](#4-what-is-proved) ·
[abstractions and assumptions](#5-abstractions-and-assumptions) ·
[not modelled](#6-not-modelled) · [plan](#7-plan).

To check a run, `tlc -config MCHostTurn.cfg MCHostTurn` (likewise the other
configurations); to check a proof, `tlapm HostTurnProofs.tla`.

## 1. Inventory

mono-agent is a TypeScript monorepo (22 packages). A host process, the *Core*,
composes modules around an agent: channels bring messages in and out, runtimes
execute turns with a model provider, a state module keeps everything durable,
triggers start turns by themselves. Everything in one process runs on one event
loop, so a step is what happens between two `await`s; what interleaves are
promises, aborts and timers, and what fails are store commits, runtimes,
channels and the process.

| Component | State it keeps | Operations | Talks to |
|---|---|---|---|
| Core: submission (`core/src/host.ts`, `host-turn.ts`, `host-interactions.ts`) | in-flight requests, active turns, host abort | submit, cancel, live input, settle | tails and semaphore, run journal, runtimes |
| Core: delivery (`host-delivery.ts`) | in-flight keys | deliver | channels, delivery journal, conversation view |
| Core: conversation view (`host.ts`) | transcripts, history, loaded flags | load, show, append a settled turn | state, turns, deliveries |
| Core: admission and life cycle (`host-admission.ts`, `host-lifecycle.ts`, `host.ts`) | conversation tails, semaphore, pending count, lifecycle state | admit, wait, release, drain, stop | submissions, modules |
| Core: triggers (`host-triggers.ts`) | claims in memory | emit | submission, delivery |
| Core: configuration, module loading, MCP, prompts, memory facet, exports | wiring | load, validate, connect | every module |
| state-local: journals (`execution-journal-*.ts`) | admissions, runs, receipts, transcripts, sessions, artifact intents, retention checkpoints | admit, record attempt, publish, settle, prepare and settle delivery, retire | store, artifacts |
| state-local: artifacts (`artifacts.ts`, `secure-fs.ts`) | index rows, blobs, removal claims | put, release, maintain, scan | index, directory |
| state-local: index (`secure-fs.ts`, `index-log-compaction.ts`) | lease, log file, offsets in memory, poison | write, read, compact, recover, repair | file system |
| state-local: store (`store.ts`, `snapshot.ts`, `presence.ts`) | documents, poison | transaction, commit, snapshot | index |
| trigger-cron | schedule records: watermark, active owner, generation | reconcile, claim, clear, settle, catch up | Core triggers, state (compare-and-swap) |
| channel-slack | durable inbox, receipts, lease, lanes | enqueue, claim, complete, recover | Slack, Core |
| channel-webhook, channel-telegram | request and polling state, outbound retries | receive, deliver | HTTP, Core |
| operator, channel-operator, channel-openai-api, tui, cli, web | sessions, streams; web: a journal of the active turn | project events, accept commands | Core |
| runtime-pi, -claude, -codex, -opencode | provider sessions, child processes | run a turn | providers |
| memory-local | SQLite database, writer lease | recall, capture, migrate, consolidate | Core |
| service-macos | service transactions and their journal | install, reconcile, roll back, recover | launchd |
| create-mono-agent | scaffold and skill journals, locks | scaffold, install, recover | file system |
| module-sdk, sandbox-srt, exporter-otlp | types, sandbox, export buffer | validate, launch, export | all |

What makes each correct, and what is hard about it:

- **Submission.** A `requestId` takes effect at most once, for the input that
  claimed it, and its client is told no outcome that is not the durable one. Hard:
  fallbacks and session recovery after an attempt that may have acted; aborts racing
  a runtime's answer; a settlement that is torn; a crash anywhere; an admission lease
  that expires under a turn that is still running, since the host never renews it.
- **Delivery.** A message goes out at most once per idempotency key, and its receipt
  and its entry in the destination's history agree. Hard: a crash between send and
  receipt, stale intents, torn commits, and turns that settle on the same
  conversation from a base they read earlier.
- **Conversation view.** What a turn reads is a prefix of what is durable, and loads
  that finish out of order do not undo newer ones.
- **Admission and life cycle.** One turn of a conversation at a time, in order; the
  limits are kept and no slot leaks; drain and stop finish, and modules are not torn
  down under a turn that was not told. Hard: an abort at each of the waits.
- **Artifacts and retention.** Nothing a record names is removed, nothing is left that
  nobody accounts for, and the store can always be opened. Hard: index and directory
  change by single writes, a publication or a retirement is several transactions, and
  a process may die between any two.
- **Index log.** The log behaves as a map that changes by whole writes. Hard: a
  compaction overwrites the file it was computed from; a crash may come at each write,
  again during the recovery, and take back what had not been synced.
- **Cron.** An occurrence is emitted once by one owner, and none is silently lost
  when owners die, clocks move or schedules change.
- **Slack inbox.** What was acknowledged is kept, one process writes, and no event
  whose effects are unknown is started again. Hard: a worker that outlives the wait of
  a shutdown, a lease that changes hands, and two workers that wake each other.
- **Service transactions.** A service is installed or removed as a whole or not at all, no
  plist is lost, and whoever comes after a crash can tell what to do from the files
  alone. Hard: a crash may come between any two file operations, in the middle of
  replacing the journal, or of undoing; an editor may change the plist meanwhile; and
  several processes may find the lock of a dead one.
- **Webhook, active-turn journal, installers.** Each is
  a small durable protocol: accept, work, acknowledge, recover.

The hazards this list comes from are in `PROJECT.json`, each at its line, with the
properties that cover it or the reason why none does yet.

## 2. Modules

```
RequestOnce <----- implements ----- HostTurn     --EXTENDS-->  RunJournal
DeliverOnce <----- implements ----- Delivery     --EXTENDS-->  DeliveryJournal
                                    HostAdmission
                                    CronSchedule --EXTENDS-->  CronRecord
                                    SlackChannel --EXTENDS-->  SlackInbox
                                    RunRetention --EXTENDS-->  ArtifactStore
AtomicIndex <----- implements ----- IndexLog
                                    ServiceTransaction --EXTENDS--> ServiceFiles --EXTENDS--> TransactionLock

HostTurnProofs EXTENDS HostTurn;  HostTurnRefinement EXTENDS HostTurnProofs
DeliveryProofs, HostAdmissionProofs, CronProofs, SlackProofs and RunRetentionProofs
EXTEND their components;  ServiceProofs EXTENDS ServiceInvariant EXTENDS ServiceTransaction
MC* instantiate for TLC
```

The modules meet at their promises. `HostAdmission` runs turns as opaque work that
ends, which is what `EveryTurnEnds` of `HostTurn` shows. `RunJournal` and
`DeliveryJournal` take from the store that a transaction is applied, refused or torn;
`IndexLog` shows that each write under it is, with a torn one decided at the latest
when the directory is reopened. `CronSchedule` and `SlackChannel` call the Core
through `emit` and `dispatch`, whose outcomes are those `RequestOnce` allows.

**`RunJournal`** — the durable admission and run of each request. `AdmitWrite`,
`StaleWrite`, `AttemptWrite` and `SettleWrite` are the transactions of
`execution-journal-runs.ts` and `existingAdmission`. `Applied`, `Torn` and `Refused`
say how a transaction may end for its caller: acknowledged; failed inside the durable
append, so that the index holds the old or the new state and the store is *poisoned*
(`store.ts:1041`); or refused with nothing changed.

**`HostTurn`** — one worker per call of `#submitRequest`. The phase of a worker is the
`await` it stands at:

| phase | code |
|---|---|
| `queued` | waiting for tail and slot, then `#admitRun` |
| `routing` | head of the route loop: eligibility, preflight |
| `preparing`, `running` | attempt evidence is durable; the runtime is dispatched |
| `failing`, `evicting` | the `catch` of an attempt: terminal evidence, session eviction |
| `returned`, `recorded`, `settled` | the runtime returned; its evidence; `#settle` |
| `classified`, `cancelling`, `withdrawn` | the `catch` of `#submitRequest` |
| `replying` | the promise settles |

`acted` is what the attempt did to the world: nothing, something the Core saw through
a callback (`observedEffect`), or something only the runtime knows. `Caught` and
`Threw` are the two `catch` blocks. The variables `effects` and `told` observe the
world and the clients; no action reads them.

**`RequestOnce`** — the promise to a client, in five actions: a request is accepted for
one input, takes effect once at most and only while undecided, is decided once
("failed" only without an effect), and is told only as decided. `HostTurn` implements
it with the durable records as `owner` and `verdict`.

**`DeliveryJournal`**, **`Delivery`**, **`DeliverOnce`** — the same shape for
`HostDelivery`: receipts and the destination's transcript in one store;
`Delivery.call` holds the locals of `#once` and `#confirm`, `turn` the turns of the
destination conversation, `view` and `loaded` the Core's `#transcripts` and
`#loadedConversations`. `ReadBack` and `CommitView`, and `TurnStarts` and `TurnLoads`,
are separate steps because attachments are read in between.

**`HostAdmission`** — `chain[c]` holds the gates of a conversation's tail: each
submission waits until those before it are open and opens its own on every way out.
`ReleaseSlot` hands a slot on without freeing it, as `TurnSemaphore.#release` does;
`Withdraw` is the abort listener of a waiter, and `WithdrawAll` all of them when the
host aborts. `Drain`, `DrainIdle`, `DrainTimesOut` and `Stop` are `#drainInternal` and
`#stopInternal`.

**`CronRecord`**, **`CronSchedule`** — the record of a job as a value, with one operator
per change the scheduler makes of it (`Reserve`, `ClaimActive`, `ClearActive`,
`SettleInvocation`, `RecordMissed`, `ReplaceSchedule`, …); and the schedulers over it.
`local[s]` is the `JobState` of a scheduler with the `await` its start or reconciliation
stands at, `inv[s][k]` the invocation of the firing at instant *k*. A durable mutation
(`mutateState`: read, change, compare-and-swap, retry on a mismatch) is one step, taken
where its write lands; `Outcome` is its result, a failed one included. `Decide` is the
loop of a reconciliation, `TimerFires`, `Watchdog` and `Refresh` the timers, `ClockBack`
a regression of the wall clock.

**`SlackInbox`**, **`SlackChannel`** — the state of the inbox file as a value, with one
operator per mutation and `ValidState` for `validateState`; and the processes over it.
`chan[p]` is the memory of a channel: its life, the position of its primary and control
worker, the wake-ups requested of them, and what is to be acknowledged. `Drain`, `Stop`,
`GraceEnds`, `Retain`, `RetainedSettle` and `Close` are the ways a channel ends, some of
which leave a worker behind that keeps the lease. `OperatorRequeue` is the command-line
tool, which takes the same lease.

**`ArtifactStore`**, **`RunRetention`** — rows and blobs, where every index write and every
file operation is a step and `io` is the store operation under way; and the journal
operations that publish, settle and retire over it, with `task` the one under way.
`ScanAccepts` is what `scan` demands before each operation and at every open.

**`IndexLog`**, **`AtomicIndex`** — the file as a sequence of cells, what `loadIndexLogRange`
makes of any such sequence (`Entries`, `Verdict`), and the durable operations of an
append, a compaction and its recovery, one step each. `Between` are the contents a
fault can leave in the midst of one. `AtomicIndex` is the promise: a map that changes by
whole writes, with `stored` what reopening the directory would give.

**`TransactionLock`**, **`ServiceFiles`**, **`ServiceTransaction`** — the lock as a protocol of
links and renames, where `at[p]` is the step a process stands at and `aside[p]` the lock
file it has moved; the names of a transaction, `dir`, the file each has and so its link
count; and the commands. What a process still has to do is a sequence of file operations,
`proc[p].todo`: a crash drops the rest of it, `Throw` replaces it by what the code's `catch`
does, and an operator such as `DoRollback` looks at the files and puts the operations its
branch stands for in its place. `Recovered` is `readRecoverableJournal`: the moves that
finish, or take back, a replacement of the journal that was interrupted. `Start` to `Leave`
are the stages of a command: recover, plan, recover again, look once more, acquire the lock,
change.

Operators marked `mutant` are plausible mistakes. Nothing uses them: they document
which mistake each property notices, as `PROJECT.json` lists.

## 3. What is checked

| Run | Instance | Distinct states | Shows |
|---|---|---|---|
| `host_turn` | 1 request, 2 inputs, 2 workers, 2 routes | 66 836 | effects once, honest answers, "failed" is safe to retry, a live turn owns its run, evidence first, implements `RequestOnce`, every turn ends |
| `delivery` | 1 key, 2 contents, 2 turns, 1 call, attempts read back up to 2 | 55 972 | sent once, honest outcomes, receipt and entry agree, views are prefixes, nothing goes back, implements `DeliverOnce`, every delivery ends |
| `admission` | 3 submissions, 2 conversations, 1 slot, 3 pending | 41 686 | one turn at a time, nothing leaks, quiet teardown, every submission ends, drain completes |
| `cron_safety` | 2 schedulers, 1 or 2 schedules, several setups | 1.34 M (symmetry) | a firing is emitted once, emissions do not overlap, no firing is forgotten, an issue that a scheduler shows stays |
| `cron_liveness` | 1 scheduler, every overlap and overflow mode | 149 k | what is due is admitted or given up as missed |
| `cron_release` | a job that queues, one failing call | violation | a failed release is not retried (finding) |
| `slack_safety` | 2 processes, 2 envelopes, several setups | 2 255 452 (symmetry) | acknowledged is kept, one writer, workers own their entries, no blind repeat |
| `slack_liveness` | 1 process that may crash, 2 envelopes | 265 781 | what is stored settles or awaits the operator |
| `artifact_retention` | 2 runs with a shared attachment, 4 artifacts, 1 trouble | 235 534 | the store opens, what is named can be read, bytes are accounted for, retention completes |
| `artifact_torn` | the same with torn blobs | violation | a torn blob keeps the store from opening (finding) |
| `index_log` | values of 3 and 6 cells, 9 cells, 3 frames | 18 826 | reads are current, implements `AtomicIndex` |
| `service_transaction` | 3 processes, several setups | 1 264 785 (symmetry) | a live lock is not dropped, no plist is lost, a transaction happens or does not, recovery refuses only with a cause |

Seven configurations beside them are not part of the regular checks:
`MCDeliveryKeys.cfg` is `delivery` with 2 keys and 2 calls (835 332 states),
`MCCronPairs.cfg` is `cron_safety` with two troubles together, and `MCServiceWide.cfg` is
`service_transaction` with installations that overlap and with an editor, failing calls and
a crash together (6 225 887 states, which are typed as well). `MCCronOverdue.cfg`, `MCCronStop.cfg`,
`MCIndexLogFaults.cfg` and `MCServiceLock.cfg` show observations of section 6. The type
invariants of turns, deliveries, admission, retention and cron are theorems and not checked
again.

**Why the bounds are enough.** *Turns*: requests share only the poison of the store and
the host's abort, both of which one request can raise by itself, and the proofs cover
any number of them. Two workers and two inputs give a joined submission, a conflict and
a resubmission after a restart; two routes give one fallback, and session recovery makes
a third attempt. *Delivery*: one key with two contents gives every conflict; the bound of
10 000 on attempts read back is 2, so that it is reached; a call and two turns give the
orders of reads and writes of a view, and the proofs cover the rest. *Admission*: a
conversation two deep beside another one that holds the only slot, or three deep with an
abort in its middle. *Cron*: time ends at 2 or 3, so that with `CatchUp` 1 a firing may be
due, overdue and beyond the catch-up at once; `QueueDepth` 1 makes a queue overflow; each
setup gives a budget of failing calls, backward steps and schedulers at once, small by
itself and together covering each of them (`MCCronPairs.cfg` the pairs). *Slack*: `MaxEntries` 2 and
`MaxReceipts` 1 make the inbox overflow and a receipt be trimmed; deliveries, faults,
crashes and requeues are budgeted by the setups. *Artifacts*: two runs that share an
attachment give every release of something still named; 4 artifacts leave room for
one slot more than the runs need. *Index log*: with values of 3 and 6 cells in 9, a
threshold of 2 or 3 frames and no bound on faults, a refused write, a compaction by
threshold, one at the hard limit and growth with a cell of zeros all occur. *Service*: two of three processes die, so that the recovery of a recovery is
recovered, or one does while an editor acts once, a call fails once or commands overlap; two
names for files being removed are enough for as many crashes. Three processes cannot make
two hold the lock at once, four can (section 6). Crashes and
restarts of turns and deliveries are not bounded, nor are attempts to deliver, except by
the bound above.

**Fairness.** Weak fairness for each worker, call, submission, scheduler and Slack worker:
a promise that is pending settles. Store calls and lifecycle calls are bounded by timeouts
(`host-lifecycle.ts:38`), and a dispatched runtime or channel is *assumed* to return or
throw. Cron also needs time to pass (`Tick`) and its timers to fire. `RetentionCompletes`
assumes that an operator who was left with an interrupted maintenance runs it again and
again (strong fairness of `Resume`, since a crash may intervene each time). Nothing is fair
about submitting, aborting, crashing or restarting, and the deadline of drain is not
needed. `EverySubmissionEnds` assumes that a turn that runs ends, which is what
`EveryTurnEnds` of `HostTurn` shows.

Deadlock is checked for `host_turn`, `delivery` and `index_log`. The others may come to an
end: everything submitted, delivered, retired or due is done and the host or the processes
have stopped.

## 4. What is proved

Each theorem holds for every value of the constants that meets the assumptions named in
the modules, and each component rests on one inductive invariant, `Inv` or its like, with
a theorem that says so.

**`HostTurnProofs`, `HostTurnRefinement`** — for any number of requests, inputs, workers
and routes: `TypeCorrect`, `AtMostOnce`, `Honest`, `FailedIsSafe`, `Ownership`,
`EvidenceFirst`, and `Refinement`, that is, `Spec => KeepsPromise`. The safety properties
are not inductive by themselves: that a second attempt cannot act depends on what the
turn's locals say about the first, and that an answer is true depends on who may write the
run in the meantime. `Inv` adds to the type invariant:

- `OneTurnPerRequest`: two live workers never hold the same request;
- `TurnsOK`: for each live turn, its own admission, run and effect count agree with its
  locals. While it executes, the run is `running` and the effect count is 0 or 1 as
  `acted` says; `EvidenceOK` ties attempt number and phase to the durable evidence; and
  a turn that is about to claim an outcome finds that outcome durable;
- `RequestsOK`: for each request, its admission, run, effects and told outcomes agree.

The argument is one of frame: a step of worker *w* changes one turn and the records of
one request (`Frame`, `TurnMoves`, `TurnAndRequestMove`), so each action needs only
the local statement about *its* turn and *its* request. Every write is treated once for
all its outcomes (`WriteOutcomes`). `Refinement` uses `Inv` and maps each action to one
of `RequestOnce` or a stutter: evidence, leases, locals and poison are invisible to a
client.

**`DeliveryProofs`** — for any number of keys, contents, turns and calls (assumptions
`DeliveryAssumption`, `CallAssumption`): the safety properties of the run `delivery` and the refinement of
`DeliverOnce`. The invariant says, per key, that receipt, copies in the world and entry of
the history agree; per call, that its locals own the intent they are about to send or have
sent it; that calls in progress hold different keys; and that the view and the base of each
turn are prefixes of the history. `CallMoves` and `TurnMoves` are the frame lemmas. That
the history only grows rests on one fact: a settlement is accepted only if it was based on
all of it.

**`HostAdmissionProofs`** — for any number of submissions and conversations and any limits:
type correctness, `OneTurnAtATime`, `NothingLeaks`, `QuietTeardown`. The invariant relates
each counter to the set it counts (pending, slots in use), says that a gate is shut exactly
while its submission is behind it, that the semaphore's waiters are distinct and waiting,
and that a host that is idle has nothing in progress. The counts use the library's facts on
cardinality; the tails need that dropping open gates removes a prefix (`Shut`).

**`RunRetentionProofs`** — for any number of runs and artifacts, assuming `~TornWrites`:
`AlwaysOpens`, `NamedIsReadable`, `BytesAreAccountedFor` and type correctness. The
invariant says who may touch an artifact: one that a record names is published, and only
the operation whose intent names a slot puts it; it is released only when nobody names it;
and what a settlement had not yet tried was never published. The assumption is needed:
`artifact_torn` shows that with torn blobs `AlwaysOpens` fails.

**`ServiceProofs`** — for any processes, plists and setups (assumptions `LockAssumption`,
`FilesAssumption`, `SetupsAssumption`).

*The lock*: `HolderHasItsLock`. That a process drops only the file of a dead one rests on two
facts: what was read as stale names a process that stays dead (`SeenOK`), and a command that
went wrong while it had a file aside does nothing more with the lock (`AsideOK`), so that the
file is not overwritten by the next. Everything a transaction does to plists and journals
leaves the lock alone (`PerformKeeps`).

*The plists*: `NothingIsLost`, while no two processes are at work at once
(`NothingIsLostInTurn`; section 6 shows that four processes can make two be). It is far from
inductive: that the only name of a plist is removed in one step depends on what a rollback or
a recovery read from links and journal many steps, and perhaps several processes, before. The
invariant is `SafeInv` of `ServiceInvariant`:

- of the files (`DirOK`, `OwedOK`): which names may have a journal, that one in phase
  `committed` belongs to a process that did commit, that the desired plist of a transaction
  with a journal was never installed, and that without the directory there is nothing in it;
- of who is not at work (`FreshOK`, `WaitingOK`, `EditsOK`): nothing of it is to be seen yet;
- of the program `proc[p].todo` of the process that is (`ProgramOK`): which operation may come
  after which (`WellFormed`), that what may be removed by its last name is a journal, the desired
  plist before it was installed or what a committed transaction expected (`RemovesOK`), that a
  prior plist set aside is put back or let go by a commit (`PriorOK`), that a file moved to
  be discarded has another name or may go (`HeadOK`), and that nothing follows the end (`EndOK`).

A step takes the first operation off the program and puts others in its place, and most of the
proof is about that. `Steps(s, p, own, mode, x, kinds)` says that `s` is typed for that process
and of these kinds; `StandFor` that it may stand where the first operation stood; `ThenProgram`
and `ThrowProgram` that the program is then still one. Each operation has a lemma
(`RollbackAdvances`, `ReadAdvances`, ...) that needs only the kinds of what it leaves to be
done, and `QuietFiles`, `RearrangedFiles`, `CreatedFiles`, `FilledFiles` and `GoneFiles` say
what each kind of change to the files keeps. `ElsewhereKeeps` is the frame for all other
processes, `EditedProgram` for an editor's step in the midst of a program.

Two corollaries need no hypothesis on the run. Among three processes two are never at work
at once (`ThreeExclude`), for to lose the lock while alive takes one that moves it aside, one
that died before, one that links its own, and the holder: so three lose nothing
(`ThreeLoseNothing`). And with setups in which commands come in turn (`InTurn`), however many
die, nothing is lost by any number of processes (`TurnsLoseNothing`).

`SafeInv` held on the 1 264 785 states of `service_transaction` and the 6 225 887 of
`MCServiceWide.cfg` before it was proved. The attempt made the model say what it had left open:
operators whose `CASE` guards overlapped are now in the order of the code's returns, a removed
file needs one of the names in `Trash` (a bound), and what editors write is none of the
kinds of file the commands write.

**`CronProofs`** — for any number of schedulers, instants, crashes, lost writes and steps of
the clock, and any setups (assumptions `RecordAssumption`, `ScheduleAssumption`): `TypeOK`,
`EmittedOnce`, `OneEmissionInFlight`, `NoFiringForgotten` and the action property `IssueIsKept`.
That a firing is emitted once is a matter of who may think it theirs: a call that failed may have claimed it, a restarted process may find its own
claim or another's, and a release may be repaired long after the firing was over. `Safe` says

- `ReservedOK`: a firing that is anywhere past admission is one scheduler's, and the watermark
  has passed it, so that none reserves it again;
- `EmitsOK`, `ClaimOK`: a firing that has not come to its emission has not been emitted, and
  a scheduler whose copy of the record names it as the owner is right while it waits to emit;
- `QueueOK`, `ActiveOK`: the queue holds the firings that wait, each once; the firing that a
  scheduler carries out was emitted;
- `OutcomeOK`, `FlyingOK`: nobody records an outcome of a firing that is not over; an emission
  in flight owns the record, and its scheduler has not let it go.

Two thirds of the actions are steps of a start or a pass, which the proof treats alike
(`MaintenanceStep`): they write only what `Maintained` allows and put firings forward that
are nowhere yet. A step of a firing short of an emission only moves it on (`Moves`) and keeps
the record true to it (`Honours`). Reserving, claiming and crashing are argued for by
themselves.

`NoFiringForgotten` speaks of firings that no process may have any more, and the record has
room for one last outcome and one claim only. `Told` is the account of them. While the record
has no issue, and leaving aside what `untold` names:

- `HeldOK`, `LastOK`: a firing without an outcome is the last outcome of the record, unknown,
  or the record is claimed for it;
- `CarriedOK`, `EndedOK`, `WaitingOK`: a firing that is carried out has the claim and nobody is
  about to release it; one that was reserved and not emitted has the last outcome;
- `IssueOK`, `OpenOK`, `UnemittedOK`: no scheduler believes in an issue that is not on record;
  what is without an outcome was reserved; what waits for its emission was not emitted.

The reservation that writes over an unknown outcome puts an issue on record unless that outcome
is of the firing its own scheduler carries out (`ReserveTold`), and a settlement writes either
the outcome or an issue (`SettleTells`); every other step leaves the account as it is
(`Accounts`, `AccountsTold`). All conjuncts held on the states of `cron_safety` and of
`MCCronPairs.cfg` before they were proved. The attempt corrected the property: an earlier form,
which counted what a scheduler remembers as a record, is false with one more instant than the
run has (section 6).

`IssueIsKept` is about the health of a scheduler, which reports the record as it last read it,
or an issue it remembers. Every read may replace the first and a few steps drop the second, so
that a step could lose the issue between the two. The invariant it needs, `GenOK`, is about
the record a scheduler has not read yet: one of another schedule than the scheduler has cached
carries an issue, and a scheduler that found a record of another schedule than its own, or is
about to replace it, has read one that does. Without it, the step that replaces the
record of an old schedule, and drops the remembered issue with it, might show nothing
afterwards. Each action is then shown to be of one kind, `Informs`: it writes nothing that
withdraws an issue (`Grows`), it caches a record that was or is the one on record, and it keeps
what it remembers unless it shows an issue without it or lets go of a foreign claim. `InformsKeeps`
proves once what that relation entails; the operators of a start or a pass leave what is shown
as it was (`Calm`, `Minds`), settling and reserving put an issue in its place (`SettleInforms`,
`ReserveFiringInforms`). `GenOK` held on the states of `cron_safety` before it was
proved. The attempt corrected the property: an invariant over untold firings is false with one
more instant than the run has, and what is true is said of each step (section 6).

**`SlackProofs`** — for any envelopes, processes, setups and bounds of the file (assumptions
`InboxAssumption`, `ChannelAssumption`): `TypeOK`, `OneWriter`, `WorkersOwnTheirEntries`,
`AckedIsKept` and the action property `NoBlindRepeat`. None of them is inductive: what may be
started again depends on what the file says of an attempt whose process may be gone. `Inv`
consists of

- `Typed`: the file is in `Inbox`, which is what `validateState` demands; that a mutation always
  writes such a state is a lemma for each (`EnqueueWrites`, `MarkAllWrites`, `CompleteWrites`,
  `ClaimWrites`, `UnlaneWrites`), and that such a state passes is one of counting
  (`InboxIsValid`);
- `LeaseOK`, `OneWriter` and, of each process, `Modes`: who has the lease, and which parts of
  the channel are still at work in which part of its life;
- `Server`: each worker's entry is processing in its lane, unless a write failed under it, and
  then it can only fail (`Owned`); what the channel cancelled is processing until it is given
  back, and no worker takes it up (`Cancels`); what is to be acknowledged is kept (`Keeps`);
- `Recalls`: what waits in the file may be started; what is in neither the file nor the
  receipts was never admitted or is done long since; the newest receipts are those of the last
  completions. The last needs the number of completions since a receipt was written, for
  otherwise an envelope that a redelivery admits again could have lost its receipt too early.

The mutations and the two workers' steps are each of one of a few kinds, and what a kind leaves
true is proved once: a worker that leaves its entry or moves on it (`Moves`, `WorkerStep`), one that
has none (`IdleStep`), a turn of the lifecycle that leaves the file alone (`Turns`, `ModeStep`), a
process that leaves (`Leaves`, `LeaveStep`). Admission, the claim, the requeue and the opening are
argued for by themselves. `Inv` held on the 2 255 452 states of `slack_safety` before it was proved.

Every invariant was checked with TLC on the instances above before it was proved. Only
model-checked are, of service transactions, `RefusesOnlyWithCause` and `AllOrNothing`, whose
exceptions are about what an interrupted repair of the journal leaves, and `NothingIsLost`
where two processes mutate at once; the index log, whose recovery parses the file
recursively; and every liveness property, which is out of the prover's reach.

## 5. Abstractions and assumptions

Shared by all modules:

- Inputs, messages and fingerprints are model values: equal content means an equal
  fingerprint.
- An observer variable records the world (effects, copies, answers, emissions) and guards
  nothing, with one exception: the honesty assumptions below.
- A timeout or abort of a store call is a refusal: signals are looked at before a
  transaction begins and never while it runs (`store.ts:1066`), and the transaction that
  decides is the last step of each journal operation that may fail (cleaning up after it
  is best effort).

`HostTurn`:

- *Honest runtime*: an error with `sideEffects: "none"` is thrown only by an attempt
  that did nothing unseen, and "session unavailable" only by an attempt that was given
  a session. What the Core sees through callbacks needs no such trust.
- A run is indexed by its request, since run ids are created with the admission.
- Joining with another input rejects the second caller and changes nothing, so it is no
  action. A cancel during settlement has no effect, as settlement has a signal of its own.
- The stop of a host is its abort signal (`StopHost`) followed by its end (`Restart`);
  a crash is `Restart` alone.
- Memory capture, export and the in-memory view after a settlement are one step that may
  fail (`Conclude`).
- Retention, which would end the promise for old requests, and a second settlement with
  the same status, which changes nothing, are left out.

`Delivery`:

- The host has a state store; its mode without one is not modelled.
- *Honest channel*: "delivered" and "duplicate" are reported only of a message that went
  out, "failed" only of one that did not in this attempt.
- One destination conversation; an entry is named by the key or turn that appended it; a
  settled turn appends one entry, so that the revision is the length. The attempt number
  stands for the attempt token as well.
- Settlement of a turn and the view it leaves are one step: the store's queue is first in,
  first out, so a load that was queued later is shown later.

`HostAdmission`:

- A submission is one request that is not in flight; one refused outright never begins.
- Gates that are open, with all before them, are dropped.
- Start-up, the failed state and the drain and stop of each module are left out; so is the
  client's wait for `drain` and `stop` themselves.

`CronSchedule`:

- One job: jobs share only the process. A firing is the instant it is due; schedules fire
  at every instant.
- A mutation is atomic where its write lands. A call that fails may have been applied; the
  version a scheduler caches is modelled by whether its copy is current.
- The timer of a firing past the end of time fires at the end, so that the last instants
  are reconciled too.
- `NoFiringForgotten` excepts a firing whose outcome could not be written (`untold`): the claim
  is released all the same, and nothing but its process knows what it came to. `IssueIsKept`
  says that the health of that process shows it from then on, until it crashes or a claim that
  it took for another scheduler's ends (section 6).
- The failed write of an outcome may have been applied; the firing counts as untold even so.
- Schedulers are symmetric in the safety run: no property names one.

`SlackChannel`:

- One conversation. Envelopes from users who are not authorized, and questions that wait
  for an answer, are left out.
- A mutation of the inbox is atomic where its file is renamed; a write that fails poisons
  the inbox, with the old state, the new one, or a file that is refused at the next open.
  That the file is still the one which was locked is membership in `fresh`.
- The operator's command is one step under a free lease. Slack delivers an envelope again a
  bounded number of times.

`RunRetention`:

- One conversation. The transcript and the response of a run are its own, attachments are
  shared. Journal operations are serialized by the store; the sweep of the artifact store
  may come between the steps of one.
- Maintenance goes run by run. Poison of the index is modelled as a crash, since nothing
  is possible after it but to reopen. Age is nondeterministic; the limit on total bytes and
  the truncation of a scan are left out.

`IndexLog`:

- Frames are made of cells; a digest holds exactly if the cells are those of one frame; the
  header is left out. A fault in an append leaves a prefix of it, a fault in a copy any
  subset of its cells, a fault in a truncation the old or the new length.
- With `CachePersists` FALSE what a fault left has been written back before the next one;
  TRUE is the double fault of `MCIndexLogFaults.cfg`. Truncation survives the death of the
  process.
- `writeIndexIfAbsent`, whose answer "already there" changes nothing, and the limit on the
  number of entries are left out.

`ServiceTransaction`:

- One service. A file is a model value that stands for inode, contents and change time;
  its links are the names that have it. An editor replaces, creates or removes the
  installed plist and never touches the transaction directory, where only the holder of
  the lock acts; so what `unlinkInternal` looks at after its rename is what it looked at
  before. The guards that parent and transaction directory are still the same are left out.
- A process dies between two operations; power does not fail, so that `fsync` has no part.
  What it had in memory, and what it would have undone, is gone. A file exists before it
  has its contents; the temporary and removed files of the lock are single steps.
- launchd has one loaded plist or none, and readiness means that it is the one meant. Each
  command installs something new: loading, restarting and stopping an unchanged plist take
  no lock and are left out. Each process runs one command.
- The first of two looks before a transaction is merged with the last.
- `AllOrNothing` and `RefusesOnlyWithCause` name their exceptions; each is really met
  (section 6).

## 6. Not modelled

Components without a module are listed in `PROJECT.json` with the reason. In short:
protocol adapters and user interfaces translate and keep no protocol of their own;
configuration, validation and normalisation are functions of their input; runtimes
are seen through what they may do to the Core. Triggers, the active-turn journal of the web client and the installers' journals are
protocols worth modelling and are planned.

What modelling showed, beside the findings of `PROJECT.json`:

- *Conversation view.* A load that began before a delivery may finish after the delivery
  dropped the cached conversation, and the delivery's own read-back may then fail. The
  conversation is then marked loaded with an old view (`host.ts:2126`). Nothing is lost,
  since `HistoryOnlyGrows` holds, but each later turn settles on a stale base and ends
  uncertain until another delivery or a restart refreshes the view.
- *Delivery.* A receipt whose attempt count passes 10 000 is written but no longer readable
  (`execution-journal-delivery.ts:474`, `execution-codec.ts:1007`): its key is never
  sent again and every call on it rejects. `SentAtMostOnce` and `EveryDeliveryEnds`
  hold across that limit.
- *Cron.* When one reservation of several fails, the loop goes on and the watermark passes
  an overdue firing that was neither emitted nor recorded as missed
  (`OverdueIsRecorded` under `MCCronOverdue.cfg`; the package's README, line 87, promises a
  record). A firing that is still claiming its record when the trigger stops has no
  controller yet and is handed to the host afterwards (`NoEmissionAfterStop` under
  `MCCronStop.cfg`). And the issue of an outcome that could not be written is in the memory of
  its scheduler alone (`unsettledIssue`), where the end of another scheduler's claim drops it:
  when the record shows neither an issue nor an unknown outcome, a reconciliation that was
  blocked by that claim takes its own issue for the claim's (`scheduler.ts:327-333`). It takes
  two schedulers of one schedule at once, three instants and one failing write, one instant more
  than the run has; it is the exception `ClaimIsOver` of `IssueIsKept`.
- *Slack.* A failure of the transport makes the channel unsafe to recover, so that a later
  clean shutdown does not requeue what it had claimed; and an inbox that overflows closes
  the channel.
- *Retention.* `state-local/README.md:105-108` says that maintenance never deletes Core's
  run records and published blobs, while `maintain` retires runs and releases their blobs.
  Rows of removed artifacts are never reclaimed, so once 100 000 have been published in the
  lifetime of a directory no more can be. A slot whose `put` failed is never freed, so its
  run can never settle with an answer. With a limit of 1 or 2 a pass retires nothing.
- *Index log.* After a compaction that was refused for want of capacity the code falls
  back to an append if that still fits (`secure-fs.ts:757-763`); the image is never longer
  than the log with the frame, so that branch cannot be taken, nor can the refusal for want
  of staging headroom. A crash at the very first start (lease created but no index, a
  witness without its link) leaves a directory that is refused.

  Recovery of a compaction reads the footer of a stage and copies the image without
  having synced the footer (`secure-fs.ts:1464`). If the process that wrote it died
  before its `fsync` (line 1300), and power fails during that copy, the log is damaged and
  no footer says how to repair it: every later open fails (`AlwaysRecovers` under
  `MCIndexLogFaults.cfg`; `state-local/README.md:153` promises that reopening finishes a
  committed compaction or removes an incomplete one).
- *Service lock.* Two transactions may be at work at once. A process reads the lock of a
  dead owner; another takes that lock, drops it and acquires its own; the first then moves
  this live lock aside, sees that it is not what it read, and a third links its own before
  it can be put back (`OneMutation` under `MCServiceLock.cfg`; the test
  `service-macos.test.ts:1924` has two reconcilers). The holder whose file was
  moved is told so only when it releases.
- *Service recovery.* A crash alone can leave what recovery refuses, again and again, until
  somebody clears it by hand: between the rename and the unlink of `unlinkInternal`, whose
  fresh name is unknown to `cleanupTransactionDirectory`; while a journal or a staged plist
  is written; after the staged plist was deleted although the published one had been moved
  aside in phase `prepared` or `prior-quarantined`; and right after the journal was created
  for a plan that another transaction had made stale, since the last look at the plist
  comes before the lock. The package's README promises recovery of a *known* interrupted
  transaction and hedges the others.
- *Service rollback.* A process that dies after it put the prior plist back and before it
  loaded the service leaves the service unloaded: the next recovery finds the plist in
  place and only cleans up (`transactions.ts:397-405`).

## 7. Plan

Done: `RequestOnce`, `RunJournal`, `HostTurn`; `DeliverOnce`, `DeliveryJournal`,
`Delivery`; `HostAdmission`; `SlackInbox`, `SlackChannel`; `ArtifactStore`, `RunRetention` —
checked and proved. `CronRecord`, `CronSchedule`, `ServiceTransaction`, `IndexLog` — checked,
the first two proved, the third for its lock and, while processes take turns, its plists.

Next, in this order:

1. Proofs of `RefusesOnlyWithCause` and `AllOrNothing` of `ServiceTransaction`, on top of
   `ServiceInvariant`.
2. `HostTriggers`: a trigger occurrence through submission and delivery, with
   the claims in memory and a restart; composes the promises of the first two.
3. `ActiveTurnJournal` (web), the installers' journals, webhook delivery; loading and
   stopping a service beside a transaction, which take no lock.
4. A liveness run for the stale view of section 6, and channel tools: deliveries made by
   a turn, whose unknown outcome must make the turn uncertain.
