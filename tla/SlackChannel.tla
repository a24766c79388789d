---------------------------- MODULE SlackChannel ----------------------------
(***************************************************************************)
(* The Slack channel over its durable inbox: processes that serve the same *)
(* data directory one after the other under a lease, their primary and     *)
(* control workers, drain and stop, crashes, and the operator's requeue.   *)
(*                                                                         *)
(* The inbox serialises its mutations and a process keeps the identity of  *)
(* the file it last wrote, so a mutation is one step, taken where its      *)
(* write lands; what a worker does with the outcome is a later step.       *)
(*                                                                         *)
(* The messages are those of one conversation.  Unauthorized envelopes,    *)
(* which are acknowledged and dropped, and pending questions, which make   *)
(* further messages eligible for the control lane, are left out.           *)
(***************************************************************************)
EXTENDS SlackInbox

CONSTANTS
  Process,      \* processes that may serve the channel
  Nobody,
  Setups        \* the envelopes and the worlds to try

Kind == {"message", "action", "other"}

\* A setup: the kinds of the events of the envelopes Slack has, and the bounds:
\* its deliveries (repeated ones too), the writes, transports and turns that
\* fail, the processes that die, and the operator's requeues.
IsSetup(s) ==
  /\ DOMAIN s = {"kind", "deliveries", "faults", "crashes", "requeues"}
  /\ DOMAIN s.kind \subseteq Envelope /\ Range(s.kind) \subseteq Kind
  /\ {s.deliveries, s.faults, s.crashes, s.requeues} \subseteq Nat

ASSUME ChannelAssumption ==
  /\ Nobody \notin Process
  /\ \A s \in Setups : IsSetup(s)

VARIABLES
  setup,       \* one of Setups
  disk,        \* the inbox file
  fresh,       \* processes that hold the identity of the file as it is now
  lease,       \* the process that holds the inbox lease
  chan,        \* per process: the channel's memory
  deliveries,  \* how often Slack delivered an envelope
  acked,       \* the envelopes acknowledged (history)
  tried,       \* per envelope: how its last attempt went (history)
  newer,       \* per envelope: completions since its own (history)
  bounds       \* faults, crashes and requeues so far

inbox == <<disk, fresh>>
history == <<acked, tried, newer>>
vars == <<setup, inbox, lease, chan, deliveries, history, bounds>>

Idle == [pc |-> "idle", env |-> NoEnvelope]
At(pc, e) == [pc |-> pc, env |-> e]

Pc == {"idle", "claim", "process", "dispatched", "complete", "release", "fail",
       "end"}
Life == {"off", "prepared", "leased", "serving", "draining", "cancelling",
         "settled", "retained", "closing"}

\* abort is the reason of the lifecycle signal; had says whether a worker was
\* alive when the shutdown began; aborted is shutdownAbortedEnvelopeIds;
\* toAck are the envelopes the socket's handler returned for.
Off == [life |-> "off", running |-> FALSE, abort |-> "none", safe |-> TRUE,
        had |-> FALSE, mem |-> EmptyInbox, poisoned |-> FALSE,
        work |-> [l \in Lane |-> Idle], requested |-> {}, primaryOnly |-> {},
        aborted |-> {}, toAck |-> {}]

Init ==
  /\ setup \in Setups
  /\ disk = EmptyInbox /\ fresh = {} /\ lease = Nobody
  /\ chan = [p \in Process |-> Off]
  /\ deliveries = 0
  /\ acked = {}
  /\ tried = [e \in Envelope |-> "never"]
  /\ newer = [e \in Envelope |-> 0]
  /\ bounds = [faults |-> 0, crashes |-> 0, requeues |-> 0]

Tally(what) ==
  /\ bounds[what] < setup[what]
  /\ bounds' = [bounds EXCEPT ![what] = @ + 1]

Update(p, c) == chan' = [chan EXCEPT ![p] = c]
Try(e, how) == tried' = [tried EXCEPT ![e] = how]

---------------------------------------------------------------------------
(* What the channel's functions make of its memory.                        *)

\* mutant: a wake-up that finds the worker alive is forgotten
WakeIdleOnly(c, lanes) ==
  IF ~c.running THEN c
  ELSE [c EXCEPT !.work = [l \in Lane |->
          IF l \in lanes /\ @[l] = Idle THEN At("claim", NoEnvelope) ELSE @[l]]]

\* schedulePrimary and scheduleControl, for the given lanes.
Wake(c, lanes) ==
  IF ~c.running THEN c
  ELSE [c EXCEPT
          !.work = [l \in Lane |->
             IF l \in lanes /\ @[l] = Idle THEN At("claim", NoEnvelope) ELSE @[l]],
          !.requested = @ \cup {l \in lanes : c.work[l] # Idle}]

FailClosed(c, aborting) ==
  [c EXCEPT !.running = FALSE, !.safe = FALSE, !.toAck = {},
            !.abort = IF aborting /\ @ = "none" THEN "failed" ELSE @]

Go(c, l, w) == [c EXCEPT !.work[l] = w]

Quiet(c) == \A l \in Lane : c.work[l] = Idle

\* The conversation is in activePrimaryConversations.
Active(c) == c.work["primary"].pc = "dispatched"

ControlEligible(c) ==
  {e \in DOMAIN setup.kind :
     \/ setup.kind[e] = "action"
     \/ setup.kind[e] = "message" /\ e \notin c.primaryOnly /\ Active(c)}

Eligible(l, c) ==
  IF l = "control" THEN ControlEligible(c) ELSE DOMAIN setup.kind \ ControlEligible(c)

\* mutate: the states to write, and the channel's memory after the call
\* returned or threw.  A failed write poisons the inbox, whether or not the
\* new file is in place.
Mutate(p, throws, writes, returned, thrown) ==
  LET refused == throws \/ chan[p].poisoned
  IN \/ /\ refused /\ Update(p, thrown)
        /\ UNCHANGED <<inbox, bounds>>
     \/ /\ ~refused /\ writes = {} /\ Update(p, returned)
        /\ UNCHANGED <<inbox, bounds>>
     \/ /\ ~refused /\ p \in fresh
        /\ \E s \in writes : disk' = s /\ Update(p, [returned EXCEPT !.mem = s])
        /\ fresh' = {p} /\ UNCHANGED bounds
     \/ /\ ~refused /\ writes # {} /\ Update(p, [thrown EXCEPT !.poisoned = TRUE])
        /\ \/ p \notin fresh /\ UNCHANGED <<inbox, bounds>>
           \/ Tally("faults") /\ UNCHANGED inbox
           \/ /\ Tally("faults") /\ p \in fresh
              /\ disk' \in writes /\ fresh' = {}

\* An operation called with the inbox signal throws once that is aborted.
InboxAborted(c) == c.abort = "failed"

---------------------------------------------------------------------------
(* Starting.                                                               *)

\* prepareForServing records the identity of the file ...
Prepare(p) ==
  /\ chan[p].life = "off"
  /\ Update(p, [chan[p] EXCEPT !.life = "prepared"])
  /\ fresh' = fresh \cup {p}
  /\ UNCHANGED <<setup, disk, lease, deliveries, history, bounds>>

\* ... and only then is the lease taken.
Acquire(p) ==
  /\ chan[p].life = "prepared" /\ lease = Nobody
  /\ lease' = p
  /\ Update(p, [chan[p] EXCEPT !.life = "leased"])
  /\ UNCHANGED <<setup, inbox, deliveries, history, bounds>>

Serving(c) ==
  Wake([c EXCEPT !.life = "serving", !.running = TRUE, !.mem = disk], Lane)

\* mutant: the identity recorded before the lease is not compared
OpenAnyFile(p) ==
  /\ chan[p].life = "leased" /\ ~Blocked(disk)
  /\ Update(p, Serving(chan[p]))
  /\ UNCHANGED <<setup, inbox, lease, deliveries, history, bounds>>

\* openPrepared: the file must still be the one recorded, and must not hold
\* work of unknown outcome.
Open(p) ==
  /\ chan[p].life = "leased" /\ p \in fresh /\ ~Blocked(disk)
  /\ Update(p, Serving(chan[p]))
  /\ UNCHANGED <<setup, inbox, lease, deliveries, history, bounds>>

\* A start fails: the lease is held, the inbox has changed or is blocked, a
\* stop overtakes it, or the socket does not open.
AbandonStart(p) ==
  /\ chan[p].life \in {"prepared", "leased"}
  /\ Update(p, Off)
  /\ lease' = IF lease = p THEN Nobody ELSE lease
  /\ fresh' = fresh \ {p}
  /\ UNCHANGED <<setup, disk, deliveries, history, bounds>>

---------------------------------------------------------------------------
(* Admission.                                                              *)

\* admit, in the handler of a socket message.
Admit(p, e) ==
  LET c == chan[p]
      handled == [c EXCEPT !.toAck = @ \cup {e}]
      new == ~Duplicate(e, c.mem)
  IN /\ c.running /\ deliveries < setup.deliveries
     /\ deliveries' = deliveries + 1
     /\ Mutate(p, EnqueueRefused(e, c.mem), Enqueue(e, c.mem),
               IF new THEN Wake(handled, Lane) ELSE handled,
               FailClosed(c, TRUE))
     /\ UNCHANGED <<setup, lease, history>>

\* mutant: the handler is not awaited before the acknowledgement
AckAtOnce(p, e) ==
  /\ chan[p].running /\ deliveries < setup.deliveries
  /\ acked' = acked \cup {e}
  /\ Update(p, [chan[p] EXCEPT !.toAck = @ \ {e}])
  /\ UNCHANGED <<setup, inbox, lease, deliveries, tried, newer, bounds>>

\* The socket acknowledges once the handler has returned; Slack may not get
\* the acknowledgement, and delivers again.
Ack(p, e) ==
  /\ chan[p].running /\ e \in chan[p].toAck
  /\ acked' = acked \cup {e}
  /\ Update(p, [chan[p] EXCEPT !.toAck = @ \ {e}])
  /\ UNCHANGED <<setup, inbox, lease, deliveries, tried, newer, bounds>>

TransportFailed(p) ==
  /\ chan[p].running
  /\ Tally("faults")
  /\ Update(p, FailClosed(chan[p], FALSE))
  /\ UNCHANGED <<setup, inbox, lease, deliveries, history>>

---------------------------------------------------------------------------
(* The workers.                                                            *)

\* The worker's await of the next entry.  The claim is queued behind the other
\* mutations, and goes through when a shutdown overtakes it there.
ClaimNext(p, l) ==
  LET c == chan[p]
      ended == Go(c, l, At("end", NoEnvelope))
      found == Claimed(l, Eligible(l, c), c.mem)
      held(e) == [Go(c, l, At("process", e)) EXCEPT
                    !.primaryOnly = IF l = "primary" THEN @ \ {e} ELSE @]
      failed == FailClosed(ended, TRUE)
  IN /\ c.work[l].pc = "claim"
     /\ \/ /\ found = {}
           /\ Mutate(p, InboxAborted(c), {}, ended, failed)
           /\ UNCHANGED tried
        \/ \E e \in found :
             /\ Mutate(p, InboxAborted(c), {Claim(e, l, c.mem)}, held(e), failed)
             /\ IF chan'[p].work[l].env = e
                  THEN Try(e, "running") ELSE UNCHANGED tried
     /\ UNCHANGED <<setup, lease, deliveries, acked, newer>>

\* The primary worker dispatches a turn to Core: the conversation becomes
\* active, and what waits behind it may be eligible for the control lane.
Dispatch(p) ==
  LET c == chan[p]
      w == c.work["primary"]
  IN /\ w.pc = "process"
     /\ Update(p, Wake(Go(c, "primary", At("dispatched", w.env)), {"control"}))
     /\ UNCHANGED <<setup, inbox, lease, deliveries, history, bounds>>

\* processPrimaryEvent, or processControlEvent with true, returns.
Processed(p, l) ==
  LET w == chan[p].work[l]
  IN /\ w.pc \in {"process", "dispatched"}
     /\ Update(p, Go(chan[p], l, At("complete", w.env)))
     /\ UNCHANGED <<setup, inbox, lease, deliveries, history, bounds>>

\* processControlEvent returns false: Core cannot apply the message.
Declined(p) ==
  LET w == chan[p].work["control"]
  IN /\ w.pc = "process" /\ setup.kind[w.env] = "message"
     /\ Update(p, [Go(chan[p], "control", At("release", w.env)) EXCEPT
                     !.primaryOnly = @ \cup {w.env}])
     /\ Try(w.env, "declined")
     /\ UNCHANGED <<setup, inbox, lease, deliveries, acked, newer, bounds>>

\* The event ends by throwing the reason of the channel's own shutdown.
Cancelled(p, l) ==
  LET w == chan[p].work[l]
  IN /\ w.pc \in {"process", "dispatched"} /\ chan[p].abort = "shutdown"
     /\ Update(p, [Go(chan[p], l, At("end", NoEnvelope)) EXCEPT
                     !.aborted = @ \cup {w.env}])
     /\ Try(w.env, "cancelled")
     /\ UNCHANGED <<setup, inbox, lease, deliveries, acked, newer, bounds>>

\* The event ends by throwing anything else.
Threw(p, l) ==
  LET w == chan[p].work[l]
  IN /\ w.pc \in {"process", "dispatched"}
     /\ IF chan[p].abort = "none" THEN Tally("faults")
        ELSE UNCHANGED bounds
     /\ Update(p, [Go(chan[p], l, At("fail", w.env)) EXCEPT !.safe = FALSE])
     /\ Try(w.env, "unknown")
     /\ UNCHANGED <<setup, inbox, lease, deliveries, acked, newer>>

\* The lanes a worker wakes once its event is complete.
WokenBy(l) == IF l = "primary" THEN {"control"} ELSE Lane

CountCompletion(e) ==
  newer' = [x \in Envelope |->
              IF x = e THEN 0
              ELSE IF newer[x] < MaxReceipts THEN newer[x] + 1 ELSE newer[x]]

\* The primary worker goes on to its next event, the control worker ends.
CompleteEvent(p, l) ==
  LET c == chan[p]
      e == c.work[l].env
      again == l = "primary" /\ c.abort = "none"
      next == Go(c, l, At(IF again THEN "claim" ELSE "end", NoEnvelope))
      already == AlreadyComplete(e, c.mem)
  IN /\ c.work[l].pc = "complete"
     /\ Mutate(p, InboxAborted(c) \/ (Mismatch(e, c.mem) /\ ~already),
               IF already THEN {} ELSE Complete(e, c.mem),
               Wake(next, WokenBy(l)),
               [Go(c, l, At("fail", e)) EXCEPT !.safe = FALSE])
     /\ \/ /\ e \notin Entered(disk')
           /\ Try(e, "done") /\ CountCompletion(e)
        \/ /\ e \in Entered(disk')
           /\ Try(e, "unknown") /\ UNCHANGED newer
     /\ UNCHANGED <<setup, lease, deliveries, acked>>

\* The control worker gives a declined message back for the primary lane.
ReleaseEvent(p) ==
  LET c == chan[p]
      e == c.work["control"].env
  IN /\ c.work["control"].pc = "release"
     /\ Mutate(p, InboxAborted(c) \/ Mismatch(e, c.mem), Release(e, c.mem),
               Wake(Go(c, "control", At("end", NoEnvelope)), {"primary"}),
               [Go(c, "control", At("fail", e)) EXCEPT !.safe = FALSE])
     /\ UNCHANGED <<setup, lease, deliveries, history>>

\* failProcessing: the entry is marked failed if that can be written, and the
\* channel fails closed either way.
FailEvent(p, l) ==
  LET c == chan[p]
      e == c.work[l].env
      ended == FailClosed(Go(c, l, At("end", NoEnvelope)), TRUE)
  IN /\ c.work[l].pc = "fail"
     /\ Mutate(p, Mismatch(e, c.mem) /\ ~AlreadyFailed(e, c.mem),
               IF AlreadyFailed(e, c.mem) THEN {} ELSE Fail(e, c.mem),
               ended, ended)
     /\ UNCHANGED <<setup, lease, deliveries, history>>

\* The worker's promise settles, and a wake-up that came meanwhile restarts it.
Finish(p, l) ==
  LET c == Go(chan[p], l, Idle)
      rest == [c EXCEPT !.requested = @ \ {l}]
  IN /\ chan[p].work[l].pc = "end"
     /\ Update(p, IF l \in c.requested THEN Wake(rest, {l}) ELSE rest)
     /\ UNCHANGED <<setup, inbox, lease, deliveries, history, bounds>>

---------------------------------------------------------------------------
(* Shutting down.                                                          *)

BeginShutdown(c, life) ==
  [c EXCEPT !.life = life, !.running = FALSE, !.toAck = {}, !.had = ~Quiet(c)]

AbortLifecycle(c) ==
  [c EXCEPT !.abort = IF @ = "none" THEN "shutdown" ELSE @]

Drain(p) ==
  /\ chan[p].life = "serving"
  /\ Update(p, BeginShutdown(chan[p], "draining"))
  /\ UNCHANGED <<setup, inbox, lease, deliveries, history, bounds>>

Stop(p) ==
  /\ chan[p].life = "serving"
  /\ Update(p, AbortLifecycle(BeginShutdown(chan[p], "cancelling")))
  /\ UNCHANGED <<setup, inbox, lease, deliveries, history, bounds>>

\* The grace of a drain ends, or its signal is aborted, before the workers do.
GraceEnds(p) ==
  /\ chan[p].life = "draining" /\ chan[p].had
  /\ Update(p, AbortLifecycle([chan[p] EXCEPT !.life = "cancelling"]))
  /\ UNCHANGED <<setup, inbox, lease, deliveries, history, bounds>>

WorkersSettle(p) ==
  /\ chan[p].life \in {"draining", "cancelling"} /\ Quiet(chan[p])
  /\ Update(p, AbortLifecycle([chan[p] EXCEPT !.life = "settled"]))
  /\ UNCHANGED <<setup, inbox, lease, deliveries, history, bounds>>

\* mutant: the resources are closed although a worker has not settled
CancellationEnds(p) ==
  /\ chan[p].life = "cancelling" /\ chan[p].had
  /\ Update(p, [chan[p] EXCEPT !.life = "closing", !.safe = FALSE])
  /\ UNCHANGED <<setup, inbox, lease, deliveries, history, bounds>>

\* The bounded wait for the cancelled workers ends, or is aborted: the inbox
\* and the lease stay with this process until they settle.
Retain(p) ==
  /\ chan[p].life = "cancelling" /\ chan[p].had
  /\ Update(p, [chan[p] EXCEPT !.life = "retained", !.safe = FALSE])
  /\ UNCHANGED <<setup, inbox, lease, deliveries, history, bounds>>

\* Only what the workers themselves reported as cancelled becomes pending.
Requeue(p) ==
  LET c == chan[p]
      closing == [c EXCEPT !.life = "closing"]
  IN /\ c.life = "settled"
     /\ IF c.had /\ c.safe /\ c.aborted # {}
          THEN Mutate(p, FALSE, RequeueProcessing(c.aborted, c.mem), closing,
                      [closing EXCEPT !.safe = FALSE])
          ELSE Update(p, closing) /\ UNCHANGED <<inbox, bounds>>
     /\ UNCHANGED <<setup, lease, deliveries, history>>

\* finalizeRetainedShutdown: nothing is requeued any more.
RetainedSettle(p) ==
  /\ chan[p].life = "retained" /\ Quiet(chan[p])
  /\ Update(p, [chan[p] EXCEPT !.life = "closing"])
  /\ UNCHANGED <<setup, inbox, lease, deliveries, history, bounds>>

\* closeShutdownResources and clearShutdownState.
Close(p) ==
  /\ chan[p].life = "closing"
  /\ Update(p, [Off EXCEPT !.work = chan[p].work])
  /\ lease' = Nobody /\ fresh' = fresh \ {p}
  /\ UNCHANGED <<setup, disk, deliveries, history, bounds>>

---------------------------------------------------------------------------
(* The world.                                                              *)

\* The process dies; the operating system frees the lease.
Crash(p) ==
  /\ chan[p].life # "off"
  /\ Tally("crashes")
  /\ Update(p, Off)
  /\ lease' = IF lease = p THEN Nobody ELSE lease
  /\ fresh' = fresh \ {p}
  /\ tried' = [e \in Envelope |->
                IF \E l \in Lane : /\ chan[p].work[l].env = e
                                  /\ tried[e] = "running"
                  THEN "unknown" ELSE tried[e]]
  /\ UNCHANGED <<setup, disk, deliveries, acked, newer>>

\* The operator's command, under the lease and over the file it discovered.
OperatorRequeue(e) ==
  /\ lease = Nobody /\ e \in Processing(disk)
  /\ Tally("requeues")
  /\ disk' \in Release(e, disk) /\ fresh' = {}
  /\ Try(e, "requeued")
  /\ UNCHANGED <<setup, lease, chan, deliveries, acked, newer>>

Work(p, l) ==
  \/ ClaimNext(p, l) \/ Processed(p, l) \/ Cancelled(p, l) \/ Threw(p, l)
  \/ CompleteEvent(p, l) \/ FailEvent(p, l) \/ Finish(p, l)

Lifecycle(p) ==
  \/ Prepare(p) \/ Acquire(p) \/ Open(p) \/ AbandonStart(p)
  \/ TransportFailed(p) \/ Drain(p) \/ Stop(p) \/ GraceEnds(p)
  \/ WorkersSettle(p) \/ Retain(p) \/ Requeue(p) \/ RetainedSettle(p)
  \/ Close(p) \/ Crash(p)

Next ==
  \/ \E p \in Process :
       \/ Lifecycle(p)
       \/ \E e \in DOMAIN setup.kind : Admit(p, e) \/ Ack(p, e)
       \/ \E l \in Lane : Work(p, l)
       \/ Dispatch(p) \/ Declined(p) \/ ReleaseEvent(p)
  \/ \E e \in Envelope : OperatorRequeue(e)

Spec == Init /\ [][Next]_vars

\* The runtime resumes a worker whose await has settled, and Core settles every
\* turn and every control call, whether it returns, declines or throws.
Fairness ==
  \A p \in Process :
    /\ \A l \in Lane : WF_vars(Work(p, l))
    /\ WF_vars(ReleaseEvent(p))

FairSpec == Spec /\ Fairness

---------------------------------------------------------------------------
(* Properties.                                                             *)

Holding == {"process", "dispatched", "complete", "release", "fail"}

\* Type correctness; what is in the file always passes validateState, so a
\* restart never finds it corrupt and no mutation is refused as invalid.
TypeOK ==
  /\ setup \in Setups
  /\ ValidState(disk)
  /\ fresh \subseteq Process
  /\ lease \in Process \cup {Nobody}
  /\ \A p \in Process :
       /\ chan[p].life \in Life
       /\ chan[p].abort \in {"none", "failed", "shutdown"}
       /\ {chan[p].running, chan[p].safe, chan[p].had, chan[p].poisoned}
            \subseteq BOOLEAN
       /\ ValidState(chan[p].mem)
       /\ \A l \in Lane :
            /\ chan[p].work[l].pc \in Pc
            /\ chan[p].work[l].pc \in Holding <=> chan[p].work[l].env \in Envelope
       /\ chan[p].requested \subseteq Lane
       /\ chan[p].aborted \cup chan[p].primaryOnly \cup chan[p].toAck
            \subseteq Envelope
  /\ acked \subseteq Envelope
  /\ tried \in [Envelope -> {"never", "running", "declined", "cancelled",
                             "unknown", "requeued", "done"}]

\* An envelope that was acknowledged is in the file, or is complete: Slack may
\* forget it, and no failed write, crash or restart does.
AckedIsKept ==
  \A e \in acked : e \in Entered(disk) \/ tried[e] = "done"

\* What a serving process believes is what the file says: no other process,
\* and no operator's command, has written since it opened the inbox.
OneWriter ==
  \A p \in Process :
    chan[p].life \notin {"off", "prepared", "leased"} =>
      /\ lease = p
      /\ ~chan[p].poisoned => p \in fresh /\ chan[p].mem = disk

\* The entry a worker is on is marked processing in its lane, for as long as
\* the worker is on it: no restart could take it for work that may be started.
WorkersOwnTheirEntries ==
  \A p \in Process, l \in Lane :
    chan[p].work[l].pc \in {"process", "dispatched"} =>
      \E i \in DOMAIN disk.entries :
        disk.entries[i] = [env |-> chan[p].work[l].env, status |-> "processing",
                           lane |-> l]

Starts(p, l, e) ==
  chan[p].work[l].pc = "claim" /\ chan'[p].work[l] = At("process", e)

\* An event is not started again unless the previous attempt is known to have
\* had no effect (Core declined it, or it ended by the channel's own abort), the
\* operator said so, or it was completed so long ago that its receipt has been
\* dropped for MaxReceipts newer ones.  It is never on two workers.
NoBlindRepeat ==
  [][\A p \in Process, l \in Lane, e \in Envelope :
       Starts(p, l, e) =>
         /\ \/ tried[e] \in {"never", "declined", "cancelled", "requeued"}
            \/ tried[e] = "done" /\ newer[e] = MaxReceipts
         /\ \A q \in Process, m \in Lane : chan[q].work[m].env # e]_vars

\* No wake-up is lost between the two lanes: an admitted event leaves the inbox
\* (or the channel stops accepting, and says so).
EnvelopeSettles ==
  \A p \in Process, e \in Envelope :
    (chan[p].running /\ e \in Entered(chan[p].mem))
      ~> (~chan[p].running \/ e \notin Entered(chan[p].mem))
=============================================================================
