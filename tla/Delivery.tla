------------------------------ MODULE Delivery ------------------------------
(***************************************************************************)
(* Proactive delivery by the Core (core/src/host-delivery.ts) over the     *)
(* delivery journal, with the in-memory view of the destination            *)
(* conversation that turns and deliveries share (core/src/host.ts).        *)
(*                                                                         *)
(* A call is one HostDelivery.deliver whose channel can deliver and whose  *)
(* host has a state store.  Abort of its signals only refuses store        *)
(* operations and cancels it before the send, which may happen anyway.     *)
(***************************************************************************)
EXTENDS DeliveryJournal

CONSTANTS
  Call,       \* concurrent calls
  NoKey

ASSUME CallAssumption == NoKey \notin Key

VARIABLES
  call,       \* per call: the locals of #once and #confirm
  turn,       \* per turn of the destination: where it stands, and what it holds
  view,       \* the canonical transcript in memory (#transcripts)
  loaded,     \* the conversation needs no load (#loadedConversations)
  copies,     \* per key: messages that went out (observer)
  told        \* per key: contents whose delivery was confirmed (observer)

memory == <<call, turn, view, loaded>>
observed == <<copies, told>>
vars == <<store, memory, observed>>

CallPhase == {"idle", "preparing", "prepared", "sending", "settling", "confirming",
              "doubting", "reading", "viewing", "answering"}

\* "conflict" is a "failed" result that blames the key; "error" a rejected promise.
Result == {"delivered", "failed", "unknown", "conflict", "error"}

CallRecord ==
  [phase : CallPhase, key : Key \cup {NoKey}, content : Content \cup {NoContent},
   attempt : Nat,                  \* of the call's own intent; 0 without one
   sent : BOOLEAN,                 \* the channel acted in this attempt
   snapshot : Seq(Key \cup Turn),  \* the conversation as read back
   result : Result]

IdleCall == [phase |-> "idle", key |-> NoKey, content |-> NoContent, attempt |-> 0,
             sent |-> FALSE, snapshot |-> <<>>, result |-> "error"]

TurnRecord ==
  [phase : {"idle", "loading", "running", "settling", "done"},
   base : Seq(Key \cup Turn)]

TypeOK ==
  /\ StoreTypeOK
  /\ call \in [Call -> CallRecord]
  /\ turn \in [Turn -> TurnRecord]
  /\ view \in Seq(Key \cup Turn)
  /\ loaded \in BOOLEAN
  /\ copies \in [Key -> Nat]
  /\ told \in [Key -> SUBSET Content]

Init ==
  /\ StoreInit
  /\ call = [c \in Call |-> IdleCall]
  /\ turn = [t \in Turn |-> [phase |-> "idle", base |-> <<>>]]
  /\ view = <<>>
  /\ loaded = FALSE
  /\ copies = [k \in Key |-> 0]
  /\ told = [k \in Key |-> {}]

-----------------------------------------------------------------------------
(* Helpers *)

At(c, phase) == call[c].phase = phase
Inflight(k) == \E c \in Call : call[c].key = k
Goto(c, r) == call' = [call EXCEPT ![c] = r]

Answered(r, result) == [r EXCEPT !.phase = "answering", !.result = result]
Answer(c, result) == Goto(c, Answered(call[c], result))

\* A journal write of call c: it becomes done when it is acknowledged, else lost.
Write(c, write, done, lost) ==
  /\ \/ Applied(write) /\ Goto(c, done)
     \/ Failed(write) /\ Goto(c, lost)
  /\ UNCHANGED <<turn, view, observed>>

\* What loading makes of the view, given what was read: an older read is dropped.
AlwaysNewer(read) == read  \* mutant
Newer(read) == IF Len(view) > Len(read) THEN view ELSE read
Divergent(read) == Len(view) = Len(read) /\ view # read

View(read) ==
  /\ ~Divergent(read)
  /\ view' = Newer(read)
  /\ loaded' = (loaded \/ Len(view) <= Len(read))

-----------------------------------------------------------------------------
(* Preparing *)

\* A call whose key is in flight shares that call's promise, or is a conflict if
\* its content is another; neither changes anything.
Deliver(c, k, f) ==
  /\ At(c, "idle")
  /\ ~Inflight(k)
  /\ Goto(c, [IdleCall EXCEPT !.phase = "preparing", !.key = k, !.content = f])
  /\ UNCHANGED <<store, turn, view, loaded, observed>>

\* A receipt that cannot be read or written rejects the call.
PrepareIntent(c) ==
  LET r == call[c] IN
  /\ At(c, "preparing")
  /\ Write(c, IntentWrite(r.key, r.content),
           [r EXCEPT !.phase = "prepared", !.attempt = receipt[r.key].attempt + 1],
           Answered(r, "error"))
  /\ UNCHANGED loaded

PrepareStale(c) ==
  LET r == call[c] IN
  /\ At(c, "preparing")
  /\ Write(c, StaleIntentWrite(r.key, r.content),
           Answered(r, "unknown"), Answered(r, "error"))
  /\ UNCHANGED loaded

\* The receipt answers by itself, but a delivered one is confirmed again.
PrepareExisting(c) ==
  LET r == call[c]
      known == receipt[r.key]
  IN
  /\ At(c, "preparing")
  /\ ~poisoned
  /\ known.status # "absent" /\ Readable(r.key)
  /\ \/ /\ known.content # r.content
        /\ Answer(c, "conflict") /\ UNCHANGED loaded
     \/ /\ known.content = r.content
        /\ known.status = "unknown" \/ (known.status = "intent" /\ known.lease = "live")
        /\ Answer(c, "unknown") /\ UNCHANGED loaded
     \/ /\ known.content = r.content /\ known.status = "delivered"
        /\ Goto(c, [r EXCEPT !.phase = "reading"]) /\ loaded' = FALSE
  /\ UNCHANGED <<store, turn, view, observed>>

-----------------------------------------------------------------------------
(* Sending *)

\* Aborted before the send: the intent is failed if the store still accepts it.
CancelBeforeSend(c) ==
  LET r == call[c] IN
  /\ At(c, "prepared")
  /\ Write(c, SettleWrite(r.key, r.content, r.attempt, "failed"),
           Answered(r, "failed"), Answered(r, "failed"))
  /\ UNCHANGED loaded

Send(c) ==
  /\ At(c, "prepared")
  /\ Goto(c, [call[c] EXCEPT !.phase = "sending"])
  /\ UNCHANGED <<store, turn, view, loaded, observed>>

MessageGoesOut(c) ==
  /\ At(c, "sending")
  /\ ~call[c].sent
  /\ Goto(c, [call[c] EXCEPT !.sent = TRUE])
  /\ copies' = [copies EXCEPT ![call[c].key] = @ + 1]
  /\ UNCHANGED <<store, turn, view, loaded, told>>

\* An honest channel reports "delivered" or "duplicate" only of a message that
\* went out, and "failed" only of one that did not.
ChannelAnswers(c, result) ==
  /\ At(c, "sending")
  /\ result = "delivered" => copies[call[c].key] > 0
  /\ result = "failed" => ~call[c].sent
  /\ Goto(c, [call[c] EXCEPT
       !.phase = IF result = "delivered" THEN "confirming" ELSE "settling",
       !.result = result])
  /\ UNCHANGED <<store, turn, view, loaded, observed>>

\* The channel throws, or returns something malformed or of another key.
ChannelThrows(c) ==
  /\ At(c, "sending")
  /\ Goto(c, [call[c] EXCEPT !.phase = "doubting"])
  /\ UNCHANGED <<store, turn, view, loaded, observed>>

-----------------------------------------------------------------------------
(* Settling *)

\* The channel's "failed" or "unknown" is passed on only once it is durable.
SettleResult(c) ==
  LET r == call[c] IN
  /\ At(c, "settling")
  /\ Write(c, SettleWrite(r.key, r.content, r.attempt, r.result),
           Answered(r, r.result), Answered(r, "unknown"))
  /\ UNCHANGED loaded

\* mutant: the outcome is answered only once it is durably unknown
DoubtUntilDurable(c) ==
  LET r == call[c] IN
  /\ At(c, "doubting")
  /\ Write(c, SettleWrite(r.key, r.content, r.attempt, "unknown"),
           Answered(r, "unknown"), r)
  /\ UNCHANGED loaded

\* mutant: a channel that throws has failed
DoubtAsFailure(c) ==
  LET r == call[c] IN
  /\ At(c, "doubting")
  /\ Write(c, SettleWrite(r.key, r.content, r.attempt, "failed"),
           Answered(r, "failed"), Answered(r, "failed"))
  /\ UNCHANGED loaded

\* Best effort: it never rewrites a delivered receipt, and a call that did not send
\* has nothing to settle.
Doubt(c) ==
  LET r == call[c] IN
  /\ At(c, "doubting")
  /\ \/ /\ r.attempt > 0
        /\ Write(c, SettleWrite(r.key, r.content, r.attempt, "unknown"),
                 Answered(r, "unknown"), Answered(r, "unknown"))
     \/ r.attempt = 0 /\ Answer(c, "unknown") /\ UNCHANGED <<store, turn, view, observed>>
  /\ UNCHANGED loaded

\* mutant: the delivery is confirmed whether or not its receipt is
ConfirmOptimistically(c) ==
  LET r == call[c] IN
  /\ At(c, "confirming")
  /\ Write(c, DeliveredWrite(r.key, r.content, r.attempt),
           [r EXCEPT !.phase = "reading"], Answered(r, "delivered"))
  /\ loaded' = (loaded /\ call'[c].phase = "answering")

\* Receipt and history entry, tried twice; the cached conversation is dropped
\* as soon as they are acknowledged.
SettleDelivered(c) ==
  LET r == call[c] IN
  /\ At(c, "confirming")
  /\ Write(c, DeliveredWrite(r.key, r.content, r.attempt),
           [r EXCEPT !.phase = "reading"], [r EXCEPT !.phase = "doubting"])
  /\ loaded' = (loaded /\ call'[c].phase = "doubting")

ReadBack(c) ==
  /\ At(c, "reading")
  /\ \/ ~poisoned /\ Goto(c, [call[c] EXCEPT !.phase = "viewing", !.snapshot = history])
     \/ Goto(c, [call[c] EXCEPT !.phase = "doubting"])
  /\ UNCHANGED <<store, turn, view, loaded, observed>>

\* The read becomes the view, and its entry proves the delivery.
CommitView(c) ==
  LET r == call[c] IN
  /\ At(c, "viewing")
  /\ \/ /\ View(r.snapshot)
        /\ IF \E i \in 1..Len(r.snapshot) : r.snapshot[i] = r.key
           THEN Answer(c, "delivered")
           ELSE Goto(c, [r EXCEPT !.phase = "doubting"])
     \/ /\ Goto(c, [r EXCEPT !.phase = "doubting"])
        /\ UNCHANGED <<view, loaded>>
  /\ UNCHANGED <<store, turn, observed>>

Reply(c) ==
  LET r == call[c] IN
  /\ At(c, "answering")
  /\ told' = [told EXCEPT ![r.key] =
       IF r.result = "delivered" THEN @ \cup {r.content} ELSE @]
  /\ Goto(c, IdleCall)
  /\ UNCHANGED <<store, turn, view, loaded, copies>>

-----------------------------------------------------------------------------
(* The turns of the destination conversation, one at a time *)

TurnAt(t, phase) == turn[t].phase = phase
TurnGoto(t, phase, base) == turn' = [turn EXCEPT ![t] = [phase |-> phase, base |-> base]]

TurnStarts(t) ==
  /\ TurnAt(t, "idle")
  /\ \A u \in Turn : turn[u].phase \in {"idle", "done"}
  /\ \/ loaded /\ TurnGoto(t, "running", <<>>)
     \/ ~loaded /\ ~poisoned /\ TurnGoto(t, "loading", history)
  /\ UNCHANGED <<store, call, view, loaded, observed>>

TurnLoads(t) ==
  /\ TurnAt(t, "loading")
  /\ View(turn[t].base)
  /\ TurnGoto(t, "running", <<>>)
  /\ UNCHANGED <<store, call, observed>>

\* The base of the settled transcript is read before its settlement is queued.
TurnReadsBase(t) ==
  /\ TurnAt(t, "running")
  /\ TurnGoto(t, "settling", view)
  /\ UNCHANGED <<store, call, view, loaded, observed>>

TurnSettles(t) ==
  /\ TurnAt(t, "settling")
  /\ Applied(TurnWrite(t, turn[t].base))
  /\ view' = Append(turn[t].base, t)
  /\ loaded' = TRUE
  /\ TurnGoto(t, "done", <<>>)
  /\ UNCHANGED <<call, observed>>

\* mutant: the settled transcript is shown although it was not acknowledged
TurnFailsVisibly(t) ==
  /\ TurnAt(t, "settling")
  /\ UNCHANGED store \/ Torn(TurnWrite(t, turn[t].base))
  /\ view' = Append(turn[t].base, t)
  /\ TurnGoto(t, "done", <<>>)
  /\ UNCHANGED <<call, loaded, observed>>

\* A turn fails, or its settlement is refused or torn and it ends uncertain.
TurnFails(t) ==
  /\ turn[t].phase \in {"loading", "running", "settling"}
  /\ \/ UNCHANGED store
     \/ TurnAt(t, "settling") /\ Torn(TurnWrite(t, turn[t].base))
  /\ TurnGoto(t, "done", <<>>)
  /\ UNCHANGED <<call, view, loaded, observed>>

-----------------------------------------------------------------------------
(* The process *)

\* The process ends, at any point, and a new host opens the store again.
Restart ==
  /\ call' = [c \in Call |-> IdleCall]
  /\ turn' = [t \in Turn |->
       IF TurnAt(t, "idle") THEN turn[t] ELSE [phase |-> "done", base |-> <<>>]]
  /\ view' = <<>>
  /\ loaded' = FALSE
  /\ Reopen
  /\ UNCHANGED observed

Clock(k) == LeaseExpires(k) /\ UNCHANGED <<memory, observed>>

PrepareStep(c) == PrepareIntent(c) \/ PrepareStale(c) \/ PrepareExisting(c)

ChannelStep(c) ==
  \/ CancelBeforeSend(c) \/ Send(c)
  \/ \E result \in {"delivered", "failed", "unknown"} : ChannelAnswers(c, result)
  \/ ChannelThrows(c)

SettleStep(c) ==
  \/ SettleResult(c) \/ Doubt(c) \/ SettleDelivered(c)
  \/ ReadBack(c) \/ CommitView(c) \/ Reply(c)

CallStep(c) ==
  \/ \E k \in Key, f \in Content : Deliver(c, k, f)
  \/ PrepareStep(c) \/ ChannelStep(c) \/ MessageGoesOut(c) \/ SettleStep(c)

TurnStep(t) ==
  TurnStarts(t) \/ TurnLoads(t) \/ TurnReadsBase(t) \/ TurnSettles(t) \/ TurnFails(t)

Next ==
  \/ \E c \in Call : CallStep(c)
  \/ \E t \in Turn : TurnStep(t)
  \/ \E k \in Key : Clock(k)
  \/ Restart

Spec == Init /\ [][Next]_vars

\* Store calls settle by themselves, and a channel is taken to answer or throw.
Fairness ==
  \A c \in Call : WF_vars(PrepareStep(c)) /\ WF_vars(ChannelStep(c)) /\ WF_vars(SettleStep(c))

FairSpec == Spec /\ Fairness

-----------------------------------------------------------------------------
(* Properties *)

\* Whatever fails, restarts or is delivered again under a key, its message goes
\* out at most once, and only for the content that claimed the key.
SentAtMostOnce ==
  \A k \in Key :
    /\ copies[k] <= 1
    /\ copies[k] = 1 => receipt[k].status \in {"intent", "delivered", "unknown"}

\* A receipt is delivered exactly when its entry is in the destination history,
\* once, and only if the message went out: no crash or torn commit parts them.
DeliveredWithHistory ==
  \A k \in Key :
    LET entries == {i \in 1..Len(history) : history[i] = k} IN
    IF receipt[k].status = "delivered"
    THEN copies[k] = 1 /\ \E i \in entries : entries = {i}
    ELSE entries = {}

\* What a call is about to answer is what the world and the store hold: "failed"
\* means nothing went out and a retry may, "delivered" that the entry is durable
\* and visible to the next turn, "conflict" that the key is another content's.
HonestOutcomes ==
  \A c \in Call : LET r == call[c] IN
    At(c, "answering") =>
      CASE r.result = "delivered" ->
             /\ receipt[r.key].status = "delivered" /\ receipt[r.key].content = r.content
             /\ \E i \in 1..Len(view) : view[i] = r.key
        [] r.result = "failed" -> copies[r.key] = 0
        [] r.result = "conflict" -> receipt[r.key].content # r.content
        [] OTHER -> TRUE

\* The history is append-only: no settlement built on an older view of the
\* conversation may drop what a delivery or a turn has appended since.
HistoryOnlyGrows ==
  [][Len(history) <= Len(history') /\ history = SubSeq(history', 1, Len(history))]_history

\* The view of a process is at every step a prefix of the history, and loads that
\* finish out of order never take it back.
ViewIsPrefix == Len(view) <= Len(history) /\ view = SubSeq(history, 1, Len(view))
ViewOnlyGrows == [][Restart \/ Len(view') >= Len(view)]_vars

\* Every delivery is answered, whatever the store does.
EveryDeliveryEnds == \A c \in Call : ~At(c, "idle") ~> At(c, "idle")

\* The state of the promise that the durable receipts stand for.
Owners == [k \in Key |-> receipt[k].content]
Outcomes == [k \in Key |->
  IF receipt[k].status \in {"delivered", "unknown"} THEN receipt[k].status ELSE "open"]

Promise == INSTANCE DeliverOnce WITH owner <- Owners, outcome <- Outcomes

\* The promise of DeliverOnce to every caller, kept by every step.
KeepsPromise == Promise!Spec
=============================================================================
