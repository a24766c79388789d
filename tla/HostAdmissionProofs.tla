------------------------ MODULE HostAdmissionProofs ------------------------
(***************************************************************************)
(* Proofs about HostAdmission, for every number of submissions and         *)
(* conversations and every limit: the turns of a conversation run one at a *)
(* time and in order, no slot and no count is lost or given twice, and the *)
(* modules are torn down under nobody who was not told.                    *)
(***************************************************************************)
EXTENDS HostAdmission, FiniteSetTheorems, SequenceTheorems, TLAPS

---------------------------------------------------------------------------
(* The inductive invariant *)

\* A submission in progress belongs to a conversation.
TalksOK == \A s \in InProgress : talk[s] \in Conversation

\* A gate is shut as long as its submission is behind, in, or on its way out of
\* the tail of that conversation.
GatesOK ==
  \A c \in Conversation : \A i \in 1..Len(chain[c]) :
    LET gate == chain[c][i] IN
    IF gate.open
    THEN phase[gate.who] \in {"returning", "done"}
    ELSE /\ phase[gate.who] \in {"queued", "waiting", "running", "leaving"}
         /\ talk[gate.who] = c

\* Who queues for a slot is waiting, and queues once.
WaitersOK ==
  /\ \A i \in 1..Len(waiters) : In(waiters[i], "waiting")
  /\ \A i, j \in 1..Len(waiters) : waiters[i] = waiters[j] => i = j

\* Drain is told that nothing is pending when nothing is, and then nothing begins.
IdleOK == idle => host # "running" /\ InProgress = {}

Inv ==
  /\ TypeOK
  /\ TalksOK
  /\ GatesOK
  /\ OneTurnAtATime
  /\ WaitersOK
  /\ NothingLeaks
  /\ IdleOK
  /\ QuietTeardown

---------------------------------------------------------------------------
(* Lemmas *)

\* Shut drops gates from the front, and nothing else.
LEMMA ShutIsSuffix ==
  ASSUME NEW S, NEW gates \in Seq(S)
  PROVE  \E n \in 0..Len(gates) : Shut(gates) = SubSeq(gates, n + 1, Len(gates))
<1> DEFINE open(i) == \A j \in 1..i : gates[j].open
           front == {i \in 1..Len(gates) : open(i)}
<1>1. Len(gates) \in Nat
  OBVIOUS
<1>2. IsFiniteSet(1..Len(gates)) /\ Cardinality(1..Len(gates)) = Len(gates)
  BY <1>1, FS_Interval
<1>3. front \in SUBSET (1..Len(gates))
  OBVIOUS
<1>4. IsFiniteSet(front) /\ Cardinality(front) <= Len(gates)
  <2> HIDE DEF front
  <2> QED BY <1>2, <1>3, FS_Subset
<1>5. Cardinality(front) \in Nat
  <2> HIDE DEF front
  <2> QED BY <1>4, FS_CardinalityType
<1>6. Shut(gates) = SubSeq(gates, Cardinality(front) + 1, Len(gates))
  BY DEF Shut
<1> HIDE DEF front
<1> QED BY <1>1, <1>4, <1>5, <1>6

LEMMA ShutGates ==
  ASSUME NEW S, NEW gates \in Seq(S)
  PROVE  \E n \in Nat :
           /\ Shut(gates) \in Seq(S)
           /\ Len(Shut(gates)) = Len(gates) - n
           /\ \A i \in 1..Len(Shut(gates)) : /\ n + i \in 1..Len(gates)
                                             /\ Shut(gates)[i] = gates[n + i]
<1>1. PICK n \in 0..Len(gates) : Shut(gates) = SubSeq(gates, n + 1, Len(gates))
  BY ShutIsSuffix
<1>2. Len(gates) \in Nat
  OBVIOUS
<1> QED BY <1>1, <1>2

\* The submissions that run, and those in progress, can be counted.
LEMMA Countable ==
  /\ IsFiniteSet(Running) /\ Cardinality(Running) \in Nat
  /\ IsFiniteSet(InProgress) /\ Cardinality(InProgress) \in Nat
<1>1. Running \in SUBSET Submission /\ InProgress \in SUBSET Submission
  BY DEF Running, InProgress
<1> HIDE DEF Running, InProgress
<1> QED BY <1>1, LimitAssumption, FS_Subset, FS_CardinalityType DEF LimitAssumption

LEMMA InitInv == Init => Inv
<1> SUFFICES ASSUME Init PROVE Inv
  OBVIOUS
<1>1. Running = {} /\ InProgress = {}
  BY DEF Init, Running, InProgress, In
<1>2. NothingLeaks
  BY <1>1, FS_EmptySet, LimitAssumption DEF Init, NothingLeaks, LimitAssumption
<1>3. TypeOK
  <2>1. <<>> \in Seq(Gate) /\ <<>> \in Seq(Submission)
    OBVIOUS
  <2> QED BY <2>1 DEF Init, TypeOK, Phase
<1> QED BY <1>1, <1>2, <1>3
     DEF Init, Inv, TalksOK, GatesOK, OneTurnAtATime, WaitersOK, IdleOK, QuietTeardown

---------------------------------------------------------------------------
(* Steps that leave the gates alone *)

Behind == {"queued", "waiting", "running", "leaving"}
Past == {"returning", "done"}

\* How a submission may move without a gate.
Moves(s) ==
  /\ phase[s] \in Behind => phase'[s] \in Behind
  /\ phase[s] \in Past => phase'[s] \in Past
  /\ phase'[s] \notin {"new", "done"} =>
       /\ phase[s] \notin {"new", "done"}
       /\ talk'[s] = talk[s]
  /\ phase'[s] \in {"waiting", "running"} =>
       phase[s] \in {"waiting", "running"} \/ (In(s, "queued") /\ Ready(s))

\* A submission that moves on inside the tail or outside of it disturbs no gate, and
\* one that gets past the tail found it ready.
LEMMA PhasesMove ==
  ASSUME Inv, TypeOK', chain' = chain,
         \A s \in Submission : Moves(s)
  PROVE  TalksOK' /\ GatesOK' /\ OneTurnAtATime'
<1> USE DEF Inv
<1>1. TalksOK'
  BY DEF TalksOK, InProgress, Moves
<1>2. ASSUME NEW c \in Conversation, NEW i \in 1..Len(chain[c])
      PROVE  chain[c][i] \in Gate
  BY <1>2 DEF TypeOK
<1>3. GatesOK'
  <2> SUFFICES ASSUME NEW c \in Conversation, NEW i \in 1..Len(chain[c])
               PROVE  LET gate == chain[c][i] IN
                      IF gate.open
                      THEN phase'[gate.who] \in Past
                      ELSE phase'[gate.who] \in Behind /\ talk'[gate.who] = c
    BY DEF GatesOK, Behind, Past
  <2>1. chain[c][i].who \in Submission
    BY <1>2 DEF Gate
  <2>2. IF chain[c][i].open
        THEN phase[chain[c][i].who] \in Past
        ELSE phase[chain[c][i].who] \in Behind /\ talk[chain[c][i].who] = c
    BY DEF GatesOK, Behind, Past
  <2> QED BY <2>1, <2>2 DEF Behind, Moves
<1>4. OneTurnAtATime'
  <2> SUFFICES ASSUME NEW c \in Conversation,
                      NEW i \in 1..Len(chain[c]), NEW j \in 1..Len(chain[c]), i < j,
                      phase'[chain[c][j].who] \in {"waiting", "running"}
               PROVE  chain[c][i].open
    BY DEF OneTurnAtATime
  <2>1. chain[c][j].who \in Submission
    BY <1>2 DEF Gate
  <2>2. CASE phase[chain[c][j].who] \in {"waiting", "running"}
    BY <2>2 DEF OneTurnAtATime
  <2>3. CASE In(chain[c][j].who, "queued") /\ Ready(chain[c][j].who)
    <3>1. talk[chain[c][j].who] = c
      BY <2>3 DEF GatesOK, In
    <3> QED BY <2>3, <3>1 DEF Ready
  <2> QED BY <2>1, <2>2, <2>3 DEF Moves
<1> QED BY <1>1, <1>3, <1>4

LEMMA AcquireKeeps ==
  ASSUME Inv, NEW s \in Submission, Acquire(s)
  PROVE  Inv'
<1> USE DEF Inv
<1>0. phase[s] = "queued" /\ phase \in [Submission -> Phase]
  BY DEF Acquire, In, TypeOK
<1>1. phase' \in [Submission -> Phase] /\ \A t \in Submission \ {s} : phase'[t] = phase[t]
  BY <1>0 DEF Acquire, Goto, Phase
<1>2. phase'[s] = IF active < MaxConcurrent THEN "running" ELSE "waiting"
  BY <1>0 DEF Acquire, Goto
<1>3. TypeOK'
  <2>1. active \in Nat /\ waiters \in Seq(Submission)
    BY DEF TypeOK
  <2>2. active' \in Nat
    BY <2>1 DEF Acquire
  <2>3. waiters' \in Seq(Submission)
    BY <2>1 DEF Acquire
  <2> QED BY <1>1, <2>2, <2>3 DEF Acquire, TypeOK, lifecycle
<1>4. TalksOK' /\ GatesOK' /\ OneTurnAtATime'
  <2>1. Moves(s)
    BY <1>0, <1>2 DEF Acquire, Moves, Behind, Past, In
  <2>3. \A t \in Submission \ {s} : Moves(t)
    BY <1>1 DEF Acquire, Moves
  <2>2. chain' = chain
    BY DEF Acquire
  <2> QED BY <1>3, <2>1, <2>2, <2>3, PhasesMove
<1>5. WaitersOK'
  <2>0. waiters \in Seq(Submission)
    BY DEF TypeOK
  <2>3. ASSUME NEW i \in 1..Len(waiters)
        PROVE  waiters[i] \in Submission \ {s} /\ phase'[waiters[i]] = "waiting"
    <3>1. waiters[i] \in Submission
      BY <2>0
    <3>2. phase[waiters[i]] = "waiting"
      BY DEF WaitersOK, In
    <3> QED BY <1>0, <1>1, <3>1, <3>2
  <2>1. CASE active < MaxConcurrent
    <3>1. waiters' = waiters
      BY <2>1 DEF Acquire
    <3> QED BY <2>3, <3>1 DEF WaitersOK, In
  <2>2. CASE ~(active < MaxConcurrent)
    <3>1. waiters' = Append(waiters, s)
      BY <2>2 DEF Acquire
    <3>4. phase'[s] = "waiting"
      BY <1>2, <2>2
    <3>5. \A i \in 1..Len(waiters') : phase'[waiters'[i]] = "waiting"
      BY <2>0, <2>3, <3>1, <3>4
    <3>6. \A i, j \in 1..Len(waiters') : waiters'[i] = waiters'[j] => i = j
      BY <2>0, <2>3, <3>1 DEF WaitersOK
    <3> QED BY <3>5, <3>6 DEF WaitersOK, In
  <2> QED BY <2>1, <2>2
<1>6. NothingLeaks'
  <2>1. InProgress' = InProgress
    BY <1>0, <1>1, <1>2 DEF InProgress
  <2>2. CASE active < MaxConcurrent
    <3>1. Running' = Running \cup {s} /\ s \notin Running
      BY <1>0, <1>1, <1>2, <2>2 DEF Running, In
    <3>2. Cardinality(Running') = Cardinality(Running) + 1
      BY <3>1, Countable, FS_AddElement
    <3>3. active' = active + 1 /\ waiters' = waiters /\ pending' = pending
      BY <2>2 DEF Acquire
    <3> QED BY <2>1, <2>2, <3>2, <3>3, LimitAssumption
            DEF NothingLeaks, TypeOK, LimitAssumption
  <2>3. CASE ~(active < MaxConcurrent)
    <3>1. Running' = Running
      BY <1>0, <1>1, <1>2, <2>3 DEF Running, In
    <3>2. active' = active /\ pending' = pending
      BY <2>3 DEF Acquire
    <3> QED BY <2>1, <2>3, <3>1, <3>2, LimitAssumption
            DEF NothingLeaks, TypeOK, LimitAssumption
  <2> QED BY <2>2, <2>3
<1>7. InProgress' = InProgress
  BY <1>0, <1>1, <1>2 DEF InProgress
<1>8. IdleOK' /\ QuietTeardown'
  BY <1>7 DEF Acquire, lifecycle, IdleOK, QuietTeardown
<1> QED BY <1>3, <1>4, <1>5, <1>6, <1>8

LEMMA GiveUpKeeps ==
  ASSUME Inv, NEW s \in Submission, GiveUp(s)
  PROVE  Inv'
<1> USE DEF Inv
<1>0. phase[s] = "queued" /\ phase \in [Submission -> Phase]
  BY DEF GiveUp, In, TypeOK
<1>1. phase' = [phase EXCEPT ![s] = "leaving"]
  BY DEF GiveUp, Goto
<1>2. TypeOK'
  <2>1. phase' \in [Submission -> Phase]
    BY <1>0, <1>1 DEF Phase
  <2> QED BY <2>1 DEF GiveUp, TypeOK, limits, lifecycle
<1>3. TalksOK' /\ GatesOK' /\ OneTurnAtATime'
  <2>1. \A t \in Submission : Moves(t)
    BY <1>0, <1>1 DEF GiveUp, Moves, Behind, Past
  <2> QED BY <1>2, <2>1, PhasesMove DEF GiveUp
<1>4. WaitersOK'
  <2>1. \A i \in 1..Len(waiters) : waiters[i] \in Submission
    BY DEF TypeOK
  <2>2. \A i \in 1..Len(waiters) : phase'[waiters[i]] = "waiting"
    BY <1>0, <1>1, <2>1 DEF WaitersOK, In
  <2>3. waiters' = waiters
    BY DEF GiveUp, limits
  <2> QED BY <2>2, <2>3 DEF WaitersOK, In
<1>5. InProgress' = InProgress /\ Running' = Running
  BY <1>0, <1>1 DEF InProgress, Running, In
<1>6. NothingLeaks' /\ IdleOK' /\ QuietTeardown'
  BY <1>5 DEF GiveUp, limits, lifecycle, NothingLeaks, IdleOK, QuietTeardown
<1> QED BY <1>2, <1>3, <1>4, <1>6

LEMMA TurnEndsKeeps ==
  ASSUME Inv, NEW s \in Submission, TurnEnds(s)
  PROVE  Inv'
<1> USE DEF Inv
<1>0. phase[s] = "running" /\ phase \in [Submission -> Phase] /\ waiters \in Seq(Submission)
  BY DEF TurnEnds, In, TypeOK
<1>1. CASE waiters = <<>>
  <2>1. /\ phase' = [phase EXCEPT ![s] = "leaving"]
        /\ active' = active - 1
        /\ waiters' = waiters
    BY <1>1 DEF TurnEnds, ReleaseSlot, Goto
  <2>2. Running' = Running \ {s} /\ s \in Running /\ InProgress' = InProgress
    BY <1>0, <2>1 DEF Running, InProgress, In
  <2>3. Cardinality(Running') = Cardinality(Running) - 1 /\ Cardinality(Running') \in Nat
    BY <2>2, Countable, FS_RemoveElement, FS_CardinalityType
  <2>4. TypeOK'
    <3>1. phase' \in [Submission -> Phase]
      BY <1>0, <2>1 DEF Phase
    <3>2. active' \in Nat
      BY <2>1, <2>3 DEF NothingLeaks
    <3> QED BY <2>1, <3>1, <3>2 DEF TurnEnds, TypeOK, lifecycle
  <2>5. TalksOK' /\ GatesOK' /\ OneTurnAtATime'
    <3>1. \A t \in Submission : Moves(t)
      BY <1>0, <2>1 DEF TurnEnds, Moves, Behind, Past
    <3> QED BY <2>4, <3>1, PhasesMove DEF TurnEnds
  <2>6. WaitersOK'
    BY <1>1, <2>1 DEF WaitersOK
  <2>7. NothingLeaks'
    BY <1>1, <2>1, <2>2, <2>3, LimitAssumption
       DEF TurnEnds, NothingLeaks, TypeOK, LimitAssumption
  <2>8. IdleOK' /\ QuietTeardown'
    BY <2>2 DEF TurnEnds, lifecycle, IdleOK, QuietTeardown
  <2> QED BY <2>4, <2>5, <2>6, <2>7, <2>8
<1>2. CASE waiters # <<>>
  <2> DEFINE h == Head(waiters)
  <2>1. /\ phase' = [phase EXCEPT ![s] = "leaving", ![h] = "running"]
        /\ active' = active
        /\ waiters' = Tail(waiters)
    BY <1>2 DEF TurnEnds, ReleaseSlot
  <2>2. /\ h \in Submission
        /\ phase[h] = "waiting"
        /\ waiters' \in Seq(Submission)
        /\ Len(waiters') = Len(waiters) - 1
        /\ \A i \in 1..Len(waiters') : /\ i + 1 \in 1..Len(waiters)
                                       /\ waiters'[i] = waiters[i + 1]
    <3>1. Len(waiters) \in Nat \ {0} /\ h = waiters[1]
      BY <1>0, <1>2
    <3>2. phase[h] = "waiting"
      BY <3>1 DEF WaitersOK, In
    <3>3. h \in Submission
      BY <1>0, <3>1
    <3> QED BY <1>0, <1>2, <2>1, <3>1, <3>2, <3>3
  <2> HIDE DEF h
  <2>3. phase'[s] = "leaving" /\ phase'[h] = "running"
        /\ \A t \in Submission \ {s, h} : phase'[t] = phase[t]
    BY <1>0, <2>1, <2>2
  <2>4. TypeOK'
    <3>1. phase' \in [Submission -> Phase]
      BY <1>0, <2>1, <2>2 DEF Phase
    <3> QED BY <2>1, <2>2, <3>1 DEF TurnEnds, TypeOK, lifecycle
  <2>5. TalksOK' /\ GatesOK' /\ OneTurnAtATime'
    <3>1. Moves(s)
      BY <1>0, <2>3 DEF TurnEnds, Moves, Behind, Past
    <3>2. Moves(h)
      BY <2>2, <2>3 DEF TurnEnds, Moves, Behind, Past
    <3>3. \A t \in Submission \ {s, h} : Moves(t)
      BY <2>3 DEF TurnEnds, Moves
    <3> QED BY <2>4, <3>1, <3>2, <3>3, PhasesMove DEF TurnEnds
  <2>6. WaitersOK'
    <3>1. ASSUME NEW i \in 1..Len(waiters')
          PROVE  phase'[waiters'[i]] = "waiting"
      <4>1. waiters'[i] \in Submission
        BY <2>2
      <4>2. waiters[i + 1] # h
        BY <1>0, <1>2, <2>2 DEF WaitersOK, h
      <4>3. phase[waiters[i + 1]] = "waiting"
        BY <2>2 DEF WaitersOK, In
      <4> QED BY <1>0, <2>2, <2>3, <4>1, <4>2, <4>3
    <3>2. \A i, j \in 1..Len(waiters') : waiters'[i] = waiters'[j] => i = j
      BY <1>0, <2>2 DEF WaitersOK
    <3> QED BY <3>1, <3>2 DEF WaitersOK, In
  <2>7. NothingLeaks'
    <3>1. /\ Running' = (Running \ {s}) \cup {h}
          /\ s \in Running /\ h \notin Running \ {s}
          /\ InProgress' = InProgress
      BY <1>0, <2>2, <2>3 DEF Running, InProgress, In
    <3>2. IsFiniteSet(Running \ {s}) /\ Cardinality(Running \ {s}) = Cardinality(Running) - 1
      BY <3>1, Countable, FS_RemoveElement
    <3>3. Cardinality(Running') = Cardinality(Running \ {s}) + 1
      BY <3>1, <3>2, FS_AddElement
    <3>4. Cardinality(Running') = Cardinality(Running)
      BY <3>2, <3>3, Countable
    <3> QED BY <1>2, <2>1, <3>1, <3>4 DEF TurnEnds, NothingLeaks
  <2>8. InProgress' = InProgress
    BY <1>0, <2>2, <2>3 DEF InProgress
  <2>9. IdleOK' /\ QuietTeardown'
    BY <2>8 DEF TurnEnds, lifecycle, IdleOK, QuietTeardown
  <2> QED BY <2>4, <2>5, <2>6, <2>7, <2>9
<1> QED BY <1>1, <1>2

LEMMA ReturnKeeps ==
  ASSUME Inv, NEW s \in Submission, Return(s)
  PROVE  Inv'
<1> USE DEF Inv
<1>0. phase[s] = "returning" /\ phase \in [Submission -> Phase]
  BY DEF Return, In, TypeOK
<1>1. phase' = [phase EXCEPT ![s] = "done"]
  BY DEF Return, Goto
<1>2. InProgress' = InProgress \ {s} /\ s \in InProgress /\ Running' = Running
  BY <1>0, <1>1 DEF InProgress, Running, In
<1>3. /\ Cardinality(InProgress') = Cardinality(InProgress) - 1
      /\ Cardinality(InProgress') \in Nat
      /\ IsFiniteSet(InProgress')
  BY <1>2, Countable, FS_RemoveElement, FS_CardinalityType
<1>4. pending' = pending - 1 /\ pending' = Cardinality(InProgress')
  BY <1>3 DEF Return, NothingLeaks
<1>5. TypeOK'
  <2>1. phase' \in [Submission -> Phase]
    BY <1>0, <1>1 DEF Phase
  <2>2. talk' \in [Submission -> Conversation \cup {NoConversation}]
    BY DEF Return, TypeOK
  <2>3. aborted' \in [Submission -> BOOLEAN]
    BY DEF Return, TypeOK
  <2>4. idle' \in BOOLEAN
    BY DEF Return, TypeOK
  <2>5. pending' \in Nat
    BY <1>3, <1>4
  <2> QED BY <2>1, <2>2, <2>3, <2>4, <2>5 DEF Return, TypeOK
<1>6. TalksOK' /\ GatesOK' /\ OneTurnAtATime'
  <2>1. Moves(s)
    BY <1>0, <1>1 DEF Moves, Behind, Past
  <2>2. \A t \in Submission \ {s} : Moves(t)
    BY <1>0, <1>1 DEF Return, Moves, TypeOK
  <2> QED BY <1>5, <2>1, <2>2, PhasesMove DEF Return
<1>7. WaitersOK'
  <2>1. \A i \in 1..Len(waiters) : waiters[i] \in Submission
    BY DEF TypeOK
  <2>2. \A i \in 1..Len(waiters) : phase'[waiters[i]] = "waiting"
    BY <1>0, <1>1, <2>1 DEF WaitersOK, In
  <2>3. waiters' = waiters
    BY DEF Return
  <2> QED BY <2>2, <2>3 DEF WaitersOK, In
<1>8. NothingLeaks'
  BY <1>2, <1>4 DEF Return, NothingLeaks
<1>9. IdleOK'
  <2>1. pending' = 0 => InProgress' = {}
    BY <1>3, <1>4, FS_EmptySet
  <2>2. InProgress = {} => InProgress' = {}
    BY <1>2
  <2> QED BY <2>1, <2>2 DEF Return, IdleOK
<1>10. QuietTeardown'
  BY <1>2 DEF Return, QuietTeardown
<1> QED BY <1>5, <1>6, <1>7, <1>8, <1>9, <1>10

---------------------------------------------------------------------------
(* Steps through the gates *)

LEMMA SubmitKeeps ==
  ASSUME Inv, NEW s \in Submission, NEW c \in Conversation, Submit(s, c)
  PROVE  Inv'
<1> USE DEF Inv
<1> DEFINE gate == [who |-> s, open |-> FALSE]
<1>0. phase[s] = "new" /\ phase \in [Submission -> Phase] /\ chain \in [Conversation -> Seq(Gate)]
  BY DEF Submit, In, TypeOK
<1>1. /\ phase' = [phase EXCEPT ![s] = "queued"]
      /\ talk' = [talk EXCEPT ![s] = c]
      /\ chain' = [chain EXCEPT ![c] = Append(chain[c], gate)]
  BY DEF Submit, Goto
<1>2. InProgress' = InProgress \cup {s} /\ s \notin InProgress /\ Running' = Running
  BY <1>0, <1>1 DEF InProgress, Running, In
<1>3. Cardinality(InProgress') = Cardinality(InProgress) + 1
  BY <1>2, Countable, FS_AddElement
<1>4. TypeOK'
  <2>1. gate \in Gate
    BY DEF Gate
  <2>2. chain' \in [Conversation -> Seq(Gate)]
    <3>1. Append(chain[c], gate) \in Seq(Gate)
      <4> HIDE DEF gate
      <4> QED BY <1>0, <2>1
    <3> HIDE DEF gate
    <3> QED BY <1>0, <1>1, <3>1
  <2>3. phase' \in [Submission -> Phase]
    BY <1>0, <1>1 DEF Phase
  <2>4. talk' \in [Submission -> Conversation \cup {NoConversation}]
    BY <1>1 DEF TypeOK
  <2>5. pending' \in Nat
    BY DEF Submit, TypeOK
  <2> QED BY <2>2, <2>3, <2>4, <2>5 DEF Submit, TypeOK, lifecycle
<1>5. TalksOK'
  BY <1>0, <1>1, <1>2 DEF TalksOK, TypeOK
<1>6. ASSUME NEW d \in Conversation, NEW i \in 1..Len(chain'[d])
      PROVE  \/ /\ i \in 1..Len(chain[d])
                /\ chain'[d][i] = chain[d][i]
                /\ chain[d][i] \in Gate
                /\ chain[d][i].who # s
             \/ d = c /\ i = Len(chain[c]) + 1 /\ chain'[d][i] = gate
  <2>1. chain[d] \in Seq(Gate) /\ chain[c] \in Seq(Gate)
    BY <1>0
  <2>2. \A k \in 1..Len(chain[d]) : chain[d][k] \in Gate /\ chain[d][k].who # s
    BY <1>0, <2>1 DEF GatesOK
  <2>3. CASE d # c
    BY <1>0, <1>1, <2>2, <2>3
  <2>4. CASE d = c
    <3>1. chain'[c] = Append(chain[c], gate)
      BY <1>0, <1>1
    <3> HIDE DEF gate
    <3> QED BY <2>1, <2>2, <2>4, <3>1
  <2> QED BY <2>3, <2>4
<1>7. GatesOK'
  <2> SUFFICES ASSUME NEW d \in Conversation, NEW i \in 1..Len(chain'[d])
               PROVE  LET g == chain'[d][i] IN
                      IF g.open
                      THEN phase'[g.who] \in {"returning", "done"}
                      ELSE /\ phase'[g.who] \in {"queued", "waiting", "running", "leaving"}
                           /\ talk'[g.who] = d
    BY DEF GatesOK
  <2>1. CASE /\ i \in 1..Len(chain[d])
             /\ chain'[d][i] = chain[d][i]
             /\ chain[d][i] \in Gate
             /\ chain[d][i].who # s
    <3>1. LET g == chain[d][i] IN phase'[g.who] = phase[g.who] /\ talk'[g.who] = talk[g.who]
      BY <1>0, <1>1, <2>1 DEF Gate, TypeOK
    <3> QED BY <2>1, <3>1 DEF GatesOK
  <2>2. CASE d = c /\ i = Len(chain[c]) + 1 /\ chain'[d][i] = gate
    BY <1>0, <1>1, <2>2 DEF TypeOK
  <2> QED BY <1>6, <2>1, <2>2
<1>8. OneTurnAtATime'
  <2> SUFFICES ASSUME NEW d \in Conversation,
                      NEW i \in 1..Len(chain'[d]), NEW j \in 1..Len(chain'[d]), i < j,
                      phase'[chain'[d][j].who] \in {"waiting", "running"}
               PROVE  chain'[d][i].open
    BY DEF OneTurnAtATime
  <2>1. phase'[s] = "queued"
    BY <1>0, <1>1
  <2>2. j \in 1..Len(chain[d]) /\ chain'[d][j] = chain[d][j] /\ chain[d][j] \in Gate
    BY <1>6, <2>1
  <2>3. phase'[chain[d][j].who] = phase[chain[d][j].who]
    BY <1>0, <1>1, <1>6, <2>1, <2>2 DEF Gate
  <2>4. Len(chain[d]) \in Nat
    BY <1>0
  <2>5. i \in 1..Len(chain[d]) /\ chain'[d][i] = chain[d][i]
    BY <1>6, <2>2, <2>4
  <2> QED BY <2>2, <2>3, <2>5 DEF OneTurnAtATime
<1>9. WaitersOK'
  <2>1. \A i \in 1..Len(waiters) : waiters[i] \in Submission
    BY DEF TypeOK
  <2>2. \A i \in 1..Len(waiters) : phase'[waiters[i]] = "waiting"
    BY <1>0, <1>1, <2>1 DEF WaitersOK, In
  <2>3. waiters' = waiters
    BY DEF Submit
  <2> QED BY <2>2, <2>3 DEF WaitersOK, In
<1>10. NothingLeaks'
  BY <1>2, <1>3 DEF Submit, NothingLeaks, TypeOK
<1>11. IdleOK' /\ QuietTeardown'
  BY DEF Submit, lifecycle, IdleOK, QuietTeardown
<1> QED BY <1>4, <1>5, <1>7, <1>8, <1>9, <1>10, <1>11

LEMMA LeaveTailKeeps ==
  ASSUME Inv, NEW s \in Submission, LeaveTail(s)
  PROVE  Inv'
<1> USE DEF Inv
<1>0. /\ phase[s] = "leaving" /\ phase \in [Submission -> Phase]
      /\ chain \in [Conversation -> Seq(Gate)]
  BY DEF LeaveTail, In, TypeOK
<1>1. phase' = [phase EXCEPT ![s] = "returning"]
  BY DEF LeaveTail, Goto
<1> DEFINE c == talk[s]
           opened == [i \in 1..Len(chain[c]) |->
                        IF chain[c][i].who = s THEN [chain[c][i] EXCEPT !.open = TRUE]
                                               ELSE chain[c][i]]
<1>2. c \in Conversation
  BY <1>0 DEF TalksOK, InProgress
<1>3. chain' = [chain EXCEPT ![c] = Shut(opened)]
  BY <1>0, <1>2 DEF LeaveTail, OpenGate
<1>4. /\ opened \in Seq(Gate)
      /\ Len(opened) = Len(chain[c])
      /\ \A i \in 1..Len(chain[c]) :
           /\ chain[c][i] \in Gate
           /\ opened[i].who = chain[c][i].who
           /\ opened[i].open \in BOOLEAN
           /\ IF chain[c][i].who = s THEN opened[i].open ELSE opened[i] = chain[c][i]
  <2>1. chain[c] \in Seq(Gate)
    BY <1>0, <1>2
  <2>2. ASSUME NEW i \in 1..Len(chain[c])
        PROVE  /\ chain[c][i] \in Gate
               /\ opened[i] \in Gate
               /\ opened[i].who = chain[c][i].who
               /\ opened[i].open \in BOOLEAN
               /\ IF chain[c][i].who = s THEN opened[i].open ELSE opened[i] = chain[c][i]
    <3>1. chain[c][i] \in Gate
      BY <2>1
    <3>2. CASE chain[c][i].who = s
      <4>1. opened[i] = [chain[c][i] EXCEPT !.open = TRUE]
        BY <3>2
      <4> HIDE DEF opened
      <4> QED BY <3>1, <3>2, <4>1 DEF Gate
    <3>3. CASE chain[c][i].who # s
      <4>1. opened[i] = chain[c][i]
        BY <3>3
      <4> HIDE DEF opened
      <4> QED BY <3>1, <3>3, <4>1 DEF Gate
    <3> QED BY <3>2, <3>3
  <2>3. Len(chain[c]) \in Nat
    BY <2>1
  <2>4. opened \in [1..Len(chain[c]) -> Gate]
    BY <2>2
  <2>5. opened \in Seq(Gate) /\ Len(opened) = Len(chain[c])
    <3> HIDE DEF opened
    <3> QED BY <2>3, <2>4, IsASeq, LenProperties
  <2> QED BY <2>2, <2>5
<1> HIDE DEF opened
<1>5. PICK n \in Nat :
        /\ Shut(opened) \in Seq(Gate)
        /\ Len(Shut(opened)) = Len(opened) - n
        /\ \A i \in 1..Len(Shut(opened)) : /\ n + i \in 1..Len(opened)
                                           /\ Shut(opened)[i] = opened[n + i]
  <2>1. opened \in Seq(Gate)
    BY <1>4
  <2> QED BY <2>1, ShutGates
<1>6. /\ chain'[c] \in Seq(Gate)
      /\ \A i \in 1..Len(chain'[c]) : /\ n + i \in 1..Len(chain[c])
                                      /\ chain'[c][i] = opened[n + i]
  BY <1>0, <1>2, <1>3, <1>4, <1>5
<1>7. \A d \in Conversation : d # c => chain'[d] = chain[d]
  BY <1>0, <1>3
<1>8. TypeOK'
  <2>1. phase' \in [Submission -> Phase]
    BY <1>0, <1>1 DEF Phase
  <2>2. chain' \in [Conversation -> Seq(Gate)]
    BY <1>0, <1>2, <1>3, <1>5
  <2> QED BY <2>1, <2>2 DEF LeaveTail, TypeOK, limits, lifecycle
<1>9. InProgress' = InProgress /\ Running' = Running
  BY <1>0, <1>1 DEF InProgress, Running, In
<1>10. TalksOK' /\ talk' = talk
  BY <1>9 DEF LeaveTail, TalksOK
<1>11. GatesOK'
  <2> SUFFICES ASSUME NEW d \in Conversation, NEW i \in 1..Len(chain'[d])
               PROVE  LET g == chain'[d][i] IN
                      IF g.open
                      THEN phase'[g.who] \in {"returning", "done"}
                      ELSE /\ phase'[g.who] \in {"queued", "waiting", "running", "leaving"}
                           /\ talk[g.who] = d
    BY <1>10 DEF GatesOK
  <2>1. CASE d # c
    <3>1. chain'[d] = chain[d] /\ chain[d] \in Seq(Gate)
      BY <1>0, <1>7, <2>1
    <3>2. chain[d][i] \in Gate /\ i \in 1..Len(chain[d])
      BY <3>1
    <3>3. chain[d][i].who # s
      BY <1>0, <2>1, <3>2 DEF GatesOK
    <3>4. phase'[chain[d][i].who] = phase[chain[d][i].who]
      BY <1>0, <1>1, <3>2, <3>3 DEF Gate
    <3> QED BY <3>1, <3>2, <3>4 DEF GatesOK
  <2>2. CASE d = c
    <3> DEFINE k == n + i
    <3>1. k \in 1..Len(chain[c]) /\ chain'[c][i] = opened[k]
      BY <1>6, <2>2
    <3> HIDE DEF k
    <3>2. /\ chain[c][k] \in Gate
          /\ opened[k].who = chain[c][k].who
          /\ IF chain[c][k].who = s THEN opened[k].open ELSE opened[k] = chain[c][k]
      BY <1>4, <3>1
    <3>3. CASE chain[c][k].who = s
      BY <1>0, <1>1, <2>2, <3>1, <3>2, <3>3
    <3>4. CASE chain[c][k].who # s
      <4>1. phase'[chain[c][k].who] = phase[chain[c][k].who]
        BY <1>0, <1>1, <3>2, <3>4 DEF Gate
      <4> QED BY <1>2, <2>2, <3>1, <3>2, <3>4, <4>1 DEF GatesOK
    <3> QED BY <3>3, <3>4
  <2> QED BY <2>1, <2>2
<1>12. OneTurnAtATime'
  <2> SUFFICES ASSUME NEW d \in Conversation,
                      NEW i \in 1..Len(chain'[d]), NEW j \in 1..Len(chain'[d]), i < j,
                      phase'[chain'[d][j].who] \in {"waiting", "running"}
               PROVE  chain'[d][i].open
    BY DEF OneTurnAtATime
  <2>1. ASSUME NEW r \in Submission, phase'[r] \in {"waiting", "running"}
        PROVE  phase[r] = phase'[r]
    BY <1>0, <1>1, <2>1
  <2>2. CASE d # c
    <3>1. chain'[d] = chain[d] /\ chain[d] \in Seq(Gate)
      BY <1>0, <1>7, <2>2
    <3>2. chain[d][j] \in Gate
      BY <3>1
    <3> QED BY <2>1, <3>1, <3>2 DEF OneTurnAtATime, Gate
  <2>3. CASE d = c
    <3>1. /\ n + i \in 1..Len(chain[c]) /\ chain'[c][i] = opened[n + i]
          /\ n + j \in 1..Len(chain[c]) /\ chain'[c][j] = opened[n + j]
          /\ n + i < n + j
      BY <1>6, <2>3
    <3>2. chain[c][n + j] \in Gate /\ opened[n + j].who = chain[c][n + j].who
      BY <1>4, <3>1
    <3>3. phase[chain[c][n + j].who] \in {"waiting", "running"}
      BY <2>1, <2>3, <3>1, <3>2 DEF Gate
    <3>4. chain[c][n + i].open
      BY <1>2, <3>1, <3>3 DEF OneTurnAtATime
    <3>5. IF chain[c][n + i].who = s THEN opened[n + i].open ELSE opened[n + i] = chain[c][n + i]
      BY <1>4, <3>1
    <3> QED BY <2>3, <3>1, <3>4, <3>5
  <2> QED BY <2>2, <2>3
<1>13. WaitersOK'
  <2>1. \A i \in 1..Len(waiters) : waiters[i] \in Submission
    BY DEF TypeOK
  <2>2. \A i \in 1..Len(waiters) : phase'[waiters[i]] = "waiting"
    BY <1>0, <1>1, <2>1 DEF WaitersOK, In
  <2>3. waiters' = waiters
    BY DEF LeaveTail, limits
  <2> QED BY <2>2, <2>3 DEF WaitersOK, In
<1>14. NothingLeaks' /\ IdleOK' /\ QuietTeardown'
  BY <1>9 DEF LeaveTail, limits, lifecycle, NothingLeaks, IdleOK, QuietTeardown
<1> QED BY <1>8, <1>10, <1>11, <1>12, <1>13, <1>14

---------------------------------------------------------------------------
(* Aborts, drain and stop *)

\* The sequence that is left when one waiter withdraws.
LEMMA Removed ==
  ASSUME NEW S, NEW q \in Seq(S), NEW i \in 1..Len(q)
  PROVE  /\ RemoveAt(q, i) \in Seq(S)
         /\ Len(RemoveAt(q, i)) = Len(q) - 1
         /\ \A j \in 1..Len(RemoveAt(q, i)) :
              RemoveAt(q, i)[j] = IF j < i THEN q[j] ELSE q[j + 1]
<1> DEFINE front == SubSeq(q, 1, i - 1)
           back == SubSeq(q, i + 1, Len(q))
<1>1. Len(q) \in Nat /\ i \in Nat
  OBVIOUS
<1>2. /\ front \in Seq(S) /\ Len(front) = i - 1
      /\ \A j \in 1..(i - 1) : front[j] = q[j]
  BY <1>1
<1>3. /\ back \in Seq(S) /\ Len(back) = Len(q) - i
      /\ \A j \in 1..(Len(q) - i) : back[j] = q[i + j]
  BY <1>1
<1>4. RemoveAt(q, i) = front \o back
  BY DEF RemoveAt
<1> HIDE DEF front, back
<1>5. /\ front \o back \in Seq(S)
      /\ Len(front \o back) = Len(front) + Len(back)
      /\ \A j \in 1..(Len(front) + Len(back)) :
           (front \o back)[j] = IF j <= Len(front) THEN front[j] ELSE back[j - Len(front)]
  BY <1>2, <1>3, ConcatProperties
<1>6. Len(RemoveAt(q, i)) = Len(q) - 1
  BY <1>1, <1>2, <1>3, <1>4, <1>5
<1>7. ASSUME NEW j \in 1..(Len(q) - 1)
      PROVE  RemoveAt(q, i)[j] = IF j < i THEN q[j] ELSE q[j + 1]
  <2>1. CASE j < i
    BY <1>1, <1>2, <1>3, <1>4, <1>5, <2>1
  <2>2. CASE ~(j < i)
    <3>1. j - (i - 1) \in 1..(Len(q) - i) /\ i + (j - (i - 1)) = j + 1
      BY <1>1, <2>2
    <3>2. back[j - (i - 1)] = q[j + 1]
      BY <1>3, <3>1
    <3> QED BY <1>1, <1>2, <1>3, <1>4, <1>5, <2>2, <3>2
  <2> QED BY <2>1, <2>2
<1> QED BY <1>4, <1>5, <1>6, <1>7

LEMMA AbortKeeps ==
  ASSUME Inv, NEW s \in Submission, Abort(s)
  PROVE  Inv'
<1> USE DEF Inv
<1>0. phase \in [Submission -> Phase] /\ waiters \in Seq(Submission)
  BY DEF TypeOK
<1>1. aborted' \in [Submission -> BOOLEAN]
  BY DEF Abort, TypeOK
<1>2. CASE ~In(s, "waiting")
  <2>1. UNCHANGED <<phase, waiters>>
    BY <1>2 DEF Abort, Withdraw
  <2>2. TypeOK'
    BY <1>1, <2>1 DEF Abort, TypeOK, lifecycle
  <2>3. TalksOK' /\ GatesOK' /\ OneTurnAtATime' /\ WaitersOK'
    BY <2>1 DEF Abort, TalksOK, InProgress, GatesOK, OneTurnAtATime, WaitersOK, In
  <2>4. InProgress' = InProgress /\ Running' = Running
    BY <2>1 DEF InProgress, Running, In
  <2>5. NothingLeaks' /\ IdleOK' /\ QuietTeardown'
    BY <2>1, <2>4 DEF Abort, lifecycle, NothingLeaks, IdleOK, QuietTeardown
  <2> QED BY <2>2, <2>3, <2>5
<1>3. CASE In(s, "waiting")
  <2>1. PICK i \in 1..Len(waiters) : waiters[i] = s /\ waiters' = RemoveAt(waiters, i)
    BY <1>3 DEF Abort, Withdraw
  <2>2. phase[s] = "waiting" /\ phase' = [phase EXCEPT ![s] = "leaving"]
    BY <1>3 DEF Abort, Withdraw, Goto, In
  <2>3. /\ waiters' \in Seq(Submission)
        /\ Len(waiters') = Len(waiters) - 1
        /\ \A j \in 1..Len(waiters') : waiters'[j] = IF j < i THEN waiters[j] ELSE waiters[j + 1]
    BY <1>0, <2>1, Removed
  <2>4. Len(waiters) \in Nat
    BY <1>0
  <2>5. TypeOK'
    <3>1. phase' \in [Submission -> Phase]
      BY <1>0, <2>2 DEF Phase
    <3> QED BY <1>1, <2>3, <3>1 DEF Abort, TypeOK, lifecycle
  <2>6. TalksOK' /\ GatesOK' /\ OneTurnAtATime'
    <3>1. \A t \in Submission : Moves(t)
      BY <1>0, <2>2 DEF Abort, Moves, Behind, Past
    <3> QED BY <2>5, <3>1, PhasesMove DEF Abort
  <2>7. WaitersOK'
    <3> DEFINE from(j) == IF j < i THEN j ELSE j + 1
    <3>1. ASSUME NEW j \in 1..Len(waiters')
          PROVE  from(j) \in 1..Len(waiters) /\ from(j) # i /\ waiters'[j] = waiters[from(j)]
      BY <2>3, <2>4
    <3>2. ASSUME NEW j \in 1..Len(waiters'), NEW k \in 1..Len(waiters'), from(j) = from(k)
          PROVE  j = k
      BY <2>3, <2>4, <3>2
    <3> HIDE DEF from
    <3>3. ASSUME NEW j \in 1..Len(waiters')
          PROVE  phase'[waiters'[j]] = "waiting"
      <4>1. waiters[from(j)] # s
        BY <2>1, <3>1 DEF WaitersOK
      <4>2. phase[waiters[from(j)]] = "waiting"
        BY <3>1 DEF WaitersOK, In
      <4>3. waiters[from(j)] \in Submission
        BY <1>0, <3>1
      <4> QED BY <1>0, <2>2, <3>1, <4>1, <4>2, <4>3
    <3>4. ASSUME NEW j \in 1..Len(waiters'), NEW k \in 1..Len(waiters'),
                 waiters'[j] = waiters'[k]
          PROVE  j = k
      BY <3>1, <3>2, <3>4 DEF WaitersOK
    <3> QED BY <3>3, <3>4 DEF WaitersOK, In
  <2>8. InProgress' = InProgress /\ Running' = Running
    BY <1>0, <2>2 DEF InProgress, Running, In
  <2>9. waiters # <<>>
    BY <1>0, <2>1
  <2>10. NothingLeaks' /\ IdleOK' /\ QuietTeardown'
    BY <2>8, <2>9 DEF Abort, lifecycle, NothingLeaks, IdleOK, QuietTeardown
  <2> QED BY <2>5, <2>6, <2>7, <2>10
<1> QED BY <1>2, <1>3

\* The host's abort takes every waiter out of the semaphore's queue.
LEMMA HostAbortKeeps ==
  ASSUME Inv, WithdrawAll, hostAbort' = TRUE, host' \in {"drained", "stopped"},
         UNCHANGED <<talk, aborted, chain, active, pending, idle>>
  PROVE  Inv'
<1> USE DEF Inv
<1>0. phase \in [Submission -> Phase]
  BY DEF TypeOK
<1>1. /\ waiters' = <<>>
      /\ phase' = [t \in Submission |-> IF phase[t] = "waiting" THEN "leaving" ELSE phase[t]]
  BY DEF WithdrawAll, In
<1>2. TypeOK'
  <2>1. phase' \in [Submission -> Phase]
    BY <1>0, <1>1 DEF Phase
  <2>2. waiters' \in Seq(Submission)
    BY <1>1
  <2> QED BY <2>1, <2>2 DEF TypeOK
<1>3. TalksOK' /\ GatesOK' /\ OneTurnAtATime'
  <2>1. \A t \in Submission : Moves(t)
    BY <1>0, <1>1 DEF Moves, Behind, Past
  <2> QED BY <1>2, <2>1, PhasesMove
<1>4. WaitersOK'
  BY <1>1 DEF WaitersOK
<1>5. InProgress' = InProgress /\ Running' = Running
  BY <1>0, <1>1 DEF InProgress, Running, In
<1>6. NothingLeaks' /\ IdleOK' /\ QuietTeardown'
  BY <1>1, <1>5 DEF NothingLeaks, IdleOK, QuietTeardown
<1> QED BY <1>2, <1>3, <1>4, <1>6

LEMMA LifecycleKeeps ==
  ASSUME Inv, Drain \/ DrainIdle
  PROVE  Inv'
<1> USE DEF Inv
<1>1. UNCHANGED <<phase, talk, aborted, chain, active, waiters, pending, hostAbort>>
  BY DEF Drain, DrainIdle, limits
<1>2. TypeOK'
  <2>1. idle' \in BOOLEAN /\ host' \in {"draining", "drained"}
    BY DEF Drain, DrainIdle, TypeOK
  <2> QED BY <1>1, <2>1 DEF TypeOK
<1>3. TalksOK' /\ GatesOK' /\ OneTurnAtATime' /\ WaitersOK'
  BY <1>1 DEF TalksOK, InProgress, GatesOK, OneTurnAtATime, WaitersOK, In
<1>4. InProgress' = InProgress /\ Running' = Running
  BY <1>1 DEF InProgress, Running, In
<1>5. NothingLeaks'
  BY <1>1, <1>4 DEF NothingLeaks
<1>6. pending = 0 => InProgress = {}
  BY Countable, FS_EmptySet DEF NothingLeaks
<1>7. IdleOK' /\ QuietTeardown'
  BY <1>1, <1>4, <1>6 DEF Drain, DrainIdle, IdleOK, QuietTeardown
<1> QED BY <1>2, <1>3, <1>5, <1>7

LEMMA NextInv == Inv /\ [Next]_vars => Inv'
<1> SUFFICES ASSUME Inv, [Next]_vars PROVE Inv'
  OBVIOUS
<1>1. ASSUME NEW s \in Submission, NEW c \in Conversation, Submit(s, c) PROVE Inv'
  BY <1>1, SubmitKeeps
<1>2. ASSUME NEW s \in Submission, Acquire(s) PROVE Inv'
  BY <1>2, AcquireKeeps
<1>3. ASSUME NEW s \in Submission, GiveUp(s) PROVE Inv'
  BY <1>3, GiveUpKeeps
<1>4. ASSUME NEW s \in Submission, TurnEnds(s) PROVE Inv'
  BY <1>4, TurnEndsKeeps
<1>5. ASSUME NEW s \in Submission, LeaveTail(s) PROVE Inv'
  BY <1>5, LeaveTailKeeps
<1>6. ASSUME NEW s \in Submission, Return(s) PROVE Inv'
  BY <1>6, ReturnKeeps
<1>7. ASSUME NEW s \in Submission, Abort(s) PROVE Inv'
  BY <1>7, AbortKeeps
<1>8. CASE Drain \/ DrainIdle
  BY <1>8, LifecycleKeeps
<1>9. CASE DrainTimesOut \/ Stop
  BY <1>9, HostAbortKeeps DEF DrainTimesOut, Stop
<1>10. CASE UNCHANGED vars
  <2>1. InProgress' = InProgress /\ Running' = Running
    BY <1>10 DEF vars, InProgress, Running, In
  <2> QED BY <1>10, <2>1
       DEF vars, limits, lifecycle, Inv, TypeOK, TalksOK, GatesOK, OneTurnAtATime, WaitersOK,
           NothingLeaks, IdleOK, QuietTeardown, In
<1> QED BY <1>1, <1>2, <1>3, <1>4, <1>5, <1>6, <1>7, <1>8, <1>9, <1>10
     DEF Next, SubmissionStep

---------------------------------------------------------------------------
(* Theorems *)

\* The invariant holds in every reachable state: what gates, queue, counts and
\* the lifecycle owe one another (ConversationTails, TurnSemaphore, #drainInternal).
THEOREM Invariance == Spec => []Inv
<1> QED BY InitInv, NextInv, PTL DEF Spec

\* Phases, gates, slots and counts stay within their types: no count goes below
\* zero, however submissions, aborts and the stop of the host interleave.
THEOREM TypeCorrect == Spec => []TypeOK
<1>1. Inv => TypeOK
  BY DEF Inv
<1> QED BY <1>1, Invariance, PTL

\* One turn of a conversation runs at a time and in order, with any number of
\* submissions aborted at any of their waits (ConversationTails.run).
THEOREM TurnsInOrder == Spec => []OneTurnAtATime
<1>1. Inv => OneTurnAtATime
  BY DEF Inv
<1> QED BY <1>1, Invariance, PTL

\* Slots and pending counts are exact, whatever is aborted while it waits, runs or
\* is handed a slot (TurnSemaphore.acquire and #release, #submitRequest).
THEOREM CountsAreExact == Spec => []NothingLeaks
<1>1. Inv => NothingLeaks
  BY DEF Inv
<1> QED BY <1>1, Invariance, PTL

\* Modules are not torn down under a turn that was not aborted (#drainInternal).
THEOREM TeardownIsQuiet == Spec => []QuietTeardown
<1>1. Inv => QuietTeardown
  BY DEF Inv
<1> QED BY <1>1, Invariance, PTL
=============================================================================
