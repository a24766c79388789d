----------------------------- MODULE SlackProofs -----------------------------
(***************************************************************************)
(* The Slack channel and its inbox, for any envelopes, processes and       *)
(* bounds of the file: one process serves, a worker owns the entry it is   *)
(* on, what was acknowledged is kept, and nothing is repeated blindly.     *)
(*                                                                         *)
(* None of the four is inductive.  Inv says beside them who holds the      *)
(* lease in which mode of life (LeaseOK, Modes), that a process serving    *)
(* without a failed write knows the file and each of its workers' entries  *)
(* is processing in that worker's lane (Server), and what an entry or a    *)
(* receipt says of the last attempt of its envelope (Recalls).  A receipt  *)
(* must be as old as the completions since then: without that count its    *)
(* loss at the cap could not be told from a loss too early.                *)
(*                                                                         *)
(* Every step is one of four kinds, and what it must respect is proved     *)
(* once for the kind: a worker leaves its entry or moves on it (Moves), or *)
(* stands where it has none (IdleStep), the lifecycle turns without        *)
(* touching the file (Turns), a process leaves (Leaves).  Admission, the   *)
(* claim and the requeue are argued for by themselves.                     *)
(***************************************************************************)
EXTENDS SlackChannel, FiniteSetTheorems, SequenceTheorems, WellFoundedInduction,
        TLAPS

---------------------------------------------------------------------------
(* A state of the inbox as a set of rows                                   *)

Rows(s) == ToSet(s.entries)
Row(e, status, lane) == [env |-> e, status |-> status, lane |-> lane]

\* What validateState demands, without counting: no envelope, receipt or lane twice.
Distinct(s) ==
  /\ \A i, j \in DOMAIN s.entries : s.entries[i].env = s.entries[j].env => i = j
  /\ \A i, j \in DOMAIN s.entries :
       s.entries[i].lane = s.entries[j].lane /\ s.entries[i].lane # "none" => i = j
  /\ \A i, j \in DOMAIN s.receipts : s.receipts[i] = s.receipts[j] => i = j
  /\ Entered(s) \cap Received(s) = {}

Bounded(s) == Len(s.entries) <= MaxEntries /\ Len(s.receipts) <= MaxReceipts

Inbox ==
  {s \in [entries : Seq(Entry), receipts : Seq(Envelope)] : Bounded(s) /\ Distinct(s)}

LEMMA RowFacts ==
  ASSUME NEW s \in Inbox
  PROVE  /\ Rows(s) \subseteq Entry
         /\ Entered(s) = {r.env : r \in Rows(s)}
         /\ \A r1, r2 \in Rows(s) : r1.env = r2.env => r1 = r2
         /\ \A r1, r2 \in Rows(s) : r1.lane = r2.lane /\ r1.lane # "none" => r1 = r2
         /\ \A e : e \in Processing(s) <=> \E r \in Rows(s) : r.env = e /\ r.status = "processing"
         /\ \A e : e \in Pending(s) <=> \E r \in Rows(s) : r.env = e /\ r.status = "pending"
         /\ Entered(s) \subseteq Envelope /\ Received(s) \subseteq Envelope
         /\ Entered(s) \cap Received(s) = {}
<1>1. s.entries \in Seq(Entry) /\ s.receipts \in Seq(Envelope) /\ Distinct(s)
  BY DEF Inbox
<1>2. \A i \in DOMAIN s.entries : s.entries[i] \in Entry
  BY <1>1
<1>3. \A i \in DOMAIN s.receipts : s.receipts[i] \in Envelope
  BY <1>1
<1>4. Rows(s) \subseteq Entry
  BY <1>2 DEF Rows, ToSet
<1>5. Entered(s) = {r.env : r \in Rows(s)}
  BY DEF Entered, Rows, ToSet
<1>6. /\ \A r1, r2 \in Rows(s) : r1.env = r2.env => r1 = r2
      /\ \A r1, r2 \in Rows(s) : r1.lane = r2.lane /\ r1.lane # "none" => r1 = r2
  BY <1>1 DEF Distinct, Rows, ToSet
<1>7. \A e : e \in Processing(s) <=> \E r \in Rows(s) : r.env = e /\ r.status = "processing"
  BY DEF Processing, WithStatus, Rows, ToSet
<1>8. \A e : e \in Pending(s) <=> \E r \in Rows(s) : r.env = e /\ r.status = "pending"
  BY DEF Pending, WithStatus, Rows, ToSet
<1>9. Entered(s) \subseteq Envelope
  BY <1>4, <1>5 DEF Entry
<1>10. Received(s) \subseteq Envelope
  BY <1>3 DEF Received, ToSet
<1> QED BY <1>1, <1>4, <1>5, <1>6, <1>7, <1>8, <1>9, <1>10 DEF Distinct

\* Outside the envelopes E nothing has changed.
Elsewhere(E, s, t) == \A r \in Entry : r.env \notin E => (r \in Rows(s) <=> r \in Rows(t))

LEMMA LeastExists ==
  ASSUME NEW S, S \subseteq Nat, S # {}
  PROVE  \E x \in S : \A y \in S : x <= y
<1> DEFINE R == {p \in Nat \X Nat : p[1] < p[2]}
<1>1. IsWellFoundedOn(R, Nat)
  BY NatLessThanWellFounded, Zenon DEF OpToRel
<1>2. PICK x \in S : \A y \in S : ~(<<y, x>> \in R)
  BY <1>1, WFMin, Zenon
<1>3. ASSUME NEW y \in S PROVE x <= y
  <2>1. y \in Nat /\ x \in Nat /\ ~(y < x)
    BY <1>2
  <2> QED BY <2>1
<1> QED BY <1>3

---------------------------------------------------------------------------
(* What the operations write                                               *)

LEMMA EnqueueWrites ==
  ASSUME NEW s \in Inbox, NEW e \in Envelope, ~EnqueueRefused(e, s), NEW t \in Enqueue(e, s)
  PROVE  /\ t \in Inbox
         /\ Elsewhere({e}, s, t) /\ Row(e, "pending", "none") \in Rows(t)
         /\ e \notin Entered(s) \cup Received(s)
         /\ t.receipts = s.receipts
<1> DEFINE r == Row(e, "pending", "none")
           es == s.entries
           ts == Append(es, r)
<1>1. ~Duplicate(e, s) /\ t = [s EXCEPT !.entries = ts]
  BY DEF Enqueue, Row
<1>2. /\ s \in [entries : Seq(Entry), receipts : Seq(Envelope)]
      /\ Len(es) < MaxEntries /\ Len(s.receipts) <= MaxReceipts /\ Distinct(s)
  <2>1. s \in [entries : Seq(Entry), receipts : Seq(Envelope)] /\ Bounded(s) /\ Distinct(s)
    BY DEF Inbox
  <2>2. Len(es) \in Nat /\ MaxEntries \in Nat
    BY <2>1, InboxAssumption DEF InboxAssumption
  <2> QED BY <1>1, <2>1, <2>2 DEF EnqueueRefused, Bounded
<1>3. r \in Entry /\ r.env = e /\ r.lane = "none"
  BY DEF Entry, Row
<1> HIDE DEF r
<1>4. /\ ts \in Seq(Entry) /\ Len(ts) = Len(es) + 1 /\ DOMAIN ts = 1..(Len(es) + 1)
      /\ DOMAIN es = 1..Len(es) /\ Len(es) \in Nat
      /\ ts[Len(es) + 1] = r /\ \A i \in DOMAIN es : ts[i] = es[i]
  BY <1>2, <1>3
<1> HIDE DEF ts
<1>5. t.entries = ts /\ t.receipts = s.receipts
      /\ t \in [entries : Seq(Entry), receipts : Seq(Envelope)]
  BY <1>1, <1>2, <1>4
<1> HIDE DEF es
<1>6. Rows(t) = Rows(s) \cup {r}
  <2>1. Rows(t) = {ts[i] : i \in DOMAIN ts} /\ Rows(s) = {es[i] : i \in DOMAIN es}
    BY <1>5 DEF Rows, ToSet, es
  <2> QED BY <1>4, <2>1
<1>7. Entered(s) = {es[i].env : i \in DOMAIN es} /\ Entered(t) = {ts[i].env : i \in DOMAIN ts}
  BY <1>5 DEF Entered, es
<1>8. Received(t) = Received(s)
  BY <1>5 DEF Received
<1>9. Distinct(t)
  <2>1. e \notin Entered(s) /\ e \notin Received(s)
    BY <1>1 DEF Duplicate
  <2>2. Entered(t) = Entered(s) \cup {e}
    BY <1>3, <1>4, <1>7
  <2>3. ASSUME NEW i \in DOMAIN ts, NEW j \in DOMAIN ts, ts[i].env = ts[j].env PROVE i = j
    BY <1>2, <1>3, <1>4, <1>7, <2>1, <2>3 DEF Distinct, es
  <2>4. ASSUME NEW i \in DOMAIN ts, NEW j \in DOMAIN ts, ts[i].lane = ts[j].lane,
               ts[i].lane # "none"
        PROVE  i = j
    BY <1>2, <1>3, <1>4, <2>4 DEF Distinct, es
  <2> QED BY <1>2, <1>5, <1>8, <2>1, <2>2, <2>3, <2>4 DEF Distinct
<1>10. Bounded(t)
  BY <1>2, <1>4, <1>5, InboxAssumption DEF Bounded, InboxAssumption
<1> QED BY <1>1, <1>3, <1>5, <1>6, <1>9, <1>10 DEF Inbox, Elsewhere, Duplicate, r

LEMMA SequenceOf ==
  ASSUME NEW S, NEW n \in Nat, NEW f, f = [i \in 1..n |-> f[i]], \A i \in 1..n : f[i] \in S
  PROVE  f \in Seq(S) /\ Len(f) = n /\ DOMAIN f = 1..n
<1>1. f \in [1..n -> S]
  OBVIOUS
<1> QED BY <1>1

LEMMA MarkedRow ==
  ASSUME NEW r \in [env : Envelope, status : {"pending", "processing", "failed"},
                    lane : Lane \cup {"none"}],
         NEW status, NEW lane
  PROVE  [r EXCEPT !.status = status, !.lane = lane] = Row(r.env, status, lane)
<1> DEFINE m == [r EXCEPT !.status = status]
<1>1. m = [env |-> r.env, status |-> status, lane |-> r.lane]
  OBVIOUS
<1>2. [m EXCEPT !.lane = lane] = Row(r.env, status, lane)
  <2> HIDE DEF m
  <2> QED BY <1>1 DEF Row
<1>3. [r EXCEPT !.status = status, !.lane = lane] = [m EXCEPT !.lane = lane]
  OBVIOUS
<1> QED BY <1>2, <1>3

\* What MarkAll makes of a row.
Marked(envs, status, lane, r) == IF r.env \in envs THEN Row(r.env, status, lane) ELSE r

LEMMA MarkAllWrites ==
  ASSUME NEW s \in Inbox, NEW envs, NEW status \in {"pending", "processing", "failed"},
         NEW lane \in Lane \cup {"none"}, status = "processing" <=> lane # "none",
         lane # "none" => /\ \A i \in DOMAIN s.entries : s.entries[i].lane # lane
                          /\ \A e, f \in envs : e = f
  PROVE  LET t == MarkAll(envs, status, lane, s)
         IN /\ t \in Inbox
            /\ Rows(t) = {Marked(envs, status, lane, r) : r \in Rows(s)}
            /\ Entered(t) = Entered(s)
            /\ t.receipts = s.receipts
            /\ Elsewhere(envs, s, t)
            /\ \A e \in envs \cap Entered(s) : Row(e, status, lane) \in Rows(t)
<1> DEFINE t == MarkAll(envs, status, lane, s)
           es == s.entries
           ts == [i \in DOMAIN es |-> Marked(envs, status, lane, es[i])]
<1>1. /\ s \in [entries : Seq(Entry), receipts : Seq(Envelope)]
      /\ Bounded(s) /\ Distinct(s)
      /\ es \in Seq(Entry)
  BY DEF Inbox
<1>2. \A i \in DOMAIN es : es[i] \in Entry
  BY <1>1
<1>3. \A r \in Entry : /\ Marked(envs, status, lane, r) \in Entry
                       /\ Marked(envs, status, lane, r).env = r.env
                       /\ r.env \in envs => Marked(envs, status, lane, r).lane = lane
                       /\ r.env \notin envs => Marked(envs, status, lane, r) = r
                       /\ r.env \in envs => Marked(envs, status, lane, r) = Row(r.env, status, lane)
  BY DEF Marked, Entry, Row
<1>4. t = [s EXCEPT !.entries = ts]
  <2>1. \A r \in Entry : r.env \in envs =>
          [r EXCEPT !.status = status, !.lane = lane] = Marked(envs, status, lane, r)
    BY MarkedRow DEF Marked, Entry
  <2>2. \A r \in Entry : r.env \notin envs => r = Marked(envs, status, lane, r)
    BY DEF Marked
  <2>3. t = [s EXCEPT !.entries =
               [i \in DOMAIN es |->
                  IF es[i].env \in envs
                    THEN [es[i] EXCEPT !.status = status, !.lane = lane] ELSE es[i]]]
    BY <1>1 DEF MarkAll
  <2>4. ts = [i \in DOMAIN es |->
                IF es[i].env \in envs
                  THEN [es[i] EXCEPT !.status = status, !.lane = lane] ELSE es[i]]
    BY <1>2, <2>1, <2>2
  <2> QED BY <2>3, <2>4
<1>5. /\ ts \in Seq(Entry) /\ Len(ts) = Len(es) /\ DOMAIN ts = DOMAIN es
      /\ \A i \in DOMAIN es : ts[i] = Marked(envs, status, lane, es[i])
  <2>1. DOMAIN es = 1..Len(es) /\ Len(es) \in Nat
    BY <1>1
  <2>2. \A i \in 1..Len(es) : ts[i] \in Entry
    BY <1>2, <1>3, <2>1
  <2>3. ts = [i \in 1..Len(es) |-> ts[i]]
    BY <2>1
  <2> QED BY <2>1, <2>2, <2>3, SequenceOf
<1> HIDE DEF ts
<1>14. /\ t.entries = ts /\ t.receipts = s.receipts
       /\ t \in [entries : Seq(Entry), receipts : Seq(Envelope)]
  BY <1>1, <1>4, <1>5
<1> HIDE DEF t
<1>6. Rows(t) = {Marked(envs, status, lane, r) : r \in Rows(s)}
  BY <1>14, <1>5 DEF Rows, ToSet
<1>7. Entered(t) = Entered(s)
  BY <1>2, <1>3, <1>14, <1>5 DEF Entered
<1>8. Received(t) = Received(s)
  BY <1>14 DEF Received
<1> HIDE DEF es
<1>9. Distinct(t)
  <2>1. \A i \in DOMAIN es : ts[i].env = es[i].env /\ (ts[i].lane = lane \/ ts[i] = es[i])
    BY <1>2, <1>3, <1>5
  <2>2. ASSUME NEW i \in DOMAIN ts, NEW j \in DOMAIN ts, ts[i].env = ts[j].env PROVE i = j
    BY <1>1, <1>5, <2>1, <2>2 DEF Distinct, es
  <2>3. ASSUME NEW i \in DOMAIN ts, NEW j \in DOMAIN ts, ts[i].lane = ts[j].lane,
               ts[i].lane # "none"
        PROVE  i = j
    <3>1. CASE es[i].env \in envs
      <4>1. ts[i].lane = lane /\ lane # "none"
        BY <1>2, <1>3, <1>5, <2>3, <3>1
      <4>2. ASSUME es[j].env \notin envs PROVE FALSE
        <5>1. j \in DOMAIN es /\ es[j] \in Entry
          BY <1>2, <1>5
        <5>2. ts[j] = es[j] /\ ts[j].lane = lane
          BY <1>3, <1>5, <2>3, <4>1, <4>2, <5>1
        <5> QED BY <4>1, <5>1, <5>2 DEF es
      <4> QED BY <1>1, <1>5, <3>1, <4>1, <4>2 DEF Distinct, es
    <3>2. CASE es[i].env \notin envs
      <4>1. ts[i] = es[i] /\ es[i].lane # "none"
        BY <1>2, <1>3, <1>5, <2>3, <3>2
      <4>2. es[j].env \notin envs
        BY <1>2, <1>3, <1>5, <2>3, <4>1 DEF es
      <4>3. ts[j] = es[j]
        BY <1>2, <1>3, <1>5, <4>2
      <4> QED BY <1>1, <1>5, <2>3, <4>1, <4>3 DEF Distinct, es
    <3> QED BY <3>1, <3>2
  <2> QED BY <1>1, <1>14, <1>7, <1>8, <2>2, <2>3 DEF Distinct
<1>10. t \in Inbox
  BY <1>1, <1>14, <1>5, <1>9 DEF Inbox, Bounded, es
<1>11. Elsewhere(envs, s, t)
  <2>1. Rows(s) \subseteq Entry
    BY RowFacts
  <2> QED BY <1>3, <1>6, <2>1 DEF Elsewhere
<1>12. \A e \in envs \cap Entered(s) : Row(e, status, lane) \in Rows(t)
  <2>1. Rows(s) \subseteq Entry /\ Entered(s) = {r.env : r \in Rows(s)}
    BY RowFacts
  <2> QED BY <1>3, <1>6, <2>1
<1> QED BY <1>14, <1>6, <1>7, <1>10, <1>11, <1>12 DEF t

LEMMA Removed ==
  ASSUME NEW S, NEW seq \in Seq(S), NEW i \in 1..Len(seq)
  PROVE  /\ RemoveAt(seq, i) \in Seq(S)
         /\ Len(RemoveAt(seq, i)) = Len(seq) - 1
         /\ DOMAIN RemoveAt(seq, i) = 1..(Len(seq) - 1)
         /\ \A j \in 1..(Len(seq) - 1) :
              RemoveAt(seq, i)[j] = IF j < i THEN seq[j] ELSE seq[j + 1]
<1> DEFINE before == SubSeq(seq, 1, i - 1)
           after == SubSeq(seq, i + 1, Len(seq))
<1>1. Len(seq) \in Nat /\ i \in Int /\ \A j \in 1..Len(seq) : seq[j] \in S
  BY LenProperties, ElementOfSeq
<1>2. /\ before \in Seq(S) /\ Len(before) = i - 1
      /\ \A j \in 1..(i - 1) : before[j] = seq[j]
  <2>1. \A j \in 1..(i - 1) : seq[j] \in S
    BY <1>1
  <2>2. i - 1 \in Int /\ 1 \in Int
    BY <1>1
  <2>3. /\ before \in Seq(S) /\ Len(before) = IF 1 <= i - 1 THEN i - 1 - 1 + 1 ELSE 0
        /\ \A j \in 1..(i - 1 - 1 + 1) : before[j] = seq[1 + j - 1]
    BY <2>1, <2>2, SubSeqProperties
  <2> QED BY <1>1, <2>3
<1>3. /\ after \in Seq(S) /\ Len(after) = Len(seq) - i
      /\ \A j \in 1..(Len(seq) - i) : after[j] = seq[i + j]
  <2>1. \A j \in (i + 1)..Len(seq) : seq[j] \in S
    BY <1>1
  <2>2. i + 1 \in Int /\ Len(seq) \in Int
    BY <1>1
  <2>3. /\ after \in Seq(S)
        /\ Len(after) = IF i + 1 <= Len(seq) THEN Len(seq) - (i + 1) + 1 ELSE 0
        /\ \A j \in 1..(Len(seq) - (i + 1) + 1) : after[j] = seq[(i + 1) + j - 1]
    BY <2>1, <2>2, SubSeqProperties
  <2> QED BY <1>1, <2>3
<1> HIDE DEF before, after
<1>4. /\ before \o after \in Seq(S) /\ Len(before \o after) = Len(seq) - 1
      /\ \A j \in 1..(Len(seq) - 1) :
           (before \o after)[j] = IF j <= i - 1 THEN before[j] ELSE after[j - (i - 1)]
  <2>1. /\ before \o after \in Seq(S) /\ Len(before \o after) = Len(before) + Len(after)
        /\ \A j \in 1..(Len(before) + Len(after)) :
             (before \o after)[j] =
               IF j <= Len(before) THEN before[j] ELSE after[j - Len(before)]
    BY <1>2, <1>3, ConcatProperties
  <2> QED BY <1>1, <1>2, <1>3, <2>1
<1>5. RemoveAt(seq, i) = before \o after
  BY DEF RemoveAt, before, after
<1>6. \A j \in 1..(Len(seq) - 1) :
        RemoveAt(seq, i)[j] = IF j < i THEN seq[j] ELSE seq[j + 1]
  <2> SUFFICES ASSUME NEW j \in 1..(Len(seq) - 1)
               PROVE  RemoveAt(seq, i)[j] = IF j < i THEN seq[j] ELSE seq[j + 1]
    OBVIOUS
  <2>1. CASE j <= i - 1
    BY <1>1, <1>2, <1>4, <1>5, <2>1
  <2>2. CASE ~(j <= i - 1)
    <3>1. j - (i - 1) \in 1..(Len(seq) - i) /\ i + (j - (i - 1)) = j + 1
      BY <1>1, <2>2
    <3> QED BY <1>1, <1>3, <1>4, <1>5, <2>2, <3>1
  <2> QED BY <2>1, <2>2
<1> QED BY <1>4, <1>5, <1>6, LenProperties

LEMMA Trimmed ==
  ASSUME NEW S, NEW seq \in Seq(S), NEW max \in Nat \ {0}, Len(seq) <= max + 1
  PROVE  LET t == Trim(seq, max)
             d == Len(seq) - Len(t)
         IN /\ t \in Seq(S)
            /\ Len(t) = IF Len(seq) > max THEN max ELSE Len(seq)
            /\ \A j \in 1..Len(t) : t[j] = seq[j + d]
<1> DEFINE m == IF Len(seq) > max THEN Len(seq) - max + 1 ELSE 1
           t == SubSeq(seq, m, Len(seq))
<1>1. Len(seq) \in Nat /\ \A j \in 1..Len(seq) : seq[j] \in S
  BY LenProperties, ElementOfSeq
<1>2. m \in Int /\ m >= 1 /\ m = IF Len(seq) > max THEN 2 ELSE 1
  BY <1>1
<1> HIDE DEF m
<1>3. /\ t \in Seq(S) /\ Len(t) = IF m <= Len(seq) THEN Len(seq) - m + 1 ELSE 0
      /\ \A j \in 1..(Len(seq) - m + 1) : t[j] = seq[m + j - 1]
  <2>1. \A j \in m..Len(seq) : seq[j] \in S
    BY <1>1, <1>2
  <2>2. Len(seq) \in Int /\ m \in Int
    BY <1>1, <1>2
  <2> QED BY <2>1, <2>2, SubSeqProperties
<1>4. Trim(seq, max) = t
  BY DEF Trim, m
<1> HIDE DEF t
<1>5. /\ Len(t) = IF Len(seq) > max THEN max ELSE Len(seq)
      /\ Len(t) \in Nat /\ Len(t) = Len(seq) - m + 1
  <2>1. CASE Len(seq) > max
    BY <1>1, <1>2, <1>3, <2>1
  <2>2. CASE ~(Len(seq) > max)
    BY <1>1, <1>2, <1>3, <2>2
  <2> QED BY <2>1, <2>2
<1>6. \A j \in 1..Len(t) : t[j] = seq[j + (Len(seq) - Len(t))]
  <2> SUFFICES ASSUME NEW j \in 1..Len(t) PROVE t[j] = seq[j + (Len(seq) - Len(t))]
    OBVIOUS
  <2>1. j \in 1..(Len(seq) - m + 1) /\ m + j - 1 = j + (Len(seq) - Len(t))
    BY <1>1, <1>2, <1>5
  <2> QED BY <1>3, <2>1
<1> QED BY <1>3, <1>4, <1>5, <1>6

\* The receipts of t are those of s, the oldest d dropped, and that of e.
Receipts(e, s, t) ==
  LET d == Len(s.receipts) + 1 - Len(t.receipts)
  IN /\ d = IF Len(s.receipts) = MaxReceipts THEN 1 ELSE 0
     /\ t.receipts[Len(t.receipts)] = e
     /\ \A j \in 1..(Len(t.receipts) - 1) : t.receipts[j] = s.receipts[j + d]

LEMMA CompleteWrites ==
  ASSUME NEW s \in Inbox, NEW e \in Entered(s), NEW t \in Complete(e, s)
  PROVE  /\ t \in Inbox
         /\ Elsewhere({e}, s, t) /\ e \notin Entered(t)
         /\ Receipts(e, s, t)
<1> DEFINE es == s.entries
           places == {i \in DOMAIN es : es[i].env = e}
           k == CHOOSE i \in places : TRUE
           ts == RemoveAt(es, k)
           rs == s.receipts
           new == Append(rs, e)
           ws == Trim(new, MaxReceipts)
           d == Len(rs) + 1 - Len(ws)
<1>1. /\ s \in [entries : Seq(Entry), receipts : Seq(Envelope)]
      /\ Bounded(s) /\ Distinct(s) /\ es \in Seq(Entry) /\ rs \in Seq(Envelope)
      /\ MaxEntries \in Nat /\ MaxReceipts \in Nat \ {0}
  BY InboxAssumption DEF Inbox, InboxAssumption
<1>2. /\ e \in Envelope /\ e \notin Received(s)
      /\ DOMAIN es = 1..Len(es) /\ Len(es) \in Nat /\ DOMAIN rs = 1..Len(rs) /\ Len(rs) \in Nat
      /\ Len(es) <= MaxEntries /\ Len(rs) <= MaxReceipts
  BY <1>1, RowFacts DEF Bounded
<1>3. k \in 1..Len(es) /\ es[k].env = e
  <2>1. places # {}
    BY DEF Entered
  <2> QED BY <1>2, <2>1
<1>4. \A i \in 1..Len(es) : i # k => es[i].env # e
  BY <1>1, <1>2, <1>3 DEF Distinct
<1>5. t = [entries |-> ts, receipts |-> ws]
  <2>1. WithoutEntry(e, s) = ts
    <3>1. places # {}
      BY <1>2, <1>3
    <3> QED BY <3>1 DEF WithoutEntry, Without
  <2>2. {i \in DOMAIN rs : rs[i] = e} = {}
    BY <1>2 DEF Received, ToSet
  <2>3. Receipted(e, s) = Append(rs, e)
    BY <2>2 DEF Receipted, Without
  <2> QED BY <2>1, <2>3 DEF Complete
<1> HIDE DEF places, k, ts, ws
<1>6. /\ ts \in Seq(Entry) /\ Len(ts) = Len(es) - 1 /\ DOMAIN ts = 1..(Len(es) - 1)
      /\ \A j \in 1..(Len(es) - 1) : ts[j] = IF j < k THEN es[j] ELSE es[j + 1]
  BY <1>1, <1>3, Removed DEF ts
<1>7. /\ new \in Seq(Envelope) /\ Len(new) = Len(rs) + 1
      /\ new[Len(rs) + 1] = e
      /\ \A j \in 1..Len(rs) : new[j] = rs[j]
  BY <1>1, <1>2
<1> HIDE DEF new
<1>8. /\ ws \in Seq(Envelope)
      /\ Len(ws) = IF Len(rs) + 1 > MaxReceipts THEN MaxReceipts ELSE Len(rs) + 1
      /\ \A j \in 1..Len(ws) : ws[j] = new[j + d]
  <2>1. Len(new) <= MaxReceipts + 1
    BY <1>1, <1>2, <1>7
  <2>2. /\ ws \in Seq(Envelope)
        /\ Len(ws) = IF Len(new) > MaxReceipts THEN MaxReceipts
                     ELSE Len(new)
        /\ \A j \in 1..Len(ws) :
             ws[j] = new[j + (Len(new) - Len(ws))]
    BY <1>1, <1>7, <2>1, Trimmed DEF ws
  <2>3. Len(new) - Len(ws) = d
    BY <1>7
  <2> QED BY <1>7, <2>2, <2>3
<1>9. /\ Len(ws) \in Nat \ {0} /\ Len(ws) <= MaxReceipts /\ DOMAIN ws = 1..Len(ws)
      /\ d = IF Len(rs) = MaxReceipts THEN 1 ELSE 0
  <2>1. CASE Len(rs) = MaxReceipts
    BY <1>1, <1>2, <1>8, <2>1
  <2>2. CASE Len(rs) # MaxReceipts
    BY <1>1, <1>2, <1>8, <2>2
  <2> QED BY <2>1, <2>2
<1>10. /\ ws[Len(ws)] = e
       /\ \A j \in 1..(Len(ws) - 1) : ws[j] = rs[j + d] /\ j + d \in 1..Len(rs)
  <2>1. Len(ws) + d = Len(rs) + 1
    BY <1>2, <1>9
  <2>2. \A j \in 1..(Len(ws) - 1) : j + d \in 1..Len(rs) /\ j \in 1..Len(ws)
    BY <1>2, <1>9, <2>1
  <2>3. Len(ws) \in 1..Len(ws)
    BY <1>9
  <2> QED BY <1>7, <1>8, <2>1, <2>2, <2>3
<1> HIDE DEF es, rs, d
<1>11. t.entries = ts /\ t.receipts = ws
       /\ t \in [entries : Seq(Entry), receipts : Seq(Envelope)]
  BY <1>5, <1>6, <1>8
<1>12. Rows(t) = {r \in Rows(s) : r.env # e}
  <2>1. Rows(t) = {ts[j] : j \in 1..(Len(es) - 1)} /\ Rows(s) = {es[j] : j \in 1..Len(es)}
    BY <1>2, <1>6, <1>11 DEF Rows, ToSet, es
  <2>2. ASSUME NEW j \in 1..(Len(es) - 1) PROVE ts[j] \in Rows(s) /\ ts[j].env # e
    BY <1>2, <1>3, <1>4, <1>6, <2>1
  <2>3. ASSUME NEW i \in 1..Len(es), es[i].env # e PROVE es[i] \in Rows(t)
    <3>1. CASE i < k
      <4>1. i \in 1..(Len(es) - 1)
        BY <1>2, <1>3, <3>1
      <4> QED BY <1>6, <2>1, <3>1, <4>1
    <3>2. CASE i > k
      <4>1. i - 1 \in 1..(Len(es) - 1) /\ ~(i - 1 < k) /\ (i - 1) + 1 = i
        BY <1>2, <1>3, <3>2
      <4> QED BY <1>6, <2>1, <4>1
    <3>3. i # k
      BY <1>3, <2>3
    <3> QED BY <1>2, <1>3, <3>1, <3>2, <3>3
  <2> QED BY <2>1, <2>2, <2>3
<1>13. Entered(t) = {r.env : r \in Rows(t)} /\ Entered(s) = {r.env : r \in Rows(s)}
  BY DEF Entered, Rows, ToSet
<1>14. Received(t) \subseteq Received(s) \cup {e}
  <2>1. Received(t) = {ws[j] : j \in 1..Len(ws)} /\ Received(s) = {rs[j] : j \in 1..Len(rs)}
    BY <1>2, <1>9, <1>11 DEF Received, ToSet, rs
  <2>2. ASSUME NEW j \in 1..Len(ws) PROVE ws[j] \in Received(s) \cup {e}
    <3>1. Len(ws) \in Nat
      BY <1>9
    <3>2. j = Len(ws) \/ j \in 1..(Len(ws) - 1)
      BY <3>1
    <3> QED BY <1>10, <2>1, <3>2
  <2> QED BY <2>1, <2>2
<1>15. Distinct(t)
  <2>1. ASSUME NEW i \in DOMAIN ts, NEW j \in DOMAIN ts
        PROVE  /\ ts[i].env = ts[j].env => i = j
               /\ ts[i].lane = ts[j].lane /\ ts[i].lane # "none" => i = j
    <3> DEFINE a == IF i < k THEN i ELSE i + 1
               b == IF j < k THEN j ELSE j + 1
    <3>1. /\ a \in DOMAIN es /\ b \in DOMAIN es /\ ts[i] = es[a] /\ ts[j] = es[b]
          /\ a = b => i = j
      BY <1>2, <1>3, <1>6
    <3> HIDE DEF a, b
    <3> QED BY <1>1, <3>1 DEF Distinct, es
  <2>2. ASSUME NEW i \in DOMAIN ws, NEW j \in DOMAIN ws, ws[i] = ws[j] PROVE i = j
    <3>1. \A m \in 1..(Len(ws) - 1) : ws[m] # e
      BY <1>2, <1>10 DEF Received, ToSet, rs
    <3>2. i \in 1..Len(ws) /\ j \in 1..Len(ws)
      BY <1>9
    <3>3. CASE i = Len(ws) \/ j = Len(ws)
      BY <1>9, <1>10, <2>2, <3>1, <3>2, <3>3
    <3>4. CASE i # Len(ws) /\ j # Len(ws)
      <4>1. i \in 1..(Len(ws) - 1) /\ j \in 1..(Len(ws) - 1)
        BY <1>9, <3>2, <3>4
      <4>2. rs[i + d] = rs[j + d] /\ i + d \in DOMAIN rs /\ j + d \in DOMAIN rs
        BY <1>2, <1>10, <2>2, <4>1
      <4>3. i + d = j + d
        BY <1>1, <4>2 DEF Distinct, rs
      <4> QED BY <1>9, <3>2, <4>3
    <3> QED BY <3>3, <3>4
  <2>3. Entered(t) \cap Received(t) = {}
    BY <1>1, <1>12, <1>13, <1>14 DEF Distinct
  <2> QED BY <1>11, <2>1, <2>2, <2>3 DEF Distinct
<1>16. Bounded(t)
  <2>1. Len(es) - 1 <= MaxEntries
    BY <1>1, <1>2
  <2>2. Len(ts) <= MaxEntries /\ Len(ws) <= MaxReceipts
    BY <1>6, <1>9, <2>1
  <2> QED BY <1>11, <2>2 DEF Bounded
<1>17. Receipts(e, s, t)
  BY <1>9, <1>10, <1>11 DEF Receipts, rs, d
<1> QED BY <1>11, <1>12, <1>13, <1>15, <1>16, <1>17 DEF Inbox, Elsewhere

LEMMA ClaimWrites ==
  ASSUME NEW s \in Inbox, NEW lane \in Lane, NEW eligible, NEW e \in Claimed(lane, eligible, s)
  PROVE  /\ Claim(e, lane, s) \in Inbox
         /\ Elsewhere({e}, s, Claim(e, lane, s))
         /\ Row(e, "processing", lane) \in Rows(Claim(e, lane, s))
         /\ Claim(e, lane, s).receipts = s.receipts
         /\ e \in Pending(s) /\ e \in Entered(s)
<1> DEFINE pending == {i \in DOMAIN s.entries : s.entries[i].status = "pending"}
           ready == {i \in pending : /\ s.entries[i].env \in eligible
                                     /\ Processing(s) = {} => \A j \in pending : i <= j}
           busy == IF lane = "primary" THEN Processing(s) # {}
                   ELSE LanesBusy(s) \ {"primary"} # {}
           first == {i \in ready : \A j \in ready : i <= j}
           k == CHOOSE i \in ready : \A j \in ready : i <= j
<1>1. ~busy /\ ready # {} /\ e = s.entries[k].env
  BY DEF Claimed
<1>2. /\ s.entries \in Seq(Entry) /\ \A i \in DOMAIN s.entries : s.entries[i] \in Entry
      /\ \A i \in DOMAIN s.entries : i \in Nat
  <2>1. s.entries \in Seq(Entry)
    BY DEF Inbox
  <2> QED BY <2>1
<1>3. k \in pending
  <2>1. ready \subseteq Nat
    BY <1>2
  <2>2. \E i \in ready : \A j \in ready : i <= j
    BY <1>1, <2>1, LeastExists, Zenon
  <2> QED BY <2>2
<1>4. e \in Pending(s) /\ e \in Entered(s)
  BY <1>1, <1>3 DEF Pending, WithStatus, Entered
<1>5. \A i \in DOMAIN s.entries : s.entries[i].lane # lane
  <2> SUFFICES ASSUME NEW i \in DOMAIN s.entries, s.entries[i].lane = lane PROVE FALSE
    OBVIOUS
  <2>1. s.entries[i].status = "processing"
    BY <1>2 DEF Entry, Lane
  <2>2. Processing(s) # {}
    BY <2>1 DEF Processing, WithStatus
  <2>3. lane # "primary" => lane \in LanesBusy(s) \ {"primary"}
    BY DEF LanesBusy, Lane
  <2> QED BY <1>1, <2>2, <2>3
<1>6. \A f, g \in {e} : f = g
  OBVIOUS
<1>7. "processing" \in {"pending", "processing", "failed"} /\ lane \in Lane \cup {"none"}
      /\ lane # "none"
  BY DEF Lane
<1> HIDE DEF pending, ready, busy, first, k
<1>8. LET t == MarkAll({e}, "processing", lane, s)
      IN /\ t \in Inbox /\ t.receipts = s.receipts /\ Elsewhere({e}, s, t)
         /\ \A f \in {e} \cap Entered(s) : Row(f, "processing", lane) \in Rows(t)
  BY <1>5, <1>6, <1>7, MarkAllWrites
<1> QED BY <1>4, <1>8 DEF Claim

\* Marking without a lane: release, requeue and fail.
LEMMA UnlaneWrites ==
  ASSUME NEW s \in Inbox, NEW envs, NEW status \in {"pending", "failed"}
  PROVE  LET t == MarkAll(envs, status, "none", s)
         IN /\ t \in Inbox /\ Elsewhere(envs, s, t) /\ t.receipts = s.receipts
            /\ Entered(t) = Entered(s)
            /\ \A e \in envs \cap Entered(s) : Row(e, status, "none") \in Rows(t)
<1>1. status \in {"pending", "processing", "failed"} /\ "none" \in Lane \cup {"none"}
      /\ (status = "processing" <=> "none" # "none")
  OBVIOUS
<1> QED BY <1>1, MarkAllWrites

---------------------------------------------------------------------------
(* What is distinct passes validateState                                   *)

\* As many values as places, when no value stands at two of them.
LEMMA CountDistinct ==
  ASSUME NEW I, IsFiniteSet(I), NEW f, f = [i \in I |-> f[i]],
         \A i, j \in I : f[i] = f[j] => i = j
  PROVE  Cardinality({f[i] : i \in I}) = Cardinality(I)
<1> DEFINE V == {f[i] : i \in I}
<1>1. f \in [I -> V]
  OBVIOUS
<1>2. f \in Surjection(I, V)
  BY <1>1 DEF Surjection
<1>3. f \in Injection(I, V)
  BY <1>1 DEF Injection, IsInjective
<1> QED BY <1>2, <1>3, FS_Surjection

LEMMA CountPlaces ==
  ASSUME NEW S, NEW seq \in Seq(S)
  PROVE  IsFiniteSet(DOMAIN seq) /\ Cardinality(DOMAIN seq) = Len(seq)
<1>1. DOMAIN seq = 1..Len(seq) /\ Len(seq) \in Nat
  OBVIOUS
<1>2. IsFiniteSet(1..Len(seq)) /\ Cardinality(1..Len(seq)) = Len(seq)
  <2>1. 1 \in Int /\ Len(seq) \in Int
    BY <1>1
  <2>2. /\ IsFiniteSet(1..Len(seq))
        /\ Cardinality(1..Len(seq)) = IF 1 > Len(seq) THEN 0 ELSE Len(seq) - 1 + 1
    BY <2>1, FS_Interval
  <2> QED BY <1>1, <2>2
<1> QED BY <1>1, <1>2

LEMMA InboxIsValid == ASSUME NEW s \in Inbox PROVE ValidState(s)
<1>1. /\ s.entries \in Seq(Entry) /\ s.receipts \in Seq(Envelope)
      /\ Bounded(s) /\ Distinct(s)
  BY DEF Inbox
<1>5. IsFiniteSet(DOMAIN s.entries) /\ Cardinality(DOMAIN s.entries) = Len(s.entries)
  BY <1>1, CountPlaces
<1>6. IsFiniteSet(DOMAIN s.receipts) /\ Cardinality(DOMAIN s.receipts) = Len(s.receipts)
  BY <1>1, CountPlaces
<1>2. Cardinality(Entered(s)) = Len(s.entries)
  <2> DEFINE I == DOMAIN s.entries
             f == [i \in I |-> s.entries[i].env]
  <2>1. \A i, j \in I : f[i] = f[j] => i = j
    BY <1>1 DEF Distinct
  <2>2. f = [i \in I |-> f[i]] /\ Entered(s) = {f[i] : i \in I}
    BY DEF Entered
  <2>3. IsFiniteSet(I) /\ Cardinality(I) = Len(s.entries)
    BY <1>5
  <2> HIDE DEF f, I
  <2>4. Cardinality({f[i] : i \in I}) = Cardinality(I)
    BY <2>1, <2>2, <2>3, CountDistinct
  <2> QED BY <2>2, <2>3, <2>4
<1>3. Cardinality(Received(s)) = Len(s.receipts)
  <2>1. \A i, j \in DOMAIN s.receipts : s.receipts[i] = s.receipts[j] => i = j
    BY <1>1 DEF Distinct
  <2>2. s.receipts = [i \in DOMAIN s.receipts |-> s.receipts[i]]
    BY <1>1
  <2>3. Received(s) = {s.receipts[i] : i \in DOMAIN s.receipts}
    BY DEF Received, ToSet
  <2> QED BY <1>6, <2>1, <2>2, <2>3, CountDistinct
<1>4. Cardinality(Processing(s)) = Cardinality(LanesBusy(s))
  <2> DEFINE B == {i \in DOMAIN s.entries : s.entries[i].status = "processing"}
             f == [i \in B |-> s.entries[i].env]
             g == [i \in B |-> s.entries[i].lane]
  <2>1. \A i \in DOMAIN s.entries : s.entries[i] \in Entry
    BY <1>1
  <2>2. IsFiniteSet(B)
    <3>1. DOMAIN s.entries = 1..Len(s.entries) /\ Len(s.entries) \in Nat /\ 1 \in Int
      BY <1>1
    <3>2. IsFiniteSet(1..Len(s.entries))
      BY <3>1, FS_Interval
    <3> QED BY <3>1, <3>2, FS_Subset
  <2>3. /\ Processing(s) = {f[i] : i \in B}
        /\ LanesBusy(s) = {g[i] : i \in B}
    BY <2>1 DEF Processing, WithStatus, LanesBusy, Entry
  <2>4. /\ \A i, j \in B : f[i] = f[j] => i = j
        /\ \A i, j \in B : g[i] = g[j] => i = j
    BY <1>1, <2>1 DEF Distinct, Entry
  <2>5. f = [i \in B |-> f[i]] /\ g = [i \in B |-> g[i]]
    OBVIOUS
  <2> HIDE DEF f, g, B
  <2> QED BY <2>2, <2>3, <2>4, <2>5, CountDistinct
<1> QED BY <1>1, <1>2, <1>3, <1>4 DEF ValidState, Bounded, Distinct

---------------------------------------------------------------------------
(* The memory of a channel                                                 *)

Task ==
  {w \in [pc : Pc, env : Envelope \cup {NoEnvelope}] : w.pc \in Holding <=> w.env \in Envelope}

Channel ==
  [life : Life, running : BOOLEAN, abort : {"none", "failed", "shutdown"}, safe : BOOLEAN,
   had : BOOLEAN, mem : Inbox, poisoned : BOOLEAN, work : [Lane -> Task],
   requested : SUBSET Lane, primaryOnly : SUBSET Envelope, aborted : SUBSET Envelope,
   toAck : SUBSET Envelope]

\* What a step of a worker never changes, and how it may change the rest: the
\* other worker at most wakes up.
Works(c, d, l) ==
  /\ d \in Channel
  /\ d.life = c.life /\ d.aborted = c.aborted
  /\ d.running => c.running
  /\ d.toAck \subseteq c.toAck
  /\ d.toAck # {} => d.running
  /\ \A m \in Lane \ {l} : \/ d.work[m] = c.work[m]
                           \/ d.work[m] = At("claim", NoEnvelope)

Remembers(c, d) == d.mem = c.mem /\ d.poisoned = c.poisoned

LEMMA TaskTypes ==
  /\ Idle \in Task
  /\ \A pc \in {"claim", "end"} : At(pc, NoEnvelope) \in Task
  /\ \A e \in Envelope, pc \in Holding : At(pc, e) \in Task
  /\ \A pc, e : At(pc, e).pc = pc /\ At(pc, e).env = e
BY InboxAssumption DEF InboxAssumption, Idle, At, Task, Pc, Holding

LEMMA EmptyIsInbox == EmptyInbox \in Inbox
<1>1. <<>> \in Seq(Entry) /\ <<>> \in Seq(Envelope) /\ Len(<<>>) = 0 /\ DOMAIN <<>> = {}
  OBVIOUS
<1>2. EmptyInbox.entries = <<>> /\ EmptyInbox.receipts = <<>>
      /\ EmptyInbox \in [entries : Seq(Entry), receipts : Seq(Envelope)]
  BY <1>1 DEF EmptyInbox
<1>3. Entered(EmptyInbox) = {}
  BY <1>1, <1>2 DEF Entered
<1>4. Bounded(EmptyInbox)
  BY <1>1, <1>2, InboxAssumption DEF Bounded, InboxAssumption
<1> QED BY <1>1, <1>2, <1>3, <1>4 DEF Inbox, Distinct

LEMMA OffType ==
  /\ Off \in Channel /\ Off.life = "off" /\ Off.running = FALSE /\ Off.toAck = {}
  /\ Off.aborted = {} /\ Off.poisoned = FALSE /\ Off.work = [l \in Lane |-> Idle]
BY TaskTypes, EmptyIsInbox DEF Off, Channel, Life

LEMMA GoWorks ==
  ASSUME NEW c \in Channel, NEW l \in Lane, NEW w \in Task, c.toAck # {} => c.running
  PROVE  Works(c, Go(c, l, w), l) /\ Remembers(c, Go(c, l, w)) /\ Go(c, l, w).work[l] = w
         /\ Go(c, l, w).running = c.running /\ Go(c, l, w).toAck = c.toAck
         /\ \A m \in Lane \ {l} : Go(c, l, w).work[m] = c.work[m]
<1>1. [c.work EXCEPT ![l] = w] \in [Lane -> Task]
  BY DEF Channel
<1>2. Go(c, l, w) = [c EXCEPT !.work = [c.work EXCEPT ![l] = w]]
  BY DEF Go, Channel
<1> DEFINE ws == [c.work EXCEPT ![l] = w]
<1>3. ws[l] = w /\ \A m \in Lane \ {l} : ws[m] = c.work[m]
  BY DEF Channel
<1> HIDE DEF ws
<1> QED BY <1>1, <1>2, <1>3 DEF Works, Remembers, Channel, ws

LEMMA WorksTransitive ==
  ASSUME NEW c, NEW d, NEW f, NEW l, Works(c, d, l), Works(d, f, l) PROVE Works(c, f, l)
BY DEF Works

LEMMA WakeWorks ==
  ASSUME NEW c \in Channel, NEW lanes \in SUBSET Lane, NEW l \in Lane,
         c.toAck # {} => c.running
  PROVE  /\ Works(c, Wake(c, lanes), l) /\ Remembers(c, Wake(c, lanes))
         /\ Wake(c, lanes).running = c.running /\ Wake(c, lanes).toAck = c.toAck
         /\ Wake(c, lanes).abort = c.abort
         /\ \A m \in Lane : \/ Wake(c, lanes).work[m] = c.work[m]
                            \/ /\ c.running /\ c.work[m] = Idle
                               /\ Wake(c, lanes).work[m] = At("claim", NoEnvelope)
<1> DEFINE ws == [m \in Lane |-> IF m \in lanes /\ c.work[m] = Idle
                                   THEN At("claim", NoEnvelope) ELSE c.work[m]]
           more == c.requested \cup {m \in lanes : c.work[m] # Idle}
           d == [c EXCEPT !.work = ws, !.requested = more]
<1>1. ws \in [Lane -> Task] /\ more \in SUBSET Lane
  BY TaskTypes DEF Channel
<1>2. Wake(c, lanes) = IF ~c.running THEN c ELSE d
  BY DEF Wake, Channel
<1>3. \A m \in Lane : \/ ws[m] = c.work[m]
                      \/ c.work[m] = Idle /\ ws[m] = At("claim", NoEnvelope)
  OBVIOUS
<1> HIDE DEF ws, more
<1>4. /\ d \in Channel /\ d.work = ws /\ d.life = c.life /\ d.aborted = c.aborted
      /\ d.running = c.running /\ d.toAck = c.toAck /\ d.mem = c.mem
      /\ d.poisoned = c.poisoned /\ d.abort = c.abort
  BY <1>1 DEF Channel
<1> HIDE DEF d
<1>5. CASE ~c.running
  BY <1>2, <1>5 DEF Works, Remembers
<1>6. CASE c.running
  BY <1>2, <1>3, <1>4, <1>6 DEF Works, Remembers
<1> QED BY <1>5, <1>6

LEMMA FailClosedWorks ==
  ASSUME NEW c \in Channel, NEW aborting \in BOOLEAN, NEW l \in Lane
  PROVE  /\ Works(c, FailClosed(c, aborting), l) /\ Remembers(c, FailClosed(c, aborting))
         /\ FailClosed(c, aborting).work = c.work
         /\ ~FailClosed(c, aborting).running /\ FailClosed(c, aborting).toAck = {}
<1> DEFINE a == IF aborting /\ c.abort = "none" THEN "failed" ELSE c.abort
<1>1. a \in {"none", "failed", "shutdown"}
  BY DEF Channel
<1>2. FailClosed(c, aborting) =
        [c EXCEPT !.running = FALSE, !.safe = FALSE, !.toAck = {}, !.abort = a]
  BY DEF FailClosed
<1> HIDE DEF a
<1> DEFINE d == [c EXCEPT !.running = FALSE, !.safe = FALSE, !.toAck = {}, !.abort = a]
<1>3. /\ d \in Channel /\ d.work = c.work /\ d.life = c.life /\ d.aborted = c.aborted
      /\ d.running = FALSE /\ d.toAck = {} /\ d.mem = c.mem /\ d.poisoned = c.poisoned
  BY <1>1 DEF Channel
<1> HIDE DEF d
<1> QED BY <1>2, <1>3 DEF Works, Remembers, d

\* Flags that no other part of the memory depends on.
LEMMA FlagWorks ==
  ASSUME NEW c \in Channel, NEW l \in Lane, c.toAck # {} => c.running
  PROVE  /\ LET d == [c EXCEPT !.safe = FALSE]
            IN Works(c, d, l) /\ Remembers(c, d) /\ d.work = c.work /\ d.toAck = c.toAck
               /\ d.running = c.running
         /\ \A P \in SUBSET Envelope :
              LET d == [c EXCEPT !.primaryOnly = P]
              IN Works(c, d, l) /\ Remembers(c, d) /\ d.work = c.work /\ d.toAck = c.toAck
                 /\ d.running = c.running
         /\ \A R \in SUBSET Lane :
              LET d == [c EXCEPT !.requested = R]
              IN Works(c, d, l) /\ Remembers(c, d) /\ d.work = c.work /\ d.toAck = c.toAck
                 /\ d.running = c.running
         /\ LET d == [c EXCEPT !.poisoned = TRUE]
            IN Works(c, d, l) /\ d.poisoned /\ d.work = c.work /\ d.toAck = c.toAck
               /\ d.running = c.running
         /\ \A u \in Inbox :
              LET d == [c EXCEPT !.mem = u]
              IN Works(c, d, l) /\ d.mem = u /\ d.poisoned = c.poisoned /\ d.work = c.work
                 /\ d.toAck = c.toAck /\ d.running = c.running
<1>1. LET d == [c EXCEPT !.safe = FALSE]
      IN Works(c, d, l) /\ Remembers(c, d) /\ d.work = c.work /\ d.toAck = c.toAck
         /\ d.running = c.running
  BY DEF Works, Remembers, Channel
<1>2. ASSUME NEW P \in SUBSET Envelope
      PROVE  LET d == [c EXCEPT !.primaryOnly = P]
             IN Works(c, d, l) /\ Remembers(c, d) /\ d.work = c.work /\ d.toAck = c.toAck
                /\ d.running = c.running
  BY DEF Works, Remembers, Channel
<1>3. ASSUME NEW R \in SUBSET Lane
      PROVE  LET d == [c EXCEPT !.requested = R]
             IN Works(c, d, l) /\ Remembers(c, d) /\ d.work = c.work /\ d.toAck = c.toAck
                /\ d.running = c.running
  BY DEF Works, Remembers, Channel
<1>4. LET d == [c EXCEPT !.poisoned = TRUE]
      IN Works(c, d, l) /\ d.poisoned /\ d.work = c.work /\ d.toAck = c.toAck
         /\ d.running = c.running
  BY DEF Works, Channel
<1>5. ASSUME NEW u \in Inbox
      PROVE  LET d == [c EXCEPT !.mem = u]
             IN Works(c, d, l) /\ d.mem = u /\ d.poisoned = c.poisoned /\ d.work = c.work
                /\ d.toAck = c.toAck /\ d.running = c.running
  BY DEF Works, Channel
<1> QED BY <1>1, <1>2, <1>3, <1>4, <1>5

---------------------------------------------------------------------------
(* The inductive invariant                                                 *)

Unserved == {"off", "prepared", "leased"}
Resting == Unserved \cup {"settled", "closing"}

Modes(c) ==
  /\ c.running => c.life = "serving"
  /\ c.toAck # {} => c.running
  /\ c.life \in Resting => Quiet(c)
  /\ c.life \in Unserved => c.aborted = {} /\ ~c.poisoned

\* A worker's entry is processing in its lane, unless the inbox was poisoned
\* under it, and then the worker can only fail.
Owns(c, l, s) ==
  \/ Row(c.work[l].env, "processing", l) \in Rows(s)
  \/ c.work[l].pc = "fail" /\ c.poisoned

Owned(c, s, t) ==
  /\ \A l \in Lane : c.work[l].pc \in Holding => Owns(c, l, s)
  /\ \A l, m \in Lane :
       c.work[l].env = c.work[m].env /\ c.work[l].env # NoEnvelope => l = m
  /\ \A l \in Lane : c.work[l].pc = "release" =>
                       l = "control" /\ t[c.work[l].env] = "declined"

\* What was cancelled waits for the requeue, and no worker takes it up.
Cancels(c, s, t) ==
  \A e \in c.aborted :
    /\ t[e] = "cancelled"
    /\ c.life # "closing" => e \in Processing(s)
    /\ \A l \in Lane : c.work[l].env # e

Keeps(S, s, t) == \A e \in S : e \in Entered(s) \/ t[e] = "done"

Server(c, s, t) ==
  c \in Channel /\ Modes(c) /\ Owned(c, s, t) /\ Cancels(c, s, t) /\ Keeps(c.toAck, s, t)

Attempts == {"never", "running", "declined", "cancelled", "unknown", "requeued", "done"}

Repeatable(e, t, n) ==
  \/ t[e] \in {"never", "declined", "cancelled", "requeued"}
  \/ t[e] = "done" /\ n[e] = MaxReceipts

\* What waits may be started; what is gone was never there or is done; what has
\* a receipt is done, and its receipt is as old as completions since then.
Recalls(s, t, n) ==
  /\ \A e \in Pending(s) : Repeatable(e, t, n)
  /\ \A e \in Envelope \ Entered(s) :
       /\ t[e] \in {"never", "done"}
       /\ e \notin Received(s) => Repeatable(e, t, n)
  /\ \A i \in DOMAIN s.receipts :
       t[s.receipts[i]] = "done" /\ n[s.receipts[i]] = Len(s.receipts) - i

Typed ==
  /\ setup \in Setups /\ disk \in Inbox /\ fresh \subseteq Process
  /\ lease \in Process \cup {Nobody} /\ chan \in [Process -> Channel] /\ acked \subseteq Envelope
  /\ tried \in [Envelope -> Attempts] /\ newer \in [Envelope -> 0..MaxReceipts]

LeaseOK == \A p \in Process : chan[p].life \notin {"off", "prepared"} <=> lease = p

Inv ==
  /\ Typed /\ LeaseOK /\ OneWriter
  /\ \A p \in Process : Server(chan[p], disk, tried)
  /\ Recalls(disk, tried, newer)
  /\ Keeps(acked, disk, tried)

LEMMA InitEstablishes == Init => Inv
<1> SUFFICES ASSUME Init PROVE Inv
  OBVIOUS
<1>1. /\ disk = EmptyInbox /\ chan = [p \in Process |-> Off] /\ lease = Nobody /\ acked = {}
      /\ tried = [e \in Envelope |-> "never"] /\ newer = [e \in Envelope |-> 0]
      /\ setup \in Setups /\ fresh = {}
  BY DEF Init
<1>2. Typed
  BY <1>1, OffType, EmptyIsInbox, InboxAssumption DEF Typed, Attempts, InboxAssumption
<1>3. \A p \in Process : chan[p] = Off
  BY <1>1
<1>4. LeaseOK /\ OneWriter
  BY <1>1, <1>3, OffType, ChannelAssumption DEF LeaseOK, OneWriter, ChannelAssumption
<1>5. Server(Off, disk, tried)
  <2>1. Modes(Off)
    BY OffType DEF Modes, Quiet
  <2>2. \A l \in Lane : Off.work[l].pc = "idle" /\ Off.work[l].env = NoEnvelope
    BY OffType DEF Idle
  <2>3. Owned(Off, disk, tried)
    BY <2>2 DEF Owned, Holding
  <2>4. Cancels(Off, disk, tried) /\ Keeps(Off.toAck, disk, tried)
    BY OffType DEF Cancels, Keeps
  <2> QED BY <2>1, <2>3, <2>4, OffType DEF Server
<1>6. Recalls(disk, tried, newer)
  <2>1. DOMAIN disk.entries = {} /\ DOMAIN disk.receipts = {}
    BY <1>1 DEF EmptyInbox
  <2>2. Pending(disk) = {}
    BY <2>1 DEF Pending, WithStatus
  <2> QED BY <1>1, <2>1, <2>2 DEF Recalls, Repeatable
<1> QED BY <1>1, <1>2, <1>3, <1>4, <1>5, <1>6 DEF Inv, Keeps

---------------------------------------------------------------------------
(* What one envelope's step leaves true                                    *)

LEMMA RestingServer ==
  ASSUME NEW c, NEW s, NEW t, NEW u, NEW t2, Server(c, s, t), c.life \in Unserved
  PROVE  Server(c, u, t2)
<1>1. \A l \in Lane : c.work[l].pc = "idle" /\ c.work[l].env = NoEnvelope
  BY DEF Server, Modes, Quiet, Resting, Idle
<1>2. c.toAck = {} /\ c.aborted = {}
  BY DEF Server, Modes, Unserved
<1>3. Owned(c, u, t2)
  BY <1>1 DEF Owned, Holding
<1> QED BY <1>2, <1>3 DEF Server, Cancels, Keeps

Takes(d, l, u, t) ==
  Owns(d, l, u) /\ (d.work[l].pc = "release" => l = "control" /\ t[d.work[l].env] = "declined")

LEMMA KeepsElsewhere ==
  ASSUME NEW s \in Inbox, NEW u \in Inbox, NEW e, NEW t, NEW t2, NEW S \in SUBSET Envelope,
         NEW T \in SUBSET Envelope, Elsewhere({e}, s, u),
         \A x \in Envelope \ {e} : t2[x] = t[x], Keeps(S, s, t), T \subseteq S \cup {e},
         e \in T => e \in Entered(u) \/ t2[e] = "done"
  PROVE  Keeps(T, u, t2)
<1> SUFFICES ASSUME NEW x \in T, x # e PROVE x \in Entered(u) \/ t2[x] = "done"
  BY DEF Keeps
<1>1. x \in Entered(s) \/ t2[x] = "done"
  BY DEF Keeps
<1>2. ASSUME x \in Entered(s) PROVE x \in Entered(u)
  <2>1. /\ Rows(s) \subseteq Entry /\ Entered(s) = {r.env : r \in Rows(s)}
        /\ Entered(u) = {r.env : r \in Rows(u)}
    BY RowFacts
  <2>2. PICK r \in Rows(s) : r.env = x
    BY <1>2, <2>1
  <2>3. r \in Rows(u)
    BY <2>1, <2>2 DEF Elsewhere
  <2> QED BY <2>1, <2>2, <2>3
<1> QED BY <1>1, <1>2

LEMMA ServerStep ==
  ASSUME NEW c, NEW s \in Inbox, NEW t, Server(c, s, t), NEW u \in Inbox, NEW t2,
         NEW e \in Envelope, Elsewhere({e}, s, u), \A x \in Envelope \ {e} : t2[x] = t[x],
         NEW d \in Channel, Modes(d), c.poisoned => d.poisoned,
         c.life = "closing" => d.life = "closing",
         d.aborted \subseteq c.aborted \cup {e},
         e \in d.aborted => /\ t2[e] = "cancelled" /\ e \in Processing(u)
                            /\ \A m \in Lane : d.work[m].env # e,
         d.toAck \subseteq c.toAck \cup {e},
         e \in d.toAck => e \in Entered(u) \/ t2[e] = "done",
         \A m \in Lane : \/ d.work[m].env = NoEnvelope
                         \/ d.work[m] = c.work[m] /\ c.work[m].env # e
                         \/ d.work[m].env = e /\ Takes(d, m, u, t2),
         \A l, m \in Lane : d.work[l].env = e /\ d.work[m].env = e => l = m
  PROVE  Server(d, u, t2)
<1>1. Owned(c, s, t) /\ Cancels(c, s, t) /\ Keeps(c.toAck, s, t) /\ c \in Channel
  BY DEF Server
<1>2. \A m \in Lane : d.work[m] \in Task
  BY DEF Channel
<1>3. /\ Rows(s) \subseteq Entry
      /\ \A x : x \in Processing(s) <=> \E r \in Rows(s) : r.env = x /\ r.status = "processing"
      /\ \A x : x \in Processing(u) <=> \E r \in Rows(u) : r.env = x /\ r.status = "processing"
  BY RowFacts
<1>4. ASSUME NEW m \in Lane, d.work[m].pc \in Holding PROVE Owns(d, m, u)
  <2>1. d.work[m].env # NoEnvelope /\ d.work[m].env \in Envelope
    BY <1>2, <1>4, InboxAssumption DEF Task, InboxAssumption
  <2>2. CASE d.work[m] = c.work[m] /\ c.work[m].env # e
    <3>1. Owns(c, m, s)
      BY <1>1, <1>4, <2>2 DEF Owned
    <3>2. Row(d.work[m].env, "processing", m) \in Entry
      BY <2>1 DEF Row, Entry, Lane
    <3>3. Row(d.work[m].env, "processing", m).env = d.work[m].env
      BY DEF Row
    <3> QED BY <2>2, <3>1, <3>2, <3>3 DEF Owns, Elsewhere
  <2> QED BY <2>1, <2>2 DEF Takes
<1>5. ASSUME NEW l \in Lane, NEW m \in Lane, d.work[l].env = d.work[m].env,
             d.work[l].env # NoEnvelope
      PROVE  l = m
  <2>1. CASE d.work[l].env = e
    BY <1>5, <2>1
  <2>2. CASE d.work[l].env # e
    <3>1. c.work[l].env = c.work[m].env /\ c.work[l].env # NoEnvelope
      BY <1>5, <2>2
    <3> QED BY <1>1, <3>1 DEF Owned
  <2> QED BY <2>1, <2>2
<1>6. ASSUME NEW m \in Lane, d.work[m].pc = "release"
      PROVE  m = "control" /\ t2[d.work[m].env] = "declined"
  <2>1. d.work[m].env # NoEnvelope /\ d.work[m].env \in Envelope
    BY <1>2, <1>6, InboxAssumption DEF Task, InboxAssumption, Holding
  <2>2. CASE d.work[m] = c.work[m] /\ c.work[m].env # e
    BY <1>1, <1>6, <2>1, <2>2 DEF Owned
  <2> QED BY <1>6, <2>1, <2>2 DEF Takes
<1>7. Owned(d, u, t2)
  BY <1>4, <1>5, <1>6 DEF Owned
<1>8. Cancels(d, u, t2)
  <2> SUFFICES ASSUME NEW x \in d.aborted, x # e
               PROVE  /\ t2[x] = "cancelled" /\ (d.life # "closing" => x \in Processing(u))
                      /\ \A l \in Lane : d.work[l].env # x
    BY DEF Cancels
  <2>1. x \in c.aborted /\ x \in Envelope
    BY DEF Channel
  <2>2. /\ t[x] = "cancelled" /\ (c.life # "closing" => x \in Processing(s))
        /\ \A l \in Lane : c.work[l].env # x
    BY <1>1, <2>1 DEF Cancels
  <2>3. ASSUME x \in Processing(s) PROVE x \in Processing(u)
    <3>1. PICK r \in Rows(s) : r.env = x /\ r.status = "processing"
      BY <1>3, <2>3
    <3>2. r \in Rows(u)
      BY <1>3, <3>1 DEF Elsewhere
    <3> QED BY <1>3, <3>1, <3>2
  <2>4. x # NoEnvelope
    BY <2>1, InboxAssumption DEF InboxAssumption
  <2> QED BY <2>1, <2>2, <2>3, <2>4
<1>9. Keeps(d.toAck, u, t2)
  <2>1. c.toAck \in SUBSET Envelope /\ d.toAck \in SUBSET Envelope
    BY <1>1 DEF Channel
  <2> QED BY <1>1, <2>1, KeepsElsewhere
<1> QED BY <1>7, <1>8, <1>9 DEF Server

\* A step that takes up no envelope and writes nothing.
LEMMA ServerMode ==
  ASSUME NEW c, NEW s, NEW t, Server(c, s, t), NEW d \in Channel, Modes(d),
         c.poisoned => d.poisoned, c.life = "closing" => d.life = "closing",
         d.aborted \subseteq c.aborted, Keeps(d.toAck, s, t),
         \A m \in Lane : d.work[m] = c.work[m] \/ d.work[m].env = NoEnvelope
  PROVE  Server(d, s, t)
<1>1. Owned(c, s, t) /\ Cancels(c, s, t) /\ Keeps(c.toAck, s, t) /\ c \in Channel
  BY DEF Server
<1>2. \A m \in Lane : d.work[m] \in Task /\ NoEnvelope \notin Envelope
  BY InboxAssumption DEF Channel, InboxAssumption
<1>3. \A m \in Lane : d.work[m].pc \in Holding => d.work[m] = c.work[m]
  BY <1>2 DEF Task
<1>4. \A m \in Lane : d.work[m].env # NoEnvelope => d.work[m] = c.work[m]
  OBVIOUS
<1>5. \A m \in Lane : d.work[m].pc = "release" => d.work[m] = c.work[m]
  BY <1>3 DEF Holding
<1>6. Owned(d, s, t)
  BY <1>1, <1>3, <1>4, <1>5 DEF Owned, Owns
<1>7. Cancels(d, s, t)
  <2>1. \A e \in d.aborted : e \in Envelope
    BY DEF Channel
  <2> QED BY <1>1, <1>2, <1>4, <2>1 DEF Cancels
<1> QED BY <1>6, <1>7 DEF Server

LEMMA RecallsWrite ==
  ASSUME NEW s \in Inbox, NEW u \in Inbox, NEW t, NEW n, NEW t2, NEW e \in Envelope,
         Elsewhere({e}, s, u), u.receipts = s.receipts, Recalls(s, t, n),
         \A x \in Envelope \ {e} : t2[x] = t[x],
         e \in Entered(u), e \in Pending(u) => Repeatable(e, t2, n)
  PROVE  Recalls(u, t2, n)
<1>1. /\ Rows(s) \subseteq Entry /\ Rows(u) \subseteq Entry
      /\ \A x : x \in Pending(s) <=> \E r \in Rows(s) : r.env = x /\ r.status = "pending"
      /\ \A x : x \in Pending(u) <=> \E r \in Rows(u) : r.env = x /\ r.status = "pending"
      /\ Entered(s) = {r.env : r \in Rows(s)} /\ Entered(u) = {r.env : r \in Rows(u)}
      /\ Entered(u) \cap Received(u) = {} /\ Received(u) \subseteq Envelope
      /\ Entered(u) \subseteq Envelope
  BY RowFacts
<1>2. Received(u) = Received(s)
  BY DEF Received
<1>3. ASSUME NEW x \in Pending(u) PROVE Repeatable(x, t2, n)
  <2>1. CASE x = e
    BY <1>3, <2>1
  <2>2. CASE x # e
    <3>1. PICK r \in Rows(u) : r.env = x /\ r.status = "pending"
      BY <1>1
    <3>2. r \in Rows(s) /\ x \in Envelope
      BY <1>1, <2>2, <3>1 DEF Elsewhere, Entry
    <3>3. Repeatable(x, t, n)
      BY <1>1, <3>1, <3>2 DEF Recalls
    <3> QED BY <2>2, <3>2, <3>3 DEF Repeatable
  <2> QED BY <2>1, <2>2
<1>4. ASSUME NEW x \in Envelope \ Entered(u)
      PROVE  t2[x] \in {"never", "done"} /\ (x \notin Received(u) => Repeatable(x, t2, n))
  <2>1. x # e
    OBVIOUS
  <2>2. x \notin Entered(s)
    BY <1>1, <2>1 DEF Elsewhere
  <2> QED BY <1>2, <2>1, <2>2 DEF Recalls, Repeatable
<1>5. ASSUME NEW i \in DOMAIN u.receipts
      PROVE  t2[u.receipts[i]] = "done" /\ n[u.receipts[i]] = Len(u.receipts) - i
  <2>1. u.receipts[i] \in Received(u)
    BY DEF Received, ToSet
  <2>2. u.receipts[i] \in Envelope \ {e}
    BY <1>1, <2>1
  <2> QED BY <2>2 DEF Recalls
<1> QED BY <1>3, <1>4, <1>5 DEF Recalls

LEMMA Lengths ==
  ASSUME NEW a \in Nat, NEW b \in Nat, NEW m \in Nat \ {0}, a <= m,
         a + 1 - b = IF a = m THEN 1 ELSE 0
  PROVE  /\ b + (a + 1 - b) = a + 1 /\ a + 1 - b \in {0, 1} /\ b \in 1..m
         /\ \A i \in 1..(b - 1) :
              /\ i + (a + 1 - b) \in 1..a /\ i \in 1..b
              /\ a - (i + (a + 1 - b)) = b - 1 - i /\ b - 1 - i < m
<1>1. CASE a = m
  BY <1>1
<1>2. CASE a # m
  BY <1>2
<1> QED BY <1>1, <1>2

Counted(n, e) ==
  [x \in Envelope |-> IF x = e THEN 0 ELSE IF n[x] < MaxReceipts THEN n[x] + 1 ELSE n[x]]

LEMMA RecallsComplete ==
  ASSUME NEW s \in Inbox, NEW u \in Inbox, NEW t \in [Envelope -> Attempts],
         NEW n \in [Envelope -> 0..MaxReceipts], NEW e \in Entered(s),
         Elsewhere({e}, s, u), e \notin Entered(u), Receipts(e, s, u), Recalls(s, t, n)
  PROVE  Recalls(u, [t EXCEPT ![e] = "done"], Counted(n, e))
<1> DEFINE t2 == [t EXCEPT ![e] = "done"]
           n2 == Counted(n, e)
           rs == s.receipts
           ws == u.receipts
           d == Len(rs) + 1 - Len(ws)
<1>1. /\ Rows(s) \subseteq Entry /\ Rows(u) \subseteq Entry
      /\ \A x : x \in Pending(s) <=> \E r \in Rows(s) : r.env = x /\ r.status = "pending"
      /\ \A x : x \in Pending(u) <=> \E r \in Rows(u) : r.env = x /\ r.status = "pending"
      /\ Entered(s) = {r.env : r \in Rows(s)} /\ Entered(u) = {r.env : r \in Rows(u)}
      /\ Received(s) \subseteq Envelope /\ Entered(s) \subseteq Envelope
      /\ Entered(s) \cap Received(s) = {}
  BY RowFacts
<1>2. /\ rs \in Seq(Envelope) /\ ws \in Seq(Envelope)
      /\ Len(rs) <= MaxReceipts /\ MaxReceipts \in Nat \ {0} /\ Distinct(s)
  BY InboxAssumption DEF Inbox, Bounded, InboxAssumption
<1>3. /\ Len(rs) \in Nat /\ DOMAIN rs = 1..Len(rs) /\ Len(ws) \in Nat /\ DOMAIN ws = 1..Len(ws)
  BY <1>2
<1>4. /\ d = IF Len(rs) = MaxReceipts THEN 1 ELSE 0
      /\ ws[Len(ws)] = e
      /\ \A j \in 1..(Len(ws) - 1) : ws[j] = rs[j + d]
  BY DEF Receipts
<1>5. /\ Received(s) = {rs[j] : j \in 1..Len(rs)} /\ Received(u) = {ws[j] : j \in 1..Len(ws)}
  BY <1>3 DEF Received, ToSet
<1>6. /\ t2[e] = "done" /\ n2[e] = 0
      /\ \A x \in Envelope \ {e} : t2[x] = t[x] /\ n[x] \in 0..MaxReceipts
                                   /\ n2[x] = IF n[x] < MaxReceipts THEN n[x] + 1 ELSE n[x]
  BY <1>1 DEF Counted
<1> HIDE DEF t2, n2, rs, ws
<1>7. Len(ws) + d = Len(rs) + 1 /\ d \in {0, 1} /\ Len(ws) \in 1..MaxReceipts
  BY <1>2, <1>3, <1>4, Lengths
<1>14. \A i \in 1..(Len(ws) - 1) :
         /\ i + d \in 1..Len(rs) /\ i \in 1..Len(ws)
         /\ Len(rs) - (i + d) = Len(ws) - 1 - i /\ Len(ws) - 1 - i < MaxReceipts
  BY <1>2, <1>3, <1>4, Lengths
<1> HIDE DEF d
<1>8. ASSUME NEW x \in Envelope \ {e}, Repeatable(x, t, n) PROVE Repeatable(x, t2, n2)
  <2>1. n[x] = MaxReceipts => n2[x] = MaxReceipts
    BY <1>2, <1>6
  <2> QED BY <1>6, <1>8, <2>1 DEF Repeatable
<1>9. \A i \in 1..Len(rs) : t[rs[i]] = "done" /\ n[rs[i]] = Len(rs) - i /\ rs[i] \in Envelope \ {e}
  <2>1. \A i \in 1..Len(rs) : rs[i] \in Received(s)
    BY <1>5
  <2> QED BY <1>1, <1>3, <2>1 DEF Recalls, rs
<1>10. ASSUME NEW x \in Pending(u) PROVE Repeatable(x, t2, n2)
  <2>1. PICK r \in Rows(u) : r.env = x /\ r.status = "pending"
    BY <1>1
  <2>2. x # e /\ r \in Rows(s) /\ x \in Envelope
    BY <1>1, <2>1 DEF Elsewhere, Entry
  <2>3. x \in Pending(s)
    BY <1>1, <2>1, <2>2
  <2> QED BY <1>8, <2>2, <2>3 DEF Recalls
<1>11. ASSUME NEW i \in DOMAIN ws PROVE t2[ws[i]] = "done" /\ n2[ws[i]] = Len(ws) - i
  <2>1. CASE i = Len(ws)
    BY <1>3, <1>4, <1>6, <2>1
  <2>2. CASE i # Len(ws)
    <3>1. i \in 1..(Len(ws) - 1) /\ i + d \in 1..Len(rs)
      BY <1>3, <1>7, <2>2
    <3>2. ws[i] = rs[i + d] /\ ws[i] \in Envelope \ {e}
      BY <1>4, <1>9, <3>1
    <3>3. t[ws[i]] = "done" /\ n[ws[i]] = Len(rs) - (i + d)
      BY <1>9, <3>1, <3>2
    <3>4. Len(rs) - (i + d) = Len(ws) - 1 - i /\ Len(ws) - 1 - i < MaxReceipts
      BY <1>14, <3>1
    <3>5. n2[ws[i]] = n[ws[i]] + 1 /\ t2[ws[i]] = "done"
      BY <1>6, <3>2, <3>3, <3>4
    <3> QED BY <1>3, <1>7, <3>1, <3>3, <3>4, <3>5
  <2> QED BY <2>1, <2>2
<1>12. ASSUME NEW x \in Envelope \ Entered(u)
       PROVE  t2[x] \in {"never", "done"} /\ (x \notin Received(u) => Repeatable(x, t2, n2))
  <2>1. CASE x = e
    <3>1. e \in Received(u)
      BY <1>4, <1>5, <1>7
    <3> QED BY <1>6, <2>1, <3>1
  <2>2. CASE x # e
    <3>1. x \notin Entered(s)
      BY <1>1, <2>2 DEF Elsewhere
    <3>2. t2[x] \in {"never", "done"} /\ (x \notin Received(s) => Repeatable(x, t, n))
      BY <1>6, <2>2, <3>1 DEF Recalls
    <3>3. ASSUME x \in Received(s), x \notin Received(u) PROVE Repeatable(x, t2, n2)
      <4>1. PICK i \in 1..Len(rs) : x = rs[i]
        BY <1>5, <3>3
      <4>2. d = 1 /\ i = 1
        <5>1. CASE d = 0
          <6>1. i \in 1..(Len(ws) - 1)
            BY <1>3, <1>7, <5>1
          <6>2. ws[i] = x /\ i \in 1..Len(ws)
            BY <1>3, <1>4, <4>1, <5>1, <6>1
          <6> QED BY <1>5, <3>3, <6>2
        <5>2. CASE d = 1 /\ i # 1
          <6>1. i - 1 \in 1..(Len(ws) - 1) /\ (i - 1) + d = i /\ i - 1 \in 1..Len(ws)
            BY <1>3, <1>7, <5>2
          <6>2. ws[i - 1] = x
            BY <1>4, <4>1, <6>1
          <6> QED BY <1>5, <3>3, <6>1, <6>2
        <5> QED BY <1>7, <5>1, <5>2
      <4>3. Len(rs) = MaxReceipts
        BY <1>4, <4>2
      <4>4. t[x] = "done" /\ n[x] = MaxReceipts - 1
        BY <1>9, <4>1, <4>2, <4>3
      <4>5. n2[x] = MaxReceipts
        BY <1>2, <1>6, <2>2, <4>4
      <4> QED BY <1>6, <2>2, <4>4, <4>5 DEF Repeatable
    <3> QED BY <1>8, <2>2, <3>2, <3>3
  <2> QED BY <2>1, <2>2
<1>13. \A i \in DOMAIN ws : t2[ws[i]] = "done" /\ n2[ws[i]] = Len(ws) - i
  BY <1>11
<1> QED BY <1>10, <1>12, <1>13 DEF Recalls, ws, t2, n2

LEMMA RecallsRequeue ==
  ASSUME NEW s \in Inbox, NEW t, NEW n, NEW envs \in SUBSET Envelope,
         \A e \in envs : t[e] = "cancelled", Recalls(s, t, n)
  PROVE  Recalls(MarkAll(envs, "pending", "none", s), t, n)
<1> DEFINE u == MarkAll(envs, "pending", "none", s)
<1>1. u \in Inbox /\ Elsewhere(envs, s, u) /\ u.receipts = s.receipts /\ Entered(u) = Entered(s)
  BY UnlaneWrites
<1> HIDE DEF u
<1>2. /\ Rows(u) \subseteq Entry
      /\ \A x : x \in Pending(s) <=> \E r \in Rows(s) : r.env = x /\ r.status = "pending"
      /\ \A x : x \in Pending(u) <=> \E r \in Rows(u) : r.env = x /\ r.status = "pending"
  BY <1>1, RowFacts
<1>3. ASSUME NEW x \in Pending(u) PROVE Repeatable(x, t, n)
  <2>1. CASE x \in envs
    BY <2>1 DEF Repeatable
  <2>2. CASE x \notin envs
    <3>1. PICK r \in Rows(u) : r.env = x /\ r.status = "pending"
      BY <1>2
    <3>2. r \in Rows(s)
      BY <1>1, <1>2, <2>2, <3>1 DEF Elsewhere
    <3> QED BY <1>2, <3>1, <3>2 DEF Recalls
  <2> QED BY <2>1, <2>2
<1>4. Received(u) = Received(s)
  BY <1>1 DEF Received
<1> QED BY <1>1, <1>3, <1>4 DEF Recalls, u

---------------------------------------------------------------------------
(* A step of the process that serves                                       *)

\* No worker starts on an event in this step.
Steady ==
  \A q \in Process, l \in Lane :
    chan'[q].work[l].pc = "process" => chan[q].work[l].pc = "process"

LEMMA Preserve ==
  ASSUME Inv, NEW p \in Process, chan[p].life \notin Unserved, NEW d,
         chan' = [chan EXCEPT ![p] = d], d.life \notin Unserved,
         Server(d, disk', tried'), setup' = setup, lease' = lease, disk' \in Inbox,
         fresh' \subseteq Process, ~d.poisoned => p \in fresh' /\ d.mem = disk',
         acked' \subseteq Envelope, tried' \in [Envelope -> Attempts],
         newer' \in [Envelope -> 0..MaxReceipts], Recalls(disk', tried', newer'),
         Keeps(acked', disk', tried')
  PROVE  Inv'
<1>1. Typed /\ LeaseOK /\ OneWriter /\ \A q \in Process : Server(chan[q], disk, tried)
  BY DEF Inv
<1>2. lease = p
  BY <1>1 DEF OneWriter, Unserved
<1>3. \A q \in Process : q # p => chan[q].life \in Unserved
  BY <1>1, <1>2 DEF OneWriter, Unserved
<1>4. chan'[p] = d /\ \A q \in Process : q # p => chan'[q] = chan[q]
  BY <1>1 DEF Typed
<1>5. Typed'
  BY <1>1, <1>4 DEF Typed, Server
<1>6. LeaseOK'
  BY <1>1, <1>2, <1>4 DEF LeaseOK, Unserved
<1>7. OneWriter'
  BY <1>2, <1>3, <1>4 DEF OneWriter, Unserved
<1>8. \A q \in Process : Server(chan'[q], disk', tried')
  <2>1. \A q \in Process : q # p => Server(chan[q], disk', tried')
    BY <1>1, <1>3, RestingServer
  <2> QED BY <1>4, <2>1
<1> QED BY <1>5, <1>6, <1>7, <1>8 DEF Inv

\* The other worker is on another envelope, and none that was cancelled is taken up.
LEMMA Beside ==
  ASSUME Inv, NEW p \in Process, NEW l \in Lane, NEW e \in Envelope,
         chan[p].life \notin Unserved \cup {"closing"},
         \/ chan[p].work[l].env = e
         \/ e \in Pending(disk) /\ ~chan[p].poisoned
  PROVE  /\ \A m \in Lane \ {l} : chan[p].work[m].env # e
         /\ e \notin chan[p].aborted
<1> DEFINE c == chan[p]
<1>1. Server(c, disk, tried) /\ disk \in Inbox /\ c \in Channel
  BY DEF Inv, Typed
<1>2. /\ \A r1, r2 \in Rows(disk) : r1.env = r2.env => r1 = r2
      /\ \A x : x \in Processing(disk)
                  <=> \E r \in Rows(disk) : r.env = x /\ r.status = "processing"
      /\ \A x : x \in Pending(disk) <=> \E r \in Rows(disk) : r.env = x /\ r.status = "pending"
  BY <1>1, RowFacts
<1>3. Owned(c, disk, tried) /\ Cancels(c, disk, tried) /\ e # NoEnvelope
  BY <1>1, InboxAssumption DEF Server, InboxAssumption
<1> HIDE DEF c
<1>4. CASE c.work[l].env = e
  BY <1>3, <1>4 DEF Owned, Cancels, c
<1>5. CASE e \in Pending(disk) /\ ~c.poisoned
  <2>1. e \notin Processing(disk)
    BY <1>2, <1>5
  <2>2. ASSUME NEW m \in Lane, c.work[m].env = e PROVE FALSE
    <3>1. c.work[m] \in Task
      BY <1>1 DEF Channel
    <3>2. Row(e, "processing", m) \in Rows(disk)
      BY <1>3, <1>5, <2>2, <3>1 DEF Task, Owned, Owns
    <3>3. Row(e, "processing", m).env = e /\ Row(e, "processing", m).status = "processing"
      BY DEF Row
    <3> QED BY <1>2, <2>1, <3>2, <3>3
  <2> QED BY <1>3, <2>1, <2>2 DEF Cancels, c
<1> QED BY <1>4, <1>5 DEF c

\* A worker leaves its entry, or moves on it, and writes at most that entry.
Moves(p, l, e, d) ==
  /\ chan[p].work[l].pc # "idle"
  /\ chan[p].work[l].env = e \/ (e \in Pending(disk) /\ ~chan[p].poisoned)
  /\ chan' = [chan EXCEPT ![p] = d] /\ Works(chan[p], d, l)
  /\ chan[p].poisoned => d.poisoned
  /\ ~d.poisoned => p \in fresh' /\ d.mem = disk'
  /\ setup' = setup /\ lease' = lease /\ acked' = acked
  /\ fresh' \subseteq Process /\ disk' \in Inbox /\ Elsewhere({e}, disk, disk')
  /\ tried' \in [Envelope -> Attempts] /\ newer' \in [Envelope -> 0..MaxReceipts]
  /\ \A x \in Envelope \ {e} : tried'[x] = tried[x]
  /\ Recalls(disk', tried', newer')
  /\ \/ e \in Entered(disk') \/ tried'[e] = "done"
     \/ disk' = disk /\ tried' = tried
  /\ \/ d.work[l].env = NoEnvelope
     \/ d.work[l].env = e /\ Takes(d, l, disk', tried')

LEMMA WorkerStep ==
  ASSUME Inv, NEW p \in Process, NEW l \in Lane, NEW e \in Envelope, NEW d, Moves(p, l, e, d)
  PROVE  Inv' /\ (d.work[l].pc # "process" => Steady)
<1> DEFINE c == chan[p]
<1>0. /\ chan[p].work[l].pc # "idle"
      /\ chan[p].work[l].env = e \/ (e \in Pending(disk) /\ ~chan[p].poisoned)
      /\ chan' = [chan EXCEPT ![p] = d] /\ Works(chan[p], d, l)
      /\ chan[p].poisoned => d.poisoned
      /\ ~d.poisoned => p \in fresh' /\ d.mem = disk'
      /\ setup' = setup /\ lease' = lease /\ acked' = acked
      /\ fresh' \subseteq Process /\ disk' \in Inbox /\ Elsewhere({e}, disk, disk')
      /\ tried' \in [Envelope -> Attempts] /\ newer' \in [Envelope -> 0..MaxReceipts]
      /\ \A x \in Envelope \ {e} : tried'[x] = tried[x]
      /\ Recalls(disk', tried', newer')
      /\ \/ e \in Entered(disk') \/ tried'[e] = "done"
         \/ disk' = disk /\ tried' = tried
      /\ \/ d.work[l].env = NoEnvelope
         \/ d.work[l].env = e /\ Takes(d, l, disk', tried')
  BY DEF Moves
<1>1. /\ Server(c, disk, tried) /\ disk \in Inbox /\ c \in Channel /\ Modes(c)
      /\ chan \in [Process -> Channel] /\ acked \subseteq Envelope
      /\ Keeps(acked, disk, tried)
  BY DEF Inv, Typed, Server
<1>2. c.life \notin Resting
  BY <1>0, <1>1 DEF Modes, Quiet, Idle
<1>3. (\A m \in Lane \ {l} : c.work[m].env # e) /\ e \notin c.aborted
  BY <1>0, <1>2, Beside DEF Resting
<1>4. d \in Channel /\ Modes(d) /\ d.life \notin Resting
  BY <1>0, <1>1, <1>2 DEF Works, Modes, Resting
<1>5. \A m \in Lane : \/ d.work[m].env = NoEnvelope
                      \/ d.work[m] = c.work[m] /\ c.work[m].env # e
                      \/ d.work[m].env = e /\ Takes(d, m, disk', tried')
  <2>1. \A m \in Lane \ {l} : d.work[m] = c.work[m] \/ d.work[m].env = NoEnvelope
    BY <1>0, TaskTypes DEF Works
  <2> QED BY <1>0, <1>3, <2>1
<1>6. \A k, m \in Lane : d.work[k].env = e /\ d.work[m].env = e => k = m
  <2>1. \A m \in Lane \ {l} : d.work[m] = c.work[m] \/ d.work[m].env = NoEnvelope
    BY <1>0, TaskTypes DEF Works
  <2>2. e # NoEnvelope
    BY InboxAssumption DEF InboxAssumption
  <2> QED BY <1>0, <1>3, <2>1, <2>2
<1>11. e \in c.toAck \cup acked => e \in Entered(disk') \/ tried'[e] = "done"
  BY <1>0, <1>1 DEF Server, Keeps
<1>7. Server(d, disk', tried')
  <2>1. d.aborted = c.aborted /\ d.toAck \subseteq c.toAck
    BY <1>0 DEF Works
  <2>2. /\ e \notin d.aborted /\ d.aborted \subseteq c.aborted \cup {e}
        /\ d.toAck \subseteq c.toAck \cup {e}
    BY <1>0, <1>3, <2>1
  <2>3. e \in d.toAck => e \in Entered(disk') \/ tried'[e] = "done"
    BY <1>11, <2>1
  <2> HIDE DEF c
  <2> QED BY <1>0, <1>1, <1>2, <1>4, <1>5, <1>6, <2>2, <2>3, ServerStep DEF Resting, c
<1>8. Keeps(acked', disk', tried')
  BY <1>0, <1>1, <1>11, KeepsElsewhere
<1>9. Inv'
  BY <1>0, <1>1, <1>2, <1>4, <1>7, <1>8, Preserve DEF Resting
<1>10. ASSUME d.work[l].pc # "process" PROVE Steady
  <2>1. chan'[p] = d /\ \A q \in Process : q # p => chan'[q] = chan[q]
    BY <1>0, <1>1
  <2>2. \A m \in Lane : d.work[m].pc = "process" => c.work[m].pc = "process"
    BY <1>0, <1>10, TaskTypes DEF Works
  <2> QED BY <2>1, <2>2 DEF Steady
<1> QED BY <1>9, <1>10

\* A step of a worker that has no entry and takes none.
LEMMA IdleStep ==
  ASSUME Inv, NEW p \in Process, NEW l \in Lane, chan[p].work[l].pc \in {"claim", "end"},
         NEW d, chan' = [chan EXCEPT ![p] = d], Works(chan[p], d, l),
         d.work[l].env = NoEnvelope, chan[p].poisoned => d.poisoned,
         ~d.poisoned => p \in fresh' /\ d.mem = disk',
         setup' = setup, lease' = lease, acked' = acked, tried' = tried, newer' = newer,
         disk' = disk, fresh' \subseteq Process
  PROVE  Inv' /\ Steady
<1> DEFINE c == chan[p]
<1>1. /\ Server(c, disk, tried) /\ disk \in Inbox /\ c \in Channel /\ Modes(c)
      /\ chan \in [Process -> Channel] /\ acked \subseteq Envelope
      /\ tried \in [Envelope -> Attempts] /\ newer \in [Envelope -> 0..MaxReceipts]
      /\ Keeps(acked, disk, tried) /\ Recalls(disk, tried, newer)
  BY DEF Inv, Typed, Server
<1>2. c.life \notin Resting
  BY <1>1 DEF Modes, Quiet, Idle
<1>3. d \in Channel /\ Modes(d) /\ d.life \notin Resting
  BY <1>1, <1>2 DEF Works, Modes, Resting
<1>4. \A m \in Lane : d.work[m] = c.work[m] \/ d.work[m].env = NoEnvelope
  BY TaskTypes DEF Works
<1>5. Server(d, disk, tried)
  <2>1. d.aborted \subseteq c.aborted /\ d.toAck \subseteq c.toAck /\ d.life = c.life
    BY DEF Works
  <2>2. Keeps(d.toAck, disk, tried)
    BY <1>1, <2>1 DEF Server, Keeps
  <2> HIDE DEF c
  <2> QED BY <1>1, <1>3, <1>4, <2>1, <2>2, ServerMode DEF c
<1>6. Inv'
  BY <1>1, <1>2, <1>3, <1>5, Preserve DEF Resting
<1>7. Steady
  <2>1. chan'[p] = d /\ \A q \in Process : q # p => chan'[q] = chan[q]
    BY <1>1
  <2>2. \A m \in Lane : d.work[m].pc = "process" => c.work[m].pc = "process"
    <3>1. d.work[l].pc # "process"
      BY <1>3, InboxAssumption DEF Channel, Task, Holding, InboxAssumption
    <3> QED BY <3>1, TaskTypes DEF Works
  <2> QED BY <2>1, <2>2 DEF Steady
<1> QED BY <1>6, <1>7

LEMMA MutateWorks ==
  ASSUME Inv, NEW p \in Process, NEW l \in Lane, chan[p].life \notin Unserved,
         NEW throws, NEW writes, NEW returned, NEW thrown,
         Mutate(p, throws, writes, returned, thrown),
         Works(chan[p], returned, l), Remembers(chan[p], returned),
         Works(chan[p], thrown, l), Remembers(chan[p], thrown),
         ~throws /\ ~chan[p].poisoned /\ chan[p].mem = disk => writes \subseteq Inbox
  PROVE  LET c == chan[p]
             d == chan'[p]
         IN /\ chan' = [chan EXCEPT ![p] = d] /\ Works(c, d, l)
            /\ c.poisoned => d.poisoned
            /\ ~c.poisoned => c.mem = disk
            /\ disk' \in Inbox /\ fresh' \subseteq Process
            /\ ~d.poisoned => p \in fresh' /\ d.mem = disk'
            /\ \/ (throws \/ c.poisoned) /\ disk' = disk /\ d.work = thrown.work
               \/ /\ ~throws /\ ~c.poisoned /\ writes = {} /\ disk' = disk
                  /\ d.work = returned.work
               \/ ~throws /\ ~c.poisoned /\ disk' \in writes /\ d.work = returned.work
               \/ /\ ~throws /\ ~c.poisoned /\ d.poisoned /\ d.work = thrown.work
                  /\ disk' = disk \/ disk' \in writes
<1> DEFINE c == chan[p]
           d == chan'[p]
           broken == [thrown EXCEPT !.poisoned = TRUE]
           written(s) == [returned EXCEPT !.mem = s]
<1>1. /\ disk \in Inbox /\ fresh \subseteq Process /\ chan \in [Process -> Channel]
      /\ ~c.poisoned => p \in fresh /\ c.mem = disk
  BY DEF Inv, Typed, OneWriter, Unserved
<1>2. \A x : chan' = [chan EXCEPT ![p] = x] => d = x
  BY <1>1
<1>3. CASE (throws \/ c.poisoned) /\ Update(p, thrown) /\ UNCHANGED <<inbox, bounds>>
  <2>1. d = thrown /\ chan' = [chan EXCEPT ![p] = thrown]
    BY <1>2, <1>3 DEF Update
  <2> QED BY <1>1, <1>3, <2>1 DEF Remembers, inbox
<1>4. CASE /\ ~throws /\ ~c.poisoned /\ writes = {} /\ Update(p, returned)
           /\ UNCHANGED <<inbox, bounds>>
  <2>1. d = returned /\ chan' = [chan EXCEPT ![p] = returned]
    BY <1>2, <1>4 DEF Update
  <2> QED BY <1>1, <1>4, <2>1 DEF Remembers, inbox
<1>5. CASE /\ ~throws /\ ~c.poisoned /\ p \in fresh /\ fresh' = {p}
           /\ disk' \in writes /\ Update(p, written(disk'))
  <2>1. d = written(disk') /\ chan' = [chan EXCEPT ![p] = written(disk')]
    BY <1>2, <1>5 DEF Update
  <2>2. disk' \in Inbox
    BY <1>1, <1>5
  <2>3. /\ Works(returned, written(disk'), l) /\ written(disk').mem = disk'
        /\ written(disk').poisoned = returned.poisoned /\ written(disk').work = returned.work
    BY <2>2, FlagWorks DEF Works
  <2>4. Works(c, d, l)
    BY <2>1, <2>3, WorksTransitive
  <2> QED BY <1>1, <1>5, <2>1, <2>2, <2>3, <2>4 DEF Remembers
<1>6. CASE /\ ~throws /\ ~c.poisoned /\ writes # {} /\ Update(p, broken)
           /\ \/ UNCHANGED <<disk, fresh>>
              \/ disk' \in writes /\ fresh' = {}
  <2>1. d = broken /\ chan' = [chan EXCEPT ![p] = broken]
    BY <1>2, <1>6 DEF Update
  <2>2. Works(thrown, broken, l) /\ broken.poisoned /\ broken.work = thrown.work
    BY FlagWorks DEF Works
  <2>3. Works(c, d, l)
    BY <2>1, <2>2, WorksTransitive
  <2>4. disk' \in Inbox /\ fresh' \subseteq Process
    BY <1>1, <1>6
  <2> QED BY <1>1, <1>6, <2>1, <2>2, <2>3, <2>4
<1> QED
  <2>1. \/ (throws \/ c.poisoned) /\ Update(p, thrown) /\ UNCHANGED <<inbox, bounds>>
        \/ /\ ~throws /\ ~c.poisoned /\ writes = {} /\ Update(p, returned)
           /\ UNCHANGED <<inbox, bounds>>
        \/ /\ ~throws /\ ~c.poisoned /\ p \in fresh /\ fresh' = {p}
           /\ disk' \in writes /\ Update(p, written(disk'))
        \/ /\ ~throws /\ ~c.poisoned /\ writes # {} /\ Update(p, broken)
           /\ \/ UNCHANGED <<disk, fresh>>
              \/ disk' \in writes /\ fresh' = {}
    BY DEF Mutate, inbox
  <2> QED BY <1>3, <1>4, <1>5, <1>6, <2>1

---------------------------------------------------------------------------
(* The workers                                                             *)

LEMMA Serves ==
  ASSUME Inv, NEW p \in Process
  PROVE  /\ chan[p] \in Channel /\ Modes(chan[p]) /\ disk \in Inbox
         /\ chan[p].toAck # {} => chan[p].running
         /\ \A l \in Lane : chan[p].work[l].pc # "idle" => chan[p].life \notin Resting
         /\ chan[p].running => chan[p].life = "serving"
BY DEF Inv, Typed, Server, Modes, Quiet, Idle

LEMMA Holds ==
  ASSUME Inv, NEW p \in Process, NEW l \in Lane, chan[p].work[l].pc \in Holding
  PROVE  LET e == chan[p].work[l].env
         IN /\ e \in Envelope /\ e # NoEnvelope
            /\ chan[p].work[l].pc # "fail" \/ ~chan[p].poisoned =>
                 /\ Row(e, "processing", l) \in Rows(disk)
                 /\ e \in Entered(disk) /\ e \in Processing(disk) /\ e \notin Pending(disk)
<1> DEFINE e == chan[p].work[l].env
<1>1. Server(chan[p], disk, tried) /\ disk \in Inbox
  BY DEF Inv, Typed
<1>2. chan[p].work[l] \in Task
  BY <1>1 DEF Server, Channel
<1>3. e \in Envelope /\ e # NoEnvelope
  BY <1>2, InboxAssumption DEF Task, InboxAssumption
<1>4. ASSUME chan[p].work[l].pc # "fail" \/ ~chan[p].poisoned
      PROVE  Row(e, "processing", l) \in Rows(disk)
  BY <1>1, <1>4 DEF Server, Owned, Owns
<1>5. Row(e, "processing", l).env = e /\ Row(e, "processing", l).status = "processing"
  BY DEF Row
<1>6. /\ \A r1, r2 \in Rows(disk) : r1.env = r2.env => r1 = r2
      /\ Entered(disk) = {r.env : r \in Rows(disk)}
      /\ \A x : x \in Processing(disk)
                  <=> \E r \in Rows(disk) : r.env = x /\ r.status = "processing"
      /\ \A x : x \in Pending(disk) <=> \E r \in Rows(disk) : r.env = x /\ r.status = "pending"
  BY <1>1, RowFacts
<1> HIDE DEF e
<1>7. ASSUME Row(e, "processing", l) \in Rows(disk)
      PROVE  e \in Entered(disk) /\ e \in Processing(disk) /\ e \notin Pending(disk)
  BY <1>5, <1>6, <1>7
<1> QED BY <1>3, <1>4, <1>7 DEF e

\* A step of a worker that writes nothing.
LEMMA UnwrittenStep ==
  ASSUME Inv, NEW p \in Process, NEW l \in Lane,
         chan[p].work[l].pc \in Holding \ {"fail"},
         NEW d, chan' = [chan EXCEPT ![p] = d], Works(chan[p], d, l), Remembers(chan[p], d),
         UNCHANGED <<setup, inbox, lease, acked, newer>>,
         NEW how \in Attempts,
         tried' = tried \/ tried' = [tried EXCEPT ![chan[p].work[l].env] = how],
         \/ d.work[l].env = NoEnvelope
         \/ /\ d.work[l].env = chan[p].work[l].env
            /\ d.work[l].pc = "release" =>
                 l = "control" /\ tried'[chan[p].work[l].env] = "declined"
  PROVE  Inv' /\ (d.work[l].pc # "process" => Steady)
<1> DEFINE e == chan[p].work[l].env
<1>1. /\ e \in Envelope /\ Row(e, "processing", l) \in Rows(disk) /\ e \in Entered(disk)
      /\ e \notin Pending(disk)
  BY Holds
<1>2. /\ disk \in Inbox /\ fresh \subseteq Process /\ Recalls(disk, tried, newer)
      /\ tried \in [Envelope -> Attempts] /\ newer \in [Envelope -> 0..MaxReceipts]
      /\ ~chan[p].poisoned => chan[p].life \in Unserved \/ (p \in fresh /\ chan[p].mem = disk)
  BY DEF Inv, Typed, OneWriter, Unserved
<1>3. chan[p].work[l].pc # "idle" /\ chan[p].life \notin Unserved
  BY Serves DEF Resting, Holding
<1> HIDE DEF e
<1>4. /\ disk' = disk /\ fresh' = fresh /\ newer' = newer
      /\ tried' \in [Envelope -> Attempts] /\ \A x \in Envelope \ {e} : tried'[x] = tried[x]
  BY <1>1, <1>2 DEF inbox, e
<1>5. Elsewhere({e}, disk, disk')
  BY <1>4 DEF Elsewhere
<1>6. Recalls(disk', tried', newer')
  <2>1. /\ disk' \in Inbox /\ disk'.receipts = disk.receipts
        /\ e \in Entered(disk') /\ e \notin Pending(disk') /\ newer' = newer
    BY <1>1, <1>2, <1>4
  <2>2. \A x \in Envelope \ {e} : tried'[x] = tried[x]
    BY <1>4
  <2>3. Recalls(disk', tried', newer)
    BY <1>1, <1>2, <1>5, <2>1, <2>2, RecallsWrite
  <2> QED BY <2>1, <2>3
<1>7. d.work[l].env = NoEnvelope \/ (d.work[l].env = e /\ Takes(d, l, disk', tried'))
  <2>1. CASE d.work[l].env = NoEnvelope
    BY <2>1
  <2>2. CASE d.work[l].env # NoEnvelope
    <3>1. d.work[l].env = e /\ Row(d.work[l].env, "processing", l) \in Rows(disk')
      BY <1>1, <1>4, <2>2 DEF e
    <3>2. d.work[l].pc = "release" => l = "control" /\ tried'[d.work[l].env] = "declined"
      BY <2>2, <3>1 DEF e
    <3> QED BY <3>1, <3>2 DEF Takes, Owns
  <2> QED BY <2>1, <2>2
<1>8. /\ setup' = setup /\ lease' = lease /\ acked' = acked
      /\ fresh' \subseteq Process /\ disk' \in Inbox
      /\ newer' \in [Envelope -> 0..MaxReceipts]
      /\ e \in Entered(disk') \/ tried'[e] = "done"
  BY <1>1, <1>2, <1>4
<1>9. /\ chan[p].poisoned => d.poisoned
      /\ ~d.poisoned => p \in fresh' /\ d.mem = disk'
      /\ chan[p].work[l].env = e
  BY <1>2, <1>3, <1>4 DEF Remembers, e
<1>10. Moves(p, l, e, d)
  BY <1>1, <1>3, <1>4, <1>5, <1>6, <1>7, <1>8, <1>9 DEF Moves
<1> QED BY <1>1, <1>10, WorkerStep

LEMMA DispatchPreserves ==
  ASSUME Inv, NEW p \in Process, Dispatch(p) PROVE Inv' /\ Steady
<1> DEFINE c == chan[p]
           w == c.work["primary"]
           g == Go(c, "primary", At("dispatched", w.env))
           d == Wake(g, {"control"})
<1>1. /\ w.pc = "process" /\ chan' = [chan EXCEPT ![p] = d]
      /\ UNCHANGED <<setup, inbox, lease, acked, newer>> /\ tried' = tried
  BY DEF Dispatch, Update, history
<1>2. "primary" \in Lane /\ {"control"} \in SUBSET Lane /\ w.pc \in Holding \ {"fail"}
      /\ "never" \in Attempts
  BY <1>1 DEF Lane, Holding, Attempts
<1>3. w.env \in Envelope /\ c \in Channel /\ (c.toAck # {} => c.running)
  BY <1>2, Holds, Serves
<1>4. At("dispatched", w.env) \in Task
  BY <1>3, TaskTypes DEF Holding
<1> HIDE DEF c, w
<1>5. /\ Works(c, g, "primary") /\ Remembers(c, g) /\ g.work["primary"] = At("dispatched", w.env)
      /\ g.toAck = c.toAck /\ g.running = c.running
  BY <1>2, <1>3, <1>4, GoWorks
<1> HIDE DEF g
<1>6. /\ Works(g, d, "primary") /\ Remembers(g, d)
      /\ d.work["primary"] = g.work["primary"] \/ g.work["primary"] = Idle
  BY <1>2, <1>3, <1>5, WakeWorks DEF Works
<1> HIDE DEF d
<1>7. d.work["primary"] = At("dispatched", w.env)
  BY <1>5, <1>6 DEF At, Idle
<1>8. Works(c, d, "primary") /\ Remembers(c, d)
  BY <1>5, <1>6, WorksTransitive DEF Remembers
<1>9. d.work["primary"].env = w.env /\ d.work["primary"].pc = "dispatched"
  BY <1>7 DEF At
<1> QED BY <1>1, <1>2, <1>8, <1>9, UnwrittenStep DEF c, w

LEMMA ProcessedPreserves ==
  ASSUME Inv, NEW p \in Process, NEW l \in Lane, Processed(p, l) PROVE Inv' /\ Steady
<1> DEFINE c == chan[p]
           w == c.work[l]
           d == Go(c, l, At("complete", w.env))
<1>1. /\ w.pc \in {"process", "dispatched"} /\ chan' = [chan EXCEPT ![p] = d]
      /\ UNCHANGED <<setup, inbox, lease, acked, newer>> /\ tried' = tried
  BY DEF Processed, Update, history
<1>2. w.pc \in Holding \ {"fail"} /\ "never" \in Attempts
  BY <1>1 DEF Holding, Attempts
<1>3. w.env \in Envelope /\ c \in Channel /\ (c.toAck # {} => c.running)
  BY <1>2, Holds, Serves
<1>4. At("complete", w.env) \in Task
  BY <1>3, TaskTypes DEF Holding
<1> HIDE DEF c, w
<1>5. Works(c, d, l) /\ Remembers(c, d) /\ d.work[l] = At("complete", w.env)
  BY <1>3, <1>4, GoWorks
<1> HIDE DEF d
<1>6. d.work[l].env = w.env /\ d.work[l].pc = "complete"
  BY <1>5 DEF At
<1> QED BY <1>1, <1>2, <1>5, <1>6, UnwrittenStep DEF c, w

LEMMA DeclinedPreserves ==
  ASSUME Inv, NEW p \in Process, Declined(p) PROVE Inv' /\ Steady
<1> DEFINE c == chan[p]
           w == c.work["control"]
           g == Go(c, "control", At("release", w.env))
           P == g.primaryOnly \cup {w.env}
           d == [g EXCEPT !.primaryOnly = P]
<1>1. /\ w.pc = "process" /\ chan' = [chan EXCEPT ![p] = d]
      /\ UNCHANGED <<setup, inbox, lease, acked, newer>>
      /\ tried' = [tried EXCEPT ![w.env] = "declined"]
  BY DEF Declined, Update, Try
<1>2. w.pc \in Holding \ {"fail"} /\ "declined" \in Attempts /\ "control" \in Lane
  BY <1>1 DEF Holding, Attempts, Lane
<1>3. w.env \in Envelope /\ c \in Channel /\ (c.toAck # {} => c.running)
  BY <1>2, Holds, Serves
<1>4. At("release", w.env) \in Task
  BY <1>3, TaskTypes DEF Holding
<1>5. tried'[w.env] = "declined"
  BY <1>1, <1>3 DEF Inv, Typed
<1> HIDE DEF c, w
<1>6. /\ Works(c, g, "control") /\ Remembers(c, g) /\ g.work["control"] = At("release", w.env)
      /\ g.toAck = c.toAck /\ g.running = c.running
  BY <1>2, <1>3, <1>4, GoWorks
<1> HIDE DEF g
<1>7. P \in SUBSET Envelope
  BY <1>3, <1>6 DEF Works, Channel
<1> HIDE DEF P
<1>8. Works(g, d, "control") /\ Remembers(g, d) /\ d.work = g.work
  <2>1. g \in Channel /\ (g.toAck # {} => g.running)
    BY <1>3, <1>6 DEF Works
  <2> QED BY <1>2, <1>7, <2>1, FlagWorks
<1> HIDE DEF d
<1>9. Works(c, d, "control") /\ Remembers(c, d)
  BY <1>6, <1>8, WorksTransitive DEF Remembers
<1>10. d.work["control"].env = w.env /\ d.work["control"].pc = "release"
  BY <1>6, <1>8 DEF At
<1> QED BY <1>1, <1>2, <1>5, <1>9, <1>10, UnwrittenStep DEF c, w

LEMMA ThrewPreserves ==
  ASSUME Inv, NEW p \in Process, NEW l \in Lane, Threw(p, l) PROVE Inv' /\ Steady
<1> DEFINE c == chan[p]
           w == c.work[l]
           g == Go(c, l, At("fail", w.env))
           d == [g EXCEPT !.safe = FALSE]
<1>1. /\ w.pc \in {"process", "dispatched"} /\ chan' = [chan EXCEPT ![p] = d]
      /\ UNCHANGED <<setup, inbox, lease, acked, newer>>
      /\ tried' = [tried EXCEPT ![w.env] = "unknown"]
  BY DEF Threw, Update, Try
<1>2. w.pc \in Holding \ {"fail"} /\ "unknown" \in Attempts
  BY <1>1 DEF Holding, Attempts
<1>3. w.env \in Envelope /\ c \in Channel /\ (c.toAck # {} => c.running)
  BY <1>2, Holds, Serves
<1>4. At("fail", w.env) \in Task
  BY <1>3, TaskTypes DEF Holding
<1> HIDE DEF c, w
<1>5. /\ Works(c, g, l) /\ Remembers(c, g) /\ g.work[l] = At("fail", w.env)
      /\ g.toAck = c.toAck /\ g.running = c.running
  BY <1>3, <1>4, GoWorks
<1> HIDE DEF g
<1>6. Works(g, d, l) /\ Remembers(g, d) /\ d.work = g.work
  BY <1>3, <1>5, FlagWorks DEF Works
<1> HIDE DEF d
<1>7. Works(c, d, l) /\ Remembers(c, d)
  BY <1>5, <1>6, WorksTransitive DEF Remembers
<1>8. d.work[l].env = w.env /\ d.work[l].pc = "fail"
  BY <1>5, <1>6 DEF At
<1> QED BY <1>1, <1>2, <1>7, <1>8, UnwrittenStep DEF c, w

\* The worker that has come to its end: no wake-up is lost to it.
LEMMA FinishPreserves ==
  ASSUME Inv, NEW p \in Process, NEW l \in Lane, Finish(p, l) PROVE Inv' /\ Steady
<1> DEFINE c == chan[p]
           g == Go(c, l, Idle)
           R == g.requested \ {l}
           r == [g EXCEPT !.requested = R]
           d == IF l \in g.requested THEN Wake(r, {l}) ELSE r
<1>1. /\ c.work[l].pc = "end" /\ chan' = [chan EXCEPT ![p] = d]
      /\ UNCHANGED <<setup, disk, fresh, lease, acked, tried, newer>>
  BY DEF Finish, Update, history, inbox
<1>2. c \in Channel /\ (c.toAck # {} => c.running) /\ c.life \notin Unserved
  BY <1>1, Serves DEF Resting
<1>3. /\ fresh \subseteq Process /\ {l} \in SUBSET Lane
      /\ ~c.poisoned => p \in fresh /\ c.mem = disk
  BY <1>2 DEF Inv, Typed, OneWriter, Unserved
<1> HIDE DEF c
<1>4. /\ Works(c, g, l) /\ Remembers(c, g) /\ g.work[l] = Idle
      /\ g.toAck = c.toAck /\ g.running = c.running
  BY <1>2, TaskTypes, GoWorks
<1> HIDE DEF g
<1>5. R \in SUBSET Lane /\ g \in Channel /\ (g.toAck # {} => g.running)
  BY <1>2, <1>4 DEF Works, Channel
<1> HIDE DEF R
<1>6. /\ Works(g, r, l) /\ Remembers(g, r) /\ r.work = g.work
      /\ r.toAck = g.toAck /\ r.running = g.running
  BY <1>5, FlagWorks
<1> HIDE DEF r
<1>7. /\ Works(r, Wake(r, {l}), l) /\ Remembers(r, Wake(r, {l}))
      /\ \/ Wake(r, {l}).work[l] = r.work[l]
         \/ Wake(r, {l}).work[l] = At("claim", NoEnvelope)
  BY <1>3, <1>5, <1>6, WakeWorks DEF Works
<1>8. Works(c, r, l) /\ Remembers(c, r)
  BY <1>4, <1>6, WorksTransitive DEF Remembers
<1>9. Works(c, Wake(r, {l}), l) /\ Remembers(c, Wake(r, {l}))
  BY <1>7, <1>8, WorksTransitive DEF Remembers
<1>10. r.work[l].env = NoEnvelope /\ Wake(r, {l}).work[l].env = NoEnvelope
  BY <1>4, <1>6, <1>7, TaskTypes DEF Idle
<1>11. Works(c, d, l) /\ Remembers(c, d) /\ d.work[l].env = NoEnvelope
  BY <1>8, <1>9, <1>10
<1> HIDE DEF d
<1>12. /\ c.poisoned => d.poisoned
       /\ ~d.poisoned => p \in fresh' /\ d.mem = disk'
  BY <1>1, <1>3, <1>11 DEF Remembers
<1> QED BY <1>1, <1>3, <1>11, <1>12, IdleStep DEF c

\* The memories the mutations of a worker end with.
LEMMA EndsWorks ==
  ASSUME NEW c \in Channel, NEW l \in Lane, c.toAck # {} => c.running,
         NEW pc \in {"claim", "end"}, NEW lanes \in SUBSET Lane
  PROVE  LET r == Wake(Go(c, l, At(pc, NoEnvelope)), lanes)
         IN Works(c, r, l) /\ Remembers(c, r) /\ r.work[l] = At(pc, NoEnvelope)
<1> DEFINE g == Go(c, l, At(pc, NoEnvelope))
           r == Wake(g, lanes)
<1>1. At(pc, NoEnvelope) \in Task /\ At(pc, NoEnvelope) # Idle
  BY TaskTypes DEF At, Idle
<1>2. /\ Works(c, g, l) /\ Remembers(c, g) /\ g.work[l] = At(pc, NoEnvelope)
      /\ g.toAck = c.toAck /\ g.running = c.running
  BY <1>1, GoWorks
<1> HIDE DEF g
<1>3. g \in Channel /\ (g.toAck # {} => g.running)
  BY <1>2 DEF Works
<1>4. /\ Works(g, r, l) /\ Remembers(g, r)
      /\ r.work[l] = g.work[l] \/ g.work[l] = Idle
  BY <1>3, WakeWorks
<1> HIDE DEF r
<1>5. Works(c, r, l) /\ Remembers(c, r) /\ r.work[l] = At(pc, NoEnvelope)
  BY <1>1, <1>2, <1>4, WorksTransitive DEF Remembers
<1> QED BY <1>5 DEF r, g

LEMMA FailsWorks ==
  ASSUME NEW c \in Channel, NEW l \in Lane, c.toAck # {} => c.running, NEW e \in Envelope
  PROVE  LET b == [Go(c, l, At("fail", e)) EXCEPT !.safe = FALSE]
         IN Works(c, b, l) /\ Remembers(c, b) /\ b.work[l] = At("fail", e)
<1> DEFINE g == Go(c, l, At("fail", e))
           b == [g EXCEPT !.safe = FALSE]
<1>1. At("fail", e) \in Task
  BY TaskTypes DEF Holding
<1>2. /\ Works(c, g, l) /\ Remembers(c, g) /\ g.work[l] = At("fail", e)
      /\ g.toAck = c.toAck /\ g.running = c.running
  BY <1>1, GoWorks
<1> HIDE DEF g
<1>3. g \in Channel /\ (g.toAck # {} => g.running)
  BY <1>2 DEF Works
<1>4. Works(g, b, l) /\ Remembers(g, b) /\ b.work = g.work
  BY <1>3, FlagWorks
<1> HIDE DEF b
<1>5. Works(c, b, l) /\ Remembers(c, b) /\ b.work[l] = At("fail", e)
  BY <1>2, <1>4, WorksTransitive DEF Remembers
<1> QED BY <1>5 DEF b, g

LEMMA ClosesWorks ==
  ASSUME NEW c \in Channel, NEW l \in Lane, c.toAck # {} => c.running
  PROVE  LET f == FailClosed(Go(c, l, At("end", NoEnvelope)), TRUE)
         IN Works(c, f, l) /\ Remembers(c, f) /\ f.work[l] = At("end", NoEnvelope)
<1> DEFINE g == Go(c, l, At("end", NoEnvelope))
           f == FailClosed(g, TRUE)
<1>1. At("end", NoEnvelope) \in Task /\ TRUE \in BOOLEAN
  BY TaskTypes
<1>2. Works(c, g, l) /\ Remembers(c, g) /\ g.work[l] = At("end", NoEnvelope)
  BY <1>1, GoWorks
<1> HIDE DEF g
<1>3. g \in Channel
  BY <1>2 DEF Works
<1>4. Works(g, f, l) /\ Remembers(g, f) /\ f.work = g.work
  BY <1>1, <1>3, FailClosedWorks
<1> HIDE DEF f
<1>5. Works(c, f, l) /\ Remembers(c, f) /\ f.work[l] = At("end", NoEnvelope)
  BY <1>2, <1>4, WorksTransitive DEF Remembers
<1> QED BY <1>5 DEF f, g

\* The control worker gives a declined message back: it waits, and may be started.
LEMMA ReleasePreserves ==
  ASSUME Inv, NEW p \in Process, ReleaseEvent(p) PROVE Inv' /\ Steady
<1> DEFINE c == chan[p]
           l == "control"
           e == c.work[l].env
           d == chan'[p]
           returned == Wake(Go(c, l, At("end", NoEnvelope)), {"primary"})
           thrown == [Go(c, l, At("fail", e)) EXCEPT !.safe = FALSE]
           throws == InboxAborted(c) \/ Mismatch(e, c.mem)
           writes == Release(e, c.mem)
<1>1. /\ c.work[l].pc = "release" /\ Mutate(p, throws, writes, returned, thrown)
      /\ setup' = setup /\ lease' = lease /\ acked' = acked /\ tried' = tried /\ newer' = newer
  BY DEF ReleaseEvent, history
<1>2. l \in Lane /\ {"primary"} \in SUBSET Lane
  BY DEF Lane
<1>3. /\ e \in Envelope /\ Row(e, "processing", l) \in Rows(disk)
      /\ e \in Entered(disk) /\ e \notin Pending(disk)
  BY <1>1, <1>2, Holds DEF Holding
<1>4. c \in Channel /\ (c.toAck # {} => c.running) /\ c.life \notin Unserved /\ disk \in Inbox
  BY <1>1, <1>2, Serves DEF Resting
<1>5. /\ tried \in [Envelope -> Attempts] /\ newer \in [Envelope -> 0..MaxReceipts]
      /\ Recalls(disk, tried, newer) /\ tried[e] = "declined"
  BY <1>1, <1>2 DEF Inv, Typed, Server, Owned
<1>6. \A u \in Release(e, disk) :
        u \in Inbox /\ Elsewhere({e}, disk, u) /\ u.receipts = disk.receipts /\ e \in Entered(u)
  BY <1>3, <1>4, UnlaneWrites DEF Release
<1> HIDE DEF c, e, l
<1>7. /\ Works(c, returned, l) /\ Remembers(c, returned)
      /\ returned.work[l] = At("end", NoEnvelope)
  BY <1>2, <1>4, EndsWorks
<1>8. Works(c, thrown, l) /\ Remembers(c, thrown) /\ thrown.work[l] = At("fail", e)
  BY <1>2, <1>3, <1>4, FailsWorks
<1>9. ~c.poisoned /\ c.mem = disk => writes \subseteq Inbox
  BY <1>6
<1> HIDE DEF returned, thrown, throws
<1>10. /\ chan' = [chan EXCEPT ![p] = d] /\ Works(c, d, l)
       /\ c.poisoned => d.poisoned
       /\ ~c.poisoned => c.mem = disk
       /\ disk' \in Inbox /\ fresh' \subseteq Process
       /\ ~d.poisoned => p \in fresh' /\ d.mem = disk'
       /\ \/ disk' = disk /\ d.work = thrown.work
          \/ ~c.poisoned /\ disk' \in writes /\ d.work = returned.work
          \/ /\ ~c.poisoned /\ d.poisoned /\ d.work = thrown.work
             /\ disk' = disk \/ disk' \in writes
  <2>1. writes # {}
    BY DEF Release
  <2> HIDE DEF writes
  <2> QED BY <1>1, <1>2, <1>4, <1>7, <1>8, <1>9, <2>1, MutateWorks DEF c
<1>11. disk' = disk \/ disk' \in Release(e, disk)
  BY <1>10
<1>12. /\ Elsewhere({e}, disk, disk') /\ disk'.receipts = disk.receipts /\ e \in Entered(disk')
  BY <1>3, <1>6, <1>11 DEF Elsewhere
<1>13. Recalls(disk', tried', newer')
  <2>1. Repeatable(e, tried', newer)
    BY <1>1, <1>5 DEF Repeatable
  <2>2. \A x \in Envelope \ {e} : tried'[x] = tried[x]
    BY <1>1
  <2>3. Recalls(disk', tried', newer)
    BY <1>3, <1>4, <1>5, <1>10, <1>12, <2>1, <2>2, RecallsWrite
  <2> QED BY <1>1, <2>3
<1>14. \/ d.work[l] = At("end", NoEnvelope)
       \/ d.work[l] = At("fail", e) /\ (disk' = disk \/ d.poisoned)
  BY <1>7, <1>8, <1>10
<1> HIDE DEF d
<1>15. d.work[l].env = NoEnvelope \/ (d.work[l].env = e /\ Takes(d, l, disk', tried'))
  BY <1>3, <1>14, TaskTypes DEF Takes, Owns
<1>16. Moves(p, l, e, d)
  BY <1>1, <1>3, <1>5, <1>10, <1>12, <1>13, <1>15 DEF Moves, c, e
<1>17. d.work[l].pc # "process"
  BY <1>14, TaskTypes
<1> QED BY <1>2, <1>3, <1>16, <1>17, WorkerStep

\* failProcessing: whether or not the mark can be written, the worker ends.
LEMMA FailPreserves ==
  ASSUME Inv, NEW p \in Process, NEW l \in Lane, FailEvent(p, l) PROVE Inv' /\ Steady
<1> DEFINE c == chan[p]
           e == c.work[l].env
           d == chan'[p]
           ended == FailClosed(Go(c, l, At("end", NoEnvelope)), TRUE)
           throws == Mismatch(e, c.mem) /\ ~AlreadyFailed(e, c.mem)
           writes == IF AlreadyFailed(e, c.mem) THEN {} ELSE Fail(e, c.mem)
<1>1. /\ c.work[l].pc = "fail" /\ Mutate(p, throws, writes, ended, ended)
      /\ setup' = setup /\ lease' = lease /\ acked' = acked /\ tried' = tried /\ newer' = newer
  BY DEF FailEvent, history
<1>2. /\ e \in Envelope
      /\ ~c.poisoned => e \in Entered(disk) /\ e \notin Pending(disk)
  BY <1>1, Holds DEF Holding
<1>3. c \in Channel /\ (c.toAck # {} => c.running) /\ c.life \notin Unserved /\ disk \in Inbox
  BY <1>1, Serves DEF Resting
<1>4. /\ tried \in [Envelope -> Attempts] /\ newer \in [Envelope -> 0..MaxReceipts]
      /\ Recalls(disk, tried, newer)
  BY DEF Inv, Typed
<1>5. \A u \in Fail(e, disk) :
        /\ u \in Inbox /\ Elsewhere({e}, disk, u) /\ u.receipts = disk.receipts
        /\ Entered(u) = Entered(disk)
        /\ e \in Entered(disk) => Row(e, "failed", "none") \in Rows(u)
  BY <1>3, UnlaneWrites DEF Fail
<1> HIDE DEF c, e
<1>6. Works(c, ended, l) /\ Remembers(c, ended) /\ ended.work[l] = At("end", NoEnvelope)
  BY <1>3, ClosesWorks
<1>7. /\ ~c.poisoned /\ c.mem = disk => writes \subseteq Inbox
      /\ ~c.poisoned /\ c.mem = disk => writes \subseteq Fail(e, disk)
  BY <1>5
<1> HIDE DEF ended, throws, writes
<1>8. /\ chan' = [chan EXCEPT ![p] = d] /\ Works(c, d, l)
      /\ c.poisoned => d.poisoned
      /\ ~c.poisoned => c.mem = disk
      /\ disk' \in Inbox /\ fresh' \subseteq Process
      /\ ~d.poisoned => p \in fresh' /\ d.mem = disk'
      /\ d.work = ended.work
      /\ disk' = disk \/ (~c.poisoned /\ disk' \in writes)
  BY <1>1, <1>3, <1>6, <1>7, MutateWorks DEF c
<1>9. d.work[l].env = NoEnvelope /\ d.work[l].pc # "process" /\ c.work[l].env = e
  BY <1>6, <1>8, TaskTypes DEF e
<1>10. Elsewhere({e}, disk, disk')
  BY <1>5, <1>7, <1>8 DEF Elsewhere
<1>11. Recalls(disk', tried', newer') /\ (e \in Entered(disk') \/ (disk' = disk /\ tried' = tried))
  <2>1. CASE disk' = disk
    BY <1>1, <1>4, <2>1
  <2>2. CASE ~c.poisoned /\ disk' \in Fail(e, disk)
    <3>1. /\ disk'.receipts = disk.receipts /\ Row(e, "failed", "none") \in Rows(disk')
          /\ e \in Entered(disk')
      BY <1>2, <1>5, <2>2
    <3>2. e \notin Pending(disk')
      <4>1. /\ \A r1, r2 \in Rows(disk') : r1.env = r2.env => r1 = r2
            /\ \A x : x \in Pending(disk')
                         <=> \E r \in Rows(disk') : r.env = x /\ r.status = "pending"
        BY <1>8, RowFacts
      <4>2. Row(e, "failed", "none").env = e /\ Row(e, "failed", "none").status = "failed"
        BY DEF Row
      <4> QED BY <3>1, <4>1, <4>2
    <3>3. \A x \in Envelope \ {e} : tried'[x] = tried[x]
      BY <1>1
    <3>4. Recalls(disk', tried', newer)
      BY <1>2, <1>3, <1>4, <1>8, <1>10, <3>1, <3>2, <3>3, RecallsWrite
    <3> QED BY <1>1, <3>1, <3>4
  <2> QED BY <1>7, <1>8, <2>1, <2>2
<1> HIDE DEF d
<1>12. Moves(p, l, e, d)
  BY <1>1, <1>2, <1>4, <1>8, <1>9, <1>10, <1>11 DEF Moves, c
<1> QED BY <1>2, <1>9, <1>12, WorkerStep

\* The receipt is written: the entry is gone, and the event is done.  If it cannot
\* be written the outcome is unknown, and the worker fails.
LEMMA CompletePreserves ==
  ASSUME Inv, NEW p \in Process, NEW l \in Lane, CompleteEvent(p, l) PROVE Inv' /\ Steady
<1> DEFINE c == chan[p]
           e == c.work[l].env
           d == chan'[p]
           pc == IF l = "primary" /\ c.abort = "none" THEN "claim" ELSE "end"
           returned == Wake(Go(c, l, At(pc, NoEnvelope)), WokenBy(l))
           thrown == [Go(c, l, At("fail", e)) EXCEPT !.safe = FALSE]
           already == AlreadyComplete(e, c.mem)
           throws == InboxAborted(c) \/ (Mismatch(e, c.mem) /\ ~already)
           writes == IF already THEN {} ELSE Complete(e, c.mem)
<1>1. /\ c.work[l].pc = "complete" /\ Mutate(p, throws, writes, returned, thrown)
      /\ setup' = setup /\ lease' = lease /\ acked' = acked
      /\ \/ e \notin Entered(disk') /\ tried' = [tried EXCEPT ![e] = "done"]
            /\ newer' = Counted(newer, e)
         \/ e \in Entered(disk') /\ tried' = [tried EXCEPT ![e] = "unknown"] /\ newer' = newer
  BY DEF CompleteEvent, Try, CountCompletion, Counted
<1>2. /\ e \in Envelope /\ Row(e, "processing", l) \in Rows(disk)
      /\ e \in Entered(disk) /\ e \notin Pending(disk)
  BY <1>1, Holds DEF Holding
<1>3. c \in Channel /\ (c.toAck # {} => c.running) /\ c.life \notin Unserved /\ disk \in Inbox
  BY <1>1, Serves DEF Resting
<1>4. /\ tried \in [Envelope -> Attempts] /\ newer \in [Envelope -> 0..MaxReceipts]
      /\ Recalls(disk, tried, newer)
  BY DEF Inv, Typed
<1>5. \A u \in Complete(e, disk) :
        u \in Inbox /\ Elsewhere({e}, disk, u) /\ e \notin Entered(u) /\ Receipts(e, disk, u)
  BY <1>2, <1>3, CompleteWrites
<1>6. pc \in {"claim", "end"} /\ WokenBy(l) \in SUBSET Lane
  BY DEF WokenBy, Lane
<1> HIDE DEF c, e, pc
<1>7. Works(c, returned, l) /\ Remembers(c, returned) /\ returned.work[l] = At(pc, NoEnvelope)
  BY <1>3, <1>6, EndsWorks
<1>8. Works(c, thrown, l) /\ Remembers(c, thrown) /\ thrown.work[l] = At("fail", e)
  BY <1>2, <1>3, FailsWorks
<1>9. ~c.poisoned /\ c.mem = disk => writes = Complete(e, disk) /\ writes \subseteq Inbox
  BY <1>2, <1>5 DEF AlreadyComplete
<1>10. Complete(e, disk) # {}
  BY DEF Complete
<1> HIDE DEF returned, thrown, throws, writes
<1>11. /\ chan' = [chan EXCEPT ![p] = d] /\ Works(c, d, l)
       /\ c.poisoned => d.poisoned
       /\ ~c.poisoned => c.mem = disk
       /\ disk' \in Inbox /\ fresh' \subseteq Process
       /\ ~d.poisoned => p \in fresh' /\ d.mem = disk'
       /\ \/ disk' = disk /\ d.work = thrown.work
          \/ ~c.poisoned /\ disk' = disk /\ writes = {}
          \/ ~c.poisoned /\ disk' \in writes /\ d.work = returned.work
          \/ /\ ~c.poisoned /\ d.poisoned /\ d.work = thrown.work
             /\ disk' = disk \/ disk' \in writes
  BY <1>1, <1>3, <1>7, <1>8, <1>9, MutateWorks DEF c
<1>12. \/ disk' = disk /\ d.work = thrown.work
       \/ /\ disk' \in Complete(e, disk)
          /\ d.work = returned.work \/ (d.poisoned /\ d.work = thrown.work)
  BY <1>9, <1>10, <1>11
<1>13. d.work[l].pc # "process"
  BY <1>6, <1>7, <1>8, <1>12, TaskTypes
<1>14. /\ c.work[l].env = e /\ c.work[l].pc # "idle"
       /\ tried' \in [Envelope -> Attempts] /\ \A x \in Envelope \ {e} : tried'[x] = tried[x]
  <2>1. "done" \in Attempts /\ "unknown" \in Attempts
    BY DEF Attempts
  <2>2. \E how \in Attempts : tried' = [tried EXCEPT ![e] = how]
    BY <1>1, <2>1
  <2> QED BY <1>1, <1>4, <2>2 DEF e
<1>15. newer' \in [Envelope -> 0..MaxReceipts]
  <2>1. Counted(newer, e) \in [Envelope -> 0..MaxReceipts]
    BY <1>4, InboxAssumption DEF Counted, InboxAssumption
  <2> QED BY <1>1, <1>4, <2>1
<1> HIDE DEF d
<1>16. CASE disk' = disk /\ d.work = thrown.work
  <2>1. e \in Entered(disk') /\ newer' = newer /\ Elsewhere({e}, disk, disk')
    BY <1>1, <1>2, <1>16 DEF Elsewhere
  <2>2. Recalls(disk', tried', newer)
    <3>1. disk'.receipts = disk.receipts /\ e \notin Pending(disk')
      BY <1>2, <1>16
    <3>2. /\ disk \in Inbox /\ disk' \in Inbox /\ e \in Envelope /\ Recalls(disk, tried, newer)
          /\ \A x \in Envelope \ {e} : tried'[x] = tried[x]
      BY <1>2, <1>3, <1>4, <1>11, <1>14
    <3> QED BY <2>1, <3>1, <3>2, RecallsWrite
  <2>3. d.work[l].env = e /\ Takes(d, l, disk', tried')
    BY <1>2, <1>8, <1>16, TaskTypes DEF Takes, Owns
  <2>4. Moves(p, l, e, d)
    BY <1>1, <1>11, <1>14, <1>15, <2>1, <2>2, <2>3 DEF Moves, c
  <2> QED BY <1>2, <1>13, <2>4, WorkerStep
<1>17. CASE /\ disk' \in Complete(e, disk)
            /\ d.work = returned.work \/ (d.poisoned /\ d.work = thrown.work)
  <2>1. /\ Elsewhere({e}, disk, disk') /\ e \notin Entered(disk') /\ Receipts(e, disk, disk')
        /\ tried' = [tried EXCEPT ![e] = "done"] /\ newer' = Counted(newer, e)
    BY <1>1, <1>5, <1>17
  <2>2. Recalls(disk', tried', newer')
    BY <1>2, <1>3, <1>4, <1>11, <2>1, RecallsComplete
  <2>3. d.work[l].env = NoEnvelope \/ (d.work[l].env = e /\ Takes(d, l, disk', tried'))
    BY <1>7, <1>8, <1>17, TaskTypes DEF Takes, Owns
  <2>4. tried'[e] = "done"
    BY <1>2, <1>4, <2>1
  <2>5. Moves(p, l, e, d)
    BY <1>1, <1>11, <1>14, <1>15, <2>1, <2>2, <2>3, <2>4 DEF Moves, c
  <2> QED BY <1>2, <1>13, <2>5, WorkerStep
<1> QED BY <1>12, <1>16, <1>17

\* What was cancelled by the channel's own abort waits for the requeue.
LEMMA CancelledPreserves ==
  ASSUME Inv, NEW p \in Process, NEW l \in Lane, Cancelled(p, l) PROVE Inv' /\ Steady
<1> DEFINE c == chan[p]
           e == c.work[l].env
           g == Go(c, l, At("end", NoEnvelope))
           A == g.aborted \cup {e}
           d == [g EXCEPT !.aborted = A]
<1>1. /\ c.work[l].pc \in {"process", "dispatched"} /\ chan' = [chan EXCEPT ![p] = d]
      /\ setup' = setup /\ disk' = disk /\ fresh' = fresh /\ lease' = lease /\ acked' = acked
      /\ tried' = [tried EXCEPT ![e] = "cancelled"] /\ newer' = newer
  BY DEF Cancelled, Update, Try, inbox
<1>2. /\ e \in Envelope /\ e \in Entered(disk) /\ e \in Processing(disk)
      /\ e \notin Pending(disk) /\ e # NoEnvelope
  BY <1>1, Holds DEF Holding
<1>3. /\ c \in Channel /\ (c.toAck # {} => c.running) /\ c.life \notin Resting
      /\ disk \in Inbox /\ c.life \notin Unserved /\ Modes(c)
  BY <1>1, Serves DEF Resting
<1>4. /\ tried \in [Envelope -> Attempts] /\ newer \in [Envelope -> 0..MaxReceipts]
      /\ Recalls(disk, tried, newer) /\ Server(c, disk, tried) /\ Keeps(acked, disk, tried)
      /\ acked \subseteq Envelope /\ fresh \subseteq Process /\ chan \in [Process -> Channel]
      /\ ~c.poisoned => p \in fresh /\ c.mem = disk
  BY <1>3 DEF Inv, Typed, OneWriter, Unserved
<1>5. \A m \in Lane \ {l} : c.work[m].env # e
  BY <1>2, <1>3, Beside DEF Resting
<1> HIDE DEF c, e
<1>6. /\ Works(c, g, l) /\ Remembers(c, g) /\ g.work[l] = At("end", NoEnvelope)
      /\ g.toAck = c.toAck /\ g.running = c.running
      /\ \A m \in Lane \ {l} : g.work[m] = c.work[m]
  BY <1>3, TaskTypes, GoWorks
<1> HIDE DEF g
<1>7. A \in SUBSET Envelope /\ g \in Channel /\ A = c.aborted \cup {e}
  BY <1>2, <1>6 DEF Works, Channel
<1> HIDE DEF A
<1>8. /\ d \in Channel /\ d.life = g.life /\ d.running = g.running /\ d.toAck = g.toAck
      /\ d.mem = g.mem /\ d.poisoned = g.poisoned /\ d.work = g.work /\ d.aborted = A
  BY <1>7 DEF Channel
<1> HIDE DEF d
<1>9. /\ d.life = c.life /\ d.running = c.running /\ d.toAck = c.toAck
      /\ d.mem = c.mem /\ d.poisoned = c.poisoned
      /\ d.work[l].env = NoEnvelope /\ d.work[l].pc = "end"
      /\ \A m \in Lane \ {l} : d.work[m] = c.work[m]
  BY <1>6, <1>8, TaskTypes DEF Works, Remembers
<1>10. Modes(d)
  BY <1>3, <1>9 DEF Modes, Resting
<1>11. Elsewhere({e}, disk, disk') /\ disk' \in Inbox /\ fresh' \subseteq Process
  BY <1>1, <1>3, <1>4 DEF Elsewhere
<1>12. /\ tried' \in [Envelope -> Attempts] /\ tried'[e] = "cancelled"
       /\ \A x \in Envelope \ {e} : tried'[x] = tried[x]
  BY <1>1, <1>2, <1>4 DEF Attempts
<1>13. Server(d, disk', tried')
  <2>1. e \in Entered(disk') /\ e \in Processing(disk')
    BY <1>1, <1>2
  <2>2. \A m \in Lane : \/ d.work[m].env = NoEnvelope
                        \/ d.work[m] = c.work[m] /\ c.work[m].env # e
    BY <1>5, <1>9
  <2>3. \A m \in Lane : d.work[m].env # e
    BY <1>2, <2>2
  <2>4. d.aborted \subseteq c.aborted \cup {e} /\ d.toAck \subseteq c.toAck \cup {e}
    BY <1>7, <1>8, <1>9
  <2>5. c.life # "closing" /\ (c.poisoned => d.poisoned)
    BY <1>3, <1>9 DEF Resting
  <2> QED BY <1>2, <1>3, <1>4, <1>8, <1>10, <1>11, <1>12, <2>1, <2>2, <2>3, <2>4, <2>5, ServerStep
<1>14. Recalls(disk', tried', newer')
  <2>1. /\ disk'.receipts = disk.receipts /\ e \in Entered(disk') /\ e \notin Pending(disk')
        /\ newer' = newer
    BY <1>1, <1>2
  <2>2. Recalls(disk', tried', newer)
    BY <1>2, <1>3, <1>4, <1>11, <1>12, <2>1, RecallsWrite
  <2> QED BY <2>1, <2>2
<1>15. Keeps(acked', disk', tried')
  <2>1. e \in Entered(disk')
    BY <1>1, <1>2
  <2>2. Keeps(acked, disk', tried')
    BY <1>2, <1>3, <1>4, <1>11, <1>12, <2>1, KeepsElsewhere
  <2> QED BY <1>1, <2>2
<1>16. /\ d.life \notin Unserved /\ acked' \subseteq Envelope
       /\ newer' \in [Envelope -> 0..MaxReceipts]
       /\ ~d.poisoned => p \in fresh' /\ d.mem = disk'
  BY <1>1, <1>3, <1>4, <1>9
<1>17. Inv'
  BY <1>1, <1>3, <1>11, <1>12, <1>13, <1>14, <1>15, <1>16, Preserve DEF c
<1>18. Steady
  <2>1. chan'[p] = d /\ \A q \in Process : q # p => chan'[q] = chan[q]
    BY <1>1, <1>4
  <2> QED BY <1>9, <2>1 DEF Steady, c
<1> QED BY <1>17, <1>18

\* What NoBlindRepeat asks of a step.
Justified ==
  \A p \in Process, l \in Lane, e \in Envelope :
    Starts(p, l, e) =>
      /\ \/ tried[e] \in {"never", "declined", "cancelled", "requeued"}
         \/ tried[e] = "done" /\ newer[e] = MaxReceipts
      /\ \A q \in Process, m \in Lane : chan[q].work[m].env # e

LEMMA SteadyJustifies == ASSUME Inv, Steady PROVE Justified
<1>1. \A p \in Process, l \in Lane, e \in Envelope : ~Starts(p, l, e)
  BY DEF Steady, Starts, At
<1> QED BY <1>1 DEF Justified

\* The start of an event, of one that may be started and is on no worker.
LEMMA ClaimJustified ==
  ASSUME Inv, NEW p \in Process, NEW l \in Lane, NEW e \in Envelope, NEW d,
         chan[p].work[l].pc = "claim", e \in Pending(disk), ~chan[p].poisoned,
         chan' = [chan EXCEPT ![p] = d], Works(chan[p], d, l),
         d.work[l].env = e \/ d.work[l].pc # "process"
  PROVE  Justified
<1>1. /\ chan \in [Process -> Channel] /\ Recalls(disk, tried, newer) /\ OneWriter
      /\ \A q \in Process : Modes(chan[q]) /\ chan[q] \in Channel
  BY DEF Inv, Typed, Server
<1>2. chan[p].life \notin Resting /\ chan[p].work[l].pc # "idle"
  BY Serves
<1>3. chan'[p] = d /\ \A q \in Process : q # p => chan'[q] = chan[q]
  BY <1>1
<1>4. e # NoEnvelope /\ chan[p].work[l].env = NoEnvelope
  BY <1>1, InboxAssumption DEF Channel, Task, Holding, InboxAssumption
<1>5. \A m \in Lane : chan[p].work[m].env # e
  <2>1. \A m \in Lane \ {l} : chan[p].work[m].env # e
    BY <1>2, Beside DEF Resting
  <2> QED BY <1>4, <2>1
<1>6. \A q \in Process, m \in Lane : chan[q].work[m].env # e
  <2>1. \A q \in Process : q # p => chan[q].life \in Unserved
    BY <1>1, <1>2 DEF OneWriter, Unserved, Resting
  <2>2. \A q \in Process, m \in Lane : q # p => chan[q].work[m].env = NoEnvelope
    BY <1>1, <2>1 DEF Modes, Quiet, Idle, Resting
  <2> QED BY <1>4, <1>5, <2>2
<1>7. Repeatable(e, tried, newer)
  BY <1>1 DEF Recalls
<1>8. ASSUME NEW q \in Process, NEW m \in Lane, NEW x \in Envelope, Starts(q, m, x) PROVE x = e
  <2>1. chan[q].work[m].pc = "claim" /\ chan'[q].work[m] = At("process", x)
    BY <1>8 DEF Starts
  <2>2. chan'[q].work[m].pc = "process" /\ chan'[q].work[m].env = x
    BY <2>1, TaskTypes
  <2>3. q = p
    BY <1>3, <2>1, <2>2
  <2>4. m = l
    BY <1>3, <2>1, <2>2, <2>3, TaskTypes DEF Works
  <2> QED BY <1>3, <2>2, <2>3, <2>4
<1> QED BY <1>6, <1>7, <1>8 DEF Justified, Repeatable

LEMMA HeldWorks ==
  ASSUME NEW c \in Channel, NEW l \in Lane, c.toAck # {} => c.running, NEW e \in Envelope
  PROVE  LET h == [Go(c, l, At("process", e)) EXCEPT
                     !.primaryOnly = IF l = "primary" THEN @ \ {e} ELSE @]
         IN Works(c, h, l) /\ Remembers(c, h) /\ h.work[l] = At("process", e)
<1> DEFINE g == Go(c, l, At("process", e))
           P == IF l = "primary" THEN g.primaryOnly \ {e} ELSE g.primaryOnly
           h == [g EXCEPT !.primaryOnly = P]
<1>1. At("process", e) \in Task
  BY TaskTypes DEF Holding
<1>2. /\ Works(c, g, l) /\ Remembers(c, g) /\ g.work[l] = At("process", e)
      /\ g.toAck = c.toAck /\ g.running = c.running
  BY <1>1, GoWorks
<1>3. h = [g EXCEPT !.primaryOnly = IF l = "primary" THEN @ \ {e} ELSE @]
  OBVIOUS
<1> HIDE DEF g
<1>4. g \in Channel /\ (g.toAck # {} => g.running) /\ P \in SUBSET Envelope
  BY <1>2 DEF Works, Channel
<1> HIDE DEF P
<1>5. Works(g, h, l) /\ Remembers(g, h) /\ h.work = g.work
  BY <1>4, FlagWorks
<1> HIDE DEF h
<1>6. Works(c, h, l) /\ Remembers(c, h) /\ h.work[l] = At("process", e)
  BY <1>2, <1>5, WorksTransitive DEF Remembers
<1> QED BY <1>3, <1>6 DEF g

\* claimNext finds nothing to do: the worker ends.
LEMMA ClaimNothing ==
  ASSUME Inv, NEW p \in Process, NEW l \in Lane, chan[p].work[l].pc = "claim",
         Mutate(p, InboxAborted(chan[p]), {}, Go(chan[p], l, At("end", NoEnvelope)),
                FailClosed(Go(chan[p], l, At("end", NoEnvelope)), TRUE)),
         setup' = setup, lease' = lease, acked' = acked, tried' = tried, newer' = newer
  PROVE  Inv' /\ Steady
<1> DEFINE c == chan[p]
           d == chan'[p]
           throws == InboxAborted(c)
           ended == Go(c, l, At("end", NoEnvelope))
           failed == FailClosed(ended, TRUE)
<1>1. c \in Channel /\ (c.toAck # {} => c.running) /\ c.life \notin Unserved
  BY Serves DEF Resting
<1>2. Mutate(p, throws, {}, ended, failed)
  OBVIOUS
<1> HIDE DEF c
<1>3. Works(c, ended, l) /\ Remembers(c, ended) /\ ended.work[l] = At("end", NoEnvelope)
  BY <1>1, TaskTypes, GoWorks
<1>4. Works(c, failed, l) /\ Remembers(c, failed) /\ failed.work[l] = At("end", NoEnvelope)
  BY <1>1, ClosesWorks
<1> HIDE DEF ended, failed, throws
<1>5. {} \subseteq Inbox
  OBVIOUS
<1>6. /\ chan' = [chan EXCEPT ![p] = d] /\ Works(c, d, l)
      /\ c.poisoned => d.poisoned
      /\ disk' \in Inbox /\ fresh' \subseteq Process
      /\ ~d.poisoned => p \in fresh' /\ d.mem = disk'
      /\ d.work = failed.work \/ d.work = ended.work
      /\ disk' = disk \/ disk' \in {}
  BY <1>1, <1>2, <1>3, <1>4, <1>5, MutateWorks DEF c
<1>7. d.work[l].env = NoEnvelope /\ disk' = disk
  BY <1>3, <1>4, <1>6, TaskTypes
<1> HIDE DEF d
<1>8. chan[p].work[l].pc \in {"claim", "end"}
  OBVIOUS
<1> QED BY <1>6, <1>7, <1>8, IdleStep DEF c

\* claimNext writes the claim, and only then is the worker on the event.
LEMMA ClaimSomething ==
  ASSUME Inv, NEW p \in Process, NEW l \in Lane, chan[p].work[l].pc = "claim",
         NEW e \in Claimed(l, Eligible(l, chan[p]), chan[p].mem),
         Mutate(p, InboxAborted(chan[p]), {Claim(e, l, chan[p].mem)},
                [Go(chan[p], l, At("process", e)) EXCEPT
                    !.primaryOnly = IF l = "primary" THEN @ \ {e} ELSE @],
                FailClosed(Go(chan[p], l, At("end", NoEnvelope)), TRUE)),
         IF chan'[p].work[l].env = e THEN tried' = [tried EXCEPT ![e] = "running"]
         ELSE tried' = tried,
         setup' = setup, lease' = lease, acked' = acked, newer' = newer
  PROVE  Inv' /\ Justified
<1> DEFINE c == chan[p]
           d == chan'[p]
           throws == InboxAborted(c)
           held == [Go(c, l, At("process", e)) EXCEPT
                      !.primaryOnly = IF l = "primary" THEN @ \ {e} ELSE @]
           failed == FailClosed(Go(c, l, At("end", NoEnvelope)), TRUE)
           eligible == Eligible(l, c)
           writes == {Claim(e, l, c.mem)}
<1>1. /\ c \in Channel /\ (c.toAck # {} => c.running) /\ c.life \notin Unserved
      /\ c.mem \in Inbox /\ disk \in Inbox
  BY Serves DEF Resting, Channel
<1>2. Mutate(p, throws, writes, held, failed) /\ e \in Claimed(l, eligible, c.mem)
  OBVIOUS
<1>3. /\ tried \in [Envelope -> Attempts] /\ newer \in [Envelope -> 0..MaxReceipts]
      /\ Recalls(disk, tried, newer) /\ c.work[l].env = NoEnvelope
      /\ c.work[l].pc = "claim"
  BY <1>1, InboxAssumption DEF Inv, Typed, Channel, Task, Holding, InboxAssumption
<1> HIDE DEF c, eligible
<1>4. /\ Claim(e, l, c.mem) \in Inbox /\ Elsewhere({e}, c.mem, Claim(e, l, c.mem))
      /\ Row(e, "processing", l) \in Rows(Claim(e, l, c.mem))
      /\ Claim(e, l, c.mem).receipts = c.mem.receipts
      /\ e \in Pending(c.mem) /\ e \in Entered(c.mem)
  BY <1>1, <1>2, ClaimWrites
<1>5. e \in Envelope /\ e # NoEnvelope
  <2>1. Entered(c.mem) \subseteq Envelope
    BY <1>1, RowFacts
  <2> QED BY <1>4, <2>1, InboxAssumption DEF InboxAssumption
<1>6. Works(c, held, l) /\ Remembers(c, held) /\ held.work[l] = At("process", e)
  BY <1>1, <1>5, HeldWorks
<1>7. Works(c, failed, l) /\ Remembers(c, failed) /\ failed.work[l] = At("end", NoEnvelope)
  BY <1>1, ClosesWorks
<1> HIDE DEF held, failed, throws
<1>8. writes \subseteq Inbox /\ writes # {}
  BY <1>4
<1> HIDE DEF writes
<1>9. /\ chan' = [chan EXCEPT ![p] = d] /\ Works(c, d, l)
      /\ c.poisoned => d.poisoned
      /\ ~c.poisoned => c.mem = disk
      /\ disk' \in Inbox /\ fresh' \subseteq Process
      /\ ~d.poisoned => p \in fresh' /\ d.mem = disk'
      /\ \/ disk' = disk /\ d.work = failed.work
         \/ ~c.poisoned /\ disk' \in writes /\ d.work = held.work
         \/ /\ ~c.poisoned /\ d.poisoned /\ d.work = failed.work
            /\ disk' = disk \/ disk' \in writes
  BY <1>1, <1>2, <1>6, <1>7, <1>8, MutateWorks DEF c
<1>10. IF d.work[l].env = e THEN tried' = [tried EXCEPT ![e] = "running"] ELSE tried' = tried
  OBVIOUS
<1> HIDE DEF d
<1>11. CASE disk' = disk /\ d.work = failed.work
  <2>1. d.work[l].env = NoEnvelope
    BY <1>7, <1>11, TaskTypes
  <2>2. tried' = tried
    BY <1>5, <1>10, <2>1
  <2>3. chan[p].work[l].pc \in {"claim", "end"} /\ Works(chan[p], d, l)
        /\ (chan[p].poisoned => d.poisoned)
    BY <1>9 DEF c
  <2>4. Inv' /\ Steady
    BY <1>9, <1>11, <2>1, <2>2, <2>3, IdleStep
  <2> QED BY <2>4, SteadyJustifies
<1>12. CASE /\ ~c.poisoned /\ disk' = Claim(e, l, disk)
            /\ \/ d.work = held.work
               \/ d.work = failed.work /\ d.poisoned
  <2>1. c.mem = disk
    BY <1>9, <1>12
  <2>2. /\ Elsewhere({e}, disk, disk') /\ Row(e, "processing", l) \in Rows(disk')
        /\ disk'.receipts = disk.receipts /\ e \in Pending(disk) /\ e \in Entered(disk)
    BY <1>4, <1>12, <2>1
  <2>3. e \in Entered(disk') /\ e \notin Pending(disk')
    <3>1. /\ \A r1, r2 \in Rows(disk') : r1.env = r2.env => r1 = r2
          /\ Entered(disk') = {r.env : r \in Rows(disk')}
          /\ \A x : x \in Pending(disk')
                         <=> \E r \in Rows(disk') : r.env = x /\ r.status = "pending"
      BY <1>9, RowFacts
    <3>2. Row(e, "processing", l).env = e /\ Row(e, "processing", l).status = "processing"
      BY DEF Row
    <3> QED BY <2>2, <3>1, <3>2
  <2>4. /\ tried' \in [Envelope -> Attempts] /\ \A x \in Envelope \ {e} : tried'[x] = tried[x]
    <3>1. tried' = tried \/ tried' = [tried EXCEPT ![e] = "running"]
      BY <1>10
    <3> QED BY <1>3, <3>1 DEF Attempts
  <2>5. Recalls(disk', tried', newer')
    <3>1. Recalls(disk', tried', newer)
      BY <1>1, <1>3, <1>5, <1>9, <2>2, <2>3, <2>4, RecallsWrite
    <3> QED BY <3>1
  <2>6. \/ d.work[l] = At("end", NoEnvelope)
        \/ d.work[l] = At("process", e)
    BY <1>6, <1>7, <1>12
  <2>7. d.work[l].env = NoEnvelope \/ (d.work[l].env = e /\ Takes(d, l, disk', tried'))
    BY <2>2, <2>6, TaskTypes DEF Takes, Owns
  <2>8. Moves(p, l, e, d)
    BY <1>3, <1>9, <1>12, <2>2, <2>3, <2>4, <2>5, <2>7 DEF Moves, c
  <2>9. d.work[l].env = e \/ d.work[l].pc # "process"
    BY <2>6, TaskTypes
  <2>10. Justified
    BY <1>3, <1>5, <1>9, <1>12, <2>2, <2>9, ClaimJustified DEF c
  <2> QED BY <1>5, <2>8, <2>10, WorkerStep
<1>13. CASE disk' = disk /\ ~c.poisoned /\ d.poisoned /\ d.work = failed.work
  BY <1>11, <1>13
<1> QED BY <1>9, <1>11, <1>12, <1>13 DEF writes

LEMMA ClaimPreserves ==
  ASSUME Inv, NEW p \in Process, NEW l \in Lane, ClaimNext(p, l) PROVE Inv' /\ Justified
<1> DEFINE c == chan[p]
           ended == Go(c, l, At("end", NoEnvelope))
           found == Claimed(l, Eligible(l, c), c.mem)
           failed == FailClosed(ended, TRUE)
           held(e) == [Go(c, l, At("process", e)) EXCEPT
                         !.primaryOnly = IF l = "primary" THEN @ \ {e} ELSE @]
<1>1. c.work[l].pc = "claim" /\ setup' = setup /\ lease' = lease /\ acked' = acked /\ newer' = newer
  BY DEF ClaimNext
<1>2. CASE Mutate(p, InboxAborted(c), {}, ended, failed) /\ tried' = tried
  <2>1. Inv' /\ Steady
    BY <1>1, <1>2, ClaimNothing
  <2> QED BY <2>1, SteadyJustifies
<1>3. CASE \E e \in found :
             /\ Mutate(p, InboxAborted(c), {Claim(e, l, c.mem)}, held(e), failed)
             /\ IF chan'[p].work[l].env = e THEN tried' = [tried EXCEPT ![e] = "running"]
                ELSE tried' = tried
  <2>1. PICK e \in found :
             /\ Mutate(p, InboxAborted(c), {Claim(e, l, c.mem)}, held(e), failed)
             /\ IF chan'[p].work[l].env = e THEN tried' = [tried EXCEPT ![e] = "running"]
                ELSE tried' = tried
    BY <1>3
  <2> QED BY <1>1, <2>1, ClaimSomething
<1> QED BY <1>2, <1>3 DEF ClaimNext, Try

---------------------------------------------------------------------------
(* Admission                                                               *)

\* What admit makes of the channel's memory, and of the file.
Admitted(p, e, d) ==
  /\ chan' = [chan EXCEPT ![p] = d] /\ d \in Channel
  /\ d.life = chan[p].life /\ d.aborted = chan[p].aborted
  /\ d.running => chan[p].running
  /\ d.toAck # {} => d.running
  /\ \A m \in Lane : d.work[m] = chan[p].work[m] \/ d.work[m] = At("claim", NoEnvelope)
  /\ chan[p].poisoned => d.poisoned
  /\ ~d.poisoned => p \in fresh' /\ d.mem = disk'
  /\ fresh' \subseteq Process
  /\ \/ /\ disk' = disk
        /\ \/ d.toAck = {}
           \/ d.toAck = chan[p].toAck \cup {e} /\ Duplicate(e, disk)
     \/ /\ ~chan[p].poisoned /\ ~EnqueueRefused(e, disk) /\ disk' \in Enqueue(e, disk)
        /\ d.toAck \subseteq chan[p].toAck \cup {e}

LEMMA AdmitWrites ==
  ASSUME Inv, NEW p \in Process, NEW e \in Envelope, Admit(p, e)
  PROVE  Admitted(p, e, chan'[p])
<1> DEFINE c == chan[p]
           d == chan'[p]
           l == "primary"
           T == c.toAck \cup {e}
           h == [c EXCEPT !.toAck = T]
           w == Wake(h, Lane)
           f == FailClosed(c, TRUE)
           refused == EnqueueRefused(e, c.mem) \/ c.poisoned
           writes == Enqueue(e, c.mem)
           returned == IF ~Duplicate(e, c.mem) THEN w ELSE h
           written(s) == [returned EXCEPT !.mem = s]
           broken == [f EXCEPT !.poisoned = TRUE]
<1>1. c.running /\ Mutate(p, EnqueueRefused(e, c.mem), writes, returned, f)
  BY DEF Admit
<1>2. /\ c \in Channel /\ c.life = "serving" /\ chan \in [Process -> Channel]
      /\ ~c.poisoned => p \in fresh /\ c.mem = disk
      /\ fresh \subseteq Process /\ disk \in Inbox /\ l \in Lane /\ Lane \in SUBSET Lane
  BY <1>1, Serves DEF Inv, Typed, OneWriter, Lane
<1>3. \A x : chan' = [chan EXCEPT ![p] = x] => d = x
  BY <1>2
<1>4. \/ refused /\ Update(p, f) /\ disk' = disk /\ fresh' = fresh
      \/ ~refused /\ writes = {} /\ Update(p, returned) /\ disk' = disk /\ fresh' = fresh
      \/ ~refused /\ disk' \in writes /\ Update(p, written(disk')) /\ fresh' = {p}
      \/ /\ ~refused /\ writes # {} /\ Update(p, broken)
         /\ \/ disk' = disk /\ fresh' = fresh
            \/ disk' \in writes /\ fresh' = {}
  BY <1>1 DEF Mutate, inbox
<1> HIDE DEF c
<1>5. T \in SUBSET Envelope
  BY <1>2 DEF Channel
<1> HIDE DEF T
<1>6. /\ h \in Channel /\ h.life = c.life /\ h.aborted = c.aborted /\ h.running = c.running
      /\ h.toAck = T /\ h.work = c.work /\ h.poisoned = c.poisoned /\ h.mem = c.mem
  BY <1>2, <1>5 DEF Channel
<1> HIDE DEF h
<1>7. /\ w \in Channel /\ w.life = c.life /\ w.aborted = c.aborted /\ w.running = c.running
      /\ w.toAck = T /\ w.poisoned = c.poisoned /\ w.mem = c.mem
      /\ \A m \in Lane : w.work[m] = c.work[m] \/ w.work[m] = At("claim", NoEnvelope)
  <2>1. h.toAck # {} => h.running
    BY <1>1, <1>6
  <2>2. /\ Works(h, w, l) /\ Remembers(h, w) /\ w.running = h.running /\ w.toAck = h.toAck
        /\ \A m \in Lane : \/ w.work[m] = h.work[m]
                           \/ /\ h.running /\ h.work[m] = Idle
                              /\ w.work[m] = At("claim", NoEnvelope)
    BY <1>2, <1>6, <2>1, WakeWorks
  <2> HIDE DEF w, l
  <2> QED BY <1>6, <2>2 DEF Works, Remembers
<1>8. /\ f \in Channel /\ f.life = c.life /\ f.aborted = c.aborted /\ ~f.running
      /\ f.toAck = {} /\ f.poisoned = c.poisoned /\ f.mem = c.mem /\ f.work = c.work
  <2>1. /\ Works(c, f, l) /\ Remembers(c, f) /\ f.work = c.work /\ ~f.running
        /\ f.toAck = {}
    BY <1>2, FailClosedWorks
  <2> HIDE DEF f, l
  <2> QED BY <2>1 DEF Works, Remembers
<1>9. ~Duplicate(e, c.mem) <=> writes # {}
  BY DEF Enqueue
<1> HIDE DEF w, f, writes
<1>10. /\ returned \in Channel /\ returned.life = c.life /\ returned.aborted = c.aborted
       /\ returned.running = c.running /\ returned.toAck = T /\ returned.poisoned = c.poisoned
       /\ returned.mem = c.mem
       /\ \A m \in Lane : returned.work[m] = c.work[m] \/ returned.work[m] = At("claim", NoEnvelope)
  BY <1>6, <1>7
<1> HIDE DEF returned
<1>11. CASE refused /\ Update(p, f) /\ disk' = disk /\ fresh' = fresh
  <2>1. d = f /\ chan' = [chan EXCEPT ![p] = f]
    BY <1>3, <1>11 DEF Update
  <2> QED BY <1>2, <1>8, <1>11, <2>1 DEF Admitted, c
<1>12. CASE ~refused /\ writes = {} /\ Update(p, returned) /\ disk' = disk /\ fresh' = fresh
  <2>1. d = returned /\ chan' = [chan EXCEPT ![p] = returned]
    BY <1>3, <1>12 DEF Update
  <2>2. Duplicate(e, disk) /\ ~c.poisoned
    BY <1>2, <1>9, <1>12
  <2> QED BY <1>1, <1>2, <1>10, <1>12, <2>1, <2>2 DEF Admitted, c, T
<1>13. CASE ~refused /\ disk' \in writes /\ Update(p, written(disk')) /\ fresh' = {p}
  <2>1. d = written(disk') /\ chan' = [chan EXCEPT ![p] = written(disk')]
    BY <1>3, <1>13 DEF Update
  <2>2. ~c.poisoned /\ ~EnqueueRefused(e, disk) /\ disk' \in Enqueue(e, disk)
    BY <1>2, <1>13 DEF writes
  <2>3. disk' \in Inbox
    BY <1>2, <2>2, EnqueueWrites
  <2>4. /\ d \in Channel /\ d.life = c.life /\ d.aborted = c.aborted
        /\ d.running = c.running /\ d.toAck = T /\ d.poisoned = c.poisoned
        /\ d.mem = disk' /\ d.work = returned.work
    BY <1>10, <2>1, <2>3 DEF Channel
  <2> HIDE DEF d
  <2> QED BY <1>1, <1>2, <1>10, <1>13, <2>1, <2>2, <2>4 DEF Admitted, c, T
<1>14. CASE /\ ~refused /\ writes # {} /\ Update(p, broken)
            /\ \/ disk' = disk /\ fresh' = fresh
               \/ disk' \in writes /\ fresh' = {}
  <2>1. d = broken /\ chan' = [chan EXCEPT ![p] = broken]
    BY <1>3, <1>14 DEF Update
  <2>2. ~c.poisoned /\ ~EnqueueRefused(e, disk) /\ (disk' = disk \/ disk' \in Enqueue(e, disk))
    BY <1>2, <1>14 DEF writes
  <2>3. /\ d \in Channel /\ d.life = c.life /\ d.aborted = c.aborted
        /\ ~d.running /\ d.toAck = {} /\ d.poisoned /\ d.work = c.work
    <3>1. /\ Works(f, broken, l) /\ broken.poisoned /\ broken.work = f.work
          /\ broken.toAck = f.toAck /\ broken.running = f.running
      BY <1>2, <1>8, FlagWorks
    <3> HIDE DEF broken, d, l
    <3> QED BY <1>8, <2>1, <3>1 DEF Works
  <2>4. fresh' \subseteq Process
    BY <1>2, <1>14
  <2> HIDE DEF d
  <2>5. chan' = [chan EXCEPT ![p] = d]
    BY <2>1
  <2> HIDE DEF broken
  <2>6. Admitted(p, e, d)
    BY <2>2, <2>3, <2>4, <2>5 DEF Admitted, c
  <2> QED BY <2>6 DEF d
<1> QED BY <1>4, <1>11, <1>12, <1>13, <1>14

\* A duplicate is acknowledged only over an entry, or over the receipt of what is done.
LEMMA DuplicateKept ==
  ASSUME NEW s \in Inbox, NEW t, NEW n, Recalls(s, t, n), NEW e, Duplicate(e, s)
  PROVE  e \in Entered(s) \/ t[e] = "done"
<1>1. ASSUME e \in Received(s) PROVE t[e] = "done"
  <2>1. PICK i \in DOMAIN s.receipts : s.receipts[i] = e
    BY <1>1 DEF Received, ToSet
  <2> QED BY <2>1 DEF Recalls
<1> QED BY <1>1 DEF Duplicate

LEMMA AdmitPreserves ==
  ASSUME Inv, NEW p \in Process, NEW e \in Envelope, Admit(p, e) PROVE Inv' /\ Steady
<1> DEFINE c == chan[p]
           d == chan'[p]
<1>1. /\ c.running /\ setup' = setup /\ lease' = lease /\ acked' = acked
      /\ tried' = tried /\ newer' = newer
  BY DEF Admit, history
<1>2. /\ c \in Channel /\ c.life = "serving" /\ chan \in [Process -> Channel] /\ Modes(c)
      /\ disk \in Inbox /\ acked \subseteq Envelope /\ Keeps(acked, disk, tried)
      /\ tried \in [Envelope -> Attempts] /\ newer \in [Envelope -> 0..MaxReceipts]
      /\ Recalls(disk, tried, newer) /\ Server(c, disk, tried)
  BY <1>1, Serves DEF Inv, Typed
<1>3. Admitted(p, e, d)
  BY AdmitWrites
<1> HIDE DEF d
<1>4. /\ chan' = [chan EXCEPT ![p] = d] /\ d \in Channel /\ d.life = "serving"
      /\ d.aborted = c.aborted
      /\ d.toAck # {} => d.running
      /\ \A m \in Lane : d.work[m] = c.work[m] \/ d.work[m].env = NoEnvelope
      /\ \A m \in Lane : d.work[m].pc = "process" => c.work[m].pc = "process"
      /\ c.poisoned => d.poisoned
      /\ ~d.poisoned => p \in fresh' /\ d.mem = disk'
      /\ fresh' \subseteq Process
  BY <1>2, <1>3, TaskTypes DEF Admitted
<1>5. \/ /\ disk' = disk
         /\ \/ d.toAck = {}
            \/ d.toAck = c.toAck \cup {e} /\ Duplicate(e, disk)
      \/ /\ ~c.poisoned /\ ~EnqueueRefused(e, disk) /\ disk' \in Enqueue(e, disk)
         /\ d.toAck \subseteq c.toAck \cup {e}
  BY <1>3 DEF Admitted
<1> HIDE DEF c
<1>6. Modes(d) /\ d.life \notin Unserved /\ c.life \notin Unserved
  BY <1>2, <1>4 DEF Modes, Resting, Unserved
<1>7. Steady
  <2>1. chan'[p] = d /\ \A q \in Process : q # p => chan'[q] = chan[q]
    BY <1>2, <1>4
  <2> QED BY <1>4, <2>1 DEF Steady, c
<1>8. CASE /\ disk' = disk
           /\ \/ d.toAck = {}
              \/ d.toAck = c.toAck \cup {e} /\ Duplicate(e, disk)
  <2>1. Keeps(d.toAck, disk, tried)
    <3>1. Keeps(c.toAck, disk, tried)
      BY <1>2 DEF Server
    <3>2. Duplicate(e, disk) => e \in Entered(disk) \/ tried[e] = "done"
      BY <1>2, DuplicateKept
    <3> QED BY <1>8, <3>1, <3>2 DEF Keeps
  <2>2. Server(d, disk, tried)
    BY <1>2, <1>4, <1>6, <2>1, ServerMode
  <2> QED BY <1>1, <1>2, <1>4, <1>6, <1>7, <1>8, <2>2, Preserve DEF c
<1>9. CASE /\ ~c.poisoned /\ ~EnqueueRefused(e, disk) /\ disk' \in Enqueue(e, disk)
           /\ d.toAck \subseteq c.toAck \cup {e}
  <2>1. /\ disk' \in Inbox /\ Elsewhere({e}, disk, disk')
        /\ Row(e, "pending", "none") \in Rows(disk') /\ e \notin Entered(disk) \cup Received(disk)
        /\ disk'.receipts = disk.receipts
    BY <1>2, <1>9, EnqueueWrites
  <2>2. e \in Entered(disk')
    <3>1. Entered(disk') = {r.env : r \in Rows(disk')} /\ Row(e, "pending", "none").env = e
      BY <2>1, RowFacts DEF Row
    <3> QED BY <2>1, <3>1
  <2>3. Repeatable(e, tried, newer)
    BY <1>2, <2>1 DEF Recalls
  <2>4. Recalls(disk', tried', newer')
    BY <1>1, <1>2, <2>1, <2>2, <2>3, RecallsWrite
  <2>5. \A x \in Envelope \ {e} : tried'[x] = tried[x]
    BY <1>1
  <2>6. /\ Entered(disk) = {r.env : r \in Rows(disk)}
        /\ \A x : x \in Processing(disk)
                   <=> \E r \in Rows(disk) : r.env = x /\ r.status = "processing"
    BY <1>2, RowFacts
  <2>7. e \notin c.aborted
    <3>1. e \notin Processing(disk)
      BY <2>1, <2>6
    <3> QED BY <1>2, <3>1 DEF Server, Cancels
  <2>8. \A m \in Lane : c.work[m].env # e
    <3> SUFFICES ASSUME NEW m \in Lane, c.work[m].env = e PROVE FALSE
      OBVIOUS
    <3>1. c.work[m].pc \in Holding
      BY <1>2 DEF Channel, Task
    <3>2. Row(e, "processing", m) \in Rows(disk)
      BY <1>2, <1>9, <3>1 DEF Server, Owned, Owns
    <3>3. Row(e, "processing", m).env = e
      BY DEF Row
    <3> QED BY <2>1, <2>6, <3>2, <3>3
  <2>9. Server(d, disk', tried')
    <3>1. \A m \in Lane : \/ d.work[m].env = NoEnvelope
                          \/ d.work[m] = c.work[m] /\ c.work[m].env # e
      BY <1>4, <2>8
    <3>2. \A m \in Lane : d.work[m].env # e
      BY <3>1, InboxAssumption DEF InboxAssumption
    <3>3. e \notin d.aborted /\ d.aborted \subseteq c.aborted \cup {e} /\ c.life # "closing"
      BY <1>2, <1>4, <2>7
    <3>4. e \in d.toAck => e \in Entered(disk') \/ tried'[e] = "done"
      BY <2>2
    <3>5. c.life = "closing" => d.life = "closing"
      BY <3>3
    <3>6. \A k, m \in Lane : d.work[k].env = e /\ d.work[m].env = e => k = m
      BY <3>2
    <3>7. e \in d.aborted => /\ tried'[e] = "cancelled" /\ e \in Processing(disk')
                             /\ \A m \in Lane : d.work[m].env # e
      BY <3>3
    <3>8. /\ disk \in Inbox /\ disk' \in Inbox /\ Elsewhere({e}, disk, disk')
          /\ Server(c, disk, tried) /\ d \in Channel /\ Modes(d)
          /\ c.poisoned => d.poisoned
          /\ d.toAck \subseteq c.toAck \cup {e} /\ d.aborted \subseteq c.aborted \cup {e}
      BY <1>2, <1>4, <1>6, <1>9, <2>1, <3>3
    <3> QED BY <2>5, <3>1, <3>4, <3>5, <3>6, <3>7, <3>8, ServerStep
  <2>10. Keeps(acked', disk', tried')
    <3>1. Keeps(acked, disk', tried')
      BY <1>2, <2>1, <2>2, <2>5, KeepsElsewhere
    <3> QED BY <1>1, <3>1
  <2> QED BY <1>1, <1>2, <1>4, <1>6, <1>7, <2>1, <2>4, <2>9, <2>10, Preserve DEF c
<1> QED BY <1>5, <1>8, <1>9

\* The acknowledgement: of what is in the file, or done.
LEMMA AckPreserves ==
  ASSUME Inv, NEW p \in Process, NEW e, Ack(p, e) PROVE Inv' /\ Steady
<1> DEFINE c == chan[p]
           T == c.toAck \ {e}
           d == [c EXCEPT !.toAck = T]
<1>1. /\ c.running /\ e \in c.toAck /\ acked' = acked \cup {e}
      /\ chan' = [chan EXCEPT ![p] = d]
      /\ setup' = setup /\ disk' = disk /\ fresh' = fresh /\ lease' = lease
      /\ tried' = tried /\ newer' = newer
  BY DEF Ack, Update, inbox
<1>2. /\ c \in Channel /\ c.life = "serving" /\ chan \in [Process -> Channel] /\ Modes(c)
      /\ disk \in Inbox /\ acked \subseteq Envelope /\ Keeps(acked, disk, tried)
      /\ tried \in [Envelope -> Attempts] /\ newer \in [Envelope -> 0..MaxReceipts]
      /\ Recalls(disk, tried, newer) /\ Server(c, disk, tried) /\ fresh \subseteq Process
      /\ ~c.poisoned => p \in fresh /\ c.mem = disk
      /\ Keeps(c.toAck, disk, tried)
  BY <1>1, Serves DEF Inv, Typed, OneWriter, Server
<1> HIDE DEF c
<1>3. T \in SUBSET Envelope /\ e \in Envelope /\ T \subseteq c.toAck
  BY <1>1, <1>2 DEF Channel
<1> HIDE DEF T
<1>4. /\ d \in Channel /\ d.life = c.life /\ d.running = c.running /\ d.toAck = T
      /\ d.mem = c.mem /\ d.poisoned = c.poisoned /\ d.work = c.work /\ d.aborted = c.aborted
  BY <1>2, <1>3 DEF Channel
<1> HIDE DEF d
<1>5. Modes(d) /\ d.life \notin Unserved /\ c.life \notin Unserved
  BY <1>1, <1>2, <1>4 DEF Modes, Resting, Unserved
<1>6. Keeps(d.toAck, disk, tried) /\ Keeps(acked', disk, tried) /\ acked' \subseteq Envelope
  BY <1>1, <1>2, <1>3, <1>4 DEF Keeps
<1>7. Server(d, disk, tried)
  BY <1>2, <1>4, <1>5, <1>6, ServerMode
<1>8. Inv'
  BY <1>1, <1>2, <1>4, <1>5, <1>6, <1>7, Preserve DEF c
<1>9. Steady
  <2>1. chan'[p] = d /\ \A q \in Process : q # p => chan'[q] = chan[q]
    BY <1>1, <1>2
  <2> QED BY <1>4, <2>1 DEF Steady, c
<1> QED BY <1>8, <1>9

---------------------------------------------------------------------------
(* The lifecycle                                                           *)

\* A change of the lifecycle that leaves the workers and the inbox alone.
Turns(c, d) ==
  /\ d \in Channel /\ Modes(d) /\ Remembers(c, d) /\ d.work = c.work
  /\ d.aborted = c.aborted /\ d.toAck \subseteq c.toAck
  /\ c.life \notin Unserved \cup {"closing"} /\ d.life \notin Unserved

LEMMA ModeStep ==
  ASSUME Inv, NEW p \in Process, NEW d, Turns(chan[p], d), chan' = [chan EXCEPT ![p] = d],
         UNCHANGED <<setup, disk, fresh, lease, acked, tried, newer>>
  PROVE  Inv' /\ Steady
<1> DEFINE c == chan[p]
<1>1. /\ setup' = setup /\ disk' = disk /\ fresh' = fresh /\ lease' = lease
      /\ acked' = acked /\ tried' = tried /\ newer' = newer
  OBVIOUS
<1>2. /\ d \in Channel /\ Modes(d) /\ d.mem = c.mem /\ d.poisoned = c.poisoned
      /\ d.work = c.work
      /\ d.aborted = c.aborted /\ d.toAck \subseteq c.toAck
      /\ c.life \notin Unserved /\ c.life # "closing" /\ d.life \notin Unserved
  BY DEF Turns, Remembers
<1>3. /\ chan \in [Process -> Channel]
      /\ disk \in Inbox /\ acked \subseteq Envelope /\ Keeps(acked, disk, tried)
      /\ tried \in [Envelope -> Attempts] /\ newer \in [Envelope -> 0..MaxReceipts]
      /\ Recalls(disk, tried, newer) /\ Server(c, disk, tried) /\ fresh \subseteq Process
      /\ ~c.poisoned => p \in fresh /\ c.mem = disk
      /\ Keeps(c.toAck, disk, tried)
  BY <1>2 DEF Inv, Typed, OneWriter, Server, Unserved
<1>4. Keeps(d.toAck, disk, tried)
  BY <1>2, <1>3 DEF Keeps
<1> HIDE DEF c
<1>5. Server(d, disk, tried)
  BY <1>2, <1>3, <1>4, ServerMode
<1>6. Inv'
  BY <1>1, <1>2, <1>3, <1>5, Preserve DEF c
<1>7. Steady
  <2>1. chan'[p] = d /\ \A q \in Process : q # p => chan'[q] = chan[q]
    BY <1>3
  <2> QED BY <1>2, <2>1 DEF Steady, c
<1> QED BY <1>6, <1>7

LEMMA LifeFacts ==
  ASSUME NEW c \in Channel, NEW life \in Life
  PROVE  LET d == [c EXCEPT !.life = life]
         IN /\ d \in Channel /\ d.life = life /\ Remembers(c, d) /\ d.work = c.work
            /\ d.aborted = c.aborted /\ d.toAck = c.toAck /\ d.running = c.running
BY DEF Channel, Remembers

LEMMA UnsafeFacts ==
  ASSUME NEW c \in Channel, NEW life \in Life
  PROVE  LET d == [c EXCEPT !.life = life, !.safe = FALSE]
         IN /\ d \in Channel /\ d.life = life /\ Remembers(c, d) /\ d.work = c.work
            /\ d.aborted = c.aborted /\ d.toAck = c.toAck /\ d.running = c.running
BY DEF Channel, Remembers

LEMMA BeginFacts ==
  ASSUME NEW c \in Channel, NEW life \in Life
  PROVE  LET d == BeginShutdown(c, life)
         IN /\ d \in Channel /\ d.life = life /\ Remembers(c, d) /\ d.work = c.work
            /\ d.aborted = c.aborted /\ d.toAck = {} /\ ~d.running
<1> DEFINE h == ~Quiet(c)
<1>1. h \in BOOLEAN
  BY DEF Quiet
<1>2. BeginShutdown(c, life) =
        [c EXCEPT !.life = life, !.running = FALSE, !.toAck = {}, !.had = h]
  BY DEF BeginShutdown
<1> HIDE DEF h
<1> QED BY <1>1, <1>2 DEF Channel, Remembers

LEMMA AbortFacts ==
  ASSUME NEW c \in Channel
  PROVE  LET d == AbortLifecycle(c)
         IN /\ d \in Channel /\ d.life = c.life /\ Remembers(c, d) /\ d.work = c.work
            /\ d.aborted = c.aborted /\ d.toAck = c.toAck /\ d.running = c.running
<1> DEFINE a == IF c.abort = "none" THEN "shutdown" ELSE c.abort
<1>1. a \in {"none", "failed", "shutdown"}
  BY DEF Channel
<1>2. AbortLifecycle(c) = [c EXCEPT !.abort = a]
  BY DEF AbortLifecycle
<1> HIDE DEF a
<1> QED BY <1>1, <1>2 DEF Channel, Remembers

LEMMA TransportPreserves ==
  ASSUME Inv, NEW p \in Process, TransportFailed(p) PROVE Inv' /\ Steady
<1> DEFINE c == chan[p]
           d == FailClosed(c, FALSE)
<1>1. /\ c.running /\ chan' = [chan EXCEPT ![p] = d]
      /\ UNCHANGED <<setup, disk, fresh, lease, acked, tried, newer>>
  BY DEF TransportFailed, Update, inbox, history
<1>2. c \in Channel /\ c.life = "serving"
  BY <1>1, Serves
<1>3. /\ Works(c, d, "primary") /\ Remembers(c, d) /\ d.work = c.work /\ ~d.running
      /\ d.toAck = {}
  <2>1. "primary" \in Lane /\ FALSE \in BOOLEAN
    BY DEF Lane
  <2> QED BY <1>2, <2>1, FailClosedWorks
<1> HIDE DEF d
<1>4. Turns(c, d)
  BY <1>2, <1>3 DEF Turns, Works, Modes, Resting, Unserved
<1> QED BY <1>1, <1>4, ModeStep

LEMMA DrainPreserves ==
  ASSUME Inv, NEW p \in Process, Drain(p) PROVE Inv' /\ Steady
<1> DEFINE c == chan[p]
           d == BeginShutdown(c, "draining")
<1>1. /\ c.life = "serving" /\ chan' = [chan EXCEPT ![p] = d]
      /\ UNCHANGED <<setup, disk, fresh, lease, acked, tried, newer>>
  BY DEF Drain, Update, inbox, history
<1>2. /\ d \in Channel /\ d.life = "draining" /\ Remembers(c, d) /\ d.work = c.work
      /\ d.aborted = c.aborted /\ d.toAck = {} /\ ~d.running
  <2>1. c \in Channel
    BY Serves
  <2>2. "draining" \in Life
    BY DEF Life
  <2> HIDE DEF c
  <2> QED BY <2>1, <2>2, BeginFacts
<1> HIDE DEF d
<1>3. Turns(c, d)
  BY <1>1, <1>2 DEF Turns, Modes, Resting, Unserved
<1> QED BY <1>1, <1>3, ModeStep

LEMMA StopPreserves ==
  ASSUME Inv, NEW p \in Process, Stop(p) PROVE Inv' /\ Steady
<1> DEFINE c == chan[p]
           b == BeginShutdown(c, "cancelling")
           d == AbortLifecycle(b)
<1>1. /\ c.life = "serving" /\ chan' = [chan EXCEPT ![p] = d]
      /\ UNCHANGED <<setup, disk, fresh, lease, acked, tried, newer>>
  BY DEF Stop, Update, inbox, history
<1>2. /\ b \in Channel /\ b.life = "cancelling" /\ Remembers(c, b) /\ b.work = c.work
      /\ b.aborted = c.aborted /\ b.toAck = {} /\ ~b.running
  <2>1. c \in Channel
    BY Serves
  <2>2. "cancelling" \in Life
    BY DEF Life
  <2> HIDE DEF c
  <2> QED BY <2>1, <2>2, BeginFacts
<1> HIDE DEF b
<1>3. /\ d \in Channel /\ d.life = b.life /\ Remembers(b, d) /\ d.work = b.work
      /\ d.aborted = b.aborted /\ d.toAck = b.toAck /\ d.running = b.running
  BY <1>2, AbortFacts
<1> HIDE DEF d
<1>4. Turns(c, d)
  BY <1>1, <1>2, <1>3 DEF Turns, Modes, Resting, Unserved, Remembers
<1> QED BY <1>1, <1>4, ModeStep

LEMMA GracePreserves ==
  ASSUME Inv, NEW p \in Process, GraceEnds(p) PROVE Inv' /\ Steady
<1> DEFINE c == chan[p]
           b == [c EXCEPT !.life = "cancelling"]
           d == AbortLifecycle(b)
<1>1. /\ c.life = "draining" /\ chan' = [chan EXCEPT ![p] = d]
      /\ UNCHANGED <<setup, disk, fresh, lease, acked, tried, newer>>
  BY DEF GraceEnds, Update, inbox, history
<1>2. /\ b \in Channel /\ b.life = "cancelling" /\ Remembers(c, b) /\ b.work = c.work
      /\ b.aborted = c.aborted /\ b.toAck = c.toAck /\ b.running = c.running
  <2>1. c \in Channel
    BY Serves
  <2>2. "cancelling" \in Life
    BY DEF Life
  <2> HIDE DEF c
  <2> QED BY <2>1, <2>2, LifeFacts
<1> HIDE DEF b
<1>3. /\ d \in Channel /\ d.life = b.life /\ Remembers(b, d) /\ d.work = b.work
      /\ d.aborted = b.aborted /\ d.toAck = b.toAck /\ d.running = b.running
  BY <1>2, AbortFacts
<1> HIDE DEF d
<1>4. Modes(c)
  BY Serves
<1>5. Turns(c, d)
  BY <1>1, <1>2, <1>3, <1>4 DEF Turns, Modes, Resting, Unserved, Remembers
<1> QED BY <1>1, <1>5, ModeStep

LEMMA SettlePreserves ==
  ASSUME Inv, NEW p \in Process, WorkersSettle(p) PROVE Inv' /\ Steady
<1> DEFINE c == chan[p]
           b == [c EXCEPT !.life = "settled"]
           d == AbortLifecycle(b)
<1>1. /\ c.life \in {"draining", "cancelling"} /\ Quiet(c) /\ chan' = [chan EXCEPT ![p] = d]
      /\ UNCHANGED <<setup, disk, fresh, lease, acked, tried, newer>>
  BY DEF WorkersSettle, Update, inbox, history
<1>2. /\ b \in Channel /\ b.life = "settled" /\ Remembers(c, b) /\ b.work = c.work
      /\ b.aborted = c.aborted /\ b.toAck = c.toAck /\ b.running = c.running
  <2>1. c \in Channel
    BY Serves
  <2>2. "settled" \in Life
    BY DEF Life
  <2> HIDE DEF c
  <2> QED BY <2>1, <2>2, LifeFacts
<1> HIDE DEF b
<1>3. /\ d \in Channel /\ d.life = b.life /\ Remembers(b, d) /\ d.work = b.work
      /\ d.aborted = b.aborted /\ d.toAck = b.toAck /\ d.running = b.running
  BY <1>2, AbortFacts
<1> HIDE DEF d
<1>4. Modes(c)
  BY Serves
<1>5. Turns(c, d)
  BY <1>1, <1>2, <1>3, <1>4 DEF Turns, Modes, Resting, Unserved, Remembers, Quiet
<1> QED BY <1>1, <1>5, ModeStep

LEMMA RetainPreserves ==
  ASSUME Inv, NEW p \in Process, Retain(p) PROVE Inv' /\ Steady
<1> DEFINE c == chan[p]
           d == [c EXCEPT !.life = "retained", !.safe = FALSE]
<1>1. /\ c.life = "cancelling" /\ chan' = [chan EXCEPT ![p] = d]
      /\ UNCHANGED <<setup, disk, fresh, lease, acked, tried, newer>>
  BY DEF Retain, Update, inbox, history
<1>2. /\ d \in Channel /\ d.life = "retained" /\ Remembers(c, d) /\ d.work = c.work
      /\ d.aborted = c.aborted /\ d.toAck = c.toAck /\ d.running = c.running
  <2>1. c \in Channel
    BY Serves
  <2>2. "retained" \in Life
    BY DEF Life
  <2> HIDE DEF c
  <2> QED BY <2>1, <2>2, UnsafeFacts
<1> HIDE DEF d
<1>3. Modes(c)
  BY Serves
<1>4. Turns(c, d)
  BY <1>1, <1>2, <1>3 DEF Turns, Modes, Resting, Unserved
<1> QED BY <1>1, <1>4, ModeStep

LEMMA RetainedPreserves ==
  ASSUME Inv, NEW p \in Process, RetainedSettle(p) PROVE Inv' /\ Steady
<1> DEFINE c == chan[p]
           d == [c EXCEPT !.life = "closing"]
<1>1. /\ c.life = "retained" /\ Quiet(c) /\ chan' = [chan EXCEPT ![p] = d]
      /\ UNCHANGED <<setup, disk, fresh, lease, acked, tried, newer>>
  BY DEF RetainedSettle, Update, inbox, history
<1>2. /\ d \in Channel /\ d.life = "closing" /\ Remembers(c, d) /\ d.work = c.work
      /\ d.aborted = c.aborted /\ d.toAck = c.toAck /\ d.running = c.running
  <2>1. c \in Channel
    BY Serves
  <2>2. "closing" \in Life
    BY DEF Life
  <2> HIDE DEF c
  <2> QED BY <2>1, <2>2, LifeFacts
<1> HIDE DEF d
<1>3. Modes(c)
  BY Serves
<1>4. Turns(c, d)
  BY <1>1, <1>2, <1>3 DEF Turns, Modes, Resting, Unserved, Quiet
<1> QED BY <1>1, <1>4, ModeStep

\* The requeue is of what the workers reported as cancelled, and no one is on it.
LEMMA RequeueWrites ==
  ASSUME Inv, NEW p \in Process, NEW d, chan[p].life = "settled",
         chan' = [chan EXCEPT ![p] = d], d \in Channel, d.life = "closing",
         d.work = chan[p].work, d.aborted = chan[p].aborted, d.toAck = {}, ~d.running,
         ~d.poisoned => p \in fresh' /\ d.mem = disk', fresh' \subseteq Process,
         setup' = setup, lease' = lease, acked' = acked, tried' = tried, newer' = newer,
         NEW envs \in SUBSET chan[p].aborted,
         disk' = MarkAll(envs, "pending", "none", disk)
  PROVE  Inv' /\ Steady
<1> DEFINE c == chan[p]
<1>1. /\ chan \in [Process -> Channel]
      /\ disk \in Inbox /\ acked \subseteq Envelope /\ Keeps(acked, disk, tried)
      /\ tried \in [Envelope -> Attempts] /\ newer \in [Envelope -> 0..MaxReceipts]
      /\ Recalls(disk, tried, newer) /\ Server(c, disk, tried) /\ c \in Channel
  BY DEF Inv, Typed
<1>2. Quiet(c) /\ c.life \notin Unserved /\ d.life \notin Unserved
  BY <1>1 DEF Server, Modes, Resting, Unserved
<1>3. \A m \in Lane : d.work[m].pc = "idle" /\ d.work[m].env = NoEnvelope
  BY <1>2 DEF Quiet, Idle
<1>4. Modes(d)
  BY <1>2 DEF Modes, Resting, Unserved, Quiet
<1>5. /\ \A e \in c.aborted : tried[e] = "cancelled"
      /\ envs \in SUBSET Envelope /\ envs \subseteq c.aborted /\ c.aborted \subseteq Envelope
  BY <1>1 DEF Server, Cancels, Channel
<1>6. disk' \in Inbox /\ Entered(disk') = Entered(disk)
  <2>1. "pending" \in {"pending", "failed"}
    OBVIOUS
  <2> QED BY <1>1, <2>1, UnlaneWrites
<1>7. Recalls(disk', tried', newer')
  <2>1. \A e \in envs : tried[e] = "cancelled"
    BY <1>5
  <2>2. Recalls(MarkAll(envs, "pending", "none", disk), tried, newer)
    BY <1>1, <1>5, <2>1, RecallsRequeue
  <2> QED BY <2>2
<1>8. Server(d, disk', tried')
  <2>1. Owned(d, disk', tried')
    BY <1>3 DEF Owned, Holding
  <2>2. Cancels(d, disk', tried')
    BY <1>3, <1>5, InboxAssumption DEF Cancels, InboxAssumption
  <2>3. Keeps(d.toAck, disk', tried')
    BY DEF Keeps
  <2> QED BY <1>4, <2>1, <2>2, <2>3 DEF Server
<1>9. Keeps(acked', disk', tried')
  BY <1>1, <1>6 DEF Keeps
<1>10. Inv'
  BY <1>1, <1>2, <1>6, <1>7, <1>8, <1>9, Preserve
<1>11. Steady
  <2>1. chan'[p] = d /\ \A q \in Process : q # p => chan'[q] = chan[q]
    BY <1>1
  <2> QED BY <1>3, <2>1 DEF Steady
<1> QED BY <1>10, <1>11

LEMMA MarkNone ==
  ASSUME NEW s \in Inbox PROVE MarkAll({}, "pending", "none", s) = s
<1> DEFINE es == [i \in DOMAIN s.entries |-> s.entries[i]]
<1>1. s \in [entries : Seq(Entry), receipts : Seq(Envelope)] /\ s.entries \in Seq(Entry)
  BY DEF Inbox
<1>2. MarkAll({}, "pending", "none", s) = [s EXCEPT !.entries = es]
  BY <1>1 DEF MarkAll
<1>3. es = s.entries
  BY <1>1
<1> HIDE DEF es
<1> QED BY <1>1, <1>2, <1>3

LEMMA RequeuePreserves ==
  ASSUME Inv, NEW p \in Process, Requeue(p) PROVE Inv' /\ Steady
<1> DEFINE c == chan[p]
           closing == [c EXCEPT !.life = "closing"]
           unsafe == [closing EXCEPT !.safe = FALSE]
           writes == RequeueProcessing(c.aborted, c.mem)
           written(s) == [closing EXCEPT !.mem = s]
           broken == [unsafe EXCEPT !.poisoned = TRUE]
           d == chan'[p]
<1>1. /\ c.life = "settled" /\ setup' = setup /\ lease' = lease /\ acked' = acked
      /\ tried' = tried /\ newer' = newer
  BY DEF Requeue, history
<1>2. /\ c \in Channel /\ chan \in [Process -> Channel] /\ disk \in Inbox
      /\ ~c.running /\ c.toAck = {} /\ fresh \subseteq Process
      /\ ~c.poisoned => p \in fresh /\ c.mem = disk
  BY <1>1 DEF Inv, Typed, OneWriter, Server, Modes
<1>3. \/ Update(p, closing) /\ disk' = disk /\ fresh' = fresh
      \/ Mutate(p, FALSE, writes, closing, unsafe)
  BY DEF Requeue, inbox
<1>4. \/ Update(p, closing) /\ disk' = disk /\ fresh' = fresh
      \/ Update(p, unsafe) /\ disk' = disk /\ fresh' = fresh
      \/ ~c.poisoned /\ disk' \in writes /\ Update(p, written(disk')) /\ fresh' = {p}
      \/ /\ ~c.poisoned /\ Update(p, broken)
         /\ \/ disk' = disk /\ fresh' = fresh
            \/ disk' \in writes /\ fresh' = {}
  BY <1>3 DEF Mutate, inbox
<1>5. \A x : chan' = [chan EXCEPT ![p] = x] => d = x
  BY <1>2
<1> HIDE DEF c
<1>6. /\ closing \in Channel /\ closing.life = "closing" /\ Remembers(c, closing)
      /\ closing.work = c.work /\ closing.aborted = c.aborted /\ closing.toAck = {}
      /\ ~closing.running
  <2>1. "closing" \in Life
    BY DEF Life
  <2> QED BY <1>2, <2>1, LifeFacts
<1> HIDE DEF closing
<1>7. /\ unsafe \in Channel /\ unsafe.life = "closing" /\ Remembers(c, unsafe)
      /\ unsafe.work = c.work /\ unsafe.aborted = c.aborted /\ unsafe.toAck = {}
      /\ ~unsafe.running
  BY <1>6 DEF Remembers, Channel
<1> HIDE DEF unsafe
<1>8. /\ broken \in Channel /\ broken.life = "closing" /\ broken.poisoned
      /\ broken.work = c.work /\ broken.aborted = c.aborted /\ broken.toAck = {}
      /\ ~broken.running
  BY <1>7 DEF Channel
<1> HIDE DEF broken
<1>9. \A s \in Inbox :
        /\ written(s) \in Channel /\ written(s).life = "closing" /\ written(s).mem = s
        /\ written(s).work = c.work /\ written(s).aborted = c.aborted /\ written(s).toAck = {}
        /\ ~written(s).running
  BY <1>6 DEF Channel
<1> HIDE DEF written
<1> DEFINE sel == c.aborted \cap Processing(disk)
<1>10. /\ ~c.poisoned => \A s \in writes : s = MarkAll(sel, "pending", "none", disk)
       /\ MarkAll(sel, "pending", "none", disk) \in Inbox
  <2>1. "pending" \in {"pending", "failed"}
    OBVIOUS
  <2>2. MarkAll(sel, "pending", "none", disk) \in Inbox
    BY <1>2, <2>1, UnlaneWrites
  <2> QED BY <1>2, <2>2 DEF RequeueProcessing
<1> HIDE DEF writes
<1>11. disk = MarkAll({}, "pending", "none", disk)
  BY <1>2, MarkNone
<1>12. /\ chan' = [chan EXCEPT ![p] = d] /\ d \in Channel /\ d.life = "closing"
       /\ d.work = c.work /\ d.aborted = c.aborted /\ d.toAck = {} /\ ~d.running
       /\ ~d.poisoned => p \in fresh' /\ d.mem = disk'
       /\ fresh' \subseteq Process
       /\ disk' = disk \/ disk' = MarkAll(sel, "pending", "none", disk)
  <2>1. CASE Update(p, closing) /\ disk' = disk /\ fresh' = fresh
    <3>1. chan' = [chan EXCEPT ![p] = closing] /\ d = closing
      BY <1>5, <2>1 DEF Update
    <3> QED BY <1>2, <1>6, <2>1, <3>1 DEF Remembers
  <2>2. CASE Update(p, unsafe) /\ disk' = disk /\ fresh' = fresh
    <3>1. chan' = [chan EXCEPT ![p] = unsafe] /\ d = unsafe
      BY <1>5, <2>2 DEF Update
    <3> QED BY <1>2, <1>7, <2>2, <3>1 DEF Remembers
  <2>3. CASE ~c.poisoned /\ disk' \in writes /\ Update(p, written(disk')) /\ fresh' = {p}
    <3>1. chan' = [chan EXCEPT ![p] = written(disk')] /\ d = written(disk')
      BY <1>5, <2>3 DEF Update
    <3>2. disk' = MarkAll(sel, "pending", "none", disk) /\ disk' \in Inbox
      BY <1>10, <2>3
    <3> QED BY <1>2, <1>9, <2>3, <3>1, <3>2
  <2>4. CASE /\ ~c.poisoned /\ Update(p, broken)
             /\ \/ disk' = disk /\ fresh' = fresh
                \/ disk' \in writes /\ fresh' = {}
    <3>1. chan' = [chan EXCEPT ![p] = broken] /\ d = broken
      BY <1>5, <2>4 DEF Update
    <3> QED BY <1>2, <1>8, <1>10, <2>4, <3>1
  <2> QED BY <1>4, <2>1, <2>2, <2>3, <2>4
<1> HIDE DEF d
<1>13. CASE disk' = disk
  <2>1. {} \in SUBSET c.aborted /\ disk' = MarkAll({}, "pending", "none", disk)
    BY <1>11, <1>13
  <2> QED BY <1>1, <1>12, <2>1, RequeueWrites DEF c
<1>14. CASE disk' = MarkAll(sel, "pending", "none", disk)
  <2>1. sel \in SUBSET c.aborted
    OBVIOUS
  <2> HIDE DEF sel
  <2> QED BY <1>1, <1>12, <1>14, <2>1, RequeueWrites DEF c
<1> QED BY <1>12, <1>13, <1>14

---------------------------------------------------------------------------
(* Starting and leaving                                                    *)

\* A step of a process that does not serve after it.
Leaves(p, d) ==
  /\ d \in Channel /\ Modes(d) /\ d.life \in Unserved
  /\ chan' = [chan EXCEPT ![p] = d]
  /\ setup' = setup /\ disk' = disk /\ acked' = acked /\ newer' = newer
  /\ lease' \in Process \cup {Nobody}
  /\ d.life = "leased" <=> lease' = p
  /\ \A q \in Process : q # p => (lease' = q <=> lease = q) /\ (q \in fresh => q \in fresh')
  /\ fresh' \subseteq Process
  /\ tried' \in [Envelope -> Attempts]
  /\ \/ tried' = tried
     \/ /\ chan[p].life \notin Unserved
        /\ \A e \in Envelope : tried[e] # "running" => tried'[e] = tried[e]

LEMMA LeaveStep ==
  ASSUME Inv, NEW p \in Process, NEW d, Leaves(p, d) PROVE Inv' /\ Steady
<1>1. /\ setup \in Setups /\ chan \in [Process -> Channel]
      /\ disk \in Inbox /\ acked \subseteq Envelope /\ Keeps(acked, disk, tried)
      /\ newer \in [Envelope -> 0..MaxReceipts]
      /\ Recalls(disk, tried, newer) /\ LeaseOK /\ OneWriter
      /\ \A q \in Process : Server(chan[q], disk, tried)
  BY DEF Inv, Typed
<1>2. /\ d \in Channel /\ Modes(d) /\ d.life \in Unserved
      /\ chan' = [chan EXCEPT ![p] = d]
      /\ setup' = setup /\ disk' = disk /\ acked' = acked /\ newer' = newer
      /\ lease' \in Process \cup {Nobody} /\ (d.life = "leased" <=> lease' = p)
      /\ \A q \in Process : q # p => (lease' = q <=> lease = q) /\ (q \in fresh => q \in fresh')
      /\ fresh' \subseteq Process /\ tried' \in [Envelope -> Attempts]
  BY DEF Leaves
<1>3. chan'[p] = d /\ \A q \in Process : q # p => chan'[q] = chan[q]
  BY <1>1, <1>2
<1>4. \A e \in Envelope : tried[e] # "running" => tried'[e] = tried[e]
  BY DEF Leaves
<1>5. Typed'
  BY <1>1, <1>2 DEF Typed
<1>6. LeaseOK'
  BY <1>1, <1>2, <1>3 DEF LeaseOK, Unserved
<1>7. OneWriter'
  BY <1>1, <1>2, <1>3 DEF OneWriter, Unserved
<1>8. Recalls(disk', tried', newer')
  <2>1. \A e \in Envelope : Repeatable(e, tried, newer) => Repeatable(e, tried', newer)
    BY <1>4 DEF Repeatable
  <2>2. Pending(disk) \subseteq Envelope /\ Received(disk) \subseteq Envelope
    <3>1. /\ Rows(disk) \subseteq Entry /\ Received(disk) \subseteq Envelope
          /\ \A x : x \in Pending(disk) <=> \E r \in Rows(disk) : r.env = x /\ r.status = "pending"
      BY <1>1, RowFacts
    <3> QED BY <3>1 DEF Entry
  <2>3. \A i \in DOMAIN disk.receipts : disk.receipts[i] \in Envelope
    BY <2>2 DEF Received, ToSet
  <2>4. Recalls(disk, tried', newer)
    BY <1>1, <1>4, <2>1, <2>2, <2>3 DEF Recalls
  <2> QED BY <1>2, <2>4
<1>9. Keeps(acked', disk', tried')
  BY <1>1, <1>2, <1>4 DEF Keeps
<1>10. Server(d, disk', tried')
  <2>1. d.toAck = {} /\ d.aborted = {}
    BY <1>2 DEF Modes, Unserved
  <2>2. \A l \in Lane : d.work[l].pc = "idle" /\ d.work[l].env = NoEnvelope
    BY <1>2 DEF Modes, Quiet, Resting, Idle
  <2>3. Owned(d, disk', tried')
    BY <2>2 DEF Owned, Holding
  <2> QED BY <1>2, <2>1, <2>3 DEF Server, Cancels, Keeps
<1>11. ASSUME NEW q \in Process, q # p PROVE Server(chan'[q], disk', tried')
  <2>1. CASE chan[q].life \in Unserved
    BY <1>1, <1>3, <1>11, <2>1, RestingServer
  <2>2. CASE chan[q].life \notin Unserved
    <3>1. lease = q
      BY <1>1, <2>2 DEF OneWriter, Unserved
    <3>2. chan[p].life \in Unserved
      BY <1>1, <1>11, <3>1 DEF OneWriter, Unserved
    <3>3. tried' = tried
      BY <3>2 DEF Leaves
    <3> QED BY <1>1, <1>2, <1>3, <1>11, <3>3
  <2> QED BY <2>1, <2>2
<1>12. Inv'
  BY <1>3, <1>5, <1>6, <1>7, <1>8, <1>9, <1>10, <1>11 DEF Inv
<1>13. Steady
  <2>1. \A l \in Lane : d.work[l].pc = "idle"
    BY <1>2 DEF Modes, Quiet, Resting, Idle
  <2> QED BY <1>3, <2>1 DEF Steady
<1> QED BY <1>12, <1>13

LEMMA PreparePreserves ==
  ASSUME Inv, NEW p \in Process, Prepare(p) PROVE Inv' /\ Steady
<1> DEFINE c == chan[p]
           d == [c EXCEPT !.life = "prepared"]
<1>1. /\ c.life = "off" /\ chan' = [chan EXCEPT ![p] = d] /\ fresh' = fresh \cup {p}
      /\ setup' = setup /\ disk' = disk /\ lease' = lease /\ acked' = acked
      /\ tried' = tried /\ newer' = newer
  BY DEF Prepare, Update, history
<1>2. /\ c \in Channel /\ Modes(c) /\ fresh \subseteq Process /\ lease \in Process \cup {Nobody}
      /\ lease # p /\ tried \in [Envelope -> Attempts]
  BY <1>1, Serves DEF Inv, Typed, LeaseOK
<1>3. /\ d \in Channel /\ d.life = "prepared" /\ Remembers(c, d) /\ d.work = c.work
      /\ d.aborted = c.aborted /\ d.toAck = c.toAck /\ d.running = c.running
  <2>1. "prepared" \in Life
    BY DEF Life
  <2> HIDE DEF c
  <2> QED BY <1>2, <2>1, LifeFacts
<1> HIDE DEF d
<1>4. Modes(d) /\ d.life \in Unserved
  BY <1>1, <1>2, <1>3 DEF Modes, Resting, Unserved, Quiet, Remembers
<1>5. Leaves(p, d)
  BY <1>1, <1>2, <1>3, <1>4 DEF Leaves
<1> QED BY <1>5, LeaveStep

LEMMA AcquirePreserves ==
  ASSUME Inv, NEW p \in Process, Acquire(p) PROVE Inv' /\ Steady
<1> DEFINE c == chan[p]
           d == [c EXCEPT !.life = "leased"]
<1>1. /\ c.life = "prepared" /\ lease = Nobody /\ lease' = p
      /\ chan' = [chan EXCEPT ![p] = d] /\ fresh' = fresh
      /\ setup' = setup /\ disk' = disk /\ acked' = acked
      /\ tried' = tried /\ newer' = newer
  BY DEF Acquire, Update, history, inbox
<1>2. /\ c \in Channel /\ Modes(c) /\ fresh \subseteq Process /\ tried \in [Envelope -> Attempts]
      /\ \A q \in Process : lease # q
  BY <1>1, Serves, ChannelAssumption DEF Inv, Typed, ChannelAssumption
<1>3. /\ d \in Channel /\ d.life = "leased" /\ Remembers(c, d) /\ d.work = c.work
      /\ d.aborted = c.aborted /\ d.toAck = c.toAck /\ d.running = c.running
  <2>1. "leased" \in Life
    BY DEF Life
  <2> HIDE DEF c
  <2> QED BY <1>2, <2>1, LifeFacts
<1> HIDE DEF d
<1>4. Modes(d) /\ d.life \in Unserved
  BY <1>1, <1>2, <1>3 DEF Modes, Resting, Unserved, Quiet, Remembers
<1>5. Leaves(p, d)
  BY <1>1, <1>2, <1>3, <1>4 DEF Leaves
<1> QED BY <1>5, LeaveStep

LEMMA OffModes == Modes(Off) /\ Off.life \in Unserved /\ Off.life # "leased" /\ Off \in Channel
BY OffType DEF Modes, Unserved, Quiet

\* Whoever leaves gives the lease up, if it has it.
LEMMA AbandonPreserves ==
  ASSUME Inv, NEW p \in Process, AbandonStart(p) PROVE Inv' /\ Steady
<1>1. /\ chan' = [chan EXCEPT ![p] = Off] /\ fresh' = fresh \ {p}
      /\ lease' = IF lease = p THEN Nobody ELSE lease
      /\ setup' = setup /\ disk' = disk /\ acked' = acked
      /\ tried' = tried /\ newer' = newer
  BY DEF AbandonStart, Update, history
<1>2. /\ fresh \subseteq Process /\ tried \in [Envelope -> Attempts]
      /\ lease \in Process \cup {Nobody} /\ Nobody \notin Process
  BY ChannelAssumption DEF Inv, Typed, ChannelAssumption
<1>3. Leaves(p, Off)
  BY <1>1, <1>2, OffModes DEF Leaves
<1> QED BY <1>3, LeaveStep

LEMMA ClosePreserves ==
  ASSUME Inv, NEW p \in Process, Close(p) PROVE Inv' /\ Steady
<1> DEFINE c == chan[p]
<1>1. /\ c.life = "closing" /\ chan' = [chan EXCEPT ![p] = [Off EXCEPT !.work = c.work]]
      /\ fresh' = fresh \ {p} /\ lease' = Nobody
      /\ setup' = setup /\ disk' = disk /\ acked' = acked
      /\ tried' = tried /\ newer' = newer
  BY DEF Close, Update, history
<1>2. /\ fresh \subseteq Process /\ tried \in [Envelope -> Attempts]
      /\ lease = p /\ Nobody \notin Process /\ c \in Channel /\ Quiet(c)
  BY <1>1, Serves, ChannelAssumption DEF Inv, Typed, OneWriter, ChannelAssumption, Modes, Resting
<1>3. c.work = [l \in Lane |-> Idle]
  BY <1>2 DEF Quiet, Channel
<1>4. [Off EXCEPT !.work = c.work] = Off
  BY <1>3, OffType DEF Channel
<1>5. Leaves(p, Off)
  BY <1>1, <1>2, <1>4, OffModes DEF Leaves
<1> QED BY <1>5, LeaveStep

\* The process dies: an attempt that ran is of unknown outcome, and its entry stays.
LEMMA CrashPreserves ==
  ASSUME Inv, NEW p \in Process, Crash(p) PROVE Inv' /\ Steady
<1> DEFINE lost(e) == \E l \in Lane : chan[p].work[l].env = e /\ tried[e] = "running"
<1>1. /\ chan' = [chan EXCEPT ![p] = Off] /\ fresh' = fresh \ {p}
      /\ lease' = IF lease = p THEN Nobody ELSE lease
      /\ setup' = setup /\ disk' = disk /\ acked' = acked /\ newer' = newer
      /\ tried' = [e \in Envelope |-> IF lost(e) THEN "unknown" ELSE tried[e]]
  BY DEF Crash, Update
<1>2. /\ fresh \subseteq Process /\ tried \in [Envelope -> Attempts]
      /\ lease \in Process \cup {Nobody} /\ Nobody \notin Process
  BY ChannelAssumption DEF Inv, Typed, ChannelAssumption
<1>3. tried' \in [Envelope -> Attempts]
  <2>1. \A e \in Envelope : (IF lost(e) THEN "unknown" ELSE tried[e]) \in Attempts
    BY <1>2 DEF Attempts
  <2> HIDE DEF lost
  <2> QED BY <1>1, <2>1
<1>4. \A e \in Envelope : tried[e] # "running" => tried'[e] = tried[e]
  <2>1. \A e : tried[e] # "running" => ~lost(e)
    OBVIOUS
  <2> HIDE DEF lost
  <2> QED BY <1>1, <2>1
<1>5. chan[p].life \in Unserved => tried' = tried
  <2> SUFFICES ASSUME chan[p].life \in Unserved PROVE tried' = tried
    OBVIOUS
  <2>1. \A l \in Lane : chan[p].work[l].env = NoEnvelope
    BY Serves DEF Modes, Quiet, Resting, Idle
  <2>2. \A e \in Envelope : ~lost(e)
    BY <2>1, InboxAssumption DEF InboxAssumption
  <2> HIDE DEF lost
  <2> QED BY <1>1, <1>2, <2>2
<1> HIDE DEF lost
<1>6. Leaves(p, Off)
  BY <1>1, <1>2, <1>3, <1>4, <1>5, OffModes DEF Leaves
<1> QED BY <1>6, LeaveStep

\* openPrepared: the file is the one recorded, and nothing in it is being worked on.
LEMMA OpenPreserves ==
  ASSUME Inv, NEW p \in Process, Open(p) PROVE Inv' /\ Steady
<1> DEFINE c == chan[p]
           b == [c EXCEPT !.life = "serving", !.running = TRUE, !.mem = disk]
           d == Wake(b, Lane)
<1>1. /\ c.life = "leased" /\ p \in fresh /\ chan' = [chan EXCEPT ![p] = d] /\ fresh' = fresh
      /\ setup' = setup /\ disk' = disk /\ lease' = lease /\ acked' = acked
      /\ tried' = tried /\ newer' = newer
  BY DEF Open, Serving, Update, history, inbox
<1>2. /\ setup \in Setups /\ chan \in [Process -> Channel]
      /\ disk \in Inbox /\ LeaseOK /\ OneWriter
      /\ \A q \in Process : Server(chan[q], disk, tried)
      /\ c \in Channel /\ Modes(c) /\ Lane \in SUBSET Lane /\ "primary" \in Lane
  BY Serves DEF Inv, Typed, Lane
<1>3. lease = p /\ Quiet(c) /\ c.aborted = {} /\ ~c.poisoned /\ c.toAck = {}
  BY <1>1, <1>2 DEF LeaseOK, Modes, Unserved, Resting
<1> HIDE DEF c
<1>4. /\ b \in Channel /\ b.life = "serving" /\ b.running /\ b.mem = disk
      /\ b.poisoned = c.poisoned /\ b.work = c.work /\ b.aborted = c.aborted /\ b.toAck = c.toAck
  BY <1>2 DEF Channel, Life
<1> HIDE DEF b
<1>5. /\ Works(b, d, "primary") /\ Remembers(b, d) /\ d.running = b.running /\ d.toAck = b.toAck
      /\ \A m \in Lane : \/ d.work[m] = b.work[m]
                         \/ /\ b.running /\ b.work[m] = Idle
                            /\ d.work[m] = At("claim", NoEnvelope)
  BY <1>2, <1>4, WakeWorks
<1> HIDE DEF d
<1>6. /\ d \in Channel /\ d.life = "serving" /\ d.mem = disk /\ ~d.poisoned /\ d.aborted = {}
      /\ d.toAck = {} /\ d.running
      /\ \A m \in Lane : d.work[m].pc \notin Holding /\ d.work[m].env = NoEnvelope
                         /\ d.work[m].pc # "process" /\ d.work[m].pc # "release"
  <2>1. \A m \in Lane : d.work[m] = Idle \/ d.work[m] = At("claim", NoEnvelope)
    BY <1>3, <1>4, <1>5 DEF Quiet
  <2> QED BY <1>3, <1>4, <1>5, <2>1 DEF Works, Remembers, Idle, At, Holding
<1>7. Server(d, disk, tried)
  <2>1. Modes(d)
    BY <1>6 DEF Modes, Resting, Unserved
  <2> QED BY <1>6, <2>1 DEF Server, Owned, Cancels, Keeps
<1>8. chan'[p] = d /\ \A q \in Process : q # p => chan'[q] = chan[q]
  BY <1>1, <1>2
<1>9. Typed'
  BY <1>1, <1>2, <1>6 DEF Inv, Typed
<1>10. LeaseOK'
  BY <1>1, <1>2, <1>3, <1>6, <1>8 DEF LeaseOK
<1>11. OneWriter'
  BY <1>1, <1>2, <1>3, <1>6, <1>8 DEF OneWriter
<1>12. \A q \in Process : Server(chan'[q], disk', tried')
  BY <1>1, <1>2, <1>7, <1>8
<1>13. Inv'
  BY <1>1, <1>9, <1>10, <1>11, <1>12 DEF Inv
<1>14. Steady
  BY <1>6, <1>8 DEF Steady
<1> QED BY <1>13, <1>14

\* The operator's requeue: nobody has the lease, so that nobody serves.
LEMMA OperatorPreserves ==
  ASSUME Inv, NEW e \in Envelope, OperatorRequeue(e) PROVE Inv' /\ Steady
<1>1. /\ lease = Nobody /\ e \in Processing(disk) /\ disk' \in Release(e, disk) /\ fresh' = {}
      /\ tried' = [tried EXCEPT ![e] = "requeued"] /\ setup' = setup /\ lease' = lease
      /\ chan' = chan /\ acked' = acked /\ newer' = newer
  BY DEF OperatorRequeue, Try
<1>2. /\ setup \in Setups /\ chan \in [Process -> Channel] /\ disk \in Inbox /\ LeaseOK
      /\ \A q \in Process : Server(chan[q], disk, tried)
      /\ acked \subseteq Envelope /\ Keeps(acked, disk, tried) /\ Recalls(disk, tried, newer)
      /\ newer \in [Envelope -> 0..MaxReceipts] /\ tried \in [Envelope -> Attempts]
      /\ \A q \in Process : chan[q].life \in Unserved
  BY <1>1, ChannelAssumption DEF Inv, Typed, OneWriter, Unserved, ChannelAssumption
<1>3. e \in Entered(disk)
  BY <1>1 DEF Processing, WithStatus, Entered
<1>4. /\ disk' \in Inbox /\ Elsewhere({e}, disk, disk') /\ disk'.receipts = disk.receipts
      /\ e \in Entered(disk')
  <2>1. "pending" \in {"pending", "failed"}
    OBVIOUS
  <2>2. disk' = MarkAll({e}, "pending", "none", disk)
    BY <1>1 DEF Release
  <2>3. LET t == MarkAll({e}, "pending", "none", disk)
        IN /\ t \in Inbox /\ Elsewhere({e}, disk, t) /\ t.receipts = disk.receipts
           /\ Entered(t) = Entered(disk)
    BY <1>2, <2>1, UnlaneWrites
  <2> QED BY <1>3, <2>2, <2>3
<1>5. /\ tried' \in [Envelope -> Attempts] /\ tried'[e] = "requeued"
      /\ \A x \in Envelope \ {e} : tried'[x] = tried[x]
  BY <1>1, <1>2 DEF Attempts
<1>6. Recalls(disk', tried', newer')
  <2>1. Repeatable(e, tried', newer)
    BY <1>5 DEF Repeatable
  <2>2. Recalls(disk', tried', newer)
    BY <1>2, <1>4, <1>5, <2>1, RecallsWrite
  <2> QED BY <1>1, <2>2
<1>7. Keeps(acked', disk', tried')
  <2>1. Keeps(acked, disk', tried')
    BY <1>2, <1>4, <1>5, KeepsElsewhere
  <2> QED BY <1>1, <2>1
<1>8. \A q \in Process : Server(chan'[q], disk', tried')
  BY <1>1, <1>2, RestingServer
<1>9. Typed'
  BY <1>1, <1>2, <1>4, <1>5 DEF Inv, Typed
<1>10. LeaseOK' /\ OneWriter'
  BY <1>1, <1>2 DEF LeaseOK, OneWriter, Unserved
<1>11. Inv'
  BY <1>6, <1>7, <1>8, <1>9, <1>10 DEF Inv
<1>12. Steady
  BY <1>1 DEF Steady
<1> QED BY <1>11, <1>12

---------------------------------------------------------------------------
(* The theorems                                                            *)

LEMMA Deliveries == ASSUME Inv PROVE DOMAIN setup.kind \subseteq Envelope
BY ChannelAssumption DEF Inv, Typed, ChannelAssumption, IsSetup

LEMMA LifecyclePreserves ==
  ASSUME Inv, NEW p \in Process, Lifecycle(p) PROVE Inv' /\ Steady
BY PreparePreserves, AcquirePreserves, OpenPreserves, AbandonPreserves, TransportPreserves,
   DrainPreserves, StopPreserves, GracePreserves, SettlePreserves, RetainPreserves,
   RequeuePreserves, RetainedPreserves, ClosePreserves, CrashPreserves DEF Lifecycle

LEMMA WorkPreserves ==
  ASSUME Inv, NEW p \in Process, NEW l \in Lane, Work(p, l) PROVE Inv' /\ Justified
<1>1. CASE ClaimNext(p, l)
  BY <1>1, ClaimPreserves
<1>2. CASE \/ Processed(p, l) \/ Cancelled(p, l) \/ Threw(p, l)
           \/ CompleteEvent(p, l) \/ FailEvent(p, l) \/ Finish(p, l)
  <2>1. Inv' /\ Steady
    BY <1>2, ProcessedPreserves, CancelledPreserves, ThrewPreserves, CompletePreserves,
       FailPreserves, FinishPreserves
  <2> QED BY <2>1, SteadyJustifies
<1> QED BY <1>1, <1>2 DEF Work

LEMMA NextPreserves == ASSUME Inv, Next PROVE Inv' /\ Justified
<1>1. ASSUME NEW p \in Process, Lifecycle(p) PROVE Inv' /\ Justified
  BY <1>1, LifecyclePreserves, SteadyJustifies
<1>2. ASSUME NEW p \in Process, NEW e \in DOMAIN setup.kind, Admit(p, e) \/ Ack(p, e)
      PROVE  Inv' /\ Justified
  <2>1. e \in Envelope
    BY Deliveries
  <2>2. Inv' /\ Steady
    BY <1>2, <2>1, AdmitPreserves, AckPreserves
  <2> QED BY <2>2, SteadyJustifies
<1>3. ASSUME NEW p \in Process, NEW l \in Lane, Work(p, l) PROVE Inv' /\ Justified
  BY <1>3, WorkPreserves
<1>4. ASSUME NEW p \in Process, Dispatch(p) \/ Declined(p) \/ ReleaseEvent(p)
      PROVE  Inv' /\ Justified
  BY <1>4, DispatchPreserves, DeclinedPreserves, ReleasePreserves, SteadyJustifies
<1>5. ASSUME NEW e \in Envelope, OperatorRequeue(e) PROVE Inv' /\ Justified
  BY <1>5, OperatorPreserves, SteadyJustifies
<1> QED BY <1>1, <1>2, <1>3, <1>4, <1>5 DEF Next

LEMMA StutterPreserves == ASSUME Inv, UNCHANGED vars PROVE Inv'
BY DEF Inv, Typed, LeaseOK, OneWriter, vars, inbox, history

\* The inductive invariant: the inbox is what validateState passes, at most one
\* process serves and knows the file, each worker owns the entry it is on, and the
\* entries and receipts recall how every attempt went.
THEOREM SlackInvariance == Spec => []Inv
<1>1. Init => Inv
  BY InitEstablishes
<1>2. Inv /\ [Next]_vars => Inv'
  BY NextPreserves, StutterPreserves
<1> QED BY <1>1, <1>2, PTL DEF Spec

\* The state has its types, and what mutate writes always passes validateState: no
\* restart of the channel finds the inbox corrupt, and no mutation is refused as invalid.
THEOREM SlackTypes == Spec => []TypeOK
<1>1. Inv => TypeOK
  <2> SUFFICES ASSUME Inv PROVE TypeOK
    OBVIOUS
  <2>1. Typed
    BY DEF Inv
  <2>2. ValidState(disk)
    BY <2>1, InboxIsValid DEF Typed
  <2>3. ASSUME NEW p \in Process
        PROVE  /\ chan[p].life \in Life
               /\ chan[p].abort \in {"none", "failed", "shutdown"}
               /\ {chan[p].running, chan[p].safe, chan[p].had, chan[p].poisoned}
                    \subseteq BOOLEAN
               /\ ValidState(chan[p].mem)
               /\ \A l \in Lane :
                    /\ chan[p].work[l].pc \in Pc
                    /\ chan[p].work[l].pc \in Holding <=> chan[p].work[l].env \in Envelope
               /\ chan[p].requested \subseteq Lane
               /\ chan[p].aborted \cup chan[p].primaryOnly \cup chan[p].toAck
                    \subseteq Envelope
    <3> DEFINE c == chan[p]
    <3>1. c \in Channel
      BY <2>1 DEF Typed
    <3> HIDE DEF c
    <3>2. ValidState(c.mem)
      BY <3>1, InboxIsValid DEF Channel
    <3>3. \A l \in Lane : c.work[l] \in Task
      BY <3>1 DEF Channel
    <3>4. \A l \in Lane : /\ c.work[l].pc \in Pc
                          /\ c.work[l].pc \in Holding <=> c.work[l].env \in Envelope
      BY <3>3 DEF Task
    <3>5. /\ c.life \in Life /\ c.abort \in {"none", "failed", "shutdown"}
          /\ {c.running, c.safe, c.had, c.poisoned} \subseteq BOOLEAN
          /\ c.requested \subseteq Lane
          /\ c.aborted \cup c.primaryOnly \cup c.toAck \subseteq Envelope
      BY <3>1 DEF Channel
    <3> QED BY <3>2, <3>4, <3>5 DEF c
  <2> QED BY <2>1, <2>2, <2>3 DEF TypeOK, Typed, Attempts
<1> QED BY <1>1, SlackInvariance, PTL

\* OneWriter: the lock of acquireLease lets at most one process serve the inbox, through
\* every crash, takeover and failed start.
THEOREM SlackOneWriter == Spec => []OneWriter
<1>1. Inv => OneWriter
  BY DEF Inv
<1> QED BY <1>1, SlackInvariance, PTL

\* A worker processes or dispatches only what claimNext has written as processing in its
\* own lane: no admission, cancellation or requeue takes an entry away under it.
THEOREM SlackWorkersOwn == Spec => []WorkersOwnTheirEntries
<1>1. Inv => WorkersOwnTheirEntries
  <2> SUFFICES ASSUME Inv, NEW p \in Process, NEW l \in Lane,
                      chan[p].work[l].pc \in {"process", "dispatched"}
               PROVE  \E i \in DOMAIN disk.entries :
                        disk.entries[i] = [env |-> chan[p].work[l].env, status |-> "processing",
                                           lane |-> l]
    BY DEF WorkersOwnTheirEntries
  <2>1. Row(chan[p].work[l].env, "processing", l) \in Rows(disk)
    BY Holds DEF Holding
  <2> QED BY <2>1 DEF Row, Rows, ToSet
<1> QED BY <1>1, SlackInvariance, PTL

\* AckedIsKept: an envelope acknowledged to Slack is in the file or done, whichever write
\* of mutate fails and whenever the process dies.
THEOREM SlackAckedIsKept == Spec => []AckedIsKept
<1>1. Inv => AckedIsKept
  BY DEF Inv, Keeps, AckedIsKept
<1> QED BY <1>1, SlackInvariance, PTL

\* NoBlindRepeat: claimNext starts no event again whose last attempt may have had an
\* effect, unless an operator requeued it or its receipt was trimmed at the cap, and
\* starts none that is on another worker.
THEOREM SlackNoBlindRepeat == Spec => NoBlindRepeat
<1> DEFINE A == \A p \in Process, l \in Lane, e \in Envelope :
                  Starts(p, l, e) =>
                    /\ \/ tried[e] \in {"never", "declined", "cancelled", "requeued"}
                       \/ tried[e] = "done" /\ newer[e] = MaxReceipts
                    /\ \A q \in Process, m \in Lane : chan[q].work[m].env # e
<1>1. Inv /\ [Next]_vars => [A]_vars
  BY NextPreserves DEF Justified
<1> QED BY <1>1, SlackInvariance, PTL DEF Spec, NoBlindRepeat

=============================================================================
