--------------------------- MODULE DeliveryProofs ---------------------------
(***************************************************************************)
(* Proofs about Delivery, for every number of keys, contents, calls and    *)
(* turns and any limit of attempts: a message goes out once at most, its   *)
(* receipt and its entry in the history agree, answers are true, views are *)
(* prefixes of the history, and Delivery implements DeliverOnce.           *)
(***************************************************************************)
EXTENDS Delivery, SequenceTheorems, TLAPS

---------------------------------------------------------------------------
(* The inductive invariant *)

Extends(read, s) == Len(s) <= Len(read) /\ \A i \in 1..Len(s) : s[i] = read[i]
Names(s, k) == \E i \in 1..Len(s) : s[i] = k
NamesOnce(s, k) == \E i \in 1..Len(s) : \A j \in 1..Len(s) : s[j] = k <=> j = i

\* The receipt of a key, what went out under it, and the history agree.
ReceiptOK(k) ==
  /\ copies[k] \in {0, 1}
  /\ receipt[k].status \in {"absent", "failed"} => copies[k] = 0
  /\ receipt[k].status = "absent" <=> receipt[k].content = NoContent
  /\ receipt[k].status = "delivered" => copies[k] = 1 /\ NamesOnce(history, k)
  /\ receipt[k].status # "delivered" => ~Names(history, k)

ReceiptsOK == \A k \in Key : ReceiptOK(k)

\* The call's own intent is still the receipt of its key.
Owns(r) ==
  /\ receipt[r.key].status = "intent"
  /\ receipt[r.key].content = r.content
  /\ receipt[r.key].attempt = r.attempt
  /\ r.attempt > 0

Delivered(r) ==
  receipt[r.key].status = "delivered" /\ receipt[r.key].content = r.content

\* What the locals of a call say of its key is so.
CallOK(r) ==
  IF r.phase = "idle" THEN r.key = NoKey ELSE
  /\ r.key \in Key /\ r.content \in Content
  /\ r.phase = "preparing" => ~r.sent
  /\ r.phase = "prepared" => Owns(r) /\ copies[r.key] = 0 /\ ~r.sent
  /\ r.phase = "sending" => Owns(r) /\ (~r.sent => copies[r.key] = 0)
  /\ r.phase = "settling" =>
       /\ Owns(r)
       /\ r.result \in {"failed", "unknown"}
       /\ r.result = "failed" => copies[r.key] = 0
  /\ r.phase = "confirming" => Owns(r) /\ copies[r.key] = 1
  /\ r.phase \in {"reading", "viewing"} => Delivered(r)
  /\ r.phase = "viewing" => Extends(history, r.snapshot)
  /\ r.phase = "doubting" => Owns(r) \/ Delivered(r)
  /\ r.phase = "answering" =>
       /\ r.result = "delivered" => Delivered(r) /\ Names(view, r.key)
       /\ r.result = "failed" => copies[r.key] = 0
       /\ r.result = "conflict" => receipt[r.key].content # r.content

CallsOK == \A c \in Call : CallOK(call[c])

\* Calls in progress hold different keys.
KeysOK == \A c, d \in Call : c # d => call[c].key = NoKey \/ call[c].key # call[d].key

\* The view, and what a turn has read, are prefixes of the history.
ViewsOK ==
  /\ Extends(history, view)
  /\ \A t \in Turn :
       turn[t].phase \in {"loading", "settling"} => Extends(history, turn[t].base)

Inv == TypeOK /\ ReceiptsOK /\ CallsOK /\ KeysOK /\ ViewsOK


---------------------------------------------------------------------------
(* Lemmas *)

Entries == Key \cup Turn

LEMMA ExtendsAppend ==
  ASSUME NEW h \in Seq(Entries), NEW s \in Seq(Entries), NEW e \in Entries, Extends(h, s)
  PROVE  Extends(Append(h, e), s)
  BY DEF Extends

LEMMA ExtendsIsTransitive ==
  ASSUME NEW a \in Seq(Entries), NEW b \in Seq(Entries), NEW c \in Seq(Entries),
         Extends(a, b), Extends(b, c)
  PROVE  Extends(a, c)
  BY DEF Extends

\* Of two prefixes of the history the longer extends the shorter.
LEMMA PrefixesCompare ==
  ASSUME NEW h \in Seq(Entries), NEW a \in Seq(Entries), NEW b \in Seq(Entries),
         Extends(h, a), Extends(h, b), Len(b) <= Len(a)
  PROVE  Extends(a, b)
  BY DEF Extends

LEMMA PrefixesOfOneLength ==
  ASSUME NEW h \in Seq(Entries), NEW a \in Seq(Entries), Extends(h, a), Len(a) = Len(h)
  PROVE  a = h
  BY DEF Extends

LEMMA NamesMonotone ==
  ASSUME NEW a \in Seq(Entries), NEW b \in Seq(Entries), NEW k, Extends(a, b), Names(b, k)
  PROVE  Names(a, k)
  BY DEF Extends, Names

\* A history that grows by the entry of another names a key as it did.
LEMMA OthersEntries ==
  ASSUME NEW h \in Seq(Entries), NEW e \in Entries, NEW k \in Key, k # e
  PROVE  /\ Names(Append(h, e), k) <=> Names(h, k)
         /\ NamesOnce(h, k) => NamesOnce(Append(h, e), k)
<1>1. /\ Append(h, e) \in Seq(Entries) /\ Len(Append(h, e)) = Len(h) + 1
      /\ Append(h, e)[Len(h) + 1] = e
      /\ \A i \in 1..Len(h) : Append(h, e)[i] = h[i]
  OBVIOUS
<1>2. Names(Append(h, e), k) <=> Names(h, k)
  <2>1. \A i \in 1..Len(h) : i \in 1..Len(Append(h, e))
    BY <1>1
  <2>2. \A i \in 1..Len(Append(h, e)) : i = Len(h) + 1 \/ i \in 1..Len(h)
    BY <1>1
  <2> QED BY <1>1, <2>1, <2>2 DEF Names
<1>3. NamesOnce(h, k) => NamesOnce(Append(h, e), k)
  <2> SUFFICES ASSUME NamesOnce(h, k) PROVE NamesOnce(Append(h, e), k)
    OBVIOUS
  <2>1. PICK i \in 1..Len(h) : \A j \in 1..Len(h) : h[j] = k <=> j = i
    BY DEF NamesOnce
  <2>2. \A j \in 1..Len(Append(h, e)) : Append(h, e)[j] = k <=> j = i
    BY <1>1, <2>1
  <2>3. i \in 1..Len(Append(h, e))
    BY <1>1
  <2> QED BY <2>2, <2>3 DEF NamesOnce
<1> QED BY <1>2, <1>3

LEMMA FirstEntry ==
  ASSUME NEW h \in Seq(Entries), NEW k \in Key, ~Names(h, k)
  PROVE  NamesOnce(Append(h, k), k)
<1>1. /\ Len(Append(h, k)) = Len(h) + 1
      /\ Append(h, k)[Len(h) + 1] = k
      /\ \A i \in 1..Len(h) : Append(h, k)[i] = h[i]
  OBVIOUS
<1>2. \A j \in 1..Len(Append(h, k)) : Append(h, k)[j] = k <=> j = Len(h) + 1
  BY <1>1 DEF Names
<1>3. Len(h) + 1 \in 1..Len(Append(h, k))
  BY <1>1
<1> QED BY <1>2, <1>3 DEF NamesOnce

\* A read of the history that is shown leaves a view that extends both the view
\* before and, if it is not older, the read.
LEMMA ShownView ==
  ASSUME Inv, NEW read \in Seq(Entries), Extends(history, read), View(read)
  PROVE  /\ view' \in Seq(Entries)
         /\ Extends(view', view) /\ Extends(view', read) /\ Extends(history, view')
         /\ loaded' \in BOOLEAN
<1>1. view \in Seq(Entries) /\ history \in Seq(Entries) /\ Extends(history, view)
  BY DEF Inv, TypeOK, StoreTypeOK, ViewsOK, Entries
<1>2. view' = IF Len(view) > Len(read) THEN view ELSE read
  BY DEF View, Newer
<1>3. loaded' \in BOOLEAN
  BY DEF View
<1>4. CASE Len(view) > Len(read)
  BY <1>1, <1>2, <1>3, <1>4, PrefixesCompare
<1>5. CASE Len(view) <= Len(read)
  BY <1>1, <1>2, <1>3, <1>5, PrefixesCompare
<1> QED BY <1>1, <1>4, <1>5


---------------------------------------------------------------------------
(* Frames: a call changes one receipt, a turn none *)

\* The history stays or grows by one entry.
Grows(e) == history' = history \/ history' = Append(history, e)

\* What others read and showed stays a prefix; their entries stay as they are.
LEMMA GrownHistory ==
  ASSUME Inv, NEW e \in Entries, Grows(e)
  PROVE  /\ history' \in Seq(Entries)
         /\ \A s \in Seq(Entries) : Extends(history, s) => Extends(history', s)
         /\ \A k \in Key \ {e} : /\ Names(history', k) <=> Names(history, k)
                                 /\ NamesOnce(history, k) => NamesOnce(history', k)
<1>1. history \in Seq(Entries)
  BY DEF Inv, TypeOK, StoreTypeOK, Entries
<1>2. CASE history' = history
  BY <1>1, <1>2
<1>3. CASE history' = Append(history, e)
  <2>1. history' \in Seq(Entries)
    BY <1>1, <1>3
  <2>2. \A s \in Seq(Entries) : Extends(history, s) => Extends(history', s)
    BY <1>1, <1>3, ExtendsAppend
  <2>3. ASSUME NEW k \in Key \ {e}
        PROVE  /\ Names(history', k) <=> Names(history, k)
               /\ NamesOnce(history, k) => NamesOnce(history', k)
    BY <1>1, <1>3, OthersEntries
  <2> QED BY <2>1, <2>2, <2>3
<1> QED BY <1>2, <1>3 DEF Grows

\* A call keeps its invariant while nothing moves but what others may move.
LEMMA CallKept ==
  ASSUME Inv, NEW d \in Call, call'[d] = call[d],
         NEW e \in Entries, Grows(e),
         call[d].key \in Key =>
           /\ receipt'[call[d].key].status = receipt[call[d].key].status
           /\ receipt'[call[d].key].content = receipt[call[d].key].content
           /\ receipt'[call[d].key].attempt = receipt[call[d].key].attempt
           /\ copies'[call[d].key] = copies[call[d].key],
         view' \in Seq(Entries), Extends(view', view)
  PROVE  CallOK(call[d])'
<1>1. CallOK(call[d]) /\ call[d] \in CallRecord /\ view \in Seq(Entries)
  BY DEF Inv, TypeOK, StoreTypeOK, CallsOK, Entries
<1>2. CASE call[d].phase = "idle"
  BY <1>1, <1>2 DEF CallOK
<1>3. CASE call[d].phase # "idle"
  <2>1. call[d].key \in Key /\ call[d].content \in Content
    BY <1>1, <1>3 DEF CallOK
  <2>2. Owns(call[d])' <=> Owns(call[d])
    BY <2>1 DEF Owns
  <2>3. Delivered(call[d])' <=> Delivered(call[d])
    BY <2>1 DEF Delivered
  <2>4. Extends(history, call[d].snapshot) => Extends(history', call[d].snapshot)
    BY <1>1, GrownHistory DEF CallRecord, Entries
  <2>5. Names(view, call[d].key) => Names(view', call[d].key)
    BY <1>1, NamesMonotone
  <2>6. copies'[call[d].key] = copies[call[d].key]
        /\ receipt'[call[d].key].content = receipt[call[d].key].content
    BY <2>1
  <2>7. call[d].phase \in {"reading", "viewing"} => Delivered(call[d])'
    BY <1>1, <1>3, <2>3 DEF CallOK
  <2>8. call[d].phase = "viewing" => Extends(history', call[d].snapshot)
    BY <1>1, <1>3, <2>4 DEF CallOK
  <2>9. call[d].phase = "doubting" => Owns(call[d])' \/ Delivered(call[d])'
    BY <1>1, <1>3, <2>2, <2>3 DEF CallOK
  <2>10. call[d].phase = "answering" =>
           /\ call[d].result = "delivered" => Delivered(call[d])' /\ Names(view', call[d].key)
           /\ call[d].result = "failed" => copies'[call[d].key] = 0
           /\ call[d].result = "conflict" => receipt'[call[d].key].content # call[d].content
    BY <1>1, <1>3, <2>3, <2>5, <2>6 DEF CallOK
  <2>11. /\ call[d].phase = "preparing" => ~call[d].sent
         /\ call[d].phase = "prepared" =>
              Owns(call[d])' /\ copies'[call[d].key] = 0 /\ ~call[d].sent
         /\ call[d].phase = "sending" =>
              Owns(call[d])' /\ (~call[d].sent => copies'[call[d].key] = 0)
         /\ call[d].phase = "settling" =>
              /\ Owns(call[d])'
              /\ call[d].result \in {"failed", "unknown"}
              /\ call[d].result = "failed" => copies'[call[d].key] = 0
         /\ call[d].phase = "confirming" => Owns(call[d])' /\ copies'[call[d].key] = 1
    BY <1>1, <1>3, <2>2, <2>6 DEF CallOK
  <2> QED BY <1>3, <2>1, <2>7, <2>8, <2>9, <2>10, <2>11 DEF CallOK, Owns, Delivered
<1> QED BY <1>2, <1>3


LEMMA ReceiptKept ==
  ASSUME Inv, NEW k \in Key, NEW e \in Entries, Grows(e), k # e,
         receipt'[k].status = receipt[k].status,
         receipt'[k].content = receipt[k].content,
         copies'[k] = copies[k]
  PROVE  ReceiptOK(k)'
<1>1. ReceiptOK(k)
  BY DEF Inv, ReceiptsOK
<1>2. /\ Names(history', k) <=> Names(history, k)
      /\ NamesOnce(history, k) => NamesOnce(history', k)
  BY GrownHistory
<1> QED BY <1>1, <1>2 DEF ReceiptOK

\* A step of call c for key k: nobody else holds k, other receipts stay, and the
\* history gains at most the entry of k.
CallFrame(c, k) ==
  /\ call[c].key \in {NoKey, k}
  /\ \A d \in Call \ {c} : call[d].key # k
  /\ call' = [call EXCEPT ![c] = call'[c]]
  /\ call'[c] \in CallRecord
  /\ call'[c].key \in {NoKey, k}
  /\ receipt' \in [Key -> Receipt]
  /\ \A j \in Key \ {k} : receipt'[j] = receipt[j]
  /\ copies' \in [Key -> Nat]
  /\ \A j \in Key \ {k} : copies'[j] = copies[j]
  /\ Grows(k)
  /\ turn' = turn
  /\ poisoned' \in BOOLEAN
  /\ told' \in [Key -> SUBSET Content]

LEMMA CallMoves ==
  ASSUME Inv, NEW c \in Call, NEW k \in Key, CallFrame(c, k),
         ReceiptOK(k)', CallOK(call[c])',
         view' \in Seq(Entries), Extends(view', view), Extends(history', view'),
         loaded' \in BOOLEAN
  PROVE  Inv'
<1>1. k \in Entries
  BY DEF Entries
<1>2. history' \in Seq(Entries)
  BY <1>1, GrownHistory DEF CallFrame
<1>3. call' \in [Call -> CallRecord]
  BY DEF Inv, TypeOK, CallFrame
<1>4. turn' \in [Turn -> TurnRecord]
  BY DEF Inv, TypeOK, CallFrame
<1>5. TypeOK'
  BY <1>2, <1>3, <1>4 DEF TypeOK, StoreTypeOK, Entries, CallFrame
<1>6. ReceiptsOK'
  <2> SUFFICES ASSUME NEW j \in Key PROVE ReceiptOK(j)'
    BY DEF ReceiptsOK
  <2>1. CASE j = k
    BY <2>1
  <2>2. CASE j # k
    BY <1>1, <2>2, ReceiptKept DEF CallFrame
  <2> QED BY <2>1, <2>2
<1>7. CallsOK'
  <2> SUFFICES ASSUME NEW d \in Call PROVE CallOK(call[d])'
    BY DEF CallsOK
  <2>1. CASE d = c
    BY <2>1
  <2>2. CASE d # c
    <3>1. call'[d] = call[d] /\ call[d].key # k
      BY <2>2 DEF Inv, TypeOK, CallFrame
    <3>2. call[d].key \in Key =>
            receipt'[call[d].key] = receipt[call[d].key]
            /\ copies'[call[d].key] = copies[call[d].key]
      BY <3>1 DEF CallFrame
    <3>3. Grows(k)
      BY DEF CallFrame
    <3> QED BY <1>1, <3>1, <3>2, <3>3, CallKept
  <2> QED BY <2>1, <2>2
<1>8. KeysOK'
  <2> SUFFICES ASSUME NEW d \in Call, NEW b \in Call, d # b
               PROVE  call'[d].key = NoKey \/ call'[d].key # call'[b].key
    BY DEF KeysOK
  <2>1. \A a \in Call \ {c} : call'[a] = call[a] /\ call[a].key # k
    BY DEF Inv, TypeOK, CallFrame
  <2>2. CASE d # c /\ b # c
    BY <2>1, <2>2 DEF Inv, KeysOK
  <2>3. CASE d = c
    BY <2>1, <2>3 DEF CallFrame
  <2>4. CASE b = c
    BY <2>1, <2>4 DEF CallFrame
  <2> QED BY <2>2, <2>3, <2>4
<1>9. ViewsOK'
  <2> SUFFICES ASSUME NEW t \in Turn, turn[t].phase \in {"loading", "settling"}
               PROVE  Extends(history', turn[t].base)
    BY DEF ViewsOK, CallFrame
  <2>1. turn[t].base \in Seq(Entries) /\ Extends(history, turn[t].base)
    BY DEF Inv, TypeOK, TurnRecord, ViewsOK, Entries
  <2> QED BY <1>1, <2>1, GrownHistory DEF CallFrame
<1> QED BY <1>5, <1>6, <1>7, <1>8, <1>9 DEF Inv

\* A step of a turn: no receipt and no call moves.
TurnFrame(t) ==
  /\ turn' = [turn EXCEPT ![t] = turn'[t]]
  /\ turn'[t] \in TurnRecord
  /\ call' = call /\ receipt' = receipt /\ copies' = copies /\ told' = told
  /\ Grows(t)
  /\ poisoned' \in BOOLEAN
  /\ loaded' \in BOOLEAN

LEMMA TurnMoves ==
  ASSUME Inv, NEW t \in Turn, TurnFrame(t),
         turn'[t].phase \in {"loading", "settling"} => Extends(history', turn'[t].base),
         view' \in Seq(Entries), Extends(view', view), Extends(history', view')
  PROVE  Inv'
<1>1. t \in Entries /\ t \notin Key
  BY DeliveryAssumption DEF Entries
<1>2. history' \in Seq(Entries)
  BY <1>1, GrownHistory DEF TurnFrame
<1>3. turn' \in [Turn -> TurnRecord]
  BY DEF Inv, TypeOK, TurnFrame
<1>4. TypeOK'
  BY <1>2, <1>3 DEF Inv, TypeOK, StoreTypeOK, Entries, TurnFrame
<1>5. ReceiptsOK'
  <2> SUFFICES ASSUME NEW j \in Key PROVE ReceiptOK(j)'
    BY DEF ReceiptsOK
  <2> QED BY <1>1, ReceiptKept DEF TurnFrame
<1>6. CallsOK'
  <2> SUFFICES ASSUME NEW d \in Call PROVE CallOK(call[d])'
    BY DEF CallsOK
  <2> QED BY <1>1, CallKept DEF TurnFrame
<1>7. KeysOK'
  BY DEF Inv, KeysOK, TurnFrame
<1>8. ViewsOK'
  <2> SUFFICES ASSUME NEW u \in Turn, turn'[u].phase \in {"loading", "settling"}
               PROVE  Extends(history', turn'[u].base)
    BY DEF ViewsOK
  <2>1. CASE u = t
    BY <2>1
  <2>2. CASE u # t
    <3>1. turn'[u] = turn[u]
      BY <2>2 DEF Inv, TypeOK, TurnFrame
    <3>2. turn[u].base \in Seq(Entries) /\ Extends(history, turn[u].base)
      BY <3>1 DEF Inv, TypeOK, TurnRecord, ViewsOK, Entries
    <3> QED BY <1>1, <3>1, <3>2, GrownHistory DEF TurnFrame
  <2> QED BY <2>1, <2>2
<1> QED BY <1>4, <1>5, <1>6, <1>7, <1>8 DEF Inv


---------------------------------------------------------------------------
(* What each write of the journal does to its receipt *)

StoreFrame(k) ==
  /\ receipt' \in [Key -> Receipt]
  /\ \A j \in Key \ {k} : receipt'[j] = receipt[j]
  /\ Grows(k)

LEMMA Unwritten ==
  ASSUME Inv, NEW k \in Key, copies' = copies, UNCHANGED <<receipt, history>>
  PROVE  StoreFrame(k) /\ ReceiptOK(k)'
<1>1. ReceiptOK(k) /\ receipt \in [Key -> Receipt]
  BY DEF Inv, TypeOK, StoreTypeOK, ReceiptsOK
<1>2. ReceiptOK(k)'
  BY <1>1 DEF ReceiptOK
<1> QED BY <1>1, <1>2 DEF StoreFrame, Grows

LEMMA Intended ==
  ASSUME Inv, NEW k \in Key, NEW f \in Content, copies' = copies, IntentWrite(k, f)
  PROVE  /\ StoreFrame(k) /\ ReceiptOK(k)'
         /\ receipt'[k].status = "intent" /\ receipt'[k].content = f
         /\ receipt'[k].attempt = receipt[k].attempt + 1
         /\ receipt[k].attempt \in Nat
         /\ copies[k] = 0
<1>1. ReceiptOK(k) /\ receipt \in [Key -> Receipt] /\ receipt[k] \in Receipt
  BY DEF Inv, TypeOK, StoreTypeOK, ReceiptsOK
<1>2. /\ receipt' = [receipt EXCEPT ![k] = receipt'[k]]
      /\ receipt'[k] = Intent(f, receipt[k].attempt + 1)
      /\ history' = history
      /\ receipt[k].status \in {"absent", "failed"}
  BY <1>1 DEF IntentWrite
<1>3. receipt'[k] \in Receipt
  BY <1>1, <1>2 DEF Intent, Receipt, Status
<1>4. StoreFrame(k)
  BY <1>1, <1>2, <1>3 DEF StoreFrame, Grows
<1>5. ReceiptOK(k)'
  BY <1>1, <1>2, DeliveryAssumption DEF ReceiptOK, Intent
<1> QED BY <1>1, <1>2, <1>4, <1>5 DEF Intent, Receipt, ReceiptOK

\* A settlement that sends nothing to the history.
LEMMA Closed ==
  ASSUME Inv, NEW k \in Key, copies' = copies, NEW s \in {"failed", "unknown"},
         s = "failed" => copies[k] = 0,
         receipt[k].status = "intent",
         receipt' = [receipt EXCEPT ![k].status = s, ![k].lease = "expired"],
         history' = history
  PROVE  /\ StoreFrame(k) /\ ReceiptOK(k)'
         /\ receipt'[k].status = s /\ receipt'[k].content = receipt[k].content
<1>1. ReceiptOK(k) /\ receipt \in [Key -> Receipt] /\ receipt[k] \in Receipt
  BY DEF Inv, TypeOK, StoreTypeOK, ReceiptsOK
<1>2. receipt'[k] = [receipt[k] EXCEPT !.status = s, !.lease = "expired"]
  BY <1>1
<1>3. receipt'[k].status = s /\ receipt'[k].content = receipt[k].content
  BY <1>1, <1>2 DEF Receipt
<1>4. receipt'[k] \in Receipt
  BY <1>1, <1>2 DEF Receipt, Status
<1>5. StoreFrame(k)
  BY <1>1, <1>4 DEF StoreFrame, Grows
<1>6. ReceiptOK(k)'
  BY <1>1, <1>3 DEF ReceiptOK
<1> QED BY <1>3, <1>5, <1>6

LEMMA SettledAsDelivered ==
  ASSUME Inv, NEW k \in Key, NEW f \in Content, NEW n \in Nat, copies' = copies,
         copies[k] = 1, DeliveredWrite(k, f, n)
  PROVE  /\ StoreFrame(k) /\ ReceiptOK(k)'
         /\ receipt'[k].status = "delivered" /\ receipt'[k].content = f
<1>1. /\ ReceiptOK(k) /\ receipt \in [Key -> Receipt] /\ receipt[k] \in Receipt
      /\ history \in Seq(Entries)
  BY DEF Inv, TypeOK, StoreTypeOK, ReceiptsOK, Entries
<1>2. /\ receipt'[k] = [receipt[k] EXCEPT !.status = "delivered", !.lease = "expired"]
      /\ receipt' = [receipt EXCEPT ![k] = receipt'[k]]
      /\ history' = Append(history, k)
      /\ receipt[k].content = f /\ receipt[k].status = "intent"
  BY <1>1 DEF DeliveredWrite, Holds
<1>3. receipt'[k].status = "delivered" /\ receipt'[k].content = f
  BY <1>1, <1>2 DEF Receipt
<1>4. receipt'[k] \in Receipt
  BY <1>1, <1>2 DEF Receipt, Status
<1>5. StoreFrame(k)
  BY <1>1, <1>2, <1>4 DEF StoreFrame, Grows
<1>6. NamesOnce(history', k)
  BY <1>1, <1>2, FirstEntry DEF ReceiptOK
<1>7. ReceiptOK(k)'
  BY <1>1, <1>2, <1>3, <1>6 DEF ReceiptOK
<1> QED BY <1>3, <1>5, <1>7


---------------------------------------------------------------------------
(* The steps of a call *)

LEMMA AnsweredWith ==
  ASSUME NEW r \in CallRecord, NEW o \in Result
  PROVE  /\ Answered(r, o) \in CallRecord /\ Answered(r, o).phase = "answering"
         /\ Answered(r, o).key = r.key /\ Answered(r, o).content = r.content
         /\ Answered(r, o).result = o
  BY DEF CallRecord, CallPhase, Answered

\* A call in progress is one of a key, and nobody else is.
LEMMA InProgress ==
  ASSUME Inv, NEW c \in Call, call[c].phase # "idle"
  PROVE  /\ call[c].key \in Key /\ call[c].content \in Content
         /\ call[c] \in CallRecord
         /\ \A d \in Call \ {c} : call[d].key # call[c].key
<1>1. /\ call[c].key \in Key /\ call[c].content \in Content /\ call[c] \in CallRecord
  BY DEF Inv, TypeOK, CallsOK, CallOK
<1>2. call[c].key # NoKey
  BY <1>1, CallAssumption
<1> QED BY <1>1, <1>2 DEF Inv, KeysOK

\* A step that moves at most the receipt of its key, and the call.
LEMMA JournalStep ==
  ASSUME Inv, NEW c \in Call, NEW k \in Key, k = call[c].key, call[c].phase # "idle",
         StoreFrame(k), ReceiptOK(k)', poisoned' \in BOOLEAN,
         call' = [call EXCEPT ![c] = call'[c]], call'[c] \in CallRecord,
         call'[c].key \in {NoKey, k}, CallOK(call[c])',
         turn' = turn, view' = view, copies' = copies, told' \in [Key -> SUBSET Content],
         loaded' \in BOOLEAN
  PROVE  Inv'
<1>1. \A d \in Call \ {c} : call[d].key # k
  BY InProgress
<1>2. copies' \in [Key -> Nat] /\ view \in Seq(Entries) /\ Extends(history, view)
  BY DEF Inv, TypeOK, StoreTypeOK, ViewsOK, Entries
<1>3. CallFrame(c, k)
  BY <1>1, <1>2 DEF CallFrame, StoreFrame
<1>4. Extends(view', view)
  BY <1>2 DEF Extends
<1>5. Extends(history', view')
  BY <1>2, GrownHistory DEF StoreFrame, Entries
<1> QED BY <1>2, <1>3, <1>4, <1>5, CallMoves

\* The same, of a step that leaves the store alone.
LEMMA LocalStep ==
  ASSUME Inv, NEW c \in Call, call[c].phase # "idle", UNCHANGED store,
         call' = [call EXCEPT ![c] = call'[c]], call'[c] \in CallRecord,
         call'[c].key \in {NoKey, call[c].key}, CallOK(call[c])',
         turn' = turn, view' = view, copies' = copies, told' \in [Key -> SUBSET Content],
         loaded' \in BOOLEAN
  PROVE  Inv'
<1>1. PICK k \in Key : k = call[c].key
  BY InProgress
<1>2. StoreFrame(k) /\ ReceiptOK(k)'
  BY Unwritten DEF store
<1>3. poisoned' \in BOOLEAN
  BY DEF Inv, TypeOK, StoreTypeOK, store
<1> QED BY <1>1, <1>2, <1>3, JournalStep

LEMMA DeliverKeeps ==
  ASSUME Inv, NEW c \in Call, NEW k \in Key, NEW f \in Content, Deliver(c, k, f)
  PROVE  Inv'
<1>1. call'[c] = [IdleCall EXCEPT !.phase = "preparing", !.key = k, !.content = f]
  BY DEF Deliver, Goto, Inv, TypeOK
<1>2. /\ call'[c] \in CallRecord /\ call'[c].key = k /\ call'[c].content = f
      /\ call'[c].phase = "preparing" /\ ~call'[c].sent
  <2>1. <<>> \in Seq(Key \cup Turn)
    OBVIOUS
  <2>2. call'[c] = [phase |-> "preparing", key |-> k, content |-> f, attempt |-> 0,
                    sent |-> FALSE, snapshot |-> <<>>, result |-> "error"]
    BY <1>1 DEF IdleCall
  <2> QED BY <2>1, <2>2 DEF CallRecord, CallPhase, Result
<1>3. call[c].key = NoKey
  BY DEF Deliver, At, Inv, CallsOK, CallOK
<1>4. StoreFrame(k) /\ ReceiptOK(k)'
  BY Unwritten DEF Deliver, store, observed
<1>5. /\ history \in Seq(Entries) /\ view \in Seq(Entries) /\ Extends(history, view)
      /\ poisoned \in BOOLEAN /\ loaded \in BOOLEAN /\ copies \in [Key -> Nat]
      /\ told \in [Key -> SUBSET Content]
  BY DEF Inv, TypeOK, StoreTypeOK, ViewsOK, Entries
<1>6. /\ turn' = turn /\ view' = view /\ poisoned' = poisoned /\ history' = history
      /\ loaded' = loaded /\ copies' = copies /\ told' = told
      /\ call' = [call EXCEPT ![c] = call'[c]]
  BY <1>1 DEF Deliver, store, observed, Goto
<1>7. \A d \in Call \ {c} : call[d].key # k
  BY DEF Deliver, Inflight
<1>8. CallFrame(c, k)
  BY <1>2, <1>3, <1>4, <1>5, <1>6, <1>7 DEF CallFrame, StoreFrame
<1>9. CallOK(call[c])'
  BY <1>2 DEF CallOK
<1>10. Extends(view', view) /\ Extends(history', view')
  BY <1>5, <1>6 DEF Extends
<1> QED BY <1>4, <1>5, <1>6, <1>8, <1>9, <1>10, CallMoves

LEMMA PrepareIntentKeeps ==
  ASSUME Inv, NEW c \in Call, PrepareIntent(c)
  PROVE  Inv'
<1> DEFINE r == call[c]
<1>1. call[c].phase = "preparing"
  BY DEF PrepareIntent, At
<1>2. PICK k \in Key : k = call[c].key
  BY <1>1, InProgress
<1>3. PICK f \in Content : f = call[c].content
  BY <1>1, InProgress
<1>4. call[c] \in CallRecord /\ call \in [Call -> CallRecord]
  BY DEF Inv, TypeOK
<1>5. /\ turn' = turn /\ view' = view /\ loaded' = loaded /\ copies' = copies /\ told' = told
      /\ loaded \in BOOLEAN /\ told \in [Key -> SUBSET Content] /\ poisoned \in BOOLEAN
  BY DEF PrepareIntent, Write, observed, Inv, TypeOK, StoreTypeOK
<1>6. CASE /\ Applied(IntentWrite(r.key, r.content))
           /\ Goto(c, [r EXCEPT !.phase = "prepared", !.attempt = receipt[r.key].attempt + 1])
  <2>1. IntentWrite(k, f) /\ poisoned' = poisoned
    BY <1>2, <1>3, <1>6 DEF Applied
  <2>2. /\ StoreFrame(k) /\ ReceiptOK(k)'
        /\ receipt'[k].status = "intent" /\ receipt'[k].content = f
        /\ receipt'[k].attempt = receipt[k].attempt + 1
        /\ receipt[k].attempt \in Nat
        /\ copies[k] = 0
    BY <1>5, <2>1, Intended
  <2>3. call'[c] = [r EXCEPT !.phase = "prepared", !.attempt = receipt[k].attempt + 1]
    BY <1>2, <1>4, <1>6 DEF Goto
  <2>4. PICK n \in Nat : n = receipt[k].attempt + 1
    BY <2>2
  <2>5. call'[c] = [r EXCEPT !.phase = "prepared", !.attempt = n]
    BY <2>3, <2>4
  <2>6. /\ call'[c] \in CallRecord /\ call'[c].phase = "prepared"
        /\ call'[c].key = r.key /\ call'[c].content = r.content
        /\ call'[c].attempt = n /\ (~r.sent => ~call'[c].sent)
    BY <1>4, <2>5 DEF CallRecord, CallPhase
  <2>7. /\ call'[c] \in CallRecord /\ call'[c].key = k /\ call'[c].content = f
        /\ call'[c].phase = "prepared" /\ call'[c].attempt = receipt[k].attempt + 1
    BY <1>2, <1>3, <2>4, <2>6
  <2>8. ~call'[c].sent
    BY <1>1, <2>6 DEF Inv, CallsOK, CallOK
  <2>9. CallOK(call[c])'
    BY <1>5, <2>2, <2>7, <2>8 DEF CallOK, Owns
  <2> QED BY <1>1, <1>2, <1>5, <1>6, <2>1, <2>2, <2>3, <2>7, <2>9, JournalStep DEF Goto
<1>7. CASE /\ Failed(IntentWrite(r.key, r.content))
           /\ Goto(c, Answered(r, "error"))
  <2>1. IntentWrite(k, f) \/ UNCHANGED <<receipt, history>>
    BY <1>2, <1>3, <1>7 DEF Failed, Torn, store
  <2>2. StoreFrame(k) /\ ReceiptOK(k)'
    BY <1>5, <2>1, Intended, Unwritten
  <2>3. poisoned' \in BOOLEAN
    BY <1>5, <1>7 DEF Failed, Torn, store
  <2>4. /\ call'[c] \in CallRecord /\ call'[c].key = k /\ call'[c].content = f
        /\ call'[c].phase = "answering" /\ call'[c].result = "error"
    BY <1>2, <1>3, <1>4, <1>7 DEF Goto, Answered, CallRecord, CallPhase, Result
  <2>5. CallOK(call[c])'
    BY <2>4 DEF CallOK
  <2>6. call' = [call EXCEPT ![c] = call'[c]]
    BY <1>4, <1>7 DEF Goto
  <2> QED BY <1>1, <1>2, <1>5, <2>2, <2>3, <2>4, <2>5, <2>6, JournalStep
<1> QED BY <1>6, <1>7 DEF PrepareIntent, Write


\* A call moves on to answering, to reading or to doubting, whatever became of the
\* write it made on the way.
LEMMA MovesOn ==
  ASSUME Inv, NEW c \in Call, NEW k \in Key, k = call[c].key, call[c].phase # "idle",
         StoreFrame(k), ReceiptOK(k)', poisoned' \in BOOLEAN,
         NEW p \in {"reading", "doubting"},
         Goto(c, [call[c] EXCEPT !.phase = p]),
         p = "doubting" => Owns(call[c])' \/ Delivered(call[c])',
         p = "reading" => Delivered(call[c])',
         turn' = turn, view' = view, copies' = copies, told' = told, loaded' \in BOOLEAN
  PROVE  Inv'
<1>1. call[c] \in CallRecord /\ call[c].key \in Key /\ call[c].content \in Content
  BY InProgress
<1>2. call' = [call EXCEPT ![c] = call'[c]] /\ call'[c] = [call[c] EXCEPT !.phase = p]
  BY DEF Goto, Inv, TypeOK
<1>3. /\ call'[c] \in CallRecord /\ call'[c].phase = p /\ call'[c].key = call[c].key
      /\ call'[c].content = call[c].content /\ call'[c].attempt = call[c].attempt
  BY <1>1, <1>2 DEF CallRecord, CallPhase
<1>4. told' \in [Key -> SUBSET Content]
  BY DEF Inv, TypeOK
<1>5. p = "doubting" => Owns(call[c])' \/ Delivered(call[c])'
  OBVIOUS
<1>6. CallOK(call[c])'
  BY <1>1, <1>3, <1>5 DEF CallOK
<1> QED BY <1>2, <1>3, <1>4, <1>6, JournalStep

LEMMA AnswersWith ==
  ASSUME Inv, NEW c \in Call, NEW k \in Key, k = call[c].key, call[c].phase # "idle",
         StoreFrame(k), ReceiptOK(k)', poisoned' \in BOOLEAN,
         NEW o \in Result \ {"delivered"}, Goto(c, Answered(call[c], o)),
         o = "failed" => copies[k] = 0,
         o = "conflict" => receipt'[k].content # call[c].content,
         turn' = turn, view' = view, copies' = copies, told' = told, loaded' \in BOOLEAN
  PROVE  Inv'
<1>1. call[c] \in CallRecord /\ call[c].key \in Key /\ call[c].content \in Content
  BY InProgress
<1>2. call' = [call EXCEPT ![c] = call'[c]] /\ call'[c] = Answered(call[c], o)
  BY DEF Goto, Inv, TypeOK
<1>3. /\ call'[c] \in CallRecord /\ call'[c].phase = "answering"
      /\ call'[c].key = call[c].key /\ call'[c].content = call[c].content
      /\ call'[c].result = o
  BY <1>1, <1>2 DEF Answered, CallRecord, CallPhase
<1>4. told' \in [Key -> SUBSET Content]
  BY DEF Inv, TypeOK
<1>5. CallOK(call[c])'
  BY <1>1, <1>3 DEF CallOK
<1> QED BY <1>2, <1>3, <1>4, <1>5, JournalStep

\* What is left of a write that may have been made.
LEMMA MaybeClosed ==
  ASSUME Inv, NEW k \in Key, copies' = copies, NEW s \in {"failed", "unknown"},
         s = "failed" => copies[k] = 0, NEW f, NEW n,
         SettleWrite(k, f, n, s) \/ UNCHANGED <<receipt, history>>
  PROVE  StoreFrame(k) /\ ReceiptOK(k)'
<1>1. CASE SettleWrite(k, f, n, s)
  BY <1>1, Closed DEF SettleWrite, Holds
<1> QED BY <1>1, Unwritten

LEMMA PrepareStaleKeeps ==
  ASSUME Inv, NEW c \in Call, PrepareStale(c)
  PROVE  Inv'
<1>1. PICK k \in Key : k = call[c].key
  BY InProgress DEF PrepareStale, At
<1>2. PICK o \in {"unknown", "error"} : Goto(c, Answered(call[c], o))
  BY DEF PrepareStale, Write
<1>3. /\ turn' = turn /\ view' = view /\ loaded' = loaded /\ copies' = copies /\ told' = told
      /\ loaded \in BOOLEAN /\ poisoned \in BOOLEAN
  BY DEF PrepareStale, Write, observed, Inv, TypeOK, StoreTypeOK
<1>4. /\ StaleIntentWrite(k, call[c].content) \/ UNCHANGED <<receipt, history>>
      /\ poisoned' \in BOOLEAN
  BY <1>1, <1>3 DEF PrepareStale, Write, Applied, Failed, Torn, store
<1>5. StoreFrame(k) /\ ReceiptOK(k)'
  <2>1. CASE StaleIntentWrite(k, call[c].content)
    <3>1. /\ receipt[k].status = "intent" /\ history' = history
          /\ receipt' = [receipt EXCEPT ![k].status = "unknown", ![k].lease = "expired"]
      BY <2>1 DEF StaleIntentWrite
    <3> QED BY <1>3, <3>1, Closed
  <2> QED BY <1>3, <1>4, <2>1, Unwritten
<1>6. o \in Result \ {"delivered"}
  BY DEF Result
<1> QED BY <1>1, <1>2, <1>3, <1>4, <1>5, <1>6, AnswersWith DEF PrepareStale, At

LEMMA PrepareExistingKeeps ==
  ASSUME Inv, NEW c \in Call, PrepareExisting(c)
  PROVE  Inv'
<1>1. call[c].phase = "preparing"
  BY DEF PrepareExisting, At
<1>2. PICK k \in Key : k = call[c].key
  BY <1>1, InProgress
<1>3. /\ turn' = turn /\ view' = view /\ copies' = copies /\ told' = told
      /\ UNCHANGED store /\ loaded' \in BOOLEAN /\ poisoned' \in BOOLEAN
  BY DEF PrepareExisting, observed, store, Inv, TypeOK, StoreTypeOK
<1>4. StoreFrame(k) /\ ReceiptOK(k)'
  BY <1>3, Unwritten DEF store
<1>5. CASE receipt[k].content # call[c].content /\ Answer(c, "conflict")
  <2>1. receipt'[k].content # call[c].content
    BY <1>3, <1>5 DEF store
  <2> QED BY <1>1, <1>2, <1>3, <1>4, <1>5, <2>1, AnswersWith DEF Answer, Result
<1>6. CASE Answer(c, "unknown")
  BY <1>1, <1>2, <1>3, <1>4, <1>6, AnswersWith DEF Answer, Result
<1>7. CASE /\ receipt[k].content = call[c].content /\ receipt[k].status = "delivered"
           /\ Goto(c, [call[c] EXCEPT !.phase = "reading"])
  <2>1. call'[c].key = call[c].key /\ call'[c].content = call[c].content
    BY <1>1, <1>7, InProgress DEF Goto, Inv, TypeOK, CallRecord
  <2>2. Delivered(call[c])'
    BY <1>2, <1>3, <1>7, <2>1 DEF Delivered, store
  <2> QED BY <1>1, <1>2, <1>3, <1>4, <1>7, <2>2, MovesOn
<1> QED BY <1>2, <1>5, <1>6, <1>7 DEF PrepareExisting


LEMMA CancelBeforeSendKeeps ==
  ASSUME Inv, NEW c \in Call, CancelBeforeSend(c)
  PROVE  Inv'
<1>1. call[c].phase = "prepared"
  BY DEF CancelBeforeSend, At
<1>2. PICK k \in Key : k = call[c].key
  BY <1>1, InProgress
<1>3. copies[k] = 0
  BY <1>1, <1>2 DEF Inv, CallsOK, CallOK
<1>4. /\ turn' = turn /\ view' = view /\ copies' = copies /\ told' = told
      /\ loaded' \in BOOLEAN /\ poisoned \in BOOLEAN
  BY DEF CancelBeforeSend, Write, observed, Inv, TypeOK, StoreTypeOK
<1>5. /\ \/ SettleWrite(k, call[c].content, call[c].attempt, "failed")
         \/ UNCHANGED <<receipt, history>>
      /\ poisoned' \in BOOLEAN
      /\ Goto(c, Answered(call[c], "failed"))
  BY <1>2, <1>4 DEF CancelBeforeSend, Write, Applied, Failed, Torn, store
<1>6. StoreFrame(k) /\ ReceiptOK(k)'
  BY <1>3, <1>4, <1>5, MaybeClosed
<1> QED BY <1>1, <1>2, <1>3, <1>4, <1>5, <1>6, AnswersWith DEF Result

LEMMA SendKeeps ==
  ASSUME Inv, NEW c \in Call, Send(c)
  PROVE  Inv'
<1>1. call[c].phase = "prepared"
  BY DEF Send, At
<1>2. call[c] \in CallRecord /\ call[c].key \in Key /\ call[c].content \in Content
  BY <1>1, InProgress
<1>3. /\ turn' = turn /\ view' = view /\ copies' = copies /\ told' \in [Key -> SUBSET Content]
      /\ loaded' \in BOOLEAN /\ UNCHANGED store
  BY DEF Send, observed, store, Inv, TypeOK
<1>4. /\ call' = [call EXCEPT ![c] = call'[c]]
      /\ call'[c] = [call[c] EXCEPT !.phase = "sending"]
  BY DEF Send, Goto, Inv, TypeOK
<1>5. /\ call'[c] \in CallRecord /\ call'[c].phase = "sending"
      /\ call'[c].key = call[c].key /\ call'[c].content = call[c].content
      /\ call'[c].attempt = call[c].attempt
  BY <1>2, <1>4 DEF CallRecord, CallPhase
<1>6. Owns(call[c]) /\ copies[call[c].key] = 0
  BY <1>1 DEF Inv, CallsOK, CallOK
<1>7. Owns(call[c])' /\ copies'[call'[c].key] = 0
  BY <1>3, <1>5, <1>6 DEF Owns, store
<1>8. CallOK(call[c])'
  BY <1>2, <1>5, <1>7 DEF CallOK
<1> QED BY <1>1, <1>3, <1>4, <1>5, <1>8, LocalStep

LEMMA MessageGoesOutKeeps ==
  ASSUME Inv, NEW c \in Call, MessageGoesOut(c)
  PROVE  Inv'
<1>1. call[c].phase = "sending" /\ ~call[c].sent
  BY DEF MessageGoesOut, At
<1>2. PICK k \in Key : k = call[c].key
  BY <1>1, InProgress
<1>3. /\ call[c] \in CallRecord /\ call[c].content \in Content
      /\ \A d \in Call \ {c} : call[d].key # k
  BY <1>1, <1>2, InProgress
<1>4. /\ turn' = turn /\ view' = view /\ told' = told /\ told \in [Key -> SUBSET Content]
      /\ loaded' \in BOOLEAN /\ receipt' = receipt /\ history' = history
      /\ poisoned' \in BOOLEAN /\ receipt \in [Key -> Receipt]
      /\ copies' = [copies EXCEPT ![k] = @ + 1] /\ copies \in [Key -> Nat]
  BY <1>2 DEF MessageGoesOut, store, Inv, TypeOK, StoreTypeOK
<1>5. /\ call' = [call EXCEPT ![c] = call'[c]]
      /\ call'[c] = [call[c] EXCEPT !.sent = TRUE]
  BY DEF MessageGoesOut, Goto, Inv, TypeOK
<1>6. /\ call'[c] \in CallRecord /\ call'[c].phase = "sending" /\ call'[c].sent
      /\ call'[c].key = k /\ call'[c].content = call[c].content
      /\ call'[c].attempt = call[c].attempt
  BY <1>1, <1>2, <1>3, <1>5 DEF CallRecord
<1>7. Owns(call[c]) /\ copies[k] = 0
  BY <1>1, <1>2 DEF Inv, CallsOK, CallOK
<1>8. copies' \in [Key -> Nat] /\ copies'[k] = 1 /\ \A j \in Key \ {k} : copies'[j] = copies[j]
  BY <1>4, <1>7
<1>9. ReceiptOK(k)'
  BY <1>2, <1>4, <1>7, <1>8 DEF Inv, ReceiptsOK, ReceiptOK, Owns
<1>10. Owns(call[c])'
  BY <1>2, <1>4, <1>6, <1>7 DEF Owns
<1>11. CallOK(call[c])'
  BY <1>3, <1>6, <1>10 DEF CallOK
<1>12. CallFrame(c, k)
  BY <1>2, <1>3, <1>4, <1>5, <1>6, <1>8 DEF CallFrame, Grows
<1>13. view' \in Seq(Entries) /\ Extends(view', view) /\ Extends(history', view')
  BY <1>4 DEF Inv, TypeOK, ViewsOK, Extends, Entries
<1> QED BY <1>4, <1>9, <1>11, <1>12, <1>13, CallMoves

LEMMA ChannelAnswersKeeps ==
  ASSUME Inv, NEW c \in Call, NEW result \in {"delivered", "failed", "unknown"},
         ChannelAnswers(c, result)
  PROVE  Inv'
<1>1. call[c].phase = "sending"
  BY DEF ChannelAnswers, At
<1>2. call[c] \in CallRecord /\ call[c].key \in Key /\ call[c].content \in Content
  BY <1>1, InProgress
<1>3. /\ turn' = turn /\ view' = view /\ copies' = copies /\ told' \in [Key -> SUBSET Content]
      /\ loaded' \in BOOLEAN /\ UNCHANGED store
  BY DEF ChannelAnswers, observed, store, Inv, TypeOK
<1>4. PICK p \in {"confirming", "settling"} : (p = "confirming" <=> result = "delivered")
        /\ call'[c] = [call[c] EXCEPT !.phase = p, !.result = result]
        /\ call' = [call EXCEPT ![c] = call'[c]]
  BY DEF ChannelAnswers, Goto, Inv, TypeOK
<1>5. /\ call'[c] \in CallRecord /\ call'[c].phase = p /\ call'[c].result = result
      /\ call'[c].key = call[c].key /\ call'[c].content = call[c].content
      /\ call'[c].attempt = call[c].attempt
  BY <1>2, <1>4 DEF CallRecord, CallPhase, Result
<1>6. Owns(call[c]) /\ (~call[c].sent => copies[call[c].key] = 0)
  BY <1>1 DEF Inv, CallsOK, CallOK
<1>7. Owns(call[c])'
  BY <1>3, <1>5, <1>6 DEF Owns, store
<1>8. copies[call[c].key] \in {0, 1}
  BY <1>2 DEF Inv, ReceiptsOK, ReceiptOK
<1>9. /\ result = "failed" => copies'[call'[c].key] = 0
      /\ result = "delivered" => copies'[call'[c].key] = 1
  BY <1>3, <1>5, <1>6, <1>8 DEF ChannelAnswers
<1>10. CallOK(call[c])'
  BY <1>2, <1>4, <1>5, <1>7, <1>9 DEF CallOK
<1> QED BY <1>1, <1>3, <1>4, <1>5, <1>10, LocalStep

LEMMA ChannelThrowsKeeps ==
  ASSUME Inv, NEW c \in Call, ChannelThrows(c)
  PROVE  Inv'
<1>1. call[c].phase = "sending"
  BY DEF ChannelThrows, At
<1>2. PICK k \in Key : k = call[c].key
  BY <1>1, InProgress
<1>3. /\ turn' = turn /\ view' = view /\ copies' = copies /\ told' = told
      /\ loaded' \in BOOLEAN /\ UNCHANGED store /\ poisoned' \in BOOLEAN
  BY DEF ChannelThrows, observed, store, Inv, TypeOK, StoreTypeOK
<1>4. Goto(c, [call[c] EXCEPT !.phase = "doubting"])
  BY DEF ChannelThrows
<1>5. /\ call'[c].key = call[c].key /\ call'[c].content = call[c].content
      /\ call'[c].attempt = call[c].attempt
  BY <1>1, <1>4, InProgress DEF Goto, Inv, TypeOK, CallRecord
<1>6. Owns(call[c])'
  BY <1>1, <1>3, <1>5 DEF Inv, CallsOK, CallOK, Owns, store
<1>7. StoreFrame(k) /\ ReceiptOK(k)'
  BY <1>3, Unwritten DEF store
<1> QED BY <1>1, <1>2, <1>3, <1>4, <1>6, <1>7, MovesOn


LEMMA SettleResultKeeps ==
  ASSUME Inv, NEW c \in Call, SettleResult(c)
  PROVE  Inv'
<1>1. call[c].phase = "settling"
  BY DEF SettleResult, At
<1>2. PICK k \in Key : k = call[c].key
  BY <1>1, InProgress
<1>3. PICK s \in {"failed", "unknown"} : s = call[c].result /\ (s = "failed" => copies[k] = 0)
  BY <1>1, <1>2 DEF Inv, CallsOK, CallOK
<1>4. /\ turn' = turn /\ view' = view /\ copies' = copies /\ told' = told
      /\ loaded' \in BOOLEAN /\ poisoned \in BOOLEAN
  BY DEF SettleResult, Write, observed, Inv, TypeOK, StoreTypeOK
<1>5. /\ \/ SettleWrite(k, call[c].content, call[c].attempt, s)
         \/ UNCHANGED <<receipt, history>>
      /\ poisoned' \in BOOLEAN
  BY <1>2, <1>3, <1>4 DEF SettleResult, Write, Applied, Failed, Torn, store
<1>6. PICK o \in {"failed", "unknown"} :
        Goto(c, Answered(call[c], o)) /\ (o = "failed" => s = "failed")
  BY <1>3 DEF SettleResult, Write
<1>7. StoreFrame(k) /\ ReceiptOK(k)'
  BY <1>3, <1>4, <1>5, MaybeClosed
<1> QED BY <1>1, <1>2, <1>3, <1>4, <1>5, <1>6, <1>7, AnswersWith DEF Result

LEMMA DoubtKeeps ==
  ASSUME Inv, NEW c \in Call, Doubt(c)
  PROVE  Inv'
<1>1. call[c].phase = "doubting"
  BY DEF Doubt, At
<1>2. PICK k \in Key : k = call[c].key
  BY <1>1, InProgress
<1>3. /\ turn' = turn /\ view' = view /\ copies' = copies /\ told' = told
      /\ loaded' \in BOOLEAN /\ poisoned \in BOOLEAN
  BY DEF Doubt, Write, observed, Inv, TypeOK, StoreTypeOK
<1>4. /\ \/ SettleWrite(k, call[c].content, call[c].attempt, "unknown")
         \/ UNCHANGED <<receipt, history>>
      /\ poisoned' \in BOOLEAN
      /\ Goto(c, Answered(call[c], "unknown"))
  BY <1>2, <1>3 DEF Doubt, Write, Applied, Failed, Torn, store, Answer
<1>5. StoreFrame(k) /\ ReceiptOK(k)'
  BY <1>3, <1>4, MaybeClosed
<1> QED BY <1>1, <1>2, <1>3, <1>4, <1>5, AnswersWith DEF Result

LEMMA SettleDeliveredKeeps ==
  ASSUME Inv, NEW c \in Call, SettleDelivered(c)
  PROVE  Inv'
<1>1. call[c].phase = "confirming"
  BY DEF SettleDelivered, At
<1>2. PICK k \in Key : k = call[c].key
  BY <1>1, InProgress
<1>3. PICK f \in Content : f = call[c].content
  BY <1>1, InProgress
<1>4. /\ Owns(call[c]) /\ copies[k] = 1 /\ call[c].attempt \in Nat
  BY <1>1, <1>2 DEF Inv, TypeOK, CallsOK, CallOK, CallRecord
<1>5. /\ turn' = turn /\ view' = view /\ copies' = copies /\ told' = told
      /\ loaded' \in BOOLEAN /\ poisoned \in BOOLEAN
  BY DEF SettleDelivered, Write, observed, Inv, TypeOK, StoreTypeOK
<1>6. PICK p \in {"reading", "doubting"} :
        /\ Goto(c, [call[c] EXCEPT !.phase = p])
        /\ \/ DeliveredWrite(k, f, call[c].attempt)
           \/ p = "doubting" /\ UNCHANGED <<receipt, history>>
        /\ poisoned' \in BOOLEAN
  BY <1>2, <1>3, <1>5 DEF SettleDelivered, Write, Applied, Failed, Torn, store
<1>7. /\ call'[c].key = call[c].key /\ call'[c].content = call[c].content
      /\ call'[c].attempt = call[c].attempt
  BY <1>1, <1>6, InProgress DEF Goto, Inv, TypeOK, CallRecord
<1>8. CASE DeliveredWrite(k, f, call[c].attempt)
  <2>1. /\ StoreFrame(k) /\ ReceiptOK(k)'
        /\ receipt'[k].status = "delivered" /\ receipt'[k].content = f
    BY <1>4, <1>5, <1>8, SettledAsDelivered
  <2>2. Delivered(call[c])'
    BY <1>2, <1>3, <1>7, <2>1 DEF Delivered
  <2> QED BY <1>1, <1>2, <1>5, <1>6, <2>1, <2>2, MovesOn
<1>9. CASE p = "doubting" /\ UNCHANGED <<receipt, history>>
  <2>1. StoreFrame(k) /\ ReceiptOK(k)'
    BY <1>5, <1>9, Unwritten
  <2>2. Owns(call[c])'
    BY <1>4, <1>7, <1>9 DEF Owns
  <2> QED BY <1>1, <1>2, <1>5, <1>6, <1>9, <2>1, <2>2, MovesOn
<1> QED BY <1>6, <1>8, <1>9

LEMMA ReadBackKeeps ==
  ASSUME Inv, NEW c \in Call, ReadBack(c)
  PROVE  Inv'
<1>1. call[c].phase = "reading"
  BY DEF ReadBack, At
<1>2. PICK k \in Key : k = call[c].key
  BY <1>1, InProgress
<1>3. /\ turn' = turn /\ view' = view /\ copies' = copies /\ told' = told
      /\ told \in [Key -> SUBSET Content]
      /\ loaded' \in BOOLEAN /\ UNCHANGED store /\ poisoned' \in BOOLEAN
  BY DEF ReadBack, observed, store, Inv, TypeOK, StoreTypeOK
<1>4. call[c] \in CallRecord /\ call[c].content \in Content /\ Delivered(call[c])
  BY <1>1, InProgress DEF Inv, CallsOK, CallOK
<1>5. CASE Goto(c, [call[c] EXCEPT !.phase = "doubting"])
  <2>1. call'[c].key = call[c].key /\ call'[c].content = call[c].content
    BY <1>4, <1>5 DEF Goto, Inv, TypeOK, CallRecord
  <2>2. Delivered(call[c])'
    BY <1>3, <1>4, <2>1 DEF Delivered, store
  <2>3. StoreFrame(k) /\ ReceiptOK(k)'
    BY <1>3, Unwritten DEF store
  <2> QED BY <1>1, <1>2, <1>3, <1>5, <2>2, <2>3, MovesOn
<1>6. CASE Goto(c, [call[c] EXCEPT !.phase = "viewing", !.snapshot = history])
  <2>1. history \in Seq(Key \cup Turn) /\ Extends(history, history)
    BY DEF Inv, TypeOK, StoreTypeOK, Extends
  <2>2. /\ call' = [call EXCEPT ![c] = call'[c]]
        /\ call'[c] = [call[c] EXCEPT !.phase = "viewing", !.snapshot = history]
    BY <1>6 DEF Goto, Inv, TypeOK
  <2>3. /\ call'[c] \in CallRecord /\ call'[c].phase = "viewing"
        /\ call'[c].snapshot = history
        /\ call'[c].key = call[c].key /\ call'[c].content = call[c].content
    BY <1>4, <2>1, <2>2 DEF CallRecord, CallPhase
  <2>4. Delivered(call[c])'
    BY <1>3, <1>4, <2>3 DEF Delivered, store
  <2>5. Extends(history, call[c].snapshot)'
    BY <1>3, <2>1, <2>3 DEF store
  <2>6. CallOK(call[c])'
    BY <1>2, <1>4, <2>3, <2>4, <2>5 DEF CallOK
  <2> QED BY <1>1, <1>3, <2>2, <2>3, <2>6, LocalStep
<1> QED BY <1>5, <1>6 DEF ReadBack

LEMMA CommitViewKeeps ==
  ASSUME Inv, NEW c \in Call, CommitView(c)
  PROVE  Inv'
<1>1. call[c].phase = "viewing"
  BY DEF CommitView, At
<1>2. PICK k \in Key : k = call[c].key
  BY <1>1, InProgress
<1>3. /\ turn' = turn /\ copies' = copies /\ told' = told /\ told \in [Key -> SUBSET Content]
      /\ UNCHANGED store /\ poisoned' \in BOOLEAN /\ copies \in [Key -> Nat]
      /\ loaded \in BOOLEAN /\ view \in Seq(Entries) /\ Extends(history, view)
  BY DEF CommitView, observed, store, Inv, TypeOK, StoreTypeOK, ViewsOK, Entries
<1>4. /\ call[c] \in CallRecord /\ call[c].content \in Content /\ Delivered(call[c])
      /\ Extends(history, call[c].snapshot)
      /\ \A d \in Call \ {c} : call[d].key # k
  BY <1>1, <1>2, InProgress DEF Inv, CallsOK, CallOK
<1>5. call[c].snapshot \in Seq(Entries)
  BY <1>4 DEF CallRecord, Entries
<1>6. StoreFrame(k) /\ ReceiptOK(k)'
  BY <1>3, Unwritten DEF store
<1>7. /\ view' \in Seq(Entries) /\ Extends(view', view) /\ Extends(history, view')
      /\ loaded' \in BOOLEAN
      /\ Answer(c, "delivered") =>
           Names(call[c].snapshot, k) /\ Extends(view', call[c].snapshot)
  <2>1. CASE View(call[c].snapshot)
    <3>1. /\ view' \in Seq(Entries) /\ Extends(view', view) /\ Extends(history, view')
          /\ Extends(view', call[c].snapshot) /\ loaded' \in BOOLEAN
      BY <1>4, <1>5, <2>1, ShownView
    <3>2. Answer(c, "delivered") => Names(call[c].snapshot, k)
      <4> SUFFICES ASSUME Answer(c, "delivered"), ~Names(call[c].snapshot, k) PROVE FALSE
        OBVIOUS
      <4>1. Goto(c, [call[c] EXCEPT !.phase = "doubting"])
        BY <1>2 DEF CommitView, Names
      <4> QED BY <1>4, <4>1 DEF Goto, Answer, Answered, Inv, TypeOK, CallRecord
    <3> QED BY <3>1, <3>2
  <2>2. CASE /\ Goto(c, [call[c] EXCEPT !.phase = "doubting"])
             /\ UNCHANGED <<view, loaded>>
    <3>1. ~Answer(c, "delivered")
      <4>1. call'[c].phase = "doubting"
        BY <1>4, <2>2 DEF Goto, Inv, TypeOK, CallRecord
      <4>2. Answer(c, "delivered") => call'[c].phase = "answering"
        BY <1>4 DEF Goto, Answer, Answered, Inv, TypeOK, CallRecord
      <4> QED BY <4>1, <4>2
    <3>2. Extends(view', view)
      BY <1>3, <2>2 DEF Extends
    <3> QED BY <1>3, <2>2, <3>1, <3>2
  <2> QED BY <2>1, <2>2 DEF CommitView
<1>8. CASE Answer(c, "delivered")
  <2>1. /\ call' = [call EXCEPT ![c] = call'[c]]
        /\ call'[c] = Answered(call[c], "delivered")
    BY <1>8 DEF Answer, Goto, Inv, TypeOK
  <2>2. /\ call'[c] \in CallRecord /\ call'[c].phase = "answering"
        /\ call'[c].result = "delivered" /\ call'[c].key = k
        /\ call'[c].content = call[c].content
    BY <1>2, <1>4, <2>1 DEF Answered, CallRecord, CallPhase, Result
  <2>3. Delivered(call[c])'
    BY <1>2, <1>3, <1>4, <2>2 DEF Delivered, store
  <2>4. Names(view', k)
    BY <1>5, <1>7, <1>8, NamesMonotone
  <2>5. CallOK(call[c])'
    BY <1>4, <2>2, <2>3, <2>4 DEF CallOK
  <2>6. CallFrame(c, k)
    BY <1>2, <1>3, <1>4, <1>6, <2>1, <2>2 DEF CallFrame, StoreFrame
  <2> QED BY <1>3, <1>6, <1>7, <2>5, <2>6, CallMoves DEF store
<1>9. CASE Goto(c, [call[c] EXCEPT !.phase = "doubting"])
  <2>1. /\ call' = [call EXCEPT ![c] = call'[c]]
        /\ call'[c] = [call[c] EXCEPT !.phase = "doubting"]
    BY <1>9 DEF Goto, Inv, TypeOK
  <2>2. /\ call'[c] \in CallRecord /\ call'[c].phase = "doubting"
        /\ call'[c].key = k /\ call'[c].content = call[c].content
    BY <1>2, <1>4, <2>1 DEF CallRecord, CallPhase
  <2>3. Delivered(call[c])'
    BY <1>2, <1>3, <1>4, <2>2 DEF Delivered, store
  <2>4. CallOK(call[c])'
    BY <1>4, <2>2, <2>3 DEF CallOK
  <2>5. CallFrame(c, k)
    BY <1>2, <1>3, <1>4, <1>6, <2>1, <2>2 DEF CallFrame, StoreFrame
  <2> QED BY <1>3, <1>6, <1>7, <2>4, <2>5, CallMoves DEF store
<1> QED BY <1>8, <1>9 DEF CommitView

LEMMA ReplyKeeps ==
  ASSUME Inv, NEW c \in Call, Reply(c)
  PROVE  Inv'
<1>1. call[c].phase = "answering"
  BY DEF Reply, At
<1>2. call[c].content \in Content /\ call[c].key \in Key
  BY <1>1, InProgress
<1>3. told' \in [Key -> SUBSET Content]
  BY <1>2 DEF Reply, Inv, TypeOK
<1>4. call' = [call EXCEPT ![c] = call'[c]] /\ call'[c] = IdleCall
  BY DEF Reply, Goto, Inv, TypeOK
<1>5. call'[c] \in CallRecord /\ call'[c].phase = "idle" /\ call'[c].key = NoKey
  <2>1. <<>> \in Seq(Key \cup Turn)
    OBVIOUS
  <2> QED BY <1>4, <2>1 DEF IdleCall, CallRecord, CallPhase, Result
<1>6. CallOK(call[c])'
  BY <1>5 DEF CallOK
<1>7. /\ turn' = turn /\ view' = view /\ copies' = copies /\ loaded' \in BOOLEAN
      /\ UNCHANGED store
  BY DEF Reply, Inv, TypeOK
<1> QED BY <1>1, <1>3, <1>4, <1>5, <1>6, <1>7, LocalStep


---------------------------------------------------------------------------
(* The steps of a turn, of the clock and of the process *)

\* A step of a turn that leaves the store and the view alone.
LEMMA QuietTurn ==
  ASSUME Inv, NEW t \in Turn, UNCHANGED <<store, call, view, loaded, observed>>,
         turn' = [turn EXCEPT ![t] = turn'[t]], turn'[t] \in TurnRecord,
         turn'[t].phase \in {"loading", "settling"} => Extends(history, turn'[t].base)
  PROVE  Inv'
<1>1. /\ view \in Seq(Entries) /\ Extends(history, view)
      /\ poisoned \in BOOLEAN /\ loaded \in BOOLEAN
  BY DEF Inv, TypeOK, StoreTypeOK, ViewsOK, Entries
<1>2. TurnFrame(t)
  BY <1>1 DEF TurnFrame, Grows, store, observed
<1>3. view' \in Seq(Entries) /\ Extends(view', view) /\ Extends(history', view')
  BY <1>1 DEF Extends, store
<1>4. turn'[t].phase \in {"loading", "settling"} => Extends(history', turn'[t].base)
  BY DEF store
<1> QED BY <1>2, <1>3, <1>4, TurnMoves

\* Where TurnGoto takes a turn.
LEMMA TurnGoes ==
  ASSUME Inv, NEW t \in Turn, NEW p \in {"idle", "loading", "running", "settling", "done"},
         NEW base \in Seq(Entries), TurnGoto(t, p, base)
  PROVE  /\ turn' = [turn EXCEPT ![t] = turn'[t]] /\ turn'[t] \in TurnRecord
         /\ turn'[t].phase = p /\ turn'[t].base = base
  BY DEF TurnGoto, Inv, TypeOK, TurnRecord, Entries

LEMMA EmptyBase == <<>> \in Seq(Entries) /\ \A h \in Seq(Entries) : Extends(h, <<>>)
  BY DEF Extends

LEMMA TurnStartsKeeps ==
  ASSUME Inv, NEW t \in Turn, TurnStarts(t)
  PROVE  Inv'
<1>1. history \in Seq(Entries) /\ Extends(history, history)
  BY DEF Inv, TypeOK, StoreTypeOK, Extends, Entries
<1>2. CASE TurnGoto(t, "running", <<>>)
  <2>1. /\ turn' = [turn EXCEPT ![t] = turn'[t]] /\ turn'[t] \in TurnRecord
        /\ turn'[t].phase = "running"
    BY <1>2, EmptyBase, TurnGoes
  <2> QED BY <2>1, QuietTurn DEF TurnStarts
<1>3. CASE TurnGoto(t, "loading", history)
  <2>1. /\ turn' = [turn EXCEPT ![t] = turn'[t]] /\ turn'[t] \in TurnRecord
        /\ turn'[t].phase = "loading" /\ turn'[t].base = history
    BY <1>1, <1>3, TurnGoes
  <2> QED BY <1>1, <2>1, QuietTurn DEF TurnStarts
<1> QED BY <1>2, <1>3 DEF TurnStarts

LEMMA TurnLoadsKeeps ==
  ASSUME Inv, NEW t \in Turn, TurnLoads(t)
  PROVE  Inv'
<1>1. turn[t].base \in Seq(Entries) /\ Extends(history, turn[t].base)
  BY DEF TurnLoads, TurnAt, Inv, TypeOK, TurnRecord, ViewsOK, Entries
<1>2. /\ view' \in Seq(Entries) /\ Extends(view', view) /\ Extends(history, view')
      /\ loaded' \in BOOLEAN
  BY <1>1, ShownView DEF TurnLoads
<1>3. /\ turn' = [turn EXCEPT ![t] = turn'[t]] /\ turn'[t] \in TurnRecord
      /\ turn'[t].phase = "running"
  BY EmptyBase, TurnGoes DEF TurnLoads
<1>4. TurnFrame(t)
  BY <1>2, <1>3 DEF TurnLoads, TurnFrame, Grows, store, observed, Inv, TypeOK, StoreTypeOK
<1> QED BY <1>2, <1>3, <1>4, TurnMoves DEF TurnLoads, store

LEMMA TurnReadsBaseKeeps ==
  ASSUME Inv, NEW t \in Turn, TurnReadsBase(t)
  PROVE  Inv'
<1>1. view \in Seq(Entries) /\ Extends(history, view)
  BY DEF Inv, TypeOK, ViewsOK, Entries
<1>2. /\ turn' = [turn EXCEPT ![t] = turn'[t]] /\ turn'[t] \in TurnRecord
      /\ turn'[t].phase = "settling" /\ turn'[t].base = view
  BY <1>1, TurnGoes DEF TurnReadsBase
<1> QED BY <1>1, <1>2, QuietTurn DEF TurnReadsBase

\* A settlement that the store accepts was based on all of the history.
LEMMA SettledBase ==
  ASSUME Inv, NEW t \in Turn, TurnAt(t, "settling"), Len(turn[t].base) = Len(history)
  PROVE  turn[t].base = history
<1>1. /\ turn[t].base \in Seq(Entries) /\ Extends(history, turn[t].base)
      /\ history \in Seq(Entries)
  BY DEF TurnAt, Inv, TypeOK, StoreTypeOK, TurnRecord, ViewsOK, Entries
<1> QED BY <1>1, PrefixesOfOneLength

LEMMA TurnSettlesKeeps ==
  ASSUME Inv, NEW t \in Turn, TurnSettles(t)
  PROVE  Inv' /\ history' = Append(history, t) /\ view' = history'
<1>1. turn[t].base = history
  BY SettledBase DEF TurnSettles, Applied, TurnWrite
<1>2. /\ history' = Append(history, t) /\ view' = history' /\ receipt' = receipt
      /\ poisoned' = poisoned
  BY <1>1 DEF TurnSettles, Applied, TurnWrite
<1>3. /\ t \in Entries /\ history \in Seq(Entries) /\ view \in Seq(Entries)
      /\ Extends(history, view) /\ poisoned \in BOOLEAN
  BY DEF Entries, Inv, TypeOK, StoreTypeOK, ViewsOK
<1>4. view' \in Seq(Entries) /\ Extends(view', view) /\ Extends(history', view')
  <2>1. view' \in Seq(Entries)
    BY <1>2, <1>3
  <2>2. Extends(view', view)
    BY <1>2, <1>3, ExtendsAppend
  <2>3. Extends(history', view')
    BY <1>2, <2>1 DEF Extends
  <2> QED BY <2>1, <2>2, <2>3
<1>5. /\ turn' = [turn EXCEPT ![t] = turn'[t]] /\ turn'[t] \in TurnRecord
      /\ turn'[t].phase = "done"
  BY EmptyBase, TurnGoes DEF TurnSettles
<1>6. TurnFrame(t)
  BY <1>2, <1>3, <1>5 DEF TurnSettles, TurnFrame, Grows, observed
<1> QED BY <1>2, <1>4, <1>5, <1>6, TurnMoves

LEMMA TurnFailsKeeps ==
  ASSUME Inv, NEW t \in Turn, TurnFails(t)
  PROVE  Inv'
<1>1. /\ t \in Entries /\ history \in Seq(Entries) /\ view \in Seq(Entries)
      /\ Extends(history, view) /\ poisoned \in BOOLEAN /\ loaded \in BOOLEAN
  BY DEF Entries, Inv, TypeOK, StoreTypeOK, ViewsOK
<1>2. /\ turn' = [turn EXCEPT ![t] = turn'[t]] /\ turn'[t] \in TurnRecord
      /\ turn'[t].phase = "done"
  BY EmptyBase, TurnGoes DEF TurnFails
<1>3. Grows(t) /\ receipt' = receipt /\ poisoned' \in BOOLEAN
  <2>1. CASE UNCHANGED store
    BY <1>1, <2>1 DEF Grows, store
  <2>2. CASE TurnAt(t, "settling") /\ Torn(TurnWrite(t, turn[t].base))
    <3>1. CASE TurnWrite(t, turn[t].base)
      <4>1. turn[t].base = history
        BY <2>2, <3>1, SettledBase DEF TurnWrite
      <4> QED BY <2>2, <3>1, <4>1 DEF TurnWrite, Grows, Torn
    <3>2. CASE UNCHANGED <<receipt, history>>
      BY <2>2, <3>2 DEF Grows, Torn
    <3> QED BY <2>2, <3>1, <3>2 DEF Torn
  <2> QED BY <2>1, <2>2 DEF TurnFails
<1>4. TurnFrame(t)
  BY <1>1, <1>2, <1>3 DEF TurnFails, TurnFrame, observed
<1>5. Extends(view', view)
  BY <1>1 DEF TurnFails, Extends
<1>6. Extends(history', view')
  BY <1>1, <1>3, GrownHistory DEF TurnFails
<1>7. view' \in Seq(Entries)
  BY <1>1 DEF TurnFails
<1> QED BY <1>2, <1>4, <1>5, <1>6, <1>7, TurnMoves

LEMMA RestartKeeps == Inv /\ Restart => Inv'
<1> SUFFICES ASSUME Inv, Restart PROVE Inv'
  OBVIOUS
<1>1. IdleCall \in CallRecord /\ IdleCall.phase = "idle" /\ IdleCall.key = NoKey
  <2>1. <<>> \in Seq(Key \cup Turn)
    OBVIOUS
  <2> QED BY <2>1 DEF IdleCall, CallRecord, CallPhase, Result
<1>2. \A t \in Turn : turn'[t] \in TurnRecord /\ turn'[t].phase \in {"idle", "done"}
  <2> SUFFICES ASSUME NEW t \in Turn
               PROVE  turn'[t] \in TurnRecord /\ turn'[t].phase \in {"idle", "done"}
    OBVIOUS
  <2>1. CASE TurnAt(t, "idle")
    BY <2>1 DEF Restart, TurnAt, Inv, TypeOK
  <2>2. CASE ~TurnAt(t, "idle")
    <3>1. turn'[t] = [phase |-> "done", base |-> <<>>]
      BY <2>2 DEF Restart
    <3> QED BY <3>1, EmptyBase DEF TurnRecord, Entries
  <2> QED BY <2>1, <2>2
<1>3. turn' \in [Turn -> TurnRecord] /\ call' \in [Call -> CallRecord]
  BY <1>1, <1>2 DEF Restart
<1>4. view' = <<>> /\ view' \in Seq(Key \cup Turn)
  BY DEF Restart
<1>5. TypeOK'
  BY <1>3, <1>4 DEF Restart, Reopen, observed, Inv, TypeOK, StoreTypeOK
<1>6. ReceiptsOK'
  BY DEF Restart, Reopen, observed, Inv, ReceiptsOK, ReceiptOK
<1>7. CallsOK' /\ KeysOK'
  BY <1>1 DEF Restart, CallsOK, CallOK, KeysOK
<1>8. ViewsOK'
  BY <1>2, <1>4 DEF ViewsOK, Extends, Restart, Reopen, Inv, TypeOK, StoreTypeOK
<1> QED BY <1>5, <1>6, <1>7, <1>8 DEF Inv

LEMMA ClockKeeps ==
  ASSUME Inv, NEW k \in Key, Clock(k)
  PROVE  Inv'
<1>1. /\ receipt \in [Key -> Receipt] /\ receipt[k] \in Receipt
      /\ view \in Seq(Entries) /\ history \in Seq(Entries) /\ Extends(history, view)
  BY DEF Inv, TypeOK, StoreTypeOK, ViewsOK, Entries
<1>2. /\ receipt' = [receipt EXCEPT ![k] = receipt'[k]]
      /\ receipt'[k] = [receipt[k] EXCEPT !.lease = "expired"]
  BY <1>1 DEF Clock, LeaseExpires
<1>3. /\ receipt'[k] \in Receipt /\ receipt'[k].status = receipt[k].status
      /\ receipt'[k].content = receipt[k].content
      /\ receipt'[k].attempt = receipt[k].attempt
  BY <1>1, <1>2 DEF Receipt
<1>4. /\ UNCHANGED <<history, poisoned, call, turn, view, loaded, copies, told>>
  BY DEF Clock, LeaseExpires, memory, observed
<1>5. receipt' \in [Key -> Receipt]
  BY <1>1, <1>2, <1>3
<1>6. \A j \in Key : /\ receipt'[j].status = receipt[j].status
                     /\ receipt'[j].content = receipt[j].content
                     /\ receipt'[j].attempt = receipt[j].attempt
  BY <1>1, <1>2, <1>3
<1>7. TypeOK'
  BY <1>4, <1>5 DEF Inv, TypeOK, StoreTypeOK
<1>8. ReceiptsOK'
  BY <1>4, <1>6 DEF Inv, ReceiptsOK, ReceiptOK
<1>9. CallsOK'
  <2> SUFFICES ASSUME NEW d \in Call PROVE CallOK(call[d])'
    BY DEF CallsOK
  <2>1. Extends(view', view) /\ view' \in Seq(Entries)
    BY <1>1, <1>4 DEF Extends
  <2>2. Grows(k) /\ k \in Entries /\ call'[d] = call[d]
    BY <1>4 DEF Grows, Entries
  <2> QED BY <1>4, <1>6, <2>1, <2>2, CallKept
<1>10. KeysOK' /\ ViewsOK'
  BY <1>4 DEF Inv, KeysOK, ViewsOK, Extends
<1> QED BY <1>7, <1>8, <1>9, <1>10 DEF Inv


---------------------------------------------------------------------------
(* Invariance *)

LEMMA InitInv == Init => Inv
<1> SUFFICES ASSUME Init PROVE Inv
  OBVIOUS
<1>1. IdleCall \in CallRecord /\ IdleCall.phase = "idle" /\ IdleCall.key = NoKey
  <2>1. <<>> \in Seq(Key \cup Turn)
    OBVIOUS
  <2> QED BY <2>1 DEF IdleCall, CallRecord, CallPhase, Result
<1>2. [phase |-> "idle", base |-> <<>>] \in TurnRecord
  BY EmptyBase DEF TurnRecord, Entries
<1>3. \A k \in Key : receipt[k] =
        [status |-> "absent", content |-> NoContent, attempt |-> 0, lease |-> "expired"]
  BY DEF Init, StoreInit
<1>4. history = <<>> /\ view = <<>> /\ <<>> \in Seq(Key \cup Turn)
  BY DEF Init, StoreInit
<1>5. StoreTypeOK
  <2>1. receipt \in [Key -> Receipt]
    BY DEF Init, StoreInit, Receipt, Status
  <2> QED BY <1>4, <2>1 DEF Init, StoreInit, StoreTypeOK
<1>6. TypeOK
  BY <1>1, <1>2, <1>4, <1>5 DEF Init, TypeOK
<1>7. ReceiptsOK
  <2> SUFFICES ASSUME NEW k \in Key PROVE ReceiptOK(k)
    BY DEF ReceiptsOK
  <2>1. ~Names(history, k)
    BY <1>4 DEF Names
  <2>2. copies[k] = 0 /\ receipt[k].status = "absent" /\ receipt[k].content = NoContent
    BY <1>3 DEF Init
  <2> QED BY <2>1, <2>2 DEF ReceiptOK
<1>8. CallsOK /\ KeysOK
  BY <1>1 DEF Init, CallsOK, CallOK, KeysOK
<1>9. ViewsOK
  BY <1>4 DEF Init, ViewsOK, Extends
<1> QED BY <1>6, <1>7, <1>8, <1>9 DEF Inv

LEMMA NextInv == Inv /\ [Next]_vars => Inv'
<1> SUFFICES ASSUME Inv, [Next]_vars PROVE Inv'
  OBVIOUS
<1>1. ASSUME NEW c \in Call, CallStep(c) PROVE Inv'
  <2>1. CASE \E k \in Key, f \in Content : Deliver(c, k, f)
    BY <2>1, DeliverKeeps
  <2>2. CASE PrepareStep(c)
    BY <2>2, PrepareIntentKeeps, PrepareStaleKeeps, PrepareExistingKeeps DEF PrepareStep
  <2>3. CASE ChannelStep(c)
    BY <2>3, CancelBeforeSendKeeps, SendKeeps, ChannelAnswersKeeps, ChannelThrowsKeeps
    DEF ChannelStep
  <2>4. CASE MessageGoesOut(c)
    BY <2>4, MessageGoesOutKeeps
  <2>5. CASE SettleStep(c)
    BY <2>5, SettleResultKeeps, DoubtKeeps, SettleDeliveredKeeps, ReadBackKeeps,
       CommitViewKeeps, ReplyKeeps DEF SettleStep
  <2> QED BY <1>1, <2>1, <2>2, <2>3, <2>4, <2>5 DEF CallStep
<1>2. ASSUME NEW t \in Turn, TurnStep(t) PROVE Inv'
  BY <1>2, TurnStartsKeeps, TurnLoadsKeeps, TurnReadsBaseKeeps, TurnSettlesKeeps,
     TurnFailsKeeps DEF TurnStep
<1>3. ASSUME NEW k \in Key, Clock(k) PROVE Inv'
  BY <1>3, ClockKeeps
<1>4. CASE Restart
  BY <1>4, RestartKeeps
<1>5. CASE UNCHANGED vars
  BY <1>5 DEF vars, store, memory, observed, Inv, TypeOK, StoreTypeOK, ReceiptsOK,
     ReceiptOK, CallsOK, CallOK, Owns, Delivered, KeysOK, ViewsOK
<1> QED BY <1>1, <1>2, <1>3, <1>4, <1>5 DEF Next

\* Deliveries, turns, torn commits and restarts keep the inductive invariant.
THEOREM Invariance == Spec => []Inv
  BY InitInv, NextInv, PTL DEF Spec

\* Receipts, calls, turns and views are typed in every reachable state.
THEOREM TypeCorrect == Spec => []TypeOK
<1>1. Inv => TypeOK
  BY DEF Inv
<1> QED BY <1>1, Invariance, PTL

\* However often a key is delivered, fails or is restarted, its message goes out
\* at most once.
THEOREM SentOnce == Spec => []SentAtMostOnce
<1>1. Inv => SentAtMostOnce
  <2> SUFFICES ASSUME Inv, NEW k \in Key
               PROVE  /\ copies[k] <= 1
                      /\ copies[k] = 1 => receipt[k].status \in {"intent", "delivered", "unknown"}
    BY DEF SentAtMostOnce
  <2>1. ReceiptOK(k) /\ receipt[k].status \in Status
    BY DEF Inv, TypeOK, StoreTypeOK, Receipt, ReceiptsOK
  <2> QED BY <2>1 DEF ReceiptOK, Status
<1> QED BY <1>1, Invariance, PTL

\* A receipt is delivered exactly when its one entry is in the history.
THEOREM ReceiptAndHistoryAgree == Spec => []DeliveredWithHistory
<1>1. Inv => DeliveredWithHistory
  <2> SUFFICES ASSUME Inv, NEW k \in Key
               PROVE  LET entries == {i \in 1..Len(history) : history[i] = k} IN
                      IF receipt[k].status = "delivered"
                      THEN copies[k] = 1 /\ \E i \in entries : entries = {i}
                      ELSE entries = {}
    BY DEF DeliveredWithHistory
  <2>1. ReceiptOK(k)
    BY DEF Inv, ReceiptsOK
  <2>2. CASE receipt[k].status = "delivered"
    <3>1. PICK i \in 1..Len(history) : \A j \in 1..Len(history) : history[j] = k <=> j = i
      BY <2>1, <2>2 DEF ReceiptOK, NamesOnce
    <3>2. {j \in 1..Len(history) : history[j] = k} = {i}
      BY <3>1
    <3> QED BY <2>1, <2>2, <3>2 DEF ReceiptOK
  <2>3. CASE receipt[k].status # "delivered"
    BY <2>1, <2>3 DEF ReceiptOK, Names
  <2> QED BY <2>2, <2>3
<1> QED BY <1>1, Invariance, PTL

\* What a call answers is what the world, the receipt and the view hold.
THEOREM HonestAnswers == Spec => []HonestOutcomes
<1>1. Inv => HonestOutcomes
  <2> SUFFICES ASSUME Inv, NEW c \in Call, At(c, "answering")
               PROVE  LET r == call[c] IN
                      CASE r.result = "delivered" ->
                             /\ receipt[r.key].status = "delivered"
                             /\ receipt[r.key].content = r.content
                             /\ \E i \in 1..Len(view) : view[i] = r.key
                        [] r.result = "failed" -> copies[r.key] = 0
                        [] r.result = "conflict" -> receipt[r.key].content # r.content
                        [] OTHER -> TRUE
    BY DEF HonestOutcomes
  <2>1. /\ call[c].result = "delivered" => Delivered(call[c]) /\ Names(view, call[c].key)
        /\ call[c].result = "failed" => copies[call[c].key] = 0
        /\ call[c].result = "conflict" => receipt[call[c].key].content # call[c].content
    BY DEF At, Inv, CallsOK, CallOK
  <2> QED BY <2>1 DEF Delivered, Names
<1> QED BY <1>1, Invariance, PTL


---------------------------------------------------------------------------
(* Action properties and views *)

LEMMA PrefixIsSubSeq ==
  ASSUME NEW h \in Seq(Entries), NEW s \in Seq(Entries), Extends(h, s)
  PROVE  Len(s) <= Len(h) /\ s = SubSeq(h, 1, Len(s))
<1>1. Len(s) \in Nat /\ Len(h) \in Nat /\ Len(s) <= Len(h)
  BY DEF Extends
<1>2. /\ SubSeq(h, 1, Len(s)) \in Seq(Entries)
      /\ Len(SubSeq(h, 1, Len(s))) = Len(s)
      /\ \A i \in 1..Len(s) : SubSeq(h, 1, Len(s))[i] = h[i]
  BY <1>1, SubSeqProperties
<1>3. \A i \in 1..Len(s) : s[i] = SubSeq(h, 1, Len(s))[i]
  BY <1>2 DEF Extends
<1> QED BY <1>1, <1>2, <1>3, SeqEqual

\* Every view is a prefix of the durable history.
THEOREM ViewsArePrefixes == Spec => []ViewIsPrefix
<1>1. Inv => ViewIsPrefix
  <2> SUFFICES ASSUME Inv PROVE ViewIsPrefix
    OBVIOUS
  <2>1. history \in Seq(Entries) /\ view \in Seq(Entries) /\ Extends(history, view)
    BY DEF Inv, TypeOK, StoreTypeOK, ViewsOK, Entries
  <2> QED BY <2>1, PrefixIsSubSeq DEF ViewIsPrefix
<1> QED BY <1>1, Invariance, PTL

\* Every step leaves the history, or appends one entry to it.
LEMMA HistoryStep ==
  ASSUME Inv, [Next]_vars
  PROVE  UNCHANGED history \/ \E e \in Entries : history' = Append(history, e)
<1>1. ASSUME NEW c \in Call, CallStep(c)
      PROVE  UNCHANGED history \/ \E e \in Entries : history' = Append(history, e)
  <2>1. CASE SettleDelivered(c)
    <3>1. UNCHANGED history \/ history' = Append(history, call[c].key)
      BY <2>1 DEF SettleDelivered, Write, Applied, Failed, Torn, store, DeliveredWrite
    <3>2. call[c].key \in Entries
      BY <2>1, InProgress DEF SettleDelivered, At, Entries
    <3> QED BY <3>1, <3>2
  <2>2. CASE \/ \E k \in Key, f \in Content : Deliver(c, k, f)
             \/ PrepareExisting(c) \/ Send(c) \/ MessageGoesOut(c) \/ ChannelThrows(c)
             \/ \E result \in {"delivered", "failed", "unknown"} : ChannelAnswers(c, result)
             \/ ReadBack(c) \/ CommitView(c) \/ Reply(c)
    BY <2>2 DEF Deliver, PrepareExisting, Send, MessageGoesOut, ChannelThrows,
       ChannelAnswers, ReadBack, CommitView, Reply, store
  <2>3. CASE PrepareIntent(c) \/ PrepareStale(c)
    BY <2>3 DEF PrepareIntent, PrepareStale, Write, Applied, Failed, Torn, store,
       IntentWrite, StaleIntentWrite
  <2>4. CASE CancelBeforeSend(c) \/ SettleResult(c) \/ Doubt(c)
    BY <2>4 DEF CancelBeforeSend, SettleResult, Doubt, Write, Applied, Failed, Torn,
       store, SettleWrite
  <2> QED BY <1>1, <2>1, <2>2, <2>3, <2>4 DEF CallStep, PrepareStep, ChannelStep, SettleStep
<1>2. ASSUME NEW t \in Turn, TurnStep(t)
      PROVE  UNCHANGED history \/ \E e \in Entries : history' = Append(history, e)
  <2>1. t \in Entries
    BY DEF Entries
  <2>2. CASE TurnSettles(t)
    BY <2>1, <2>2, TurnSettlesKeeps
  <2>3. CASE TurnFails(t)
    <3>1. CASE UNCHANGED store
      BY <3>1 DEF store
    <3>2. CASE TurnAt(t, "settling") /\ TurnWrite(t, turn[t].base)
      BY <2>1, <3>2, SettledBase DEF TurnWrite
    <3> QED BY <2>3, <3>1, <3>2 DEF TurnFails, Torn
  <2>4. CASE TurnStarts(t) \/ TurnLoads(t) \/ TurnReadsBase(t)
    BY <2>4 DEF TurnStarts, TurnLoads, TurnReadsBase, store
  <2> QED BY <1>2, <2>2, <2>3, <2>4 DEF TurnStep
<1>3. CASE (\E k \in Key : Clock(k)) \/ Restart \/ UNCHANGED vars
  BY <1>3 DEF Clock, LeaseExpires, Restart, Reopen, vars, store
<1> QED BY <1>1, <1>2, <1>3 DEF Next

\* No settlement, whatever view it was based on, drops an entry of the history.
THEOREM HistoryIsAppendOnly == Spec => HistoryOnlyGrows
<1>1. Inv /\ [Next]_vars =>
        [Len(history) <= Len(history') /\ history = SubSeq(history', 1, Len(history))]_history
  <2> SUFFICES ASSUME Inv, [Next]_vars, history' # history
               PROVE  Len(history) <= Len(history') /\ history = SubSeq(history', 1, Len(history))
    OBVIOUS
  <2>1. PICK e \in Entries : history' = Append(history, e)
    BY HistoryStep
  <2>2. history \in Seq(Entries) /\ Extends(history, history)
    BY DEF Inv, TypeOK, StoreTypeOK, Extends, Entries
  <2>3. history' \in Seq(Entries) /\ Extends(history', history)
    BY <2>1, <2>2, ExtendsAppend
  <2> QED BY <2>2, <2>3, PrefixIsSubSeq
<1> QED BY <1>1, Invariance, PTL DEF Spec, HistoryOnlyGrows

\* Within one process, loads that finish out of order never take the view back.
THEOREM ViewsOnlyGrow == Spec => ViewOnlyGrows
<1>1. Inv /\ [Next]_vars => [Restart \/ Len(view') >= Len(view)]_vars
  <2> SUFFICES ASSUME Inv, Next, ~Restart PROVE Len(view') >= Len(view)
    OBVIOUS
  <2>1. view \in Seq(Entries) /\ Len(view) \in Nat /\ Extends(history, view)
    BY DEF Inv, TypeOK, ViewsOK, Entries
  <2>2. ASSUME UNCHANGED view \/ Extends(view', view) PROVE Len(view') >= Len(view)
    BY <2>1, <2>2 DEF Extends
  <2>3. ASSUME NEW c \in Call, CommitView(c) PROVE UNCHANGED view \/ Extends(view', view)
    <3>1. CASE View(call[c].snapshot)
      <4>1. call[c].snapshot \in Seq(Entries) /\ Extends(history, call[c].snapshot)
        BY <2>3 DEF CommitView, At, Inv, TypeOK, CallsOK, CallOK, CallRecord, Entries
      <4> QED BY <3>1, <4>1, ShownView
    <3> QED BY <2>3, <3>1 DEF CommitView
  <2>4. ASSUME NEW t \in Turn, TurnLoads(t) PROVE UNCHANGED view \/ Extends(view', view)
    <3>1. turn[t].base \in Seq(Entries) /\ Extends(history, turn[t].base)
      BY <2>4 DEF TurnLoads, TurnAt, Inv, TypeOK, TurnRecord, ViewsOK, Entries
    <3> QED BY <2>4, <3>1, ShownView DEF TurnLoads
  <2>5. ASSUME NEW t \in Turn, TurnSettles(t) PROVE Extends(view', view)
    <3>1. history' = Append(history, t) /\ view' = history'
      BY <2>5, TurnSettlesKeeps
    <3>2. history \in Seq(Entries) /\ t \in Entries
      BY DEF Inv, TypeOK, StoreTypeOK, Entries
    <3> QED BY <2>1, <3>1, <3>2, ExtendsAppend
  <2>6. ASSUME NEW c \in Call, CallStep(c), ~CommitView(c) PROVE UNCHANGED view
    BY <2>6 DEF CallStep, Deliver, PrepareStep, PrepareIntent, PrepareStale,
       PrepareExisting, ChannelStep, CancelBeforeSend, Send, ChannelAnswers, ChannelThrows,
       MessageGoesOut, SettleStep, SettleResult, Doubt, SettleDelivered, ReadBack, Reply, Write
  <2>7. ASSUME NEW t \in Turn, TurnStep(t), ~TurnLoads(t), ~TurnSettles(t) PROVE UNCHANGED view
    BY <2>7 DEF TurnStep, TurnStarts, TurnReadsBase, TurnFails
  <2>8. ASSUME NEW k \in Key, Clock(k) PROVE UNCHANGED view
    BY <2>8 DEF Clock, memory
  <2> QED BY <2>2, <2>3, <2>4, <2>5, <2>6, <2>7, <2>8 DEF Next
<1> QED BY <1>1, Invariance, PTL DEF Spec, ViewOnlyGrows


---------------------------------------------------------------------------
(* Delivery implements DeliverOnce *)

PromiseStutters == Owners' = Owners /\ Outcomes' = Outcomes /\ copies' = copies /\ told' = told

LEMMA PromiseSees ==
  ASSUME NEW k \in Key
  PROVE  /\ Owners[k] = receipt[k].content
         /\ Outcomes[k] = IF receipt[k].status \in {"delivered", "unknown"}
                          THEN receipt[k].status ELSE "open"
         /\ Owners'[k] = receipt'[k].content
         /\ Outcomes'[k] = IF receipt'[k].status \in {"delivered", "unknown"}
                           THEN receipt'[k].status ELSE "open"
  BY DEF Owners, Outcomes

LEMMA QuietMaps == UNCHANGED <<receipt, copies, told>> => PromiseStutters
  BY DEF PromiseStutters, Owners, Outcomes

LEMMA OthersAreSeenTheSame ==
  ASSUME NEW k \in Key, \A j \in Key \ {k} : receipt'[j] = receipt[j]
  PROVE  /\ Owners' = [Owners EXCEPT ![k] = receipt'[k].content]
         /\ Outcomes' = [Outcomes EXCEPT ![k] = Outcomes'[k]]
  BY DEF Owners, Outcomes

\* A receipt that is neither claimed nor decided looks the same.
LEMMA UnseenMaps ==
  ASSUME NEW k \in Key, \A j \in Key \ {k} : receipt'[j] = receipt[j],
         receipt'[k].content = receipt[k].content,
         receipt[k].status \notin {"delivered", "unknown"},
         receipt'[k].status \notin {"delivered", "unknown"},
         copies' = copies, told' = told
  PROVE  PromiseStutters
  BY PromiseSees, OthersAreSeenTheSame DEF PromiseStutters, Owners, Outcomes

LEMMA ClaimMaps ==
  ASSUME NEW k \in Key, NEW f \in Content, \A j \in Key \ {k} : receipt'[j] = receipt[j],
         receipt[k].status = "absent", receipt[k].content = NoContent,
         receipt'[k].status = "intent", receipt'[k].content = f,
         copies' = copies, told' = told
  PROVE  Promise!Claim(k, f)
<1>1. Owners[k] = NoContent /\ Owners' = [Owners EXCEPT ![k] = f]
  BY PromiseSees, OthersAreSeenTheSame
<1>2. Outcomes' = Outcomes
  BY OthersAreSeenTheSame DEF Outcomes
<1> QED BY <1>1, <1>2 DEF Promise!Claim

LEMMA DecideMaps ==
  ASSUME Inv, NEW k \in Key, NEW o \in {"delivered", "unknown"},
         \A j \in Key \ {k} : receipt'[j] = receipt[j],
         receipt[k].status = "intent", receipt'[k].content = receipt[k].content,
         receipt'[k].status = o, o = "delivered" => copies[k] = 1,
         copies' = copies, told' = told
  PROVE  Promise!Decide(k, o)
<1>1. Owners[k] # NoContent /\ Outcomes[k] = "open"
  BY PromiseSees DEF Inv, ReceiptsOK, ReceiptOK
<1>2. Owners' = Owners
  BY OthersAreSeenTheSame DEF Owners
<1>3. Outcomes' = [Outcomes EXCEPT ![k] = o]
  BY PromiseSees, OthersAreSeenTheSame
<1> QED BY <1>1, <1>2, <1>3 DEF Promise!Decide

\* The writes of the journal.
LEMMA IntentMaps ==
  ASSUME Inv, NEW k \in Key, NEW f \in Content, IntentWrite(k, f),
         copies' = copies, told' = told
  PROVE  Promise!Claim(k, f) \/ PromiseStutters
<1>1. /\ \A j \in Key \ {k} : receipt'[j] = receipt[j]
      /\ receipt'[k].status = "intent" /\ receipt'[k].content = f
  BY Intended DEF StoreFrame
<1>2. CASE receipt[k].status = "absent"
  BY <1>1, <1>2, ClaimMaps DEF Inv, ReceiptsOK, ReceiptOK
<1>3. CASE receipt[k].status = "failed" /\ receipt[k].content = f
  BY <1>1, <1>3, UnseenMaps
<1> QED BY <1>2, <1>3 DEF IntentWrite

LEMMA CloseMaps ==
  ASSUME Inv, NEW k \in Key, NEW s \in {"failed", "unknown"},
         s = "failed" => copies[k] = 0,
         receipt[k].status = "intent",
         receipt' = [receipt EXCEPT ![k].status = s, ![k].lease = "expired"],
         history' = history, copies' = copies, told' = told
  PROVE  Promise!Decide(k, "unknown") \/ PromiseStutters
<1>1. /\ \A j \in Key \ {k} : receipt'[j] = receipt[j]
      /\ receipt'[k].status = s /\ receipt'[k].content = receipt[k].content
  BY Closed DEF StoreFrame
<1>2. CASE s = "unknown"
  BY <1>1, <1>2, DecideMaps
<1>3. CASE s = "failed"
  BY <1>1, <1>3, UnseenMaps
<1> QED BY <1>2, <1>3

LEMMA CallMaps ==
  ASSUME Inv, NEW c \in Call, CallStep(c)
  PROVE  Promise!Next \/ PromiseStutters
<1>1. CASE \/ \E k \in Key, f \in Content : Deliver(c, k, f)
           \/ PrepareExisting(c) \/ Send(c) \/ ChannelThrows(c)
           \/ \E result \in {"delivered", "failed", "unknown"} : ChannelAnswers(c, result)
           \/ ReadBack(c) \/ CommitView(c)
  <2>1. UNCHANGED <<receipt, copies, told>>
    BY <1>1 DEF Deliver, PrepareExisting, Send, ChannelThrows, ChannelAnswers, ReadBack,
       CommitView, store, observed
  <2> QED BY <2>1, QuietMaps
<1>2. CASE MessageGoesOut(c)
  <2>1. call[c].phase = "sending" /\ ~call[c].sent
    BY <1>2 DEF MessageGoesOut, At
  <2>2. PICK k \in Key : k = call[c].key
    BY <2>1, InProgress
  <2>3. receipt[k].status = "intent" /\ copies[k] = 0
    BY <2>1, <2>2 DEF Inv, CallsOK, CallOK, Owns
  <2>4. Owners[k] # NoContent /\ Outcomes[k] = "open"
    BY <2>3, PromiseSees DEF Inv, ReceiptsOK, ReceiptOK
  <2>5. Owners' = Owners /\ Outcomes' = Outcomes /\ told' = told
    BY <1>2 DEF MessageGoesOut, store, Owners, Outcomes
  <2>6. copies' = [copies EXCEPT ![k] = 1]
    BY <1>2, <2>2, <2>3 DEF MessageGoesOut
  <2> QED BY <2>3, <2>4, <2>5, <2>6 DEF Promise!Next, Promise!GoOut
<1>3. CASE Reply(c)
  <2>1. call[c].phase = "answering" /\ UNCHANGED <<receipt, copies>>
    BY <1>3 DEF Reply, At, store
  <2>2. PICK k \in Key : k = call[c].key
    BY <2>1, InProgress
  <2>3. CASE call[c].result = "delivered"
    <3>1. Delivered(call[c])
      BY <2>1, <2>3 DEF Inv, CallsOK, CallOK
    <3>2. Outcomes[k] = "delivered" /\ Owners[k] = call[c].content
      BY <2>2, <3>1, PromiseSees DEF Delivered
    <3>3. told' = [told EXCEPT ![k] = @ \cup {Owners[k]}]
      BY <1>3, <2>2, <2>3, <3>2 DEF Reply
    <3>4. Owners' = Owners /\ Outcomes' = Outcomes
      BY <2>1 DEF Owners, Outcomes
    <3> QED BY <2>1, <3>2, <3>3, <3>4 DEF Promise!Next, Promise!Confirm
  <2>4. CASE call[c].result # "delivered"
    <3>1. told' = told
      BY <1>3, <2>4 DEF Reply, Inv, TypeOK
    <3> QED BY <2>1, <3>1, QuietMaps
  <2> QED BY <2>3, <2>4
<1>4. CASE \/ PrepareIntent(c) \/ PrepareStale(c) \/ CancelBeforeSend(c)
           \/ SettleResult(c) \/ Doubt(c) \/ SettleDelivered(c)
  <2>1. call[c].phase # "idle" /\ copies' = copies /\ told' = told
    BY <1>4 DEF PrepareIntent, PrepareStale, CancelBeforeSend, SettleResult, Doubt,
       SettleDelivered, At, Write, observed
  <2>2. PICK k \in Key : k = call[c].key
    BY <2>1, InProgress
  <2>3. PICK f \in Content : f = call[c].content
    BY <2>1, InProgress
  <2>4. CASE UNCHANGED <<receipt, history>>
    BY <2>1, <2>4, QuietMaps
  <2>5. CASE IntentWrite(k, f)
    BY <2>1, <2>5, IntentMaps DEF Promise!Next
  <2>6. CASE StaleIntentWrite(k, f)
    <3>1. Promise!Decide(k, "unknown") \/ PromiseStutters
      BY <2>1, <2>6, CloseMaps DEF StaleIntentWrite
    <3> QED BY <3>1 DEF Promise!Next
  <2>7. CASE \E s \in {"failed", "unknown"} :
               (s = "failed" => copies[k] = 0) /\ SettleWrite(k, f, call[c].attempt, s)
    <3>1. Promise!Decide(k, "unknown") \/ PromiseStutters
      BY <2>1, <2>7, CloseMaps DEF SettleWrite, Holds
    <3> QED BY <3>1 DEF Promise!Next
  <2>8. CASE copies[k] = 1 /\ DeliveredWrite(k, f, call[c].attempt)
    <3>1. call[c].attempt \in Nat
      BY DEF Inv, TypeOK, CallRecord
    <3>2. /\ \A j \in Key \ {k} : receipt'[j] = receipt[j]
          /\ receipt'[k].status = "delivered" /\ receipt'[k].content = f
      BY <2>1, <2>8, <3>1, SettledAsDelivered DEF StoreFrame
    <3>3. receipt[k].status = "intent" /\ receipt[k].content = f
      BY <2>8 DEF DeliveredWrite, Holds
    <3>4. Promise!Decide(k, "delivered")
      BY <2>1, <2>8, <3>2, <3>3, DecideMaps
    <3> QED BY <3>4 DEF Promise!Next
  <2>9. /\ PrepareIntent(c) => IntentWrite(k, f) \/ UNCHANGED <<receipt, history>>
        /\ PrepareStale(c) => StaleIntentWrite(k, f) \/ UNCHANGED <<receipt, history>>
    BY <2>2, <2>3 DEF PrepareIntent, PrepareStale, Write, Applied, Failed, Torn, store
  <2>10. ASSUME CancelBeforeSend(c)
         PROVE  \/ copies[k] = 0 /\ SettleWrite(k, f, call[c].attempt, "failed")
                \/ UNCHANGED <<receipt, history>>
    <3>1. copies[k] = 0
      BY <2>2, <2>10 DEF CancelBeforeSend, At, Inv, CallsOK, CallOK
    <3> QED BY <2>2, <2>3, <2>10, <3>1 DEF CancelBeforeSend, Write, Applied, Failed, Torn, store
  <2>11. ASSUME SettleResult(c)
         PROVE  \/ \E s \in {"failed", "unknown"} :
                     (s = "failed" => copies[k] = 0) /\ SettleWrite(k, f, call[c].attempt, s)
                \/ UNCHANGED <<receipt, history>>
    <3>1. PICK s \in {"failed", "unknown"} :
            s = call[c].result /\ (s = "failed" => copies[k] = 0)
      BY <2>2, <2>11 DEF SettleResult, At, Inv, CallsOK, CallOK
    <3>2. SettleWrite(k, f, call[c].attempt, s) \/ UNCHANGED <<receipt, history>>
      BY <2>2, <2>3, <2>11, <3>1 DEF SettleResult, Write, Applied, Failed, Torn, store
    <3> QED BY <3>1, <3>2
  <2>12. Doubt(c) => \/ SettleWrite(k, f, call[c].attempt, "unknown")
                     \/ UNCHANGED <<receipt, history>>
    BY <2>2, <2>3 DEF Doubt, Write, Applied, Failed, Torn, store
  <2>13. ASSUME SettleDelivered(c)
         PROVE  \/ copies[k] = 1 /\ DeliveredWrite(k, f, call[c].attempt)
                \/ UNCHANGED <<receipt, history>>
    <3>1. copies[k] = 1
      BY <2>2, <2>13 DEF SettleDelivered, At, Inv, CallsOK, CallOK
    <3> QED BY <2>2, <2>3, <2>13, <3>1 DEF SettleDelivered, Write, Applied, Failed, Torn, store
  <2> QED BY <1>4, <2>4, <2>5, <2>6, <2>7, <2>8, <2>9, <2>10, <2>11, <2>12, <2>13
<1> QED BY <1>1, <1>2, <1>3, <1>4 DEF CallStep, PrepareStep, ChannelStep, SettleStep

LEMMA StepsMap == Inv /\ [Next]_vars => Promise!Next \/ PromiseStutters
<1> SUFFICES ASSUME Inv, [Next]_vars PROVE Promise!Next \/ PromiseStutters
  OBVIOUS
<1>1. ASSUME NEW c \in Call, CallStep(c) PROVE Promise!Next \/ PromiseStutters
  BY <1>1, CallMaps
<1>2. ASSUME NEW t \in Turn, TurnStep(t) PROVE PromiseStutters
  <2>1. UNCHANGED <<receipt, copies, told>>
    BY <1>2 DEF TurnStep, TurnStarts, TurnLoads, TurnReadsBase, TurnSettles, TurnFails,
       Applied, Torn, TurnWrite, store, observed
  <2> QED BY <2>1, QuietMaps
<1>3. ASSUME NEW k \in Key, Clock(k) PROVE PromiseStutters
  <2>1. /\ \A j \in Key \ {k} : receipt'[j] = receipt[j]
        /\ receipt[k].status = "intent" /\ receipt'[k].status = "intent"
        /\ receipt'[k].content = receipt[k].content
        /\ copies' = copies /\ told' = told
    BY <1>3 DEF Clock, LeaseExpires, observed, Inv, TypeOK, StoreTypeOK, Receipt
  <2> QED BY <2>1, UnseenMaps
<1>4. CASE Restart \/ UNCHANGED vars
  BY <1>4, QuietMaps DEF Restart, Reopen, vars, store, observed
<1> QED BY <1>1, <1>2, <1>3, <1>4 DEF Next

LEMMA InitMaps == Init => Promise!Init
<1> SUFFICES ASSUME Init PROVE Promise!Init
  OBVIOUS
<1>1. Owners = [k \in Key |-> NoContent] /\ Outcomes = [k \in Key |-> "open"]
  BY DEF Init, StoreInit, Owners, Outcomes
<1> QED BY <1>1 DEF Init, Promise!Init

\* The Core and its journal keep the promise of DeliverOnce for every key.
THEOREM Refinement == Spec => KeepsPromise
<1>1. Inv /\ [Next]_vars => [Promise!Next]_(Promise!vars)
  BY StepsMap DEF PromiseStutters, Promise!vars
<1> QED BY <1>1, InitMaps, Invariance, PTL DEF Spec, KeepsPromise, Promise!Spec
=============================================================================
