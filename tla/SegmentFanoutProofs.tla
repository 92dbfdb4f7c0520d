------------------------ MODULE SegmentFanoutProofs ------------------------
(***************************************************************************)
(* Proofs about SegmentFanout, for any publishers, documents and bounds:   *)
(* outbox rows are held by one publisher at a time and sent once per       *)
(* attempt, a document whose rows are published was sent whole, and the    *)
(* answers of this code's workers never make a plan ready.                 *)
(***************************************************************************)
EXTENDS SegmentFanout, SequenceTheorems, FiniteSetTheorems, TLAPS

(* A publisher holds rows that are there, none that an ended one left       *)
(* behind, and what it has sent was sent.                                   *)
Held ==
  /\ out \in [Publishers -> SUBSET Ids]
  /\ \A p \in Publishers : batch[p] \subseteq DOMAIN rows /\ batch[p] \cap orphans = {}
  /\ orphans \subseteq DOMAIN rows
  /\ \A p \in Publishers : \A n \in out[p] : sent[n] > 0

(* Only rows are sent, and a row that is pending, or claimed and not sent,  *)
(* was sent no more often than its publishers reported a failure.           *)
Spare ==
  \A n \in Ids :
    /\ sent[n] > 0 => n \in DOMAIN rows
    /\ n \in DOMAIN rows /\ rows[n] = "pending" => sent[n] <= retries[n]
    /\ \A p \in Publishers : n \in batch[p] \ out[p] => sent[n] <= retries[n]

(* What was answered was sent and refused, and the answer said for which    *)
(* segment.                                                                 *)
Refused ==
  \A n \in Ids :
    latest[n] \in {"none", "failed"} /\ (latest[n] = "failed" => tagged /\ sent[n] > 0)

FInv == RowsAreHeldByOne /\ Held /\ Spare /\ Refused

-----------------------------------------------------------------------------
(* A document has some number of segments, and no step changes it.          *)
LEMMA SegmentCount ==
  ASSUME FanoutAssumption, document \in [spans: 0..MaxSpans, width: 1..MaxWidth, blank: BOOLEAN]
  PROVE  Len(Segments) \in Nat
<1>1. document.spans \in Nat /\ document.width \in Nat \ {0}
  BY DEF FanoutAssumption
<1>2. ChunkCount \in Nat
  <2>1. document.spans + document.width - 1 \in Nat
    BY <1>1
  <2> QED
    BY <1>1, <2>1 DEF ChunkCount
<1>3. CASE document.spans = 0
  BY <1>3 DEF Segments
<1>4. CASE document.spans # 0
  <2>1. Segments = [n \in 1..ChunkCount |-> Chunk(n)]
    BY <1>4 DEF Segments
  <2>2. Len(Segments) = ChunkCount
    BY <1>2, <2>1
  <2> QED
    BY <1>2, <2>2
<1> QED
  BY <1>3, <1>4

(* The segments are those of the document. *)
LEMMA SameSegments ==
  ASSUME UNCHANGED document
  PROVE  Segments' = Segments /\ Ids' = Ids
BY DEF Segments, ChunkCount, Chunk, Spans, Ids

(* Marking rows keeps their number. *)
LEMMA MarkedRows ==
  ASSUME rows \in Seq(Statuses), NEW taken, NEW status \in Statuses
  PROVE  /\ WithStatus(taken, status) \in Seq(Statuses)
         /\ Len(WithStatus(taken, status)) = Len(rows)
         /\ DOMAIN WithStatus(taken, status) = DOMAIN rows
         /\ \A n \in DOMAIN rows :
              WithStatus(taken, status)[n] = IF n \in taken THEN status ELSE rows[n]
<1>1. Len(rows) \in Nat /\ DOMAIN rows = 1 .. Len(rows) /\ rows \in [1 .. Len(rows) -> Statuses]
  BY LenProperties
<1>2. WithStatus(taken, status) \in [1 .. Len(rows) -> Statuses]
  BY <1>1 DEF WithStatus
<1>3. Seq(Statuses) = UNION {[1 .. m -> Statuses] : m \in Nat}
  BY SeqDef
<1>4. WithStatus(taken, status) \in Seq(Statuses)
  BY <1>1, <1>2, <1>3, Zenon
<1>5. Len(WithStatus(taken, status)) = Len(rows)
  BY <1>1, <1>2, <1>4, LenProperties
<1> QED
  BY <1>1, <1>4, <1>5 DEF WithStatus

-----------------------------------------------------------------------------
(* No row is there at the start. *)
LEMMA InitFInv == Init => FInv
<1> SUFFICES ASSUME Init PROVE FInv
  OBVIOUS
<1>0. Len(Segments) \in Nat /\ MaxFaults \in Nat /\ MaxRetries \in Nat
  BY FanoutAssumption, SegmentCount DEF Init, FanoutAssumption
<1>1. rows = <<>> /\ rows \in Seq(Statuses) /\ Len(rows) = 0 /\ DOMAIN rows = {}
  BY EmptySeq DEF Init
<1>2. TypeOK
  BY <1>0, <1>1 DEF Init, TypeOK
<1>3. FInv
  BY <1>1, <1>2 DEF Init, TypeOK, FInv, RowsAreHeldByOne, Held, Spare, Refused
<1> QED
  BY <1>3

(* A row is added to those that are there. *)
LEMMA EnqueueKeeps == ASSUME FInv, Enqueue PROVE FInv'
<1> USE FanoutAssumption DEF FInv, FanoutAssumption
<1>1. /\ rows \in Seq(Statuses) /\ Len(rows) \in Nat /\ DOMAIN rows = 1 .. Len(rows)
      /\ Len(Segments) \in Nat /\ Len(rows) < Len(Segments)
  BY SegmentCount, LenProperties DEF RowsAreHeldByOne, TypeOK, Enqueue, FanoutAssumption
<1>2. /\ rows' \in Seq(Statuses) /\ Len(rows') = Len(rows) + 1
      /\ DOMAIN rows' = DOMAIN rows \cup {Len(rows) + 1}
      /\ rows'[Len(rows) + 1] = "pending"
      /\ \A n \in DOMAIN rows : rows'[n] = rows[n]
  <2>1. rows' = Append(rows, "pending") /\ "pending" \in Statuses
    BY DEF Enqueue, Statuses
  <2>2. rows' \in Seq(Statuses) /\ Len(rows') = Len(rows) + 1
    BY <1>1, <2>1
  <2>3. DOMAIN rows' = 1 .. Len(rows) + 1
    BY <2>2, LenProperties
  <2> QED
    BY <1>1, <2>1, <2>2, <2>3
<1>3. UNCHANGED <<document, tagged, batch, out, sent, latest, retries, orphans, faults>>
  BY DEF Enqueue
<1>4. Segments' = Segments /\ Ids' = Ids
  BY <1>3, SameSegments
<1>5. TypeOK'
  BY <1>1, <1>2, <1>3, <1>4 DEF RowsAreHeldByOne, TypeOK, Enqueue
<1>6. RowsAreHeldByOne'
  <2>1. {n \in DOMAIN rows' : rows'[n] = "publishing"} = {n \in DOMAIN rows : rows[n] = "publishing"}
    BY <1>2
  <2> QED
    BY <1>2, <1>3, <1>4, <1>5, <2>1 DEF RowsAreHeldByOne
<1>7. Held'
  BY <1>2, <1>3, <1>4 DEF Held
<1>8. Spare'
  <2>1. Len(rows) + 1 \in Ids => sent[Len(rows) + 1] = 0
    <3>1. Len(rows) + 1 \notin DOMAIN rows
      BY <1>1
    <3>2. Len(rows) + 1 \in Ids => sent[Len(rows) + 1] \in Nat
      BY DEF RowsAreHeldByOne, TypeOK
    <3> QED
      BY <3>1, <3>2 DEF Spare
  <2>2. \A n \in Ids : retries[n] \in Nat
    BY DEF RowsAreHeldByOne, TypeOK
  <2>3. ASSUME NEW n \in Ids, n \in DOMAIN rows', rows'[n] = "pending"
        PROVE  sent[n] <= retries[n]
    <3>1. CASE n = Len(rows) + 1
      BY <2>1, <2>2, <3>1
    <3>2. CASE n \in DOMAIN rows
      BY <1>2, <2>3, <3>2 DEF Spare
    <3> QED
      BY <1>2, <2>3, <3>1, <3>2
  <2> QED
    BY <1>2, <1>3, <1>4, <2>3 DEF Spare
<1>9. Refused'
  BY <1>3, <1>4 DEF Refused
<1> QED
  BY <1>6, <1>7, <1>8, <1>9

(* Rows that are pending are nobody's, and become one publisher's. *)
LEMMA ClaimKeeps == ASSUME FInv, NEW p \in Publishers, Claim(p) PROVE FInv'
<1> USE FanoutAssumption DEF FInv, FanoutAssumption
<1> DEFINE taken == OldestOf(Pending)
<1>1. taken \subseteq Pending /\ taken \subseteq DOMAIN rows /\ taken \subseteq Ids
  BY LenProperties DEF OldestOf, Pending, RowsAreHeldByOne, TypeOK, Ids
<1>2. /\ batch' = [batch EXCEPT ![p] = taken] /\ rows' = WithStatus(taken, "publishing")
      /\ batch[p] = {}
      /\ UNCHANGED <<document, tagged, fanning, out, sent, latest, retries, orphans, faults>>
  BY DEF Claim
<1>3. Segments' = Segments /\ Ids' = Ids
  BY <1>2, SameSegments
<1> HIDE DEF taken
<1>4. /\ rows' \in Seq(Statuses) /\ Len(rows') = Len(rows) /\ DOMAIN rows' = DOMAIN rows
      /\ \A n \in DOMAIN rows : rows'[n] = IF n \in taken THEN "publishing" ELSE rows[n]
  BY <1>2, MarkedRows DEF RowsAreHeldByOne, TypeOK, Statuses
<1>5. \A q \in Publishers : batch'[q] = IF q = p THEN taken ELSE batch[q]
  BY <1>2 DEF RowsAreHeldByOne, TypeOK
<1>6. \A n \in taken : n \notin orphans /\ \A q \in Publishers : n \notin batch[q]
  BY <1>1 DEF Pending, RowsAreHeldByOne
<1>7. TypeOK'
  <2>1. batch' \in [Publishers -> SUBSET Ids]
    BY <1>1, <1>2 DEF RowsAreHeldByOne, TypeOK
  <2>2. \A q \in Publishers : out'[q] \subseteq batch'[q]
    BY <1>2, <1>5 DEF RowsAreHeldByOne, TypeOK
  <2> QED
    BY <1>2, <1>3, <1>4, <2>1, <2>2 DEF RowsAreHeldByOne, TypeOK
<1>8. RowsAreHeldByOne'
  <2>1. \A q, r \in Publishers : q # r => batch'[q] \cap batch'[r] = {}
    BY <1>5, <1>6 DEF RowsAreHeldByOne
  <2>2. \A n \in DOMAIN rows' :
          rows'[n] = "publishing" <=> n \in (UNION {batch'[q] : q \in Publishers}) \cup orphans
    BY <1>2, <1>4, <1>5, <1>6 DEF RowsAreHeldByOne
  <2>3. (UNION {batch'[q] : q \in Publishers}) \cup orphans \subseteq DOMAIN rows'
    BY <1>1, <1>4, <1>5 DEF Held
  <2>4. {n \in DOMAIN rows' : rows'[n] = "publishing"}
          = (UNION {batch'[q] : q \in Publishers}) \cup orphans'
    BY <1>2, <2>2, <2>3
  <2>5. \A n \in DOMAIN rows' : rows'[n] = "published" => sent'[n] > 0
    BY <1>2, <1>4 DEF RowsAreHeldByOne
  <2> QED
    BY <1>2, <1>3, <1>7, <2>1, <2>4, <2>5 DEF RowsAreHeldByOne
<1>9. Held'
  BY <1>1, <1>2, <1>3, <1>4, <1>5, <1>6 DEF Held
<1>10. Spare'
  <2>1. \A n \in taken : sent[n] <= retries[n]
    BY <1>1 DEF Pending, Spare
  <2>2. ASSUME NEW n \in Ids, NEW q \in Publishers, n \in batch'[q] \ out'[q]
        PROVE  sent[n] <= retries[n]
    BY <1>2, <1>5, <2>1, <2>2 DEF Spare
  <2>3. ASSUME NEW n \in Ids, n \in DOMAIN rows', rows'[n] = "pending"
        PROVE  sent[n] <= retries[n]
    BY <1>4, <2>3 DEF Spare
  <2> QED
    BY <1>2, <1>3, <1>4, <2>2, <2>3 DEF Spare
<1>11. Refused'
  BY <1>2, <1>3 DEF Refused
<1> QED
  BY <1>8, <1>9, <1>10, <1>11

(* A message is counted as it is sent. *)
LEMMA SendKeeps == ASSUME FInv, NEW p \in Publishers, NEW n \in Ids, Send(p, n) PROVE FInv'
<1> USE FanoutAssumption DEF FInv, FanoutAssumption
<1>1. /\ n \in batch[p] \ out[p]
      /\ sent' = [sent EXCEPT ![n] = @ + 1]
      /\ out' = [out EXCEPT ![p] = @ \cup {n}]
      /\ UNCHANGED <<document, tagged, rows, fanning, batch, latest, retries, orphans, faults>>
  BY DEF Send
<1>2. Segments' = Segments /\ Ids' = Ids
  BY <1>1, SameSegments
<1>3. \A m \in Ids : /\ sent[m] \in Nat /\ retries[m] \in Nat
                     /\ sent'[m] = IF m = n THEN sent[m] + 1 ELSE sent[m]
  BY <1>1 DEF RowsAreHeldByOne, TypeOK
<1>4. sent[n] <= retries[n]
  BY <1>1 DEF Spare
<1>5. sent' \in [Ids -> Nat]
  BY <1>1 DEF RowsAreHeldByOne, TypeOK
<1>6. \A q \in Publishers : out'[q] = IF q = p THEN out[q] \cup {n} ELSE out[q]
  BY <1>1 DEF Held
<1>7. TypeOK'
  <2>1. TypeOK
    BY DEF RowsAreHeldByOne
  <2>2. \A q \in Publishers : out'[q] \subseteq batch'[q]
    BY <1>1, <1>6, <2>1 DEF TypeOK
  <2> QED
    BY <1>1, <1>2, <1>5, <2>1, <2>2 DEF TypeOK
<1>8. RowsAreHeldByOne'
  <2>1. DOMAIN rows \subseteq Ids
    BY SegmentCount, LenProperties DEF RowsAreHeldByOne, TypeOK, Ids
  <2>2. \A m \in Ids : sent'[m] <= 1 + retries'[m]
    BY <1>1, <1>3, <1>4 DEF RowsAreHeldByOne
  <2> QED
    BY <1>1, <1>2, <1>3, <1>7, <2>1, <2>2 DEF RowsAreHeldByOne
<1>9. Held'
  <2>1. out' \in [Publishers -> SUBSET Ids]
    BY <1>1 DEF Held
  <2> QED
    BY <1>1, <1>2, <1>3, <1>6, <2>1 DEF Held
<1>10. Spare'
  <2>1. n \in DOMAIN rows /\ rows[n] = "publishing"
    BY <1>1 DEF Held, RowsAreHeldByOne
  <2>2. \A q \in Publishers : q # p => n \notin batch[q]
    BY <1>1 DEF RowsAreHeldByOne
  <2> QED
    BY <1>1, <1>2, <1>3, <1>6, <2>1, <2>2 DEF Spare
<1>11. Refused'
  BY <1>1, <1>2, <1>3 DEF Refused
<1> QED
  BY <1>8, <1>9, <1>10, <1>11

(* A marked row is its publisher's no more. *)
LEMMA MarkKeeps ==
  ASSUME FInv, NEW p \in Publishers, NEW n \in batch[p], NEW status \in Statuses \ {"publishing"},
         Marked(p, n, status), status = "published" => n \in out[p],
         IF status = "pending"
         THEN retries[n] < MaxRetries /\ retries' = [retries EXCEPT ![n] = @ + 1]
         ELSE UNCHANGED retries
  PROVE  FInv'
<1> USE FanoutAssumption DEF FInv, FanoutAssumption
<1>1. /\ rows' = WithStatus({n}, status)
      /\ batch' = [batch EXCEPT ![p] = @ \ {n}] /\ out' = [out EXCEPT ![p] = @ \ {n}]
      /\ UNCHANGED <<document, tagged, fanning, sent, latest, orphans, faults>>
  BY DEF Marked
<1>2. Segments' = Segments /\ Ids' = Ids
  BY <1>1, SameSegments
<1>3. /\ rows' \in Seq(Statuses) /\ Len(rows') = Len(rows) /\ DOMAIN rows' = DOMAIN rows
      /\ \A m \in DOMAIN rows : rows'[m] = IF m = n THEN status ELSE rows[m]
  BY <1>1, MarkedRows DEF RowsAreHeldByOne, TypeOK
<1>4. \A q \in Publishers : /\ batch'[q] = IF q = p THEN batch[q] \ {n} ELSE batch[q]
                            /\ out'[q] = IF q = p THEN out[q] \ {n} ELSE out[q]
  <2>1. batch \in [Publishers -> SUBSET Ids] /\ out \in [Publishers -> SUBSET Ids]
    BY DEF RowsAreHeldByOne, TypeOK, Held
  <2> QED
    BY <1>1, <2>1
<1>5. /\ retries' \in [Ids -> 0..MaxRetries] /\ n \in Ids
      /\ \A m \in Ids : /\ sent[m] \in Nat /\ retries[m] \in Nat /\ retries'[m] \in Nat
                        /\ retries[m] <= retries'[m]
                        /\ m = n /\ status = "pending" => retries'[m] = retries[m] + 1
  <2>1. retries \in [Ids -> 0..MaxRetries] /\ sent \in [Ids -> Nat] /\ n \in Ids /\ MaxRetries \in Nat
    BY DEF RowsAreHeldByOne, TypeOK
  <2>2. CASE status = "pending"
    BY <2>1, <2>2
  <2>3. CASE status # "pending"
    BY <2>1, <2>3
  <2> QED
    BY <2>2, <2>3
<1>6. n \notin orphans /\ \A q \in Publishers : q # p => n \notin batch[q]
  BY DEF Held, RowsAreHeldByOne
<1>7. TypeOK'
  <2>1. batch' \in [Publishers -> SUBSET Ids]
    BY <1>1 DEF RowsAreHeldByOne, TypeOK
  <2>2. \A q \in Publishers : out'[q] \subseteq batch'[q]
    <3>1. \A q \in Publishers : out[q] \subseteq batch[q]
      BY DEF RowsAreHeldByOne, TypeOK
    <3> QED
      BY <1>4, <3>1
  <2> QED
    BY <1>1, <1>2, <1>3, <1>5, <2>1, <2>2 DEF RowsAreHeldByOne, TypeOK
<1>8. RowsAreHeldByOne'
  <2>1. \A q, r \in Publishers : q # r => batch'[q] \cap batch'[r] = {}
    BY <1>4 DEF RowsAreHeldByOne
  <2>2. \A m \in DOMAIN rows' :
          rows'[m] = "publishing" <=> m \in (UNION {batch'[q] : q \in Publishers}) \cup orphans
    <3>1. ASSUME NEW m \in DOMAIN rows, m # n
          PROVE  (\E q \in Publishers : m \in batch'[q]) <=> (\E q \in Publishers : m \in batch[q])
      BY <1>4, <3>1
    <3>2. ~ \E q \in Publishers : n \in batch'[q]
      BY <1>4, <1>6
    <3> QED
      BY <1>3, <1>6, <3>1, <3>2 DEF RowsAreHeldByOne
  <2>3. (UNION {batch'[q] : q \in Publishers}) \cup orphans \subseteq DOMAIN rows'
    <3>1. \A q \in Publishers : batch'[q] \subseteq batch[q]
      BY <1>4
    <3> QED
      BY <1>3, <3>1 DEF Held
  <2>4. {m \in DOMAIN rows' : rows'[m] = "publishing"}
          = (UNION {batch'[q] : q \in Publishers}) \cup orphans'
    BY <1>1, <2>2, <2>3
  <2>5. \A m \in DOMAIN rows' : rows'[m] = "published" => sent'[m] > 0
    BY <1>1, <1>3 DEF RowsAreHeldByOne, Held
  <2>6. \A m \in Ids' : sent'[m] <= 1 + retries'[m]
    BY <1>1, <1>2, <1>5 DEF RowsAreHeldByOne
  <2> QED
    BY <1>7, <2>1, <2>4, <2>5, <2>6 DEF RowsAreHeldByOne
<1>9. Held'
  <2>1. out' \in [Publishers -> SUBSET Ids]
    BY <1>1 DEF Held
  <2>2. \A q \in Publishers : batch'[q] \subseteq batch[q] /\ out'[q] \subseteq out[q]
    BY <1>4
  <2> QED
    BY <1>1, <1>2, <1>3, <2>1, <2>2 DEF Held
<1>10. Spare'
  <2>1. ASSUME NEW m \in Ids, m \in DOMAIN rows', rows'[m] = "pending"
        PROVE  sent[m] <= retries'[m]
    <3>1. CASE m = n
      <4>1. status = "pending" /\ sent[n] <= 1 + retries[n]
        BY <1>3, <2>1, <3>1 DEF RowsAreHeldByOne
      <4> QED
        BY <1>5, <3>1, <4>1
    <3>2. CASE m # n
      <4>1. sent[m] <= retries[m]
        BY <1>3, <2>1, <3>2 DEF Spare
      <4> QED
        BY <1>5, <4>1
    <3> QED
      BY <3>1, <3>2
  <2>2. ASSUME NEW m \in Ids, NEW q \in Publishers, m \in batch'[q] \ out'[q]
        PROVE  sent[m] <= retries'[m]
    <3>1. m \in batch[q] \ out[q]
      BY <1>4, <2>2
    <3>2. sent[m] <= retries[m]
      BY <3>1 DEF Spare
    <3> QED
      BY <1>5, <3>2
  <2>3. \A m \in Ids : sent[m] > 0 => m \in DOMAIN rows'
    BY <1>3 DEF Spare
  <2> QED
    BY <1>1, <1>2, <2>1, <2>2, <2>3 DEF Spare
<1>12. Refused'
  BY <1>1, <1>2 DEF Refused
<1> QED
  BY <1>8, <1>9, <1>10, <1>12

(* What a publisher leaves behind is held by nobody else. *)
LEMMA EndKeeps == ASSUME FInv, NEW p \in Publishers, PublisherEnds(p) PROVE FInv'
<1> USE FanoutAssumption DEF FInv, FanoutAssumption
<1>1. /\ orphans' = orphans \cup batch[p] /\ batch' = [batch EXCEPT ![p] = {}]
      /\ out' = [out EXCEPT ![p] = {}] /\ faults' = faults + 1 /\ faults < MaxFaults
      /\ UNCHANGED <<document, tagged, rows, fanning, sent, latest, retries>>
  BY DEF PublisherEnds
<1>2. Segments' = Segments /\ Ids' = Ids
  BY <1>1, SameSegments
<1>3. \A q \in Publishers : /\ batch'[q] = IF q = p THEN {} ELSE batch[q]
                            /\ out'[q] = IF q = p THEN {} ELSE out[q]
  BY <1>1 DEF RowsAreHeldByOne, TypeOK, Held
<1>4. TypeOK'
  <2>1. /\ batch' \in [Publishers -> SUBSET Ids] /\ orphans' \subseteq Ids
        /\ \A q \in Publishers : out'[q] \subseteq batch'[q]
    BY <1>1, <1>3 DEF RowsAreHeldByOne, TypeOK
  <2>2. faults' \in 0..MaxFaults
    BY <1>1 DEF RowsAreHeldByOne, TypeOK, FanoutAssumption
  <2> QED
    BY <1>1, <1>2, <2>1, <2>2 DEF RowsAreHeldByOne, TypeOK
<1>5. RowsAreHeldByOne'
  <2>1. \A q, r \in Publishers : q # r => batch'[q] \cap batch'[r] = {}
    BY <1>3 DEF RowsAreHeldByOne
  <2>2. (UNION {batch'[q] : q \in Publishers}) \cup orphans'
          = (UNION {batch[q] : q \in Publishers}) \cup orphans
    <3>1. ASSUME NEW m
          PROVE  (m \in orphans' \/ \E q \in Publishers : m \in batch'[q])
                   <=> (m \in orphans \/ \E q \in Publishers : m \in batch[q])
      BY <1>1, <1>3
    <3> QED
      BY <3>1
  <2> QED
    BY <1>1, <1>2, <1>4, <2>1, <2>2 DEF RowsAreHeldByOne
<1>6. Held'
  <2>1. out' \in [Publishers -> SUBSET Ids]
    BY <1>1 DEF Held
  <2>2. \A q \in Publishers : batch'[q] \cap orphans' = {}
    BY <1>1, <1>3 DEF Held, RowsAreHeldByOne
  <2> QED
    BY <1>1, <1>2, <1>3, <2>1, <2>2 DEF Held
<1>7. Spare' /\ Refused'
  BY <1>1, <1>2, <1>3 DEF Spare, Refused
<1> QED
  BY <1>5, <1>6, <1>7

(* A worker's answer changes what the plan reads, and nothing else. *)
LEMMA WorkKeeps == ASSUME FInv, NEW n \in Ids, Work(n) PROVE FInv'
<1> USE FanoutAssumption DEF FInv, FanoutAssumption
<1>1. /\ sent[n] > 0
      /\ UNCHANGED <<document, tagged, rows, fanning, batch, out, sent, retries, orphans, faults>>
  BY DEF Work
<1>2. latest' = IF tagged THEN [latest EXCEPT ![n] = "failed"] ELSE latest
  <2>1. "pages" \in Required /\ "pages" \notin Rebuilt
    BY DEF Required, Rebuilt
  <2>2. Answers = {"failed"}
    BY <2>1 DEF Answers
  <2> QED
    BY <2>2 DEF Work
<1>3. Segments' = Segments /\ Ids' = Ids
  BY <1>1, SameSegments
<1>4. latest' \in [Ids -> {"none", "succeeded", "failed"}]
  BY <1>2 DEF RowsAreHeldByOne, TypeOK
<1>5. TypeOK'
  BY <1>1, <1>3, <1>4 DEF RowsAreHeldByOne, TypeOK
<1>6. RowsAreHeldByOne' /\ Held' /\ Spare'
  BY <1>1, <1>3, <1>5 DEF RowsAreHeldByOne, Held, Spare
<1>7. Refused'
  <2>1. \A m \in Ids : latest'[m] = IF tagged /\ m = n THEN "failed" ELSE latest[m]
    BY <1>2 DEF RowsAreHeldByOne, TypeOK
  <2> QED
    BY <1>1, <1>3, <2>1 DEF Refused
<1> QED
  BY <1>6, <1>7

(* Every step keeps the invariant: one step per action. *)
LEMMA FanoutStep == FInv /\ [Next]_vars => FInv'
<1> SUFFICES ASSUME FInv, [Next]_vars PROVE FInv'
  OBVIOUS
<1>1. CASE UNCHANGED vars
  <2>1. Segments' = Segments /\ Ids' = Ids
    BY <1>1, SameSegments DEF vars
  <2> QED
    BY <1>1, <2>1 DEF vars, FInv, RowsAreHeldByOne, TypeOK, Held, Spare, Refused
<1>2. CASE Enqueue
  BY <1>2, EnqueueKeeps
<1>3. CASE FanoutEnds
  <2>1. Segments' = Segments /\ Ids' = Ids
    BY <1>3, SameSegments DEF FanoutEnds
  <2>2. fanning' \in BOOLEAN /\ faults' \in 0..MaxFaults
    <3>1. faults \in 0..MaxFaults /\ MaxFaults \in Nat
      BY FanoutAssumption DEF FInv, RowsAreHeldByOne, TypeOK, FanoutAssumption
    <3>2. fanning' = FALSE /\ faults' = faults + 1
      BY <1>3, Zenon DEF FanoutEnds
    <3>3. faults < MaxFaults
      BY <1>3, Zenon DEF FanoutEnds
    <3>4. faults' \in 0..MaxFaults
      BY <3>1, <3>2, <3>3
    <3> QED
      BY <3>2, <3>4
  <2> QED
    BY <1>3, <2>1, <2>2 DEF FanoutEnds, FInv, RowsAreHeldByOne, TypeOK, Held, Spare, Refused
<1>4. CASE Quiet
  BY <1>1, <1>4 DEF Quiet
<1>5. ASSUME NEW p \in Publishers, PublisherStep(p) PROVE FInv'
  <2>1. CASE Claim(p)
    BY <2>1, ClaimKeeps
  <2>2. ASSUME NEW n \in Ids, Send(p, n) PROVE FInv'
    BY <2>2, SendKeeps
  <2>3. ASSUME NEW n \in Ids, MarkPublished(p, n) PROVE FInv'
    <3>1. n \in batch[p] /\ "published" \in Statuses \ {"publishing"}
      BY <2>3 DEF MarkPublished, FInv, RowsAreHeldByOne, TypeOK, Statuses
    <3> QED
      BY <2>3, <3>1, MarkKeeps DEF MarkPublished
  <2>4. ASSUME NEW n \in Ids, MarkFailed(p, n) PROVE FInv'
    <3>1. n \in batch[p] /\ {"pending", "failed"} \subseteq Statuses \ {"publishing"}
      BY <2>4 DEF MarkFailed, Statuses
    <3>2. CASE /\ retries[n] < MaxRetries /\ Marked(p, n, "pending")
               /\ retries' = [retries EXCEPT ![n] = @ + 1]
      BY <3>1, <3>2, MarkKeeps
    <3>3. CASE Marked(p, n, "failed") /\ UNCHANGED retries
      BY <3>1, <3>3, MarkKeeps
    <3> QED
      BY <2>4, <3>2, <3>3 DEF MarkFailed
  <2> QED
    BY <1>5, <2>1, <2>2, <2>3, <2>4 DEF PublisherStep
<1> QED
  BY <1>1, <1>2, <1>3, <1>4, <1>5, EndKeeps, WorkKeeps DEF Next

-----------------------------------------------------------------------------
(* An outbox row is with one publisher at a time, and stuck in "publishing" *)
(* only after its publisher ended.                                          *)
THEOREM RowsHeldByOne == Spec => []RowsAreHeldByOne
<1>1. FInv => RowsAreHeldByOne
  BY DEF FInv
<1> QED
  BY <1>1, InitFInv, FanoutStep, PTL DEF Spec

-----------------------------------------------------------------------------
(* Induction over an interval: library facts about finite sets stand in for *)
(* an induction principle over predicates.                                  *)
LEMMA IntervalInduction ==
  ASSUME NEW N \in Nat, NEW T, 1 \in T, \A n \in 1..N - 1 : n \in T => n + 1 \in T
  PROVE  1..N \subseteq T
<1> SUFFICES ASSUME NEW x \in 1..N, x \notin T PROVE FALSE
  OBVIOUS
<1> DEFINE S == 1..N
           Bad == {1..n : n \in (1..N) \ T}
<1>1. IsFiniteSet(S)
  BY FS_Interval
<1>2. Bad \subseteq SUBSET S /\ Bad # {}
  OBVIOUS
<1>3. IsWellFoundedOn(StrictSubsetOrdering(S), SUBSET S)
  BY <1>1, FS_StrictSubsetOrderingWellFounded, FS_FiniteSubsetsOfFinite
<1> HIDE DEF S, Bad
<1>4. PICK b \in Bad : \A c \in Bad : <<c, b>> \notin StrictSubsetOrdering(S)
  BY <1>2, <1>3, WFMin
<1>5. PICK n \in (1..N) \ T : b = 1..n
  BY <1>4 DEF Bad
<1>6. n # 1 /\ n - 1 \in 1..N - 1
  BY <1>5
<1>7. n - 1 \notin T
  BY <1>5, <1>6
<1>8. 1..n - 1 \in Bad
  BY <1>6, <1>7 DEF Bad
<1>9. 1..n - 1 \subseteq 1..n /\ 1..n - 1 # 1..n
  <2>1. n \in 1..n /\ n \notin 1..n - 1
    BY <1>5
  <2>2. 1..n - 1 \subseteq 1..n
    BY <1>5
  <2> QED
    BY <2>1, <2>2
<1>10. <<1..n - 1, b>> \in StrictSubsetOrdering(S)
  BY <1>2, <1>4, <1>5, <1>8, <1>9 DEF StrictSubsetOrdering
<1> QED
  BY <1>4, <1>8, <1>10

(* Division is by the width: the last segment begins inside the document    *)
(* and ends at its end or after it.                                         *)
LEMMA CountOfChunks ==
  ASSUME NEW s \in Nat \ {0}, NEW w \in Nat \ {0}
  PROVE  LET c == (s + w - 1) \div w
         IN  c \in Nat \ {0} /\ (c - 1) * w < s /\ s <= c * w
<1> DEFINE a == s + w - 1
           c == a \div w
<1>1. a \in Nat /\ a >= w
  OBVIOUS
<1> HIDE DEF a
<1>2. c \in Nat /\ c * w <= a /\ a < (c + 1) * w
  BY <1>1
<1> HIDE DEF c
<1>3. c # 0
  BY <1>1, <1>2
<1>4. (c + 1) * w = c * w + w /\ (c - 1) * w = c * w - w /\ c * w \in Nat
  BY <1>2
<1> DEFINE p == c * w
<1> HIDE DEF p
<1>5. p <= a /\ a < p + w /\ p \in Nat
  BY <1>2, <1>4 DEF p
<1>6. p - w < s /\ s <= p
  BY <1>5 DEF a
<1> QED
  BY <1>2, <1>3, <1>4, <1>6 DEF p, c, a

(* Where the first n segments end. *)
UpTo(n) == IF n * document.width < document.spans THEN n * document.width ELSE document.spans

(* Segments begin where the one before ended, and cover the document.       *)
LEMMA ChunksMeet ==
  ASSUME FanoutAssumption, document \in [spans: 0..MaxSpans, width: 1..MaxWidth, blank: BOOLEAN],
         document.spans # 0
  PROVE  /\ ChunkCount \in Nat \ {0} /\ Segments = [n \in 1..ChunkCount |-> Chunk(n)]
         /\ Spans \in Seq(1..document.spans) /\ Len(Spans) = document.spans
         /\ UpTo(0) = 0 /\ UpTo(ChunkCount) = document.spans
         /\ \A n \in 1..ChunkCount :
              /\ UpTo(n - 1) \in 0..document.spans - 1 /\ UpTo(n) \in UpTo(n - 1) + 1..document.spans
              /\ UpTo(n) <= UpTo(n - 1) + document.width
              /\ Chunk(n) = SubSeq(Spans, UpTo(n - 1) + 1, UpTo(n))
<1> DEFINE s == document.spans
           w == document.width
<1>1. s \in Nat \ {0} /\ w \in Nat \ {0}
  BY DEF FanoutAssumption
<1> HIDE DEF s, w
<1>2. ChunkCount \in Nat \ {0} /\ (ChunkCount - 1) * w < s /\ s <= ChunkCount * w
  BY <1>1, CountOfChunks DEF ChunkCount, s, w
<1>3. Segments = [n \in 1..ChunkCount |-> Chunk(n)]
  BY DEF Segments
<1>4. Spans \in Seq(1..s) /\ Len(Spans) = s
  BY <1>1 DEF Spans, s
<1>5. \A n : UpTo(n) = IF n * w < s THEN n * w ELSE s
  BY DEF UpTo, s, w
<1>6. UpTo(0) = 0 /\ UpTo(ChunkCount) = s
  BY <1>1, <1>2, <1>5
<1>7. ASSUME NEW n \in 1..ChunkCount
      PROVE  /\ UpTo(n - 1) \in 0..s - 1 /\ UpTo(n) \in UpTo(n - 1) + 1..s
             /\ UpTo(n) <= UpTo(n - 1) + w
             /\ Chunk(n) = SubSeq(Spans, UpTo(n - 1) + 1, UpTo(n))
  <2>1. n \in Nat \ {0} /\ n <= ChunkCount
    BY <1>2
  <2>2. (n - 1) * w \in Nat /\ (n - 1) * w <= (ChunkCount - 1) * w
    <3>1. n - 1 \in Nat /\ ChunkCount - 1 \in Nat /\ n - 1 <= ChunkCount - 1
      BY <1>2, <2>1
    <3>2. \A i, j \in Nat : i <= j => i * w <= j * w
      BY <1>1
    <3>3. \A i \in Nat : i * w \in Nat
      BY <1>1
    <3> QED
      BY <3>1, <3>2, <3>3
  <2>3. (n - 1) * w < s
    <3>1. (ChunkCount - 1) * w \in Int
      BY <1>1, <1>2
    <3> QED
      BY <1>1, <1>2, <2>2, <3>1
  <2>4. n * w = (n - 1) * w + w
    BY <1>1, <2>1
  <2> DEFINE f == (n - 1) * w
  <2> HIDE DEF f
  <2>5. f \in Nat /\ f < s /\ UpTo(n - 1) = f /\ UpTo(n) = IF f + w < s THEN f + w ELSE s
    BY <1>5, <2>2, <2>3, <2>4 DEF f
  <2>6. Chunk(n) = SubSeq(Spans, f + 1, IF f + w < s THEN f + w ELSE s)
    BY DEF Chunk, f, s, w
  <2> DEFINE g == IF f + w < s THEN f + w ELSE s
  <2>7. f \in 0..s - 1 /\ g \in f + 1..s /\ g <= f + w
    BY <1>1, <2>5
  <2> HIDE DEF g
  <2>8. UpTo(n - 1) = f /\ UpTo(n) = g /\ Chunk(n) = SubSeq(Spans, f + 1, g)
    BY <2>5, <2>6 DEF g
  <2> QED
    BY <2>7, <2>8
<1> QED
  BY <1>2, <1>3, <1>4, <1>6, <1>7 DEF s, w

(* There is a segment, and the segments are a sequence. *)
LEMMA SomeSegment ==
  ASSUME FanoutAssumption, document \in [spans: 0..MaxSpans, width: 1..MaxWidth, blank: BOOLEAN]
  PROVE  /\ Len(Segments) \in Nat \ {0}
         /\ Segments = [n \in 1..Len(Segments) |-> Segments[n]]
<1>1. CASE document.spans = 0
  <2>1. Segments = << <<>> >>
    BY <1>1 DEF Segments
  <2>2. Len(Segments) = 1 /\ Segments = [n \in 1..1 |-> <<>>]
    BY <2>1
  <2> QED
    BY <2>2
<1>2. CASE document.spans # 0
  <2>1. ChunkCount \in Nat \ {0} /\ Segments = [n \in 1..ChunkCount |-> Chunk(n)]
    BY <1>2, ChunksMeet
  <2>2. Len(Segments) = ChunkCount
    BY <2>1
  <2> QED
    BY <2>1, <2>2
<1> QED
  BY <1>1, <1>2

(* The segments, one after the other, are the document. *)
LEMMA SegmentsCover ==
  ASSUME FanoutAssumption, document \in [spans: 0..MaxSpans, width: 1..MaxWidth, blank: BOOLEAN]
  PROVE  FlattenSeq(Segments) = Spans
<1> DEFINE Eq(f) == f = [i \in 1..Len(Segments) |->
                           IF i = 1 THEN Segments[i] ELSE f[i - 1] \o Segments[i]]
           flatten == CHOOSE f : Eq(f)
<1>1. CASE document.spans = 0
  <2>1. Segments = << <<>> >> /\ Len(Segments) = 1 /\ Spans = <<>>
    BY <1>1 DEF Segments, Spans
  <2> DEFINE w == [i \in 1..Len(Segments) |-> <<>>]
  <2>2. Eq(w)
    BY <2>1
  <2>3. Eq(flatten)
    BY <2>2
  <2>4. FlattenSeq(Segments) = flatten[1]
    BY <2>1 DEF FlattenSeq
  <2> HIDE DEF flatten
  <2> QED
    BY <2>1, <2>3, <2>4
<1>2. CASE document.spans # 0
  <2> DEFINE C == ChunkCount
             w == [i \in 1..C |-> SubSeq(Spans, 1, UpTo(i))]
  <2>1. /\ C \in Nat \ {0} /\ Segments = [n \in 1..C |-> Chunk(n)] /\ Len(Segments) = C
        /\ Spans \in Seq(1..document.spans) /\ Len(Spans) = document.spans
        /\ UpTo(0) = 0 /\ UpTo(C) = document.spans /\ document.spans \in Nat
    BY <1>2, ChunksMeet DEF FanoutAssumption
  <2>2. \A n \in 1..C :
          /\ UpTo(n - 1) \in 0..document.spans - 1 /\ UpTo(n) \in UpTo(n - 1) + 1..document.spans
          /\ Chunk(n) = SubSeq(Spans, UpTo(n - 1) + 1, UpTo(n))
    BY <1>2, ChunksMeet
  <2> HIDE DEF C
  <2>0. \A n \in 1..C : Segments[n] = SubSeq(Spans, UpTo(n - 1) + 1, UpTo(n))
    BY <2>1, <2>2
  <2>3. SubSeq(Spans, 1, UpTo(1)) = Segments[1]
    <3>1. 1 \in 1..C /\ 1 - 1 = 0
      BY <2>1
    <3>2. Segments[1] = SubSeq(Spans, UpTo(0) + 1, UpTo(1))
      BY <2>0, <3>1
    <3>3. UpTo(0) + 1 = 1
      BY <2>1
    <3> QED
      BY <3>2, <3>3
  <2>4. ASSUME NEW i \in 1..C, i # 1
        PROVE  SubSeq(Spans, 1, UpTo(i - 1)) \o Segments[i] = SubSeq(Spans, 1, UpTo(i))
    <3> DEFINE k == UpTo(i - 1)
               n == UpTo(i)
    <3>0. k \in 0..document.spans - 1 /\ n \in k + 1..document.spans
      BY <2>2
    <3>1. k \in 0..Len(Spans) /\ n \in k..Len(Spans) /\ Segments[i] = SubSeq(Spans, k + 1, n)
      <4>1. Segments[i] = SubSeq(Spans, k + 1, n)
        BY <2>0
      <4> HIDE DEF k, n
      <4> QED
        BY <2>1, <3>0, <4>1
    <3> HIDE DEF k, n
    <3>2. 1 \in 1..Len(Spans) + 1 /\ k \in 1 - 1..Len(Spans)
      BY <2>1, <3>1
    <3>3. SubSeq(Spans, 1, k) \o SubSeq(Spans, k + 1, n) = SubSeq(Spans, 1, n)
      BY <2>1, <3>1, <3>2, ConcatAdjacentSubSeq
    <3> QED
      BY <3>1, <3>3 DEF k, n
  <2>5. Eq(w)
    <3>1. \A i \in 1..C : w[i] = IF i = 1 THEN Segments[i] ELSE w[i - 1] \o Segments[i]
      <4> SUFFICES ASSUME NEW i \in 1..C
                   PROVE  w[i] = IF i = 1 THEN Segments[i] ELSE w[i - 1] \o Segments[i]
        OBVIOUS
      <4>1. CASE i = 1
        BY <2>3, <4>1
      <4>2. CASE i # 1
        <5>1. i - 1 \in 1..C
          BY <2>1, <4>2
        <5> QED
          BY <2>4, <4>2, <5>1
      <4> QED
        BY <4>1, <4>2
    <3>2. w = [i \in 1..C |-> w[i]]
      OBVIOUS
    <3> HIDE DEF w
    <3> QED
      BY <2>1, <3>1, <3>2
  <2>6. Eq(flatten)
    BY <2>5
  <2>7. FlattenSeq(Segments) = flatten[C]
    BY <2>1 DEF FlattenSeq
  <2> HIDE DEF flatten, w
  <2>8. 1..C \subseteq {i \in 1..C : flatten[i] = w[i]}
    <3> DEFINE T == {i \in 1..C : flatten[i] = w[i]}
    <3>1. 1 \in T
      <4>1. 1 \in 1..C
        BY <2>1
      <4>2. flatten[1] = Segments[1]
        BY <2>1, <2>6, <4>1
      <4> QED
        BY <2>3, <4>1, <4>2 DEF w
    <3>2. ASSUME NEW n \in 1..C - 1, n \in T PROVE n + 1 \in T
      <4>1. n + 1 \in 1..C /\ n + 1 # 1 /\ (n + 1) - 1 = n /\ n \in 1..C
        BY <2>1
      <4>2. flatten[n + 1] = flatten[n] \o Segments[n + 1]
        BY <2>1, <2>6, <4>1
      <4>3. w[n + 1] = w[n] \o Segments[n + 1]
        BY <2>4, <4>1 DEF w
      <4> QED
        BY <3>2, <4>1, <4>2, <4>3
    <3> HIDE DEF T
    <3>3. 1..C \subseteq T
      BY <2>1, <3>1, <3>2, IntervalInduction
    <3> QED
      BY <3>3 DEF T
  <2>9. flatten[C] = SubSeq(Spans, 1, document.spans)
    BY <2>1, <2>8 DEF w
  <2> QED
    BY <2>1, <2>7, <2>9, SubSeqFull
<1> QED
  BY <1>1, <1>2

(* With one span per segment a worker gets each text under its own name. *)
LEMMA OneSpanOneText ==
  ASSUME FanoutAssumption, document \in [spans: 0..MaxSpans, width: 1..MaxWidth, blank: BOOLEAN]
  PROVE  OwnText
<1> SUFFICES ASSUME document.width = 1, NEW n \in Ids, SegmentText(n) # <<>>
             PROVE  DOMAIN WorkItemText(n) = {n} /\ WorkItemText(n)[n] = <<n>>
  BY DEF OwnText
<1>1. CASE document.spans = 0
  <2>1. Segments = << <<>> >> /\ n = 1
    BY <1>1 DEF Segments, Ids
  <2>2. Segments[n] = <<>>
    BY <2>1
  <2> QED
    BY <2>2 DEF SegmentText
<1>2. CASE document.spans # 0
  <2>1. document.spans \in Nat /\ ChunkCount \in Nat \ {0} /\ Len(Segments) = ChunkCount
    BY <1>2, ChunksMeet DEF FanoutAssumption
  <2>2. n \in 1..ChunkCount
    BY <2>1 DEF Ids
  <2>3. n \in 1..document.spans
    <3>1. UpTo(ChunkCount) = document.spans /\ UpTo(ChunkCount - 1) \in 0..document.spans - 1
      BY <1>2, <2>1, ChunksMeet
    <3>2. UpTo(ChunkCount - 1) = ChunkCount - 1
      BY <2>1, <3>1 DEF UpTo
    <3> QED
      BY <2>1, <2>2, <3>1, <3>2
  <2>4. Segments[n] = Chunk(n)
    BY <1>2, <2>2, ChunksMeet
  <2>5. Chunk(n) = SubSeq(Spans, n, n)
    <3>1. (n - 1) * document.width = n - 1
      BY <2>3
    <3>2. (IF (n - 1) + 1 < document.spans THEN (n - 1) + 1 ELSE document.spans) = n
      BY <2>1, <2>3
    <3> QED
      BY <2>3, <3>1, <3>2 DEF Chunk
  <2>6. SubSeq(Spans, n, n) = <<n>>
    <3>1. Spans[n] = n
      BY <2>3 DEF Spans
    <3>2. SubSeq(Spans, n, n) = [i \in 1..1 |-> Spans[n]]
      BY <2>3
    <3>3. <<n>> = [i \in 1..1 |-> n]
      OBVIOUS
    <3> QED
      BY <3>1, <3>2, <3>3
  <2>7. Range(<<n>>) = {n}
    BY DEF Range
  <2>8. SegmentText(n) = <<n>> /\ Segments[n] = <<n>>
    BY <2>4, <2>5, <2>6 DEF SegmentText
  <2> QED
    BY <2>7, <2>8 DEF WorkItemText
<1> QED
  BY <1>1, <1>2

(* A document whose rows all read "published" was sent whole, every span    *)
(* once and in order, each with its own text, for any document, publishers  *)
(* and number of spans per segment.                                         *)
THEOREM PublishedCovers == Spec => []PublishedCoversDocument
<1>1. FInv => PublishedCoversDocument
  <2> SUFFICES ASSUME FInv, {n \in DOMAIN rows : rows[n] = "published"} = Ids
               PROVE  /\ FlattenSeq([n \in Ids |-> IF sent[n] > 0 THEN Segments[n] ELSE <<>>]) = Spans
                      /\ OwnText
    BY DEF PublishedCoversDocument
  <2>1. document \in [spans: 0..MaxSpans, width: 1..MaxWidth, blank: BOOLEAN]
    BY DEF FInv, RowsAreHeldByOne, TypeOK
  <2>2. \A n \in Ids : sent[n] > 0
    BY DEF FInv, RowsAreHeldByOne
  <2>3. [n \in Ids |-> IF sent[n] > 0 THEN Segments[n] ELSE <<>>] = [n \in Ids |-> Segments[n]]
    BY <2>2
  <2>4. [n \in Ids |-> Segments[n]] = Segments
    BY <2>1, FanoutAssumption, SomeSegment DEF Ids
  <2> QED
    BY <2>1, <2>3, <2>4, FanoutAssumption, SegmentsCover, OneSpanOneText
<1> QED
  BY <1>1, InitFInv, FanoutStep, PTL DEF Spec

(* Whatever is delivered and collected, and however often, no plan over the *)
(* answers of this code's workers is ready.                                 *)
THEOREM NeverReassembled == Spec => []NothingIsReassembled
<1>1. FInv => NothingIsReassembled
  <2> SUFFICES ASSUME FInv PROVE NothingIsReassembled
    OBVIOUS
  <2>1. 1 \in Ids
    <3>1. document \in [spans: 0..MaxSpans, width: 1..MaxWidth, blank: BOOLEAN]
      BY DEF FInv, RowsAreHeldByOne, TypeOK
    <3>2. Len(Segments) \in Nat \ {0}
      BY <3>1, FanoutAssumption, SomeSegment
    <3> QED
      BY <3>2 DEF Ids
  <2>2. Missing \cup Failed = Ids
    BY DEF FInv, Refused, Missing, Failed
  <2> QED
    BY <2>1, <2>2 DEF NothingIsReassembled, Ready, Missing, Failed, FInv, Refused, Spare
<1> QED
  BY <1>1, InitFInv, FanoutStep, PTL DEF Spec
=============================================================================
