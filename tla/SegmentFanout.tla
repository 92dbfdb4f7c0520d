--------------------------- MODULE SegmentFanout ---------------------------
(***************************************************************************)
(* The parts the code provides for spreading one document over several     *)
(* workers: a work item is cut into segments, each becomes an outbox row   *)
(* in Postgres, publishers claim rows, send them to the segments topic and *)
(* mark them, workers translate segments, and a plan tells when the        *)
(* results can be put together again.                                      *)
(*                                                                         *)
(* kafka_backend.py and postgres_backend.py hold every operation; the      *)
(* loops that call them (an API that fans out, publishers, a collector of  *)
(* results) are not part of the repository and are modelled as any order   *)
(* of calls.                                                               *)
(***************************************************************************)
EXTENDS Naturals, Sequences, FiniteSets, SequencesExt

CONSTANTS Publishers,
          MaxSpans, MaxWidth,  \* bounds on a document and on spans per segment
          ClaimLimit,          \* rows a claim takes at most
          MaxRetries,          \* bound on the failures reported for a segment with retry=True
          MaxFaults            \* bound on processes that end

ASSUME FanoutAssumption ==
    /\ MaxSpans \in Nat /\ MaxFaults \in Nat
    /\ MaxWidth \in Nat \ {0} /\ ClaimLimit \in Nat \ {0} /\ MaxRetries \in Nat

VARIABLES document,   \* spans, max_spans_per_segment, whether the first span has no text
          tagged,     \* results carry a segment_id
          rows,       \* status of the outbox rows, in the order of their ids
          fanning,    \* the process that fans out is still at it
          batch,      \* the rows a publisher has claimed and not marked
          out,        \* those of them it has sent
          sent,       \* how often a segment was sent
          latest,     \* the status of the last result of a segment, or "none"
          retries,    \* history: how often a segment was marked failed with retry=True
          orphans,    \* history: rows whose publisher ended
          faults

vars == <<document, tagged, rows, fanning, batch, out, sent, latest, retries, orphans, faults>>

-----------------------------------------------------------------------------
(* Cutting a document. *)

Spans == [i \in 1..document.spans |-> i]

(* range(0, len(spans), width): a segment is the sequence of its spans; a  *)
(* document without spans is one segment without spans.                    *)
ChunkCount == (document.spans + document.width - 1) \div document.width
ChunkOneShort(n) ==
    LET first == (n - 1) * document.width
    IN  SubSeq(Spans, first + 1, IF first + document.width < document.spans
                                 THEN first + document.width ELSE document.spans - 1)
Chunk(n) == LET first == (n - 1) * document.width
            IN  SubSeq(Spans, first + 1, IF first + document.width < document.spans
                                         THEN first + document.width ELSE document.spans)
Segments == IF document.spans = 0 THEN << <<>> >>
            ELSE [n \in 1..ChunkCount |-> Chunk(n)]

(* The text of a segment, as the spans it is joined from; "" if none of     *)
(* them has any.                                                           *)
SegmentText(n) == IF Segments[n] = <<1>> /\ document.blank THEN <<>> ELSE Segments[n]

(* The worker's side: every span of the rebuilt work item has the text of  *)
(* the whole segment; a segment without text becomes one empty span, of a  *)
(* name of its own (0).                                                    *)
WorkItemText(n) == IF SegmentText(n) = <<>> THEN [s \in {0} |-> <<>>]
                   ELSE [s \in Range(Segments[n]) |-> SegmentText(n)]

Ids == 1..Len(Segments)

Statuses == {"pending", "publishing", "published", "failed"}

TypeOK ==
    /\ document \in [spans: 0..MaxSpans, width: 1..MaxWidth, blank: BOOLEAN]
    /\ tagged \in BOOLEAN /\ fanning \in BOOLEAN
    /\ rows \in Seq(Statuses) /\ Len(rows) <= Len(Segments)
    /\ batch \in [Publishers -> SUBSET Ids]
    /\ \A p \in Publishers : out[p] \subseteq batch[p]
    /\ sent \in [Ids -> Nat]
    /\ retries \in [Ids -> 0..MaxRetries]
    /\ latest \in [Ids -> {"none", "succeeded", "failed"}]
    /\ orphans \subseteq Ids
    /\ faults \in 0..MaxFaults

Init ==
    /\ document \in [spans: 0..MaxSpans, width: 1..MaxWidth, blank: BOOLEAN]
    /\ tagged \in BOOLEAN
    /\ rows = <<>> /\ fanning = TRUE
    /\ batch = [p \in Publishers |-> {}]
    /\ out = [p \in Publishers |-> {}]
    /\ sent = [n \in Ids |-> 0] /\ retries = [n \in Ids |-> 0]
    /\ latest = [n \in Ids |-> "none"] /\ orphans = {} /\ faults = 0

-----------------------------------------------------------------------------
(* enqueue commits each row by itself. *)
Enqueue ==
    /\ fanning /\ Len(rows) < Len(Segments)
    /\ rows' = Append(rows, "pending")
    /\ fanning' = (Len(rows') < Len(Segments))
    /\ UNCHANGED <<document, tagged, batch, out, sent, latest, retries, orphans, faults>>

FanoutEnds ==
    /\ fanning /\ faults < MaxFaults
    /\ fanning' = FALSE
    /\ faults' = faults + 1
    /\ UNCHANGED <<document, tagged, rows, batch, out, sent, latest, retries, orphans>>

Unpublished == {n \in DOMAIN rows : rows[n] # "published"}
Pending == {n \in DOMAIN rows : rows[n] = "pending"}
OldestOf(claimable) ==
    {n \in claimable : Cardinality({m \in claimable : m < n}) < ClaimLimit}

WithStatus(taken, status) == [n \in DOMAIN rows |-> IF n \in taken THEN status ELSE rows[n]]

Claim(p) ==
    /\ batch[p] = {} /\ Pending # {}
    /\ batch' = [batch EXCEPT ![p] = OldestOf(Pending)]
    /\ rows' = WithStatus(OldestOf(Pending), "publishing")
    /\ UNCHANGED <<document, tagged, fanning, out, sent, latest, retries, orphans, faults>>

(* A publisher sends a row's message, then marks the row. *)
Send(p, n) ==
    /\ n \in batch[p] \ out[p]
    /\ sent' = [sent EXCEPT ![n] = @ + 1]
    /\ out' = [out EXCEPT ![p] = @ \cup {n}]
    /\ UNCHANGED <<document, tagged, rows, fanning, batch, latest, retries, orphans, faults>>

Marked(p, n, status) ==
    /\ rows' = WithStatus({n}, status)
    /\ batch' = [batch EXCEPT ![p] = @ \ {n}]
    /\ out' = [out EXCEPT ![p] = @ \ {n}]
    /\ UNCHANGED <<document, tagged, fanning, sent, latest, orphans, faults>>

MarkPublished(p, n) == n \in out[p] /\ Marked(p, n, "published") /\ UNCHANGED retries

(* A send that reported an error may have stored the message all the same. *)
MarkFailed(p, n) ==
    /\ n \in batch[p]
    /\ \/ /\ retries[n] < MaxRetries /\ Marked(p, n, "pending")  \* retry=True
          /\ retries' = [retries EXCEPT ![n] = @ + 1]
       \/ Marked(p, n, "failed") /\ UNCHANGED retries

(* Nothing returns a row from "publishing" to "pending". *)
PublisherEnds(p) ==
    /\ batch[p] # {} /\ faults < MaxFaults
    /\ orphans' = orphans \cup batch[p]
    /\ batch' = [batch EXCEPT ![p] = {}]
    /\ out' = [out EXCEPT ![p] = {}]
    /\ faults' = faults + 1
    /\ UNCHANGED <<document, tagged, rows, fanning, sent, latest, retries>>

(* What a worker gets.  The bundle from_envelope rebuilds has three of the  *)
(* fields of document-bundle-v1, so translate_document_bundle refuses it.  *)
Rebuilt == {"document_id", "source_ocr_sha256", "spans"}
Required == {"schema_version", "document_id", "source_file_name", "source_file_sha256",
             "source_ocr_sha256", "pages", "spans", "language_metadata", "ocr_engine_metadata",
             "custody_chain_head", "artifact_manifest"}
Answers == IF Required \subseteq Rebuilt THEN {"succeeded", "failed"} ELSE {"failed"}

(* A worker answers a message that was sent, and every worker may, again    *)
(* and again: each is a consumer group of its own, and what it had not     *)
(* committed is delivered to it once more.  ack and nack build the result  *)
(* without a segment_id, and reassembly_plan passes over such results; a   *)
(* caller of from_worker_result may pass it.  Of several results of a      *)
(* segment the last one counts.                                            *)
Work(n) ==
    /\ sent[n] > 0
    /\ \E status \in Answers :
          latest' = IF tagged THEN [latest EXCEPT ![n] = status] ELSE latest
    /\ UNCHANGED <<document, tagged, rows, fanning, batch, out, sent, retries, orphans, faults>>

PublisherStep(p) == Claim(p) \/ \E n \in Ids : Send(p, n) \/ MarkPublished(p, n) \/ MarkFailed(p, n)

Quiet == /\ ~fanning /\ Pending = {}
         /\ \A p \in Publishers : batch[p] = {}
         /\ UNCHANGED vars

Next == \/ Enqueue \/ FanoutEnds \/ Quiet
        \/ \E p \in Publishers : PublisherStep(p) \/ PublisherEnds(p)
        \/ \E n \in Ids : Work(n)

Spec == Init /\ [][Next]_vars

-----------------------------------------------------------------------------
(* reassembly_plan *)
Missing == {n \in Ids : latest[n] = "none"}
Failed == {n \in Ids : latest[n] = "failed"}
ReadyWhenAnswered == Missing = {}
Ready == Missing = {} /\ Failed = {}

(* With one span per segment, the default, a worker gets each span that    *)
(* has a text under its own name with its own text.                        *)
OwnText ==
    document.width = 1 =>
        \A n \in Ids : SegmentText(n) # <<>> =>
            DOMAIN WorkItemText(n) = {n} /\ WorkItemText(n)[n] = <<n>>

(* Once every segment has a row and every row reads "published", what was  *)
(* sent, in the order of the rows, is the whole document, every span once, *)
(* although the fan-out may end half way, rows are committed one by one,   *)
(* marks fail, and publishers end between a send and its mark; and every   *)
(* worker was given the text of its own spans.                             *)
PublishedCoversDocument ==
    {n \in DOMAIN rows : rows[n] = "published"} = Ids =>
        /\ FlattenSeq([n \in Ids |-> IF sent[n] > 0 THEN Segments[n] ELSE <<>>]) = Spans
        /\ OwnText

(* A row is with one publisher at a time, and in "publishing" for as long: *)
(* the only rows stuck there are those of a publisher that ended.  So a    *)
(* message is sent once, and again only after its publisher reported that  *)
(* it failed.  (Asked together with the types.)                            *)
RowsAreHeldByOne ==
    /\ TypeOK
    /\ \A p, q \in Publishers : p # q => batch[p] \cap batch[q] = {}
    /\ {n \in DOMAIN rows : rows[n] = "publishing"} =
          (UNION {batch[p] : p \in Publishers}) \cup orphans
    /\ \A n \in DOMAIN rows : rows[n] = "published" => sent[n] > 0
    /\ \A n \in Ids : sent[n] <= 1 + retries[n]

(* Whatever is delivered, answered and collected, and however often, a plan *)
(* over the results of this code's workers is never ready: a segment is    *)
(* missing, or it was sent and its last result is a failure.  Results that *)
(* carry no segment_id leave every segment missing.                        *)
NothingIsReassembled ==
    /\ ~Ready
    /\ Missing \cup Failed = Ids
    /\ \A n \in Failed : n \in DOMAIN rows /\ sent[n] > 0
    /\ ~tagged => Missing = Ids
=============================================================================
