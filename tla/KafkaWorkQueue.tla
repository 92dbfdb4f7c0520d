--------------------------- MODULE KafkaWorkQueue ---------------------------
(***************************************************************************)
(* The Kafka backend (edc_translation/kafka_backend.py): one API process   *)
(* that submits work items, the jobs topic, and worker daemons that        *)
(* consume it and publish results and dead letters.                        *)
(*                                                                         *)
(* Every process has a background I/O thread.  The main thread only talks  *)
(* to it through in-memory queues; the thread starts on first use, may     *)
(* fail to connect, and ends for good when one send fails, until somebody  *)
(* calls _ensure_io_thread again.  It is a daemon thread, so that it and   *)
(* its queues end with the process.                                        *)
(*                                                                         *)
(* The consumer group of a worker is named after its --worker-id, so that  *)
(* every worker has a committed offset of its own.  Each job is submitted  *)
(* once; a job stands for its work item and its messages.                  *)
(***************************************************************************)
EXTENDS Integers, Sequences, FiniteSets, SequencesExt

CONSTANTS
  Jobs,             \* work items clients may submit
  Workers,          \* worker processes, each with its own --worker-id
  MaxFailedSends,   \* bound: sends to the broker that fail
  MaxEnds           \* bound: processes that end

NoItem == "no item"

ASSUME KafkaConstants == MaxFailedSends \in Nat /\ MaxEnds \in Nat /\ NoItem \notin Jobs

Io == {"off", "starting", "on"}
Results == Jobs \X {"succeeded", "failed"}
DeadLetters == Jobs \X {"dead"}
Envelopes == Results \cup DeadLetters

VARIABLES
  req,        \* the submission of each job: new, at its connection test, accepted
  buffer,     \* _local_buffer of the API process
  submitQ,    \* _submit_q of the API process
  apiIo,      \* the I/O thread of the API process
  topic,      \* the jobs topic
  io,         \* io[w]: the I/O thread of worker w
  pos,        \* position of its consumer in the topic
  committed,  \* the offset its consumer group has committed
  pollQ,      \* _poll_q
  resultQ,    \* _result_q
  pc,         \* where the main thread is in run_forever
  holds,      \* the work item it is working on
  stop,       \* its stop flag
  published,  \* history: envelopes of w that reached the broker
  finished,   \* history: work items w acked or nacked
  lostSubmits,   \* history: work items whose send failed
  lostResults,   \* history: envelopes of w whose send failed
  apiEnds,    \* history: how often the API process ended
  ends        \* history: how often worker w ended

apiVars == <<req, buffer, submitQ, apiIo, lostSubmits, apiEnds>>
ioVars == <<io, pos, committed>>
queueVars == <<pollQ, resultQ>>
loopVars == <<pc, holds, stop>>
historyVars == <<published, finished, lostResults, ends>>
workerVars == <<ioVars, queueVars, loopVars, historyVars>>
vars == <<apiVars, topic, workerVars>>

FailedSends == Cardinality(lostSubmits)
  + FoldSet(LAMBDA w, n : n + Cardinality(lostResults[w]), 0, Workers)
Ends == apiEnds + FoldSet(LAMBDA w, n : n + ends[w], 0, Workers)

-----------------------------------------------------------------------------
Init ==
  /\ req = [j \in Jobs |-> "new"]
  /\ buffer = {} /\ submitQ = <<>> /\ apiIo = "off" /\ topic = <<>>
  /\ io = [w \in Workers |-> "off"]
  /\ pos = [w \in Workers |-> 0]
  /\ committed = [w \in Workers |-> 0]
  /\ pollQ = [w \in Workers |-> <<>>]
  /\ resultQ = [w \in Workers |-> <<>>]
  /\ pc = [w \in Workers |-> "idle"]
  /\ holds = [w \in Workers |-> NoItem]
  /\ stop = [w \in Workers |-> FALSE]
  /\ published = [w \in Workers |-> {}]
  /\ finished = [w \in Workers |-> {}]
  /\ lostSubmits = {} /\ apiEnds = 0
  /\ lostResults = [w \in Workers |-> {}]
  /\ ends = [w \in Workers |-> 0]

(* _ensure_io_thread: a thread that is alive is left alone. *)
Ensured(thread) == IF thread = "off" THEN "starting" ELSE thread

-----------------------------------------------------------------------------
(* submit, in the API process.                                              *)

SubmitEnsure(j) ==
  /\ req[j] = "new"
  /\ req' = [req EXCEPT ![j] = "testing"]
  /\ apiIo' = Ensured(apiIo)
  /\ UNCHANGED <<topic, buffer, submitQ, lostSubmits, apiEnds, workerVars>>

(* The connection is tested after the thread was started, not after it has  *)
(* connected: the item of the first submission goes to the local buffer.    *)
SubmitEnqueue(j) ==
  /\ req[j] = "testing"
  /\ req' = [req EXCEPT ![j] = "accepted"]
  /\ \/ apiIo = "on" /\ submitQ' = Append(submitQ, j) /\ UNCHANGED buffer
     \/ apiIo # "on" /\ buffer' = buffer \cup {j} /\ UNCHANGED submitQ
  /\ UNCHANGED <<topic, apiIo, lostSubmits, apiEnds, workerVars>>

(* The connection comes up, or the thread gives up at once. *)
ApiConnect ==
  /\ apiIo = "starting"
  /\ apiIo' \in {"on", "off"}
  /\ UNCHANGED <<req, buffer, submitQ, topic, lostSubmits, apiEnds, workerVars>>

ApiSend ==
  /\ apiIo = "on" /\ submitQ # <<>>
  /\ topic' = Append(topic, Head(submitQ))
  /\ submitQ' = Tail(submitQ)
  /\ UNCHANGED <<req, buffer, apiIo, lostSubmits, apiEnds, workerVars>>

(* The item has left the queue and the thread ends.  The broker may have    *)
(* stored the message all the same.                                         *)
ApiSendFails ==
  /\ apiIo = "on" /\ submitQ # <<>> /\ FailedSends < MaxFailedSends
  /\ topic' \in {topic, Append(topic, Head(submitQ))}
  /\ submitQ' = Tail(submitQ)
  /\ lostSubmits' = lostSubmits \cup {Head(submitQ)}
  /\ apiIo' = "off"
  /\ UNCHANGED <<req, buffer, apiEnds, workerVars>>

(* The API process ends, with its buffer and queue, and is started again;   *)
(* the clients whose request was still open got no answer.                  *)
ApiEnds ==
  /\ Ends < MaxEnds
  /\ apiEnds' = apiEnds + 1
  /\ buffer' = {} /\ submitQ' = <<>> /\ apiIo' = "off"
  /\ req' = [j \in Jobs |-> IF req[j] = "testing" THEN "new" ELSE req[j]]
  /\ UNCHANGED <<topic, lostSubmits, workerVars>>

-----------------------------------------------------------------------------
(* The I/O thread of a worker.                                              *)

(* The consumer goes on from the committed offset, or from the earliest     *)
(* message; what it had fetched beyond that is delivered again.             *)
Connect(w) ==
  /\ io[w] = "starting"
  /\ io' = [io EXCEPT ![w] = "on"]
  /\ pos' = [pos EXCEPT ![w] = committed[w]]
  /\ UNCHANGED <<apiVars, topic, committed, queueVars, loopVars, historyVars>>

ConnectFails(w) ==
  /\ io[w] = "starting"
  /\ io' = [io EXCEPT ![w] = "off"]
  /\ UNCHANGED <<apiVars, topic, pos, committed, queueVars, loopVars, historyVars>>

(* getmany: the next message of the topic goes to the poll queue. *)
Fetch(w) ==
  /\ io[w] = "on" /\ pos[w] < Len(topic)
  /\ pos' = [pos EXCEPT ![w] = @ + 1]
  /\ pollQ' = [pollQ EXCEPT ![w] = Append(@, topic[pos[w] + 1])]
  /\ UNCHANGED <<apiVars, topic, io, committed, resultQ, loopVars, historyVars>>

(* enable_auto_commit: what was fetched is committed, worked on or not. *)
AutoCommit(w) ==
  /\ io[w] = "on" /\ committed[w] < pos[w]
  /\ committed' = [committed EXCEPT ![w] = pos[w]]
  /\ UNCHANGED <<apiVars, topic, io, pos, queueVars, loopVars, historyVars>>

Publish(w) ==
  /\ io[w] = "on" /\ resultQ[w] # <<>>
  /\ published' = [published EXCEPT ![w] = @ \cup {Head(resultQ[w])}]
  /\ resultQ' = [resultQ EXCEPT ![w] = Tail(@)]
  /\ UNCHANGED <<apiVars, topic, ioVars, pollQ, loopVars, finished, lostResults, ends>>

(* Mutant: the new thread starts with an empty queue. *)
PublishFailsClearing(w) ==
  /\ io[w] = "on" /\ resultQ[w] # <<>> /\ FailedSends < MaxFailedSends
  /\ lostResults' = [lostResults EXCEPT ![w] = @ \cup {Head(resultQ[w])}]
  /\ resultQ' = [resultQ EXCEPT ![w] = <<>>]
  /\ io' = [io EXCEPT ![w] = "off"]
  /\ UNCHANGED <<apiVars, topic, published, committed, pos, pollQ, loopVars, finished, ends>>

(* As ApiSendFails.  On its way out the thread closes the consumer, which   *)
(* commits its position if it still can.                                    *)
PublishFails(w) ==
  LET e == Head(resultQ[w]) IN
  /\ io[w] = "on" /\ resultQ[w] # <<>> /\ FailedSends < MaxFailedSends
  /\ \/ UNCHANGED published
     \/ published' = [published EXCEPT ![w] = @ \cup {e}]
  /\ lostResults' = [lostResults EXCEPT ![w] = @ \cup {e}]
  /\ resultQ' = [resultQ EXCEPT ![w] = Tail(@)]
  /\ io' = [io EXCEPT ![w] = "off"]
  /\ \/ UNCHANGED committed
     \/ committed' = [committed EXCEPT ![w] = pos[w]]
  /\ UNCHANGED <<apiVars, topic, pos, pollQ, loopVars, finished, ends>>

-----------------------------------------------------------------------------
(* The main thread of a worker: run_forever over poll, ack and nack.        *)

EnterPoll(w) ==
  /\ pc[w] = "idle" /\ ~stop[w]
  /\ pc' = [pc EXCEPT ![w] = "polling"]
  /\ io' = [io EXCEPT ![w] = Ensured(@)]
  /\ UNCHANGED <<apiVars, topic, pos, committed, queueVars, holds, stop, historyVars>>

(* The next fetched item, or nothing; a worker has no local buffer. *)
Poll(w) ==
  /\ pc[w] = "polling"
  /\ \/ /\ pollQ[w] = <<>>
        /\ pc' = [pc EXCEPT ![w] = "idle"]
        /\ UNCHANGED <<holds, pollQ>>
     \/ /\ pollQ[w] # <<>>
        /\ pc' = [pc EXCEPT ![w] = "busy"]
        /\ holds' = [holds EXCEPT ![w] = Head(pollQ[w])]
        /\ pollQ' = [pollQ EXCEPT ![w] = Tail(@)]
  /\ UNCHANGED <<apiVars, topic, ioVars, resultQ, stop, historyVars>>

(* The translation ends and its envelopes are queued for the I/O thread. *)
Answer(w, envelopes) ==
  /\ pc[w] = "busy"
  /\ resultQ' = [resultQ EXCEPT ![w] = @ \o envelopes]
  /\ finished' = [finished EXCEPT ![w] = @ \cup {holds[w]}]
  /\ io' = [io EXCEPT ![w] = Ensured(@)]
  /\ pc' = [pc EXCEPT ![w] = "idle"]
  /\ holds' = [holds EXCEPT ![w] = NoItem]
  /\ UNCHANGED <<apiVars, topic, pos, committed, pollQ, stop, published, lostResults, ends>>

Ack(w) == Answer(w, <<<<holds[w], "succeeded">>>>)

(* Mutants: the dead letter goes first, or the result is forgotten. *)
NackDeadFirst(w) == Answer(w, <<<<holds[w], "dead">>, <<holds[w], "failed">>>>)
NackOnlyDead(w) == Answer(w, <<<<holds[w], "dead">>>>)

(* A failed translation is not tried again. *)
Nack(w) == Answer(w, <<<<holds[w], "failed">>, <<holds[w], "dead">>>>)

Signal(w) ==
  /\ pc[w] # "down" /\ ~stop[w] /\ Ends < MaxEnds
  /\ stop' = [stop EXCEPT ![w] = TRUE]
  /\ UNCHANGED <<apiVars, topic, pc, holds, ioVars, queueVars, historyVars>>

(* The process is gone: its threads, queues and work item with it. *)
Gone(w) ==
  /\ pc' = [pc EXCEPT ![w] = "down"]
  /\ holds' = [holds EXCEPT ![w] = NoItem]
  /\ io' = [io EXCEPT ![w] = "off"]
  /\ pollQ' = [pollQ EXCEPT ![w] = <<>>]
  /\ resultQ' = [resultQ EXCEPT ![w] = <<>>]
  /\ ends' = [ends EXCEPT ![w] = @ + 1]
  /\ UNCHANGED <<apiVars, topic, pos, committed, stop, published, finished, lostResults>>

(* run_forever returns and main with it; nobody calls KafkaWorkQueue.stop. *)
LeaveLoop(w) == pc[w] = "idle" /\ stop[w] /\ Gone(w)

Crash(w) == pc[w] # "down" /\ Ends < MaxEnds /\ Gone(w)

Restart(w) ==
  /\ pc[w] = "down"
  /\ pc' = [pc EXCEPT ![w] = "idle"]
  /\ stop' = [stop EXCEPT ![w] = FALSE]
  /\ UNCHANGED <<apiVars, topic, holds, ioVars, queueVars, historyVars>>

IoStep(w) ==
  \/ Connect(w)
  \/ ConnectFails(w)
  \/ Fetch(w)
  \/ AutoCommit(w)
  \/ Publish(w)
  \/ PublishFails(w)

LoopStep(w) ==
  \/ EnterPoll(w)
  \/ Poll(w)
  \/ Ack(w)
  \/ Nack(w)
  \/ LeaveLoop(w)

Next ==
  \/ \E j \in Jobs : SubmitEnsure(j) \/ SubmitEnqueue(j)
  \/ ApiConnect
  \/ ApiSend
  \/ ApiSendFails
  \/ ApiEnds
  \/ \E w \in Workers : IoStep(w) \/ LoopStep(w)
  \/ \E w \in Workers : Signal(w) \/ Crash(w) \/ Restart(w)

(* Threads run; a broker that can be reached is reached in the end. *)
Fairness ==
  \A w \in Workers :
    /\ WF_vars(LoopStep(w))
    /\ SF_vars(Connect(w))
    /\ WF_vars(Fetch(w))
    /\ WF_vars(Publish(w))

SafetySpec == Init /\ [][Next]_vars
Spec == SafetySpec /\ Fairness

-----------------------------------------------------------------------------
(* Every variable keeps its type. *)
TypeOK ==
  /\ req \in [Jobs -> {"new", "testing", "accepted"}]
  /\ buffer \in SUBSET Jobs
  /\ submitQ \in Seq(Jobs)
  /\ apiIo \in Io
  /\ topic \in Seq(Jobs)
  /\ io \in [Workers -> Io]
  /\ pos \in [Workers -> Nat]
  /\ committed \in [Workers -> Nat]
  /\ pollQ \in [Workers -> Seq(Jobs)]
  /\ resultQ \in [Workers -> Seq(Envelopes)]
  /\ pc \in [Workers -> {"idle", "polling", "busy", "down"}]
  /\ holds \in [Workers -> Jobs \cup {NoItem}]
  /\ stop \in [Workers -> BOOLEAN]
  /\ published \in [Workers -> SUBSET Envelopes]
  /\ finished \in [Workers -> SUBSET Jobs]
  /\ lostSubmits \in SUBSET Jobs
  /\ lostResults \in [Workers -> SUBSET Envelopes]
  /\ apiEnds \in Nat
  /\ ends \in [Workers -> Nat]

(* A work item whose submission was accepted is in the topic or still in    *)
(* the API process, unless that process ended or its send failed: a broken  *)
(* connection costs the one item at the head of the queue.                  *)
AcceptedIsKept ==
  apiEnds = 0 =>
    \A j \in Jobs : req[j] = "accepted"
      => j \in buffer \cup ToSet(submitQ) \cup ToSet(topic) \cup lostSubmits

(* A worker that has not ended skips no message: whatever lies below its    *)
(* position or its committed offset was worked on, is being worked on or    *)
(* waits in its poll queue, however often the connection broke.             *)
NothingSkipped ==
  \A w \in Workers : ends[w] = 0 =>
    \A i \in 1 .. Len(topic) : i <= pos[w] \/ i <= committed[w]
      => topic[i] \in finished[w] \cup ToSet(pollQ[w]) \cup {holds[w]}

(* A finished translation has its result at the broker or in the queue,     *)
(* unless the process ended or the send of that very result failed.         *)
NoResultLost ==
  \A w \in Workers : ends[w] = 0 =>
    \A j \in finished[w] : \E r \in {"succeeded", "failed"} :
      <<j, r>> \in published[w] \cup ToSet(resultQ[w]) \cup lostResults[w]

(* No submission, no message and no result disappears silently on its way   *)
(* from the API to the broker, through the worker and back.                 *)
NothingLost == TypeOK /\ AcceptedIsKept /\ NothingSkipped /\ NoResultLost

(* A dead letter at the broker comes after the failed result it belongs to, *)
(* which only a failed send may have swallowed.                             *)
DeadLetterAfterResult ==
  \A w \in Workers, j \in Jobs :
    <<j, "dead">> \in published[w] => <<j, "failed">> \in published[w] \cup lostResults[w]

(* Every worker answers every message of the topic in the end, unless the   *)
(* send of that answer failed or the worker ended.                          *)
EveryMessageAnswered ==
  \A w \in Workers, j \in Jobs :
    j \in ToSet(topic) ~>
      \/ \E r \in {"succeeded", "failed"} : <<j, r>> \in published[w] \cup lostResults[w]
      \/ ends[w] > 0
=============================================================================
