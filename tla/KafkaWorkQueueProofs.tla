------------------------ MODULE KafkaWorkQueueProofs ------------------------
(***************************************************************************)
(* Proofs about KafkaWorkQueue, for any sets of jobs and workers and any   *)
(* number of broken connections and ended processes: nothing disappears    *)
(* between the API and the broker, inside a worker, and on the way back.   *)
(***************************************************************************)
EXTENDS KafkaWorkQueue, SequenceTheorems, TLAPS

(* What the elements of a queue are after it grew or shrank. *)
LEMMA AppendSet ==
  ASSUME NEW S, NEW s \in Seq(S), NEW e \in S
  PROVE  /\ Append(s, e) \in Seq(S)
         /\ ToSet(Append(s, e)) = ToSet(s) \cup {e}
<1>1. /\ Append(s, e) \in Seq(S) /\ Len(Append(s, e)) = Len(s) + 1
      /\ \A i \in 1 .. Len(s) : Append(s, e)[i] = s[i]
      /\ Append(s, e)[Len(s) + 1] = e
  OBVIOUS
<1>2. Len(s) \in Nat /\ DOMAIN s = 1 .. Len(s) /\ DOMAIN Append(s, e) = 1 .. Len(s) + 1
  BY <1>1
<1> QED
  BY <1>1, <1>2 DEF ToSet

(* The first element and the others are the elements. *)
LEMMA HeadTailSet ==
  ASSUME NEW S, NEW s \in Seq(S), s # <<>>
  PROVE  /\ Head(s) \in S /\ Tail(s) \in Seq(S)
         /\ ToSet(s) = {Head(s)} \cup ToSet(Tail(s))
<1>1. /\ Head(s) \in S /\ Tail(s) \in Seq(S) /\ Len(Tail(s)) = Len(s) - 1
      /\ \A i \in 1 .. Len(Tail(s)) : Tail(s)[i] = s[i + 1]
      /\ Head(s) = s[1] /\ Len(s) \in Nat \ {0}
  BY HeadTailProperties, EmptySeq
<1>2. DOMAIN s = 1 .. Len(s) /\ DOMAIN Tail(s) = 1 .. Len(s) - 1
  BY <1>1
<1>3. ASSUME NEW i \in 1 .. Len(s) PROVE s[i] \in {Head(s)} \cup ToSet(Tail(s))
  <2>1. CASE i = 1
    BY <1>1, <2>1
  <2>2. CASE i # 1
    <3>1. i - 1 \in 1 .. Len(s) - 1 /\ Tail(s)[i - 1] = s[i]
      BY <1>1, <2>2
    <3> QED
      BY <1>2, <3>1 DEF ToSet
  <2> QED
    BY <2>1, <2>2
<1>4. ASSUME NEW i \in 1 .. Len(s) - 1 PROVE Tail(s)[i] \in ToSet(s)
  <2>1. i + 1 \in 1 .. Len(s) /\ Tail(s)[i] = s[i + 1]
    BY <1>1
  <2> QED
    BY <1>2, <2>1 DEF ToSet
<1>5. Head(s) \in ToSet(s)
  BY <1>1, <1>2 DEF ToSet
<1> QED
  BY <1>1, <1>2, <1>3, <1>4, <1>5 DEF ToSet

(* Two queues together hold the elements of both. *)
LEMMA ConcatSet ==
  ASSUME NEW S, NEW s \in Seq(S), NEW t \in Seq(S)
  PROVE  s \o t \in Seq(S) /\ ToSet(s \o t) = ToSet(s) \cup ToSet(t)
<1>1. /\ s \o t \in Seq(S) /\ Len(s \o t) = Len(s) + Len(t)
      /\ \A i \in 1 .. Len(s) + Len(t) :
           (s \o t)[i] = IF i <= Len(s) THEN s[i] ELSE t[i - Len(s)]
  BY ConcatProperties
<1>2. /\ Len(s) \in Nat /\ Len(t) \in Nat
      /\ DOMAIN s = 1 .. Len(s) /\ DOMAIN t = 1 .. Len(t)
      /\ DOMAIN (s \o t) = 1 .. Len(s) + Len(t)
  BY <1>1
<1>3. ASSUME NEW i \in 1 .. Len(s) + Len(t) PROVE (s \o t)[i] \in ToSet(s) \cup ToSet(t)
  BY <1>1, <1>2 DEF ToSet
<1>4. ASSUME NEW i \in 1 .. Len(s) PROVE s[i] \in ToSet(s \o t)
  <2>1. i \in 1 .. Len(s) + Len(t) /\ (s \o t)[i] = s[i]
    BY <1>1, <1>2
  <2> QED
    BY <1>2, <2>1 DEF ToSet
<1>5. ASSUME NEW i \in 1 .. Len(t) PROVE t[i] \in ToSet(s \o t)
  <2>1. i + Len(s) \in 1 .. Len(s) + Len(t) /\ (s \o t)[i + Len(s)] = t[i]
    BY <1>1, <1>2
  <2> QED
    BY <1>2, <2>1 DEF ToSet
<1> QED
  BY <1>1, <1>2, <1>3, <1>4, <1>5 DEF ToSet

-----------------------------------------------------------------------------
(* The inductive invariant.  A process works on an item exactly while it is *)
(* busy, and nothing is consumed beyond the end of the topic.               *)
AtWork == \A w \in Workers :
            IF pc[w] = "busy" THEN holds[w] \in Jobs ELSE holds[w] = NoItem

WithinTopic == \A w \in Workers : pos[w] <= Len(topic) /\ committed[w] <= Len(topic)

KInv == TypeOK /\ AtWork /\ WithinTopic

(* Nothing has been sent or fetched at the start. *)
LEMMA InitKInv == Init => KInv
BY DEF Init, KInv, TypeOK, AtWork, WithinTopic, Io, Envelopes

(* Every action keeps every variable in its type. *)
LEMMA TypeStep == KInv /\ [Next]_vars => TypeOK'
<1> SUFFICES ASSUME KInv, [Next]_vars PROVE TypeOK'
  OBVIOUS
<1> USE DEF KInv, TypeOK, Io, apiVars, workerVars, ioVars, queueVars, loopVars, historyVars
<1>1. CASE UNCHANGED vars
  BY <1>1 DEF vars
<1>2. ASSUME NEW j \in Jobs, SubmitEnsure(j) PROVE TypeOK'
  BY <1>2 DEF SubmitEnsure, Ensured
<1>3. ASSUME NEW j \in Jobs, SubmitEnqueue(j) PROVE TypeOK'
  <2>1. Append(submitQ, j) \in Seq(Jobs)
    BY AppendSet
  <2> QED
    BY <1>3, <2>1 DEF SubmitEnqueue
<1>4. CASE ApiConnect
  BY <1>4 DEF ApiConnect
<1>5. CASE ApiSend \/ ApiSendFails
  <2>1. submitQ # <<>> /\ Head(submitQ) \in Jobs
    BY <1>5, HeadTailSet DEF ApiSend, ApiSendFails
  <2>2. Tail(submitQ) \in Seq(Jobs) /\ Append(topic, Head(submitQ)) \in Seq(Jobs)
    BY <2>1, HeadTailSet, AppendSet
  <2> QED
    BY <1>5, <2>1, <2>2 DEF ApiSend, ApiSendFails
<1>6. CASE ApiEnds
  BY <1>6 DEF ApiEnds
<1>7. ASSUME NEW w \in Workers, Connect(w) \/ ConnectFails(w) \/ AutoCommit(w) PROVE TypeOK'
  <2>1. CASE Connect(w)
    BY <2>1 DEF Connect
  <2>2. CASE ConnectFails(w)
    BY <2>2 DEF ConnectFails
  <2>3. CASE AutoCommit(w)
    BY <2>3 DEF AutoCommit
  <2> QED
    BY <1>7, <2>1, <2>2, <2>3
<1>8. ASSUME NEW w \in Workers, Fetch(w) PROVE TypeOK'
  <2>1. topic[pos[w] + 1] \in Jobs
    BY <1>8, ElementOfSeq DEF Fetch
  <2>2. Append(pollQ[w], topic[pos[w] + 1]) \in Seq(Jobs)
    BY <2>1, AppendSet
  <2>3. pollQ' \in [Workers -> Seq(Jobs)] /\ pos' \in [Workers -> Nat]
    BY <1>8, <2>2 DEF Fetch
  <2> QED
    BY <1>8, <2>3 DEF Fetch
<1>9. ASSUME NEW w \in Workers, Publish(w) \/ PublishFails(w) PROVE TypeOK'
  <2>0. resultQ[w] \in Seq(Envelopes) /\ resultQ[w] # <<>>
    BY <1>9 DEF Publish, PublishFails
  <2>1. Head(resultQ[w]) \in Envelopes /\ Tail(resultQ[w]) \in Seq(Envelopes)
    BY <2>0, HeadTailSet
  <2>2. CASE Publish(w)
    BY <2>1, <2>2 DEF Publish
  <2>3. CASE PublishFails(w)
    <3>1. /\ published' \in [Workers -> SUBSET Envelopes]
          /\ committed' \in [Workers -> Nat]
      <4>1. \/ published' = published
            \/ published' = [published EXCEPT ![w] = published[w] \cup {Head(resultQ[w])}]
        BY <2>3 DEF PublishFails
      <4>2. \/ committed' = committed
            \/ committed' = [committed EXCEPT ![w] = pos[w]]
        BY <2>3 DEF PublishFails
      <4>3. committed \in [Workers -> Nat] /\ pos[w] \in Nat
        OBVIOUS
      <4>4. published \in [Workers -> SUBSET Envelopes]
        OBVIOUS
      <4>5. published[w] \cup {Head(resultQ[w])} \in SUBSET Envelopes
        BY <2>1, <4>4
      <4> HIDE DEF KInv, TypeOK
      <4>6. committed' \in [Workers -> Nat]
        BY <4>2, <4>3
      <4>7. published' \in [Workers -> SUBSET Envelopes]
        BY <4>1, <4>4, <4>5
      <4> QED
        BY <4>6, <4>7
    <3>2. /\ resultQ' = [resultQ EXCEPT ![w] = Tail(resultQ[w])] /\ io' = [io EXCEPT ![w] = "off"]
          /\ lostResults' = [lostResults EXCEPT ![w] = lostResults[w] \cup {Head(resultQ[w])}]
          /\ UNCHANGED <<apiVars, topic, pos, pollQ, loopVars, finished, ends>>
      BY <2>3 DEF PublishFails
    <3> QED
      BY <2>1, <3>1, <3>2
  <2> QED
    BY <1>9, <2>2, <2>3
<1>10. ASSUME NEW w \in Workers, EnterPoll(w) PROVE TypeOK'
  BY <1>10 DEF EnterPoll, Ensured
<1>11. ASSUME NEW w \in Workers, Poll(w) PROVE TypeOK'
  <2>1. pollQ[w] # <<>> => Head(pollQ[w]) \in Jobs /\ Tail(pollQ[w]) \in Seq(Jobs)
    BY HeadTailSet
  <2>2. CASE pollQ[w] = <<>>
    BY <1>11, <2>2 DEF Poll
  <2>3. CASE pollQ[w] # <<>>
    <3>1. /\ pc' = [pc EXCEPT ![w] = "busy"]
          /\ holds' = [holds EXCEPT ![w] = Head(pollQ[w])]
          /\ pollQ' = [pollQ EXCEPT ![w] = Tail(pollQ[w])]
          /\ UNCHANGED <<apiVars, topic, ioVars, resultQ, stop, historyVars>>
      BY <1>11, <2>3 DEF Poll
    <3> QED
      BY <2>1, <2>3, <3>1
  <2> QED
    BY <2>2, <2>3
<1>12. ASSUME NEW w \in Workers, Ack(w) \/ Nack(w) PROVE TypeOK'
  <2>1. holds[w] \in Jobs
    BY <1>12 DEF Ack, Nack, Answer, AtWork
  <2>2. /\ <<<<holds[w], "succeeded">>>> \in Seq(Envelopes)
        /\ <<<<holds[w], "failed">>, <<holds[w], "dead">>>> \in Seq(Envelopes)
    BY <2>1 DEF Envelopes, Results, DeadLetters
  <2>3. PICK q \in Seq(Envelopes) : Answer(w, q)
    BY <1>12, <2>2 DEF Ack, Nack
  <2>4. resultQ[w] \o q \in Seq(Envelopes)
    BY ConcatSet
  <2>5. io' \in [Workers -> Io]
    BY <2>3 DEF Answer, Ensured
  <2> QED
    BY <2>1, <2>3, <2>4, <2>5 DEF Answer
<1>13. ASSUME NEW w \in Workers, Signal(w) \/ LeaveLoop(w) \/ Crash(w) \/ Restart(w)
       PROVE  TypeOK'
  <2>1. CASE Signal(w)
    BY <2>1 DEF Signal
  <2>2. CASE LeaveLoop(w) \/ Crash(w)
    <3>1. Gone(w)
      BY <2>2 DEF LeaveLoop, Crash
    <3> QED
      BY <3>1 DEF Gone
  <2>3. CASE Restart(w)
    BY <2>3 DEF Restart
  <2> QED
    BY <1>13, <2>1, <2>2, <2>3
<1> QED
  BY <1>1, <1>2, <1>3, <1>4, <1>5, <1>6, <1>7, <1>8, <1>9, <1>10, <1>11, <1>12, <1>13
     DEF Next, IoStep, LoopStep

(* What the steps of the API process and of other workers leave alone.      *)
LEMMA ApiStepKeepsWorkers ==
  ASSUME \/ \E j \in Jobs : SubmitEnsure(j) \/ SubmitEnqueue(j)
         \/ ApiConnect \/ ApiSend \/ ApiSendFails \/ ApiEnds
  PROVE  UNCHANGED workerVars
BY DEF SubmitEnsure, SubmitEnqueue, ApiConnect, ApiSend, ApiSendFails, ApiEnds

(* ... and what the steps of the workers leave alone.                       *)
LEMMA WorkerStepKeepsApi ==
  ASSUME NEW w \in Workers, IoStep(w) \/ LoopStep(w) \/ Signal(w) \/ Crash(w) \/ Restart(w)
  PROVE  UNCHANGED <<apiVars, topic>>
BY DEF IoStep, LoopStep, Connect, ConnectFails, Fetch, AutoCommit, Publish, PublishFails,
       EnterPoll, Poll, Ack, Nack, Answer, LeaveLoop, Gone, Signal, Crash, Restart

(* Workers share nothing that they change. *)
LEMMA OthersUntouched ==
  ASSUME KInv, NEW v \in Workers, NEW w \in Workers, w # v,
         IoStep(w) \/ LoopStep(w) \/ Signal(w) \/ Crash(w) \/ Restart(w)
  PROVE  /\ UNCHANGED <<ends[v], pos[v], committed[v], finished[v], pollQ[v], holds[v]>>
         /\ UNCHANGED <<published[v], resultQ[v], lostResults[v]>>
<1> USE DEF ioVars, queueVars, loopVars, historyVars, KInv, TypeOK
<1>1. CASE Connect(w) \/ ConnectFails(w) \/ AutoCommit(w)
  BY <1>1 DEF Connect, ConnectFails, AutoCommit
<1>2. CASE Fetch(w)
  BY <1>2 DEF Fetch
<1>3. CASE Publish(w)
  BY <1>3 DEF Publish
<1>4. CASE PublishFails(w)
  BY <1>4 DEF PublishFails
<1>5. CASE EnterPoll(w) \/ Signal(w) \/ Restart(w)
  BY <1>5 DEF EnterPoll, Signal, Restart
<1>6. CASE Poll(w)
  BY <1>6 DEF Poll
<1>7. CASE Ack(w) \/ Nack(w)
  BY <1>7 DEF Ack, Nack, Answer
<1>8. CASE LeaveLoop(w) \/ Crash(w)
  BY <1>8 DEF LeaveLoop, Crash, Gone
<1> QED
  BY <1>1, <1>2, <1>3, <1>4, <1>5, <1>6, <1>7, <1>8 DEF IoStep, LoopStep

(* The topic only grows, and only the API process writes it.                *)
LEMMA TopicGrows ==
  ASSUME KInv, [Next]_vars
  PROVE  /\ Len(topic) <= Len(topic') /\ \A i \in 1 .. Len(topic) : topic'[i] = topic[i]
         /\ topic' # topic => UNCHANGED workerVars
<1> USE DEF KInv, TypeOK
<1>1. CASE topic' = topic
  BY <1>1
<1>2. CASE topic' # topic
  <2>1. ApiSend \/ ApiSendFails
    BY <1>2, WorkerStepKeepsApi
       DEF Next, vars, SubmitEnsure, SubmitEnqueue, ApiConnect, ApiEnds
  <2>2. submitQ # <<>> /\ topic' = Append(topic, Head(submitQ)) /\ UNCHANGED workerVars
    BY <1>2, <2>1 DEF ApiSend, ApiSendFails
  <2>3. Head(submitQ) \in Jobs
    BY <2>2, HeadTailSet
  <2> QED
    BY <2>2, <2>3
<1> QED
  BY <1>1, <1>2

(* ... and every action keeps the rest of the invariant.                    *)
LEMMA WorkStep == KInv /\ [Next]_vars => KInv'
<1> SUFFICES ASSUME KInv, [Next]_vars PROVE AtWork' /\ WithinTopic'
  BY TypeStep DEF KInv
<1>t. TypeOK'
  BY TypeStep
<1> USE DEF KInv, AtWork, WithinTopic
<1>1. CASE UNCHANGED workerVars
  <2>1. UNCHANGED <<pc, holds, pos, committed>>
    BY <1>1 DEF workerVars, ioVars, loopVars
  <2>2. Len(topic) \in Nat /\ Len(topic') \in Nat /\ Len(topic) <= Len(topic')
    BY <1>t, TopicGrows, LenProperties DEF TypeOK
  <2>3. \A w \in Workers : pos[w] \in Nat /\ committed[w] \in Nat
    BY DEF TypeOK
  <2> QED
    BY <2>1, <2>2, <2>3
<1>2. ASSUME NEW w \in Workers, IoStep(w) PROVE AtWork' /\ WithinTopic'
  <2>1. AtWork'
    BY <1>2 DEF IoStep, Connect, ConnectFails, Fetch, AutoCommit, Publish, PublishFails, loopVars
  <2>2. topic' = topic
    BY <1>2, WorkerStepKeepsApi
  <2>3. \A v \in Workers : /\ pos'[v] \in {pos[v], committed[v]} \/ pos'[v] <= Len(topic)
                           /\ committed'[v] \in {pos[v], committed[v]}
    BY <1>2 DEF IoStep, Connect, ConnectFails, Fetch, AutoCommit, Publish, PublishFails, ioVars, TypeOK
  <2> QED
    BY <2>1, <2>2, <2>3
<1>3. ASSUME NEW w \in Workers, LoopStep(w) \/ Signal(w) \/ Crash(w) \/ Restart(w)
      PROVE AtWork' /\ WithinTopic'
  <2> USE <1>3 DEF LoopStep, EnterPoll, Poll, Ack, Nack, Answer, LeaveLoop, Gone, Signal, Crash, Restart
  <2>1. UNCHANGED <<topic, pos, committed>>
    BY DEF ioVars
  <2>2. pc[w] = "polling" /\ pollQ[w] # <<>> => Head(pollQ[w]) \in Jobs
    BY HeadTailSet DEF TypeOK
  <2>3. AtWork'
    <3> USE DEF TypeOK
    <3>1. CASE EnterPoll(w) \/ LeaveLoop(w) \/ Signal(w) \/ Crash(w) \/ Restart(w)
      BY <3>1
    <3>2. CASE Poll(w)
      BY <2>2, <3>2
    <3>3. CASE Ack(w) \/ Nack(w)
      BY <3>3
    <3> QED
      BY <3>1, <3>2, <3>3
  <2> QED
    BY <2>1, <2>3
<1> QED
  BY <1>1, <1>2, <1>3, ApiStepKeepsWorkers DEF Next, vars

(* The inductive invariant holds in every reachable state. *)
THEOREM KafkaInvariant == SafetySpec => []KInv
BY InitKInv, WorkStep, PTL DEF SafetySpec

-----------------------------------------------------------------------------
(* On the way from the API to the broker. *)
LEMMA AcceptedStep == KInv /\ AcceptedIsKept /\ [Next]_vars => AcceptedIsKept'
<1> SUFFICES ASSUME KInv, AcceptedIsKept, [Next]_vars PROVE AcceptedIsKept'
  OBVIOUS
<1> USE DEF KInv, TypeOK, AcceptedIsKept
<1>1. CASE UNCHANGED <<apiVars, topic>>
  BY <1>1 DEF apiVars
<1>2. ASSUME NEW j \in Jobs, SubmitEnsure(j) PROVE AcceptedIsKept'
  BY <1>2 DEF SubmitEnsure
<1>3. ASSUME NEW j \in Jobs, SubmitEnqueue(j) PROVE AcceptedIsKept'
  <2>1. ToSet(Append(submitQ, j)) = ToSet(submitQ) \cup {j}
    BY AppendSet
  <2> QED
    BY <1>3, <2>1 DEF SubmitEnqueue
<1>4. CASE ApiConnect
  BY <1>4 DEF ApiConnect
<1>5. CASE ApiSend \/ ApiSendFails
  <2>1. /\ ToSet(submitQ) = {Head(submitQ)} \cup ToSet(Tail(submitQ))
        /\ ToSet(Append(topic, Head(submitQ))) = ToSet(topic) \cup {Head(submitQ)}
    BY <1>5, HeadTailSet, AppendSet DEF ApiSend, ApiSendFails
  <2> QED
    BY <1>5, <2>1 DEF ApiSend, ApiSendFails
<1>6. CASE ApiEnds
  BY <1>6 DEF ApiEnds
<1> QED
  BY <1>1, <1>2, <1>3, <1>4, <1>5, <1>6, WorkerStepKeepsApi DEF Next, vars

(* In a worker: what is fetched goes through the poll queue and the hands of *)
(* the main thread to the finished items, in any number of connections.     *)
LEMMA SkippedStep == KInv /\ NothingSkipped /\ [Next]_vars => NothingSkipped'
<1> SUFFICES ASSUME KInv, NothingSkipped, [Next]_vars, NEW v \in Workers, ends'[v] = 0,
                    NEW i \in 1 .. Len(topic'), i <= pos'[v] \/ i <= committed'[v]
             PROVE  topic'[i] \in finished'[v] \cup ToSet(pollQ'[v]) \cup {holds'[v]}
  BY DEF NothingSkipped
<1> DEFINE Mine == <<ends[v], pos[v], committed[v], finished[v], pollQ[v], holds[v]>>
<1>a. /\ Len(topic) \in Nat /\ pos[v] \in Nat /\ committed[v] \in Nat /\ ends[v] \in Nat
      /\ pos[v] <= Len(topic) /\ committed[v] <= Len(topic)
      /\ pollQ[v] \in Seq(Jobs) /\ topic \in Seq(Jobs)
  BY DEF KInv, TypeOK, WithinTopic
<1>b. ASSUME ends[v] = 0, NEW k \in 1 .. Len(topic), k <= pos[v] \/ k <= committed[v]
      PROVE  topic[k] \in finished[v] \cup ToSet(pollQ[v]) \cup {holds[v]}
  BY <1>b DEF NothingSkipped
<1>1. CASE UNCHANGED Mine
  <2>1. i \in 1 .. Len(topic) /\ topic'[i] = topic[i]
    BY <1>1, <1>a, TopicGrows
  <2> QED
    BY <1>1, <1>b, <2>1
<1>2. CASE UNCHANGED topic /\ UNCHANGED <<ends, finished, pollQ, holds>>
           /\ pos'[v] \in {pos[v], committed[v]} /\ committed'[v] \in {pos[v], committed[v]}
  BY <1>2, <1>b
<1>3. CASE Fetch(v)
  <2>1. /\ topic[pos[v] + 1] \in Jobs /\ pollQ'[v] = Append(pollQ[v], topic[pos[v] + 1])
        /\ UNCHANGED <<topic, ends, finished, holds, committed>> /\ pos'[v] = pos[v] + 1
    BY <1>3, <1>a, ElementOfSeq DEF Fetch, loopVars, historyVars, KInv, TypeOK
  <2>2. ToSet(pollQ'[v]) = ToSet(pollQ[v]) \cup {topic[pos[v] + 1]}
    BY <1>a, <2>1, AppendSet
  <2>3. i = pos[v] + 1 \/ i <= pos[v] \/ i <= committed[v]
    BY <1>a, <2>1
  <2> QED
    BY <1>b, <2>1, <2>2, <2>3
<1>4. CASE Poll(v)
  <2>1. UNCHANGED <<topic, ends, finished, pos, committed>> /\ holds[v] = NoItem
    BY <1>4 DEF Poll, ioVars, historyVars, KInv, AtWork
  <2>2. topic[i] # holds[v]
    BY <1>a, <2>1, ElementOfSeq, KafkaConstants
  <2>3. ToSet(pollQ[v]) \subseteq ToSet(pollQ'[v]) \cup {holds'[v]}
    <3>1. CASE pollQ[v] = <<>>
      BY <1>4, <3>1 DEF Poll
    <3>2. CASE pollQ[v] # <<>>
      <4>1. ToSet(pollQ[v]) = {Head(pollQ[v])} \cup ToSet(Tail(pollQ[v]))
        BY <1>a, <3>2, HeadTailSet
      <4>2. holds'[v] = Head(pollQ[v]) /\ pollQ'[v] = Tail(pollQ[v])
        BY <1>4, <3>2 DEF Poll, KInv, TypeOK
      <4> QED
        BY <4>1, <4>2
    <3> QED
      BY <3>1, <3>2
  <2> QED
    BY <1>b, <2>1, <2>2, <2>3
<1>5. CASE Ack(v) \/ Nack(v)
  <2>1. /\ UNCHANGED <<topic, ends, pos, committed, pollQ>>
        /\ finished'[v] = finished[v] \cup {holds[v]}
    BY <1>5 DEF Ack, Nack, Answer, KInv, TypeOK
  <2> QED
    BY <1>b, <2>1
<1>6. ~ Gone(v)
  BY <1>a DEF Gone, KInv, TypeOK
<1>7. ASSUME NEW w \in Workers, w # v,
             IoStep(w) \/ LoopStep(w) \/ Signal(w) \/ Crash(w) \/ Restart(w)
      PROVE  UNCHANGED Mine
  BY <1>7, OthersUntouched
<1>8. CASE Connect(v) \/ ConnectFails(v) \/ AutoCommit(v) \/ Publish(v) \/ PublishFails(v)
  <2>1. /\ UNCHANGED <<topic, ends, finished, pollQ, holds>>
        /\ pos'[v] \in {pos[v], committed[v]} /\ committed'[v] \in {pos[v], committed[v]}
    BY <1>8 DEF Connect, ConnectFails, AutoCommit, Publish, PublishFails,
                ioVars, queueVars, loopVars, historyVars, KInv, TypeOK
  <2> QED
    BY <1>2, <2>1
<1>9. CASE EnterPoll(v) \/ Signal(v) \/ Restart(v)
  BY <1>1, <1>9 DEF EnterPoll, Signal, Restart, ioVars, queueVars, historyVars
<1>10. CASE UNCHANGED workerVars
  BY <1>1, <1>10 DEF workerVars, ioVars, queueVars, loopVars, historyVars
<1> QED
  BY <1>1, <1>3, <1>4, <1>5, <1>6, <1>7, <1>8, <1>9, <1>10, ApiStepKeepsWorkers
     DEF Next, vars, IoStep, LoopStep, LeaveLoop, Crash

(* On the way back: a result leaves the queue when it is sent or its send   *)
(* fails.                                                                   *)
LEMMA ResultStep == KInv /\ NoResultLost /\ [Next]_vars => NoResultLost'
<1> SUFFICES ASSUME KInv, NoResultLost, [Next]_vars, NEW v \in Workers, ends'[v] = 0,
                    NEW j \in finished'[v]
             PROVE  \E r \in {"succeeded", "failed"} :
                      <<j, r>> \in published'[v] \cup ToSet(resultQ'[v]) \cup lostResults'[v]
  BY DEF NoResultLost
<1> DEFINE Mine == <<ends[v], finished[v], published[v], resultQ[v], lostResults[v]>>
<1>a. ends[v] \in Nat /\ resultQ[v] \in Seq(Envelopes)
  BY DEF KInv, TypeOK
<1>b. ASSUME ends[v] = 0, NEW i \in finished[v]
      PROVE  \E r \in {"succeeded", "failed"} :
               <<i, r>> \in published[v] \cup ToSet(resultQ[v]) \cup lostResults[v]
  BY <1>b DEF NoResultLost
<1>1. CASE UNCHANGED Mine
  BY <1>1, <1>b
<1>2. CASE Publish(v) \/ PublishFails(v)
  <2>1. ToSet(resultQ[v]) = {Head(resultQ[v])} \cup ToSet(Tail(resultQ[v]))
    BY <1>2, <1>a, HeadTailSet DEF Publish, PublishFails
  <2>2. /\ UNCHANGED <<ends, finished>> /\ resultQ'[v] = Tail(resultQ[v])
        /\ published[v] \subseteq published'[v] /\ lostResults[v] \subseteq lostResults'[v]
        /\ Head(resultQ[v]) \in published'[v] \cup lostResults'[v]
    BY <1>2 DEF Publish, PublishFails, KInv, TypeOK
  <2> QED
    BY <1>b, <2>1, <2>2
<1>3. CASE Ack(v) \/ Nack(v)
  <2>1. holds[v] \in Jobs
    BY <1>3 DEF Ack, Nack, Answer, KInv, AtWork
  <2>2. PICK q \in Seq(Envelopes) :
          /\ resultQ'[v] = resultQ[v] \o q
          /\ \E r \in {"succeeded", "failed"} : <<holds[v], r>> \in ToSet(q)
    <3>1. CASE Ack(v)
      <4> DEFINE q == <<<<holds[v], "succeeded">>>>
      <4>1. q \in Seq(Envelopes) /\ resultQ'[v] = resultQ[v] \o q
        BY <2>1, <3>1 DEF Ack, Answer, Envelopes, Results, KInv, TypeOK
      <4>2. <<holds[v], "succeeded">> \in ToSet(q)
        BY DEF ToSet
      <4> QED
        BY <4>1, <4>2
    <3>2. CASE Nack(v)
      <4> DEFINE q == <<<<holds[v], "failed">>, <<holds[v], "dead">>>>
      <4>1. q \in Seq(Envelopes) /\ resultQ'[v] = resultQ[v] \o q
        BY <2>1, <3>2 DEF Nack, Answer, Envelopes, Results, DeadLetters, KInv, TypeOK
      <4>2. <<holds[v], "failed">> \in ToSet(q)
        BY DEF ToSet
      <4> QED
        BY <4>1, <4>2
    <3> QED
      BY <1>3, <3>1, <3>2
  <2>3. ToSet(resultQ'[v]) = ToSet(resultQ[v]) \cup ToSet(q)
    BY <1>a, <2>2, ConcatSet
  <2>4. UNCHANGED <<ends, published, lostResults>> /\ finished'[v] = finished[v] \cup {holds[v]}
    BY <1>3 DEF Ack, Nack, Answer, KInv, TypeOK
  <2> QED
    BY <1>b, <2>2, <2>3, <2>4
<1>4. ~ Gone(v)
  BY <1>a DEF Gone, KInv, TypeOK
<1>5. ASSUME NEW w \in Workers, w # v,
             IoStep(w) \/ LoopStep(w) \/ Signal(w) \/ Crash(w) \/ Restart(w)
      PROVE  UNCHANGED Mine
  BY <1>5, OthersUntouched
<1>6. CASE \/ Connect(v) \/ ConnectFails(v) \/ Fetch(v) \/ AutoCommit(v)
           \/ EnterPoll(v) \/ Poll(v) \/ Signal(v) \/ Restart(v)
  BY <1>1, <1>6 DEF Connect, ConnectFails, Fetch, AutoCommit, EnterPoll, Poll, Signal, Restart,
                    queueVars, historyVars
<1>7. CASE UNCHANGED workerVars
  BY <1>1, <1>7 DEF workerVars, queueVars, historyVars
<1> QED
  BY <1>1, <1>2, <1>3, <1>4, <1>5, <1>6, <1>7, ApiStepKeepsWorkers
     DEF Next, vars, IoStep, LoopStep, LeaveLoop, Crash

(* No submission, message or result disappears silently.                    *)
THEOREM KafkaLosesNothing == SafetySpec => []NothingLost
<1>1. Init => AcceptedIsKept /\ NothingSkipped /\ NoResultLost
  BY DEF Init, AcceptedIsKept, NothingSkipped, NoResultLost
<1>2. KInv /\ AcceptedIsKept /\ NothingSkipped /\ NoResultLost => NothingLost
  BY DEF KInv, NothingLost
<1> QED
  BY <1>1, <1>2, AcceptedStep, SkippedStep, ResultStep, KafkaInvariant, PTL DEF SafetySpec

-----------------------------------------------------------------------------
(* The two envelopes of a nack stay in their order.                         *)
DeadBehindFailed ==
  \A w \in Workers : \A j \in Jobs, i \in 1 .. Len(resultQ[w]) :
    resultQ[w][i] = <<j, "dead">> =>
      \/ <<j, "failed">> \in published[w] \cup lostResults[w]
      \/ \E k \in 1 .. i - 1 : resultQ[w][k] = <<j, "failed">>

(* A dead letter leaves the queue after its failed result: published, or     *)
(* lost in a failed send.                                                   *)
LEMMA DeadStep ==
  KInv /\ DeadBehindFailed /\ DeadLetterAfterResult /\ [Next]_vars
    => DeadBehindFailed' /\ DeadLetterAfterResult'
<1> SUFFICES ASSUME KInv, DeadBehindFailed, DeadLetterAfterResult, [Next]_vars,
                    NEW v \in Workers, NEW j \in Jobs
             PROVE  /\ \A i \in 1 .. Len(resultQ'[v]) :
                         resultQ'[v][i] = <<j, "dead">> =>
                           \/ <<j, "failed">> \in published'[v] \cup lostResults'[v]
                           \/ \E k \in 1 .. i - 1 : resultQ'[v][k] = <<j, "failed">>
                    /\ <<j, "dead">> \in published'[v] =>
                         <<j, "failed">> \in published'[v] \cup lostResults'[v]
  BY DEF DeadBehindFailed, DeadLetterAfterResult
<1> DEFINE Mine == <<published[v], resultQ[v], lostResults[v]>>
           q == resultQ[v]
           Out == published[v] \cup lostResults[v]
<1>a. /\ q \in Seq(Envelopes) /\ Len(q) \in Nat
      /\ \A i \in 1 .. Len(q) : q[i] = <<j, "dead">> =>
           <<j, "failed">> \in Out \/ \E k \in 1 .. i - 1 : q[k] = <<j, "failed">>
      /\ <<j, "dead">> \in published[v] => <<j, "failed">> \in Out
  BY LenProperties DEF KInv, TypeOK, DeadBehindFailed, DeadLetterAfterResult
<1>1. CASE UNCHANGED Mine
  BY <1>1, <1>a
<1>2. CASE Publish(v) \/ PublishFails(v)
  <2>1. /\ q # <<>> /\ resultQ'[v] = Tail(q)
        /\ published[v] \subseteq published'[v] /\ lostResults[v] \subseteq lostResults'[v]
        /\ published'[v] \subseteq published[v] \cup {Head(q)}
        /\ Head(q) \in published'[v] \cup lostResults'[v]
    BY <1>2 DEF Publish, PublishFails, KInv, TypeOK
  <2>2. /\ Len(Tail(q)) = Len(q) - 1 /\ Head(q) = q[1] /\ Len(q) >= 1
        /\ \A i \in 1 .. Len(q) - 1 : Tail(q)[i] = q[i + 1]
    BY <1>a, <2>1, HeadTailProperties, EmptySeq
  <2>3. ASSUME NEW i \in 1 .. Len(q) - 1, Tail(q)[i] = <<j, "dead">>
        PROVE  \/ <<j, "failed">> \in published'[v] \cup lostResults'[v]
               \/ \E k \in 1 .. i - 1 : Tail(q)[k] = <<j, "failed">>
    <3>1. i + 1 \in 1 .. Len(q) /\ q[i + 1] = <<j, "dead">>
      BY <1>a, <2>2, <2>3
    <3>2. CASE <<j, "failed">> \in Out
      BY <2>1, <3>2
    <3>3. ASSUME NEW k \in 1 .. i, q[k] = <<j, "failed">>
          PROVE  \/ <<j, "failed">> \in published'[v] \cup lostResults'[v]
                 \/ \E m \in 1 .. i - 1 : Tail(q)[m] = <<j, "failed">>
      <4>1. CASE k = 1
        BY <2>1, <2>2, <3>3, <4>1
      <4>2. CASE k # 1
        <5>1. k - 1 \in 1 .. i - 1 /\ k - 1 \in 1 .. Len(q) - 1 /\ Tail(q)[k - 1] = q[k]
          BY <1>a, <2>2, <4>2
        <5> QED
          BY <3>3, <5>1
      <4> QED
        BY <4>1, <4>2
    <3> QED
      <4>1. <<j, "failed">> \in Out \/ \E k \in 1 .. (i + 1) - 1 : q[k] = <<j, "failed">>
        BY <1>a, <3>1
      <4>2. (i + 1) - 1 = i
        OBVIOUS
      <4> QED
        BY <3>2, <3>3, <4>1, <4>2
  <2>4. ASSUME <<j, "dead">> \in published'[v]
        PROVE  <<j, "failed">> \in published'[v] \cup lostResults'[v]
    <3>1. CASE <<j, "dead">> \in published[v]
      BY <1>a, <2>1, <3>1
    <3>2. CASE q[1] = <<j, "dead">>
      BY <1>a, <2>1, <2>2, <3>2
    <3> QED
      BY <2>1, <2>2, <2>4, <3>1, <3>2
  <2> QED
    BY <2>1, <2>2, <2>3, <2>4
<1>3. CASE Ack(v) \/ Nack(v)
  <2> DEFINE n == Len(q)
             new == resultQ'[v]
  <2>1. /\ UNCHANGED <<published, lostResults>>
        /\ \/ /\ Len(new) = n + 1 /\ new[n + 1] = <<holds[v], "succeeded">>
           \/ /\ Len(new) = n + 2 /\ new[n + 1] = <<holds[v], "failed">>
              /\ new[n + 2] = <<holds[v], "dead">>
        /\ \A i \in 1 .. n : new[i] = q[i]
    <3>1. holds[v] \in Jobs
      BY <1>3 DEF Ack, Nack, Answer, KInv, AtWork
    <3>2. CASE Ack(v)
      <4> DEFINE t == <<<<holds[v], "succeeded">>>>
      <4>1. t \in Seq(Envelopes) /\ Len(t) = 1 /\ t[1] = <<holds[v], "succeeded">>
        BY <3>1 DEF Envelopes, Results
      <4>2. new = q \o t /\ UNCHANGED <<published, lostResults>>
        BY <3>2 DEF Ack, Answer, KInv, TypeOK
      <4> HIDE DEF t
      <4>3. /\ Len(new) = n + Len(t)
            /\ \A i \in 1 .. n + Len(t) : new[i] = IF i <= n THEN q[i] ELSE t[i - n]
        <5>1. q \in Seq(Envelopes)
          BY <1>a
        <5>2. /\ Len(q \o t) = Len(q) + Len(t)
              /\ \A i \in 1 .. Len(q) + Len(t) : (q \o t)[i] = IF i <= Len(q) THEN q[i] ELSE t[i - Len(q)]
          BY <4>1, <5>1, ConcatProperties
        <5> QED
          BY <4>2, <5>2
      <4>4. Len(new) = n + 1 /\ \A i \in 1 .. n + 1 : new[i] = IF i <= n THEN q[i] ELSE t[i - n]
        BY <4>1, <4>3
      <4> QED
        BY <1>a, <4>1, <4>2, <4>4
    <3>3. CASE Nack(v)
      <4> DEFINE t == <<<<holds[v], "failed">>, <<holds[v], "dead">>>>
      <4>1. t \in Seq(Envelopes) /\ Len(t) = 2
            /\ t[1] = <<holds[v], "failed">> /\ t[2] = <<holds[v], "dead">>
        BY <3>1 DEF Envelopes, Results, DeadLetters
      <4>2. new = q \o t /\ UNCHANGED <<published, lostResults>>
        BY <3>3 DEF Nack, Answer, KInv, TypeOK
      <4> HIDE DEF t
      <4>3. /\ Len(new) = n + Len(t)
            /\ \A i \in 1 .. n + Len(t) : new[i] = IF i <= n THEN q[i] ELSE t[i - n]
        <5>1. q \in Seq(Envelopes)
          BY <1>a
        <5>2. /\ Len(q \o t) = Len(q) + Len(t)
              /\ \A i \in 1 .. Len(q) + Len(t) : (q \o t)[i] = IF i <= Len(q) THEN q[i] ELSE t[i - Len(q)]
          BY <4>1, <5>1, ConcatProperties
        <5> QED
          BY <4>2, <5>2
      <4>4. Len(new) = n + 2 /\ \A i \in 1 .. n + 2 : new[i] = IF i <= n THEN q[i] ELSE t[i - n]
        BY <4>1, <4>3
      <4>5. /\ n + 1 \in 1 .. n + 2 /\ n + 2 \in 1 .. n + 2 /\ ~(n + 1 <= n) /\ ~(n + 2 <= n)
            /\ (n + 1) - n = 1 /\ (n + 2) - n = 2
        BY <1>a
      <4>6. new[n + 1] = t[1] /\ new[n + 2] = t[2]
        BY <4>4, <4>5
      <4>7. \A i \in 1 .. n : new[i] = q[i]
        BY <1>a, <4>4
      <4> QED
        BY <4>1, <4>2, <4>4, <4>6, <4>7
    <3> QED
      BY <1>3, <3>2, <3>3
  <2>2. ASSUME NEW i \in 1 .. Len(new), new[i] = <<j, "dead">>
        PROVE  <<j, "failed">> \in Out \/ \E k \in 1 .. i - 1 : new[k] = <<j, "failed">>
    <3>1. CASE i <= n
      <4>1. \A k \in 1 .. i : k \in 1 .. n /\ new[k] = q[k]
        BY <1>a, <2>1, <3>1
      <4>2. i \in 1 .. n /\ q[i] = <<j, "dead">> /\ \A k \in 1 .. i - 1 : new[k] = q[k]
        BY <1>a, <2>2, <3>1, <4>1
      <4> QED
        BY <1>a, <4>2
    <3>2. CASE i > n
      <4>1. i = n + 2 /\ new[n + 1] = <<j, "failed">> /\ n + 1 \in 1 .. i - 1
        BY <1>a, <2>1, <2>2, <3>2
      <4> QED
        BY <4>1
    <3> QED
      BY <1>a, <2>1, <3>1, <3>2
  <2> QED
    BY <1>a, <2>1, <2>2
<1>4. CASE Gone(v)
  BY <1>4, <1>a DEF Gone, KInv, TypeOK
<1>5. ASSUME NEW w \in Workers, w # v,
             IoStep(w) \/ LoopStep(w) \/ Signal(w) \/ Crash(w) \/ Restart(w)
      PROVE  UNCHANGED Mine
  BY <1>5, OthersUntouched
<1>6. CASE \/ Connect(v) \/ ConnectFails(v) \/ Fetch(v) \/ AutoCommit(v)
           \/ EnterPoll(v) \/ Poll(v) \/ Signal(v) \/ Restart(v)
  BY <1>1, <1>6 DEF Connect, ConnectFails, Fetch, AutoCommit, EnterPoll, Poll, Signal, Restart,
                    queueVars, historyVars
<1>7. CASE UNCHANGED workerVars
  BY <1>1, <1>7 DEF workerVars, queueVars, historyVars
<1> QED
  BY <1>1, <1>2, <1>3, <1>4, <1>5, <1>6, <1>7, ApiStepKeepsWorkers
     DEF Next, vars, IoStep, LoopStep, LeaveLoop, Crash

(* No dead letter without its failed result.                                *)
THEOREM DeadLettersFollow == SafetySpec => []DeadLetterAfterResult
<1>1. Init => DeadBehindFailed /\ DeadLetterAfterResult
  BY DEF Init, DeadBehindFailed, DeadLetterAfterResult
<1> QED
  BY <1>1, DeadStep, KafkaInvariant, PTL DEF SafetySpec
=============================================================================
