-------------------------- MODULE EnrichmentProofs --------------------------
(***************************************************************************)
(* Proofs about the Kafka request-reply, for every number of workers, reply *)
(* groups, HTTP requests, correlation ids and faults: _pending holds the   *)
(* requests in flight, a future only ever holds the reply to its own       *)
(* request, a record is answered once plus once per fault that repeats     *)
(* something, the group passes no request that nobody took, and a worker   *)
(* alone in its reply group misses no reply.                               *)
(***************************************************************************)
EXTENDS Enrichment, TLAPS, FiniteSetTheorems

\* Every initial state satisfies the invariant.
LEMMA InitInv == Init => Inductive
<1> SUFFICES ASSUME Init PROVE Inductive
  OBVIOUS
<1>1. TypeOK
  <2>1. WorkersOK /\ ClientsOK
    BY DEF Init, WorkersOK, ClientsOK, Open
  <2>2. RepliesOK
    BY DEF Init, RepliesOK, Groups
  <2>3. HandlersOK /\ CountsOK
    BY FaultsAssumption DEF Init, HandlersOK, CountsOK
  <2> QED
    BY <2>1, <2>2, <2>3 DEF TypeOK
<1>2. RequestsApart /\ PendingExact
  BY DEF Init, RequestsApart, PendingExact, OpenAt, Open
<1>3. MessagesInv
  <2>1. ASSUME NEW id \in Ids
        PROVE  Cardinality(Records(id)) <= 1 + again
    <3>1. Records(id) = {} /\ again = 0
      BY DEF Init, Records
    <3> QED
      BY <3>1, FS_EmptySet
  <2> QED
    BY <2>1 DEF Init, MessagesInv, Published
<1>4. FuturesInv /\ OwnGroupSeesEveryReply
  BY DEF Init, FuturesInv, OwnGroupSeesEveryReply, Open
<1>5. CopiesInv
  <2>1. ASSUME NEW k \in 1 .. Len(requests) + 1
        PROVE  /\ Replied(k) = {} /\ Handlers(k) = {} /\ Readers(k) = {}
               /\ again = 0
    BY DEF Init, Replied, Handlers, Readers
  <2>2. ASSUME NEW k \in 1 .. Len(requests) + 1
        PROVE  /\ IsFiniteSet(Handlers(k)) /\ IsFiniteSet(Readers(k))
               /\ Cardinality(Replied(k)) = 0 /\ Cardinality(Handlers(k)) = 0
               /\ Cardinality(Readers(k)) = 0 /\ again = 0
    BY <2>1, FS_EmptySet
  <2> QED
    BY <2>2 DEF CopiesInv
<1>6. NothingSkipped
  <2>1. committed = 1 /\ owner = None
    BY DEF Init
  <2>2. 1 .. committed - 1 = {}
    BY <2>1
  <2> QED
    BY <2>1, <2>2, Zenon DEF NothingSkipped
<1> QED
  BY <1>1, <1>2, <1>3, <1>4, <1>5, <1>6 DEF Inductive
-----------------------------------------------------------------------------
(***************************************************************************)
(* Steps by what they leave alone.                                         *)
(***************************************************************************)

\* The steps of worker w that neither begin nor end a request.
WorkerStep(w) ==
  \/ StartProducer(w) \/ StartRequestConsumer(w) \/ StartReplyConsumer(w)
  \/ LocateReplies(w) \/ LeaveUnread(w) \/ StopKafka(w)
  \/ Assign(w) \/ Rebalance(w) \/ Evict(w) \/ Notice(w)
  \/ TakeRequest(w) \/ HandleRequest(w) \/ ConsumeReply(w)

\* The faults of the reply topic.
ReplyFault ==
  \/ \E g \in Groups : LoseReplies(g)
  \/ \E j \in DOMAIN replies : RepeatReply(j)

\* Every step is one of these.
LEMMA Steps ==
  ASSUME Next
  PROVE  \/ \E w \in Workers : WorkerStep(w) \/ Crash(w)
         \/ \E r \in Requests, w \in Workers : Refused(r, w)
         \/ \E r \in Requests, w \in Workers, k \in Ids : EnrichCustomer(r, w, k)
         \/ \E r \in Requests : Publish(r) \/ RepeatPublish(r) \/ Sent(r)
         \/ \E r \in Requests : SendFails(r) \/ Timeout(r) \/ Resume(r)
         \/ ReplyFault
BY Zenon DEF Next, WorkerStep, RequestStep, ReplyFault

\* A worker that ends or loses the partition.
LEMMA Leaving ==
  ASSUME HandlersOK, NEW w \in Workers, GiveUp(w)
  PROVE  /\ owner = w /\ owner' = None /\ committed' \in 1 .. Len(requests) + 1
         /\ committed <= committed' /\ committed' <= reads[w]
BY DEF HandlersOK, GiveUp

\* The ends of a worker that a fault has ended.
LEMMA Ending ==
  ASSUME HandlersOK, NEW w \in Workers, LeaveGroup(w)
  PROVE  \/ /\ owner # w /\ owner' = owner /\ committed' = committed
            /\ Harmless
         \/ /\ GiveUp(w)
            /\ \/ committed' = reads[w] /\ Harmless
               \/ Repeating
BY DEF LeaveGroup
-----------------------------------------------------------------------------
(***************************************************************************)
(* Types.                                                                  *)
(***************************************************************************)

\* Every step keeps the phases of the workers and the service they have.
LEMMA WorkersStep == WorkersOK /\ Next => WorkersOK'
<1> SUFFICES ASSUME WorkersOK, Next PROVE WorkersOK'
  OBVIOUS
<1> DEFINE Phases == {"off", "producer", "consumers", "up", "half", "broken"}
\* One worker changes its phase, and perhaps its service.
<1>1. ASSUME NEW w \in Workers, NEW p \in Phases, NEW s \in BOOLEAN,
             phase' = [phase EXCEPT ![w] = p],
             service' = [service EXCEPT ![w] = s],
             p \notin {"off", "broken"} => s, p = "off" => ~s
      PROVE  WorkersOK'
  <2>1. phase' \in [Workers -> Phases] /\ service' \in [Workers -> BOOLEAN]
    BY <1>1 DEF WorkersOK
  <2>2. ASSUME NEW v \in Workers
        PROVE  /\ phase'[v] \notin {"off", "broken"} => service'[v]
               /\ phase'[v] = "off" => ~service'[v]
    <3>1. CASE v = w
      BY <1>1, <3>1, Zenon DEF WorkersOK
    <3>2. CASE v # w
      <4>1. phase'[v] = phase[v] /\ service'[v] = service[v]
        BY <1>1, <3>2, Zenon DEF WorkersOK
      <4> QED
        BY <4>1, Zenon DEF WorkersOK
    <3> QED
      BY <3>1, <3>2
  <2> QED
    BY <2>1, <2>2 DEF WorkersOK
<1>2. ASSUME NEW w \in Workers, NEW p \in Phases \ {"off"},
             phase' = [phase EXCEPT ![w] = p], service' = service,
             p # "broken" => service[w]
      PROVE  WorkersOK'
  <2>1. service' = [service EXCEPT ![w] = service[w]] /\ service[w] \in BOOLEAN
    BY <1>2, Zenon DEF WorkersOK
  <2>2. p \in Phases /\ p # "off"
    OBVIOUS
  <2> QED
    BY <1>1, <1>2, <2>1, <2>2
<1>3. ASSUME phase' = phase, service' = service
      PROVE  WorkersOK'
  BY <1>3, Zenon DEF WorkersOK
<1>4. ASSUME NEW w \in Workers, StartProducer(w)
      PROVE  WorkersOK'
  <2>1. CASE Advance(w, "producer") /\ service' = [service EXCEPT ![w] = TRUE]
    BY <2>1, <1>1 DEF Advance
  <2>2. CASE Advance(w, "broken") /\ service' = service
    BY <2>2, <1>2 DEF Advance
  <2> QED
    BY <1>4, <2>1, <2>2 DEF StartProducer
<1>5. ASSUME NEW w \in Workers,
             StartRequestConsumer(w) \/ StartReplyConsumer(w) \/ LeaveUnread(w)
      PROVE  WorkersOK'
  <2>1. /\ service' = service
        /\ \E p \in Phases \ {"off"} : phase' = [phase EXCEPT ![w] = p]
    BY <1>5 DEF StartRequestConsumer, StartReplyConsumer, LeaveUnread, Advance
  <2>2. phase[w] \notin {"off", "broken"}
    BY <1>5 DEF StartRequestConsumer, StartReplyConsumer, LeaveUnread
  <2>3. service[w]
    BY <2>2, Zenon DEF WorkersOK
  <2> QED
    BY <1>2, <2>1, <2>3
<1>6. ASSUME NEW w \in Workers, StopKafka(w) \/ Crash(w)
      PROVE  WorkersOK'
  <2>1. /\ phase' = [phase EXCEPT ![w] = "off"]
        /\ service' = [service EXCEPT ![w] = FALSE]
    BY <1>6 DEF StopKafka, Crash, Clear, Advance
  <2> QED
    BY <1>1, <2>1
<1>7. ASSUME NEW w \in Workers, WorkerStep(w), ~StartProducer(w),
             ~StartRequestConsumer(w), ~StartReplyConsumer(w), ~LeaveUnread(w),
             ~StopKafka(w)
      PROVE  WorkersOK'
  <2>1. phase' = phase /\ service' = service
    BY <1>7 DEF WorkerStep, LocateReplies, Assign, Rebalance, Evict, Notice,
                TakeRequest, HandleRequest, ConsumeReply
  <2> QED
    BY <1>3, <2>1
<1>8. ASSUME \/ \E r \in Requests, w \in Workers : Refused(r, w)
             \/ \E r \in Requests, w \in Workers, k \in Ids : EnrichCustomer(r, w, k)
             \/ \E r \in Requests : Publish(r) \/ RepeatPublish(r) \/ Sent(r)
             \/ \E r \in Requests : SendFails(r) \/ Timeout(r) \/ Resume(r)
             \/ ReplyFault
      PROVE  WorkersOK'
  <2>1. phase' = phase /\ service' = service
    BY <1>8 DEF Refused, EnrichCustomer, Publish, RepeatPublish, Sent, SendFails,
                Timeout, Resume, End, ReplyFault, LoseReplies, RepeatReply
  <2> QED
    BY <1>3, <2>1
<1> QED
  BY <1>4, <1>5, <1>6, <1>7, <1>8, Steps DEF WorkerStep

\* The requests of rs are over: the clients' types.
LEMMA ForgetTypes ==
  ASSUME ClientsOK, NEW rs \in SUBSET Requests, Forget(rs)
  PROVE  /\ pc' \in [Requests -> Open \cup {"idle", "over"}]
         /\ worker' \in [Requests -> Workers \cup {None}]
         /\ corr' \in [Requests -> Ids \cup {None}]
         /\ future' \in [Ids -> Requests \cup {None}]
         /\ drawn' \subseteq Ids
BY DEF ClientsOK, Forget

\* Every step keeps the types of the requests and the futures.
LEMMA ClientsStep == ClientsOK /\ RepliesOK /\ Next => ClientsOK'
<1> SUFFICES ASSUME ClientsOK, RepliesOK, Next PROVE ClientsOK'
  OBVIOUS
<1>1. ASSUME client' = client, \/ pending' = pending
                               \/ \E w \in Workers : pending' = [pending EXCEPT ![w] = {}]
      PROVE  ClientsOK'
  BY <1>1 DEF ClientsOK, client
<1>2. ASSUME NEW w \in Workers, StopKafka(w)
      PROVE  ClientsOK'
  BY <1>1, <1>2 DEF StopKafka, Clear
<1>3. ASSUME NEW w \in Workers, Crash(w)
      PROVE  ClientsOK'
  <2>1. OpenAt(w) \in SUBSET Requests /\ Forget(OpenAt(w))
    BY <1>3 DEF Crash, OpenAt
  <2>2. pending' \in [Workers -> SUBSET Ids]
    BY <1>3 DEF ClientsOK, Crash, Clear
  <2> QED
    BY <2>1, <2>2, ForgetTypes DEF ClientsOK
<1>4. ASSUME NEW w \in Workers, ConsumeReply(w)
      PROVE  ClientsOK'
  <2>1. position[GroupOf[w]] \in DOMAIN replies
    <3>1. from[w] \in Nat \ {0} /\ GroupOf[w] \in Groups
      BY <1>4 DEF RepliesOK, ConsumeReply, Groups
    <3>2. /\ position[GroupOf[w]] \in 0 .. Len(replies) + 1
          /\ from[w] <= position[GroupOf[w]]
      BY <3>1 DEF RepliesOK
    <3>3. position[GroupOf[w]] <= Len(replies)
      BY <1>4 DEF ConsumeReply
    <3>4. DOMAIN replies = 1 .. Len(replies) /\ Len(replies) \in Nat
      BY DEF RepliesOK
    <3> QED
      BY <3>1, <3>2, <3>3, <3>4
  <2>2. replies[position[GroupOf[w]]] \in Answer
    BY <2>1 DEF RepliesOK
  <2>3. future' \in [Ids -> Requests \cup {None}]
    BY <1>4, <2>2 DEF ClientsOK, ConsumeReply, Deliver, Answer
  <2> QED
    BY <1>4, <2>3 DEF ClientsOK, ConsumeReply
<1>5. ASSUME NEW w \in Workers, WorkerStep(w), ~StopKafka(w), ~ConsumeReply(w)
      PROVE  ClientsOK'
  <2>1. client' = client /\ pending' = pending
    BY <1>5 DEF WorkerStep, StartProducer, StartRequestConsumer, StartReplyConsumer,
                LocateReplies, LeaveUnread, Assign, Rebalance, Evict, Notice,
                TakeRequest, HandleRequest
  <2> QED
    BY <1>1, <2>1
<1>6. ASSUME NEW r \in Requests, NEW w \in Workers, Refused(r, w)
      PROVE  ClientsOK'
  BY <1>6 DEF ClientsOK, Refused
<1>7. ASSUME NEW r \in Requests, NEW w \in Workers, NEW k \in Ids,
             EnrichCustomer(r, w, k)
      PROVE  ClientsOK'
  BY <1>7 DEF ClientsOK, EnrichCustomer, Open
<1>8. ASSUME NEW r \in Requests, Publish(r) \/ RepeatPublish(r) \/ Sent(r)
      PROVE  ClientsOK'
  BY <1>8 DEF ClientsOK, Publish, RepeatPublish, Sent, Open, client
<1>9. ASSUME NEW r \in Requests, SendFails(r) \/ Timeout(r) \/ Resume(r)
      PROVE  ClientsOK'
  <2>1. End(r) /\ {r} \in SUBSET Requests /\ Forget({r})
    BY <1>9 DEF SendFails, Timeout, Resume, End
  <2>2. pending' \in [Workers -> SUBSET Ids]
    BY <2>1 DEF ClientsOK, End
  <2> QED
    BY <2>1, <2>2, ForgetTypes DEF ClientsOK
<1>10. ASSUME ReplyFault
       PROVE  ClientsOK'
  <2>1. client' = client /\ pending' = pending
    BY <1>10 DEF ReplyFault, LoseReplies, RepeatReply
  <2> QED
    BY <1>1, <2>1
<1> QED
  BY <1>2, <1>3, <1>4, <1>5, <1>6, <1>7, <1>8, <1>9, <1>10, Steps DEF WorkerStep
-----------------------------------------------------------------------------
(***************************************************************************)
(* The topics.                                                             *)
(***************************************************************************)

\* What a request publishes is a message.
LEMMA AskedType ==
  ASSUME ClientsOK, RequestsApart, NEW r \in Requests, pc[r] \in Open
  PROVE  Asked(r) \in Message
BY DEF ClientsOK, RequestsApart, Asked, Message

\* What a worker replies is an answer, and a copy of the record it handles.
LEMMA AnsweredType ==
  ASSUME HandlersOK, NEW w \in Workers, handling[w] # 0
  PROVE  /\ Answered(w) \in Answer /\ Copy(Answered(w))
         /\ Answered(w).of = handling[w] /\ handling[w] \in DOMAIN requests
<1>1. handling[w] \in DOMAIN requests
  BY DEF HandlersOK
<1>2. requests[handling[w]] \in Message
  BY <1>1 DEF HandlersOK
<1>3. handling[w] \in Nat
  BY DEF HandlersOK
<1>4. Answered(w) = [id |-> requests[handling[w]].id,
                     about |-> requests[handling[w]].about, of |-> handling[w]]
  BY DEF Answered
<1> QED
  BY <1>1, <1>2, <1>3, <1>4 DEF Message, Answer, Copy

\* One record is appended to the request topic, or none.
RequestsGrow ==
  \/ requests' = requests
  \/ \E r \in Requests :
        /\ Publish(r) \/ RepeatPublish(r)
        /\ Asked(r) \in Message /\ requests' = Append(requests, Asked(r))

\* One reply is appended to the reply topic, or none: that of a worker to the
\* record it handles, or one that is there.
RepliesGrow ==
  \/ replies' = replies
  \/ \E m \in Answer :
        /\ replies' = Append(replies, m) /\ Copy(m)
        /\ \/ \E w \in Workers : handling[w] # 0 /\ m.of = handling[w]
           \/ again' = again + 1

\* What is in a topic keeps its place.
Kept ==
  /\ \A k \in DOMAIN requests : k \in DOMAIN requests' /\ requests'[k] = requests[k]
  /\ \A k \in DOMAIN replies : k \in DOMAIN replies' /\ replies'[k] = replies[k]

\* A worker that is through with its record has appended the reply to it, or
\* dropped it.
LEMMA Finishing ==
  ASSUME HandlersOK, NEW w \in Workers, Finish(w)
  PROVE  RepliesGrow
<1>1. CASE Abandon(w)
  BY <1>1 DEF Abandon, RepliesGrow
<1>2. CASE Reply(w)
  <2>1. handling[w] # 0 /\ replies' = Append(replies, Answered(w))
    BY <1>2 DEF Reply
  <2> QED
    BY <2>1, AnsweredType DEF RepliesGrow
<1> QED
  BY <1>1, <1>2 DEF Finish

\* The topics only grow.
LEMMA TopicsStep ==
  ASSUME TypeOK, RequestsApart, \A j \in DOMAIN replies : Copy(replies[j]), Next
  PROVE  RequestsGrow /\ RepliesGrow /\ Kept
<1>t. /\ ClientsOK /\ HandlersOK /\ requests \in Seq(Message)
      /\ replies \in Seq(Answer)
  BY DEF TypeOK, HandlersOK, RepliesOK
<1>1. RequestsGrow
  <2>1. ASSUME NEW w \in Workers, WorkerStep(w) \/ Crash(w)
        PROVE  requests' = requests
    BY <2>1 DEF WorkerStep, StartProducer, StartRequestConsumer, StartReplyConsumer,
                LocateReplies, LeaveUnread, StopKafka, Crash, Assign, Rebalance,
                Evict, Notice, TakeRequest, HandleRequest, ConsumeReply, topics
  <2>2. ASSUME \/ \E r \in Requests, w \in Workers : Refused(r, w)
               \/ \E r \in Requests, w \in Workers, k \in Ids :
                     EnrichCustomer(r, w, k)
               \/ ReplyFault
        PROVE  requests' = requests
    BY <2>2 DEF Refused, EnrichCustomer, ReplyFault, LoseReplies, RepeatReply, topics
  <2>3. ASSUME NEW r \in Requests, Publish(r) \/ RepeatPublish(r)
        PROVE  RequestsGrow
    <3>1. pc[r] \in Open /\ requests' = Append(requests, Asked(r))
      BY <2>3 DEF Publish, RepeatPublish, Open
    <3> QED
      BY <1>t, <2>3, <3>1, AskedType DEF RequestsGrow
  <2>4. ASSUME NEW r \in Requests, Sent(r) \/ SendFails(r) \/ Timeout(r) \/ Resume(r)
        PROVE  requests' = requests
    BY <2>4 DEF Sent, SendFails, Timeout, Resume, End, topics
  <2> QED
    BY <2>1, <2>2, <2>3, <2>4, Steps DEF RequestsGrow
<1>2. RepliesGrow
  <2>1. ASSUME NEW w \in Workers, WorkerStep(w),
               ~StopKafka(w), ~HandleRequest(w)
        PROVE  replies' = replies
    BY <2>1 DEF WorkerStep, StartProducer, StartRequestConsumer, StartReplyConsumer,
                LocateReplies, LeaveUnread, Assign, Rebalance, Evict, Notice,
                TakeRequest, ConsumeReply, topics
  <2>2. ASSUME NEW w \in Workers, StopKafka(w) \/ Crash(w) \/ HandleRequest(w)
        PROVE  RepliesGrow
    <3>1. Finish(w)
      BY <2>2 DEF StopKafka, Crash, HandleRequest
    <3> QED
      BY <1>t, <3>1, Finishing
  <2>3. ASSUME \/ \E r \in Requests, w \in Workers : Refused(r, w)
               \/ \E r \in Requests, w \in Workers, k \in Ids :
                     EnrichCustomer(r, w, k)
               \/ \E r \in Requests : Publish(r) \/ RepeatPublish(r) \/ Sent(r)
               \/ \E r \in Requests : SendFails(r) \/ Timeout(r) \/ Resume(r)
               \/ \E g \in Groups : LoseReplies(g)
        PROVE  replies' = replies
    BY <2>3 DEF Refused, EnrichCustomer, Publish, RepeatPublish, Sent, SendFails,
                Timeout, Resume, End, LoseReplies, topics
  <2>4. ASSUME NEW j \in DOMAIN replies, RepeatReply(j)
        PROVE  RepliesGrow
    <3>1. /\ replies' = Append(replies, replies[j]) /\ again' = again + 1
          /\ replies[j] \in Answer /\ Copy(replies[j])
      BY <1>t, <2>4 DEF RepeatReply, Repeating
    <3> QED
      BY <3>1 DEF RepliesGrow
  <2> QED
    BY <2>1, <2>2, <2>3, <2>4, Steps DEF RepliesGrow, WorkerStep, ReplyFault
<1>3. Kept
  <2>1. ASSUME NEW m \in Message, requests' = Append(requests, m)
        PROVE  \A k \in DOMAIN requests : k \in DOMAIN requests' /\ requests'[k] = requests[k]
    BY <1>t, <2>1
  <2>2. ASSUME NEW m \in Answer, replies' = Append(replies, m)
        PROVE  \A k \in DOMAIN replies : k \in DOMAIN replies' /\ replies'[k] = replies[k]
    BY <1>t, <2>2
  <2> QED
    BY <1>1, <1>2, <2>1, <2>2 DEF RequestsGrow, RepliesGrow, Kept
<1> QED
  BY <1>1, <1>2, <1>3

\* Where a record that was appended stands.
LEMMA RequestAppended ==
  ASSUME requests \in Seq(Message), NEW m \in Message, requests' = Append(requests, m)
  PROVE  /\ Len(requests) \in Nat /\ Len(requests') = Len(requests) + 1
         /\ requests' \in Seq(Message)
         /\ DOMAIN requests = 1 .. Len(requests)
         /\ DOMAIN requests' = DOMAIN requests \cup {Len(requests) + 1}
         /\ \A k \in DOMAIN requests : requests'[k] = requests[k]
         /\ requests'[Len(requests) + 1] = m
         /\ Len(requests) + 1 \notin DOMAIN requests
OBVIOUS

\* Where a reply that was appended stands.
LEMMA ReplyAppended ==
  ASSUME replies \in Seq(Answer), NEW m \in Answer, replies' = Append(replies, m)
  PROVE  /\ Len(replies) \in Nat /\ Len(replies') = Len(replies) + 1
         /\ replies' \in Seq(Answer)
         /\ DOMAIN replies = 1 .. Len(replies)
         /\ DOMAIN replies' = DOMAIN replies \cup {Len(replies) + 1}
         /\ \A k \in DOMAIN replies : replies'[k] = replies[k]
         /\ replies'[Len(replies) + 1] = m
         /\ Len(replies) + 1 \notin DOMAIN replies
OBVIOUS

\* Every step keeps the types of the reply topic and of what is read of it.
LEMMA RepliesStep ==
  ASSUME TypeOK, RequestsApart, \A j \in DOMAIN replies : Copy(replies[j]), Next
  PROVE  RepliesOK'
<1>t. /\ RepliesOK /\ HandlersOK /\ replies \in Seq(Answer) /\ Len(replies) \in Nat
      /\ \A w \in Workers : GroupOf[w] \in Groups
  BY DEF TypeOK, RepliesOK, Groups
<1>1. replies' \in Seq(Answer) /\ Len(replies') \in {Len(replies), Len(replies) + 1}
  <2>1. RepliesGrow
    BY TopicsStep
  <2> QED
    BY <1>t, <2>1, ReplyAppended DEF RepliesGrow
\* What is left is where the groups and their members stand.
<1> DEFINE Places == /\ from' \in [Workers -> Nat]
                     /\ position' \in [Groups -> 0 .. Len(replies') + 1]
                     /\ \A w \in Workers : from'[w] <= position'[GroupOf[w]]
<1>2. ASSUME position' = position,
             \/ from' = from
             \/ \E w \in Workers : from' = [from EXCEPT ![w] = 0]
      PROVE  Places
  <2>1. position' \in [Groups -> 0 .. Len(replies') + 1]
    BY <1>t, <1>1, <1>2 DEF RepliesOK
  <2>2. from' \in [Workers -> Nat] /\ \A v \in Workers : from'[v] \in {from[v], 0}
    BY <1>t, <1>2 DEF RepliesOK
  <2>3. \A v \in Workers : position[GroupOf[v]] \in Nat
    BY <1>t DEF RepliesOK
  <2>4. ASSUME NEW v \in Workers
        PROVE  from'[v] <= position[GroupOf[v]]
    BY <1>t, <2>2, <2>3 DEF RepliesOK
  <2> QED
    BY <1>2, <2>1, <2>2, <2>4
<1>3. ASSUME NEW w \in Workers, LocateReplies(w)
      PROVE  Places
  <2> DEFINE at == IF position[GroupOf[w]] = 0 THEN Len(replies) + 1
                                               ELSE position[GroupOf[w]]
  <2>1. /\ at \in 1 .. Len(replies) + 1 /\ replies' = replies
        /\ from' = [from EXCEPT ![w] = at]
        /\ position' = [position EXCEPT ![GroupOf[w]] = at]
        /\ position[GroupOf[w]] <= at
    BY <1>t, <1>3 DEF RepliesOK, LocateReplies
  <2> HIDE DEF at
  <2>2. from' \in [Workers -> Nat] /\ position' \in [Groups -> 0 .. Len(replies') + 1]
    BY <1>t, <2>1 DEF RepliesOK
  <2>3. ASSUME NEW v \in Workers
        PROVE  from'[v] <= position'[GroupOf[v]]
    <3>1. from[v] <= position[GroupOf[v]] /\ position[GroupOf[v]] \in Nat /\ from[v] \in Nat
      BY <1>t DEF RepliesOK
    <3>2. position'[GroupOf[v]] = IF GroupOf[v] = GroupOf[w] THEN at
                                  ELSE position[GroupOf[v]]
      BY <1>t, <2>1 DEF RepliesOK
    <3>3. from'[v] = IF v = w THEN at ELSE from[v]
      BY <1>t, <2>1 DEF RepliesOK
    <3>4. v = w => GroupOf[v] = GroupOf[w]
      OBVIOUS
    <3>5. GroupOf[v] = GroupOf[w] => position[GroupOf[v]] <= at
      BY <2>1
    <3>6. at \in Nat
      BY <1>t, <2>1
    <3> QED
      BY <3>1, <3>2, <3>3, <3>4, <3>5, <3>6
  <2> QED
    BY <2>2, <2>3
<1>4. ASSUME NEW g \in Groups, LoseReplies(g)
      PROVE  Places
  <2>1. PICK k \in 0 .. position[g] : position' = [position EXCEPT ![g] = k]
    BY <1>4 DEF LoseReplies
  <2>2. /\ replies' = replies /\ position[g] \in 0 .. Len(replies) + 1
        /\ from' = [w \in Workers |-> IF GroupOf[w] = g THEN 0 ELSE from[w]]
    BY <1>4 DEF RepliesOK, TypeOK, LoseReplies
  <2>3. from' \in [Workers -> Nat] /\ position' \in [Groups -> 0 .. Len(replies') + 1]
    BY <1>t, <2>1, <2>2 DEF RepliesOK
  <2>4. ASSUME NEW v \in Workers
        PROVE  from'[v] <= position'[GroupOf[v]]
    BY <1>t, <2>1, <2>2 DEF RepliesOK
  <2> QED
    BY <2>3, <2>4
<1>5. ASSUME NEW w \in Workers, ConsumeReply(w)
      PROVE  Places
  <2>1. /\ position[GroupOf[w]] \in 0 .. Len(replies) /\ from' = from
        /\ replies' = replies
        /\ position' = [position EXCEPT ![GroupOf[w]] = position[GroupOf[w]] + 1]
    BY <1>t, <1>5 DEF RepliesOK, ConsumeReply
  <2>2. position' \in [Groups -> 0 .. Len(replies') + 1]
    BY <1>t, <2>1 DEF RepliesOK
  <2>3. ASSUME NEW v \in Workers
        PROVE  from'[v] <= position'[GroupOf[v]]
    <3>1. from[v] <= position[GroupOf[v]] /\ position[GroupOf[v]] \in Nat /\ from[v] \in Nat
      BY <1>t DEF RepliesOK
    <3>2. position'[GroupOf[v]] \in {position[GroupOf[v]], position[GroupOf[v]] + 1}
      BY <1>t, <2>1 DEF RepliesOK
    <3> QED
      BY <2>1, <3>1, <3>2
  <2> QED
    BY <1>t, <2>1, <2>2, <2>3 DEF RepliesOK
<1>6. ASSUME NEW w \in Workers, WorkerStep(w) \/ Crash(w),
             ~LocateReplies(w), ~ConsumeReply(w)
      PROVE  /\ position' = position
             /\ from' = from \/ from' = [from EXCEPT ![w] = 0]
  BY <1>6 DEF WorkerStep, StartProducer, StartRequestConsumer, StartReplyConsumer,
              LeaveUnread, StopKafka, Crash, Clear, Assign, Rebalance, Evict, Notice,
              TakeRequest, HandleRequest, topics
<1>7. ASSUME \/ \E r \in Requests, w \in Workers : Refused(r, w)
             \/ \E r \in Requests, w \in Workers, k \in Ids : EnrichCustomer(r, w, k)
             \/ \E r \in Requests : Publish(r) \/ RepeatPublish(r) \/ Sent(r)
             \/ \E r \in Requests : SendFails(r) \/ Timeout(r) \/ Resume(r)
             \/ \E j \in DOMAIN replies : RepeatReply(j)
      PROVE  position' = position /\ from' = from
  BY <1>7 DEF Refused, EnrichCustomer, Publish, RepeatPublish, Sent, SendFails,
              Timeout, Resume, End, RepeatReply, topics
<1>8. Places
  <2> HIDE DEF Places
  <2>1. ASSUME NEW w \in Workers, WorkerStep(w) \/ Crash(w)
        PROVE  Places
    BY <2>1, <1>2, <1>3, <1>5, <1>6
  <2>2. ReplyFault => Places
    BY <1>2, <1>4, <1>7 DEF ReplyFault
  <2> QED
    BY <1>2, <1>7, <2>1, <2>2, Steps
<1> QED
  BY <1>1, <1>8 DEF RepliesOK

\* What the worker that is through with its record leaves of it.
LEMMA FinishTypes ==
  ASSUME HandlersOK, NEW w \in Workers, Finish(w)
  PROVE  /\ handling' = [handling EXCEPT ![w] = 0]
         /\ handling' \in [Workers -> 0 .. Len(requests)]
         /\ dropped' \subseteq 1 .. Len(requests)
<1>1. /\ handling[w] \in 0 .. Len(requests) /\ Len(requests) \in Nat
      /\ dropped \subseteq 1 .. Len(requests)
  BY DEF HandlersOK
<1>2. handling' = [handling EXCEPT ![w] = 0]
  BY DEF Finish
<1>3. handling' \in [Workers -> 0 .. Len(requests)]
  BY <1>1, <1>2 DEF HandlersOK
<1>4. CASE Reply(w)
  BY <1>1, <1>2, <1>3, <1>4 DEF Reply
<1>5. CASE Abandon(w)
  <2>1. dropped' = dropped \/ (handling[w] # 0 /\ dropped' = dropped \cup {handling[w]})
    BY <1>5 DEF Abandon
  <2>2. handling[w] # 0 => handling[w] \in 1 .. Len(requests)
    BY <1>1
  <2>3. dropped' \subseteq 1 .. Len(requests)
    BY <1>1, <2>1, <2>2
  <2> QED
    BY <1>2, <1>3, <2>3
<1> QED
  BY <1>4, <1>5 DEF Finish

\* Every step keeps the types of the request topic and of what is read of it,
\* and the partition with a member of the group.
LEMMA HandlersStep == TypeOK /\ RequestsApart /\ Next => HandlersOK'
<1> SUFFICES ASSUME TypeOK, RequestsApart, Next PROVE HandlersOK'
  OBVIOUS
<1> USE NoneAssumption
<1>t. /\ ClientsOK /\ WorkersOK /\ HandlersOK
      /\ requests \in Seq(Message) /\ Len(requests) \in Nat
  BY DEF TypeOK, HandlersOK
<1>m. \A v \in Workers : phase'[v] = phase[v] => (Member(v)' <=> Member(v))
  BY DEF Member
\* One worker changes its phase and stays in the group if it has the partition.
<1>1. ASSUME NEW w \in Workers,
             StartProducer(w) \/ StartRequestConsumer(w) \/ StartReplyConsumer(w)
      PROVE  HandlersOK'
  <2>1. /\ requests' = requests /\ reads' = reads /\ committed' = committed
        /\ owner' = owner /\ handling' = handling /\ dropped' = dropped
        /\ \A v \in Workers \ {w} : phase'[v] = phase[v]
    BY <1>t, <1>1 DEF WorkersOK, StartProducer, StartRequestConsumer,
                      StartReplyConsumer, Advance, handler, topics
  <2>2. Member(w) => Member(w)' /\ phase[w] # "up"
    BY <1>t, <1>1 DEF WorkersOK, StartProducer, StartRequestConsumer,
                      StartReplyConsumer, Advance, Member
  <2>3. owner # None =>
           /\ Member(owner)' /\ committed <= reads[owner]
           /\ phase'[owner] # "up" => reads[owner] = committed
    BY <1>t, <1>m, <2>1, <2>2 DEF HandlersOK
  <2> QED
    BY <1>t, <2>1, <2>3 DEF HandlersOK, Member
<1>2. ASSUME NEW w \in Workers, LeaveUnread(w)
      PROVE  HandlersOK'
  <2>1. /\ requests' = requests /\ committed' = committed
        /\ handling' = handling /\ dropped' = dropped
        /\ reads' = [reads EXCEPT ![w] = 0]
        /\ owner' = IF owner = w THEN None ELSE owner
        /\ \A v \in Workers \ {w} : phase'[v] = phase[v]
    BY <1>t, <1>2 DEF WorkersOK, LeaveUnread, Advance, topics
  <2>2. owner' # None =>
           /\ Member(owner)' /\ committed <= reads'[owner]
           /\ phase'[owner] # "up" => reads'[owner] = committed
    BY <1>t, <1>m, <2>1 DEF HandlersOK
  <2>3. owner' # None => owner' = owner
    BY <2>1
  <2>4. reads' \in [Workers -> 0 .. Len(requests) + 1]
    BY <1>t, <2>1 DEF HandlersOK
  <2> QED
    BY <1>t, <2>1, <2>2, <2>3, <2>4 DEF HandlersOK, Member
<1>3. ASSUME NEW w \in Workers, StopKafka(w) \/ Crash(w)
      PROVE  HandlersOK'
  <2>1. /\ requests' = requests /\ reads' = [reads EXCEPT ![w] = 0]
        /\ Finish(w) /\ LeaveGroup(w)
        /\ \A v \in Workers \ {w} : phase'[v] = phase[v]
    BY <1>t, <1>3 DEF WorkersOK, StopKafka, Crash, Clear, Advance
  <2>2. /\ reads' \in [Workers -> 0 .. Len(requests) + 1]
        /\ handling' \in [Workers -> 0 .. Len(requests)]
        /\ dropped' \subseteq 1 .. Len(requests)
    BY <1>t, <2>1, FinishTypes DEF HandlersOK
  <2>3. \/ owner # w /\ owner' = owner /\ committed' = committed
        \/ owner' = None /\ committed' \in 1 .. Len(requests) + 1
    BY <1>t, <2>1, Ending, Leaving
  <2>4. owner' # None =>
           /\ Member(owner)' /\ committed' <= reads'[owner]
           /\ phase'[owner] # "up" => reads'[owner] = committed'
    BY <1>t, <1>m, <2>1, <2>3 DEF HandlersOK
  <2>5. /\ committed' \in 1 .. Len(requests) + 1
        /\ owner' \in Workers \cup {None}
        /\ owner' # None => owner' = owner
    BY <1>t, <2>3 DEF HandlersOK
  <2>6. owner' # None =>
           /\ Member(owner)' /\ committed' <= reads'[owner']
           /\ phase'[owner'] # "up" => reads'[owner'] = committed'
    BY <2>4, <2>5
  <2> QED
    BY <1>t, <2>1, <2>2, <2>5, <2>6 DEF HandlersOK
<1>4. ASSUME NEW w \in Workers, Assign(w)
      PROVE  HandlersOK'
  <2>1. /\ requests' = requests /\ committed' = committed /\ phase' = phase
        /\ handling' = handling /\ dropped' = dropped /\ Member(w)
        /\ reads' = [reads EXCEPT ![w] = committed] /\ owner' = w
    BY <1>4 DEF Assign, topics
  <2>2. committed \in 0 .. Len(requests) + 1
    BY <1>t DEF HandlersOK
  <2>3. reads' \in [Workers -> 0 .. Len(requests) + 1] /\ reads'[w] = committed
    BY <1>t, <2>1, <2>2 DEF HandlersOK
  <2>4. committed <= reads'[w]
    BY <2>2, <2>3
  <2> QED
    BY <1>t, <2>1, <2>3, <2>4 DEF HandlersOK, Member
<1>5. ASSUME NEW w \in Workers, Rebalance(w) \/ Evict(w)
      PROVE  HandlersOK'
  <2>1. /\ requests' = requests /\ handling' = handling /\ dropped' = dropped
        /\ GiveUp(w)
        /\ reads' = reads \/ reads' = [reads EXCEPT ![w] = 0]
    BY <1>5 DEF Rebalance, Evict, topics
  <2>2. owner' = None /\ committed' \in 1 .. Len(requests) + 1
    BY <1>t, <2>1, Leaving
  <2>3. reads' \in [Workers -> 0 .. Len(requests) + 1]
    BY <1>t, <2>1 DEF HandlersOK
  <2> QED
    BY <1>t, <2>1, <2>2, <2>3 DEF HandlersOK
<1>6. ASSUME NEW w \in Workers, Notice(w)
      PROVE  HandlersOK'
  <2>1. /\ requests' = requests /\ handling' = handling /\ dropped' = dropped
        /\ owner # w /\ owner' = owner /\ committed' = committed /\ phase' = phase
        /\ reads' = [reads EXCEPT ![w] = 0]
    BY <1>6 DEF Notice, topics
  <2>2. reads' \in [Workers -> 0 .. Len(requests) + 1]
    BY <1>t, <2>1 DEF HandlersOK
  <2>3. owner # None => reads'[owner] = reads[owner]
    BY <1>t, <2>1 DEF HandlersOK
  <2> QED
    BY <1>t, <2>1, <2>2, <2>3 DEF HandlersOK, Member
<1>7. ASSUME NEW w \in Workers, TakeRequest(w)
      PROVE  HandlersOK'
  <2>1. /\ requests' = requests /\ dropped' = dropped \ {reads[w]}
        /\ owner' = owner /\ committed' = committed /\ phase' = phase
        /\ handling' = [handling EXCEPT ![w] = reads[w]]
        /\ reads' = [reads EXCEPT ![w] = reads[w] + 1]
        /\ reads[w] \in 1 .. Len(requests) /\ phase[w] = "up"
    BY <1>t, <1>7 DEF TakeRequest, topics
  <2>2. /\ reads' \in [Workers -> 0 .. Len(requests) + 1]
        /\ handling' \in [Workers -> 0 .. Len(requests)]
        /\ dropped' \subseteq 1 .. Len(requests)
    <3>1. /\ reads[w] + 1 \in 0 .. Len(requests) + 1
          /\ reads[w] \in 0 .. Len(requests)
      BY <1>t, <2>1
    <3>2. reads' \in [Workers -> 0 .. Len(requests) + 1]
      BY <1>t, <2>1, <3>1 DEF HandlersOK
    <3>3. handling' \in [Workers -> 0 .. Len(requests)]
      BY <1>t, <2>1, <3>1 DEF HandlersOK
    <3>4. dropped' \subseteq 1 .. Len(requests)
      BY <1>t, <2>1 DEF HandlersOK
    <3> QED
      BY <3>2, <3>3, <3>4
  <2>3. owner # None =>
           /\ committed <= reads'[owner]
           /\ phase[owner] # "up" => reads'[owner] = committed
    BY <1>t, <2>1 DEF HandlersOK
  <2> QED
    BY <1>t, <2>1, <2>2, <2>3 DEF HandlersOK, Member
<1>8. ASSUME NEW w \in Workers, HandleRequest(w)
      PROVE  HandlersOK'
  <2>1. /\ requests' = requests /\ reads' = reads /\ Finish(w)
        /\ owner' = owner /\ committed' = committed /\ phase' = phase
    BY <1>8 DEF HandleRequest
  <2> QED
    BY <1>t, <2>1, FinishTypes DEF HandlersOK, Member
\* No other step changes who handles what; one may append a request.
<1>9. ASSUME handler' = handler, phase' = phase, RequestsGrow
      PROVE  HandlersOK'
  <2>1. requests' \in Seq(Message) /\ Len(requests') \in {Len(requests), Len(requests) + 1}
    BY <1>t, <1>9, RequestAppended DEF RequestsGrow
  <2>2. /\ reads' \in [Workers -> 0 .. Len(requests') + 1]
        /\ handling' \in [Workers -> 0 .. Len(requests')]
        /\ dropped' \subseteq 1 .. Len(requests')
        /\ committed' \in 1 .. Len(requests') + 1
    BY <1>t, <1>9, <2>1 DEF HandlersOK, handler
  <2> QED
    BY <1>t, <1>9, <2>1, <2>2 DEF HandlersOK, handler, Member
<1>10. ASSUME NEW w \in Workers, LocateReplies(w) \/ ConsumeReply(w)
       PROVE  HandlersOK'
  <2>1. handler' = handler /\ phase' = phase /\ requests' = requests
    BY <1>10 DEF LocateReplies, ConsumeReply
  <2> QED
    BY <1>9, <2>1 DEF RequestsGrow
<1>11. ASSUME \/ \E r \in Requests, w \in Workers : Refused(r, w)
              \/ \E r \in Requests, w \in Workers, k \in Ids : EnrichCustomer(r, w, k)
              \/ \E r \in Requests : Sent(r) \/ SendFails(r) \/ Timeout(r) \/ Resume(r)
              \/ ReplyFault
       PROVE  HandlersOK'
  <2>1. handler' = handler /\ phase' = phase /\ requests' = requests
    BY <1>11 DEF Refused, EnrichCustomer, Sent, SendFails, Timeout, Resume, End,
                 ReplyFault, LoseReplies, RepeatReply, topics
  <2> QED
    BY <1>9, <2>1 DEF RequestsGrow
<1>12. ASSUME NEW r \in Requests, Publish(r) \/ RepeatPublish(r)
       PROVE  HandlersOK'
  <2>1. /\ pc[r] \in Open /\ requests' = Append(requests, Asked(r))
        /\ handler' = handler /\ phase' = phase
    BY <1>12 DEF Publish, RepeatPublish, Open
  <2> QED
    BY <1>t, <1>9, <1>12, <2>1, AskedType DEF RequestsGrow
<1> QED
  BY <1>1, <1>2, <1>3, <1>4, <1>5, <1>6, <1>7, <1>8, <1>10, <1>11, <1>12, Steps
     DEF WorkerStep

\* Every step keeps the faults within their bound; those that repeat
\* something are among them.
LEMMA CountsStep == CountsOK /\ HandlersOK /\ Next => CountsOK' /\ again <= again'
<1> SUFFICES ASSUME CountsOK, HandlersOK, Next PROVE CountsOK' /\ again <= again'
  OBVIOUS
<1> USE FaultsAssumption
<1>1. ASSUME UNCHANGED counts \/ Harmless \/ Repeating
      PROVE  CountsOK' /\ again <= again'
  BY <1>1 DEF CountsOK, counts, Harmless, Repeating
<1>2. ASSUME NEW w \in Workers, WorkerStep(w) \/ Crash(w)
      PROVE  UNCHANGED counts \/ Harmless \/ Repeating
  <2>1. CASE StopKafka(w) \/ Crash(w)
    BY <2>1, Ending DEF StopKafka, Crash
  <2>2. CASE Rebalance(w) \/ Evict(w)
    BY <2>2 DEF Rebalance, Evict
  <2>3. CASE WorkerStep(w) /\ ~StopKafka(w) /\ ~Rebalance(w) /\ ~Evict(w)
    BY <2>3 DEF WorkerStep, StartProducer, StartRequestConsumer, StartReplyConsumer,
                LocateReplies, LeaveUnread, Assign, Notice, TakeRequest,
                HandleRequest, ConsumeReply
  <2> QED
    BY <1>2, <2>1, <2>2, <2>3
<1>3. ASSUME \/ \E r \in Requests, w \in Workers : Refused(r, w)
             \/ \E r \in Requests, w \in Workers, k \in Ids : EnrichCustomer(r, w, k)
             \/ \E r \in Requests : Publish(r) \/ RepeatPublish(r) \/ Sent(r)
             \/ \E r \in Requests : SendFails(r) \/ Timeout(r) \/ Resume(r)
             \/ ReplyFault
      PROVE  UNCHANGED counts \/ Harmless \/ Repeating
  BY <1>3 DEF Refused, EnrichCustomer, Publish, RepeatPublish, Sent, SendFails,
              Timeout, Resume, End, ReplyFault, LoseReplies, RepeatReply
<1> QED
  BY <1>1, <1>2, <1>3, Steps

\* Every step keeps the types.
LEMMA TypeStep ==
  ASSUME TypeOK, RequestsApart, MessagesInv, Next
  PROVE  TypeOK'
<1>1. WorkersOK' /\ ClientsOK' /\ CountsOK'
  BY WorkersStep, ClientsStep, CountsStep DEF TypeOK
<1>2. RepliesOK' /\ HandlersOK'
  BY RepliesStep, HandlersStep DEF MessagesInv
<1> QED
  BY <1>1, <1>2 DEF TypeOK
-----------------------------------------------------------------------------
(***************************************************************************)
(* Open requests and _pending.                                             *)
(***************************************************************************)

\* What the requests see of a step that neither begins nor ends one: a worker
\* that has some of them open goes on, and _pending only changes in one that
\* has none.
LEMMA WorkerFrame ==
  ASSUME TypeOK, NEW w \in Workers, WorkerStep(w)
  PROVE  /\ pc' = pc /\ worker' = worker /\ corr' = corr /\ drawn' = drawn
         /\ \A v \in Workers :
              /\ OpenAt(v) # {} => (phase[v] # "off" => phase'[v] # "off")
              /\ \/ pending'[v] = pending[v]
                 \/ pending'[v] = {} /\ OpenAt(v) = {}
<1>1. CASE StartProducer(w) \/ StartRequestConsumer(w) \/ StartReplyConsumer(w)
           \/ LeaveUnread(w)
  BY <1>1 DEF TypeOK, WorkersOK, StartProducer, StartRequestConsumer,
              StartReplyConsumer, LeaveUnread, Advance, client
<1>2. CASE LocateReplies(w) \/ Assign(w) \/ Rebalance(w) \/ Evict(w) \/ Notice(w)
           \/ TakeRequest(w) \/ HandleRequest(w) \/ ConsumeReply(w)
  BY <1>2 DEF LocateReplies, Assign, Rebalance, Evict, Notice, TakeRequest,
              HandleRequest, ConsumeReply, client
<1>3. CASE StopKafka(w)
  BY <1>3 DEF TypeOK, WorkersOK, ClientsOK, StopKafka, Clear, Advance, client
<1> QED
  BY <1>1, <1>2, <1>3 DEF WorkerStep

\* Nor do they see the faults of the reply topic.
LEMMA FaultFrame ==
  ASSUME ReplyFault
  PROVE  /\ pc' = pc /\ worker' = worker /\ corr' = corr /\ drawn' = drawn
         /\ future' = future /\ phase' = phase /\ pending' = pending
BY DEF ReplyFault, LoseReplies, RepeatReply, client

\* Publishing changes nothing of a request but how far its send has come.
LEMMA SendFrame ==
  ASSUME TypeOK, NEW r \in Requests, Publish(r) \/ RepeatPublish(r) \/ Sent(r)
  PROVE  /\ worker' = worker /\ corr' = corr /\ drawn' = drawn
         /\ future' = future /\ phase' = phase /\ pending' = pending
         /\ \A s \in Requests : pc'[s] \in Open <=> pc[s] \in Open
         /\ \A s \in Requests : pc'[s] = "sending" => pc[s] = "sending" /\ s # r
         /\ pc[r] \in Open
BY DEF TypeOK, ClientsOK, Publish, RepeatPublish, Sent, Open, client

\* Requests that are over are not open; the others are as they were, and so
\* are their futures.
LEMMA ForgetFrame ==
  ASSUME TypeOK, NEW rs \in SUBSET Requests, Forget(rs)
  PROVE  /\ drawn' = drawn
         /\ \A r \in rs : pc'[r] = "over"
         /\ \A r \in Requests \ rs :
              pc'[r] = pc[r] /\ worker'[r] = worker[r] /\ corr'[r] = corr[r]
         /\ \A k \in Ids :
              future'[k] = IF \E r \in rs : corr[r] = k THEN None ELSE future[k]
  BY DEF Forget

\* A crash and the end of a request forget requests that were open.
LEMMA Forgetting ==
  /\ \A w \in Workers : Crash(w) =>
        /\ OpenAt(w) \in SUBSET Requests /\ Forget(OpenAt(w))
        /\ \A s \in OpenAt(w) : pc[s] \in Open
  /\ \A r \in Requests : SendFails(r) \/ Timeout(r) \/ Resume(r) =>
        {r} \in SUBSET Requests /\ Forget({r}) /\ pc[r] \in Open /\ End(r)
BY DEF Crash, OpenAt, SendFails, Timeout, Resume, End, Open

\* Every step keeps the open requests apart, each with a worker that runs.
LEMMA ApartStep == TypeOK /\ RequestsApart /\ Next => RequestsApart'
<1> SUFFICES ASSUME TypeOK, RequestsApart, Next PROVE RequestsApart'
  OBVIOUS
<1>1. ASSUME NEW w \in Workers, WorkerStep(w)
      PROVE  RequestsApart'
  BY <1>1, WorkerFrame DEF RequestsApart, OpenAt
<1>2. ASSUME NEW w \in Workers, Crash(w)
      PROVE  RequestsApart'
  <2>1. OpenAt(w) \in SUBSET Requests /\ Forget(OpenAt(w))
    BY <1>2, Forgetting
  <2>2. \A v \in Workers \ {w} : phase'[v] = phase[v]
    BY <1>2 DEF TypeOK, WorkersOK, Crash, Clear, Advance
  <2> QED
    BY <2>1, <2>2, ForgetFrame DEF RequestsApart, OpenAt, Open
<1>3. ASSUME NEW r \in Requests, SendFails(r) \/ Timeout(r) \/ Resume(r)
      PROVE  RequestsApart'
  <2>1. {r} \in SUBSET Requests /\ Forget({r}) /\ phase' = phase
    BY <1>3, Forgetting DEF End
  <2> QED
    BY <2>1, ForgetFrame DEF RequestsApart, Open
<1>4. ASSUME NEW r \in Requests, NEW w \in Workers, NEW k \in Ids,
             EnrichCustomer(r, w, k)
      PROVE  RequestsApart'
  <2>1. /\ pc[r] = "idle" /\ pc'[r] = "sending" /\ worker'[r] = w
        /\ corr'[r] = k /\ drawn' = drawn \cup {k}
        /\ k \notin drawn /\ phase' = phase /\ phase[w] # "off"
    BY <1>4 DEF TypeOK, ClientsOK, EnrichCustomer, Fresh, Serving
  <2>2. \A s \in Requests \ {r} :
          pc'[s] = pc[s] /\ worker'[s] = worker[s] /\ corr'[s] = corr[s]
    BY <1>4 DEF TypeOK, ClientsOK, EnrichCustomer
  <2> QED
    BY <2>1, <2>2 DEF RequestsApart
<1>5. ASSUME NEW r \in Requests, Publish(r) \/ RepeatPublish(r) \/ Sent(r)
      PROVE  RequestsApart'
  BY <1>5, SendFrame DEF RequestsApart
<1>6. ASSUME NEW r \in Requests, NEW w \in Workers, Refused(r, w)
      PROVE  RequestsApart'
  <2>1. /\ worker' = worker /\ corr' = corr /\ drawn' = drawn /\ phase' = phase
        /\ \A s \in Requests : pc'[s] \in Open => pc[s] \in Open
    BY <1>6 DEF TypeOK, ClientsOK, Refused, Open
  <2> QED
    BY <2>1 DEF RequestsApart
<1>7. CASE ReplyFault
  BY <1>7, FaultFrame DEF RequestsApart
<1> QED
  BY <1>1, <1>2, <1>3, <1>4, <1>5, <1>6, <1>7, Steps

\* Every step keeps _pending equal to the requests in flight: a request
\* enters and leaves it together with its future.
LEMMA PendingStep ==
  TypeOK /\ RequestsApart /\ PendingExact /\ Next => PendingExact'
<1> SUFFICES ASSUME TypeOK, RequestsApart, PendingExact, Next,
                    NEW v \in Workers
             PROVE  pending'[v] = {corr'[s] : s \in OpenAt(v)'}
  BY DEF PendingExact
<1>0. pending[v] = {corr[s] : s \in OpenAt(v)}
  BY DEF PendingExact
<1>t. pending \in [Workers -> SUBSET Ids]
  BY DEF TypeOK, ClientsOK
<1>1. ASSUME NEW w \in Workers, WorkerStep(w)
      PROVE  pending'[v] = {corr'[s] : s \in OpenAt(v)'}
  BY <1>0, <1>1, WorkerFrame DEF OpenAt
<1>2. ASSUME NEW w \in Workers, Crash(w)
      PROVE  pending'[v] = {corr'[s] : s \in OpenAt(v)'}
  <2>1. OpenAt(w) \in SUBSET Requests /\ Forget(OpenAt(w))
    BY <1>2, Forgetting
  <2>2. pending' = [pending EXCEPT ![w] = {}]
    BY <1>2 DEF Crash, Clear
  <2>3. CASE v = w
    <3>1. OpenAt(v)' = {}
      BY <2>1, <2>3, ForgetFrame DEF OpenAt, Open
    <3> QED
      BY <1>t, <2>2, <2>3, <3>1
  <2>4. CASE v # w
    <3>1. OpenAt(v)' = OpenAt(v) /\ \A s \in OpenAt(v) : corr'[s] = corr[s]
      BY <2>1, <2>4, ForgetFrame DEF OpenAt, Open
    <3>2. pending'[v] = pending[v]
      BY <1>t, <2>2, <2>4
    <3> QED
      BY <1>0, <3>1, <3>2
  <2> QED
    BY <2>3, <2>4
<1>3. ASSUME NEW r \in Requests, SendFails(r) \/ Timeout(r) \/ Resume(r)
      PROVE  pending'[v] = {corr'[s] : s \in OpenAt(v)'}
  <2>1. /\ {r} \in SUBSET Requests /\ Forget({r}) /\ pc[r] \in Open
        /\ pending' = [pending EXCEPT ![worker[r]] = @ \ {corr[r]}]
    BY <1>3, Forgetting DEF End
  <2>2. OpenAt(v)' = OpenAt(v) \ {r} /\ \A s \in OpenAt(v)' : corr'[s] = corr[s]
    BY <2>1, ForgetFrame DEF OpenAt, Open
  <2>3. CASE v = worker[r]
    <3>1. pending'[v] = pending[v] \ {corr[r]}
      BY <1>t, <2>1, <2>3
    <3>2. \A s \in OpenAt(v) : corr[s] = corr[r] <=> s = r
      BY <2>1 DEF RequestsApart, OpenAt
    <3> QED
      BY <1>0, <2>2, <3>1, <3>2
  <2>4. CASE v # worker[r]
    <3>1. r \notin OpenAt(v) /\ pending'[v] = pending[v]
      BY <1>t, <2>1, <2>4 DEF OpenAt
    <3> QED
      BY <1>0, <2>2, <3>1
  <2> QED
    BY <2>3, <2>4
<1>4. ASSUME NEW r \in Requests, NEW w \in Workers, NEW k \in Ids,
             EnrichCustomer(r, w, k)
      PROVE  pending'[v] = {corr'[s] : s \in OpenAt(v)'}
  <2>1. /\ pc[r] = "idle" /\ pc'[r] = "sending" /\ worker'[r] = w /\ corr'[r] = k
        /\ \A s \in Requests \ {r} :
             pc'[s] = pc[s] /\ worker'[s] = worker[s] /\ corr'[s] = corr[s]
    BY <1>4 DEF TypeOK, ClientsOK, EnrichCustomer
  <2>2. pending'[v] = IF v = w THEN pending[v] \cup {k} ELSE pending[v]
    BY <1>t, <1>4 DEF EnrichCustomer
  <2>3. /\ r \notin OpenAt(v)
        /\ OpenAt(v)' = IF v = w THEN OpenAt(v) \cup {r} ELSE OpenAt(v)
    BY <2>1 DEF OpenAt, Open
  <2>4. \A s \in OpenAt(v) : corr'[s] = corr[s]
    BY <2>1, <2>3 DEF OpenAt
  <2> QED
    BY <1>0, <2>1, <2>2, <2>3, <2>4
<1>5. ASSUME NEW r \in Requests, Publish(r) \/ RepeatPublish(r) \/ Sent(r)
      PROVE  pending'[v] = {corr'[s] : s \in OpenAt(v)'}
  <2>1. OpenAt(v)' = OpenAt(v) /\ corr' = corr /\ pending' = pending
    BY <1>5, SendFrame DEF OpenAt
  <2> QED
    BY <1>0, <2>1
<1>6. ASSUME NEW r \in Requests, NEW w \in Workers, Refused(r, w)
      PROVE  pending'[v] = {corr'[s] : s \in OpenAt(v)'}
  <2>1. OpenAt(v)' = OpenAt(v) /\ corr' = corr /\ pending' = pending
    BY <1>6 DEF TypeOK, ClientsOK, Refused, OpenAt, Open
  <2> QED
    BY <1>0, <2>1
<1>7. CASE ReplyFault
  <2>1. OpenAt(v)' = OpenAt(v) /\ corr' = corr /\ pending' = pending
    BY <1>7, FaultFrame DEF OpenAt
  <2> QED
    BY <1>0, <2>1
<1> QED
  BY <1>1, <1>2, <1>3, <1>4, <1>5, <1>6, <1>7, Steps
-----------------------------------------------------------------------------
(***************************************************************************)
(* Records, replies and futures.                                           *)
(***************************************************************************)

\* A request that is open after a step was open before it, as it is, unless
\* it has just drawn a correlation id that was never drawn.
LEMMA OpenBefore ==
  ASSUME TypeOK, Next, NEW r \in Requests, pc'[r] \in Open
  PROVE  \/ /\ pc[r] \in Open /\ worker'[r] = worker[r] /\ corr'[r] = corr[r]
            /\ pc'[r] = "sending" => pc[r] = "sending"
         \/ /\ pc[r] = "idle" /\ corr'[r] \notin drawn
            /\ replies' = replies /\ requests' = requests
<1> DEFINE Same == /\ pc[r] \in Open /\ worker'[r] = worker[r] /\ corr'[r] = corr[r]
                   /\ pc'[r] = "sending" => pc[r] = "sending"
           New  == /\ pc[r] = "idle" /\ corr'[r] \notin drawn
                   /\ replies' = replies /\ requests' = requests
<1>1. ASSUME NEW w \in Workers, WorkerStep(w)
      PROVE  Same
  BY <1>1, WorkerFrame
<1>2. ASSUME NEW w \in Workers, Crash(w)
      PROVE  Same
  <2>1. OpenAt(w) \in SUBSET Requests /\ Forget(OpenAt(w))
    BY <1>2, Forgetting
  <2> QED
    BY <2>1, ForgetFrame DEF Open
<1>3. ASSUME NEW s \in Requests, SendFails(s) \/ Timeout(s) \/ Resume(s)
      PROVE  Same
  <2>1. {s} \in SUBSET Requests /\ Forget({s})
    BY <1>3, Forgetting
  <2> QED
    BY <2>1, ForgetFrame DEF Open
<1>4. ASSUME NEW s \in Requests, NEW w \in Workers, NEW k \in Ids,
             EnrichCustomer(s, w, k)
      PROVE  Same \/ New
  <2>1. CASE s = r
    BY <1>4, <2>1 DEF TypeOK, ClientsOK, EnrichCustomer, Fresh, topics
  <2>2. CASE s # r
    BY <1>4, <2>2 DEF TypeOK, ClientsOK, EnrichCustomer
  <2> QED
    BY <2>1, <2>2
<1>5. ASSUME NEW s \in Requests, Publish(s) \/ RepeatPublish(s) \/ Sent(s)
      PROVE  Same
  BY <1>5, SendFrame
<1>6. ASSUME NEW s \in Requests, NEW w \in Workers, Refused(s, w)
      PROVE  Same
  BY <1>6 DEF TypeOK, ClientsOK, Refused, Open
<1>7. CASE ReplyFault
  BY <1>7, FaultFrame
<1> QED
  BY <1>1, <1>2, <1>3, <1>4, <1>5, <1>6, <1>7, Steps

\* Message m is genuine after the step.
StillGenuine(m) ==
  /\ m.id \in Published'
  /\ \A r \in Requests : pc'[r] \in Open /\ corr'[r] = m.id => m.about = r

\* A message stays about the request that is open under its id: a request
\* opened later draws another id.
LEMMA GenuineStays ==
  ASSUME TypeOK, RequestsApart, MessagesInv, Next, NEW m, Genuine(m)
  PROVE  StillGenuine(m)
<1>1. Published \subseteq Published'
  BY TopicsStep DEF Kept, MessagesInv, Published
<1>2. ASSUME NEW r \in Requests, pc'[r] \in Open, corr'[r] = m.id
      PROVE  m.about = r
  BY <1>2, OpenBefore DEF Genuine, MessagesInv
<1> QED
  BY <1>1, <1>2 DEF Genuine, StillGenuine

\* A reply is a copy of a published record, and so as genuine.
LEMMA ReplyGenuine ==
  ASSUME MessagesInv, NEW j \in DOMAIN replies
  PROVE  Genuine(replies[j])
BY DEF MessagesInv, Copy, Genuine

\* The records of an id are finitely many.
LEMMA RecordsFinite ==
  ASSUME requests \in Seq(Message), NEW id
  PROVE  /\ IsFiniteSet(Records(id)) /\ Cardinality(Records(id)) \in Nat
<1>1. DOMAIN requests = 1 .. Len(requests) /\ Len(requests) \in Nat
  OBVIOUS
<1>2. Records(id) \in SUBSET (1 .. Len(requests)) /\ IsFiniteSet(1 .. Len(requests))
  BY <1>1, FS_Interval DEF Records
<1> QED
  BY <1>2, FS_Subset, FS_CardinalityType

\* Reply m is a copy after the step.
StillCopy(m) ==
  /\ m.of \in DOMAIN requests'
  /\ m.id = requests'[m.of].id /\ m.about = requests'[m.of].about

\* Every step keeps the topics copies of what was published by the request
\* that drew its id, which publishes it again only when a send is repeated.
LEMMA MessagesStep ==
  TypeOK /\ RequestsApart /\ MessagesInv /\ Next => MessagesInv'
<1> SUFFICES ASSUME TypeOK, RequestsApart, MessagesInv, Next PROVE MessagesInv'
  OBVIOUS
<1>t. /\ requests \in Seq(Message) /\ replies \in Seq(Answer) /\ again \in Nat
      /\ CountsOK /\ HandlersOK /\ faults \in Nat
  BY FaultsAssumption DEF TypeOK, HandlersOK, RepliesOK, CountsOK
<1>g. RequestsGrow /\ RepliesGrow /\ Kept
  BY TopicsStep DEF MessagesInv
<1>c. again <= again' /\ again' \in Nat
  <2>1. CountsOK' /\ again <= again'
    BY <1>t, CountsStep
  <2> QED
    BY <2>1, FaultsAssumption DEF CountsOK
<1>1. drawn \subseteq drawn'
  <2>1. CASE \E w \in Workers : WorkerStep(w)
    BY <2>1, WorkerFrame
  <2>2. CASE \/ \E w \in Workers : Crash(w)
             \/ \E r \in Requests : SendFails(r) \/ Timeout(r) \/ Resume(r)
    BY <2>2, Forgetting, ForgetFrame
  <2>3. CASE \E r \in Requests, w \in Workers : Refused(r, w)
    BY <2>3 DEF Refused
  <2>4. CASE \E r \in Requests, w \in Workers, k \in Ids : EnrichCustomer(r, w, k)
    BY <2>4 DEF EnrichCustomer
  <2>5. CASE \E r \in Requests : Publish(r) \/ RepeatPublish(r) \/ Sent(r)
    BY <2>5, SendFrame
  <2>6. CASE ReplyFault
    BY <2>6, FaultFrame
  <2> QED
    BY <2>1, <2>2, <2>3, <2>4, <2>5, <2>6, Steps
<1>a. \A n, m, p \in Nat : n <= 1 + m /\ m <= p => n <= 1 + p
  OBVIOUS
\* What a request that has a record may not do.
<1>2. ASSUME NEW r \in Requests, pc'[r] = "sending"
      PROVE  corr'[r] \notin Published
  BY <1>2, OpenBefore DEF Open, MessagesInv
\* Each conjunct, when a request is appended or not.
<1> DEFINE Sound == /\ Published' \subseteq drawn'
                    /\ \A r \in Requests : pc'[r] = "sending" => corr'[r] \notin Published'
                    /\ \A k \in DOMAIN requests' : StillGenuine(requests'[k])
                    /\ \A id \in Ids : Cardinality(Records(id)') <= 1 + again'
<1>3. \A k \in DOMAIN requests : StillGenuine(requests[k])
  BY GenuineStays DEF MessagesInv
<1>4. ASSUME requests' = requests
      PROVE  Sound
  <2>1. Published' = Published /\ \A id \in Ids : Records(id)' = Records(id)
    BY <1>4 DEF Published, Records
  <2>2. ASSUME NEW id \in Ids
        PROVE  Cardinality(Records(id)') <= 1 + again'
    <3>1. Cardinality(Records(id)) <= 1 + again /\ Cardinality(Records(id)) \in Nat
      BY <1>t, RecordsFinite DEF MessagesInv
    <3>2. Records(id)' = Records(id)
      BY <2>1
    <3> QED
      BY <1>t, <1>c, <1>a, <3>1, <3>2
  <2>3. Published' \subseteq drawn'
    BY <1>1, <2>1 DEF MessagesInv
  <2>4. \A k \in DOMAIN requests' : StillGenuine(requests'[k])
    BY <1>3, <1>4
  <2>5. \A r \in Requests : pc'[r] = "sending" => corr'[r] \notin Published'
    BY <1>2, <2>1
  <2> QED
    BY <2>2, <2>3, <2>4, <2>5
<1>5. ASSUME NEW r \in Requests, Publish(r) \/ RepeatPublish(r),
             Asked(r) \in Message, requests' = Append(requests, Asked(r))
      PROVE  Sound
  <2>1. /\ corr' = corr /\ pc[r] \in Open
        /\ \A s \in Requests : pc'[s] \in Open <=> pc[s] \in Open
        /\ \A s \in Requests : pc'[s] = "sending" => pc[s] = "sending" /\ s # r
    BY <1>5, SendFrame
  <2>2. /\ DOMAIN requests' = DOMAIN requests \cup {Len(requests) + 1}
        /\ \A k \in DOMAIN requests : requests'[k] = requests[k]
        /\ requests'[Len(requests) + 1] = Asked(r)
        /\ Len(requests) + 1 \notin DOMAIN requests
    BY <1>t, <1>5, RequestAppended
  <2>3. Asked(r).id = corr[r] /\ Asked(r).about = r /\ corr[r] \in drawn
    BY <2>1 DEF Asked, RequestsApart
  <2>4. Published' = Published \cup {corr[r]}
    BY <2>2, <2>3 DEF Published
  <2>5. \A s \in Requests : pc'[s] = "sending" => corr'[s] \notin Published'
    BY <1>2, <2>1, <2>4 DEF RequestsApart, Open
  <2>6. Published' \subseteq drawn'
    BY <1>1, <2>3, <2>4 DEF MessagesInv
  <2>7. StillGenuine(Asked(r))
    BY <2>1, <2>3, <2>4 DEF StillGenuine, RequestsApart
  <2>8. \A k \in DOMAIN requests' : StillGenuine(requests'[k])
    BY <1>3, <2>2, <2>7
  <2>9. ASSUME NEW id \in Ids
        PROVE  Cardinality(Records(id)') <= 1 + again'
    <3> DEFINE c == Cardinality(Records(id))
    <3>1. /\ IsFiniteSet(Records(id)) /\ c \in Nat /\ c <= 1 + again
      BY <1>t, RecordsFinite DEF MessagesInv
    <3>2. CASE corr[r] # id
      <4>1. Records(id)' = Records(id)
        BY <2>2, <2>3, <3>2 DEF Records
      <4>2. c <= 1 + again'
        BY <1>t, <1>c, <1>a, <3>1, Zenon
      <4> QED
        BY <4>1, <4>2
    <3>3. CASE corr[r] = id
      <4>1. Records(id)' = Records(id) \cup {Len(requests) + 1}
        BY <2>2, <2>3, <3>3 DEF Records
      <4>2. Len(requests) + 1 \notin Records(id)
        BY <2>2 DEF Records
      <4>3. Cardinality(Records(id) \cup {Len(requests) + 1}) = c + 1
        BY <3>1, <4>2, FS_AddElement
      <4>4. c = 0 \/ again' = again + 1
        <5>1. CASE Publish(r)
          <6>1. corr[r] \notin Published
            BY <5>1 DEF Publish, MessagesInv
          <6>2. Records(id) = {}
            BY <3>3, <6>1 DEF Records, Published
          <6> QED
            BY <6>2, FS_EmptySet
        <5>2. CASE RepeatPublish(r)
          BY <5>2 DEF RepeatPublish, Repeating
        <5> QED
          BY <1>5, <5>1, <5>2
      <4>5. c + 1 <= 1 + again'
        <5>1. CASE c = 0
          <6>1. \A m \in Nat : 0 + 1 <= 1 + m
            OBVIOUS
          <6>2. 0 + 1 <= 1 + again'
            BY <1>c, <6>1, Zenon
          <6> QED
            BY <5>1, <6>2, Zenon
        <5>2. CASE again' = again + 1
          <6>1. \A n, m \in Nat : n <= 1 + m => n + 1 <= 1 + (m + 1)
            OBVIOUS
          <6>2. c + 1 <= 1 + (again + 1)
            BY <1>t, <3>1, <6>1, Zenon
          <6> QED
            BY <5>2, <6>2, Zenon
        <5> QED
          BY <4>4, <5>1, <5>2
      <4> QED
        BY <4>1, <4>3, <4>5
    <3> QED
      BY <3>2, <3>3
  <2> HIDE DEF StillGenuine
  <2> QED
    BY <2>5, <2>6, <2>8, <2>9
<1>6. Sound
  <2> HIDE DEF Sound
  <2> QED
    BY <1>g, <1>4, <1>5 DEF RequestsGrow
<1>7. \A j \in DOMAIN replies' : StillCopy(replies'[j])
  <2>1. ASSUME NEW m, Copy(m)
        PROVE  StillCopy(m)
    BY <1>g, <2>1 DEF Copy, StillCopy, Kept
  <2>2. \A j \in DOMAIN replies : StillCopy(replies[j])
    BY <2>1 DEF MessagesInv
  <2>3. CASE replies' = replies
    BY <2>2, <2>3
  <2>4. ASSUME NEW m \in Answer, replies' = Append(replies, m), Copy(m)
        PROVE  \A j \in DOMAIN replies' : StillCopy(replies'[j])
    <3>1. /\ DOMAIN replies' = DOMAIN replies \cup {Len(replies) + 1}
          /\ \A k \in DOMAIN replies : replies'[k] = replies[k]
          /\ replies'[Len(replies) + 1] = m
      BY <1>t, <2>4, ReplyAppended
    <3> QED
      BY <2>1, <2>2, <2>4, <3>1
  <2> QED
    BY <1>g, <2>3, <2>4 DEF RepliesGrow
<1> QED
  BY <1>6, <1>7 DEF MessagesInv, Genuine, StillGenuine, Copy, StillCopy

\* Every step keeps a future that is done with an open request, holding the
\* reply to it: deliver_reply finds the id in _pending and the reply repeats
\* what that request asked.
LEMMA FuturesStep ==
  /\ TypeOK /\ RequestsApart /\ PendingExact /\ MessagesInv /\ FuturesInv
  /\ Next
  => FuturesInv'
<1> SUFFICES ASSUME TypeOK, RequestsApart, PendingExact, MessagesInv, FuturesInv,
                    Next, NEW k \in Ids, future'[k] # None
             PROVE  \E r \in Requests :
                       /\ pc'[r] \in Open /\ corr'[r] = k /\ future'[k] = r
                       /\ \E j \in DOMAIN replies' : replies'[j].id = k
  BY DEF FuturesInv
<1> DEFINE Held == \E r \in Requests :
                      /\ pc'[r] \in Open /\ corr'[r] = k /\ future'[k] = r
                      /\ \E j \in DOMAIN replies' : replies'[j].id = k
<1>g. Kept
  BY TopicsStep DEF MessagesInv
\* A future that stays is held by the request that held it.
<1>1. ASSUME future'[k] = future[k],
             \A r \in Requests :
                pc[r] \in Open /\ corr[r] = k => pc'[r] \in Open /\ corr'[r] = k
      PROVE  Held
  <2>1. PICK r \in Requests :
          /\ pc[r] \in Open /\ corr[r] = k /\ future[k] = r
          /\ \E j \in DOMAIN replies : replies[j].id = k
    BY <1>1 DEF FuturesInv
  <2>2. \E j \in DOMAIN replies' : replies'[j].id = k
    BY <1>g, <2>1 DEF Kept
  <2> QED
    BY <1>1, <2>1, <2>2
<1>2. ASSUME NEW rs \in SUBSET Requests, Forget(rs), \A r \in rs : pc[r] \in Open
      PROVE  Held
  <2>1. future'[k] = future[k] /\ \A r \in rs : corr[r] # k
    BY <1>2, ForgetFrame
  <2> QED
    BY <1>1, <1>2, <2>1, ForgetFrame
<1>3. ASSUME NEW w \in Workers, ConsumeReply(w)
      PROVE  Held
  <2> DEFINE n == position[GroupOf[w]]
             m == replies[n]
  <2>1. /\ n \in DOMAIN replies
        /\ pc' = pc /\ corr' = corr /\ replies' = replies
    <3>1. from[w] \in Nat \ {0} /\ GroupOf[w] \in Groups
      BY <1>3 DEF TypeOK, RepliesOK, ConsumeReply, Groups
    <3>2. /\ n \in 0 .. Len(replies) + 1 /\ from[w] <= n
          /\ DOMAIN replies = 1 .. Len(replies) /\ Len(replies) \in Nat
      BY <3>1 DEF TypeOK, RepliesOK
    <3>3. n <= Len(replies) /\ pc' = pc /\ corr' = corr /\ replies' = replies
      BY <1>3 DEF ConsumeReply
    <3> QED
      BY <3>1, <3>2, <3>3
  <2>2. CASE future'[k] = future[k]
    BY <1>1, <2>1, <2>2
  <2>3. CASE future'[k] # future[k]
    <3>1. m.id = k /\ k \in pending[w] /\ future'[k] = m.about
      BY <1>3, <2>3 DEF TypeOK, ClientsOK, ConsumeReply, Deliver
    <3>2. PICK r \in Requests : pc[r] \in Open /\ corr[r] = k
      BY <3>1 DEF PendingExact, OpenAt
    <3>3. m.about = r
      BY <2>1, <3>1, <3>2, ReplyGenuine DEF Genuine
    <3> QED
      BY <2>1, <3>1, <3>2, <3>3
  <2> QED
    BY <2>2, <2>3
<1>4. ASSUME NEW w \in Workers, WorkerStep(w), ~ConsumeReply(w)
      PROVE  Held
  <2>1. future' = future
    BY <1>4 DEF WorkerStep, StartProducer, StartRequestConsumer, StartReplyConsumer,
                LocateReplies, LeaveUnread, StopKafka, Assign, Rebalance, Evict,
                Notice, TakeRequest, HandleRequest, client
  <2> QED
    BY <1>1, <1>4, <2>1, WorkerFrame
<1>5. ASSUME NEW w \in Workers, Crash(w)
      PROVE  Held
  BY <1>2, <1>5, Forgetting
<1>6. ASSUME NEW r \in Requests, SendFails(r) \/ Timeout(r) \/ Resume(r)
      PROVE  Held
  BY <1>2, <1>6, Forgetting
<1>7. ASSUME NEW s \in Requests, NEW w \in Workers, NEW j \in Ids,
             EnrichCustomer(s, w, j)
      PROVE  Held
  <2>1. /\ pc[s] \notin Open /\ future' = future
        /\ \A r \in Requests \ {s} : pc'[r] = pc[r] /\ corr'[r] = corr[r]
    BY <1>7 DEF TypeOK, ClientsOK, EnrichCustomer, Open
  <2> QED
    BY <1>1, <2>1
<1>8. ASSUME NEW r \in Requests, Publish(r) \/ RepeatPublish(r) \/ Sent(r)
      PROVE  Held
  BY <1>1, <1>8, SendFrame
<1>9. ASSUME NEW r \in Requests, NEW w \in Workers, Refused(r, w)
      PROVE  Held
  <2>1. /\ future' = future /\ corr' = corr
        /\ \A s \in Requests : pc'[s] \in Open <=> pc[s] \in Open
    BY <1>9 DEF TypeOK, ClientsOK, Refused, Open
  <2> QED
    BY <1>1, <2>1
<1>10. CASE ReplyFault
  BY <1>1, <1>10, FaultFrame
<1> QED
  BY <1>3, <1>4, <1>5, <1>6, <1>7, <1>8, <1>9, <1>10, Steps
-----------------------------------------------------------------------------
(***************************************************************************)
(* The replies to a record.                                                *)
(***************************************************************************)

\* What the next owner may yet reply.
Owing(k) == IF Unread(k) THEN 1 ELSE 0

\* How often a record was or may yet be replied to: R replies, H handlers, D
\* readers before it, and the next owner.
Within(k) ==
  Cardinality(Replied(k)) + Cardinality(Handlers(k)) + Cardinality(Readers(k))
     + Owing(k) <= 1 + again

\* What is counted is finite.
LEMMA Counts ==
  ASSUME TypeOK, CopiesInv, NEW k \in 1 .. Len(requests) + 1
  PROVE  /\ IsFiniteSet(Replied(k)) /\ Cardinality(Replied(k)) \in Nat
         /\ IsFiniteSet(Handlers(k)) /\ Cardinality(Handlers(k)) \in Nat
         /\ IsFiniteSet(Readers(k)) /\ Cardinality(Readers(k)) \in Nat
         /\ again \in Nat /\ Owing(k) \in Nat /\ Within(k)
<1>1. IsFiniteSet(Replied(k))
  <2>1. DOMAIN replies = 1 .. Len(replies) /\ Len(replies) \in Nat
    BY DEF TypeOK, RepliesOK
  <2>2. IsFiniteSet(1 .. Len(replies))
    BY <2>1, FS_Interval
  <2>3. Replied(k) \in SUBSET (1 .. Len(replies))
    BY <2>1 DEF Replied
  <2> QED
    BY <2>2, <2>3, FS_Subset
<1>2. IsFiniteSet(Handlers(k)) /\ IsFiniteSet(Readers(k)) /\ Within(k)
  BY DEF CopiesInv, Within, Owing
<1>3. again \in Nat /\ Owing(k) \in Nat
  BY FaultsAssumption DEF TypeOK, CountsOK, Owing
<1> QED
  BY <1>1, <1>2, <1>3, FS_CardinalityType

\* Taking an element out of a finite set that has it.
LEMMA Removed ==
  ASSUME NEW S, NEW x, IsFiniteSet(S)
  PROVE  /\ IsFiniteSet(S \ {x}) /\ Cardinality(S \ {x}) \in Nat
         /\ Cardinality(S \ {x}) = Cardinality(S) - (IF x \in S THEN 1 ELSE 0)
<1>1. CASE x \in S
  BY <1>1, FS_RemoveElement, FS_CardinalityType
<1>2. CASE x \notin S
  <2>1. S \ {x} = S
    BY <1>2
  <2>2. Cardinality(S) \in Nat
    BY FS_CardinalityType
  <2>3. Cardinality(S) = Cardinality(S) - 0
    BY <2>2
  <2> QED
    BY <1>2, <2>1, <2>2, <2>3
<1> QED
  BY <1>1, <1>2

\* Adding one to a finite set that does not have it.
LEMMA Added ==
  ASSUME NEW S, NEW x, IsFiniteSet(S), x \notin S
  PROVE  /\ IsFiniteSet(S \cup {x}) /\ Cardinality(S \cup {x}) \in Nat
         /\ Cardinality(S \cup {x}) = Cardinality(S) + 1
BY FS_AddElement, FS_CardinalityType

\* The worker that is through with its record is no handler any more; it has
\* replied to that record once, or not at all.
LEMMA FinishCounts ==
  ASSUME TypeOK, CopiesInv, NEW w \in Workers, Finish(w),
         NEW k \in 1 .. Len(requests) + 1
  PROVE  /\ IsFiniteSet(Handlers(k)')
         /\ Cardinality(Handlers(k)') \in Nat /\ Cardinality(Replied(k)') \in Nat
         /\ Cardinality(Replied(k)') + Cardinality(Handlers(k)')
              <= Cardinality(Replied(k)) + Cardinality(Handlers(k))
<1>t. /\ HandlersOK /\ replies \in Seq(Answer)
      /\ handling \in [Workers -> 0 .. Len(requests)]
      /\ IsFiniteSet(Replied(k)) /\ IsFiniteSet(Handlers(k))
      /\ Cardinality(Replied(k)) \in Nat /\ Cardinality(Handlers(k)) \in Nat
  BY Counts DEF TypeOK, HandlersOK, RepliesOK
<1>1. Handlers(k)' = Handlers(k) \ {w}
  <2>1. handling' = [handling EXCEPT ![w] = 0]
    BY <1>t, FinishTypes
  <2> QED
    BY <1>t, <2>1 DEF Handlers
<1>2. /\ IsFiniteSet(Handlers(k)') /\ Cardinality(Handlers(k)') \in Nat
      /\ Cardinality(Handlers(k)') =
           Cardinality(Handlers(k)) - (IF handling[w] = k THEN 1 ELSE 0)
  <2>1. w \in Handlers(k) <=> handling[w] = k
    BY DEF Handlers
  <2> QED
    BY <1>t, <1>1, <2>1, Removed
<1>3. CASE Abandon(w)
  <2>1. Replied(k)' = Replied(k)
    BY <1>3 DEF Abandon, Replied
  <2> QED
    BY <1>t, <1>2, <2>1
<1>4. CASE Reply(w)
  <2>1. /\ Answered(w) \in Answer /\ Answered(w).of = handling[w]
        /\ replies' = Append(replies, Answered(w))
    BY <1>t, <1>4, AnsweredType DEF Reply
  <2>2. /\ DOMAIN replies' = DOMAIN replies \cup {Len(replies) + 1}
        /\ \A j \in DOMAIN replies : replies'[j] = replies[j]
        /\ replies'[Len(replies) + 1].of = handling[w]
        /\ Len(replies) + 1 \notin DOMAIN replies
    BY <1>t, <2>1, ReplyAppended
  <2>3. CASE handling[w] = k
    <3>1. Replied(k)' = Replied(k) \cup {Len(replies) + 1}
      BY <2>2, <2>3 DEF Replied
    <3>2. Len(replies) + 1 \notin Replied(k)
      BY <2>2 DEF Replied
    <3>3. /\ Cardinality(Replied(k)') \in Nat
          /\ Cardinality(Replied(k)') = Cardinality(Replied(k)) + 1
      BY <1>t, <3>1, <3>2, Added
    <3> QED
      BY <1>t, <1>2, <2>3, <3>3
  <2>4. CASE handling[w] # k
    <3>1. Replied(k)' = Replied(k)
      BY <2>2, <2>4 DEF Replied
    <3> QED
      BY <1>t, <1>2, <2>4, <3>1
  <2> QED
    BY <2>3, <2>4
<1> QED
  BY <1>3, <1>4 DEF Finish

\* A worker that loses its place in the partition is no reader any more; what
\* it has read and not committed, the next owner reads again, at the cost of a
\* fault.
LEMMA LeavingCounts ==
  ASSUME TypeOK, CopiesInv, NEW w \in Workers, NEW k \in 1 .. Len(requests) + 1,
         reads' = [reads EXCEPT ![w] = 0],
         \/ owner # w /\ owner' = owner /\ committed' = committed /\ again' = again
         \/ /\ GiveUp(w)
            /\ \/ committed' = reads[w] /\ again' = again
               \/ again' = again + 1
  PROVE  /\ IsFiniteSet(Readers(k)') /\ Cardinality(Readers(k)') \in Nat
         /\ Owing(k)' \in Nat
         /\ Cardinality(Readers(k)') + Owing(k)' + again
              <= Cardinality(Readers(k)) + Owing(k) + again'
<1>t. /\ HandlersOK /\ reads \in [Workers -> 0 .. Len(requests) + 1]
      /\ owner # None => committed <= reads[owner]
      /\ Len(requests) \in Nat /\ again \in Nat /\ committed \in 1 .. Len(requests) + 1
      /\ IsFiniteSet(Readers(k)) /\ Cardinality(Readers(k)) \in Nat
  <2>1. HandlersOK /\ Len(requests) \in Nat
    BY DEF TypeOK, HandlersOK
  <2>2. /\ IsFiniteSet(Readers(k)) /\ Cardinality(Readers(k)) \in Nat
        /\ again \in Nat
    BY Counts
  <2> QED
    BY <2>1, <2>2 DEF HandlersOK
<1>1. Readers(k)' = Readers(k) \ {w}
  BY <1>t DEF Readers
<1>2. /\ IsFiniteSet(Readers(k)') /\ Cardinality(Readers(k)') \in Nat
      /\ Cardinality(Readers(k)') =
           Cardinality(Readers(k)) - (IF reads[w] \in 1 .. k THEN 1 ELSE 0)
  <2>1. w \in Readers(k) <=> reads[w] \in 1 .. k
    BY DEF Readers
  <2> QED
    BY <1>t, <1>1, <2>1, Removed
<1>u. Owing(k) \in {0, 1} /\ Owing(k)' \in {0, 1}
  BY DEF Owing
<1>3. CASE owner # w /\ owner' = owner /\ committed' = committed /\ again' = again
  <2>1. Owing(k)' = Owing(k)
    BY <1>3 DEF Unread, Owing
  <2> QED
    BY <1>t, <1>2, <1>3, <1>u, <2>1
<1>4. CASE GiveUp(w) /\ committed' = reads[w] /\ again' = again
  <2>1. /\ owner = w /\ owner # None /\ owner' = None /\ reads[w] \in Nat
        /\ committed <= reads[w] /\ reads[w] >= 1
    BY <1>t, <1>4, NoneAssumption DEF GiveUp
  <2>2. ~Unread(k) /\ (Unread(k)' <=> reads[w] \in 1 .. k)
    BY <1>4, <2>1 DEF Unread
  <2>3. Owing(k) = 0 /\ Owing(k)' = IF reads[w] \in 1 .. k THEN 1 ELSE 0
    BY <2>2 DEF Owing
  <2>4. CASE reads[w] \in 1 .. k
    BY <1>t, <1>2, <1>4, <2>3, <2>4
  <2>5. CASE reads[w] \notin 1 .. k
    BY <1>t, <1>2, <1>4, <2>3, <2>5
  <2> QED
    BY <2>4, <2>5
<1>5. CASE GiveUp(w) /\ again' = again + 1
  <2>1. Cardinality(Readers(k)') <= Cardinality(Readers(k))
    BY <1>t, <1>2
  <2>2. Owing(k) \in Nat /\ Owing(k)' \in Nat /\ Owing(k)' <= Owing(k) + 1
    BY <1>u
  <2> QED
    BY <1>t, <1>2, <1>5, <2>1, <2>2
<1> QED
  BY <1>3, <1>4, <1>5

\* A record is replied to once more only when something was repeated: it is
\* taken by one who was to read it, replied to by one who handled it, and read
\* again when an owner loses the partition without the commit of what it read.
LEMMA CopiesStep ==
  TypeOK /\ RequestsApart /\ MessagesInv /\ CopiesInv /\ Next => CopiesInv'
<1> SUFFICES ASSUME TypeOK, RequestsApart, MessagesInv, CopiesInv, Next
             PROVE  CopiesInv'
  OBVIOUS
<1> DEFINE Good(k) ==
      /\ IsFiniteSet(Handlers(k)') /\ IsFiniteSet(Readers(k)')
      /\ Cardinality(Replied(k)') + Cardinality(Handlers(k)')
           + Cardinality(Readers(k)') + Owing(k)' <= 1 + again'
<1>t. /\ HandlersOK /\ requests \in Seq(Message) /\ Len(requests) \in Nat
      /\ reads \in [Workers -> 0 .. Len(requests) + 1]
      /\ handling \in [Workers -> 0 .. Len(requests)]
      /\ committed \in 1 .. Len(requests) + 1 /\ replies \in Seq(Answer)
      /\ owner # None => committed <= reads[owner]
  BY DEF TypeOK, HandlersOK, RepliesOK
<1>c. again <= again' /\ again' \in Nat /\ again \in Nat
  <2>1. CountsOK' /\ again <= again' /\ CountsOK
    BY <1>t, CountsStep DEF TypeOK
  <2> QED
    BY <2>1, FaultsAssumption DEF CountsOK
\* Steps that change nothing that counts.
<1>1. ASSUME handler' = handler, replies' = replies,
             NEW k \in 1 .. Len(requests) + 1
      PROVE  Good(k)
  <2>1. /\ Replied(k)' = Replied(k) /\ Handlers(k)' = Handlers(k)
        /\ Readers(k)' = Readers(k) /\ Owing(k)' = Owing(k)
    BY <1>1 DEF Replied, Handlers, Readers, Unread, Owing, handler
  <2> QED
    BY <1>c, <2>1, Counts DEF Within
\* What is published has no reply, no handler, and the readers that the next
\* record had.
<1>2. ASSUME NEW r \in Requests, Publish(r) \/ RepeatPublish(r),
             NEW k \in 1 .. Len(requests') + 1
      PROVE  Good(k)
  <2>1. /\ handler' = handler /\ replies' = replies /\ pc[r] \in Open
        /\ requests' = Append(requests, Asked(r))
    BY <1>2 DEF Publish, RepeatPublish, Open
  <2>2. Len(requests') = Len(requests) + 1
    <3>1. Asked(r) \in Message
      BY <2>1, AskedType DEF TypeOK
    <3> QED
      BY <1>t, <2>1, <3>1, RequestAppended
  <2>3. CASE k = Len(requests) + 2
    <3> DEFINE n == Len(requests) + 1
    <3>1. n \in 1 .. Len(requests) + 1
      BY <1>t
    <3>2. Handlers(k)' = {} /\ Readers(k)' = Readers(n) /\ Owing(k)' = Owing(n)
      BY <1>t, <2>1, <2>3 DEF Handlers, Readers, Unread, Owing, handler
    <3>3. Replied(k)' = {}
      BY <1>t, <2>1, <2>3 DEF Replied, MessagesInv, Copy
    <3>4. Cardinality(Replied(k)') = 0 /\ Cardinality(Handlers(k)') = 0 /\ IsFiniteSet({})
      BY <3>2, <3>3, FS_EmptySet
    <3>5. /\ IsFiniteSet(Readers(n)) /\ Cardinality(Readers(n)) \in Nat
          /\ Cardinality(Replied(n)) \in Nat /\ Cardinality(Handlers(n)) \in Nat
          /\ Owing(n) \in Nat /\ Within(n)
      BY <3>1, Counts
    <3>6. Cardinality(Readers(n)) + Owing(n) <= 1 + again'
      <4> HIDE DEF n
      <4> QED
        BY <1>c, <3>5 DEF Within
    <3>7. /\ Cardinality(Replied(k)') + Cardinality(Handlers(k)')
              + Cardinality(Readers(k)') + Owing(k)'
            = Cardinality(Readers(n)) + Owing(n)
      <4> HIDE DEF n
      <4> QED
        BY <3>2, <3>4, <3>5
    <3> HIDE DEF n
    <3> QED
      BY <3>2, <3>4, <3>5, <3>6, <3>7
  <2>4. CASE k # Len(requests) + 2
    <3>1. k \in 1 .. Len(requests) + 1
      BY <1>t, <2>2, <2>4
    <3> QED
      BY <1>1, <2>1, <3>1
  <2> QED
    BY <2>3, <2>4
\* A record that is taken has one reader less and one handler more.
<1>3. ASSUME NEW w \in Workers, TakeRequest(w), NEW k \in 1 .. Len(requests) + 1
      PROVE  Good(k)
  <2>1. /\ replies' = replies /\ again' = again /\ owner' = owner
        /\ committed' = committed /\ handling[w] = 0 /\ reads[w] \in 1 .. Len(requests)
        /\ handling' = [handling EXCEPT ![w] = reads[w]]
        /\ reads' = [reads EXCEPT ![w] = reads[w] + 1]
    BY <1>t, <1>3 DEF TakeRequest, topics, counts
  <2>2. Replied(k)' = Replied(k) /\ Owing(k)' = Owing(k)
    BY <2>1 DEF Replied, Unread, Owing
  <2>3. CASE reads[w] = k
    <3>1. /\ Handlers(k)' = Handlers(k) \cup {w} /\ w \notin Handlers(k)
          /\ Readers(k)' = Readers(k) \ {w} /\ w \in Readers(k)
      BY <1>t, <2>1, <2>3 DEF Handlers, Readers
    <3>2. /\ IsFiniteSet(Handlers(k)') /\ Cardinality(Handlers(k)') \in Nat
          /\ Cardinality(Handlers(k)') = Cardinality(Handlers(k)) + 1
      BY <3>1, Counts, Added
    <3>3. /\ IsFiniteSet(Readers(k)') /\ Cardinality(Readers(k)') \in Nat
          /\ Cardinality(Readers(k)') = Cardinality(Readers(k)) - 1
      BY <3>1, Counts, Removed
    <3> QED
      BY <1>c, <2>1, <2>2, <3>2, <3>3, Counts DEF Within
  <2>4. CASE reads[w] # k
    <3>1. Handlers(k)' = Handlers(k) /\ Readers(k)' = Readers(k)
      BY <1>t, <2>1, <2>4 DEF Handlers, Readers
    <3> QED
      BY <1>c, <2>1, <2>2, <3>1, Counts DEF Within
  <2> QED
    BY <2>3, <2>4
\* A record that is replied to has one handler less.
<1>4. ASSUME NEW w \in Workers, HandleRequest(w), NEW k \in 1 .. Len(requests) + 1
      PROVE  Good(k)
  <2>1. /\ Finish(w) /\ reads' = reads /\ owner' = owner /\ committed' = committed
        /\ again' = again
    BY <1>4 DEF HandleRequest, counts
  <2>2. Readers(k)' = Readers(k) /\ Owing(k)' = Owing(k)
    BY <2>1 DEF Readers, Unread, Owing
  <2> QED
    BY <1>c, <2>1, <2>2, Counts, FinishCounts DEF Within
\* A worker that ends.
<1>5. ASSUME NEW w \in Workers, StopKafka(w) \/ Crash(w),
             NEW k \in 1 .. Len(requests) + 1
      PROVE  Good(k)
  <2>1. Finish(w) /\ reads' = [reads EXCEPT ![w] = 0] /\ LeaveGroup(w)
    BY <1>5 DEF StopKafka, Crash
  <2>2. \/ owner # w /\ owner' = owner /\ committed' = committed /\ again' = again
        \/ /\ GiveUp(w)
           /\ \/ committed' = reads[w] /\ again' = again
              \/ again' = again + 1
    BY <1>t, <2>1, Ending DEF Harmless, Repeating
  <2>3. /\ IsFiniteSet(Readers(k)') /\ Cardinality(Readers(k)') \in Nat
        /\ Owing(k)' \in Nat
        /\ Cardinality(Readers(k)') + Owing(k)' + again
              <= Cardinality(Readers(k)) + Owing(k) + again'
    BY <2>1, <2>2, LeavingCounts
  <2>4. /\ IsFiniteSet(Handlers(k)')
        /\ Cardinality(Handlers(k)') \in Nat /\ Cardinality(Replied(k)') \in Nat
        /\ Cardinality(Replied(k)') + Cardinality(Handlers(k)')
             <= Cardinality(Replied(k)) + Cardinality(Handlers(k))
    BY <2>1, FinishCounts
  <2>5. /\ IsFiniteSet(Replied(k)) /\ Cardinality(Replied(k)) \in Nat
        /\ IsFiniteSet(Handlers(k)) /\ Cardinality(Handlers(k)) \in Nat
        /\ IsFiniteSet(Readers(k)) /\ Cardinality(Readers(k)) \in Nat
        /\ Owing(k) \in Nat /\ Within(k)
    BY Counts
  <2>6. Cardinality(Replied(k)') + Cardinality(Handlers(k)')
          + Cardinality(Readers(k)') + Owing(k)' <= 1 + again'
    BY <1>c, <2>3, <2>4, <2>5, SMTT(60) DEF Within
  <2> QED
    BY <2>3, <2>4, <2>5, <2>6
\* An owner that hands over, or learns that it did.
<1>6. ASSUME NEW w \in Workers, Rebalance(w) \/ Notice(w),
             NEW k \in 1 .. Len(requests) + 1
      PROVE  Good(k)
  <2>1. /\ reads' = [reads EXCEPT ![w] = 0] /\ handling' = handling
        /\ replies' = replies
    BY <1>6 DEF Rebalance, Notice, topics
  <2>2. \/ owner # w /\ owner' = owner /\ committed' = committed /\ again' = again
        \/ /\ GiveUp(w)
           /\ \/ committed' = reads[w] /\ again' = again
              \/ again' = again + 1
    BY <1>6 DEF Rebalance, Notice, Repeating, counts
  <2>3. /\ IsFiniteSet(Readers(k)') /\ Cardinality(Readers(k)') \in Nat
        /\ Owing(k)' \in Nat
        /\ Cardinality(Readers(k)') + Owing(k)' + again
              <= Cardinality(Readers(k)) + Owing(k) + again'
    BY <2>1, <2>2, LeavingCounts
  <2>4. Handlers(k)' = Handlers(k) /\ Replied(k)' = Replied(k)
    BY <2>1 DEF Handlers, Replied
  <2>5. /\ IsFiniteSet(Replied(k)) /\ Cardinality(Replied(k)) \in Nat
        /\ IsFiniteSet(Handlers(k)) /\ Cardinality(Handlers(k)) \in Nat
        /\ IsFiniteSet(Readers(k)) /\ Cardinality(Readers(k)) \in Nat
        /\ Owing(k) \in Nat /\ Within(k)
    BY Counts
  <2>6. Cardinality(Replied(k)') + Cardinality(Handlers(k)')
          + Cardinality(Readers(k)') + Owing(k)' <= 1 + again'
    BY <1>c, <2>3, <2>4, <2>5, SMTT(60) DEF Within
  <2> QED
    BY <2>3, <2>4, <2>5, <2>6
\* An owner that is evicted reads on: one fault.
<1>7. ASSUME NEW w \in Workers, Evict(w), NEW k \in 1 .. Len(requests) + 1
      PROVE  Good(k)
  <2>1. /\ reads' = reads /\ handling' = handling /\ replies' = replies
        /\ again' = again + 1 /\ owner = w
    BY <1>7 DEF Evict, GiveUp, Repeating, topics
  <2>2. /\ Replied(k)' = Replied(k) /\ Handlers(k)' = Handlers(k)
        /\ Readers(k)' = Readers(k) /\ Owing(k) = 0 /\ Owing(k)' \in {0, 1}
    BY <2>1, NoneAssumption DEF Replied, Handlers, Readers, Unread, Owing
  <2> QED
    BY <1>c, <2>1, <2>2, Counts DEF Within
\* The next owner: what is unread has a reader.
<1>8. ASSUME NEW w \in Workers, Assign(w), NEW k \in 1 .. Len(requests) + 1
      PROVE  Good(k)
  <2>1. /\ handling' = handling /\ replies' = replies /\ again' = again
        /\ owner = None /\ owner' # None /\ reads[w] = 0
        /\ reads' = [reads EXCEPT ![w] = committed]
    BY <1>8, NoneAssumption DEF Assign, topics, counts
  <2>2. /\ Replied(k)' = Replied(k) /\ Handlers(k)' = Handlers(k)
        /\ Owing(k)' = 0
    BY <2>1 DEF Replied, Handlers, Unread, Owing
  <2>3. CASE committed <= k
    <3>1. Readers(k)' = Readers(k) \cup {w} /\ w \notin Readers(k) /\ Owing(k) = 1
      BY <1>t, <2>1, <2>3 DEF Readers, Unread, Owing
    <3>2. /\ IsFiniteSet(Readers(k)') /\ Cardinality(Readers(k)') \in Nat
          /\ Cardinality(Readers(k)') = Cardinality(Readers(k)) + 1
      BY <3>1, Counts, Added
    <3> QED
      BY <1>c, <2>1, <2>2, <3>1, <3>2, Counts DEF Within
  <2>4. CASE ~(committed <= k)
    <3>1. Readers(k)' = Readers(k)
      BY <1>t, <2>1, <2>4 DEF Readers
    <3>2. /\ IsFiniteSet(Replied(k)) /\ Cardinality(Replied(k)) \in Nat
          /\ IsFiniteSet(Handlers(k)) /\ Cardinality(Handlers(k)) \in Nat
          /\ IsFiniteSet(Readers(k)) /\ Cardinality(Readers(k)) \in Nat
          /\ Owing(k) \in Nat /\ Within(k)
      BY Counts
    <3> QED
      BY <1>c, <2>1, <2>2, <3>1, <3>2 DEF Within
  <2> QED
    BY <2>3, <2>4
\* A member that is never read has read nothing: what it was to read is
\* unread again.
<1>9. ASSUME NEW w \in Workers, LeaveUnread(w), NEW k \in 1 .. Len(requests) + 1
      PROVE  Good(k)
  <2>1. /\ handling' = handling /\ replies' = replies /\ again' = again
        /\ reads' = [reads EXCEPT ![w] = 0] /\ committed' = committed
        /\ owner' = (IF owner = w THEN None ELSE owner) /\ phase[w] = "half"
    BY <1>9 DEF LeaveUnread, topics, counts
  <2>2. owner = w => GiveUp(w) /\ committed' = reads[w]
    BY <1>t, <2>1, NoneAssumption DEF HandlersOK, GiveUp
  <2>3. /\ IsFiniteSet(Readers(k)') /\ Cardinality(Readers(k)') \in Nat
        /\ Owing(k)' \in Nat
        /\ Cardinality(Readers(k)') + Owing(k)' + again
              <= Cardinality(Readers(k)) + Owing(k) + again'
    BY <2>1, <2>2, LeavingCounts
  <2>4. Handlers(k)' = Handlers(k) /\ Replied(k)' = Replied(k)
    BY <2>1 DEF Handlers, Replied
  <2>5. /\ IsFiniteSet(Replied(k)) /\ Cardinality(Replied(k)) \in Nat
        /\ IsFiniteSet(Handlers(k)) /\ Cardinality(Handlers(k)) \in Nat
        /\ IsFiniteSet(Readers(k)) /\ Cardinality(Readers(k)) \in Nat
        /\ Owing(k) \in Nat /\ Within(k)
    BY Counts
  <2>6. Cardinality(Replied(k)') + Cardinality(Handlers(k)')
          + Cardinality(Readers(k)') + Owing(k)' <= 1 + again'
    BY <1>c, <2>3, <2>4, <2>5, SMTT(60) DEF Within
  <2> QED
    BY <2>3, <2>4, <2>5, <2>6
\* A reply that is sent again.
<1>10. ASSUME NEW j \in DOMAIN replies, RepeatReply(j), NEW k \in 1 .. Len(requests) + 1
       PROVE  Good(k)
  <2>1. /\ handler' = handler /\ again' = again + 1 /\ replies[j] \in Answer
        /\ replies' = Append(replies, replies[j])
    BY <1>t, <1>10 DEF RepeatReply, Repeating
  <2>2. /\ Handlers(k)' = Handlers(k) /\ Readers(k)' = Readers(k)
        /\ Owing(k)' = Owing(k)
    BY <2>1 DEF Handlers, Readers, Unread, Owing, handler
  <2>3. /\ DOMAIN replies' = DOMAIN replies \cup {Len(replies) + 1}
        /\ \A i \in DOMAIN replies : replies'[i] = replies[i]
        /\ Len(replies) + 1 \notin DOMAIN replies
    BY <1>t, <2>1, ReplyAppended
  <2>4. /\ Replied(k)' = Replied(k) \/ Replied(k)' = Replied(k) \cup {Len(replies) + 1}
        /\ Len(replies) + 1 \notin Replied(k)
    BY <2>3 DEF Replied
  <2>5. /\ Cardinality(Replied(k)') \in Nat
        /\ Cardinality(Replied(k)') <= Cardinality(Replied(k)) + 1
    <3>1. IsFiniteSet(Replied(k)) /\ Cardinality(Replied(k)) \in Nat
      BY Counts
    <3>2. /\ Cardinality(Replied(k) \cup {Len(replies) + 1}) \in Nat
          /\ Cardinality(Replied(k) \cup {Len(replies) + 1}) = Cardinality(Replied(k)) + 1
      BY <2>4, <3>1, Added
    <3>3. CASE Replied(k)' = Replied(k)
      BY <3>1, <3>3
    <3>4. CASE Replied(k)' = Replied(k) \cup {Len(replies) + 1}
      BY <3>1, <3>2, <3>4
    <3> QED
      BY <2>4, <3>3, <3>4
  <2>6. /\ IsFiniteSet(Replied(k)) /\ Cardinality(Replied(k)) \in Nat
        /\ IsFiniteSet(Handlers(k)) /\ Cardinality(Handlers(k)) \in Nat
        /\ IsFiniteSet(Readers(k)) /\ Cardinality(Readers(k)) \in Nat
        /\ Owing(k) \in Nat /\ Within(k)
    BY Counts
  <2> QED
    BY <1>c, <2>1, <2>2, <2>5, <2>6 DEF Within
\* No other step touches the handlers or the topics.
<1>11. ASSUME \/ \E w \in Workers :
                    \/ StartProducer(w) \/ StartRequestConsumer(w)
                    \/ StartReplyConsumer(w) \/ LocateReplies(w) \/ ConsumeReply(w)
              \/ \E r \in Requests, w \in Workers : Refused(r, w)
              \/ \E r \in Requests, w \in Workers, k \in Ids : EnrichCustomer(r, w, k)
              \/ \E r \in Requests : Sent(r) \/ SendFails(r) \/ Timeout(r) \/ Resume(r)
              \/ \E g \in Groups : LoseReplies(g)
       PROVE  handler' = handler /\ replies' = replies
  BY <1>11 DEF StartProducer, StartRequestConsumer, StartReplyConsumer, LocateReplies,
               ConsumeReply, Refused, EnrichCustomer, Sent, SendFails, Timeout, Resume,
               End, LoseReplies, topics
<1>12. ASSUME NEW k \in 1 .. Len(requests') + 1
       PROVE  Good(k)
  <2> HIDE DEF Good
  <2>1. CASE k \in 1 .. Len(requests) + 1
    BY <1>1, <1>2, <1>3, <1>4, <1>5, <1>6, <1>7, <1>8, <1>9, <1>10, <1>11, <2>1, Steps
       DEF WorkerStep, ReplyFault
  <2>2. CASE k \notin 1 .. Len(requests) + 1
    <3>1. requests' # requests
      BY <2>2
    <3>2. PICK r \in Requests : Publish(r) \/ RepeatPublish(r)
      BY <3>1, TopicsStep DEF RequestsGrow, MessagesInv
    <3> QED
      BY <1>2, <3>2
  <2> QED
    BY <2>1, <2>2
<1> QED
  BY <1>12 DEF CopiesInv, Owing
-----------------------------------------------------------------------------
(***************************************************************************)
(* The requests that the group has passed.                                 *)
(***************************************************************************)

\* A request that somebody has taken stays taken: a worker lets it go when it
\* has replied or is counted among those that did not.
LEMMA TakenStays ==
  ASSUME TypeOK, RequestsApart, MessagesInv, Next, NEW k \in Nat \ {0}, Taken(k)
  PROVE  Taken(k)'
<1>t. /\ HandlersOK /\ handling \in [Workers -> 0 .. Len(requests)]
      /\ replies \in Seq(Answer)
  BY DEF TypeOK, HandlersOK, RepliesOK
<1>1. ASSUME NEW j \in DOMAIN replies, replies[j].of = k
      PROVE  Taken(k)'
  <2>1. j \in DOMAIN replies' /\ replies'[j] = replies[j]
    BY TopicsStep DEF MessagesInv, Kept
  <2> QED
    BY <1>1, <2>1 DEF Taken
<1>2. ASSUME handling' = handling, dropped' = dropped
      PROVE  Taken(k)'
  BY <1>1, <1>2 DEF Taken
<1>3. ASSUME NEW w \in Workers, Finish(w)
      PROVE  Taken(k)'
  <2>1. handling' = [handling EXCEPT ![w] = 0]
    BY <1>3 DEF Finish
  <2>2. dropped \subseteq dropped'
    BY <1>3 DEF Finish, Reply, Abandon
  <2>3. CASE k \in dropped
    BY <2>2, <2>3 DEF Taken
  <2>4. CASE handling[w] = k
    <3>1. CASE Abandon(w)
      BY <2>4, <3>1 DEF Abandon, Taken
    <3>2. CASE Reply(w)
      <4>1. /\ Answered(w) \in Answer /\ Answered(w).of = k
            /\ replies' = Append(replies, Answered(w))
        BY <1>t, <2>4, <3>2, AnsweredType DEF Reply
      <4>2. /\ Len(replies) + 1 \in DOMAIN replies'
            /\ replies'[Len(replies) + 1] = Answered(w)
        BY <1>t, <4>1, ReplyAppended
      <4> QED
        BY <4>1, <4>2 DEF Taken
    <3> QED
      BY <1>3, <3>1, <3>2 DEF Finish
  <2>5. ASSUME NEW v \in Workers, handling[v] = k, v # w
        PROVE  Taken(k)'
    <3>1. handling'[v] = k
      BY <1>t, <2>1, <2>5
    <3> QED
      BY <3>1 DEF Taken
  <2> QED
    BY <1>1, <2>3, <2>4, <2>5 DEF Taken
<1>4. ASSUME NEW w \in Workers, TakeRequest(w)
      PROVE  Taken(k)'
  <2>1. /\ handling[w] = 0 /\ handling' = [handling EXCEPT ![w] = reads[w]]
        /\ dropped' = dropped \ {reads[w]}
    BY <1>4 DEF TakeRequest
  <2>2. CASE reads[w] = k
    <3>1. handling'[w] = k
      BY <1>t, <2>1, <2>2
    <3> QED
      BY <3>1 DEF Taken
  <2>3. CASE reads[w] # k /\ k \in dropped
    BY <2>1, <2>3 DEF Taken
  <2>4. ASSUME NEW v \in Workers, handling[v] = k
        PROVE  Taken(k)'
    <3>1. v # w
      BY <2>1, <2>4
    <3>2. handling'[v] = k
      BY <1>t, <2>1, <2>4, <3>1
    <3> QED
      BY <3>2 DEF Taken
  <2> QED
    BY <1>1, <2>2, <2>3, <2>4 DEF Taken
<1>5. ASSUME NEW w \in Workers, WorkerStep(w) \/ Crash(w)
      PROVE  \/ Finish(w) \/ TakeRequest(w)
             \/ handling' = handling /\ dropped' = dropped
  BY <1>5 DEF WorkerStep, StartProducer, StartRequestConsumer, StartReplyConsumer,
              LocateReplies, LeaveUnread, StopKafka, Crash, Assign, Rebalance, Evict,
              Notice, HandleRequest, ConsumeReply, handler
<1>6. ASSUME \/ \E r \in Requests, w \in Workers : Refused(r, w)
             \/ \E r \in Requests, w \in Workers, i \in Ids : EnrichCustomer(r, w, i)
             \/ \E r \in Requests : Publish(r) \/ RepeatPublish(r) \/ Sent(r)
             \/ \E r \in Requests : SendFails(r) \/ Timeout(r) \/ Resume(r)
             \/ ReplyFault
      PROVE  handling' = handling /\ dropped' = dropped
  BY <1>6 DEF Refused, EnrichCustomer, Publish, RepeatPublish, Sent, SendFails,
              Timeout, Resume, End, ReplyFault, LoseReplies, RepeatReply, handler
<1> QED
  BY <1>2, <1>3, <1>4, <1>5, <1>6, Steps

\* The group passes a request only when its owner takes it: an owner begins
\* where the last one was committed, and what is committed was read.
LEMMA SkippedStep ==
  TypeOK /\ RequestsApart /\ MessagesInv /\ NothingSkipped /\ Next => NothingSkipped'
<1> SUFFICES ASSUME TypeOK, RequestsApart, MessagesInv, NothingSkipped, Next
             PROVE  NothingSkipped'
  OBVIOUS
<1>t. /\ HandlersOK /\ reads \in [Workers -> 0 .. Len(requests) + 1]
      /\ handling \in [Workers -> 0 .. Len(requests)]
      /\ committed \in 1 .. Len(requests) + 1 /\ Len(requests) \in Nat
      /\ owner \in Workers \cup {None}
  BY DEF TypeOK, HandlersOK
\* `Passed(n)`: the requests before offset n were taken.
<1> DEFINE Passed(n) == \A k \in 1 .. n - 1 : Taken(k)'
<1>1. ASSUME NEW n \in Nat, \A k \in 1 .. n - 1 : Taken(k)
      PROVE  Passed(n)
  BY <1>1, TakenStays
<1>2. Passed(committed) /\ (owner # None => Passed(reads[owner]))
  <2>1. committed \in Nat /\ (owner # None => reads[owner] \in Nat)
    BY <1>t
  <2> HIDE DEF Passed
  <2> QED
    BY <1>1, <2>1 DEF NothingSkipped
<1>3. ASSUME NEW n \in Nat, NEW m \in Nat, m <= n, Passed(n)
      PROVE  Passed(m)
  BY <1>3
\* The owner has read no more than before, or there is none.
<1>4. ASSUME committed' = committed \/ (owner # None /\ committed' <= reads[owner]),
             committed' \in Nat,
             \/ owner' = None
             \/ owner' = owner /\ reads'[owner] = reads[owner]
             \/ owner' # None /\ reads'[owner'] = committed
      PROVE  NothingSkipped'
  <2>1. Passed(committed')
    <3>1. owner # None => reads[owner] \in Nat
      BY <1>t
    <3> HIDE DEF Passed
    <3> QED
      BY <1>2, <1>3, <1>4, <3>1
  <2>2. owner' # None => Passed(reads'[owner'])
    <3> HIDE DEF Passed
    <3> QED
      BY <1>2, <1>4
  <2> QED
    BY <2>1, <2>2 DEF NothingSkipped
<1>5. ASSUME NEW w \in Workers, TakeRequest(w)
      PROVE  NothingSkipped'
  <2>1. /\ owner' = owner /\ committed' = committed
        /\ handling' = [handling EXCEPT ![w] = reads[w]]
        /\ reads' = [reads EXCEPT ![w] = reads[w] + 1]
    BY <1>5 DEF TakeRequest
  <2>2. CASE owner = w
    <3>1. PICK n \in Nat : n = reads[w]
      BY <1>t
    <3>2. Taken(n)'
      <4>1. handling'[w] = n
        BY <1>t, <2>1, <3>1
      <4> QED
        BY <4>1 DEF Taken
    <3>3. reads'[owner'] = n + 1
      BY <1>t, <2>1, <2>2, <3>1
    <3>4. Passed(n + 1)
      <4>1. \A k \in 1 .. (n + 1) - 1 : k \in 1 .. n - 1 \/ k = n
        OBVIOUS
      <4>2. Passed(n)
        BY <1>2, <2>2, <3>1, NoneAssumption
      <4> QED
        BY <3>2, <4>1, <4>2
    <3>5. Passed(committed')
      BY <1>2, <2>1
    <3> QED
      BY <3>3, <3>4, <3>5 DEF NothingSkipped
  <2>3. CASE owner # w
    <3>1. owner # None => reads'[owner] = reads[owner]
      BY <1>t, <2>1, <2>3
    <3> QED
      BY <1>t, <1>4, <2>1, <3>1
  <2> QED
    BY <2>2, <2>3
<1>6. ASSUME NEW w \in Workers, StopKafka(w) \/ Crash(w)
      PROVE  NothingSkipped'
  <2>1. LeaveGroup(w) /\ reads' = [reads EXCEPT ![w] = 0]
    BY <1>6 DEF StopKafka, Crash
  <2>2. CASE GiveUp(w)
    BY <1>t, <1>4, <2>2, Leaving, NoneAssumption
  <2>3. CASE owner # w /\ owner' = owner /\ committed' = committed
    <3>1. owner # None => reads'[owner] = reads[owner]
      BY <1>t, <2>1, <2>3
    <3> QED
      BY <1>t, <1>4, <2>3, <3>1
  <2> QED
    BY <1>t, <2>1, <2>2, <2>3, Ending
<1>7. ASSUME NEW w \in Workers, Rebalance(w) \/ Evict(w)
      PROVE  NothingSkipped'
  <2>1. GiveUp(w)
    BY <1>7 DEF Rebalance, Evict
  <2> QED
    BY <1>t, <1>4, <2>1, Leaving, NoneAssumption
<1>8. ASSUME NEW w \in Workers, Assign(w)
      PROVE  NothingSkipped'
  <2>1. owner' = w /\ committed' = committed /\ reads'[w] = committed /\ w # None
    BY <1>t, <1>8, NoneAssumption DEF Assign
  <2> QED
    BY <1>t, <1>4, <2>1
<1>9. ASSUME NEW w \in Workers, Notice(w) \/ LeaveUnread(w)
      PROVE  NothingSkipped'
  <2>1. /\ committed' = committed
        /\ owner' = None \/ (owner' = owner /\ owner # w)
        /\ reads' = [reads EXCEPT ![w] = 0]
    BY <1>9 DEF Notice, LeaveUnread
  <2>2. owner # w /\ owner # None => reads'[owner] = reads[owner]
    BY <1>t, <2>1
  <2> QED
    BY <1>t, <1>4, <2>1, <2>2
<1>10. ASSUME owner' = owner, reads' = reads, committed' = committed
       PROVE  NothingSkipped'
  BY <1>t, <1>4, <1>10
<1>11. ASSUME NEW w \in Workers,
              \/ StartProducer(w) \/ StartRequestConsumer(w)
              \/ StartReplyConsumer(w) \/ LocateReplies(w) \/ ConsumeReply(w)
              \/ HandleRequest(w)
       PROVE  owner' = owner /\ reads' = reads /\ committed' = committed
  BY <1>11 DEF StartProducer, StartRequestConsumer, StartReplyConsumer,
               LocateReplies, ConsumeReply, HandleRequest, handler
<1>12. ASSUME \/ \E r \in Requests, w \in Workers : Refused(r, w)
              \/ \E r \in Requests, w \in Workers, k \in Ids : EnrichCustomer(r, w, k)
              \/ \E r \in Requests : Publish(r) \/ RepeatPublish(r) \/ Sent(r)
              \/ \E r \in Requests : SendFails(r) \/ Timeout(r) \/ Resume(r)
              \/ ReplyFault
       PROVE  owner' = owner /\ reads' = reads /\ committed' = committed
  BY <1>12 DEF Refused, EnrichCustomer, Publish, RepeatPublish, Sent, SendFails,
               Timeout, Resume, End, ReplyFault, LoseReplies, RepeatReply, handler
<1> QED
  BY <1>5, <1>6, <1>7, <1>8, <1>9, <1>10, <1>11, <1>12, Steps DEF WorkerStep
-----------------------------------------------------------------------------
(***************************************************************************)
(* What a worker alone in its reply group sees.                            *)
(***************************************************************************)

\* A future that is done stays done for as long as its request is open.
LEMMA DoneStays ==
  ASSUME TypeOK, RequestsApart, Next, NEW r \in Requests,
         pc[r] \in Open, pc'[r] \in Open, future[corr[r]] # None
  PROVE  future'[corr[r]] # None
<1>1. corr[r] \in Ids
  BY DEF TypeOK, ClientsOK, RequestsApart
<1>2. ASSUME NEW rs \in SUBSET Requests, Forget(rs), \A s \in rs : pc[s] \in Open
      PROVE  future'[corr[r]] # None
  <2>1. \A s \in rs : corr[s] # corr[r]
    BY <1>2, ForgetFrame DEF RequestsApart, Open
  <2> QED
    BY <1>1, <1>2, <2>1, ForgetFrame
<1>3. ASSUME NEW w \in Workers, ConsumeReply(w)
      PROVE  future'[corr[r]] # None
  <2>1. CASE future' = future
    BY <2>1
  <2>2. CASE future' # future
    BY <1>3, <2>2 DEF TypeOK, ClientsOK, ConsumeReply, Deliver
  <2> QED
    BY <2>1, <2>2
<1>4. ASSUME NEW w \in Workers, WorkerStep(w), ~ConsumeReply(w)
      PROVE  future' = future
  BY <1>4 DEF WorkerStep, StartProducer, StartRequestConsumer, StartReplyConsumer,
              LocateReplies, LeaveUnread, StopKafka, Assign, Rebalance, Evict,
              Notice, TakeRequest, HandleRequest, client
<1>5. ASSUME NEW w \in Workers, Crash(w)
      PROVE  future'[corr[r]] # None
  BY <1>2, <1>5, Forgetting
<1>6. ASSUME NEW s \in Requests, SendFails(s) \/ Timeout(s) \/ Resume(s)
      PROVE  future'[corr[r]] # None
  BY <1>2, <1>6, Forgetting
<1>7. ASSUME \/ \E s \in Requests, w \in Workers : Refused(s, w)
             \/ \E s \in Requests, w \in Workers, k \in Ids : EnrichCustomer(s, w, k)
             \/ \E s \in Requests : Publish(s) \/ RepeatPublish(s) \/ Sent(s)
             \/ ReplyFault
      PROVE  future' = future
  BY <1>7, FaultFrame DEF Refused, EnrichCustomer, Publish, RepeatPublish, Sent, client
<1> QED
  BY <1>3, <1>4, <1>5, <1>6, <1>7, Steps

\* How what a group has read changes: by the reply one of its workers
\* consumes; a worker that joins, or finds its place again, has read nothing.
ReadGrows(u) ==
  \/ phase'[u] = "off"
  \/ Read(u)' = {}
  \/ Read(u)' = Read(u)
  \/ \E w \in Workers :
        /\ GroupOf[w] = GroupOf[u] /\ ConsumeReply(w)
        /\ Read(u)' \subseteq Read(u) \cup {position[GroupOf[u]]}

\* Every step changes what a group has read in one of these ways.
LEMMA ReadStep ==
  ASSUME TypeOK, Next, NEW u \in Workers
  PROVE  ReadGrows(u)
<1>t. /\ from \in [Workers -> Nat]
      /\ position \in [Groups -> 0 .. Len(replies) + 1] /\ Len(replies) \in Nat
      /\ \A w \in Workers : GroupOf[w] \in Groups
  BY DEF TypeOK, RepliesOK, Groups
<1>1. ASSUME from' = from, position' = position
      PROVE  ReadGrows(u)
  BY <1>1 DEF Read, ReadGrows
<1>2. ASSUME NEW w \in Workers, LocateReplies(w)
      PROVE  ReadGrows(u)
  <2> DEFINE at == IF position[GroupOf[w]] = 0 THEN Len(replies) + 1
                                               ELSE position[GroupOf[w]]
  <2>1. /\ from[w] = 0 /\ at \in Nat
        /\ from' = [from EXCEPT ![w] = at]
        /\ position' = [position EXCEPT ![GroupOf[w]] = at]
    BY <1>t, <1>2 DEF LocateReplies
  <2>2. CASE u = w
    <3>1. from'[u] = at /\ position'[GroupOf[u]] = at
      BY <1>t, <2>1, <2>2
    <3>2. Read(u)' = {}
      BY <2>1, <3>1 DEF Read
    <3> QED
      BY <3>2 DEF ReadGrows
  <2>3. CASE u # w
    <3>1. from'[u] = from[u]
      BY <1>t, <2>1, <2>3
    <3>2. position'[GroupOf[u]] = position[GroupOf[u]] \/ position[GroupOf[u]] = 0
      BY <1>t, <2>1
    <3>3. position[GroupOf[u]] = 0 => from[u] = 0
      BY <1>t DEF TypeOK, RepliesOK
    <3>4. Read(u)' = Read(u)
      BY <2>1, <3>1, <3>2, <3>3 DEF Read
    <3> QED
      BY <3>4 DEF ReadGrows
  <2> QED
    BY <2>2, <2>3
<1>3. ASSUME NEW w \in Workers, StopKafka(w) \/ Crash(w)
      PROVE  ReadGrows(u)
  <2>1. /\ position' = position /\ phase' = [phase EXCEPT ![w] = "off"]
        /\ from' = [from EXCEPT ![w] = 0]
    BY <1>3 DEF StopKafka, Crash, Clear, Advance
  <2>2. CASE u = w
    BY <2>1, <2>2 DEF TypeOK, WorkersOK, ReadGrows
  <2>3. CASE u # w
    <3>1. Read(u)' = Read(u)
      BY <1>t, <2>1, <2>3 DEF Read
    <3> QED
      BY <3>1 DEF ReadGrows
  <2> QED
    BY <2>2, <2>3
<1>4. ASSUME NEW w \in Workers, ConsumeReply(w)
      PROVE  ReadGrows(u)
  <2>1. /\ from' = from
        /\ position' = [position EXCEPT ![GroupOf[w]] = position[GroupOf[w]] + 1]
    BY <1>4 DEF ConsumeReply
  <2>2. CASE GroupOf[u] = GroupOf[w]
    <3>1. position'[GroupOf[u]] = position[GroupOf[u]] + 1
      BY <1>t, <2>1, <2>2
    <3>2. Read(u)' \subseteq Read(u) \cup {position[GroupOf[u]]}
      BY <1>t, <2>1, <3>1 DEF Read
    <3> QED
      BY <1>4, <2>1, <2>2, <3>2 DEF ReadGrows
  <2>3. CASE GroupOf[u] # GroupOf[w]
    <3>1. Read(u)' = Read(u)
      BY <1>t, <2>1, <2>3 DEF Read
    <3> QED
      BY <3>1 DEF ReadGrows
  <2> QED
    BY <2>2, <2>3
<1>5. ASSUME NEW g \in Groups, LoseReplies(g)
      PROVE  ReadGrows(u)
  <2>1. PICK k \in 0 .. position[g] : position' = [position EXCEPT ![g] = k]
    BY <1>5 DEF LoseReplies
  <2>2. from' = [w \in Workers |-> IF GroupOf[w] = g THEN 0 ELSE from[w]]
    BY <1>5 DEF LoseReplies
  <2>3. CASE GroupOf[u] = g
    <3>1. from'[u] = 0
      BY <2>2, <2>3
    <3> QED
      BY <3>1 DEF Read, ReadGrows
  <2>4. CASE GroupOf[u] # g
    <3>1. from'[u] = from[u] /\ position'[GroupOf[u]] = position[GroupOf[u]]
      BY <1>t, <2>1, <2>2, <2>4
    <3> QED
      BY <3>1 DEF Read, ReadGrows
  <2> QED
    BY <2>3, <2>4
<1>6. ASSUME NEW w \in Workers, WorkerStep(w),
             ~LocateReplies(w), ~StopKafka(w), ~ConsumeReply(w)
      PROVE  from' = from /\ position' = position
  BY <1>6 DEF WorkerStep, StartProducer, StartRequestConsumer, StartReplyConsumer,
              LeaveUnread, Assign, Rebalance, Evict, Notice, TakeRequest,
              HandleRequest, topics
<1>7. ASSUME \/ \E r \in Requests, w \in Workers : Refused(r, w)
             \/ \E r \in Requests, w \in Workers, k \in Ids : EnrichCustomer(r, w, k)
             \/ \E r \in Requests : Publish(r) \/ RepeatPublish(r) \/ Sent(r)
             \/ \E r \in Requests : SendFails(r) \/ Timeout(r) \/ Resume(r)
             \/ \E j \in DOMAIN replies : RepeatReply(j)
      PROVE  from' = from /\ position' = position
  BY <1>7 DEF Refused, EnrichCustomer, Publish, RepeatPublish, Sent, SendFails,
              Timeout, Resume, End, RepeatReply, topics
<1> QED
  BY <1>1, <1>2, <1>3, <1>4, <1>5, <1>6, <1>7, Steps DEF ReplyFault

\* The replies worker u's group has read are in the topic.
LEMMA ReadIsThere ==
  ASSUME TypeOK, NEW u \in Workers, NEW k \in Read(u)
  PROVE  k \in DOMAIN replies
<1>1. /\ from[u] \in Nat /\ position[GroupOf[u]] \in 0 .. Len(replies) + 1
      /\ DOMAIN replies = 1 .. Len(replies) /\ Len(replies) \in Nat
  BY DEF TypeOK, RepliesOK, Groups
<1>2. k \in 1 .. position[GroupOf[u]] - 1
  BY <1>1 DEF Read
<1> QED
  BY <1>1, <1>2

\* A worker that is alone in its group misses no reply: the future is
\* registered before the request is published, so whenever the reply comes it
\* finds the request in _pending.
LEMMA SeenStep ==
  /\ TypeOK /\ RequestsApart /\ PendingExact /\ MessagesInv
  /\ OwnGroupSeesEveryReply /\ Next
  => OwnGroupSeesEveryReply'
<1> SUFFICES ASSUME TypeOK, RequestsApart, PendingExact, MessagesInv,
                    OwnGroupSeesEveryReply, Next,
                    NEW r \in Requests, pc'[r] \in Open,
                    \A w \in Workers \ {worker'[r]} : GroupOf[w] # GroupOf[worker'[r]],
                    NEW k \in Read(worker[r])', replies'[k].id = corr'[r]
             PROVE  future'[corr'[r]] # None
  BY DEF OwnGroupSeesEveryReply, Reached
<1>1. TypeOK' /\ RequestsApart' /\ Kept
  BY TypeStep, ApartStep, TopicsStep DEF MessagesInv
<1>2. worker'[r] \in Workers /\ phase'[worker'[r]] # "off" /\ k \in DOMAIN replies'
  <2>1. worker'[r] \in Workers /\ phase'[worker'[r]] # "off"
    BY <1>1 DEF RequestsApart
  <2>2. DOMAIN replies' = 1 .. Len(replies') /\ Len(replies') \in Nat
    BY <1>1 DEF TypeOK, RepliesOK
  <2>3. /\ from'[worker'[r]] \in Nat
        /\ position'[GroupOf[worker'[r]]] \in 0 .. Len(replies') + 1
    BY <1>1, <2>1 DEF TypeOK, RepliesOK, Groups
  <2>4. k \in 1 .. position'[GroupOf[worker'[r]]] - 1
    BY <2>3 DEF Read
  <2> QED
    BY <2>1, <2>2, <2>3, <2>4
<1>3. CASE pc[r] = "idle" /\ corr'[r] \notin drawn /\ replies' = replies
  <2>1. replies[k].id \in Published
    BY <1>2, <1>3, ReplyGenuine DEF Genuine
  <2> QED
    BY <1>3, <2>1 DEF MessagesInv
<1>4. CASE /\ pc[r] \in Open /\ worker'[r] = worker[r] /\ corr'[r] = corr[r]
  <2>0. PICK u \in Workers : u = worker[r]
    BY <1>2, <1>4
  <2>1. phase'[u] # "off" /\ corr[r] \in Ids
    BY <1>2, <1>4, <2>0 DEF TypeOK, ClientsOK, RequestsApart
  <2>2. k \in Read(u)' /\ \A w \in Workers \ {u} : GroupOf[w] # GroupOf[u]
    BY <1>4, <2>0 DEF Read
  <2>3. CASE k \in Read(u)
    <3>1. k \in DOMAIN replies /\ replies'[k] = replies[k]
      BY <1>1, <2>3, ReadIsThere DEF Kept
    <3>2. future[corr[r]] # None
      BY <1>4, <2>0, <2>2, <2>3, <3>1 DEF OwnGroupSeesEveryReply, Reached
    <3> QED
      BY <1>4, <3>2, DoneStays
  <2>4. CASE k \notin Read(u)
    <3>1. k = position[GroupOf[u]] /\ ConsumeReply(u)
      <4>1. ReadGrows(u)
        BY ReadStep
      <4>2. PICK w \in Workers :
              /\ GroupOf[w] = GroupOf[u] /\ ConsumeReply(w)
              /\ Read(u)' \subseteq Read(u) \cup {position[GroupOf[u]]}
        BY <2>1, <2>2, <2>4, <4>1 DEF ReadGrows
      <4>3. w = u
        BY <2>2, <4>2
      <4> QED
        BY <2>2, <2>4, <4>2, <4>3
    <3>2. replies' = replies /\ Deliver(u, replies[k])
      BY <3>1 DEF ConsumeReply
    <3>3. replies[k] \in Answer /\ replies[k].id = corr[r]
      BY <1>2, <1>4, <3>2 DEF TypeOK, RepliesOK
    <3>4. corr[r] \in pending[u]
      BY <1>4, <2>0 DEF PendingExact, OpenAt
    <3>5. replies[k].about # None
      BY <3>3, NoneAssumption DEF Answer
    <3> QED
      BY <1>4, <2>1, <3>2, <3>3, <3>4, <3>5 DEF TypeOK, ClientsOK, Deliver
  <2> QED
    BY <2>3, <2>4
<1> QED
  BY <1>3, <1>4, OpenBefore
-----------------------------------------------------------------------------
\* The invariant is inductive.
LEMMA NextInv == Inductive /\ [Next]_vars => Inductive'
<1> SUFFICES ASSUME Inductive, [Next]_vars PROVE Inductive'
  OBVIOUS
<1>1. CASE Next
  BY <1>1, TypeStep, ApartStep, PendingStep, MessagesStep, FuturesStep, CopiesStep,
     SkippedStep, SeenStep DEF Inductive
<1>2. CASE UNCHANGED vars
  <2> USE <1>2 DEF vars, client, handler, topics, counts, Inductive
  <2>1. TypeOK'
    BY DEF TypeOK, WorkersOK, ClientsOK, RepliesOK, HandlersOK, CountsOK, Member
  <2>2. RequestsApart' /\ PendingExact'
    BY DEF RequestsApart, PendingExact, OpenAt
  <2>3. MessagesInv'
    BY DEF MessagesInv, Published, Genuine, Copy, Records
  <2>4. FuturesInv'
    BY DEF FuturesInv
  <2>5. CopiesInv'
    BY DEF CopiesInv, Replied, Handlers, Readers, Unread
  <2>6. NothingSkipped'
    BY DEF NothingSkipped, Taken
  <2>7. OwnGroupSeesEveryReply'
    BY DEF OwnGroupSeesEveryReply, Reached, Read
  <2> QED
    BY <2>1, <2>2, <2>3, <2>4, <2>5, <2>6, <2>7
<1> QED
  BY <1>1, <1>2

\* Every reachable state satisfies the invariant, whatever the number of
\* workers, groups, requests and faults: the types, the requests apart, the
\* replies copies of what was published, and the properties below.
THEOREM Invariance == Spec => []Inductive
  BY InitInv, NextInv, PTL DEF Spec

\* request_reply's `finally` and the end of a process leave no entry behind
\* in _pending, and the future is there for as long as the request is open.
THEOREM PendingTheorem == Spec => []PendingExact
<1>1. Inductive => PendingExact
  BY DEF Inductive
<1> QED
  BY <1>1, Invariance, PTL

\* Concurrent, late and repeated replies do not mix: a future that is done
\* holds the reply to the request that waits on it.
THEOREM OwnReplyTheorem == Spec => []OwnReply
<1>1. Inductive => OwnReply
  <2> SUFFICES ASSUME Inductive, NEW r \in Requests, pc[r] \in Open,
                      future[corr[r]] # None
               PROVE  /\ future[corr[r]] = r
                      /\ \E k \in DOMAIN replies : replies[k].id = corr[r]
    BY DEF OwnReply
  <2>1. corr[r] \in Ids
    BY DEF Inductive, TypeOK, ClientsOK, RequestsApart
  <2>2. PICK s \in Requests :
          /\ pc[s] \in Open /\ corr[s] = corr[r] /\ future[corr[r]] = s
          /\ \E k \in DOMAIN replies : replies[k].id = corr[r]
    BY <2>1 DEF Inductive, FuturesInv
  <2>3. s = r
    BY <2>2 DEF Inductive, RequestsApart
  <2> QED
    BY <2>2, <2>3
<1> QED
  BY <1>1, Invariance, PTL

\* A request is published once and a record of it answered once, and once more
\* for every send that was repeated, owner that was evicted and owner whose
\* last commit was lost, although offsets are committed apart from the replies.
THEOREM RepliesTheorem == Spec => []RepliesBounded
<1>1. Inductive => RepliesBounded
  <2> SUFFICES ASSUME Inductive PROVE RepliesBounded
    OBVIOUS
  <2>1. ASSUME NEW k \in DOMAIN requests
        PROVE  Cardinality(Replied(k)) <= 1 + again
    <3>1. k \in 1 .. Len(requests) + 1
      BY DEF Inductive, TypeOK, HandlersOK
    <3>2. /\ Cardinality(Replied(k)) \in Nat /\ Cardinality(Handlers(k)) \in Nat
          /\ Cardinality(Readers(k)) \in Nat /\ again \in Nat /\ Owing(k) \in Nat
          /\ Within(k)
      BY <3>1, Counts DEF Inductive
    <3> QED
      BY <3>2 DEF Within
  <2> QED
    BY <2>1 DEF Inductive, MessagesInv, RepliesBounded
<1> QED
  BY <1>1, Invariance, PTL

\* The group never passes a request that nobody took: wherever an owner
\* begins, every request before it was answered, is being handled, or was
\* dropped by the worker that handled it last.
THEOREM SkippedTheorem == Spec => []NothingSkipped
<1>1. Inductive => NothingSkipped
  BY DEF Inductive
<1> QED
  BY <1>1, Invariance, PTL

\* A worker that shares its reply group with no other has completed the
\* future of every reply its group has read.
THEOREM SeenTheorem == Spec => []OwnGroupSeesEveryReply
<1>1. Inductive => OwnGroupSeesEveryReply
  BY DEF Inductive
<1> QED
  BY <1>1, Invariance, PTL
=============================================================================
