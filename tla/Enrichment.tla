----------------------------- MODULE Enrichment -----------------------------
(***************************************************************************)
(* GET /customers/{id}/enrich: a synchronous request-reply over two Kafka  *)
(* topics, with the lifecycle of the client in every worker process.       *)
(*                                                                         *)
(* Each worker registers a future under a fresh correlation id, publishes  *)
(* the request and waits.  One worker, the owner of the partition of the   *)
(* request topic, computes and publishes the reply.  Every worker's reply  *)
(* consumer is meant to see every reply and completes its own futures.     *)
(* Both topics have one partition; Kafka is modelled by what its clients,  *)
(* built with aiokafka's defaults, may rely on: a log to which one send    *)
(* appends a record, or more than once when it is retried after a lost     *)
(* acknowledgement; one committed offset per group; and a coordinator that *)
(* may give a partition to another member before its owner knows.          *)
(***************************************************************************)
EXTENDS Naturals, Sequences, FiniteSets

CONSTANTS
  Workers,     \* worker processes
  GroupOf,     \* the group of each worker's reply consumer
  Requests,    \* HTTP requests of a behaviour, each served once
  Ids,         \* correlation ids uuid4 may draw: bounds the behaviour
  MaxFaults,   \* ends of workers, failed starts, repeated sends, evictions,
               \* lost commits: bounds the behaviour
  None

ASSUME NoneAssumption == None \notin Workers \cup Requests \cup Ids
ASSUME FaultsAssumption == MaxFaults \in Nat

Groups == {GroupOf[w] : w \in Workers}

VARIABLES
  phase,      \* where each worker is in start_kafka
  service,    \* _enrichment_service is set
  from,       \* the first offset its reply consumer reads (0: not known yet)
  pending,    \* _pending: the correlation ids registered
  future,     \* the reply each future holds
  pc, worker, corr,   \* per HTTP request: where it is, in which worker, its id
  drawn,      \* ids drawn so far
  requests, replies,  \* the two topics
  position,   \* next offset of each reply group (0: none committed)
  owner,      \* whose the partition of the request topic is (coordinator)
  reads,      \* the offset each worker reads next in it (0: not assigned)
  committed,  \* the group's offset, as of the last owner's end
  handling,   \* offset of the request each worker is handling (0: none)
  dropped,    \* history: offsets whose last handler ended without a reply
  faults,     \* faults so far
  again       \* history: those that let a record be appended or read again

client  == <<pc, worker, corr, drawn, future>>
handler == <<owner, reads, committed, handling, dropped>>
topics  == <<requests, replies, position>>
counts  == <<faults, again>>
vars    == <<phase, service, from, pending, client, handler, topics, counts>>

Open == {"sending", "sent", "waiting"}

\* A record carries its correlation id and the customer who is asked about.
\* Here `about` is the HTTP request that asks, which tells apart what two
\* requests ask even if it is the same.
Message == [id : Ids, about : Requests]

\* A reply repeats both; `of`, which no record carries, is the offset its
\* request was read at.
Answer == [id : Ids, about : Requests, of : Nat]

Init ==
  /\ phase = [w \in Workers |-> "off"] /\ service = [w \in Workers |-> FALSE]
  /\ from = [w \in Workers |-> 0]
  /\ pending = [w \in Workers |-> {}] /\ future = [k \in Ids |-> None]
  /\ pc = [r \in Requests |-> "idle"] /\ worker = [r \in Requests |-> None]
  /\ corr = [r \in Requests |-> None] /\ drawn = {}
  /\ requests = <<>> /\ replies = <<>> /\ position = [g \in Groups |-> 0]
  /\ owner = None /\ reads = [w \in Workers |-> 0] /\ committed = 1
  /\ handling = [w \in Workers |-> 0] /\ dropped = {}
  /\ faults = 0 /\ again = 0

\* The requests worker w has open.
OpenAt(w) == {r \in Requests : worker[r] = w /\ pc[r] \in Open}

Advance(w, p) == phase' = [phase EXCEPT ![w] = p]

\* A fault, which lets a record be appended or read once more, or not.
Repeating == faults < MaxFaults /\ faults' = faults + 1 /\ again' = again + 1
Harmless  == faults < MaxFaults /\ faults' = faults + 1 /\ UNCHANGED again
-----------------------------------------------------------------------------
(***************************************************************************)
(* start_kafka: three awaits, each of which may fail; the lifespan logs    *)
(* the exception and the worker serves without its consumer loops.         *)
(*                                                                         *)
(* off -> producer -> consumers -> up; or, when a start fails, "broken";   *)
(* or, when only the reply consumer fails, "half": the request consumer is *)
(* in its group, may own the partition, and nobody reads it.               *)
(***************************************************************************)
Member(w)  == phase[w] \in {"consumers", "up", "half"}
Serving(w) == phase[w] \in {"up", "half", "broken"}

StartProducer(w) ==
  /\ phase[w] = "off"
  /\ \/ /\ Advance(w, "producer") /\ service' = [service EXCEPT ![w] = TRUE]
        /\ UNCHANGED counts
     \/ Advance(w, "broken") /\ Harmless /\ UNCHANGED service
  /\ UNCHANGED <<from, pending, client, handler, topics>>

\* The worker becomes a member of the group: see Rebalance.
StartRequestConsumer(w) ==
  /\ phase[w] = "producer"
  /\ \/ Advance(w, "consumers") /\ UNCHANGED counts
     \/ Advance(w, "broken") /\ Harmless
  /\ UNCHANGED <<service, from, pending, client, handler, topics>>

StartReplyConsumer(w) ==
  /\ phase[w] = "consumers"
  /\ \/ Advance(w, "up") /\ UNCHANGED counts
     \/ Advance(w, "half") /\ Harmless
  /\ UNCHANGED <<service, from, pending, client, handler, topics>>

\* auto_offset_reset="latest": a group with no committed offset starts at
\* the end of the topic.
LocateReplies(w) ==
  /\ phase[w] = "up" /\ from[w] = 0
  /\ LET at == IF position[GroupOf[w]] = 0 THEN Len(replies) + 1
                                         ELSE position[GroupOf[w]] IN
       /\ from' = [from EXCEPT ![w] = at]
       /\ position' = [position EXCEPT ![GroupOf[w]] = at]
  /\ UNCHANGED <<phase, service, pending, client, handler, requests,
                 replies, counts>>

\* The members of a reply group are evicted, or what they have read was not
\* committed: each finds its place again, at an offset it has passed before,
\* or at the end of the topic when the group has committed none.
LoseReplies(g) ==
  /\ Harmless
  /\ from' = [w \in Workers |-> IF GroupOf[w] = g THEN 0 ELSE from[w]]
  /\ \E k \in 0..position[g] : position' = [position EXCEPT ![g] = k]
  /\ UNCHANGED <<phase, service, pending, client, handler, requests,
                 replies>>

\* The requests of rs are over, with their futures; the action that ended a
\* request says how.
Forget(rs) ==
  /\ pc' = [r \in Requests |-> IF r \in rs THEN "over" ELSE pc[r]]
  /\ worker' = [r \in Requests |-> IF r \in rs THEN None ELSE worker[r]]
  /\ corr' = [r \in Requests |-> IF r \in rs THEN None ELSE corr[r]]
  /\ future' = [k \in Ids |-> IF \E r \in rs : corr[r] = k THEN None
                              ELSE future[k]]
  /\ UNCHANGED drawn

\* Mutant: stop_kafka leaves the service behind.
ClearKeepsService(w) ==
  /\ Advance(w, "off") /\ UNCHANGED service
  /\ from' = [from EXCEPT ![w] = 0]
  /\ pending' = [pending EXCEPT ![w] = {}]

\* What stop_kafka and the end of the process leave: nothing.
Clear(w) ==
  /\ Advance(w, "off")
  /\ service' = [service EXCEPT ![w] = FALSE]
  /\ from' = [from EXCEPT ![w] = 0]
  /\ pending' = [pending EXCEPT ![w] = {}]

Answered(w) == LET m == requests[handling[w]] IN
  [id |-> m.id, about |-> m.about, of |-> handling[w]]

Reply(w) ==
  /\ handling[w] # 0
  /\ replies' = Append(replies, Answered(w)) /\ UNCHANGED dropped

Abandon(w) ==
  /\ dropped' = IF handling[w] = 0 THEN dropped ELSE dropped \cup {handling[w]}
  /\ UNCHANGED replies

\* Worker w is through with its request: the reply has reached the broker, or
\* nobody will send it on this worker's account.
Finish(w) ==
  /\ handling' = [handling EXCEPT ![w] = 0]
  /\ Reply(w) \/ Abandon(w)

\* Owner w gives the partition up, or has it taken away.  enable_auto_commit:
\* by then it has committed whatever it has committed, up to the offset it has
\* read to, handled or not; from there the next owner goes on.
GiveUp(w) ==
  /\ owner = w /\ owner' = None
  /\ committed' \in committed..reads[w]

LeaveGroup(w) ==
  \/ owner # w /\ Harmless /\ UNCHANGED <<owner, committed>>
  \/ GiveUp(w) /\ IF committed' = reads[w] THEN Harmless ELSE Repeating

\* stop_kafka, once the server has drained its requests.  The tasks are
\* cancelled first; the consumer then commits the offset it has read to,
\* the cancelled request's included, unless that fails; the producer at last
\* sends what it was given before the cancellation.
StopKafka(w) ==
  /\ Serving(w) /\ OpenAt(w) = {}
  /\ Clear(w) /\ reads' = [reads EXCEPT ![w] = 0] /\ Finish(w)
  /\ LeaveGroup(w)
  /\ UNCHANGED <<client, requests, position>>

\* The process dies, and its requests with it.
Crash(w) ==
  /\ phase[w] # "off"
  /\ Clear(w) /\ reads' = [reads EXCEPT ![w] = 0] /\ Finish(w)
  /\ Forget(OpenAt(w))
  /\ LeaveGroup(w)
  /\ UNCHANGED <<requests, position>>
-----------------------------------------------------------------------------
(***************************************************************************)
(* The group iris-enrich-handler, shared by all workers.  `owner` is the   *)
(* coordinator's view; a worker reads as long as it believes that the      *)
(* partition is its own.                                                   *)
(***************************************************************************)

\* Mutant: auto_offset_reset="latest".  A group that has committed nothing
\* begins with what is published from now on.
AssignLatest(w) ==
  /\ Member(w) /\ owner = None /\ reads[w] = 0
  /\ owner' = w
  /\ reads' = [reads EXCEPT ![w] = IF committed = 1 THEN Len(requests) + 1
                                   ELSE committed]
  /\ UNCHANGED <<phase, service, from, pending, client, committed,
                 handling, dropped, topics, counts>>

\* auto_offset_reset="earliest": a group that has committed nothing begins
\* at the first record, as if it had committed that.
Assign(w) ==
  /\ Member(w) /\ owner = None /\ reads[w] = 0
  /\ owner' = w /\ reads' = [reads EXCEPT ![w] = committed]
  /\ UNCHANGED <<phase, service, from, pending, client, committed,
                 handling, dropped, topics, counts>>

\* A member joins or leaves: the owner commits what it has read to, unless
\* the commit fails, and gives the partition back, in the middle of a
\* request or not.
Rebalance(w) ==
  /\ GiveUp(w) /\ reads' = [reads EXCEPT ![w] = 0]
  /\ IF committed' = reads[w] THEN UNCHANGED counts ELSE Repeating
  /\ UNCHANGED <<phase, service, from, pending, client, handling,
                 dropped, topics>>

\* session_timeout_ms: the coordinator misses the heartbeats of a worker that
\* lives.  The partition is another's; the worker goes on with it.
Evict(w) ==
  /\ GiveUp(w) /\ Repeating
  /\ UNCHANGED <<phase, service, from, pending, client, reads, handling,
                 dropped, topics>>

\* The worker learns that it has been evicted; its commits were refused.
Notice(w) ==
  /\ owner # w /\ reads[w] # 0
  /\ reads' = [reads EXCEPT ![w] = 0]
  /\ UNCHANGED <<phase, service, from, pending, client, owner, committed,
                 handling, dropped, topics, counts>>

\* max_poll_interval_ms: a member that is never read leaves its group.
LeaveUnread(w) ==
  /\ phase[w] = "half" /\ Advance(w, "broken")
  /\ owner' = IF owner = w THEN None ELSE owner
  /\ reads' = [reads EXCEPT ![w] = 0]
  /\ UNCHANGED <<service, from, pending, client, committed, handling,
                 dropped, topics, counts>>
-----------------------------------------------------------------------------
(***************************************************************************)
(* _consume_requests and handle_request.                                   *)
(***************************************************************************)

\* Mutant: the consumer is given the same request again.
TakeRequestAgain(w) ==
  /\ phase[w] = "up" /\ handling[w] = 0 /\ reads[w] \in DOMAIN requests
  /\ handling' = [handling EXCEPT ![w] = reads[w]]
  /\ dropped' = dropped \ {reads[w]}
  /\ UNCHANGED <<phase, service, from, pending, client, owner, reads,
                 committed, topics, counts>>

TakeRequest(w) ==
  /\ phase[w] = "up" /\ handling[w] = 0 /\ reads[w] \in DOMAIN requests
  /\ handling' = [handling EXCEPT ![w] = reads[w]]
  /\ reads' = [reads EXCEPT ![w] = @ + 1] /\ dropped' = dropped \ {reads[w]}
  /\ UNCHANGED <<phase, service, from, pending, client, owner,
                 committed, topics, counts>>

\* The reply goes out under the request's correlation id.  A send that fails
\* is logged and skipped: that request gets no reply.
HandleRequest(w) ==
  /\ handling[w] # 0 /\ Finish(w)
  /\ UNCHANGED <<phase, service, from, pending, client, owner, reads,
                 committed, requests, position, counts>>

\* The acknowledgement of a reply was lost: the producer, which is not
\* idempotent, has sent it again, and the broker appends it once more.
RepeatReply(j) ==
  /\ j \in DOMAIN replies /\ Repeating
  /\ replies' = Append(replies, replies[j])
  /\ UNCHANGED <<phase, service, from, pending, client, handler,
                 requests, position>>
-----------------------------------------------------------------------------
(***************************************************************************)
(* enrich_customer and request_reply.                                      *)
(***************************************************************************)

\* Mutant: correlation ids may repeat.
FreshAlways(k) == TRUE

Fresh(k) == k \notin drawn

\* get_enrichment_service: 503 without a service; with one, no such customer: 404.
Refused(r, w) ==
  /\ pc[r] = "idle" /\ Serving(w)
  /\ pc' = [pc EXCEPT ![r] = "over"]
  /\ UNCHANGED <<phase, service, from, pending, worker, corr,
                 drawn, future, handler, topics, counts>>

\* The future is registered before the request is sent.
EnrichCustomer(r, w, k) ==
  /\ pc[r] = "idle" /\ Serving(w) /\ service[w] /\ Fresh(k)
  /\ pc' = [pc EXCEPT ![r] = "sending"]
  /\ worker' = [worker EXCEPT ![r] = w] /\ corr' = [corr EXCEPT ![r] = k]
  /\ drawn' = drawn \cup {k}
  /\ pending' = [pending EXCEPT ![w] = @ \cup {k}]
  /\ UNCHANGED <<phase, service, from, future, handler, topics, counts>>

Asked(r) == [id |-> corr[r], about |-> r]

\* The broker appends the request; the producer has yet to learn of it.
Publish(r) ==
  /\ pc[r] = "sending" /\ pc' = [pc EXCEPT ![r] = "sent"]
  /\ requests' = Append(requests, Asked(r))
  /\ UNCHANGED <<phase, service, from, pending, worker, corr,
                 drawn, future, handler, replies, position, counts>>

\* It does not learn of it and sends the request again.
RepeatPublish(r) ==
  /\ pc[r] = "sent" /\ Repeating
  /\ requests' = Append(requests, Asked(r))
  /\ UNCHANGED <<phase, service, from, pending, client, handler,
                 replies, position>>

\* send_and_wait returns: the timer of wait_for starts.
Sent(r) ==
  /\ pc[r] = "sent" /\ pc' = [pc EXCEPT ![r] = "waiting"]
  /\ UNCHANGED <<phase, service, from, pending, worker, corr,
                 drawn, future, handler, topics, counts>>

\* request_reply ends; `finally` forgets the correlation id.
End(r) ==
  /\ Forget({r})
  /\ pending' = [pending EXCEPT ![worker[r]] = @ \ {corr[r]}]
  /\ UNCHANGED <<phase, service, from, handler, topics, counts>>

\* The broker does not take the request, or its acknowledgement is lost.
SendFails(r) == pc[r] \in {"sending", "sent"} /\ End(r)

\* Mutant: the pending entry is removed on success only.
TimeoutLeaks(r) ==
  /\ pc[r] = "waiting" /\ Forget({r})
  /\ UNCHANGED <<phase, service, from, pending, handler, topics, counts>>

\* wait_for's timer may fire up to the moment the coroutine resumes: 504,
\* even when the reply has just been set.
Timeout(r) == pc[r] = "waiting" /\ End(r)

\* The coroutine resumes and answers with the reply.
Resume(r) == pc[r] = "waiting" /\ future[corr[r]] # None /\ End(r)

\* Mutant: the future is registered when the send has returned.
DeliverToWaiting(w, m) ==
  future' = IF \E r \in OpenAt(w) : corr[r] = m.id /\ pc[r] = "waiting"
            THEN [future EXCEPT ![m.id] = m.about] ELSE future

\* deliver_reply: ignored when nothing is pending under the id, or the
\* future is done.
Deliver(w, m) ==
  future' = IF m.id \in pending[w] /\ future[m.id] = None
            THEN [future EXCEPT ![m.id] = m.about] ELSE future

\* _consume_replies.  Of the workers in a group, one reads each reply.
ConsumeReply(w) ==
  LET k == position[GroupOf[w]] IN
  /\ phase[w] = "up" /\ from[w] # 0 /\ k <= Len(replies)
  /\ position' = [position EXCEPT ![GroupOf[w]] = k + 1]
  /\ Deliver(w, replies[k])
  /\ UNCHANGED <<phase, service, from, pending, pc, worker, corr,
                 drawn, handler, requests, replies, counts>>
-----------------------------------------------------------------------------
RequestStep(r) ==
  \/ Publish(r) \/ RepeatPublish(r) \/ Sent(r)
  \/ SendFails(r) \/ Timeout(r) \/ Resume(r)

Next ==
  \/ \E w \in Workers :
        \/ StartProducer(w) \/ StartRequestConsumer(w) \/ StartReplyConsumer(w)
        \/ LocateReplies(w) \/ LeaveUnread(w)
        \/ StopKafka(w) \/ Crash(w)
        \/ Assign(w) \/ Rebalance(w) \/ Evict(w) \/ Notice(w)
        \/ TakeRequest(w) \/ HandleRequest(w) \/ ConsumeReply(w)
        \/ \E r \in Requests : Refused(r, w)
        \/ \E r \in Requests, k \in Ids : EnrichCustomer(r, w, k)
  \/ \E g \in Groups : LoseReplies(g)
  \/ \E j \in DOMAIN replies : RepeatReply(j)
  \/ \E r \in Requests : RequestStep(r)

Spec == Init /\ [][Next]_vars
-----------------------------------------------------------------------------
WorkersOK ==
  /\ phase \in [Workers -> {"off", "producer", "consumers", "up", "half", "broken"}]
  /\ service \in [Workers -> BOOLEAN]
  /\ \A w \in Workers :
        /\ phase[w] \notin {"off", "broken"} => service[w]
        /\ phase[w] = "off" => ~service[w]

ClientsOK ==
  /\ pending \in [Workers -> SUBSET Ids]
  /\ future \in [Ids -> Requests \cup {None}]
  /\ pc \in [Requests -> Open \cup {"idle", "over"}]
  /\ worker \in [Requests -> Workers \cup {None}]
  /\ corr \in [Requests -> Ids \cup {None}]
  /\ drawn \subseteq Ids

RepliesOK ==
  /\ replies \in Seq(Answer)
  /\ from \in [Workers -> Nat]
  /\ position \in [Groups -> 0..Len(replies) + 1]
  /\ \A w \in Workers : from[w] <= position[GroupOf[w]]

\* The owner is a member of the group and never behind what was committed;
\* unless it is up it has read nothing.
HandlersOK ==
  /\ requests \in Seq(Message)
  /\ reads \in [Workers -> 0..Len(requests) + 1]
  /\ committed \in 1..Len(requests) + 1
  /\ owner \in Workers \cup {None}
  /\ owner # None =>
        /\ Member(owner) /\ committed <= reads[owner]
        /\ phase[owner] # "up" => reads[owner] = committed
  /\ handling \in [Workers -> 0..Len(requests)]
  /\ dropped \subseteq 1..Len(requests)

CountsOK == faults \in 0..MaxFaults /\ again \in 0..faults

TypeOK == WorkersOK /\ ClientsOK /\ RepliesOK /\ HandlersOK /\ CountsOK

\* The future a request waits on only ever holds the reply to itself:
\* concurrent requests, replies that come after a timeout and requests that
\* are handled twice do not mix.
OwnReply ==
  \A r \in Requests : pc[r] \in Open /\ future[corr[r]] # None =>
     /\ future[corr[r]] = r
     /\ \E k \in DOMAIN replies : replies[k].id = corr[r]

\* "The future is always cleaned up" (enrichment.py): _pending holds the
\* requests in flight and no other, after any timeout, error or crash.
PendingExact ==
  \A w \in Workers : pending[w] = {corr[r] : r \in OpenAt(w)}

\* The records of one correlation id in the request topic.
Records(id) == {k \in DOMAIN requests : requests[k].id = id}

\* The replies to the record at offset k of the request topic.
Replied(k) == {j \in DOMAIN replies : replies[j].of = k}

\* A request is published once and each of its records is answered once, and
\* once more for each send that was repeated, each owner that was evicted, and
\* each owner that died, stopped or handed over without the commit of all it
\* had read.  An owner that leaves in order, in the middle of a request or not,
\* and any other worker that ends repeat nothing.
RepliesBounded ==
  /\ \A id \in Ids : Cardinality(Records(id)) <= 1 + again
  /\ \A k \in DOMAIN requests : Cardinality(Replied(k)) <= 1 + again

\* Somebody has seen to the request at offset k: it was answered, it is being
\* handled, or the worker that last handled it failed to send the reply, was
\* stopped or died.
Taken(k) ==
  \/ \E j \in DOMAIN replies : replies[j].of = k
  \/ \E w \in Workers : handling[w] = k
  \/ k \in dropped

\* "earliest : if a request was published while we were down, still process
\* it" (kafka_client.py): the group never passes a request that nobody took,
\* whoever joins, stops, dies or is evicted, and whatever is committed.
NothingSkipped ==
  /\ \A k \in 1..committed - 1 : Taken(k)
  /\ owner # None => \A k \in 1..reads[owner] - 1 : Taken(k)

\* The replies worker w's group has read since w joined it.
Read(w) == IF from[w] = 0 THEN {} ELSE from[w]..(position[GroupOf[w]] - 1)

Reached(r) ==
  \A k \in Read(worker[r]) :
     replies[k].id = corr[r] => future[corr[r]] # None

\* "every instance must see every reply to deliver to its own pending
\* futures" (kafka_client.py): a reply the group has read has completed the
\* future it is for.
EveryReplySeen == \A r \in Requests : pc[r] \in Open => Reached(r)

\* The same, for a worker that shares its group with no other: a reply that
\* comes before send_and_wait has returned is not lost either.
OwnGroupSeesEveryReply ==
  \A r \in Requests :
     /\ pc[r] \in Open
     /\ \A w \in Workers \ {worker[r]} : GroupOf[w] # GroupOf[worker[r]]
     => Reached(r)
-----------------------------------------------------------------------------
(***************************************************************************)
(* What these properties rest on.                                          *)
(***************************************************************************)
Published == {requests[k].id : k \in DOMAIN requests}

\* An open request belongs to a worker that has not ended, and its
\* correlation id to no other open request.
RequestsApart ==
  /\ \A r \in Requests : pc[r] \in Open =>
        /\ worker[r] \in Workers /\ phase[worker[r]] # "off"
        /\ corr[r] \in drawn
  /\ \A r, s \in Requests :
        /\ pc[r] \in Open /\ pc[s] \in Open
        /\ corr[r] = corr[s]
        => r = s

\* Message m repeats a published request, and is about the customer of the
\* request that is open under its id, if one still is.
Genuine(m) ==
  /\ m.id \in Published
  /\ \A r \in Requests : pc[r] \in Open /\ corr[r] = m.id => m.about = r

\* Reply m repeats the record it answers.
Copy(m) ==
  /\ m.of \in DOMAIN requests
  /\ m.id = requests[m.of].id /\ m.about = requests[m.of].about

\* A correlation id is published by the request that drew it, and what was
\* replied are copies of what was published.
MessagesInv ==
  /\ Published \subseteq drawn
  /\ \A r \in Requests : pc[r] = "sending" => corr[r] \notin Published
  /\ \A k \in DOMAIN requests : Genuine(requests[k])
  /\ \A j \in DOMAIN replies : Copy(replies[j])
  /\ \A id \in Ids : Cardinality(Records(id)) <= 1 + again

\* A future that is done belongs to an open request and holds its reply.
FuturesInv ==
  \A k \in Ids : future[k] # None =>
     \E r \in Requests :
        /\ pc[r] \in Open /\ corr[r] = k /\ future[k] = r
        /\ \E j \in DOMAIN replies : replies[j].id = k

\* The workers that may yet answer the record at offset k, having taken it or
\* being about to read it; and whether the next owner may.
Handlers(k) == {w \in Workers : handling[w] = k}
Readers(k)  == {w \in Workers : reads[w] \in 1..k}
Unread(k)   == owner = None /\ committed <= k

\* The replies to a record that were sent or may yet be, also to the next one
\* that will be published.
CopiesInv ==
  \A k \in 1..Len(requests) + 1 :
     /\ IsFiniteSet(Handlers(k)) /\ IsFiniteSet(Readers(k))
     /\ Cardinality(Replied(k)) + Cardinality(Handlers(k))
          + Cardinality(Readers(k)) + (IF Unread(k) THEN 1 ELSE 0) <= 1 + again

\* The inductive invariant: what every worker, message, future and open
\* request satisfies between any two steps.
Inductive ==
  /\ TypeOK /\ RequestsApart /\ PendingExact
  /\ MessagesInv /\ FuturesInv /\ CopiesInv /\ NothingSkipped
  /\ OwnGroupSeesEveryReply
=============================================================================
