# A TLA+ model of iris-service-python

This directory specifies the service at the level of its awaits: the handlers
that write orders, order lines and products; everything below `/customers`, over
the connection pool, the Redis buffer, the created event and the outbound
clients; refresh-token rotation and its cleanup job; the Kafka request-reply
behind `GET /customers/{id}/enrich`; and the MCP server, with its tools, its
caches and who a call acts for. TLC checks every module on small instances.
TLAPS proves for each of them, and for every value of its constants, an
inductive invariant and all the safety properties TLC checks.

Source paths below are relative to `src/src/iris_service/` unless they start
with another directory of the repository.

## 1. Inventory

The service is a FastAPI application run by gunicorn with four uvicorn workers
(`Dockerfile`), in two replicas (`infra/k8s/base/deployment.yaml`). In a worker
there is one event loop: code runs without interruption between two `await`s,
and every `await` lets another request, callback or task run. Workers share
PostgreSQL, Redis and Kafka and nothing else.

| Component | State | Operations | Correct when |
|---|---|---|---|
| Orders, order lines (`order/`) | tables `orders`, `order_line`; the denormalised `orders.total_amount` | create, status, delete, add line, line status, delete line; MCP `cancel_order` | total is the sum of the lines; a status follows its graph, except that `cancel_order` cancels from any; no orphan line; the price snapshot is immutable |
| Products (`product/`) | table `product` | create, update, delete, list | a price change reaches no existing line; a product in use stays |
| Sessions (`db/base.py`) | engine with 10 + 20 connections; one session per request | `get_db_session`: run the handler, then commit, roll back on an exception | a request is all or nothing |
| Refresh tokens (`auth/router.py`, `auth/jwt.py`, `auth/cleanup.py`) | table `refresh_token`; a scheduler per worker | login, refresh (rotation), daily cleanup | a token is exchanged once; a record is revoked only together with a successor's insertion; no usable record is purged; revoked ones are |
| Enrichment (`messaging/`, `customer/enrichment_router.py`) | per worker: producer, two consumers, `_pending` futures, `_enrichment_service`; two topics | `request_reply`, `deliver_reply`, `handle_request`, `start_kafka`, `stop_kafka` | the reply of a request is its own; nothing pending leaks; no request is passed over, none handled again without a fault; every instance sees every reply |
| MCP order tool (`mcp/tools.py`) | per worker: `_idempotency_cache` (1024 keys) | `create_order`, eviction | one order per key; the cache is bounded; what it answers is committed |
| Customers (`customer/`) | table `customer` with a unique email; Redis list of the 10 most recent; topic `customer.created` | list, get, create, PUT, PATCH, delete, `recent`, audit, bio, todos, enrich, diagnostics | emails stay unique and orders keep their customer; the buffer and the event speak of customers that were inserted; a PUT replaces; a page fits its total; every request ends |
| MCP server (`mcp/ring_buffer.py`, `metrics_registry.py`, `auth.py`, `mount.py`, `audit.py`, `actuator.py`) | per worker: log ring buffer, TTL cache of metrics; per call: the user, a context variable | 15 tools | a call acts for its sender or its session's opener, never for another caller; log tails, snapshots and order reads show what they promise |
| HTTP clients (`integration/`) | lazy httpx clients | todo (3 attempts), bio (2 attempts) | end within their attempts, with a fallback |
| Credentials (`auth/deps.py`, `auth/api_key.py`, `mcp/auth.py`) | none | bearer or API key to a user | MCP and REST agree on who is calling |
| Churn prediction (`ml/`) | a predictor loaded at start | the endpoint, the tool; training and its features | the features served are those trained on |
| Middleware, telemetry, settings, health | root logger's handlers | `configure_logging`, readiness | |

### How the parts interact

* A handler gets its session from `get_db_session`, which commits **after** the
  handler has returned, and in the FastAPI version pinned by `uv.lock` after
  the response has been sent. The MCP tools open and commit their own sessions.
* `cancel_order` (MCP) and the REST handlers write the same `orders` rows;
  product prices are read by `add_line`; a product's deletion is checked
  against `order_line` by the database.
* The cleanup job deletes from `refresh_token` while refreshes run.
* `POST /customers` inserts, then pushes to Redis, then publishes, and only
  then is the INSERT committed.
* An order refers to a customer (ON DELETE RESTRICT), so `POST /orders` and the
  writers of `/customers` wait for each other's row locks.
* An enrich, bio or todo request keeps its database connection while it waits
  for Kafka or HTTP; all requests of a worker share one pool.
* The MCP tools run in the worker's event loop next to REST requests, and read
  the orders that REST deletes. `ApiKeyMiddleware` rewrites the headers both see.
* An enrich request crosses from the worker that serves it to the worker that
  owns the request partition, and back through the reply group.

### What is hard

Statements of different requests interleave at every `await`, with values read
by one statement and used by a later one (order status, line status, total,
price, refresh record, idempotency key, customer row, count of a list). Statements
fail one at a time. Row locks, unique indexes and the pool make requests wait for
each other. Replies race with timeouts, starts with failures, offsets with
crashes and evictions, sends with their acknowledgements. Contexts of overlapping
tool calls must not mix. `PROJECT.json` lists
each hazard at its line with the properties that would catch it.

## 2. Modules

| Module | Models | Uses |
|---|---|---|
| `OrderRules` | rows, the two status graphs, the sum of the lines | |
| `OrderLedger` | the abstract specification: each handler one atomic step, total always exact | `OrderRules` |
| `Orders` | the handlers one SQL statement at a time | `OrderRules`, `OrderLedger` by `INSTANCE` |
| `OrdersInv` | the inductive invariant `Inductive`, in four parts; `SerialInv` for one connection | `Orders` |
| `OrdersProofs` | proofs: types, locks and refunds (`IInv`), snapshots, statuses (`StatusInv`), foreign keys (`ParentsInv`) | `OrdersInv` |
| `OrdersTotalProofs` | proofs: the total (`TotalInv`), the refinement of `OrderLedger` | `OrdersProofs` |
| `RefreshTokens` | login, refresh, cleanup; its inductive invariant | |
| `RefreshTokensProofs` | proofs | `RefreshTokens` |
| `Enrichment` | request-reply, consumer loops, worker lifecycle; its inductive invariant | |
| `EnrichmentProofs` | proofs | `Enrichment` |
| `Customers` | every endpoint below `/customers`, `POST /orders` as it meets them, readiness | |
| `CustomersInv` | the inductive invariant | `Customers` |
| `CustomersProofs` | proofs | `CustomersInv` |
| `IdempotentCreate` | the MCP tool `create_order` and its cache; its inductive invariant | |
| `IdempotentCreateProofs` | proofs, stated of its actions so that `McpServer` can use them | `IdempotentCreate` |
| `ChurnRules` | features as served and as trained, label, bands: operators only | |
| `ChurnRulesProofs` | proofs about what these operators return, for histories of every length | `ChurnRules` |
| `McpServer` | every call of a tool, from headers to answer; its inductive invariant | `IdempotentCreate` and `ChurnRules` by `EXTENDS` |
| `McpServerProofs` | proofs | `McpServer`, `IdempotentCreateProofs`, `ChurnRulesProofs` |
| `MCOrders`, `MCRefreshTokens`, `MCEnrichment`, `MCCustomers`, `MCIdempotentCreate`, `MCMcpServer` | instances for TLC | |

An operator whose comment begins "Mutant:" is a plausible wrong version of the
definition that follows it. Nothing uses it; it documents which mistake the
properties would notice (`PROJECT.json`, "mutants").

### Orders

`orders`, `lines`, `products` are the committed tables. `pc[r]` is the
statement request `r` is about to execute, `call[r]` its parameters, `local[r]`
what its session has loaded. A request's own writes are not stored twice: the
rows it has written are `locks[r]`, and `OrderAfter`, `LineAfter` and
`ProductAfter` say what the request makes of such a row on top of the newest
committed version, column by column, as the ORM's UPDATE of changed columns
does. `LinesAfter(r)` is what its own SELECT sees; COMMIT publishes it.

Isolation is READ COMMITTED, the default of PostgreSQL, which nothing in
`db/base.py` overrides: each statement sees what is committed when it runs;
UPDATE and DELETE wait for a row somebody else has written and then act on the
newest version; no row left is a `StaleDataError` for an UPDATE, only a warning
for a DELETE. The INSERT of a line takes a KEY SHARE lock on its order and
product, which conflicts with their DELETE only. A pair of requests that wait
for each other is broken by the deadlock detector. Cycles of three or more are
not needed: a request that waits while it holds a written row holds a line and
wants its order (`update_total`) or holds an order and wants its lines
(`cascade`), and the second request of any cycle closes it.

Details that are easy to get wrong and are in the model: a PATCH or PUT with
the loaded value flushes nothing and only refreshes; the total is written only
when the sum differs from the one the session loaded; ids are taken from a
sequence and not returned on rollback; `delete_line` goes on when its DELETE
matches nothing or when the order has gone; the sum may not fit the column;
`delete_product` does not catch the IntegrityError.

Abstractions: the unit price stands for a product's columns; the customer of an
order is a choice between "exists" and "does not"; the INSERT of a line and its
foreign-key check are one step; listings are left out, as is the response.
`OrderTotal` is the sum the routers compute for themselves
(`order/order_line_router.py:182`); `order/totals.py`, which they do not call,
has the same formula. A
behaviour starts in any consistent state of the tables and each request is
served once, so that all pairs of operations meet on all small databases. A
crash of the process is the failure of all its requests, each of which
`Fail` does.

In `OrderLedger` each handler is one step. A status moves along its graph there,
with one exception: `CancelOrder` is the MCP tool, which asks nobody
(`mcp/tools.py:236`) and takes an order out of SHIPPED too, although
`order/router.py:96-99` has SHIPPED as terminal.

### RefreshTokens

`rows` are the committed records. A refresh is SELECT, UPDATE (`RefreshRevoke`),
INSERT (`IssueTokenPair`), answer, commit. `held` are tokens a client has,
which it gets *before* the commit. `age` has three values because the JWT's
`exp` is truncated to the second and computed before the record's `expires_at`:
the JWT expires first. The cleanup's DELETE and COMMIT are separate. Each worker
has its own scheduler; the jobs' DELETEs select the same records and wait for
each other, so one job at a time is enough. The job's absence while the
application is down is not special: the job store is in memory, so the
one-hour `misfire_grace_time` (`auth/cleanup.py:75`, "if app was down at 03:00,
run within the next hour") does not survive a restart, and the next run is at
the next 03:00.

### Enrichment

Per worker: `phase` (where `start_kafka` is), `service`, `pending`, the reply
group and the offset it joined at. `GroupOf` says which workers have a reply
group in common: workers with a group each are separate processes whose `id()`
differs; workers with a common group are those that gunicorn forks, where
`id(_reply_consumer)` is `id(None)` in all of them
(`messaging/kafka_client.py:87` evaluates it before the assignment). Timeouts are
enabled whenever a request waits: the 5 seconds are not measured, so the model
contains a reply that comes at any moment before and after. `HandleRequest` may
fail to send.

Kafka is modelled by what clients with aiokafka's defaults may rely on, which is
not exactly-once:

* *Appends.* `AIOKafkaProducer` (`messaging/kafka_client.py:63`) is created
  without `enable_idempotence` and with `acks=1`, and retries within one
  `send_and_wait` when an acknowledgement is lost. `RepeatPublish` and
  `RepeatReply` append a record again, the reply at any later moment.
* *Ownership.* `owner` is the coordinator's view of who has the request
  partition, `reads[w]` the offset at which worker `w` believes that it reads.
  `Evict` gives the partition away while the owner lives (session timeout) and
  goes on with it, until `Notice`. `Rebalance` hands it over in order when a
  member joins or leaves, in the middle of a request or not; the request is still
  answered by the worker that has it.
* *Offsets.* The consumer commits by itself. Of all its commits only the last one
  before the partition changes hands can be seen by anybody, so `GiveUp` draws it
  there, anywhere from what was committed before to what the owner has read,
  handled or not: this includes a commit that covers the request in hand, one
  that was refused, and none. `Assign` begins at the committed offset, or at the
  first record if there is none (`earliest`).
* *Late appends.* A reply that reaches the log after its worker has died is
  counted within that worker's end (`Finish`): it is appended or it is not.

`faults` counts what goes wrong, and `MaxFaults` bounds it. Not every fault can
repeat anything: `again` counts those that can, a repeated send, an evicted owner,
an owner that ends or hands over without a commit of all it has read. An owner
that leaves in order, any other worker that ends, and a start that fails repeat
nothing.

A start may fail at each of its three awaits. When only the reply consumer
fails, the request consumer has joined its group and nobody reads it (phase
`half`): it may own the partition until aiokafka notices
(`max_poll_interval_ms`) and leaves.

When a consumer fails to start, `service` is set already, so an enrich request
is published and answered 504, where the docstring of `get_enrichment_service`
promises 503 ("If Kafka is DOWN at startup") and the warning of `app.py:64` says
so too: 503 is answered only when the producer itself fails. The model has those
states (`broken` and `half` with `service`), and no property about status codes:
how a request ended is the action that ended it.

### Customers

The tables are `customers`, the id sequence and the customers that orders refer
to; `recent` and `events` are the Redis list and the topic. `conns` is the pool:
a request enters it at its first statement and leaves it when its session is
closed, which for an enrich request is after the reply or the timeout. `loaded`
is what the session has read, `held` the row it has written and not committed;
`Written` is the row it leaves, the changed columns on top of the newest version.
`Blockers` says for whom a statement waits: an INSERT or a changed email for
whoever is changing a row with that email, an UPDATE or DELETE for whoever has
written the row, a DELETE or a change of the email also for the KEY SHARE lock of
an order's INSERT, and that one for them. A changed email enters the unique
index (`Index`) when the row is locked already, which is how two updates can wait
for each other; `DeadlockVictim` ends one.

A create is INSERT, `LPUSH`, `LTRIM`, publication, answer, COMMIT. Redis and
Kafka errors are swallowed, an error of `LPUSH` skips the `LTRIM`, and a
publication whose acknowledgement is lost may have happened. `Lose` ends a
request at any step while it holds a connection: a failed statement or commit, a
cancelled request, a dead process. The HTTP clients are `Attempt`: success, a
retry, or the fallback, which a malformed payload reaches at once. Reads are
steps of their own where the handler reads twice (`Count` and `Page`; the churn
endpoint). History variables (`made`, `touched`, `lost`, `overtaken`,
`untrimmed`) record what excuses a property; `overtaken` counts, for a request,
the commits that came between its reads or over the row it has read.

Abstracted: a row is a name and an email; listings are sorted by id, the default;
the name filter is one of equality; answers are status codes; waiting times
between attempts, and what audit reads, are left out. The order INSERT is here
only for its foreign key; `Orders` has the rest of it.

### IdempotentCreate

One process, its dict as the sequence `cached` of keys in insertion order with
the reference `ref` of each. The lookup, the INSERT, the COMMIT and the cache
write are separate steps; the cache write and the eviction are one, because no
`await` lies between them. The docstring calls the eviction LRU; it is FIFO,
and the model says so. The module is checked alone for the retry that overlaps
its call, and as part of `McpServer` for everything else.

### McpServer and ChurnRules

`McpServer` extends `IdempotentCreate`: the same calls, now with the `tool` each
invokes, the `headers` it came with and the `user` the token verifier has set for
it. `Arrive` is the middleware, the verifier and the SDK's scope check, which
every request passes (`LetIn`).

The SDK keeps sessions between requests, since `mcp/mount.py:123` does not ask
for stateless HTTP: `OpenSession` is an initialize request, and any caller who is
let in may call in an open session. A session is served by a task of its own,
begun by the request that opened it, and the verifier sets its context variable
in the task of the request it looks at. Whether a body runs in the context of its
own request or in that of its session's opener is not decided in this repository,
and `Arrive` leaves it open: the call gets the user of one or the other. The
comments of `mcp/auth.py` speak of the first only. Sessions do not end in the
model; an ended one only refuses calls.

A tool
body is one action up to its first statement and one action per statement after
it: `Begin` writes the audit line (through the root logger into `ring`), records
the parameters in `ask` and goes on; `AnswerWith` records the result. So an audit
line, a log tail and a metrics snapshot are each one step, and order reads
interleave with creations and with `DELETE /orders/{id}`. Order ids come from a
sequence of the database, so `CreateOrderStep` takes the least id not yet drawn;
that the order of ids is the order of creation is what `list_recent_orders`
relies on.

`metrics` is the TTL cache; `Stored` is `cachetools.TTLCache.__setitem__`: what
has expired goes, and if there is no room one that has not (which one is left
open). `CacheKey` keeps that no filter and an empty filter are the same key.
`clock` counts seconds. `logged`, `deleted` and `before` are history, and so is
`heard`: how much of the log the ring buffer's handler was there for. It stops
growing when a second app takes the handler away (`CreateAppAgain`).

The tools do not all affect each other, so the instance has *scenarios*: which
tools are called and in which order, by which senders, and how many sessions, log
lines, seconds and created apps it has. Within a scenario everything interleaves.

`ChurnRules` has the features the service computes from the rows of one customer
in one pass (`ExtractFeatures`) beside those the training computes by filters
and joins of tables (`BuildFeatures`), the label and the risk bands. A ratio is
a pair of integers; `predict_customer_churn` uses the module on histories whose
orders lie on, just before and just after the edge of a window.

### Documentation that differs from the code, without a run

* `cancel_order` (`mcp/tools.py:229`): "FK CASCADE removes its lines"; it sets a
  status and removes none.
* `integration/bio_service.py` describes three attempts and makes two.
* `messaging/customer_event.py:41-42` says the event is published "AFTER the DB
  commit"; the commit follows it. `Announced` says what remains true.
* `customer/recent_buffer.py:47-49` expects "MAX_SIZE+1 briefly"; overlapping
  adds, or a failed `LTRIM`, exceed it by more (`BufferBounded`).
* `mcp/tools.py:5-7` puts the audit line first; the tools for administrators ask
  for the role before it, so a refused call leaves no line.
* `tail_logs` can filter by request id, and its records never carry one, so such
  a call finds nothing; and the newest record of every tail is the audit line of
  that very call.
* A second `create_app` in one process replaces the root logger's handlers
  (`middleware/logging.py:72`) and does not attach the ring buffer again: from
  then on `tail_logs` shows the log up to that moment.
* The health tools report DOWN for an `SQLAlchemyError`; a refused connection is
  another exception and an error of the tool. Readiness answers 503 when the
  pool is exhausted although the database is up.
* REST's `current_user` raises `KeyError` for a valid token without `sub` or
  `role`, which MCP rejects; MCP alone takes the API key as a bearer token.
  `OwnUser` covers the senders both let in.
* `mcp/auth.py:70-74` sets the user "right before the tool body runs" and speaks
  of a task for each tool call; with sessions that outlive a request the body's
  context may be that of the session's opener (see above).
* The comment at `messaging/kafka_client.py:76` promises that a request
  published "while we were down" is still processed. It is (`NothingSkipped`),
  except one that `stop_kafka` cancels in the middle: the consumer then commits
  past it.
* PUT with a product's name that exists is an uncaught `IntegrityError`.
* `middleware/setup.py` configures a rate limit that answers 429; without
  SlowAPI's middleware, and with no decorated route, nothing enforces it.
* `ml/train_churn.py:281-283` standardises the features before training; the
  exported graph is the network alone and the service feeds it raw features. The
  features of a customer without orders are defined by the service only.
  `FeaturesAgree` compares the features, before standardisation.
* `ml/seed_demo_data.py:140` forces an order of an "active" customer into the
  last 30 days, which may precede the creation of its account.

## 3. Runs

| Run | Shows | Instance | Distinct states |
|---|---|---|---|
| `orders` | the safety properties of overlapping handlers; `Inductive`, of which the types are a part | 3 requests, 2 connections, 1 order, 2 line ids, 1 product, 2 prices | 621,128 |
| `orders_serial` | without overlap the handlers implement `OrderLedger` | 2 requests, 1 connection | 107,468 |
| `orders_live` | every started request ends | 2 requests, the operations that wait for locks | 41,215 |
| `orders_total` | violation: overlapping `add_line` | 2 requests | |
| `orders_terminal` | violation: an order leaves CANCELLED | 2 requests | |
| `refresh` | rotation, purge, failure; `Inductive` | 3 tokens, 2 sessions (any number of calls), 1 failure | 58,287 |
| `refresh_twice` | violation: two successors | 3 tokens, 2 sessions | |
| `enrichment` | own reply, no leak, bounded repetition, no request passed over; `Inductive` | 2 workers with a reply group each, 2 requests, 2 correlation ids, 1 fault: an end, a failed start, a repeated send, an eviction, a lost commit; at most 4 records in the two topics | 891,711 |
| `enrichment_forked` | violation: a reply is lost to a shared group | 2 workers, 1 group | |
| `customers` | consistent tables, honest announcements, pages and replacements as exact as overlapping commits leave them, fallbacks, every request ends; `Inductive` | 3 requests, pool of 2, buffer of 1, page of 1 row, 13 groups of calls | 445,311 |
| `mcp` | a call's own user, log tails, fresh metrics, visible orders, equal features, the idempotency cache; `McpInductive` | at most 3 calls, 2 sessions, 2 keys, cache of 1, 3 order ids, ring of 2, 1 snapshot kept for 2 seconds, 1 customer, or 2 with `get_customer_360`, 14 scenarios | 294,860 |
| `idempotent_retry` | violation: one key, two orders | 2 calls, 1 key | |

Why the bounds are enough to meet the interesting cases. *Orders*: three
requests with two in flight give a pair that overlaps and a third that starts
after one of them has ended, which is what repair of the total and a second
stale write need; two lines and two prices make sums differ by line and by
price, and `MaxTotal = 3` lets two lines overflow. One order suffices because
requests on different orders meet only through products, and two lines of one
order refer to the same product. *Refresh*: three tokens are a login and two
refreshes of the same token, or a chain of two; two sessions overlap, and serve
again. *Enrichment*: two workers are the owner of the request partition and
another; one fault is enough for a request to be appended, handled or answered
twice, and the bounds `1 + again` are reached. Four records (`FourRecords`) are
two requests and their replies, or one request that is repeated and answered
twice, or a repeated reply next to another request. Longer topics are left to
the proofs of section 4, and so are two faults, whose state space is out of
TLC's reach. *Customers*: two requests
in flight and a third that follows or waits for a connection; each group of calls
(`MCScenarios`) is one in which they can clash: two emails exchanged, a create or
a change against a delete, an order against both, a page against each kind of
write, connections held by waiting requests against the readiness probe. A buffer
of one is outgrown by two adds; a third follows a failed trim. *MCP*: two keys
overflow a cache of one, and three calls are a call, its retry and the other key;
two creations and a read meet in every order (of two customers where the read
tells them apart, `OneCustomer`); three metrics calls are a snapshot,
one that evicts it, and the first question again; a ring of two forgets; two
sessions opened by an administrator and by somebody else mix with calls of both. A
behaviour has two seconds, so that a snapshot of two seconds expires.
Deadlock checking is off everywhere because behaviours end: requests, tokens
and ids are used up.

### What holds and what does not

Two line writers of one order that overlap can leave a wrong total, and
`TotalIsSumOfLines` fails in `orders_total`. `TotalExactUnlessRaced` says how
far this goes: the total is exact unless the last line writer to commit had
been overtaken by another one, and a later writer that runs alone repairs it.
Likewise a status check that is stale lets an order leave CANCELLED
(`orders_terminal`), and still no interleaving ships an unconfirmed order
(`ShipmentFollowsConfirmation`), refunds an unshipped line
(`RefundFollowsShipment`) or returns anything to PENDING (`NeverBackToPending`).
Overlapping refreshes give a token two successors (`refresh_twice`), and still
a committed rotation leaves no live predecessor, a failed one revokes no record,
and a token presented after its rotation is refused. These speak of records: the
client that never gets the response of a committed rotation is left with a
revoked token. In the idempotency
cache two overlapping calls create two orders (`idempotent_retry`); apart from
that, eviction and a call that ends between commit and cache, a key makes one
order, and whoever was answered a reference finds the order with any other tool
until it is deleted (`AnsweredIsVisible`).

Below `/customers`, nothing breaks the unique email or the reference of an order
(`Consistent`). An announced customer is stored with the announced values, or its
own request is still open or failed, or somebody changed it since: no step of
another request can make an announcement wrong (`Announced`). A PUT whose row
another write overtook may leave a mix of both: columns it found as asked and did
not write are the other's. Columns it found different are as asked in any case,
and without such a write it replaces the row (`PutReplaces`). A page may disagree
with its total if commits came between the two statements, by one row for each
(`PageAgrees`).

Behind `/customers/{id}/enrich`, neither Kafka nor the code promises that a
request is handled once. `RepliesBounded` says what is promised: without a fault
of those counted in `again` each request is published once and each of its
records answered at most once, and each such fault adds at most one.
`NothingSkipped` is the other side: whatever is committed early or late and
whoever is evicted, the group never passes a request that nobody took. One that
was taken and not answered is one whose reply failed, or whose worker was stopped
or died.

An MCP call acts for one user, from the audit line to the role check, and that
user is its sender or the opener of its session (`OwnUser`). `tail_logs` is exact
also after a second app was created: it then shows the end of the log as of that
moment (`TailAnswers`).

### Refinement

`AtomicHandlers` is `OrderLedger!Spec` with the identity on the three tables:
with `PoolSize = 1` each behaviour of `Orders` is one of the ledger, the
multi-statement handlers being stutters followed by one step at COMMIT. With
more connections it does not hold (that is what the violations show). The run
checks it on an instance, `RefinementTheorem` proves it (section 4).

### Fairness

`Orders`: weak fairness of each open request's next statement. The event loop
resumes every task whose awaited statement is done and PostgreSQL grants row
locks; a wait that another request always overtakes cannot last, since a
behaviour has finitely many requests. `Fail` is not fair. `RefreshTokens`: weak
fairness of sessions, strong fairness of the cleanup's DELETE, which may be
blocked by one refresh after another and is eventually served because lock
queues are first come, first served, and the job runs every day; the number of
failures is bounded. `Customers`: weak fairness of each request's step, which
includes the ends that timeouts guarantee: the pool's, the HTTP client's,
`asyncio.wait_for`'s, the deadlock detector. `Start`, `Reply` and `Lose` are not
fair: no client has to call, no reply has to come, nothing has to fail. So
`RequestsEnd` holds also when every connection is held by a request whose reply
never comes. A statement that waits for a row or an index entry waits for open
transactions, which end, and a behaviour has finitely many requests. `Enrichment`
and `McpServer` are checked for safety only: that an enrich request ends is
`asyncio.wait_for`'s timer, and a tool waits for nobody.

## 4. Proofs

Every theorem holds for any number of requests, calls, workers, rows, tokens and
keys and any capacity, under the assumptions named in the modules: `None` is no
member of the sets it is an alternative to, ids of different tables differ,
amounts, bounds and capacities are naturals (capacities not zero), and the
scenarios of `Customers` and `McpServer` consist of calls the endpoints and
tools accept. `Calls` and `OrderIds` of `McpServer` are finite, and order ids
are numbers from 1, because `list_recent_orders` sorts by them. The histories of
`ChurnRules` are sequences, of any length, of orders that have an integer time
and amount and a sequence of products (`OrderRows`); `Now` is an integer and a
`Day` is not empty.

Each component has an inductive invariant. The runs `orders`, `refresh`,
`enrichment`, `customers` and `mcp` check the same formula, so what the proofs
rest on is also seen not to fail on an instance. A step is taken by one request,
call or worker: the lemmas say what it does to its own part of the state and
that it leaves alone the others' (`Frame`, `WorkerFrame`, `ToolFrame`), and
then treat one conjunct each.

| Module | Proved of its specification |
|---|---|
| `OrdersProofs` | `IInv`, `TypeOK`, `RefundFollowsShipment`, `SnapshotNeverChanges`, `StatusInv`, `ShipmentFollowsConfirmation`, `NeverBackToPending`, `ParentsInv`, `LinesHaveParents` |
| `OrdersTotalProofs` | `TotalInv`, `TotalExactUnlessRaced`, `Inductive`; with one connection `SerialInv`, `TotalIsSumOfLines` and `AtomicHandlers` |
| `RefreshTokensProofs` | `Inductive`, `RotationRevokes`, `RevokedHasSuccessor`, `LateIsRefused`, `UsableStays` |
| `EnrichmentProofs` | `Inductive`, `PendingExact`, `OwnReply`, `RepliesBounded`, `NothingSkipped`, `OwnGroupSeesEveryReply` |
| `IdempotentCreateProofs` | `CreateInductive`, `CacheBounded`, `RefsWereCommitted`, `OneOrderPerKey`, `SameKeySameRef` of `create_order` alone |
| `ChurnRulesProofs` | `ServedIsTrained` and `QuietIsShown`, about the operators |
| `McpServerProofs` | `McpInductive`, `McpTypeOK`, `OwnUser`, `MetricsFresh`, `AnsweredIsVisible`, `TailAnswers`, `FeaturesAgree`, and the four properties of the cache among all other tools |
| `CustomersProofs` | `Inductive`, `TypeOK`, `Consistent`, `Announced`, `BufferBounded`, `PageAgrees`, `Degrades`, `PutReplaces` |

### Orders

`RefundFollowsShipment` is not inductive: the UPDATE to REFUNDED executes long
after the check that justified it, and the row may have changed. `IInv` adds
what carries the check to the write: a request that is to write REFUNDED has
loaded a line that was SHIPPED, and `shipped` only grows (`RequestOK`); a row
is written by one request at a time (`LocksDisjoint`); a written row is the one
named by the call and exists unless the operation creates it (`WritesOK`), so
that `[row EXCEPT !.status = ...]` is a row; a statement belongs to its handler
(`Handlers`), so that the parameters it uses are there (`CallShape`).

The argument: `Frame` says that a step which keeps the tables and moves one
request to a state `RequestOK` allows preserves `IInv`. Its three corollaries
(`RollbackInv`, `EnterInv`, `AdvanceInv`) cover leaving, starting and
continuing, and every action but COMMIT is an instance of one. COMMIT changes
the tables, in the rows the request has locked only, and disjoint locks keep the
other requests' `RequestOK`.

The two status graphs are no invariant, since a stale check writes over any
status. `StatusInv` is what is left: who is to ship asks it of an order that was
confirmed once, and who asks for PENDING found PENDING and writes nothing.
`ParentsInv` follows the foreign keys through three statements that do not see
each other: a KEY SHARE lock keeps a parent from the INSERT to its commit, a
DELETE of an order has locked all its lines when it commits, and a product that
goes has no lines, nor anybody's share.

`TotalInv` says what a line writer that nobody has raced knows: the total it has
loaded is the committed one, its sum is that of the lines it will leave, and it
skips the UPDATE only when the two agree (`SumOK`). That needs `TargetsOK`: ids
come from a sequence, so a row that was loaded and has gone does not come back
as another. What `OrderTotal` computes is never unfolded: two tables in which an
order has the same lines with the same amounts have the same total
(`TotalOfAmounts`, by congruence of the fold), and the sum of no lines is zero
(`EmptyTotal`). An overtaken writer is in `raced`, for which nothing is claimed
until a writer runs alone.

*Refinement.* With `PoolSize = 1` a request begins only when no other is open, so
nothing is raced and what the open request has read is so until it ends: the
graph still allows the status it asks for, the price it has loaded is the
product's (`SerialInv`). Every step but COMMIT keeps the tables and is a stutter
of the ledger (`LedgerStep`). At COMMIT the invariants say which rows are locked
(the order and exactly its lines, for a DELETE; one new line, for a POST), what
they hold now and what the request leaves there, and that is the ledger's action
of the same name (`OrderCommitRefines`, `AddLineRefines`, ...). A line writer has
`SumOK`, which is the ledger's `Retotal`; one that found its line gone, or the
status it asks for, has nothing locked and stutters. Without the hypothesis
neither `AtomicHandlers` nor `TotalIsSumOfLines` holds, as the run `orders_total`
shows.

### Refresh tokens

`RotationRevokes` compares a committed successor with its predecessor's record,
which another refresh, a failure or the cleanup may change. `SessionOK` says
that a session between its UPDATE and its end holds the lock of its token's
record, which therefore still exists and is not being purged, and that the token
it has minted is its own; `Exchanged`, that a token once rotated is not live
again. `PurgesDead` carries the cleanup's WHERE clause from its DELETE to its
COMMIT: what it matched stays dead, which is `UsableStays`.

### Enrichment

A reply crosses two topics and two workers. `MessagesInv` says that whatever is
published, being handled or replied repeats the one message of its correlation
id; `FuturesInv`, that a future which is done belongs to an open request and
holds its reply.

`RepliesBounded` counts in two places. `CopiesInv` says of each record of the
request topic that the replies to it, the workers that handle it, the workers
that believe they have yet to read it, and the group itself if no owner has it
and its committed offset is not past it, are `1 + again` at most. A reader turns
into a handler and a handler into a reply or nothing; an owner that gives the
partition up with everything committed leaves nothing for the next to read; and
each fault that repeats adds one to the right side with the one it adds to the
left. That a request has at most `1 + again` records follows the same way, from a
request that is published once. It is an argument about any number of workers,
so the sums are cardinalities of finite sets, moved one element at a time.

`NothingSkipped` is inductive together with what an owner has read: a record
leaves the unread ones by `TakeRequest` only, which makes somebody its handler,
and `Finish` turns that into a reply or into a member of `dropped`; a committed
offset is one that some owner has read to. `OwnGroupSeesEveryReply` is inductive
as it stands, because a group's position moves forward only by the delivery that
completes the future.

### Customers

`PathsInv` ties the steps to the operation, so that parameters exist where they
are used. `LocksInv` says what an open transaction has written and what the lock
keeps: two requests with one row are an order's KEY SHARE and a writer that
neither deletes it nor changes its email. `EmailsInv` extends the unique email to
rows that are not committed: a request whose row is in the index claims its
email against the table and against every other claim, and COMMIT makes the
claim a row. `Consistent` is then the committed part. `Announced` needs that ids
below `nextId` are never handed out again (`IdsInv`) and that the row an insert
makes is the one it was asked for. `BufferBounded` counts requests between LPUSH
and LTRIM, one more or one less at each step. `ReadsInv` says that what a
request has read is so until somebody commits over it, which is counted in
`overtaken`, and that the number of matching rows is within that count of the
total (`MatchingStep`: a commit changes one row). `PageAgrees` follows because
the rows of a page are those of certain ranks among the matching rows, and the
ranks number the rows from one to their number (`PageCount`), which a page can
only follow (`OnPageMonotone`); `PutReplaces` because the changed columns over
the loaded row are the row that was asked for.

### MCP server

`CreateInductive` says for each key where its order is: not yet committed, between
COMMIT and cache write, in the cache, or excused. `McpServer` keeps it because
each of its steps is one of `create_order`, a deletion over REST, or leaves its
variables alone (`CreateStep`), so the lemmas of `IdempotentCreateProofs` are
used again. `AccessInv` binds a call's user to its headers and its session from
`Arrive` on, `SessionsInv` in it a session to the headers that opened it, which
stay (`OpenersStay`); `AuditInv` binds a line to its call. `MetricsInv` relates
a cached snapshot to every answer given from its key, which is what "never older
than before" needs when a snapshot expires, is evicted and taken again.
`VisibleInv` says that whatever refers to an order (cache, answer, a reader's expectation) refers to one that is
there until it is deleted; that a full list holds only newer orders is a fact
about the largest members of a set (`ListIsFull`).

`TailAnswers` is about a log that grows while calls look at it. `RingInv` says
that the buffer is the end of the log as far as its handler has heard it, so a
snapshot is records of known
numbers, and an answer names the line it was taken at (`TailInv`): lines written
later do not change what it says of those before (`TailIsStable`), and once the
handler is gone what it has heard stays the same (`LogGrows`). What the loop
of the snapshot returns is `MatchingIsLast`: walking the records backwards, the
matching one with `r - 1` newer matching ones is found in place `r`, and the walk
stops at `n`. `PredictInv` carries a history from the parameters of a prediction
through its three statements to the answer, where `ServedIsTrained` and
`QuietIsShown` (below) make it `FeaturesAgree`.

### Churn prediction

The service folds over the rows it has read, the training counts and sums over
sets of rows. A recursive definition is out of this prover's reach, so the model
uses folds of the community modules, and a fold is followed through its
prefixes: there is a function of the prefix length that starts with the base and
makes the fold's step at each element, whose value at the end is the fold's
(`LeftFoldExists` and the lemmas about each loop). Then, of the first `k` orders, the
newest, the revenue within a window, the number of lines and the set of products
are those of the corresponding sets, by induction over `k`. An induction is
stated of a *set* of numbers that holds 0 and the successor of each of its
members (`NatSet`, which follows from the well-foundedness of `<`), because the
library's induction theorems take an operator as a parameter. `ServedIsTrained`
joins the parts into one row of features. `QuietIsShown` starts from the label:
an order inside a window is one after which the customer was not quiet for that
long.

### Only model-checked

Liveness: `RequestsEnd` (of `Orders` and of `Customers`) and `RevokedIsPurged`.
Fairness is about ENABLED, which the prover does not have. The risk bands and the
domain classes of `ChurnRules` are tables of cases, used and not proved about.

## 5. Plan

Done: every module of section 2, and the theorems of section 4, which state
every safety property, action property and refinement of the passing runs. Left:
an abstract specification of `Customers`, in which every request is one step, for
requests that do not overlap.

## 6. Not modelled

* Products: `POST`, the unique name, description; `PUT` and `DELETE` as they meet
  orders are in `Orders`, the low-stock tool in `McpServer`. The unique name works
  as the unique email of `Customers` does.
* Listings of orders and products: one or two SELECTs that change nothing; the
  pair of SELECTs is checked for `/customers`.
* The network, its training loop, its export and the sampling of demo data:
  floating point and random numbers, out of TLC's reach.
* The transport of the MCP SDK and the end of its sessions; redaction, and the
  texts of info, environment and OpenAPI.
* Telemetry set-up, settings, the request-id header and the quality report, which
  keep no state another part depends on. At shutdown the steps of `app.lifespan`
  run one after the other unguarded, so an error in one skips the rest.
* `auth/deps.require_role`, which no router uses.
