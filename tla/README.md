# llmbus in TLA+

A verification project for llmbus, the LLM job bus: TLA+ modules translated from
`src/src/llmbus`, TLC configurations that check them on small instances, and TLAPS proofs of
what holds on every instance. Source lines below are relative to `src/src/llmbus`.

## 1. The system

A producer submits a job, the bus records it in SQLite and puts it on an Apache Iggy topic with
one partition; one worker consumes the topic in order, calls an LLM provider under a rate limit,
prices the answer, finalizes the row and posts a callback; the producer polls the row.

| Component | State | Operations | Talks to |
|---|---|---|---|
| Job contract (`schema.py`) | immutable `Job`, `Result` | validation, `resolve_model` | everyone |
| Store (`store.py`) | tables `jobs`, `model_policy`, `worker_policy` in one WAL file | `insert_pending`, `finalize`, `get`, policy upserts and reads, `cost_by_project_day` | shared by every process |
| Producer client (`client.py`) | one `submit`/`await_result` call at a time per caller | `connect`, `submit`, `await_result` | store, topic |
| Worker (`worker.py`) | broker session, offset of the group | boot, `_consume_one`, commit, restart by systemd | topic, processing |
| Processing core (`processing.py`) | locals of one job | `process_job`, `_call_with_retry`, `_finalize_and_notify`, `_deliver` | limiter, provider, store, callback receiver |
| Retry policy (`retry.py`) | none | `retry_budget_seconds`, `is_retryable`, `backoff_delay` | processing, `worker_policy` |
| Rate limiter (`ratelimit.py`) | two token buckets per provider, in memory | `reserve`, `acquire` | processing |
| Pricing (`cost.py`) | price table | `price_for`, `cost_usd` | processing |
| Providers (`providers/`) | none | routing table, one call | processing |
| Configuration (`config.py`) | none | parse and validate environment | everyone |
| Costs server (`server.py`, `policy_page.py`, `webauth.py`) | listening sockets | bind, GET pages, POST `/policy` | store |
| Dashboard and CLI (`dashboard.py`, `cli.py`) | none | summarise, render | store |
| Deployment (`deploy/`) | systemd units | restart | worker, costs server |
| Iggy broker and SDK | topic, stored offset | external | producer, worker |

What is hard here. There are no locks across processes: everything is coordinated through three
SQL statements (insert unless present, finalize unless terminal, upsert) and the order of
effects around them. The hard behaviours are

* **interleaving** of submits of one `job_id` with each other, with policy edits and with the
  worker, between any two `await`s of `submit`;
* **crashes**: of a producer between insert and send, of the worker between the paid call and
  `finalize`, between `finalize` and the callback, between the callback and the commit;
* **redelivery**: a lost commit or a restart runs a job again that is already finished;
* **time**: a deadline that passes while the limiter or a backoff holds a job, a poll whose
  timeout races the answer, a bucket spent while it refills;
* **partial failure**: pricing or SQLite raising in the middle of a handler;
* **head-of-line blocking**: one partition, one worker;
* **configuration that changes**: `.env` is read once by each process, at its start, while
  another process reads what the last start published.

Per component, what makes it correct: the row and the topic name the same model, and spend is
attributed to a model that ran (submit, pricing); a terminal row is final and is announced at
most once (store, processing); the offset never passes an unsettled job, and every job on the
topic is settled in the end (worker); no call after the deadline (processing); polling ends and
returns the final result (client); calls stay within what a token bucket allows, and no attempt
pays for another's debt (limiter); the published retry budget bounds what a job spends, and what
its producer asked of the model is honoured or refused (retry policy, adapters); a producer reads
the policy of the worker that runs (boot); the costs page is served where it was asked for and
nowhere else, and its policy changes only by requests every guard let in (costs server); a row
that is ok is charged one call at the rate in force, and the page never shows more than was
billed (pricing, dashboard). `PROJECT.json` lists the hazards line by line.

## 2. The modules

| Module | Models | Extends | Role |
|---|---|---|---|
| `Store` | `jobs` and `model_policy` tables | | operators on the two tables, each one committed SQL statement |
| `Producer` | `client.py` `submit`, `await_result` | `Store` | one process per call of `submit` |
| `Worker` | `worker.py` loop, `processing.py` | `Producer` | the one consumer, its offset, its handler |
| `Bus` | all of the above together | `Worker` | specification, properties, fairness |
| `JobLifecycle` | what the bus promises of one `job_id` | | abstract specification |
| `BusInvariant`, `BusProofs`, `BusRefinement` | | `Bus` | inductive invariant, safety theorems, refinement theorem |
| `RateLimiter`, `RateLimiterProofs` | `ratelimit.py` as `_call_with_retry` drives it | | clock, two buckets, restarts |
| `Settings` | `config.py`: which numbers and which policies are accepted | | operators on settings |
| `BindSettings` | `config.py`, `resolve_bind`: where the costs server listens | `Settings` | operators on lists of addresses |
| `Contract` | `schema.py`: `Job`, and what of it survives JSON | | operators on jobs |
| `Adapters` | `providers/`: routing, requests, answers | `Contract` | operators on jobs and answers |
| `RetryLoop`, `RetryLoopProofs` | `retry.py` and `_call_with_retry` with a clock | `Adapters`, `Settings` | one job under a run policy |
| `RetryInWorker` | that job as `Worker` sees it | `RetryLoop` | refinement mapping of `RetryLoop` to the loop of `Worker` |
| `WorkerBoot`, `WorkerBootProofs` | boot of worker and producers, `worker_policy` table, `.env` | `Settings` | load, publish, connect, create the topology |
| `CostsService`, `CostsServiceProofs` | `server.py`, `webauth.py` | `BindSettings` | one process, a thread per request |
| `PolicyRegister` | what the policy page promises to those who edit and read it | | abstract specification |
| `CostLedger`, `CostLedgerProofs` | `cost.py`, `cost_by_project_day`, `dashboard.summarize` | | prices, bills and the page |
| `Recurrences` | | | functions given by a recurrence exist and satisfy it; sums over finite sets |
| `MCBus`, `MCRateLimiter`, `MCRetryLoop`, `MCWorkerBoot`, `MCCostsService`, `MCCostLedger` | | their module | small instances for TLC |

Operators called "Faulty variant" in a module's comments are what a plausible bug would make of
the definition after them. No action uses them; substituting one for its definition must break a
property, which is how each property is known to depend on the code.

### How state and actions correspond to the code

**Store.** `row[j]` is the row of a `job_id`; `cost` is kept as the pair (model, day) it was
priced at, which is what the properties tell apart. `InsertPending` is `ON CONFLICT DO NOTHING`,
`Finalize` is the update guarded by `status = 'pending'`, `SetModelPolicy` the upsert.

**Producer.** `pc[s]` walks through the `await`s of one `submit`: `Resolve` (policy lookup and
routing, before any side effect), `Insert`, `ReadBack` (a duplicate adopts the model on record),
`Send` (the message is on the topic, the caller may still see an error), `Abort` (the process
dies or a call raises before that). The caller then polls: `PollRead`, `PollAgain`,
`PollTimeout`. `Lapse` is the passing of `submitted_at + ttl_s`; nothing orders it with the rest.
A retry of a submit is another element of `Submits` for the same job. `Asks` says what the calls
may pass together, and `Awaited` which of the callers goes on to poll.

**Worker.** `wpc` walks through `_consume_one` and `process_job`: `Fetch` decides what happens
before the first `await` (poison, no model, not routed, no adapter), `Acquire` is the first look
at the deadline and the wait for a slot, `StartCall` the second look and then the adapter's refusal
or the start of the call, `CallAnswers` (including pricing, which raises before the first price
point) or `CallFails`,
`FinalizeResult` (the callback is due only if this delivery wrote the row), `PostCallback`,
`Commit`. `Crash`, `StoreFails` and `HandlerRaised` are the failures. The broker is a sequence
`log` and the stored offset `committed`; `pos` is the position of the running process, so a lost
commit is one that leaves `committed` where it was. What the SDK does with an exception of the
handler is not in this repository: the process may end, or the loop may go on.

**RateLimiter.** Amounts are seconds of refill, so that both buckets refill one unit a tick and
hold `Window`; a cost is the pair of seconds a request and its tokens take to refill. `Reserve`
charges both buckets and computes the wait, `StartCall` follows once the sleep is over, `Expire`
is the deadline check after the sleep, `Crash` and `Boot` lose the limiter and build a full one.

**Settings, BindSettings, Contract, Adapters.** Functions of their arguments, so operators. A
host in `BindSettings` is what the operator spelled: `_WILDCARD_HOSTS` compares with three
spellings, and so does `Refused`. A
setting is a number, `Blank` or `Junk`; `Positive`, `RetryParses`, `WorkerPolicyParses` and
`BindParses` hold when the code returns instead of raising `ConfigError`. A job is the fields the
rest tells apart; `JobValid` is validation, `Decoded` what the worker reads from the JSON, in
which a number that is not finite has become null. `Takes`, `Request` and `Complete` are the
refusals, the requests and the checks of the two adapters; each model name stands for those the
code treats alike.

**RetryLoop.** Composes all of these around one job, with time in ticks since the worker took
it until its `Result` is known; `finalize` and the callback come after and are `Worker`'s.
`policy` is any policy that parses and `asked` any job that can be built; `job` is what
arrives. `due` is the running timer. `Acquire` looks at the deadline, reserves from the buckets of
the provider and sleeps as long as its larger deficit takes to refill: `credit` and `updated` are
the state of the limiter, and the arithmetic is that of `RateLimiter`, instantiated. The buckets
start at any of the `Levels`, none of them a debt, because whoever reserved before slept its debt
out (`DebtInv` of `RateLimiterProofs`). `StartCall` looks at the deadline again, and the adapter
refuses or sends. During a call the SDK client may repeat a request on its own (`SdkResend`);
`CallAnswers` keeps or refuses the answer, or raises in `_price` if the job is not `priced`;
`CallFails(f)` classifies the failure and draws the jitter. `calls` and `requests` count what was
reserved and what reached the provider, `spent` what `retry_budget_seconds` claims to bound.

**RetryInWorker.** `Worker` and `RetryLoop` both model `_call_with_retry`, one with free choices,
the other with what decides them. The mapping says which state of `Worker` a state of `RetryLoop`
is: one message on the topic, in hand, its row pending; `wpc` from `phase` and whether the handler
raised; the day from `priced`; a job in its backoff
has begun its next attempt, and the end of the backoff is a stutter; the deadline is in `lapsed`
from the moment `Expired` holds, so that a `Tick` is a `Lapse` or a stutter. A worker of `Worker`
has one `MaxAttempts`, so `LoopIsTheWorkers` is about the policies with `LoopAttempts` attempts,
for any `LoopAttempts`.

**WorkerBoot.** `env` is what `.env` holds and `running` what the worker has loaded; `Edit`
changes the first at any time and `Start` copies it, unless it does not load: then the worker is
down as before. `table` is the committed `worker_policy` table, `draft` its copy in an open
transaction; a crash or an error rolls back by forgetting it. `at[p]` walks each process through
`Store.connect`, `publish_worker_policy` (worker only), the handshake, and `ensure_topology` with
its look and its creation as separate steps.

**CostsService.** `AddressOf` gives each host the address its socket is bound to; two spellings
may share one, and a spelling `config.py` does not know may mean `Every` interface. A bind raises
if the machine lacks the address or the process already listens on it (`Bindable`). `config` is
what a start would read, `running` what the process has read, `process` and `bound` how far it
has come; `End(status)` closes the sockets and loses the requests being served; `Restart` is
`Restart=on-failure`. `at[r]` walks a request through `Guards` (method, path, secret,
credentials, origin, framing, form, with the outcomes of `do_GET` and `do_POST`, and the
exception `compare_digest` raises for a password that is not ASCII), `Write` and `Answer`, the
last two each in a connection of its own that may raise. `writes` is the history of the upserts,
`floor[r]` and `shown[r]` how much of it was there before a request came and how much its page
shows. Under the mapping at the end of the module (`Register`) these are the variables of
`PolicyRegister`, a request being asked, pending, answered, refused or lost; which guards it
meets, and every start, bind, edit and exit of the process, are stutters there, or the loss of
all that was pending.

**CostLedger.** `rows` is the table; `stage`, `job`, `usage` and `result` are what the one worker
has in hand; `bills` is the history of what the provider charged for each job, call by call. The
call, `_price` and `finalize` are steps of their own, and `Take` may deliver a message again at any
time. So a call can be billed and bring nothing (`BilledInVain`: the adapter refuses the answer, or
it came after the timeout), its pricing can raise (`Price`), and the worker can be killed or its
`finalize` fail with the answer in hand (`Drop`); the next delivery pays again. `PriceFor` is how
`cost.py` looks the rate up, `Bills` says independently which rate is in force, `Summary` is what
the page shows.

## 3. What is checked

Twelve configurations. Seven pass:

| Run | Instance | Shows |
|---|---|---|
| `duplicates` | 2 submits of one job, model explicit or by policy, a policy that may name a model whose provider has no adapter, 2 kills or store errors | the row and the topic name one model (`RowTopicAgree`), cost belongs to a model that ran (`SpendIsAttributed`), one callback (`CallbackOnce`), no pending row is forgotten (`PendingIsOwed`), a polled result is final (`GotIsFinal`), the invariant of the proofs (`IndInv`), the refinement (`LifecycleSpec`) |
| `deadline` | 2 submits of different jobs in either order, one without deadline, one with a deadline, awaited, whose pricing raises; a poison message queued with them; 2 attempts, 1 fault, lost commits | the offset passes nothing unsettled (`CommittedMeansSettled`), no call after the deadline (`NoCallAfterDeadline`), every delivered job finishes, unless its own handler raised or a message ahead of it comes back and raises for ever (`JobsFinish`), a poll ends (`PollEnds`) |
| `limiter` | window of 4, costs below and above a bucket, 3 calls, 2 processes | `Envelope`, `WaitIsOwnCost`, `LimiterInv` |
| `boot` | 5 environments of which 3 do not load, edited at any time; 2 producers, 3 faults, any table left behind | producers read the policy that runs (`PublishedIsRunning`), nobody is ready without a topic (`ReadyHasTopic`), a policy never vanishes (`PolicyNeverVanishes`), the worker comes up once its settings stay loadable (`WorkerComesUp`) |
| `retry` | 7 environments of which 3 load, 13 jobs of which 9 can be built, 3 models, deadlines past, during and after the job, buckets empty, full and short of tokens, priced or not, 2 resends | `SpentWithinBudget`, `ResultInTime`, `NoTailBeyondTimeout`, `HonouredOrRefused`, `AnswerIsFinal`; for the policy with 4 attempts, the loop with a clock implements `Worker`'s (`LoopIsTheWorkers`) |
| `costs_service` | 10 configurations of which 5 are refused, one names an address twice and one means every interface; 2 addresses, 2 concurrent requests of 10 kinds, 2 kills, edits or lost addresses | `WritesAreAccepted`, `PagesAreFresh`, `RefusedNeverBound`, `AllOrNothing`, `ServesInTheEnd`; the policy page is one register (`PolicyIsOneRegister`) |
| `ledger` | 2 jobs of up to 2 bills each, 2 projects, 3 days before and around a change of rates, 2 models | `RowsCarryTheirBill`, `PageAccountsForBills` |

Five show where the code and its own comments part:

| Run | Property | What happens |
|---|---|---|
| `backdated` | `NoJobStalls` | `_price` runs outside the `try` of `_call_with_retry`. A `submitted_at` before the first price point makes it raise after the call was paid; the row stays pending, and the message may come back for ever, calling again each time. |
| `ledger_day` | `PricedOnLedgerDay` | a second submit of a `job_id` with another `submitted_at` is priced at its own day, the ledger books it on the first. |
| `topology_race` | `ConnectSucceeds` | worker and producer look for the stream, both see none, the second creation raises out of `connect()`. |
| `expired_unrun` | `ExpiredIsUnrun` | a job that expires before its second attempt is reported as "dropped unrun rather than billed". |
| `resent_requests` | `RequestsAreReserved` | the SDK clients are built with their defaults and repeat a failed request inside one attempt: requests the limiter never reserved. |

Remarks that no run is spent on:

* A bucket starts with a whole minute's limit and refills while it is spent, so nearly twice the
  limit can start within one minute, against `ratelimit.py:104` ("neither limit is ever
  exceeded"); `Envelope` is the bound that does hold.
* `retry.py:102` says a drained bucket may stall the next job for a whole minute; with one serial
  worker the wait is at most the attempt's own cost (`WaitIsOwnCost`), because the previous
  attempt slept out its own deficit before it gave way. So the time until the `Result` of a job is
  known has a static bound (`ResultInTime`). The docstring at `retry.py:98` is right all the same
  that the retry budget bounds no occupancy: after that come `finalize`, with SQLite's busy
  timeout, and the callback, which may hold the only worker for as long as its receiver likes.
* `_WILDCARD_HOSTS` (`config.py:234`) compares with three strings. `0`, `0.0`, `0x0` or a name that
  resolves to `0.0.0.0` pass `validate_costs_hosts` and listen on every interface. What holds is
  `RefusedNeverBound`, of the spellings; `NeverEveryInterface`, of the addresses, needs that no
  other spelling means every interface (`NeverEverywhere`).
* Two hosts that stand for one address (`localhost` and `127.0.0.1`) are not recognised as a
  repetition; the second bind raises on every start, and the server never comes up.
* A configuration that is refused exits 2 and is restarted for ever, against the comment at
  `deploy/llmbus-costs.service:30`: `Restart=on-failure` makes no difference between failures.
* A `temperature` that is not finite passes validation, becomes null on the way and is dropped
  without a word; `HonouredOrRefused` names it as the one exception.
* The page is a lower bound of the bills, and exact only for jobs that were called once and kept
  their answer (`PageAccountsForBills`): a call paid before a kill and paid again, one whose pricing
  raises and one whose answer is cut short or refused are billed and leave no cost on the row.
* A password, or a secret, that is not ASCII gets no answer at all.
* After a `POST` the banner says what was written, which another write may already have
  replaced; the table below it is fresh.

### Bounds

Each bound is a named constant used in a guard.

* `MaxFaults` (bus): kills and store errors. Two allow a redelivery of a redelivery, which is
  what the "at most once" properties need; lost commits are not counted, and neither is a handler
  that raises. One suffices with the two submits of `deadline`, whose redeliveries come from the
  pricing as well.
* `Submits`: two suffice for every pairwise interleaving of submits of a job; the proofs have
  no bound. Liveness is checked with two submits of different jobs, either ahead of the other and
  of a foreign message, so that a head of the queue that raises on each delivery is met.
* Symmetry is used where nothing tells the members of a set apart and the run checks no liveness:
  the submits of `duplicates`, which may pass the same jobs, and the jobs and projects of `ledger`.
* `MaxAttempts`: two give a first and a retried attempt, all that `Worker` tells apart.
  `RetryLoop` goes to four, where the backoff reaches its cap.
* `ForeignMsgs`: each foreign message is put on the topic at most once, and none carries a model
  a worker could serve, since submitting past `submit()` is outside what the bus promises.
* `Window = 4`, `MaxNow = 7`, `MaxCalls = 3`, `MaxGranted = 8`: a bucket that fits two requests,
  longer than one window, enough calls to reach a full bucket, a debt and a second process. The
  proofs have no bound on any of them.
* `Environments`, `Submissions`, `SubmittedAt`, `Statuses`, `TokenRate`, `RequestWait`
  (retry): one environment for each way the backoff meets its cap and each way it is refused,
  jobs for each rule of the contract and of the adapters, small rates so that an attempt waits
  for several ticks. `Window` and `Levels`: buckets that are empty, full, and lacking in one
  dimension only, with costs that fit them and costs that do not. `SdkResends = 2` is the default of both SDKs. `LoopAttempts = 4` is the policy
  with the most attempts; `LoopIsTheWorkers` is proved for every number of them.
* `MaxFaults` (boot): kills and broker errors; three, so that the handshake can be exhausted and
  the process killed once more. Edits are not bounded.
* `MaxBills` (ledger): two bills for one job, one of them in vain. `Unlisted` is what a provider
  may charge on a day for which the table has no rate.
* `Addresses` (costs server): two that come and go, one of them under two names.
* `MaxFaults` (costs server): kills, edits and lost addresses; two of them at any point of the
  bind and of two requests.

Deadlock. In `Bus` a deadlock is checked, though the check says little, since an operator may
always edit a policy; what waits on what is the subject of `JobsFinish` and `PollEnds`. It is
checked in `CostLedger` too, where a message can always come again. The other modules reach states
where everything is up, done or at its bound, and their configurations say
`CHECK_DEADLOCK FALSE`.

### Fairness

* `Bus!FairSpec`: weak fairness of the worker, a single event loop that `Restart=always` brings
  back; weak fairness of each poll, a loop with a sleep; strong fairness of `PollTimeout`, since
  a monotonic clock that passes `timeout_s` stays past it, whereas `checked` is left and
  re-entered at each round. No submit has to be finished, no policy edited, no fault to happen.
  A provider call that neither answers nor fails does not exist: `asyncio.wait_for` ends it. That
  the callback ends is an assumption about its receiver: the HTTP timeout is one per read and
  write, and `_deliver` has none around them (`processing.py:281`).
* `WorkerBoot!FairSpec`: weak fairness of the worker's boot. Faults are bounded, so this says
  that the worker comes up once they stop. Producers and the operator need not do anything:
  `WorkerComesUp` assumes that `.env` loads from some point on, whatever it held before. One
  handshake is assumed to succeed or fail in the end; `worker.py:135` puts no limit on it.
* `CostsService!FairSpec`: weak fairness of the main thread together with systemd, and of
  nothing else. A request may wait for its body for ever. The network and the operator need not
  do anything: `ServesInTheEnd` assumes that from some point on the configuration is valid, its
  addresses are up and no two of its hosts stand for the same one (`Listenable`).

## 4. What is proved

TLAPS checks the theorems below for every value of the constants that satisfies the named
assumptions next to each constant: sentinels are not values, routed models are models, wired
models are routed, foreign messages carry no routed model, settings and requests have the fields
named, price points of a model differ in their day, bounds are natural numbers.

* **Bus** (`BusProofs`). `IndInvHolds` shows that `IndInv` is inductive, with one lemma for each
  action or group of actions that write the same variables; the safety properties are read off
  it. The properties are not inductive by themselves. `RowTopicAgree` needs to know that a
  submit about to send has chosen the model of the row (`SubmitInv`), and that a row, once
  there, keeps it (`RowInv`). `CallbackOnce` needs that a delivery about to post is the one that
  finalized the row, and that nobody has posted yet (`HandlingInv`). `CommittedMeansSettled`
  needs the same of everything between the stored offset and the running worker's position, as
  a commit moves the offset over all of it at once (`SettledInv`), and `PendingIsOwed` follows
  from that and from where the message of a row can be (`OwedInv`).
* **Refinement** (`BusRefinement`). `BusImplementsLifecycle`: under the mapping of `Bus` (model
  and day of the row, result of a terminal row, callbacks sent) each step of the bus records,
  finishes or notifies one job of `JobLifecycle`, or stutters. `DeadlineIsKept` is the action
  property `NoCallAfterDeadline`. `DayInvHolds`: the day of a row and the day it was priced at are
  both days of jobs submitted with its `job_id`.
* **Rate limiter** (`RateLimiterProofs`). `LimiterInv` relates the credit left, what is reserved
  and what was spent since any earlier call to the refill since then (`BudgetInv`), and says
  that nobody but the sleeper starts from a debt (`DebtInv`). From it `LimiterTypes`,
  `EnvelopeHolds` and `WaitIsBounded`, for any limits, costs, number of calls and restarts. A lemma on the way,
  `RefillNeverDrains`, holds for a clock that goes backwards too.
* **Retry loop** (`RetryLoopProofs`). `BudgetBounds` and `ResultsAreInTime` need what the sum of
  the backoffs is for every number of attempts. `Recurrences` shows that a function given by a
  recurrence exists and satisfies it, from a least counterexample (a set of naturals that is not
  empty has a least element), so that the sums can be used one step at a time; the invariant then
  says, for each phase, how much of the budget the attempts so far and the running timer may have
  used. `ResultsAreInTime` needs in addition that a bucket is out of debt whenever an attempt starts,
  because the attempt before slept as long as its debt takes to refill (`CreditInv`); a wait is
  then no longer than what the attempt itself reserves. `TailIsBounded` uses that a deadline that was asked for survives the wire,
  `ParametersAreHonoured` that the adapter took the job before any call, `AnswersAreFinal` that
  an answer ends the job. `LoopImplementsTheWorkers` takes the same invariant and maps each step:
  it is why what `BusProofs` says of a worker that chooses freely holds of one that keeps time.
* **Boot** (`WorkerBootProofs`). `BootInv` says what the open transaction holds and which step
  of `ensure_topology` has established what. `BootTypes`, `PublishedHolds`, `TopicHolds` and
  `PolicyStaysPublished` follow for any environments and any number of racing producers;
  `LoadedHolds` is what a worker may rely on once its environment has loaded.
* **Costs server** (`CostsServiceProofs`). `CostsInv` says what a request has established at
  each stage, and what is bound. `KeptHolds`, by the same recurrence argument, is what removing
  repeated and blank addresses leaves. From them `ServiceTypes`, `WritesHold`, `PagesHold`,
  `RefusedHolds` and `AllOrNothingHolds`, for any lists of hosts, whatever they stand for, and any
  number of requests. `NeverEverywhere` says what the check of the spellings is worth: the server
  listens on no socket for every interface if no spelling but the refused ones means that.
  `ServiceImplementsRegister`: each step asks, writes, answers, refuses or loses requests of
  `PolicyRegister`, or stutters. An answer shows all writes there are when it
  is rendered, and `RequestInv` says that its own is among them.
* **Ledger** (`CostLedgerProofs`). `PriceIsInForce` shows that the look-up of `price_for` finds
  the latest point in effect, for any table in which a model has one point a day. The invariant
  `LedgerInv` says that an answer in hand, and then its price, is one of the bills for the job in
  hand (`HandCarriesTheBill`), whatever was billed, raised or lost before; with it `LedgerTypes`
  and `RowsAreCharged`. `BillsCoverTheRows` compares a row with the bills for its job, and
  `PageHolds` carries that to the page: grouping loses nothing and counts nothing twice, and a sum
  grows with its terms. `Recurrences` defines the sum over a finite set by a recurrence on its
  size, shows that the sum of the library is that, takes sums apart (`SumByParts`) and compares
  them (`SumIsMonotone`).

A property that a run refutes has a theorem as well, which says when the comment it comes from is
true after all, and with that what a repair has to bring about:

| Refuted | Holds | Theorem |
|---|---|---|
| `RequestsAreReserved` | when the SDK clients do not retry; in general the requests are at most `1 + SdkResends` for each reservation | `ReservedWithoutResends`, `RequestsPerReservation` |
| `ExpiredIsUnrun` | when no policy retries; in general an expired job was called at most once for each attempt before | `UnrunWithoutRetries`, `ExpiredAfterFailuresOnly` |
| `PricedOnLedgerDay` | when all submits of a `job_id` carry one day | `OneDayPerJob` |
| `ConnectSucceeds` | when the topic is there and the broker does not fail | `ConnectsToATopic` |

`NoJobStalls` is liveness; the part of it that is safety is that the only rows left behind are
those of a submit that ended before its send or of a handler that raised (`PendingRowsAreOwed`).

Model-checked only: `JobsFinish`, `PollEnds`, `WorkerComesUp` and `ServesInTheEnd`. Liveness under
fairness is out of this prover's reach.

## 5. What is not modelled

* `meta`, the opaque value a caller gets back. It is the one field of a callback that comes from the
  message (`processing.py:156`, `processing.py:282`) and not from the row: if a duplicate submit
  with another `meta` is the one that runs, its callback carries what the row does not. "What the
  store says" in `CallbackOnce` and `JobLifecycle` is status and cost.
* What means "every interface", and which names stand for one address: a constant function of the
  host, which `CostsService` takes as any function at all.
* The canonical form of a `job_id`, time zones, the texts of errors and log lines, the syntax of
  `.env` and of numbers: pure functions of their input, covered by the repository's unit tests.
* The HTML of the two pages and the command line. Which option a browser posts from the policy
  page is the browser's choice; `CostsService` lets it be any registered model. (A row whose
  model has left the registry has no selected option at `policy_page.py:67`, so that a Save
  without a choice posts the first one.)
* The signature of a callback, and a receiver that never ends a request.
* More than one worker: the deployment and `run_worker` have one, on one partition.
* SQLite itself: a statement is one step, a transaction is atomic, a write may raise.
* Floats: times and money are integers of a small unit, so rounding is not looked at.

## 6. Plan

The order was: job life cycle (`Store`, `Producer`, `Worker`, `Bus`) with its abstract
specification and proofs; the limiter and the retry loop, which put time into what the worker
leaves to chance; the boot; the costs server; the ledger; then the settings, the contract and the
adapters under the retry loop, the boot and the costs server, and their proofs. What is left:

1. Jobs that queue behind each other in time: `RetryLoop` for several jobs on one clock, so that
   the buckets a job finds are those the one before left.
2. An abstract specification of the limiter (a token bucket as a bound on any interval) and of
   the published run policy as a register, with refinements, as `PolicyRegister` is one of the
   policy page.
3. The ledger under duplicate submits of another day, composed with `Bus`.
