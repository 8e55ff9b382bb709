# A verification of the Obsidian ecosystem

TLA+ models of the Obsidian ecosystem's runtime, storage, messaging and trading
agents, checked with TLC on small instances; every safety property that holds in them is
also proved with TLAPS, for every value of the parameters. The reference is the code of the repository;
paths below are relative to its root.

## 1. The system

Obsidian is a set of processes ("cities"), each hosting agents. Agents exchange
signed Protobuf envelopes over NATS, sign with keys kept in files, and record
what they did in a private append-only ledger. A tape recorder stores everything
that is on the wire, and a time oracle publishes a hybrid logical clock.

| Component | State it keeps | Operations | Hard behaviour | Correct means |
|---|---|---|---|---|
| Event ledger `core/obsidian-ledger` | RocksDB entries and three metadata keys; in-memory head behind a mutex | open, append, head_sequence, replay, verify_chain | several writers, cancelled calls, failing writes, a process that dies between puts, power loss | one unbroken signed chain, nothing acknowledged is doubled, nor lost but with the power, the head matches the entries |
| Agent runtime, Rust `core/obsidian-agent-rs` | per agent: loop position, restart history, status handle, heartbeat task; one shutdown token | connect, create, init, run, shutdown, restart with budget and backoff, heartbeat, signals | abort races a publish, shutdown races restart, panics, sliding window | budget exact, every instance closed once, heartbeats in order, shutdown ends everything |
| Agent runtime, Python `core/obsidian-agent-py` | the same, as asyncio tasks in one TaskGroup | the same; a failed loop cancels its siblings | cancellation while awaiting a cancelled task, heartbeat tasks left over, agents that look at the shutdown only between messages | as above |
| Signing keys (`signing.rs`, `signing.py`) and their seeding (`seed_keys`) | two files per agent, shared by all processes | validate, load_or_generate, load, save | crash or error between the two files, or inside one; power loss; other processes that read meanwhile | an agent that runs can be verified by others, identities last |
| Bus clients `core/obsidian-bus`, Python `bus/` | NATS connection, key registry with its cache | build, sign, publish, subscribe, next, verify | two implementations of the signed bytes, at-most-once delivery, keys that are read too early or cached for ever | what an agent signs verifies everywhere; nothing else is handed on |
| Tape recorder `core/tape-recorder` | bounded channel, batch buffer, ClickHouse table | receive, flush by size or time, shutdown drain | slow or failing inserts, shutdown with rows in hand | order kept, no row twice, what is lost is known |
| Time oracle `core/time-oracle` | last tick | tick, publish | wall clock that steps back, restarts, a counter at its limit | later and later ticks, never ahead of the host |
| Trading pipeline (CSV collector, momentum signal, signal blender, paper executor) | averages and last position per symbol, the broker's client | row to price to signal to order to fill | restarts that forget windows, messages lost between the agents, three steps per order | every fill leads back to a price, every signal is a crossover |
| Risk overlord `agents/rust/risk-overlord` | positions, marks | on_fill, on_market, reevaluate | fills and marks in either order, fixed side and symbol key, closed subscriptions | an override whenever a limit is exceeded |
| Memory keeper and archival | Neo4j, Qdrant, MinIO clients | store publication, store reflection, snapshot | snapshot of a live store, two loops one of which never ends | not modelled, see 6 |
| Schemas, graph wrappers, entry points, scripts | none | | | not modelled, see 6 |

Components interact through NATS topics only, but for three things they share:
the data directory (keys of one agent are read by others' registries; the
archival tars it while it is written), the shutdown token or event of one
process, and the TaskGroup of a Python process.

What makes them hard, in short: the ledger and the keys are files that a crash can
tear; the runtime and the tape are tasks that are cancelled or aborted while others
await them; the bus, the clock and the trading agents get messages late, in another
order, or not at all. PROJECT.json lists each hazard at its line, with the properties
that would catch it going wrong.

## 2. The modules

| Module | Models | EXTENDS |
|---|---|---|
| `LedgerChain` | entries, hashes, signatures, `verify_chain` and `replay` as operators on a store (`hash_chain.rs`, `entry.rs`, `ledger.rs:244-341`) | Integers, FiniteSets |
| `Ledger` | `RocksLedger`: open, append, head_sequence over a RocksDB that can fail, crash and lose its unsynced tail | LedgerChain |
| `LedgerProps` | properties of `Ledger`, its inductive invariant `LedgerInv`, the refinement mapping to `LedgerLog` | Ledger |
| `LedgerLog` | abstract specification: an append-only log that may lose an unsynced suffix | Integers |
| `LedgerCorruption` | stored bytes that change afterwards, and what `verify_chain` says of them | LedgerChain |
| `LedgerTampered` | composes the two: a ledger is written, closed and then edited | LedgerProps, LedgerCorruption |
| `LedgerProofs` | the theorems about the ledger, its corruption and their composition | LedgerTampered, TLAPS |
| `Lifecycle` | the states of a heartbeat, shared by both runtimes | |
| `Supervisor` | the Rust agent runtime: `agent_supervisor_loop`, `run_heartbeat_loop`, the signal handler | Lifecycle |
| `SupervisorProps`, `SupervisorProofs` | its properties with `SupervisorInv`; the theorems | Supervisor |
| `PySupervisor`, `PySupervisorProps` | the Python runtime: loops of one TaskGroup and their cancellation | Lifecycle |
| `PySupervisorProofs` | the theorems about the Python runtime | PySupervisorProps, TLAPS |
| `Tape`, `TapeProps` | the tape recorder: subscriber, channel, batcher, inserts, process | |
| `TapeLog` | abstract specification: a table that only grows, in message order | |
| `TapeProofs` | the theorems about the tape recorder | TapeProps, TLAPS |
| `Canonical` | the signed bytes, as each language writes them (`canonical.rs`, `canonical.py`) | SequencesExt |
| `Envelope` | build, sign and verify (`envelope.rs`, `envelope.py`) | Canonical |
| `Keys` | the key files of all agents and the start of the processes that seed them | Integers, Sequences |
| `Bus` | composes `Keys` and `Envelope`: publish, delivery, registries, `next` | Keys, Envelope |
| `BusProps`, `BusProofs` | its properties; the theorems, about the bus and about what a signature covers | Bus; BusProps, TLAPS |
| `TimeOracle`, `OracleProps` | `Hlc::tick` and the agent that publishes it | Integers |
| `Clock` | abstract specification: a clock whose readings grow and never lead the host | Integers |
| `OracleProofs` | the theorems about the oracle | OracleProps, TLAPS |
| `Sma` | the crossover over running sums (`sma.py`) | Sequences |
| `Trading`, `TradingProps` | the collector and the three agents from a price to a fill | Sma |
| `TradingProofs` | the theorems about the trading pipeline | TradingProps, TLAPS |
| `Portfolio` | positions, exposure and the circuit breaker (`exposure.rs`, `circuit_breaker.rs`) | Integers, Functions |
| `RiskOverlord`, `RiskProps` | the loop of the risk overlord (`main.rs`) | Portfolio |
| `RiskProofs` | the theorems about the risk overlord, and about sums over a set | RiskProps, TLAPS |
| `MC*` | constants for TLC | the Props modules |

Definitions preceded by "A slip" or "Slip" are mutations of a neighbouring definition: each
property is known to fail when the code has that mistake. They are part of no
next-state relation. Each `Props` module has one `TypeOK`; where a run does not list
it, it is a part of the invariant that is proved, or a check for whoever changes the
module.

### Ledger

`store` is what reads see (`CF_ENTRIES` as a function from sequence to entry, and the
three keys of `CF_METADATA`); `recoverable` is the set of states the disk may come
back with after a power loss. `handle` is where `open` is, or that it has returned
`Ok`; `head` is `HeadState`. `queue` holds the append calls in the order of the fair
tokio mutex: the first has the lock. `written` separates `db.write(batch)` from the
update of `head` (`ledger.rs:221` and `:223-225`), between which the process may die
and a reader may look. `append` has one await, the lock, so only waiters can be
cancelled (`AppendCancel`). `acked` and `observed` are history.

External, modelled from use: a RocksDB write is atomic, visible at once, and a failed
write leaves the store as it was; a power loss keeps a prefix of the writes, at least
up to the last sync. RocksDB's LOCK file makes a second handle impossible, so there is
one process. `Crash` stands for a clean close too: closing writes nothing.

Hashes and signatures are values that determine what was hashed and who signed
(`MCHash`, `MCSign`); the proofs leave `Hash` and `Sign` arbitrary. The byte layout of
`canonical_bytes` is abstracted to the tuple of its fields.

`append` returns Ok before its batch is synced (`set_sync` is never called): an
acknowledged entry survives a crash of the process, and `AckedSurvive` says so, but a
power loss may take it back, which that property excepts. The comment at
`ledger.rs:95-96` ("RocksDB's default already fsyncs on commit") says otherwise;
`AckedDurable` states what it promises, and `ledger_synced` is its counterexample.

`LedgerTampered` hands a closed ledger, whose entries are all acknowledged and on disk,
to somebody who edits the bytes: what is edited is what `open` and `append` have
written, by whatever way they came to it.

### Rust runtime

`pc[a]` is the place of `agent_supervisor_loop`: one action per stretch of code
between two awaits. `heartbeats[a]` is the set of heartbeat tasks that exist; `beat`
is the status a task has read and is about to publish, so that an `abort()` (which is
not awaited) can leave a task in the middle of a publish. `now` is the monotonic
clock; the sliding window is computed from it as `exceeds_restart_budget` does. A
timer may fire late, never early. The times of restarts enter the state only as
failure times. The cadence of heartbeats is left out: a beat may come at any time.
A poll that was running when its task was aborted takes less than one unit of time
(guard of `Tick`).

The loops share only the token and the clock, so TLC runs one agent; the proofs hold
for any set of agents.

A panic in the agent's code unwinds `agent_supervisor_loop` itself: `shutdown()` is not
called, nothing restarts the agent, and its heartbeat task, detached, goes on until the
shutdown. `ShutdownOnce` and `HeartbeatPerInstance` say just that of a panicked agent;
the comment at `supervisor.rs:29-36` promises the clean-up of a failure instead (5).

The budget is exceeded by one failure more than it counts (`supervisor.rs:451`, `>`), as
the comment at `:37-38` and the Python test `test_restart_budget_trips_on_budget_plus_one`
have it, and `RetiredOverBudget` states that rule. `docs/whitepaper/07-agent-runtime.md:66`
("5 failures in 60 seconds triggers permanent retirement") contradicts it (5).

Seen while modelling, and true of the model: a restart sets the status from Active to
Booting without Error, which `can_transition_to` forbids and nothing checks
(`lifecycle.rs`; only tests call it); Retired is published as soon as the token is
cancelled, before `run()` and `shutdown()` have returned; a refused connection ends
that agent's loop with a log line while the process goes on; after a clean end of
`run()` the loop joins a heartbeat task that ends only with the shutdown
(`supervisor.rs:380-384`, under the comment "Graceful shutdown — the heartbeat already
saw the cancel."), so that a CSV collector that has reached the end of its file stays
up and publishes Active until it is told to stop.

### Python runtime

One process, one event loop, one TaskGroup. A step is what one task does between two
awaits; a cancellation is delivered at the await where the task is suspended, so
`GroupAborts` moves every sibling at once (`CancelledAt`). One place swallows it: a
loop that awaits the heartbeat task it has itself cancelled (`supervisor.py:249-253`)
takes the cancellation for that task's, goes on, and outlives its group.
`JoinCancelled` abstracts `_exceeds_restart_budget` to the number of failures left in
the window, any number the trimming could leave; the exact window is the subject of
`Supervisor`, whose code it mirrors. The NATS client is external: a connect may be
refused, `drain` may raise when the server is away, and a cancelled drain may go on
or leave the connection open. A publish only appends to the client's buffer, so it is
one step.

`Silent` names the agents whose topics may be quiet: an agent looks at the shutdown only
when a message has come, and `bus/nats.py:193` waits for one without a timeout. One of
the two agents is silent in every run. `OnlyIdleOutlives` says what a shutdown does
bring about: the process ends, or only agents that wait for a message in their `run`
are left, every other loop having ended. `ShutdownCompletes`, what
`core/obsidian-agent-py/obsidian_agent/agent.py:31` asks ("Must return when
``ctx.shutdown`` is set"), has its counterexample in `py_idle`. The first
signal sets the event; such a process ends only with a second one (`supervisor.py:158-160`).

### Tape recorder

A message is its number in the order of publication. `inbox` is what the NATS client
holds for the subscription (it drops when full), `hand` the row the subscriber is
sending, `channel` the bounded channel, `buffer` and `batch` the batcher's rows before
and in an insert. `accepted`, `lost` and `cut` are history. `ctrl_c()` is `Interrupt`;
SIGTERM has no handler and is `Terminate` (where the signal is ignored because the
process is the first of its container, the kill that follows has the same effect).
When the subscription closes without a signal the batcher drains and returns and
`main` waits on for its signal, recording nothing: the model has that state, and no
property forbids it. "Archives every message" (README.md:58) is not what the code can
promise: messages are missed while the recorder is down or slow, and a failed insert
gives up its batch.

### Keys and bus

`key[a]` and `pub[a]` are the two files of an agent: absent, short (created or
truncated and not yet filled), or holding a key, which stands for itself and its public
half. A process goes through its specs in order (`Current`), one file operation per
step: `look` is `path.exists()`, then the private key is created and filled, then its
companion. Between any two of them the process may crash, a call may fail (`SeedError`)
or the power may go; Rust syncs the private key file, Python neither, so `unsynced`
differs by language. `touched` is history: the agents whose files such a fault, or an
operator who clears the directory of an agent that does not run, has damaged or
removed. It is where the properties except an agent, and only for the fault that is its
own: a crash while the process writes the files of one agent touches that agent alone.

`HostAssumption`: no agent is hosted by two processes, as in the deployment
(`docker-compose.yml`, one supervisor per city and language). Two supervisors that
start with the same agent would both find no key and write two; nothing in the code
prevents it, and the model does not claim it.

`Canonical` writes the bytes that are signed, down to varints, because the properties
need them: whether the Python code, which takes strings, repeated fields and enums from
a decoded protobuf, writes what the Rust code writes. Long strings are sequences of a
byte or two, `Word` is 2^64. That different envelopes have different bytes is a
theorem (`CanonicalDetermines`), and TLC evaluates it on 1152 samples
(`CanonicalInjective` in `MCBus`). A signature is the pair of the key and the bytes. In `Bus` a message that is delivered is the signed
envelope; a subscriber whose inbox is full, or who is not there, does not get it.

Seen while modelling: a crash between the two files leaves an agent with a private key
and no public one, which no later start repairs (`load_or_generate` looks at the
private key only), and a subscriber that verifies drops its messages for ever; a short
private key file refuses every later start of its whole process (the agents of both
cases are `touched`: the properties say that no other agent is affected, and a finding
names the first case); `next` in Python
catches `VerificationError` while a malformed envelope raises `InvalidEnvelope`, which
leaves the iterator, but nothing publishes such an envelope (`publish_raw` has no
caller); a negative enum value is one byte in Python and ten in Rust, and none is ever
published; only the risk overlord verifies against the registry, and only tests use the
single-publisher mode. "silently dropped" (`nats.rs:282`) is the behaviour whose causes
`DropsExplained` limits.

### Time oracle

`ReadWall` and `Advance` are the two halves of `tick`: the host's clock is read before
the lock is taken. The binary has one caller, so nothing comes between the halves but
the host's clock; the type is shareable (`&self`, a mutex), so `Task` is a set, and the
refinement holds for a library user with several as well. The host's clock goes forward by one or back to
any value. `published` is the last tick on the topic: with several callers that
published, the order of publishing would be another than that of ticking, so only the
agent publishes. `MaxLogical` is small, so that saturation is met.

### Trading pipeline

One process hosts the collector (`core`), another the three Python agents (`logic`).
A message's identifier is its place among what its topic carried; each topic carries
one type, so the guards on the type are the topics. `hand` is what an agent has taken
a message for and not yet published. An instance may fail anywhere (that includes a
publish that raises) and is started again with nothing it remembered; the collector
then replays its file from the first row. Its delay before the first row is no
synchronization, and none is modelled. An agent looks at the shutdown after it has
received a message. The broker answers or raises, and in either case may have taken
the order; the fill is published all the same, with the venue `SIMULATED-NO-BROKER`
when there is no broker or it raised. Direction 0, which the momentum agent publishes
when the averages meet, is skipped by the executor. Left out: confidence, quantities,
times, and the floating point of the sums (prices are integers and the two means are
compared across).

### Risk overlord

`fills` and `marks` are the two subscriptions of the biased `select!`. A fill is
applied as a buy of the order's prefix, as the code does, so positions are filed by
order and marks by symbol: they never meet (the model assumes the two name spaces
disjoint), sales add exposure, and `realized_pnl` never changes, so that the daily-loss
breach is dead code in `Portfolio.Breached`. Against the comment at `exposure.rs:71`
("Sum |quantity| * mark across every held symbol") the exposure is therefore a sum of
quantity times average price, and no property claims more of it: `applied` is history,
the fills as they were applied, and `AverageRounds` compares the truncating average with
them and with nothing else. `BreachAnnounced` is about the portfolio that is held, and
the code's rule: red when the gross limit alone is exceeded (`circuit_breaker.rs:42-67`).
The documents ask for ORANGE then (`docs/whitepaper/13-risk.md:40-41`,
`docs/risk/FRAMEWORK.md:31-32`, `docs/cities/01-aletheia.md:60`); see 5. An override that cannot be published is logged and not tried
again (`lost`); nothing announces that a limit is kept again; a restart forgets the
positions. When the fills subscription has ended it is always ready, so no mark is
looked at again and the loop spins (`OnClosedFills`, a step that changes nothing): only
the shutdown, first in the bias, ends it. Multiplication saturates at `MaxInt`, addition
does not.

## 3. The runs

| Run | Question | Instance |
|---|---|---|
| `ledger` | Does an acknowledged append survive crashes, failed batches, cancelled calls? Can the disk come back with a ledger that does not verify? Is every caller answered? Does it implement `LedgerLog`? Which edits of the stored bytes does `verify_chain` accept afterwards, and where does it report a break? | 2 writers, 2 payloads, up to sequence 3, power loss; then 4 entries and 2 edits of any kind |
| `supervisor` | Budget, shutdown(), heartbeats and termination of the Rust runtime | 1 agent that may fail, end, panic or not connect; budget 2, window 3, failures up to time 7 |
| `py_supervisor` | shutdown(), heartbeats, cancellation and termination of the Python runtime | 2 agents, budget 1, 2 failures each; one may end early or lose its server, the other's topics are quiet and its factory may raise |
| `tape` | Where can a row be lost, doubled, reordered or stuck? Does it implement `TapeLog`? | batches of 2, channel of 2, inbox of 1, 5 messages |
| `bus` | Is what an agent signs verified everywhere, however the starts interleave? Do identities last, and why is a process refused? | 3 agents in a Rust and a Python process, one of each a subscriber in registry mode to an agent of the other, 6 keys, 2 faults, 2 messages |
| `oracle` | Does `tick` implement `Clock`? When does the topic go back? | the agent and another caller, host's clock 0 to 4, logical part up to 2 |
| `trading` | Are signals the crossovers of the prices taken? Does every fill lead back to a price? Is an accepted signal filled? | windows 1 and 2, two files of three rows, inboxes of 1, one failure, both processes may be stopped |
| `risk` | How far does truncation take an average from what its fills cost? Is the override that the portfolio calls for announced? Does a shutdown end the loop? | 2 order prefixes, 1 symbol, quantities 1 and 2, prices 1 and 4, 4 messages, 1 crash |
| `ledger_torn`, `ledger_synced`, `py_idle`, `tape_sigterm` | A statement of the repository that the code does not keep; each run ends in a counterexample, PROJECT.json "findings" quotes the statement | the smallest that shows it |

Why the bounds are enough. Ledger: two writers are what it takes to contend, three
sequences to have an append after an append after a reopen, and every crash point of
`open` and `append` is met; it is handed over with all three appended, and with two
edits a forged entry can be made to agree with one neighbour and not with the other. Supervisor: failures up to time 7
with a window of 3 let a full window slide out and fill again (one agent fails up to
seven times). Python: with two agents each can raise at every await of the other;
budget 1 lets a loop restart once before it gives up. Tape: five messages fill batch,
channel and hand, so that back-pressure reaches the inbox; the code's channel holds
four batches, here it holds one, so that it fills. Bus (1.7 million states): the
second agent of the Python process makes the order of specs and keys matter, six keys
let each identity be made anew after each of two faults, and one message in each
direction, or two in one, meet every state of the files. Oracle (1.2 million): four
steps of the host's clock allow a restart, a step back below it, and a second restart.
Trading (700 thousand): three rows fill a window of two and cross once or twice, on one
symbol or mixed with another; one failure of any agent at any step suffices to
forget a window, to lose an order and to replay the file. Risk (700 thousand): four
messages breach each limit, with and without rounding.

Deadlock checking is off in the runtime, tape, trading and risk runs, whose systems
stop, and in `ledger`, where nothing happens any more after the last edit.

What the edits of `ledger` show beyond its properties: `verify_chain` does not compare
an entry with its key, so an accepted ledger may lack its tail or have a tail of
another history of the same agent; it never looks at the head metadata.

### Fairness

- Ledger: weak fairness of the mutex holder's next step (it writes or fails, then
  returns). The executor polls a woken task, and RocksDB calls return. `open`, the
  calls themselves, crashes and syncs are not fair.
- Rust runtime: weak fairness of each loop, of each heartbeat task, and of time. Of
  `run` only that it returns once the shutdown is set, which the trait asks of an
  agent (`agent.rs`); nothing has to fail and nobody has to ask for the shutdown.
- Python runtime: the same, with the group's abort and the end of the process. `run`
  returns after the shutdown only if a message comes, and one has to come only to the
  agents that are not `Silent`; a silent agent's `run` has no fairness.
- Tape: the executor polls the subscriber and the batcher, the ticker ticks, and an
  insert is answered with success or error. The HTTP client sets no timeout of its
  own: a server that never answers stops the batcher, in the model and in the code.
- Trading: weak fairness of the executor's steps once it has taken a signal, which
  assumes that the broker's client answers or raises (it sets no timeout). Nobody has
  to publish, restart or deliver.
- Risk: the supervisor starts an instance, and its loop is polled.
- Bus and oracle have safety properties only.

## 4. The theorems

TLAPS checks every leaf. The theorems hold for any set of writers, payloads, agents,
processes and callers, any budget, window, backoff and batch size, any `Hash` and
`Sign`; the bounds (`MaxSequence`, `MaxTime`, `MaxMessages`, `MaxKeys`, `MaxFaults`) are
parameters as well.

**Ledger** (`LedgerProofs`). `LedgerInv` = `TypeOK`, `StoresOK`, `HandleOK`. None of
the safety properties is inductive by itself: that the chain verifies after an append
needs the in-memory head to be the stored head, which needs every recoverable store to
agree with its own metadata (`StoreOK`), and a reopen after a power loss needs that of
all of them, not only of the visible one. `RecoverablePrefix` then makes the refinement
work: a power loss is a `FallBack` of `LedgerLog`.

**Rust runtime** (`SupervisorProofs`). `SupervisorInv` relates the trimmed history to
all failures (`HistoryOK`: the ring buffer is the suffix of the failure times that lie
in the window of the last one), from which both directions of the budget follow; and
says that a heartbeat task is of the current instance and that an aborted one is gone
before the backoff is over (`HeartbeatOK`), from which the order of beats follows.

**Tape** (`TapeProofs`). `TapeInv` adds to `TypeOK` and `Accounted` that table, batch,
buffer, channel, hand and inbox, read in this order, are increasing message numbers,
none beyond the last published: what is in the table stays before what is on its way,
so every insert, also one whose answer is lost, is a `Record` of `TapeLog`.

**Keys and bus** (`BusProofs`). `KeyInv` says, for every process, what it knows of the
files of the agent it is at (`HalfOK`) and of those it is past (`HeldOK`), and for every
agent that files which nobody is writing and nothing damaged are both absent or hold
one key (`WholeOK`). That two processes never write one agent's files comes from
`HostAssumption`; that a start replaces no private key, from `CreateKey`'s guard. Every
step is then `Steady`: a public key that is there stays, unless its agent is touched.
`SignedVerifies` shows that the two canonicalizers write the same bytes for every
envelope that `publish` can build (for natural types and priorities, where their
encodings of enums agree) and that the signature is not part of them. `MailInv` puts the
two together: messages on their way, and cached keys, stay good while the files are
steady, so `DropsExplained` holds for any number of subscribers, inboxes of any size and
every interleaving with starts.

**What a signature covers** (`BusProofs`, its second part). `canonical.rs` leaves out
empty fields and zeros, so the bytes of an envelope have no fixed layout, and only tags
and lengths tell where a field ends. `CanonicalDetermines` says that they suffice: two
envelopes with the same bytes agree in every field but the signature, whatever the
strings, the number of causal links and the integers that fit a word. The argument reads
the bytes from the left. A varint ends where it says (`VarintSplit`, by the least number
whose varint could be read as another's); a field that is written is never what follows
one that was left out, whose tags are all larger (`TagFree`, `Begins`); hence each kind
of field, with what comes after it, is read back in one way (`BytesSplit`, `TextSplit`,
`ScalarSplit`, `OptionalSplit`, `RepeatedSplit`, the last by the least element at which
two readings differ), twelve fields in turn. `VerifiedIsSigned` draws the consequence
for `verify_envelope`: an envelope that verifies, in either language, with a signature
that was made by either language for another one is that other one, field for field,
and the key is the signer's. It asks that enumerations are not negative: in Python a negative one is written
as a single byte, which a varint may not end with.

**Time oracle** (`OracleProofs`). The invariant bounds the clock, and every time that a
caller has read, by what the host has shown; each locked update is a `Tick` of `Clock`
or, at the limit, a stutter, whatever the order in which callers get the lock.

**Trading pipeline** (`TradingProofs`). `Traceable` is not inductive: that no signal is
ordered twice needs the identifiers in an inbox to increase and to lie beyond those of
every order (`InboxOK`, `BeforeInbox`), and that an order without a fill costs a failure
needs the executor to hold the fill of an order nothing else has answered (`FillsOK`).
`TradingInv` says of every message, on its topic or still in its agent's hand, that it
follows from the one its link names. Topics only grow (`Grows`), so each part survives
the steps of the other agents, and `TradingStep` has one lemma per action. The theorems
hold for any files, windows, inboxes and number of failures.

`SignalsAreCrossovers` is a second invariant, `CrossInv`, over the first: the windows of
each symbol are the latest prices this instance has taken of it, their running sums are
the sums of those windows, and `last_position` is the side they are on (`Tracks`), so
that each price taken adds to the signals what it adds to the crossings. The reference
in `TradingProps` (`Prices`, `Total`, `Crossings`) is written as recursive functions of
the number of prices. That a definition of this form has the value its equation says is
proved once (`RecursionExists`, `RecursionAgrees`: the least number for which it failed
would contradict its predecessor), for sums, prices and crossings in turn; then one more
price is one more step of each (`TotalAppend`, `PricesAppend`, `CrossingsAppend`), and
`WindowStep` is the arithmetic of `sma.py`: what enters the sum less what leaves it.

**Ledger corruption** (`LedgerProofs`, last part). `CorruptionSpec` edits the stored
bytes in any order, for any length and number of edits. Two theorems assume
`SignaturesBind`: the agent's signature says which bytes it is of, and no other key makes
it. That is what Ed25519 is trusted for, and `MCSign`, in the run, satisfies it. Nothing is assumed
of `Hash`: an entry's signature covers its previous hash, so a valid entry is one
that `append` wrote or could have written (`ValidIsWritten`). `AcceptedIsHistory` needs
more than the links of neighbours: the first key can only hold a genesis entry, the
sequences of an accepted store increase (`AcceptedIncreasing`) and leave no gap
(`AcceptedComplete`), so the entries by sequence are a chain, and a chain is a beginning
of a history (`ChainShape`, `AcceptedPrefix`). `BreakLocated` needs that a history whose
tail is changed is still one (`HistoryBranch`). `TamperedInvariant` carries both results
over to a ledger that `Spec` has written: what is handed over is a history.

**Python runtime** (`PySupervisorProofs`). `PyInv` says of every loop, by its place, what
is decided of its end (`OutcomeOK`), how many instances it has closed (`ClosingsOK`), which
heartbeat task may exist (`HeartbeatsOK`) and which beats may still come (`WireOK`).
`GroupAborts` moves every loop at once, so each part is stated for one loop and survives
the steps of the others (`OthersKept`). That the cancellation misses no healthy agent
needs `FailuresOK`: the places at which it can be missed are reached through a failure.

**Risk overlord** (`RiskProofs`). `AverageRounds` is proved under `InRange`: the fills
applied under each prefix are worth no more than an `i64` of scaled cents holds
(`MaxInt`). Past it the product saturates or the sum wraps, in `Portfolio` as in the
code, and an average is no longer what the fills cost; the run stays within it. `PositionOK` is the arithmetic of `apply_fill`: each division
rounds down by less than one scaled cent per share held (`FilledRounds`), so after n
fills the position's worth at its average is behind what they cost by at most the
`slack` that `applied` counts. `BreakerOK` says that the decision at hand is about the
portfolio as it is, and that a waiting loop has announced what the portfolio calls for;
`RiskBreachAnnounced` follows without `InRange`, since nothing is ever realized. An
instance that has just started needs that the exposure of no positions is 0
(`EmptyKeeps`), where the sum over a set stands between (`SumRecursion`: what the
community modules' fold over a finite set computes, by induction on the set's size).

Every safety invariant, safety action property and refinement that a run checks is so
the subject of a theorem. Only model-checked are the liveness properties
(`AppendAnswered`, `ShutdownCompletes` of the Rust runtime, `RestartFollows`,
`OnlyIdleOutlives`, `RaiseEndsProcess`, `RowsLeave`, `InterruptStops`, `SignalsAreFilled`, `ShutdownEnds`):
they need fairness and ENABLED, which are out of the prover's reach. What the proofs take
as given: the assumptions on the constants (TLC evaluates them), and `SignaturesBind` and
`InRange` where named. `SignaturesBind` is about the ledger's `Sign`; for the bus, where a
signature is a value that determines the key and the bytes, `VerifiedIsSigned` is what
it would ask.

## 5. Findings

Four statements of the repository that the code does not keep, each with a run that
ends in a counterexample (PROJECT.json, "findings", quotes them):

- `ledger_torn`: `open` can be left unable to open by a crash between the puts of the
  genesis block.
- `ledger_synced`: an acknowledged append can be lost with the power, though the comment
  at `ledger.rs:95-96` takes every commit for synced.
- `py_idle`: a Python agent that receives nothing after the shutdown never returns from
  `run`, though `core/obsidian-agent-py/obsidian_agent/agent.py:31` says it must, and its process never ends.
- `tape_sigterm`: the tape recorder does not drain on SIGTERM.

Disagreements that a passing run takes the code's side of, since its property states
what the code does:

- `supervisor`, `ShutdownOnce`: a panic of an agent is neither cleaned up nor restarted,
  and its heartbeat goes on (`supervisor.rs:29-36` says the opposite).
- `supervisor`, `RetiredOverBudget`: retirement comes with the sixth failure, not with
  the fifth as `docs/whitepaper/07-agent-runtime.md:66` has it.
- `bus`, `DropsExplained`: a crash between the two key files of an agent is never
  repaired, and its messages are dropped; the property excepts that agent.
- `risk`, `AverageRounds`: exposure is not over symbols and marks, and sales add to it,
  against `exposure.rs:71`.
- `risk`, `BreachAnnounced`: the gross limit alone makes the breaker red, where three
  documents have orange; and no loss is ever realized, so that the daily-loss limit of
  `docs/whitepaper/13-risk.md:30` is never breached.

## 6. Not modelled, and the plan

- **Memory keeper and archival.** Nothing in the repository publishes the messages it
  subscribes to, so its state machine has no inputs that the program produces. Its
  hazards are noted for when that changes: a publication is stored under the first 12
  characters of its message id, which for the time-ordered ids of the Rust client are
  shared by all messages of the same 16 milliseconds, and `MERGE` makes one node of
  them; the archival loop never ends, so `asyncio.gather` keeps the process after the
  supervisor has returned; and it tars the directory of a RocksDB that another process
  is writing, where what comes out depends on RocksDB's files and not on this code.
- **Graph, vector and blob wrappers, schemas, entry points, scripts**: pure I/O,
  generated code and configuration.
- **Within the modelled parts**: `get` and `head_hash_hex` of the ledger read only; the
  columns of a tape row and the creation of its table are data the properties do not
  tell apart; `prices.rs` is a pure conversion that no modelled agent calls (its comment
  says half-to-even, the code rounds half away from zero); `SmaState`'s floats, since
  TLC has integers only.

Next: `DropsExplained` with a second subscription per agent; what the Python canonicalizer
determines when an enumeration is negative; and the conditions under which the two records
of a position, by order and by symbol, would agree, should the message types ever carry
the side and the symbol.
