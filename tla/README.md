# Specifications of Sovereign Seed Commons

TLA+ modules, TLC configurations and TLAPS proofs for the parts of this
repository that keep state under concurrency or failure. Every definition is
translated from the source; `PROJECT.json` gives the file and lines of each.

## 1. The system

The repository holds several programs that share a theme (take events in, keep
them, prove it) and little code. In the order of their weight:

| Component | Source | State | Operations | Module |
|---|---|---|---|---|
| Ingress metering engine | `tollbridge/ingress_metering.py` | one `asyncio.Queue`, the writer's batch, one SQLite connection shared by all pool threads, two tables, a stop event | `start`, `stop`, `submit_envelope_payload`, writer loop, flush | `IngressMetering`, proved |
| MPMC queue | `src/sovereign_master.c`, repeated in `audit_engine.c`, `shadow_arbitrage.c`, `core128_bench.c`, `massive_bench.c` | `head`, `tail`, a sequence and a payload per cell | `mpmc_enqueue`, `mpmc_dequeue` | `MpmcQueue`, proved |
| MPMC programs | the same five files | `running`, the log file, the audit counters | `main`, producers, logger | `MpmcEngine`, proved |
| Log engine | `src/engine.c`, `src/live_bench.c` | ring with a spinlock, `running`, `keep_running` | `log_event`, logger, signal handler | `SpscEngine`, proved |
| SPSC ring | `sip_spsc_ring.h`, `tests/test_spsc_ring.c` | ring, two indices | push, pop | `SpscEngine`, proved |
| JSON logger | `src/engine.py`, `src/utils/logger.py` | bounded queue, stop event | `log`, `close`, worker | `SpscEngine`, proved |
| Shared-memory bridge | `sip_bridge_daemon.c`, `sip_commons_bridge.h` | ring in shared memory, SQLite ledger | daemon loop | `BridgeDaemon`, proved |
| AF_XDP ingress | `sip_remote_handoff/src/*.c` | fill and RX rings, frames of the UMEM, `running` | set-up, poll loop, shutdown | `XdpIngress`, proved |
| Router and envelope checks | `bridge_router.py`, `security.py`, `validator.py` | the vault of the engine | gates in a fixed order | `SignedGates`, proved |
| Cells, manifests, evidence | `sovereign_seed_commons/` | the manifest a running cell shares with its caller | `execute_cell`, validators | `SignedGates`, proved |
| Release gates, repair scripts | `fix_*.py`, `apply_fixes_and_verify.py`, `run_all.py`, `setup_p12.py`, `tools/p12_gate.py`, `tools/p13_gate.py`, `tools/cell_runner.py` | a git checkout: files, index, commit, branches of clones | one sequence of steps per script | `ReleaseGates`, proved |
| Export and resurrection | `tools/resurrection.py`, `tools/cell_runner.py` | bundle and manifest, overwritten in place | export, package, resurrect | `ReleaseGates`, proved |
| Checkpoints, lineage, commons adapters, P11 test, dashboards, heartbeat, other benchmarks | see `PROJECT.json` | none, or one file | | none, see section 5 |

How they interact. The router calls the ingress engine in its own coroutine and
passes its answer on. Producers and the logger of the C programs meet only in
the queue and in `running`; `main` watches `head`. The bridge daemon reads a
ring another process writes. The AF_XDP program exchanges frames with the kernel
over two rings. The repair scripts, the gates and the two tools that write
`genesis/` never run at once but read what the others have left in the
checkout; they call each other as subprocesses and read exit codes.

What is hard in it:

* *Interleaving.* The ingress engine mixes coroutines with pool threads that
  share one connection, hence one transaction. The MPMC queue is lock-free and
  uses relaxed loads and weak exchanges. The AF_XDP thread reads slots it has
  already given back.
* *Failure.* Statements fail half way through a batch, the process dies between
  the commit of a nonce and the flush of its payload, a log file does not open,
  a daemon ignores what SQLite answers, a script is killed between two files
  that belong together.
* *Ordering.* `stop()` waits for the writer and not for submissions; `main`
  stops the logger while the last record is on its way; a signal arrives inside
  `log_event`; a thread is cancelled at its next `usleep` or `printf` only.
* *Staleness.* A manifest is verified before an await and read after it; an
  envelope is checked on one node and again, later, on another; the
  evidence files name a commit, a bundle and a manifest made at other times.
* *Liveness.* Partial batches, waits on empty and full queues, three loops of
  the C programs that wait on each other.

What makes each modelled component correct:

* Ingress engine: one acceptance per (client, nonce); a payload is held and
  stored once, in the order of acceptance; nothing is lost without a failure;
  memory is bounded; submissions and `stop()` end.
* MPMC queue: it is a bounded FIFO; two threads never touch the data of a cell
  at once; "empty" is only said when the front item is not there.
* Programs: the log file is exact; a success line is true; they end.
* Bridge daemon: ledger and tail agree over restarts; no row mixes two events.
* AF_XDP: no frame is lost or in two places; every packet is read once, before
  its frame is used again or freed.
* Gates: each row of the vault is owed to an envelope that was signed and fresh,
  and each envelope that passes has a row of its own; a verdict does not depend on
  the node that gives it; a cell's answer is the one committed to.
* Release: COMPLETE is earned in the run that writes it; evidence names the
  bundle of its own commit; what is resurrected was sealed.

`PROJECT.json` lists the hazards at their lines, with the property that covers
each one or the reason why none does.

## 2. Modules

### IngressMetering, IngressContract

`IngressMetering` has one action for each stretch of code between two awaits of
a coroutine, or between two sqlite3 calls of a pool thread.

| Code | Actions |
|---|---|
| `start`, `stop` | `Start`, `RequestStop`, `CloseConnection` |
| `submit_envelope_payload` | `Submit`, `Enqueue` |
| `_insert_idempotency_record_sync` | `InsertNonce`, `CommitNonce`, `NonceFault` |
| `_batch_writer_loop` | `WriterGet`, `WriterTimeout`, `WriterCancelled`, `WriterResume` |
| `_flush_batch_to_wal` | `FlushRow`, `FlushCommit`, `FlushFault` |
| death of the process | `Crash` |

The connection is modelled by what SQLite does with it: rows of the open
transaction are visible to all threads of the connection (`txKeys`, `txRows`), a
commit by any thread makes all of them durable, a close discards them, a failing
statement leaves them or rolls them back (`AutoRollback`). `executemany` begins
a transaction before its first row only, so when another thread commits in the
middle of a flush the next rows commit one by one: that is the second disjunct
of `FlushRow`. `undermined` is a
history variable: the submissions whose nonce row was rolled back between their
INSERT and their commit. Clock, hashing and signatures are one
nondeterministic answer of `Submit`; `SignedGates` opens it up, over the same
transaction but without stop and crash. A payload is
named by its submission.

`IngressContract` is what a client may rely on: a ledger of keys, one answer per
submission, an append-only store of accepted payloads. `Contract` in
`IngressMetering` is the refinement mapping: the vault is the ledger, the table
`ingress_telemetry` is the store.

### BoundedFifo, MpmcQueue, MpmcEngine

`MpmcQueue` models both operations with one action per access to shared memory.
A relaxed load of an index may return any value the index has had since the
thread last saw it, and a weak exchange may fail without a reason. The sequence
of a cell is read as it is. Positions are naturals: `size_t` does not wrap at
any rate these programs reach. `BoundedFifo` is the abstract queue; the mapping
`Fifo` puts the linearization points at the two exchanges.

`MpmcEngine` extends `MpmcQueue`: `Produce` and `InDequeue` are steps of the
queue, taken by the producers and by the logger; `main` and the logger's loop
are added around them. `kind` chooses the program at the start: the two logger
loops (`while running or head != tail`, and the counted one of the benchmarks)
and the audit counters are all there.

### SpscEngine, EventLog

The four programs with one producer and one consumer, chosen by `kind`. They
have the same ring and differ in what happens on a full ring and at the end:

| `kind` | Full ring | End |
|---|---|---|
| `engine` (`engine.c`) | the event is dropped | a signal, at any point (`HandleShutdown`) |
| `bench` (`live_bench.c`) | the lock is given back and taken again | a fixed number, then `Drain` |
| `spsc` (`sip_spsc_ring.h`) | the producer thread tries again | a fixed number on each side |
| `json` (`engine.py`, `logger.py`) | the line is dropped (`PutNowait`) | `KeyboardInterrupt`, then `close()` (`Interrupt`), or without it (`InterruptBeforeTry`) |

`Main` and `Logger` are the two threads, one action per access to shared state:
the two disjuncts of the logger's loop condition are two actions (`Test`,
`TestEmpty`), so that a signal can fall between them. `accepted` is a history
variable, what has got into the ring. The `queue.Queue` of the Python logger is
a ring whose operations are atomic. `engine.py` logs its first line before its
`try` block: an interrupt from then on is caught and ends in `close()`, an earlier one
ends `main`, and the daemon thread with it, whatever is in the queue.

`EventLog` is what the four programs have in common: a pipe of bounded length that
settles each event in its turn (put, refused because it is full, or withdrawn by the
interrupt), a logger, and a `stage` that allows one event more after the program
was told to stop, or is `abandoned` with what was put, by the interrupt nobody
catches and with one line at most. It has no slot, index, lock or `running`. The mapping `Log` takes
`accepted` and `head` as they are; `Settled` counts an event from the moment its
fate is certain, which for a drop is the load of `head` and not the test after it,
and `Stage` reads off whether `main` is still inside its last call.

### BridgeDaemon, EventLedger

The loop of the daemon, one action per SQLite call (`Bind`, `Begin`, `Step`,
`Commit`, `Reset`) and per index (`Poll`, `Advance`). No result of SQLite is
read in the code, so each call may fail and the loop goes on: a failed BEGIN
makes the insert commit itself, a failed COMMIT leaves the transaction open or
rolls it back. The payload is bound by reference (`SQLITE_STATIC`) and read in
`Step`; the slot is the producer's again in `Advance`. `handle_sigint` is never
registered, so the daemon ends by being killed (`Kill`), with its transaction
rolled back and the ring left in shared memory. The producer and SQLite are
external.

`EventLedger` is what the producer of the ring may rely on: events are sent,
entered in their order and given back after that, until the database has failed;
then rows may be missing or late, and none is taken out again. It knows
no process, transaction or slot. The mapping `Ledger` takes the two indices as they
are and forgets the payloads of the rows (`Entered`); a kill, a restart and the
second meeting with a committed event are stutters.

### XdpIngress, PacketFrames

`CreateRing`, `CreateThread`, `HandleSigint`, `Cancel` and `JoinAndFree` are
`main`; `Peek`, `Process`, `Release`, `Reserve`, `Copy`, `Submit` and `Nap` are
the poll thread; `Take` and `Deliver` are the kernel (external). A frame is its
index; the fill and RX rings have a slot array and two indices each, and `area`
holds the number of the packet in each frame, or garbage once `main` has freed
it. Three things of the code matter and are kept:

* `Copy` reads a descriptor again from a slot that `Release` has given back.
* `Reserve` may get a part of what it asks for, or nothing: the code has a loop
  for that, and `filled` counts what is done.
* Cancellation is deferred to `usleep` (`Nap`) or to the `printf` of a
  telemetry line (the second disjunct of `Process`).

`SizeAssumption` has `FillSize <= RxSize`: both are 2048 in libxdp, and the second
read of the descriptors relies on it, for no more frames are in use than
the fill ring had at the start. `xsk_umem__delete` refuses while the socket is
open; its result is not read.

`PacketFrames` is what is promised to the packets, with no ring, batch or thread: each
packet is delivered into a frame that no packet in use has, the packets are read in
their order, and a frame is given back after its packet was read. In the mapping
`Window` a packet is in use from its delivery until the part of the refill that has its
frame is submitted; `Low` is the first one in use.

### SignedGates

The checks of `security.py`, `bridge_router.py`, the remote-handoff validator, the
manifest validator, `execute_cell` and the evidence validator. Each validator is
an operator that returns `OK` or the reason of the first check that fails
(`RouterVerdict`, `EngineVerdict`, `RemoteVerdict`, `ManifestVerdict`,
`EvidenceVerdict`), in the order of the code. A request is a record of fields; it is
signed by its client and may reach the gate with one field missing, malformed, padded
with blanks, of another type or changed. Values are kinds, not strings.

| Code | Actions |
|---|---|
| `route_ingress` and `submit_envelope_payload` up to the thread call | `RouteIngress` |
| `_insert_idempotency_record_sync`, and the queue | `InsertNonce`, `CommitNonce` |
| its exceptions, `INTERNAL_DATABASE_FAULT` | `NonceFault` |
| the batch writer's commit on the same connection, or its failure | `FlushBatch` |
| `validate_remote_envelope`, on another node, with any payload | `Handoff` |
| `execute_cell` before, in and after its await | `StartCell`, `ChangeManifest`, `FinishCell`, `TimeOutCell` |

Conversions are modelled by what they do: `Str` makes 5 and "5" one text and null the
word "None", `Float` makes them one number, `float(None)` is an exception the router
does not catch (the remote validator does), `strip()` removes the blanks, NaN passes
every comparison and is stored by SQLite as NULL, which the column `timestamp_sec`
refuses; the engine answers that refusal as a replay. A signature is symbolic: it fits
the canonical bytes it was made for. Router and engine on one side
(`RouterArgs`, `PayloadOf`) and the remote validator on the other (`HeaderFields`,
`RemoteArgs`) have their own fields and conversions and call the one
`BuildCanonical`, as in the code; it strips the texts of an envelope. The bytes of a
manifest are the texts of its fields as they came.

The vault is that of `IngressMetering`: `open` is the transaction all threads share, any
commit makes all of it durable (`CommitAll`), a failing statement leaves it or rolls it
back (`RollBackAll`). A row is keyed by the texts that came, blanks included (`KeyOf`).
`checked`, `undermined` and the clock in `handoff` are history variables.

### ReleaseGates

Each script is a sequence of steps, an operation and the paths it is about
(`Program`), and each operation is one action. The checkout is three functions from
paths to contents: working tree, index, commit. A content is a text and the
commit or export it names. `Dirty` is what `git status --porcelain` prints; the
runner refuses a dirty checkout. A developer commits or restores between
scripts, and `Kill` ends a script between two steps or in the middle of a bundle.
The rows of the execution plan are paths of their own, because the scripts
rewrite them one by one with patterns that may not match. `executed` counts the
executions of the packet's command in this run of the script. The
first check of `run_all` uses `subprocess` before its import; the `NameError` is
swallowed, so that step (`CheckP12`) does nothing.

## 3. Runs

| Run | Question |
|---|---|
| `ingress_failures` | safety of the ingress engine with every fault |
| `ingress_contract` | refinement of the contract, liveness |
| `ingress_hot_restart` | counterexample: two acceptances of one nonce |
| `ingress_partial_batch` | counterexample: a payload never stored |
| `mpmc_queue` | queue: ownership, integrity, FIFO |
| `mpmc_programs` | programs: exact log, true success line, termination |
| `spsc_programs` | one-producer programs: refinement of one log, nothing lost, termination |
| `bridge_daemon` | refinement of a ledger that is never killed; ledger and tail over kills and failures of SQLite |
| `xdp_ingress` | refinement of a window of frames; conservation of frames, integrity of packets |
| `signed_gates` | the gates on altered requests, the rows they leave, the verdict of another node, and cells across an await |
| `signed_replay` | counterexample: an altered copy of an accepted envelope is accepted too |
| `release_gates` | scripts in any order over one checkout |

### Bounds

`ingress_failures` has four submissions, two of them with the same
nonce; `Capacity` 1 and `BatchSize` 2, so that the queue is full behind one
payload, a batch can be partial, full and half inserted, and three accepted
payloads can be in the table, the batch and the queue at once; two starts, and
one failing statement, one crash and one cancellation, in any order: the
interleavings of any one of each with a restart are there. It uses a symmetry:
the two submissions with one key may be exchanged, and so may the other two
together with their keys; it checks no liveness property. `ingress_contract`
has three submissions and no failing statement: it asks a stronger question of
the engine as it is used, with a restart only when no submission is in flight
(`HotRestart` FALSE) and one crash.

`mpmc_queue` has two producers, two
consumers and two cells, with four items, so that each cell is used for two
laps by different threads, the ring gets full and empty, and a thread can be
preempted in any operation for a whole lap. `mpmc_programs` has two producers
with two records each, two cells, and all kinds.

`spsc_programs` has a ring of two slots and six events, three laps: full, empty
and wrapped in every phase of the other thread. `Total` also bounds the endless
loops of `engine` and `json`, whose `main` then waits for the signal.

`bridge_daemon` has two slots and five events, two kills and two failures: a
transaction that stays open can swallow a later event, and a kill can fall on
the recovery from another kill.

`xdp_ingress` has rings of three slots, batches of two and six packets: each
frame can go round twice, a batch wraps, a refill comes in parts, and every frame
the poll thread does not hold can come back with a packet before the second read.
`TelemetryPeriod` 2 puts the cancellation point inside a batch.

`signed_gates` has one request that is altered (envelope or manifest) and may be handed
to another node once, before or after the engine sees it, and one
envelope that is not and may be the same one or share its nonce; a clock of two values
and a drift of 0, so that a request is fresh, late and early. Faults and rollbacks have no
bound. With two requests all orders of two threads on the connection are there. Each alteration touches one
field, which is what the verdicts can tell apart: the checks read one field each
except for the signature, and it compares all bound fields.

`release_gates` runs three scripts, any of the ten in any order, with one kill
and one commit or restore: a script that was cut short, the clean-up, and a
script that reads what was left.

`CHECK_DEADLOCK FALSE` is set where the system stops: an engine with all its
submissions answered, a program that has printed its result or hangs without its
log file, a daemon or a poll thread with its bound of events used up, scripts
and requests at their end. `mpmc_queue` checks for deadlock.

### Fairness

`FairSpec` of `IngressMetering`: weak fairness of each step of a
submission and of the writer, because the event loop runs every ready callback,
the pool every queued call, and a timer fires. Nothing obliges a client to
submit or anybody to stop the engine; faults and crashes are never obliged.

`EngineSpec` of `MpmcEngine`: weak fairness of each thread, because the
scheduler runs them all; strong fairness of a load that returns the current
value and of an exchange that succeeds, because a store becomes visible in
finite time and a weak exchange does not fail for ever on its own.

`Spec` of `SpscEngine`: weak fairness of each of the two threads. The C loggers
ask for `SCHED_FIFO` on CPU 1 and spin, so this assumes a second CPU for
`main`. Signals and interrupts are never obliged; `Terminates` is about the
programs that count, and about the others once they have been told to stop.

The other modules state safety only. The daemon and the AF_XDP program run until
somebody ends them, and a script is a straight line.

### What the runs show

The three counterexample runs each check one property that a comment or a
docstring of the code states and the code does not keep; `PROJECT.json`, "findings",
quotes them.

* `AcceptedOnce`: a submission inserts on one connection and commits on the next.
  It needs a `stop()` and a `start()` between two statements of a thread.
  `AcceptedOnceUnlessUndermined` is what holds in all cases, and names the cause;
  the theorem `AcceptsOnce` says that such a restart, or a statement that rolls
  the transaction back, is the only way to it.
* `AcceptedEventuallyStored`: the flush interval flushes only a full batch.
* `SignedOnceAcceptedOnce`: the bytes that are signed are built from stripped texts,
  so blanks that are added to a bound field after the signature do not change them
  and the altered envelope is accepted, although the docstring and a test say that
  any mutation is rejected. The vault has the nonce with its blanks, so such a copy
  of an accepted envelope is accepted again; nothing has to fail for it.
  `SpendsItsNonce` is what holds: two acceptances differ in the key as it came.

Of the passing runs, what a reader of the code would want to know:

* `DrainedAtExit` and `NothingLostWithoutFailure` say what a clean `stop()` is worth:
  all that was accepted before the writer's end is stored. `stop()` does not wait
  for submissions: one whose nonce is committed by then is accepted behind the
  writer, its payload stays in the queue for the next `start()`, and "Engine stopped
  cleanly. All data persisted." (`ingress_metering.py:108`) is logged all the same.
  No property states the log line.
* `NothingLostButTheLast`: a signal may cost `engine.c` exactly one event, the
  one `log_event` is publishing when the logger finds the ring empty; one is the
  least bound that holds. The other programs lose nothing that was accepted.
* `Terminates` of the two log engines: the only ending that is missing is that of
  the benchmark without its log file, where `main` waits for the drain for ever.
* `LedgerMatchesTail`: without a failure of SQLite a kill loses nothing and
  enters nothing twice, the latter thanks to the primary key alone.
  With a failure events are lost silently; `RowsAreEvents` still holds.
* `ImplementsLog`: although the producers look at an old `head`, an event is dropped
  only if the ring was full at the moment of that look; a program that is told to stop
  anywhere logs at most one event more. Only `engine.py` may leave without its log, before
  its `try` block, and then with its first line at most.
* `ImplementsLedger`: to its producer a daemon that is killed and restarted looks like
  one that never dies, for it starts at the tail it finds in shared memory.
* `FramesConserved`: the second read of the descriptors is right although the
  slots are the kernel's again, because the frames of the batch are not yet in
  the fill ring and the kernel cannot fill the RX ring without them.
* `ImplementsWindow`: the kernel does not write a packet to a frame in use, even when a
  refill is submitted in parts or given up by a cancelled thread.
* `PacketsInOrder`: the join before the free is what keeps a batch in progress
  away from freed memory.
* `NonceRowsAreEarned`: a submission that is answered with a database fault may have
  spent its nonce, when the commit of another thread takes its row along; what has failed
  a check never has. A NaN timestamp passes both freshness checks, and only the NOT NULL
  column keeps it from a row.
* `SpendsItsNonce`: a key and nonce can be accepted again, as the same texts, only after a
  failing statement of another thread has rolled their row back between INSERT and commit.
* `HandoffKeepsVerdict`: for what the router lets through, time is all that two nodes
  can differ about. What the router refuses for its payload's hex or its size, the remote
  validator may pass, with the payload that was signed.
* `CellOkIsCommitted`: the expected hash is read before the await and `cell_id`
  after it; a change of the manifest in between can turn a good answer bad,
  never a bad one good.
* `CompleteIsEarned`: a script that rewrites the packet makes the checkout dirty
  before it runs the packet, so the runner refuses, and P11 stays short
  of COMPLETE; only `fix_and_report`, which does not rewrite it, can earn it. The unconditional
  COMPLETE of `apply_fixes_and_verify` does no harm because its package step
  fails first on the same dirty checkout and ends the script.

Every property has a mutant in `PROJECT.json`: a change of one mapped definition, as
a plausible bug would make it, under which the same run finds the property
violated.

## 4. Proofs

Each modelled component has a module of theorems, `<module>Proofs`, that hold for
every value of the constants. Every safety invariant and every action property that
a passing run checks is proved; so are the five refinements. The types of the AF_XDP
program, of the gates and of the release scripts (`TypeOK`) are proved only; no run
checks them. Each module has one inductive invariant (`IngressMeteringProofs` has one for
each concern), a conjunction of named parts that hold on the instances of the runs.
`InitInv` and `StepInv` are its lemmas, and each theorem follows from it.

| Module | Theorems | Invariant |
|---|---|---|
| `IngressMeteringProofs` | `TypeCorrect`, `AcceptsOnceUnlessUndermined`, `MemoryIsBounded`, `PayloadsAreRecorded`, `PipelineKeepsOrder`, `NoLossWithoutFailure`, `WriterDrains`, `EngineImplementsContract`, `AcceptsOnce` | `TypeInv`, `NonceInv`, `MemoryInv`, `HeldInv`, `PipeInv`, `QuietInv` |
| `MpmcQueueProofs` | `QueueTypeCorrect`, `QueueInOrder`, `CellHasOneOwner`, `DequeueReturnsItsItem`, `NoItemIsOverwritten`, `EmptyIsNeverALie`, `QueueImplementsFifo` | `QueueInv` |
| `MpmcEngineProofs` | `EngineUsesQueue`, `EngineTypeCorrect`, `LogFileIsPrefix`, `SuccessIsTrue`, `TotalsAreTrue` | `EngineInv`, on top of `QueueInv`; `AuditOK` on top of both |
| `SpscEngineProofs` | `OnlyTheLastIsLost`, `ProgramsImplementLog` | `EngineInv` |
| `BridgeDaemonProofs` | `RowsHoldTheirEvents`, `LedgerFollowsTail`, `DaemonImplementsLedger` | `DaemonInv` |
| `XdpIngressProofs` | `IngressTypeCorrect`, `EveryFrameInOnePlace`, `PacketsReadInOrder`, `ProgramImplementsWindow` | `IngressInv` |
| `SignedGatesProofs` | `GatesTypeCorrect`, `NonceRowsEarned`, `NonceSpentOnce`, `HandoffVerdictKept`, `EvidenceIsCommitted` | `GatesInv` |
| `ReleaseGatesProofs` | `ReleaseTypeCorrect`, `ArtifactBehindBranch`, `OnlySealedIsRestored`, `CompleteIsTrue`, `EvidenceIsOfItsBundle` | `ReleaseInv` |

### The arguments

*Ingress engine.* `NonceInv` says that a submission between its INSERT and its
commit, unless undermined, has its key in the vault or in the open transaction,
that one past its commit has it in the vault, and that of two submissions with
one key at most one is past its INSERT without being rejected or undermined
(`OneHolder`); the INSERT of a second one would find the key. `HeldInv`: what
is held was accepted. `PipeInv` is about the line table, transaction, batch,
queue: a step either moves an item from one part to the next, or adds an
accepted submission at the end, or takes a part out because a statement has
failed or the process has died (`PipelineMove`). It needs the control part
`WriterOK`: outside a flush nothing of the batch is inserted, and without a
failed statement the open transaction has rows during a flush only, which is why
`stop()` and a restart lose nothing. `DrainedAtExit` is then read off the last
step of the loop. For the contract, `QuietInv` says that nobody is accepted
whose nonce row was rolled back; it needs `~HotRestart` (`start()` is not called
under a submission in flight) and `~AutoRollback`, and so the two theorems have
these as hypotheses. The run `ingress_hot_restart` shows the first to be necessary. Unlike
the run of the contract, the theorem has failing statements.

*MPMC queue.* `QueueInv` speaks of positions and not of cells. The positions from
`head` to `tail - 1` are published or have a writer; those from `tail` to
`head + Size - 1` are free or have a reader of the lap before; two positions with one
cell are a lap apart. A stale load of an index gives an older value, and from such a
value the exchange fails. Only the two exchanges move the abstract queue; every
other access to memory is a stutter of `BoundedFifo`.

*MPMC programs.* Producers and logger take steps of `Spec` of the queue, so its
theorems hold. Records placed in the queue are different members of
producers times records, hence `tail` is at most the target by counting;
`running` is cleared when `head` has reached it, so the logger that then
finds the queue empty has printed them all. For the totals, `AuditOK` says at every
step that `count` is the length of the file and `profit` the sum, over the record
numbers, of the profit of a number times the producers whose record of that number is in
the file (`Got`, `Tally`). A print adds one producer to one of these sets
(`PrintedIsNew`); in a full file they are all the producers (`FullFile`). The
sums are recursive functions and folds, and the library's induction rules cannot be used here, so the
section "Sums" goes through the least number instead: a set of naturals that
has 0 and with k also k + 1 has them all, for otherwise it has a least number
missing (`SetInduction`). `SumChange`, `SumTimes` and `AddsUp`, which equates
`MapThenSumSet` of the community modules with the sum, follow from it.

*One-producer programs.* A ring position is written while it is outside the
ring and read while it is inside, whatever old `head` the producer uses. The
logger ends only after `running` was 0 and the ring empty, and `main` is
then inside its last call at most. The refinement (`ProgramsImplementLog`) goes
through the actions one by one (`ReadRefines`, `PublishRefines`, `PutNowaitRefines`,
`JoinRefines`, `SignalRefines`, `LoggerRefines`). An event that is refused
had `t - h >= Size` with the `head` loaded in that very step; one that is put was
allowed by an older `head`, and the ring has only become emptier since. That
`main` is in its last call when it has been told to stop, and has nothing left to settle
when it joins, is what `EndOK` and `NumberOK` add to the invariant; `FirstOK` says that
one line at most was put by the time an interrupt can go uncaught.

*Bridge daemon.* From `Poll` to `Reset` the event at the shared tail is in its
slot, because only `Advance` moves the tail and the producer does not pass it; a
statement that is ready in `Step` was bound in this turn. For `ImplementsLedger`, a
commit enters the rows of the transaction: without a failure that is the row
of the event at the tail or nothing, and after one any rows up to it
(`CommitRefines`; `InsertRefines` for an insert that commits itself).

*AF_XDP.* The frames the thread holds and those in the RX ring lie in one window of RX
positions. A frame the kernel is about to deliver is in none of them, so the window
is shorter than `FillSize <= RxSize`, and its slots are as the kernel wrote them even
where they have been released (`WindowIsShort`). A thread that has ended may keep frames that are
counted nowhere, but then the window is the RX ring alone; that no frame of it is the
kernel's (`Apart`) holds there too, so the refinement covers the time between the end of
the thread and the freeing of the area.

*Gates.* What the engine has found of an envelope stays its verdict at the clock it was
checked (`EnvelopeOK`), because an envelope does not change any more; from that verdict
`FittingFields` gets the signed fields back out of the canonical bytes, and `SameVerdict`
compares it with the other node's. A row is held by a request past its
INSERT, whatever its answer is then (`VaultOK`); the row of one that is still on
its way or has passed is in the vault or open until a rollback, which makes it undermined
(`RowOK`), so that the INSERT of a second one with its key fails (`AloneOK`). Three lemmas
say what keeping, committing and rolling back the rows does to that (`RowsKept`,
`RowsCommitted`, `RowsRolledBack`). A manifest does change while its cell runs, and its
expected hash was read before it could.

*Release scripts.* Where a script is says what it has done. The scripts that write a
packet before they package never get further: the packet names HEAD, no committed packet
names its own commit, so the checkout is dirty and the package step ends the script. That is all
that keeps `apply_fixes_and_verify` from an unearned COMPLETE.

### Assumptions

Those of the modules, named, all evaluated by TLC in their runs. The ones that
are more than a type: `SizeAssumption` of `MpmcQueue`, more than one cell (the sources
use powers of two from 2^18 on), of `XdpIngress`, `FillSize <= RxSize` (both
2048 in libxdp); `ProgramAssumption` of `MpmcEngine`, some producers with some
records each (constants of the sources); `ItemAssumption`, an empty cell is not
an item. The bounds (`MaxStarts`, `MaxKills`, ...) are arbitrary
naturals in the proofs.

### What is only model-checked

* Liveness: `SubmissionsEnd`, `StopReturns`, `StopFlushes`, and `Terminates` of
  both families of programs. Fairness is out of the prover's reach.
* The three counterexamples.

## 5. What is not modelled

* Ingress: cancellation while a flush is in a thread, power loss (a WAL commit
  with `synchronous=NORMAL` is not synced), two engines on one database.
* Queue: stale reads of a cell's sequence, wrap-around of positions and indices.
* Programs: failing stdio and thread creation, affinity, time.
* Bridge daemon: power loss, and a reboot, which empties shared memory but not
  the ledger.
* AF_XDP: packet lengths, the text of the telemetry and the evidence record (one
  file written from constants), and what the kernel writes into the area after
  `main` has freed it.
* Gates: cryptography (symbolic), a stop or a crash of the engine (`IngressMetering` has
  them), and the branches that answer faults of `json`,
  `hashlib` or `wait_for` itself.
* Release scripts: the unit tests they start, the wording of the files they write,
  `dry-run`, and two scripts at once.
* Checkpoints: one file overwritten in place; a crash in the write is listed as a
  hazard. Lineage: recorder and verifier work on different files.
* Components that keep no state or are sequential I/O: dashboards, the commons
  adapters, single-threaded benchmarks in `scripts/`, the heartbeat, planner,
  worker and gateway. `PROJECT.json`, "components", gives the reason for each.

## 6. Plan

1. The cancellation of the ingress writer during a flush, with a flush thread that
   outlives its coroutine.
2. An outcome for each printed record of the C programs, for a disk that is full.
