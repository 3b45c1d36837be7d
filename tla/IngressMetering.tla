--------------------------- MODULE IngressMetering ---------------------------
(***************************************************************************)
(* IngressMeteringEngine of tollbridge/ingress_metering.py: submission     *)
(* coroutines on one event loop, their database statements in threads of   *)
(* the default pool, one batch writer coroutine with its flush in a pool   *)
(* thread, and ONE sqlite3 connection that all of those threads share.     *)
(*                                                                         *)
(* A step is what runs between two awaits of a coroutine, or between two   *)
(* sqlite3 calls of a pool thread: the interpreter interleaves at those    *)
(* points and no other place matters to the state below.                   *)
(*                                                                         *)
(* The connection has at most one open transaction, whichever thread began *)
(* it.  A commit by any thread makes every pending row durable, a close    *)
(* discards them.                                                          *)
(***************************************************************************)
EXTENDS Naturals, Sequences, FiniteSets

CONSTANTS
  Reqs,          (* submissions: calls of submit_envelope_payload           *)
  Keys,          (* (client_pubkey, nonce) pairs                            *)
  KeyOf,         (* the key of each submission; a retry or a replay of an   *)
                 (* envelope is another submission with the same key        *)
  Capacity,      (* max_queue_depth                                         *)
  BatchSize,     (* batch_size                                              *)
  HotRestart,    (* may start() follow stop() on the same engine while a    *)
                 (* submission is still in flight?                          *)
  AutoRollback,  (* does a failing statement roll the transaction back, as  *)
                 (* SQLite does on a full disk or an I/O error?             *)
  MaxStarts,     (* bound: calls of start()                                 *)
  MaxFaults,     (* bound: statements that raise sqlite3.Error              *)
  MaxCrashes,    (* bound: deaths of the process                            *)
  MaxCancels     (* bound: cancellations of the writer task                 *)

ASSUME KeyOfAssumption == KeyOf \in [Reqs -> Keys]
ASSUME SizeAssumption == Capacity \in Nat \ {0} /\ BatchSize \in Nat \ {0}
ASSUME SwitchAssumption == HotRestart \in BOOLEAN /\ AutoRollback \in BOOLEAN
ASSUME BoundAssumption == /\ MaxStarts \in Nat
                          /\ MaxFaults \in Nat
                          /\ MaxCrashes \in Nat
                          /\ MaxCancels \in Nat

VARIABLES
  phase,       (* "down" | "up" | "stopping" | "stopped"                    *)
  conn,        (* _db_conn: "none" | "open"                                 *)
  stopEvent,   (* _stop_event: "clear" | "set"                              *)
  vault,       (* committed rows of idempotency_vault                       *)
  telemetry,   (* committed rows of ingress_telemetry, in id order          *)
  txKeys,      (* vault rows of the open transaction                        *)
  txRows,      (* telemetry rows of the open transaction                    *)
  queue,       (* _queue                                                    *)
  batch,       (* the writer's batch                                        *)
  flushed,     (* rows of the batch executemany has inserted                *)
  wpc,         (* where the writer is                                       *)
  pc,          (* where each submission is                                  *)
  reply,       (* "reason" of the answer a submission returned              *)
  order,       (* history: accepted submissions in the order of acceptance  *)
  undermined,  (* history: submissions whose nonce row was rolled back      *)
               (* between their INSERT and their commit                     *)
  starts, faults, crashes, cancels   (* how much of each bound is used      *)

engine  == <<phase, conn, stopEvent>>
tx      == <<txKeys, txRows>>
durable == <<vault, telemetry>>
writer  == <<batch, flushed, wpc>>
counts  == <<starts, faults, crashes, cancels>>
vars == <<engine, durable, tx, queue, writer, pc, reply, order, undermined, counts>>

IsOpen == conn = "open"
StopSet == stopEvent = "set"

GateReasons == {"TIMESTAMP_STALE", "ENVELOPE_INVALID"}
Reasons == GateReasons \cup {"OK", "NONCE_REPLAY_DETECTED", "INTERNAL_DATABASE_FAULT",
                             "BACKPRESSURE_REJECTION_QUEUE_FULL"}
Ranks(s) == 1..Len(s)
Elems(s) == {s[i] : i \in Ranks(s)}

InFlight(r) == pc[r] \in {"insert", "commit", "enqueue"}

(* The rows of the batch the flush has still to insert. *)
Unflushed == SubSeq(batch, flushed + 1, Len(batch))

(* Every payload the engine holds, oldest first. *)
Pipeline == telemetry \o txRows \o Unflushed \o queue

Init ==
  /\ phase = "down" /\ conn = "none" /\ stopEvent = "clear"
  /\ vault = {} /\ telemetry = <<>>
  /\ txKeys = {} /\ txRows = <<>>
  /\ queue = <<>>
  /\ batch = <<>> /\ flushed = 0 /\ wpc = "none"
  /\ pc = [r \in Reqs |-> "idle"]
  /\ reply = [r \in Reqs |-> "none"]
  /\ order = <<>> /\ undermined = {}
  /\ starts = 0 /\ faults = 0 /\ crashes = 0 /\ cancels = 0

Answer(r, reason) ==
  /\ pc' = [pc EXCEPT ![r] = "done"]
  /\ reply' = [reply EXCEPT ![r] = reason]

(* Effects on the shared connection. *)
CommitAll ==
  /\ vault' = vault \cup txKeys
  /\ telemetry' = telemetry \o txRows
  /\ txKeys' = {}
  /\ txRows' = <<>>

RollBackAll ==
  /\ txKeys' = {}
  /\ txRows' = <<>>
  /\ undermined' = undermined \cup {r \in Reqs : pc[r] = "commit" /\ KeyOf[r] \in txKeys}

(* A statement raised: the transaction stays open with the rows of the     *)
(* statements before it, or SQLite has rolled it back.                     *)
StatementFails ==
  /\ faults < MaxFaults
  /\ faults' = faults + 1
  /\ UNCHANGED <<starts, crashes, cancels>>
  /\ \/ UNCHANGED <<tx, undermined>>
     \/ AutoRollback /\ RollBackAll

-----------------------------------------------------------------------------
(* start() and stop(). *)

(* A new connection, the schema, and a writer task at its first get.  The  *)
(* queue is the one made by __init__: what it holds is still there.        *)
Start ==
  /\ phase \in {"down", "stopped"}
  /\ starts < MaxStarts
  /\ HotRestart \/ \A r \in Reqs : ~InFlight(r)
  /\ phase' = "up" /\ conn' = "open" /\ stopEvent' = "clear"
  /\ wpc' = "get" /\ batch' = <<>> /\ flushed' = 0
  /\ starts' = starts + 1
  /\ UNCHANGED <<durable, tx, queue, pc, reply, order, undermined, faults, crashes, cancels>>

RequestStop ==
  /\ phase = "up"
  /\ phase' = "stopping" /\ stopEvent' = "set"
  /\ UNCHANGED <<conn, durable, tx, queue, writer, pc, reply, order, undermined, counts>>

(* stop() resumes once the writer task has ended, whatever the submissions *)
(* are doing by then, and closes their connection.                         *)
CloseConnection ==
  /\ phase = "stopping" /\ wpc = "ended"
  /\ phase' = "stopped" /\ conn' = "none"
  /\ RollBackAll
  /\ UNCHANGED <<stopEvent, durable, queue, writer, pc, reply, order, counts>>

(* The process dies: only the database file survives. *)
Crash ==
  /\ phase # "down"
  /\ crashes < MaxCrashes
  /\ crashes' = crashes + 1
  /\ phase' = "down" /\ conn' = "none" /\ stopEvent' = "clear"
  /\ txKeys' = {} /\ txRows' = <<>>
  /\ queue' = <<>> /\ batch' = <<>> /\ flushed' = 0 /\ wpc' = "none"
  /\ pc' = [r \in Reqs |-> IF InFlight(r) THEN "done" ELSE pc[r]]
  /\ UNCHANGED <<durable, reply, order, undermined, starts, faults, cancels>>

-----------------------------------------------------------------------------
(* submit_envelope_payload. *)

(* Freshness and signature checks, up to the first await. *)
Submit(r) ==
  /\ phase # "down"
  /\ pc[r] = "idle"
  /\ \/ pc' = [pc EXCEPT ![r] = "insert"] /\ UNCHANGED reply
     \/ \E reason \in GateReasons : Answer(r, reason)
  /\ UNCHANGED <<engine, durable, tx, queue, writer, order, undermined, counts>>

(* Mutants of InsertNonce: the check does not see the pending rows of the  *)
(* other threads; the commit is left to whoever commits next.              *)
InsertNonceSeesCommitted(r) ==
  /\ pc[r] = "insert" /\ IsOpen
  /\ KeyOf[r] \notin vault
  /\ txKeys' = txKeys \cup {KeyOf[r]}
  /\ pc' = [pc EXCEPT ![r] = "commit"]
  /\ UNCHANGED <<engine, durable, txRows, queue, writer, reply, order, undermined, counts>>

InsertNonceSkipsCommit(r) ==
  /\ pc[r] = "insert" /\ IsOpen
  /\ KeyOf[r] \notin vault \cup txKeys
  /\ txKeys' = txKeys \cup {KeyOf[r]}
  /\ pc' = [pc EXCEPT ![r] = "enqueue"]
  /\ UNCHANGED <<engine, durable, txRows, queue, writer, reply, order, undermined, counts>>

(* In a pool thread: cursor() on the current connection (None once the     *)
(* engine is stopped) and the INSERT, which sees the pending rows of the   *)
(* other threads.                                                          *)
InsertNonce(r) ==
  /\ pc[r] = "insert"
  /\ \/ /\ ~IsOpen
        /\ Answer(r, "INTERNAL_DATABASE_FAULT")
        /\ UNCHANGED txKeys
     \/ /\ IsOpen /\ KeyOf[r] \in vault \cup txKeys
        /\ Answer(r, "NONCE_REPLAY_DETECTED")
        /\ UNCHANGED txKeys
     \/ /\ IsOpen /\ KeyOf[r] \notin vault \cup txKeys
        /\ txKeys' = txKeys \cup {KeyOf[r]}
        /\ pc' = [pc EXCEPT ![r] = "commit"]
        /\ UNCHANGED reply
  /\ UNCHANGED <<engine, durable, txRows, queue, writer, order, undermined, counts>>

(* Mutant of CommitNonce: no answer when the connection is gone.           *)
CommitNonceHangs(r) ==
  /\ pc[r] = "commit" /\ IsOpen
  /\ CommitAll
  /\ pc' = [pc EXCEPT ![r] = "enqueue"]
  /\ UNCHANGED <<engine, queue, writer, reply, order, undermined, counts>>

(* In the same thread: commit() on whatever connection is current now.     *)
CommitNonce(r) ==
  /\ pc[r] = "commit"
  /\ \/ /\ IsOpen
        /\ CommitAll
        /\ pc' = [pc EXCEPT ![r] = "enqueue"]
        /\ UNCHANGED reply
     \/ /\ ~IsOpen
        /\ Answer(r, "INTERNAL_DATABASE_FAULT")
        /\ UNCHANGED <<durable, tx>>
  /\ UNCHANGED <<engine, queue, writer, order, undermined, counts>>

(* The INSERT or the commit of the thread raises sqlite3.Error. *)
NonceFault(r) ==
  /\ pc[r] \in {"insert", "commit"}
  /\ IsOpen
  /\ StatementFails
  /\ Answer(r, "INTERNAL_DATABASE_FAULT")
  /\ UNCHANGED <<engine, durable, queue, writer, order>>

(* Back on the event loop: put_nowait and the answer, with no await        *)
(* between them.  The nonce is durable whatever the answer is.             *)
Enqueue(r) ==
  /\ pc[r] = "enqueue"
  /\ \/ /\ Len(queue) < Capacity
        /\ queue' = Append(queue, r)
        /\ order' = Append(order, r)
        /\ Answer(r, "OK")
     \/ /\ Len(queue) >= Capacity
        /\ Answer(r, "BACKPRESSURE_REJECTION_QUEUE_FULL")
        /\ UNCHANGED <<queue, order>>
  /\ UNCHANGED <<engine, durable, tx, writer, undermined, counts>>

-----------------------------------------------------------------------------
(* _batch_writer_loop and _flush_batch_to_wal. *)

(* Mutant of NextAwait: the size test of the loop is off by one.           *)
NextAwaitFlushesLate(b, q) ==
  /\ batch' = b
  /\ wpc' = IF Len(b) > BatchSize \/ (b # <<>> /\ StopSet) THEN "flush"
            ELSE IF StopSet /\ q = <<>> THEN "ended" ELSE "get"

(* Mutant of NextAwait: the loop ends on the stop event alone.             *)
NextAwaitLeavesQueue(b, q) ==
  /\ batch' = b
  /\ wpc' = IF Len(b) >= BatchSize \/ (b # <<>> /\ StopSet) THEN "flush"
            ELSE IF StopSet THEN "ended" ELSE "get"

(* From the flush test of an iteration to its next await: flush, or the    *)
(* while test at the head of the loop, with the batch and queue it sees.   *)
(* The loop never ends by this test with an item in the batch.             *)
NextAwait(b, q) ==
  /\ batch' = b
  /\ wpc' = IF Len(b) >= BatchSize \/ (b # <<>> /\ StopSet) THEN "flush"
            ELSE IF StopSet /\ q = <<>> THEN "ended" ELSE "get"

WriterGet ==
  /\ wpc = "get"
  /\ queue # <<>>
  /\ queue' = Tail(queue)
  /\ NextAwait(Append(batch, Head(queue)), Tail(queue))
  /\ UNCHANGED <<engine, durable, tx, flushed, pc, reply, order, undermined, counts>>

(* Mutant of WriterTimeout: a get without wait_for.                        *)
WriterTimeoutNever ==
  /\ wpc = "get" /\ queue # <<>>
  /\ NextAwait(batch, queue)
  /\ UNCHANGED <<engine, durable, tx, queue, flushed, pc, reply, order, undermined, counts>>

(* flush_interval_sec passes without an item: nothing is flushed unless    *)
(* the batch is full or the engine is stopping.                            *)
WriterTimeout ==
  /\ wpc = "get"
  /\ NextAwait(batch, queue)
  /\ UNCHANGED <<engine, durable, tx, queue, flushed, pc, reply, order, undermined, counts>>

(* Mutant of WriterCancelled: no final flush.                              *)
WriterCancelledDropsBatch ==
  /\ wpc = "get"
  /\ cancels < MaxCancels
  /\ cancels' = cancels + 1
  /\ wpc' = "ended"
  /\ UNCHANGED <<engine, durable, tx, queue, batch, flushed, pc, reply, order, undermined,
                 starts, faults, crashes>>

(* The task is cancelled in its get, as asyncio.run does on its way out:   *)
(* break, and the final flush of the batch.                                *)
WriterCancelled ==
  /\ wpc = "get"
  /\ cancels < MaxCancels
  /\ cancels' = cancels + 1
  /\ wpc' = IF batch # <<>> THEN "final" ELSE "ended"
  /\ UNCHANGED <<engine, durable, tx, queue, batch, flushed, pc, reply, order, undermined,
                 starts, faults, crashes>>

Flushing == wpc \in {"flush", "final"}

(* The coroutine resumes after the flush, failed or not: task_done for     *)
(* each item, clear, and the head of the loop or the end of the task.      *)
Resumed == IF wpc = "flush" THEN "resume" ELSE "ended"

(* executemany inserts row by row, in a pool thread.  It begins a          *)
(* transaction before its first row only: if another thread has ended that *)
(* one, a row commits by itself.                                           *)
FlushRow ==
  /\ Flushing
  /\ flushed < Len(batch)
  /\ flushed' = flushed + 1
  /\ \/ /\ txRows' = Append(txRows, batch[flushed + 1])
        /\ UNCHANGED telemetry
     \/ /\ flushed > 0 /\ txKeys = {} /\ txRows = <<>>
        /\ telemetry' = Append(telemetry, batch[flushed + 1])
        /\ UNCHANGED txRows
  /\ UNCHANGED <<engine, vault, txKeys, queue, batch, wpc, pc, reply, order, undermined, counts>>

(* The batch is cleared when the coroutine resumes (WriterResume); nobody  *)
(* else reads it, so the model clears it as the thread ends.               *)
FlushCommit ==
  /\ Flushing
  /\ flushed = Len(batch)
  /\ CommitAll
  /\ wpc' = Resumed
  /\ batch' = <<>> /\ flushed' = 0
  /\ UNCHANGED <<engine, queue, pc, reply, order, undermined, counts>>

(* Mutants of FlushFault: the batch is tried again from its first row; the *)
(* row count of the failed flush survives it.                              *)
FlushFaultRetries ==
  /\ Flushing
  /\ StatementFails
  /\ flushed' = 0
  /\ UNCHANGED <<engine, durable, queue, batch, wpc, pc, reply, order>>

FlushFaultKeepsCount ==
  /\ Flushing
  /\ StatementFails
  /\ wpc' = Resumed
  /\ batch' = <<>>
  /\ UNCHANGED <<engine, durable, queue, flushed, pc, reply, order>>

(* The flush raises: it is logged, and the batch is cleared all the same.  *)
FlushFault ==
  /\ Flushing
  /\ StatementFails
  /\ wpc' = Resumed
  /\ batch' = <<>> /\ flushed' = 0
  /\ UNCHANGED <<engine, durable, queue, pc, reply, order>>

WriterResume ==
  /\ wpc = "resume"
  /\ NextAwait(<<>>, queue)
  /\ UNCHANGED <<engine, durable, tx, queue, flushed, pc, reply, order, undermined, counts>>

-----------------------------------------------------------------------------
SubmitStep(r) ==
  \/ Submit(r)
  \/ InsertNonce(r)
  \/ CommitNonce(r)
  \/ NonceFault(r)
  \/ Enqueue(r)

WriterStep ==
  \/ WriterGet
  \/ WriterTimeout
  \/ WriterCancelled
  \/ FlushRow
  \/ FlushCommit
  \/ FlushFault
  \/ WriterResume

Next ==
  \/ Start
  \/ RequestStop
  \/ CloseConnection
  \/ Crash
  \/ \E r \in Reqs : SubmitStep(r)
  \/ WriterStep

Spec == Init /\ [][Next]_vars

(* The event loop runs every ready callback and the pool every queued call *)
(* and a timer fires; nothing obliges a client to submit, or anyone to     *)
(* stop the engine.                                                        *)
Fairness ==
  /\ \A r \in Reqs : WF_vars(InsertNonce(r)) /\ WF_vars(CommitNonce(r)) /\ WF_vars(Enqueue(r))
  /\ WF_vars(WriterGet) /\ WF_vars(WriterTimeout) /\ WF_vars(WriterResume)
  /\ WF_vars(FlushRow) /\ WF_vars(FlushCommit)
  /\ WF_vars(CloseConnection)

FairSpec == Spec /\ Fairness

-----------------------------------------------------------------------------
(* Properties. *)

TypeOK ==
  /\ phase \in {"down", "up", "stopping", "stopped"}
  /\ conn \in {"none", "open"} /\ stopEvent \in {"clear", "set"}
  /\ vault \in SUBSET Keys /\ txKeys \in SUBSET Keys
  /\ telemetry \in Seq(Reqs) /\ txRows \in Seq(Reqs)
  /\ queue \in Seq(Reqs) /\ batch \in Seq(Reqs) /\ order \in Seq(Reqs)
  /\ flushed \in 0..Len(batch)
  /\ wpc \in {"none", "get", "flush", "resume", "final", "ended"}
  /\ pc \in [Reqs -> {"idle", "insert", "commit", "enqueue", "done"}]
  /\ reply \in [Reqs -> Reasons \cup {"none"}]
  /\ undermined \in SUBSET Reqs
  /\ starts \in Nat /\ faults \in Nat /\ crashes \in Nat /\ cancels \in Nat

(* Memory stays bounded under any load: the queue never exceeds            *)
(* max_queue_depth and the writer never holds more than batch_size items,  *)
(* although it tests the size only after it has taken one.                 *)
BoundedMemory ==
  /\ Len(queue) <= Capacity
  /\ Len(batch) <= BatchSize

Accepted == {r \in Reqs : reply[r] = "OK"}

(* Strict idempotency of ingress_metering.py:21: of all submissions with   *)
(* one (client_pubkey, nonce), over crashes, restarts and failing          *)
(* statements, at most one is accepted.                                    *)
AcceptedOnce ==
  \A r, s \in Accepted : KeyOf[r] = KeyOf[s] => r = s

(* What the shared connection leaves of it: a second acceptance needs a    *)
(* submission whose nonce row was rolled back by somebody else between its *)
(* own INSERT and its own commit.                                          *)
AcceptedOnceUnlessUndermined ==
  \A r, s \in Accepted \ undermined : KeyOf[r] = KeyOf[s] => r = s

(* A payload the engine holds or has stored has its nonce on disk: no      *)
(* crash can leave a telemetry row that its replay would duplicate.        *)
PayloadHasNonce ==
  \A r \in Elems(Pipeline) \ undermined : KeyOf[r] \in vault

(* Telemetry rows, pending rows, the batch and the queue together hold     *)
(* accepted payloads only, each once, in the order of their acceptance:    *)
(* also after a crash, and after a flush that failed half way.             *)
HeldOnceInOrder ==
  \A i, j \in Ranks(Pipeline) : i < j =>
    \E k, l \in Ranks(order) : k < l /\ order[k] = Pipeline[i] /\ order[l] = Pipeline[j]

(* Nothing that was accepted is lost by stopping, restarting, cancelling   *)
(* the writer or any timing of the flush: only a failing statement or the  *)
(* death of the process loses a payload.                                   *)
NothingLostWithoutFailure ==
  faults = 0 /\ crashes = 0 => Pipeline = order

(* The writer task ends by itself only when everything accepted so far is  *)
(* committed ("Final drain guarantee", ingress_metering.py:224).           *)
DrainedAtExit ==
  [][wpc # "ended" /\ wpc' = "ended" /\ cancels' = 0 /\ faults' = 0 /\ crashes' = 0
       => telemetry' = order']_vars

-----------------------------------------------------------------------------
(* Liveness, under FairSpec. *)

(* Every submission is answered, unless the process dies. *)
SubmissionsEnd ==
  \A r \in Reqs : InFlight(r) ~> pc[r] = "done"

(* stop() returns: the writer never waits for ever on an empty queue.      *)
StopReturns ==
  phase = "stopping" ~> phase # "stopping"

(* What is in the queue or the batch while a stopping writer still runs    *)
(* reaches the database.                                                   *)
StopFlushes ==
  \A r \in Reqs :
    (StopSet /\ wpc # "ended" /\ r \in Elems(batch \o queue)) ~>
      (r \in Elems(telemetry) \/ faults > 0 \/ crashes > 0)

(* "Expected behavior. Proceed to flush whatever is currently in the       *)
(* batch" (ingress_metering.py:213): while the engine runs, an accepted     *)
(* payload is stored within some flush intervals, so eventually.           *)
AcceptedEventuallyStored ==
  \A r \in Reqs : r \in Accepted ~> (r \in Elems(telemetry) \/ phase # "up")

-----------------------------------------------------------------------------
(* The contract the engine implements when it is not restarted under       *)
(* in-flight submissions and no statement rolls back on failure.           *)
Contract == INSTANCE IngressContract WITH
  recorded <- vault,
  answer <- [r \in Reqs |-> IF reply[r] = "none" THEN "none"
                            ELSE IF reply[r] = "OK" THEN "accepted" ELSE "rejected"],
  stored <- telemetry

ImplementsContract == Contract!Spec
=============================================================================
