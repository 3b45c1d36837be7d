------------------------ MODULE IngressMeteringProofs ------------------------
(***************************************************************************)
(* Theorems about IngressMetering, for any submissions, keys, capacity and *)
(* batch size, with hot restarts, rolled back transactions, failing        *)
(* statements, crashes and cancellations in any number.                    *)
(*                                                                         *)
(* The argument, in three parts: a submission that is not undermined keeps *)
(* its key taken from its INSERT on (NonceInv); what table, transaction,   *)
(* batch and queue hold moves along one line, to which only an acceptance  *)
(* adds, at its end (PipeInv); and without restarts under a submission in  *)
(* flight, nobody is accepted on a row that was rolled back (QuietInv).    *)
(***************************************************************************)
EXTENDS IngressMetering, SequenceTheorems, TLAPS

(* TypeOK is inductive once the batch is known to be empty when the writer *)
(* resumes from a flush.                                                   *)
ResumeClean == wpc = "resume" => batch = <<>>
TypeInv == TypeOK /\ ResumeClean

LEMMA RankLemma ==
  ASSUME NEW s \in Seq(Reqs), s # <<>>
  PROVE  Head(s) \in Reqs /\ Tail(s) \in Seq(Reqs)
OBVIOUS

LEMMA InitType == Init => TypeInv
BY DEF Init, TypeInv, TypeOK, ResumeClean

LEMMA TypeInvType == TypeInv => TypeOK
BY DEF TypeInv

LEMMA NextAwaitType ==
  ASSUME TypeInv, NEW b \in Seq(Reqs), NEW q, NextAwait(b, q)
  PROVE  /\ batch' \in Seq(Reqs) /\ batch' = b
         /\ wpc' \in {"get", "flush", "ended"}
BY DEF NextAwait

LEMMA AnswerType ==
  ASSUME TypeInv, NEW r \in Reqs, NEW reason \in Reasons, Answer(r, reason)
  PROVE  /\ pc' \in [Reqs -> {"idle", "insert", "commit", "enqueue", "done"}]
         /\ reply' \in [Reqs -> Reasons \cup {"none"}]
BY DEF TypeInv, TypeOK, Answer

LEMMA StatementFailsType ==
  ASSUME TypeInv, StatementFails
  PROVE  /\ txKeys' \in SUBSET Keys /\ txRows' \in Seq(Reqs)
         /\ undermined' \in SUBSET Reqs
         /\ starts' \in Nat /\ faults' \in Nat /\ crashes' \in Nat /\ cancels' \in Nat
<1> USE DEF TypeInv, TypeOK, StatementFails
<1>1. CASE UNCHANGED <<tx, undermined>>
  BY <1>1 DEF tx
<1>2. CASE RollBackAll
  BY <1>2 DEF RollBackAll
<1> QED
  BY <1>1, <1>2

LEMMA StepType == TypeInv /\ [Next]_vars => TypeInv'
<1> SUFFICES ASSUME TypeInv, [Next]_vars PROVE TypeInv'
  OBVIOUS
<1> USE KeyOfAssumption DEF TypeInv, TypeOK, ResumeClean
<1>1. CASE Start
  BY <1>1 DEF Start, durable, tx
<1>2. CASE RequestStop
  BY <1>2 DEF RequestStop, durable, tx, writer, counts
<1>3. CASE CloseConnection
  BY <1>3 DEF CloseConnection, RollBackAll, durable, writer, counts
<1>4. CASE Crash
  BY <1>4 DEF Crash, durable, InFlight
<1>5. ASSUME NEW r \in Reqs, SubmitStep(r) PROVE TypeInv'
  <2>1. CASE Submit(r)
    <3>1. /\ pc' \in [Reqs -> {"idle", "insert", "commit", "enqueue", "done"}]
          /\ reply' \in [Reqs -> Reasons \cup {"none"}]
      BY <2>1 DEF Submit, Answer, Reasons, GateReasons
    <3>2. UNCHANGED <<engine, durable, tx, queue, writer, order, undermined, counts>>
      BY <2>1 DEF Submit
    <3> QED
      BY <3>1, <3>2 DEF engine, durable, tx, writer, counts
  <2>2. CASE InsertNonce(r)
    <3> USE DEF InsertNonce, engine, durable, writer, counts
    <3>1. KeyOf[r] \in Keys
      OBVIOUS
    <3>2. CASE pc[r] = "insert" /\ IsOpen /\ KeyOf[r] \notin vault \cup txKeys
      BY <2>2, <3>1, <3>2
    <3>3. ASSUME NEW reason \in Reasons, Answer(r, reason), UNCHANGED txKeys PROVE TypeInv'
      BY <2>2, <3>3, AnswerType
    <3> QED
      BY <2>2, <3>2, <3>3 DEF Reasons
  <2>3. CASE CommitNonce(r)
    <3> USE DEF CommitNonce, engine, writer, counts
    <3>1. CASE CommitAll /\ pc' = [pc EXCEPT ![r] = "enqueue"] /\ UNCHANGED reply
      BY <2>3, <3>1 DEF CommitAll
    <3>2. CASE Answer(r, "INTERNAL_DATABASE_FAULT") /\ UNCHANGED <<durable, tx>>
      <4>1. "INTERNAL_DATABASE_FAULT" \in Reasons
        BY DEF Reasons
      <4> QED
        BY <2>3, <3>2, <4>1, AnswerType DEF durable, tx
    <3> QED
      BY <2>3, <3>1, <3>2
  <2>4. CASE NonceFault(r)
    <3>1. "INTERNAL_DATABASE_FAULT" \in Reasons
      BY DEF Reasons
    <3> QED
      BY <2>4, <3>1, AnswerType, StatementFailsType DEF NonceFault, engine, durable, writer
  <2>5. CASE Enqueue(r)
    <3> USE DEF Enqueue, engine, durable, tx, writer, counts
    <3>1. Append(queue, r) \in Seq(Reqs) /\ Append(order, r) \in Seq(Reqs)
      OBVIOUS
    <3>2. queue' \in Seq(Reqs) /\ order' \in Seq(Reqs)
      BY <2>5, <3>1
    <3>3. PICK reason \in Reasons : Answer(r, reason)
      BY <2>5 DEF Reasons
    <3> QED
      BY <2>5, <3>2, <3>3, AnswerType
  <2> QED
    BY <1>5, <2>1, <2>2, <2>3, <2>4, <2>5 DEF SubmitStep
<1>6. CASE WriterStep
  <2>1. CASE WriterGet
    <3>1. Append(batch, Head(queue)) \in Seq(Reqs) /\ Tail(queue) \in Seq(Reqs)
      BY <2>1, RankLemma DEF WriterGet
    <3>2. Len(Append(batch, Head(queue))) = Len(batch) + 1
      BY <3>1
    <3>3. /\ batch' = Append(batch, Head(queue))
          /\ wpc' \in {"get", "flush", "ended"}
      BY <2>1, <3>1, NextAwaitType DEF WriterGet
    <3> QED
      BY <2>1, <3>1, <3>2, <3>3 DEF WriterGet, engine, durable, tx, counts
  <2>2. CASE WriterTimeout
    <3>1. batch' = batch /\ wpc' \in {"get", "flush", "ended"}
      BY <2>2, NextAwaitType DEF WriterTimeout
    <3> QED
      BY <2>2, <3>1 DEF WriterTimeout, engine, durable, tx, counts
  <2>3. CASE WriterCancelled
    BY <2>3 DEF WriterCancelled, engine, durable, tx
  <2>4. CASE FlushRow
    <3>1. batch[flushed + 1] \in Reqs
      BY <2>4 DEF FlushRow
    <3>2. txRows' \in Seq(Reqs) /\ telemetry' \in Seq(Reqs)
      <4>1. Append(txRows, batch[flushed + 1]) \in Seq(Reqs)
        BY <3>1
      <4>2. Append(telemetry, batch[flushed + 1]) \in Seq(Reqs)
        BY <3>1
      <4> QED
        BY <2>4, <4>1, <4>2 DEF FlushRow
    <3> QED
      BY <2>4, <3>2 DEF FlushRow, Flushing, engine, counts
  <2>5. CASE FlushCommit
    BY <2>5 DEF FlushCommit, CommitAll, Flushing, Resumed, engine, counts
  <2>6. CASE FlushFault
    BY <2>6, StatementFailsType DEF FlushFault, Resumed, engine, durable
  <2>7. CASE WriterResume
    <3>1. batch' = <<>> /\ wpc' \in {"get", "flush", "ended"}
      BY <2>7, NextAwaitType DEF WriterResume
    <3> QED
      BY <2>7, <3>1 DEF WriterResume, engine, durable, tx, counts
  <2> QED
    BY <1>6, <2>1, <2>2, <2>3, <2>4, <2>5, <2>6, <2>7 DEF WriterStep
<1>7. CASE UNCHANGED vars
  BY <1>7 DEF vars, engine, durable, tx, writer, counts
<1> QED
  BY <1>1, <1>2, <1>3, <1>4, <1>5, <1>6, <1>7 DEF Next

(* Every variable keeps its type. *)
THEOREM TypeCorrect == Spec => []TypeOK
<1>1. TypeInv => TypeOK
  BY DEF TypeInv
<1> QED
  BY InitType, StepType, <1>1, PTL DEF Spec

-----------------------------------------------------------------------------
(* At most one acceptance of a key.  A submission that has inserted its    *)
(* nonce, and whose row nobody rolled back, keeps the key taken: by a      *)
(* pending row until its own commit, by a committed row from then on.      *)
Passed(r) == pc[r] \in {"commit", "enqueue"} \/ reply[r] = "OK"

AnsweredIsDone == \A r \in Reqs : reply[r] = "OK" => pc[r] = "done"

PendingRecorded ==
  \A r \in Reqs \ undermined : pc[r] = "commit" => KeyOf[r] \in vault \cup txKeys

PassedRecorded ==
  \A r \in Reqs \ undermined : pc[r] = "enqueue" \/ reply[r] = "OK" => KeyOf[r] \in vault

OneHolder ==
  \A r, s \in Reqs \ undermined : Passed(r) /\ Passed(s) /\ KeyOf[r] = KeyOf[s] => r = s

NonceInv == AnsweredIsDone /\ PendingRecorded /\ PassedRecorded /\ OneHolder

LEMMA InitNonce == Init => NonceInv
BY DEF Init, NonceInv, AnsweredIsDone, PendingRecorded, PassedRecorded, OneHolder, Passed

(* What a step may do to a submission other than its own is to roll back   *)
(* its row or to commit it: both leave NonceInv alone.                     *)
LEMMA QuietNonce ==
  ASSUME TypeOK, NonceInv, UNCHANGED <<pc, reply>>,
         \/ UNCHANGED <<vault, txKeys, undermined>>
         \/ CommitAll /\ UNCHANGED undermined
         \/ UNCHANGED vault /\ RollBackAll
  PROVE  NonceInv'
<1> USE DEF TypeOK, NonceInv, AnsweredIsDone, PendingRecorded, PassedRecorded, OneHolder, Passed
<1>1. CASE UNCHANGED <<vault, txKeys, undermined>>
  BY <1>1
<1>2. CASE CommitAll /\ UNCHANGED undermined
  BY <1>2 DEF CommitAll
<1>3. CASE UNCHANGED vault /\ RollBackAll
  BY <1>3 DEF RollBackAll
<1> QED
  BY <1>1, <1>2, <1>3

(* An answer other than OK only takes a submission out of consideration.   *)
LEMMA RefusedNonce ==
  ASSUME TypeOK, NonceInv, NEW r \in Reqs, NEW reason \in Reasons \ {"OK"}, Answer(r, reason),
         \/ UNCHANGED <<vault, txKeys, undermined>>
         \/ UNCHANGED vault /\ RollBackAll
  PROVE  NonceInv'
<1> USE DEF TypeOK, NonceInv, AnsweredIsDone, PendingRecorded, PassedRecorded, OneHolder, Passed, Answer
<1>1. CASE UNCHANGED <<vault, txKeys, undermined>>
  BY <1>1
<1>2. CASE UNCHANGED vault /\ RollBackAll
  BY <1>2 DEF RollBackAll
<1> QED
  BY <1>1, <1>2

LEMMA StatementFailsUndermines ==
  ASSUME StatementFails
  PROVE  UNCHANGED <<txKeys, undermined>> \/ RollBackAll
BY DEF StatementFails, tx

LEMMA SubmitNonce ==
  ASSUME TypeOK, NonceInv, NEW r \in Reqs, SubmitStep(r)
  PROVE  NonceInv'
<1> USE DEF TypeOK, durable, tx
<1>1. CASE Submit(r)
  <2>1. CASE pc' = [pc EXCEPT ![r] = "insert"] /\ UNCHANGED reply
    BY <1>1, <2>1 DEF Submit, NonceInv, AnsweredIsDone, PendingRecorded, PassedRecorded,
                      OneHolder, Passed
  <2>2. CASE \E reason \in GateReasons : Answer(r, reason)
    BY <1>1, <2>2, RefusedNonce DEF Submit, GateReasons, Reasons
  <2> QED
    BY <1>1, <2>1, <2>2 DEF Submit
<1>2. CASE InsertNonce(r)
  <2> USE DEF InsertNonce
  <2>1. CASE pc[r] = "insert" /\ IsOpen /\ KeyOf[r] \notin vault \cup txKeys
    <3>1. /\ pc' = [pc EXCEPT ![r] = "commit"]
          /\ txKeys' = txKeys \cup {KeyOf[r]}
          /\ UNCHANGED <<reply, vault, undermined>>
      BY <1>2, <2>1
    <3> USE DEF NonceInv
    <3>2. AnsweredIsDone'
      BY <2>1, <3>1 DEF AnsweredIsDone
    <3>3. PendingRecorded' /\ PassedRecorded'
      BY <2>1, <3>1 DEF PendingRecorded, PassedRecorded
    <3>4. \A s \in Reqs \ undermined : Passed(s) => KeyOf[s] # KeyOf[r]
      BY <2>1 DEF PendingRecorded, PassedRecorded, Passed
    <3>5. \A s \in Reqs : Passed(s)' => s = r \/ Passed(s)
      BY <2>1, <3>1 DEF Passed
    <3>6. OneHolder'
      BY <3>1, <3>4, <3>5 DEF OneHolder
    <3> QED
      BY <3>2, <3>3, <3>6
  <2>2. ASSUME NEW reason \in Reasons \ {"OK"}, Answer(r, reason), UNCHANGED txKeys PROVE NonceInv'
    BY <1>2, <2>2, RefusedNonce
  <2> QED
    BY <1>2, <2>1, <2>2 DEF Reasons
<1>3. CASE CommitNonce(r)
  <2> USE DEF CommitNonce
  <2>1. CASE CommitAll /\ pc' = [pc EXCEPT ![r] = "enqueue"] /\ UNCHANGED reply
    BY <1>3, <2>1 DEF CommitAll, NonceInv, AnsweredIsDone, PendingRecorded, PassedRecorded,
                      OneHolder, Passed
  <2>2. CASE Answer(r, "INTERNAL_DATABASE_FAULT") /\ UNCHANGED <<durable, tx>>
    BY <1>3, <2>2, RefusedNonce DEF Reasons
  <2> QED
    BY <1>3, <2>1, <2>2
<1>4. CASE NonceFault(r)
  BY <1>4, RefusedNonce, StatementFailsUndermines DEF NonceFault, Reasons
<1>5. CASE Enqueue(r)
  <2>1. CASE Answer(r, "OK")
    BY <1>5, <2>1 DEF Enqueue, Answer, NonceInv, AnsweredIsDone, PendingRecorded, PassedRecorded,
                      OneHolder, Passed
  <2>2. CASE Answer(r, "BACKPRESSURE_REJECTION_QUEUE_FULL")
    BY <1>5, <2>2, RefusedNonce DEF Enqueue, Reasons
  <2> QED
    BY <1>5, <2>1, <2>2 DEF Enqueue
<1> QED
  BY <1>1, <1>2, <1>3, <1>4, <1>5 DEF SubmitStep

LEMMA StepNonce == TypeOK /\ NonceInv /\ [Next]_vars => NonceInv'
<1> SUFFICES ASSUME TypeOK, NonceInv, [Next]_vars PROVE NonceInv'
  OBVIOUS
<1> USE DEF durable, tx
<1>1. CASE Start
  BY <1>1, QuietNonce DEF Start
<1>2. CASE RequestStop
  BY <1>2, QuietNonce DEF RequestStop
<1>3. CASE CloseConnection
  BY <1>3, QuietNonce DEF CloseConnection
<1>4. CASE Crash
  BY <1>4 DEF Crash, InFlight, TypeOK, NonceInv, AnsweredIsDone, PendingRecorded, PassedRecorded,
              OneHolder, Passed
<1>5. ASSUME NEW r \in Reqs, SubmitStep(r) PROVE NonceInv'
  BY <1>5, SubmitNonce
<1>6. CASE WriterStep
  <2>1. UNCHANGED <<pc, reply>>
    BY <1>6 DEF WriterStep, WriterGet, WriterTimeout, WriterCancelled, FlushRow, FlushCommit,
                FlushFault, WriterResume
  <2>2. CASE FlushCommit
    BY <2>1, <2>2, QuietNonce DEF FlushCommit
  <2>3. CASE FlushFault
    BY <2>1, <2>3, QuietNonce, StatementFailsUndermines DEF FlushFault
  <2>4. CASE WriterGet \/ WriterTimeout \/ WriterCancelled \/ FlushRow \/ WriterResume
    <3>1. UNCHANGED <<vault, txKeys, undermined>>
      BY <2>4 DEF WriterGet, WriterTimeout, WriterCancelled, FlushRow, WriterResume
    <3> QED
      BY <2>1, <3>1, QuietNonce
  <2> QED
    BY <1>6, <2>2, <2>3, <2>4 DEF WriterStep
<1>7. CASE UNCHANGED vars
  BY <1>7, QuietNonce DEF vars
<1> QED
  BY <1>1, <1>2, <1>3, <1>4, <1>5, <1>6, <1>7 DEF Next

(* At most one submission of a key is accepted, unless the row of one was  *)
(* rolled back under it.                                                   *)
THEOREM AcceptsOnceUnlessUndermined == Spec => []AcceptedOnceUnlessUndermined
<1>1. TypeInv => TypeOK
  BY DEF TypeInv
<1>2. NonceInv => AcceptedOnceUnlessUndermined
  BY DEF NonceInv, OneHolder, Passed, AcceptedOnceUnlessUndermined, Accepted
<1> QED
  BY InitType, StepType, InitNonce, StepNonce, <1>1, <1>2, PTL DEF Spec

-----------------------------------------------------------------------------
(* Bounded memory: the writer asks for an item only with room for it.      *)
MemoryInv ==
  /\ BoundedMemory
  /\ wpc = "get" => Len(batch) < BatchSize

LEMMA NextAwaitMemory ==
  ASSUME TypeInv, NEW b \in Seq(Reqs), Len(b) <= BatchSize, NEW q, NextAwait(b, q)
  PROVE  batch' = b /\ (wpc' = "get" => Len(batch') < BatchSize)
BY SizeAssumption DEF NextAwait

LEMMA StepMemory == TypeInv /\ MemoryInv /\ [Next]_vars => MemoryInv'
<1> SUFFICES ASSUME TypeInv, MemoryInv, [Next]_vars PROVE MemoryInv'
  OBVIOUS
<1> USE SizeAssumption DEF TypeInv, TypeOK, MemoryInv, BoundedMemory
<1>1. CASE Start
  BY <1>1 DEF Start
<1>2. CASE RequestStop \/ CloseConnection
  BY <1>2 DEF RequestStop, CloseConnection, writer
<1>3. CASE Crash
  BY <1>3 DEF Crash
<1>4. ASSUME NEW r \in Reqs, SubmitStep(r) PROVE MemoryInv'
  <2>1. CASE Submit(r) \/ InsertNonce(r) \/ CommitNonce(r) \/ NonceFault(r)
    BY <2>1 DEF Submit, InsertNonce, CommitNonce, NonceFault, writer
  <2>2. CASE Enqueue(r)
    <3>1. queue' = queue \/ (Len(queue) < Capacity /\ queue' = Append(queue, r))
      BY <2>2 DEF Enqueue
    <3>2. Len(queue') <= Capacity
      BY <3>1
    <3> QED
      BY <2>2, <3>2 DEF Enqueue, writer
  <2> QED
    BY <1>4, <2>1, <2>2 DEF SubmitStep
<1>5. CASE WriterStep
  <2>1. CASE WriterGet
    <3> DEFINE b == Append(batch, Head(queue))
    <3>1. b \in Seq(Reqs) /\ Len(b) = Len(batch) + 1 /\ Len(Tail(queue)) <= Len(queue)
      BY <2>1, RankLemma DEF WriterGet
    <3>2. Len(b) <= BatchSize
      BY <2>1, <3>1 DEF WriterGet
    <3>3. NextAwait(b, Tail(queue)) /\ queue' = Tail(queue)
      BY <2>1 DEF WriterGet
    <3> HIDE DEF b
    <3>4. batch' = b /\ (wpc' = "get" => Len(batch') < BatchSize)
      BY <3>1, <3>2, <3>3, NextAwaitMemory
    <3> QED
      BY <3>1, <3>2, <3>3, <3>4
  <2>2. CASE WriterTimeout
    BY <2>2, NextAwaitMemory DEF WriterTimeout
  <2>3. CASE WriterCancelled \/ FlushRow
    BY <2>3 DEF WriterCancelled, FlushRow, Flushing
  <2>4. CASE FlushCommit \/ FlushFault
    BY <2>4 DEF FlushCommit, FlushFault, Resumed
  <2>5. CASE WriterResume
    <3>1. <<>> \in Seq(Reqs) /\ Len(<<>>) <= BatchSize
      OBVIOUS
    <3>2. NextAwait(<<>>, queue) /\ UNCHANGED queue
      BY <2>5 DEF WriterResume
    <3>3. batch' = <<>> /\ (wpc' = "get" => Len(batch') < BatchSize)
      BY <3>1, <3>2, NextAwaitMemory
    <3> QED
      BY <3>1, <3>2, <3>3
  <2> QED
    BY <1>5, <2>1, <2>2, <2>3, <2>4, <2>5 DEF WriterStep
<1>6. CASE UNCHANGED vars
  BY <1>6 DEF vars, writer
<1> QED
  BY <1>1, <1>2, <1>3, <1>4, <1>5, <1>6 DEF Next

(* The queue and the batch keep to max_queue_depth and batch_size.         *)
THEOREM MemoryIsBounded == Spec => []BoundedMemory
<1>1. Init => MemoryInv
  BY SizeAssumption DEF Init, MemoryInv, BoundedMemory
<1>2. MemoryInv => BoundedMemory
  BY DEF MemoryInv
<1> QED
  BY InitType, StepType, StepMemory, <1>1, <1>2, PTL DEF Spec

-----------------------------------------------------------------------------
(* A payload is held or stored only once its submission was accepted, and  *)
(* an accepted submission has its nonce in the vault.                      *)
AllAccepted(s) == \A i \in 1..Len(s) : reply[s[i]] = "OK"

HeldInv ==
  AllAccepted(telemetry) /\ AllAccepted(txRows) /\ AllAccepted(batch) /\ AllAccepted(queue)

LEMMA AcceptedStays ==
  ASSUME TypeOK, NonceInv, NEW r \in Reqs, SubmitStep(r)
  PROVE  \A x \in Reqs : reply[x] = "OK" => reply'[x] = "OK"
<1>1. CASE pc[r] # "done"
  BY <1>1 DEF TypeOK, NonceInv, AnsweredIsDone, SubmitStep, Submit, InsertNonce, CommitNonce,
              NonceFault, Enqueue, Answer
<1>2. CASE pc[r] = "done"
  BY <1>2 DEF SubmitStep, Submit, InsertNonce, CommitNonce, NonceFault, Enqueue
<1> QED
  BY <1>1, <1>2

(* Sequences that move between table, transaction, batch and queue. *)
LEMMA AcceptedSeqs ==
  ASSUME NEW s \in Seq(Reqs), AllAccepted(s)
  PROVE  /\ \A t \in Seq(Reqs) : AllAccepted(t) => AllAccepted(s \o t)
         /\ \A r \in Reqs : reply[r] = "OK" => AllAccepted(Append(s, r))
         /\ s # <<>> => AllAccepted(Tail(s)) /\ reply[Head(s)] = "OK"
         /\ \A m \in Nat : AllAccepted(SubSeq(s, m + 1, Len(s)))
BY DEF AllAccepted

LEMMA HeldKept ==
  ASSUME UNCHANGED reply, AllAccepted(telemetry'), AllAccepted(txRows'), AllAccepted(batch'),
         AllAccepted(queue')
  PROVE  HeldInv'
BY DEF HeldInv, AllAccepted

LEMMA StepHeld == TypeInv /\ NonceInv /\ HeldInv /\ [Next]_vars => HeldInv'
<1> SUFFICES ASSUME TypeInv, NonceInv, HeldInv, [Next]_vars PROVE HeldInv'
  OBVIOUS
<1> USE DEF TypeInv, TypeOK, HeldInv
<1>0. AllAccepted(<<>>)
  BY DEF AllAccepted
<1>1. CASE Start
  BY <1>1 DEF Start, durable, tx, AllAccepted
<1>2. CASE RequestStop \/ CloseConnection
  BY <1>2 DEF RequestStop, CloseConnection, RollBackAll, durable, tx, writer, AllAccepted
<1>3. CASE Crash
  BY <1>3 DEF Crash, durable, AllAccepted
<1>4. ASSUME NEW r \in Reqs, SubmitStep(r) PROVE HeldInv'
  <2> DEFINE Stays(s) == \A i \in 1..Len(s) : reply'[s[i]] = "OK"
  <2>1. \A x \in Reqs : reply[x] = "OK" => reply'[x] = "OK"
    BY <1>4, AcceptedStays
  <2>2. ASSUME NEW s \in Seq(Reqs), AllAccepted(s) PROVE Stays(s)
    BY <2>1, <2>2 DEF AllAccepted
  <2>3. Stays(telemetry) /\ Stays(txRows) /\ Stays(batch) /\ Stays(queue)
    BY <2>2
  <2>4. Stays(telemetry') /\ Stays(txRows') /\ Stays(batch') /\ Stays(queue') => HeldInv'
    BY DEF AllAccepted
  <2>5. Stays(<<>>)
    OBVIOUS
  <2> HIDE DEF Stays
  <2>6. CASE Submit(r) \/ InsertNonce(r)
    BY <2>3, <2>4, <2>6 DEF Submit, InsertNonce, durable, tx, writer
  <2>7. CASE CommitNonce(r)
    <3>1. Stays(telemetry \o txRows)
      <4>1. telemetry \o txRows \in Seq(Reqs)
        OBVIOUS
      <4>2. AllAccepted(telemetry \o txRows)
        BY AcceptedSeqs
      <4> QED
        BY <2>2, <4>1, <4>2
    <3>2. \/ UNCHANGED <<telemetry, txRows>>
          \/ telemetry' = telemetry \o txRows /\ txRows' = <<>>
      BY <2>7 DEF CommitNonce, CommitAll, durable, tx
    <3> QED
      BY <2>3, <2>4, <2>5, <2>7, <3>1, <3>2 DEF CommitNonce, writer
  <2>8. CASE NonceFault(r)
    <3>1. txRows' = txRows \/ txRows' = <<>>
      BY <2>8 DEF NonceFault, StatementFails, RollBackAll, tx
    <3> QED
      BY <2>3, <2>4, <2>5, <2>8, <3>1 DEF NonceFault, durable, writer
  <2>9. CASE Enqueue(r)
    <3>1. \/ UNCHANGED queue
          \/ queue' = Append(queue, r) /\ reply'[r] = "OK"
      BY <2>9 DEF Enqueue, Answer
    <3>2. reply'[r] = "OK" => Stays(Append(queue, r))
      BY <2>3 DEF Stays
    <3> QED
      BY <2>3, <2>4, <2>9, <3>1, <3>2 DEF Enqueue, durable, tx, writer
  <2> QED
    BY <1>4, <2>6, <2>7, <2>8, <2>9 DEF SubmitStep
<1>5. CASE WriterStep
  <2>0. UNCHANGED reply
    BY <1>5 DEF WriterStep, WriterGet, WriterTimeout, WriterCancelled, FlushRow, FlushCommit,
                FlushFault, WriterResume
  <2>2. CASE WriterGet
    <3>1. AllAccepted(Append(batch, Head(queue))) /\ AllAccepted(Tail(queue))
      BY <2>2, RankLemma, AcceptedSeqs DEF WriterGet
    <3>2. batch' = Append(batch, Head(queue)) /\ queue' = Tail(queue)
      BY <2>2 DEF WriterGet, NextAwait
    <3>3. UNCHANGED <<telemetry, txRows>>
      BY <2>2 DEF WriterGet, durable, tx
    <3> QED
      BY <2>0, <3>1, <3>2, <3>3, HeldKept
  <2>3. CASE WriterTimeout \/ WriterCancelled \/ WriterResume
    <3>1. batch' \in {batch, <<>>}
      BY <2>3 DEF WriterTimeout, WriterCancelled, WriterResume, NextAwait
    <3>2. UNCHANGED <<telemetry, txRows, queue>>
      BY <2>3 DEF WriterTimeout, WriterCancelled, WriterResume, durable, tx
    <3> QED
      BY <1>0, <2>0, <3>1, <3>2, HeldKept
  <2>4. CASE FlushRow
    <3>1. batch[flushed + 1] \in Reqs /\ reply[batch[flushed + 1]] = "OK"
      BY <2>4 DEF FlushRow, AllAccepted
    <3>2. /\ AllAccepted(Append(txRows, batch[flushed + 1]))
          /\ AllAccepted(Append(telemetry, batch[flushed + 1]))
      BY <3>1, AcceptedSeqs
    <3>3. /\ UNCHANGED <<queue, batch>>
          /\ txRows' \in {txRows, Append(txRows, batch[flushed + 1])}
          /\ telemetry' \in {telemetry, Append(telemetry, batch[flushed + 1])}
      BY <2>4 DEF FlushRow
    <3> QED
      BY <2>0, <3>2, <3>3, HeldKept
  <2>5. CASE FlushCommit
    <3>1. AllAccepted(telemetry \o txRows)
      BY AcceptedSeqs
    <3>2. /\ telemetry' = telemetry \o txRows /\ txRows' = <<>> /\ batch' \in {batch, <<>>}
          /\ queue' = queue
      BY <2>5 DEF FlushCommit, CommitAll
    <3> QED
      BY <1>0, <2>0, <3>1, <3>2, HeldKept
  <2>6. CASE FlushFault
    <3>1. txRows' = txRows \/ txRows' = <<>>
      BY <2>6 DEF FlushFault, StatementFails, RollBackAll, tx
    <3> QED
      BY <1>0, <2>0, <2>6, <3>1, HeldKept DEF FlushFault, durable
  <2> QED
    BY <1>5, <2>2, <2>3, <2>4, <2>5, <2>6 DEF WriterStep
<1>6. CASE UNCHANGED vars
  BY <1>6 DEF vars, durable, tx, writer, AllAccepted
<1> QED
  BY <1>1, <1>2, <1>3, <1>4, <1>5, <1>6 DEF Next

(* What the engine holds or has stored has its nonce on disk, unless the   *)
(* row was rolled back under its submission.                               *)
THEOREM PayloadsAreRecorded == Spec => []PayloadHasNonce
<1>1. TypeInv /\ NonceInv /\ HeldInv => PayloadHasNonce
  <2> SUFFICES ASSUME TypeInv, NonceInv, HeldInv PROVE PayloadHasNonce
    OBVIOUS
  <2> USE DEF TypeInv, TypeOK, HeldInv
  <2> DEFINE stored == telemetry \o txRows
             flushing == stored \o Unflushed
  <2>1. Unflushed \in Seq(Reqs) /\ AllAccepted(Unflushed)
    BY AcceptedSeqs DEF Unflushed
  <2>2. stored \in Seq(Reqs) /\ AllAccepted(stored)
    BY AcceptedSeqs
  <2> HIDE DEF stored
  <2>3. flushing \in Seq(Reqs) /\ AllAccepted(flushing)
    BY <2>1, <2>2, AcceptedSeqs
  <2>4. Pipeline \in Seq(Reqs) /\ AllAccepted(Pipeline)
    <3> HIDE DEF flushing
    <3>1. flushing \o queue \in Seq(Reqs) /\ AllAccepted(flushing \o queue)
      BY <2>3, AcceptedSeqs
    <3>2. Pipeline = flushing \o queue
      BY DEF Pipeline, flushing, stored
    <3> QED
      BY <3>1, <3>2
  <2>5. \A r \in Elems(Pipeline) : r \in Reqs /\ reply[r] = "OK"
    BY <2>4 DEF Elems, Ranks, AllAccepted
  <2> QED
    BY <2>5 DEF PayloadHasNonce, NonceInv, PassedRecorded
<1>2. Init => HeldInv
  BY DEF Init, HeldInv, AllAccepted
<1>3. TypeInv => TypeOK
  BY DEF TypeInv
<1> QED
  BY InitType, StepType, InitNonce, StepNonce, StepHeld, <1>1, <1>2, <1>3, PTL DEF Spec

-----------------------------------------------------------------------------
(* The pipeline: what moves from the queue to the table stays in line.     *)

(* What is held was accepted, and in this order. *)
Before(o, x, y) == \E k, l \in Ranks(o) : k < l /\ o[k] = x /\ o[l] = y
InOrder(o, s) ==
  /\ \A i \in Ranks(s) : s[i] \in Elems(o)
  /\ \A i, j \in Ranks(s) : i < j => Before(o, s[i], s[j])

(* Each submission is accepted once. *)
OrderOnce ==
  /\ \A k \in Ranks(order) : reply[order[k]] = "OK"
  /\ \A k, l \in Ranks(order) : order[k] = order[l] => k = l

(* The writer has rows in the transaction only during a flush, unless a    *)
(* statement has failed; it holds no batch when it stops.                  *)
WriterOK ==
  /\ ~Flushing => flushed = 0
  /\ wpc \in {"none", "resume", "ended"} => batch = <<>>
  /\ wpc = "final" => cancels > 0
  /\ phase = "stopped" => wpc = "ended"
  /\ phase = "down" => wpc = "none"
  /\ faults = 0 /\ txRows # <<>> => Flushing

PipeInv == WriterOK /\ OrderOnce /\ InOrder(order, Pipeline) /\ NothingLostWithoutFailure

LEMMA AppendedAtEnd ==
  ASSUME NEW S, NEW s \in Seq(S), NEW x \in S
  PROVE  <<x>> \in Seq(S) /\ Append(s, x) \in Seq(S) /\ Append(s, x) = s \o <<x>>
<1>1. <<x>> \in Seq(S) /\ Append(s, x) \in Seq(S)
  OBVIOUS
<1>2. Append(s, x) = s \o <<x>>
  OBVIOUS
<1> QED
  BY <1>1, <1>2

LEMMA HeadThenTail ==
  ASSUME NEW S, NEW s \in Seq(S), s # <<>>
  PROVE  Head(s) \in S /\ Tail(s) \in Seq(S) /\ s = <<Head(s)>> \o Tail(s)
<1>1. Len(s) \in Nat \ {0}
  BY EmptySeq
<1>2. 1 \in 1 .. Len(s) /\ Len(s) \in 1 .. Len(s)
  BY <1>1
<1>3. SubSeq(s, 1, Len(s)) = << s[1] >> \o SubSeq(s, 1 + 1, Len(s))
  BY ONLY <1>2, SubSeqRecursiveFirst
<1>4. SubSeq(s, 1, Len(s)) = s /\ Tail(s) = SubSeq(s, 2, Len(s)) /\ 1 + 1 = 2
  BY SubSeqFull, TailIsSubSeq
<1>5. Head(s) = s[1] /\ Head(s) \in S /\ Tail(s) \in Seq(S)
  BY HeadTailProperties
<1> QED
  BY <1>3, <1>4, <1>5

(* A sequence stays in order when a part of it is taken out. *)
LEMMA TakenOut ==
  ASSUME NEW s \in Seq(Reqs), NEW t \in Seq(Reqs), NEW u \in Seq(Reqs),
         InOrder(order, (s \o t) \o u)
  PROVE  InOrder(order, s \o u)
<1>1. PICK a \in Nat : a = Len(s)
  BY LenProperties
<1>2. PICK b \in Nat : b = Len(t)
  BY LenProperties
<1>3. PICK c \in Nat : c = Len(u)
  BY LenProperties
<1>4. PICK st : st = s \o t
  OBVIOUS
<1>5. PICK v : v = st \o u
  OBVIOUS
<1>6. PICK w : w = s \o u
  OBVIOUS
<1>7. st \in Seq(Reqs) /\ Len(st) = a + b /\ \A i \in 1 .. a : st[i] = s[i]
  <2>1. /\ st \in Seq(Reqs) /\ Len(st) = Len(s) + Len(t)
        /\ \A i \in 1 .. Len(s) + Len(t) :
             st[i] = IF i <= Len(s) THEN s[i] ELSE t[i - Len(s)]
    BY ONLY <1>4, s \in Seq(Reqs), t \in Seq(Reqs), ConcatProperties
  <2> QED
    BY ONLY <2>1, <1>1, <1>2, a \in Nat, b \in Nat
<1>8. /\ Len(v) = a + b + c
      /\ \A i \in 1 .. a : v[i] = s[i]
      /\ \A i \in 1 .. c : v[a + b + i] = u[i]
  <2>1. /\ Len(v) = Len(st) + Len(u)
        /\ \A i \in 1 .. Len(st) + Len(u) :
             v[i] = IF i <= Len(st) THEN st[i] ELSE u[i - Len(st)]
    BY ONLY <1>5, <1>7, u \in Seq(Reqs), ConcatProperties
  <2>2. \A i \in 1 .. a + b + c : v[i] = IF i <= a + b THEN st[i] ELSE u[i - (a + b)]
    BY ONLY <2>1, <1>3, <1>7
  <2>3. \A i \in 1 .. c : v[a + b + i] = u[i]
    <3> SUFFICES ASSUME NEW i \in 1 .. c PROVE v[a + b + i] = u[i]
      OBVIOUS
    <3>1. a + b + i \in 1 .. a + b + c /\ ~(a + b + i <= a + b) /\ (a + b + i) - (a + b) = i
      OBVIOUS
    <3> QED
      BY ONLY <2>2, <3>1
  <2>4. \A i \in 1 .. a : v[i] = s[i]
    BY ONLY <2>2, <1>7, a \in Nat, b \in Nat, c \in Nat
  <2>5. Len(v) = a + b + c
    BY ONLY <2>1, <1>3, <1>7
  <2> QED
    BY <2>3, <2>4, <2>5
<1>9. /\ Len(w) = a + c
      /\ \A i \in 1 .. a + c : w[i] = IF i <= a THEN s[i] ELSE u[i - a]
  <2>1. /\ Len(w) = Len(s) + Len(u)
        /\ \A i \in 1 .. Len(s) + Len(u) :
             w[i] = IF i <= Len(s) THEN s[i] ELSE u[i - Len(s)]
    BY ONLY <1>6, s \in Seq(Reqs), u \in Seq(Reqs), ConcatProperties
  <2> QED
    BY ONLY <2>1, <1>1, <1>3
<1> DEFINE f(i) == IF i <= a THEN i ELSE i + b
<1>10. ASSUME NEW i \in 1 .. a + c PROVE f(i) \in 1 .. a + b + c /\ w[i] = v[f(i)]
  <2>1. CASE i <= a
    <3>1. i \in 1 .. a /\ f(i) = i /\ i \in 1 .. a + b + c
      BY ONLY <2>1, i \in 1 .. a + c, a \in Nat, b \in Nat, c \in Nat
    <3> QED
      BY <1>8, <1>9, <2>1, <3>1
  <2>2. CASE i > a
    <3>1. i - a \in 1 .. c /\ f(i) = a + b + (i - a) /\ f(i) \in 1 .. a + b + c /\ ~(i <= a)
      BY ONLY <2>2, i \in 1 .. a + c, a \in Nat, b \in Nat, c \in Nat
    <3> HIDE DEF f
    <3>2. w[i] = u[i - a] /\ v[a + b + (i - a)] = u[i - a]
      BY <1>8, <1>9, <3>1
    <3> QED
      BY <3>1, <3>2
  <2> QED
    BY <2>1, <2>2
<1>11. \A i, j \in 1 .. a + c : i < j => f(i) < f(j)
  BY ONLY a \in Nat, b \in Nat, c \in Nat
<1> HIDE DEF f
<1>12. /\ \A i \in 1 .. a + b + c : v[i] \in Elems(order)
       /\ \A i, j \in 1 .. a + b + c : i < j => Before(order, v[i], v[j])
  BY <1>4, <1>5, <1>8 DEF InOrder, Ranks
<1>13. InOrder(order, w)
  <2>1. \A i \in 1 .. a + c : w[i] \in Elems(order)
    BY <1>10, <1>12
  <2>2. ASSUME NEW i \in 1 .. a + c, NEW j \in 1 .. a + c, i < j PROVE Before(order, w[i], w[j])
    BY <1>10, <1>11, <1>12, <2>2
  <2> QED
    BY <1>9, <2>1, <2>2 DEF InOrder, Ranks
<1> QED
  BY <1>6, <1>13

(* What an acceptance adds is behind everything else. *)
LEMMA Accepts ==
  ASSUME NEW o \in Seq(Reqs), NEW r \in Reqs, NEW s \in Seq(Reqs), InOrder(o, s),
         NEW longer, longer = Append(o, r), NEW t, t = Append(s, r)
  PROVE  InOrder(longer, t)
<1>1. PICK n \in Nat : n = Len(o)
  BY LenProperties
<1>2. PICK m \in Nat : m = Len(s)
  BY LenProperties
<1>3. /\ Len(longer) = n + 1 /\ longer[n + 1] = r
      /\ \A k \in 1 .. n : longer[k] = o[k]
  BY <1>1, AppendProperties
<1>4. Len(t) = m + 1 /\ t[m + 1] = r /\ \A i \in 1 .. m : t[i] = s[i]
  BY <1>2, AppendProperties
<1>5. Elems(o) \subseteq Elems(longer) /\ r \in Elems(longer)
  <2>1. \A k \in 1 .. n : k \in 1 .. n + 1
    OBVIOUS
  <2>2. n + 1 \in 1 .. n + 1
    OBVIOUS
  <2> QED
    BY <1>1, <1>3, <2>1, <2>2 DEF Elems, Ranks
<1>6. ASSUME NEW i \in 1 .. m + 1 PROVE t[i] \in Elems(longer)
  <2>1. i \in 1 .. m \/ i = m + 1
    OBVIOUS
  <2> QED
    BY <1>2, <1>4, <1>5, <2>1 DEF InOrder, Ranks
<1>7. ASSUME NEW i \in 1 .. m + 1, NEW j \in 1 .. m + 1, i < j
      PROVE  \E k, l \in Ranks(longer) : k < l /\ longer[k] = t[i] /\ longer[l] = t[j]
  <2>1. i \in 1 .. m /\ (j \in 1 .. m \/ j = m + 1)
    BY <1>7
  <2>2. CASE j \in 1 .. m
    <3>1. Before(o, s[i], s[j])
      BY <1>2, <1>7, <2>1, <2>2 DEF InOrder, Ranks
    <3>2. PICK k \in 1 .. n : \E l \in 1 .. n : k < l /\ o[k] = s[i] /\ o[l] = s[j]
      BY <1>1, <3>1 DEF Before, Ranks
    <3>3. PICK l \in 1 .. n : k < l /\ o[k] = s[i] /\ o[l] = s[j]
      BY <3>2
    <3>4. k \in 1 .. n + 1 /\ l \in 1 .. n + 1
      OBVIOUS
    <3> QED
      BY <1>3, <1>4, <2>1, <2>2, <3>3, <3>4 DEF Ranks
  <2>3. CASE j = m + 1
    <3>1. s[i] \in Elems(o)
      BY <1>2, <2>1 DEF InOrder, Ranks
    <3>2. PICK k \in 1 .. n : o[k] = s[i]
      BY <1>1, <3>1 DEF Elems, Ranks
    <3>3. k \in 1 .. n + 1 /\ n + 1 \in 1 .. n + 1 /\ k < n + 1
      OBVIOUS
    <3> QED
      BY <1>3, <1>4, <2>1, <2>3, <3>2, <3>3 DEF Ranks
  <2> QED
    BY <2>1, <2>2, <2>3
<1> QED
  <2>1. Ranks(t) = 1 .. m + 1
    BY <1>4 DEF Ranks
  <2>2. \A i, j \in 1 .. m + 1 : i < j => Before(longer, t[i], t[j])
    BY ONLY <1>7 DEF Before
  <2> QED
    BY ONLY <1>6, <2>1, <2>2 DEF InOrder

(* Concatenation under a name of its own, so that these laws are all that  *)
(* the steps below know of it.                                             *)
Cat(s, t) == s \o t

LEMMA CatLaws ==
  /\ <<>> \in Seq(Reqs)
  /\ \A s \in Seq(Reqs) : Cat(s, <<>>) = s /\ Cat(<<>>, s) = s
  /\ \A s, t \in Seq(Reqs) : Cat(s, t) \in Seq(Reqs)
  /\ \A s, t, u \in Seq(Reqs) : Cat(Cat(s, t), u) = Cat(s, Cat(t, u))
<1> USE DEF Cat
<1>1. <<>> \in Seq(Reqs) /\ \A s \in Seq(Reqs) : Cat(s, <<>>) = s /\ Cat(<<>>, s) = s
  BY ConcatEmptySeq
<1>2. \A s, t \in Seq(Reqs) : Cat(s, t) \in Seq(Reqs)
  BY ConcatProperties
<1>3. \A s, t, u \in Seq(Reqs) : Cat(Cat(s, t), u) = Cat(s, Cat(t, u))
  BY ConcatAssociative
<1> HIDE DEF Cat
<1> QED
  BY <1>1, <1>2, <1>3

LEMMA CatOne ==
  ASSUME NEW x \in Reqs
  PROVE  \E one \in Seq(Reqs) :
           /\ one = <<x>>
           /\ \A s \in Seq(Reqs) : Append(s, x) = Cat(s, one)
           /\ \A s \in Seq(Reqs) : s # <<>> /\ Head(s) = x => s = Cat(one, Tail(s))
<1>1. PICK one : one = <<x>>
  OBVIOUS
<1>2. one \in Seq(Reqs)
  BY <1>1
<1>3. \A s \in Seq(Reqs) : Append(s, x) = Cat(s, one)
  BY <1>1, AppendedAtEnd DEF Cat
<1>4. \A s \in Seq(Reqs) : s # <<>> /\ Head(s) = x => s = Cat(one, Tail(s))
  BY <1>1, HeadThenTail DEF Cat
<1> QED
  BY <1>1, <1>2, <1>3, <1>4

(* The parts of the pipeline put together, and a part of it taken out. *)
Line(t, x, u, q) == Cat(Cat(Cat(t, x), u), q)

LEMMA LineLaws ==
  ASSUME NEW t \in Seq(Reqs), NEW x \in Seq(Reqs), NEW u \in Seq(Reqs), NEW q \in Seq(Reqs)
  PROVE  /\ Line(t, x, u, q) \in Seq(Reqs)
         /\ Line(t, x, u, q) = Cat(Cat(t, x), Cat(u, q))
         /\ InOrder(order, Line(t, x, u, q)) =>
              /\ InOrder(order, Line(t, <<>>, u, q))
              /\ InOrder(order, Line(t, x, <<>>, q))
              /\ InOrder(order, Line(t, x, u, <<>>))
<1>1. /\ <<>> \in Seq(Reqs) /\ Cat(t, x) \in Seq(Reqs) /\ Cat(u, q) \in Seq(Reqs)
      /\ Cat(Cat(t, x), u) \in Seq(Reqs)
  BY CatLaws
<1>2. Line(t, x, u, q) \in Seq(Reqs) /\ Line(t, x, u, q) = Cat(Cat(t, x), Cat(u, q))
  BY <1>1, CatLaws DEF Line
<1>3. \A a, b, c \in Seq(Reqs) : InOrder(order, Cat(Cat(a, b), c)) => InOrder(order, Cat(a, c))
  BY TakenOut DEF Cat
<1>4. ASSUME InOrder(order, Line(t, x, u, q)) PROVE InOrder(order, Line(t, <<>>, u, q))
  <2>1. InOrder(order, Cat(t, Cat(u, q)))
    BY <1>1, <1>2, <1>3, <1>4
  <2>2. Line(t, <<>>, u, q) = Cat(t, Cat(u, q))
    BY CatLaws DEF Line
  <2> QED
    BY <2>1, <2>2
<1>5. ASSUME InOrder(order, Line(t, x, u, q)) PROVE InOrder(order, Line(t, x, <<>>, q))
  <2>1. InOrder(order, Cat(Cat(t, x), q))
    BY <1>1, <1>3, <1>5 DEF Line
  <2>2. Line(t, x, <<>>, q) = Cat(Cat(t, x), q)
    BY <1>1, CatLaws DEF Line
  <2> QED
    BY <2>1, <2>2
<1>6. ASSUME InOrder(order, Line(t, x, u, q)) PROVE InOrder(order, Line(t, x, u, <<>>))
  <2>1. InOrder(order, Cat(Line(t, x, u, q), <<>>))
    BY <1>2, <1>6, CatLaws
  <2> QED
    BY <1>1, <1>3, <2>1 DEF Line
<1> QED
  BY <1>2, <1>4, <1>5, <1>6

(* What is left of a batch of which n rows are inserted. *)
LEMMA LeftOfBatch ==
  ASSUME NEW b \in Seq(Reqs), NEW n \in 0 .. Len(b)
  PROVE  /\ SubSeq(b, n + 1, Len(b)) \in Seq(Reqs)
         /\ n = 0 => SubSeq(b, n + 1, Len(b)) = b
         /\ n = Len(b) => SubSeq(b, n + 1, Len(b)) = <<>>
         /\ n < Len(b) =>
              /\ b[n + 1] \in Reqs
              /\ SubSeq(b, n + 1, Len(b)) = <<b[n + 1]>> \o SubSeq(b, (n + 1) + 1, Len(b))
<1>1. PICK m \in Nat : m = Len(b)
  BY LenProperties
<1>2. n \in 0 .. m /\ n + 1 \in Int /\ m \in Int
  BY <1>1
<1>3. \A i \in n + 1 .. m : b[i] \in Reqs
  <2> SUFFICES ASSUME NEW i \in n + 1 .. m PROVE b[i] \in Reqs
    OBVIOUS
  <2>1. i \in 1 .. m
    BY ONLY <1>2, m \in Nat, i \in n + 1 .. m
  <2> QED
    BY <1>1, <2>1, ElementOfSeq
<1>4. SubSeq(b, n + 1, m) \in Seq(Reqs)
  BY ONLY <1>2, <1>3, SubSeqProperties
<1>5. n = 0 => SubSeq(b, n + 1, m) = b
  BY <1>1, SubSeqFull
<1>6. n = m => SubSeq(b, n + 1, m) = <<>>
  BY <1>2, SubSeqEmpty
<1>7. ASSUME n < m
      PROVE  b[n + 1] \in Reqs /\ SubSeq(b, n + 1, m) = <<b[n + 1]>> \o SubSeq(b, (n + 1) + 1, m)
  <2>1. n + 1 \in 1 .. m /\ m \in n + 1 .. m /\ n + 1 \in n + 1 .. m
    BY ONLY <1>2, <1>7, m \in Nat
  <2>2. n + 1 \in 1 .. Len(b) /\ Len(b) \in n + 1 .. Len(b)
    BY <1>1, <2>1
  <2>3. SubSeq(b, n + 1, Len(b)) = <<b[n + 1]>> \o SubSeq(b, (n + 1) + 1, Len(b))
    BY ONLY <2>2, b \in Seq(Reqs), SubSeqRecursiveFirst
  <2> QED
    BY <1>1, <1>3, <2>1, <2>3
<1> QED
  BY <1>1, <1>4, <1>5, <1>6, <1>7

LEMMA StepWriter == TypeInv /\ WriterOK /\ [Next]_vars => WriterOK'
<1> SUFFICES ASSUME TypeInv, WriterOK, [Next]_vars PROVE WriterOK'
  OBVIOUS
<1> USE DEF TypeInv, TypeOK, ResumeClean, WriterOK, Flushing
<1>1. CASE Start
  BY <1>1 DEF Start, durable, tx
<1>2. CASE RequestStop
  BY <1>2 DEF RequestStop, durable, tx, writer, counts
<1>3. CASE CloseConnection
  BY <1>3 DEF CloseConnection, RollBackAll, durable, writer, counts
<1>4. CASE Crash
  BY <1>4 DEF Crash, durable
<1>5. ASSUME NEW r \in Reqs, SubmitStep(r) PROVE WriterOK'
  <2>1. UNCHANGED <<phase, writer>>
    BY <1>5 DEF SubmitStep, Submit, InsertNonce, CommitNonce, NonceFault, Enqueue, engine
  <2>2. \/ UNCHANGED <<faults, cancels>> /\ (txRows' = txRows \/ txRows' = <<>>)
        \/ faults' = faults + 1 /\ UNCHANGED cancels
    BY <1>5 DEF SubmitStep, Submit, InsertNonce, CommitNonce, NonceFault, Enqueue, CommitAll,
                StatementFails, tx, counts
  <2> QED
    BY <2>1, <2>2 DEF writer
<1>6. CASE WriterStep
  <2>1. CASE WriterGet
    <3>0. Head(queue) \in Reqs
      BY <2>1, RankLemma DEF WriterGet
    <3>1. Append(batch, Head(queue)) # <<>>
      <4>1. batch \in Seq(Reqs)
        OBVIOUS
      <4> QED
        BY ONLY <3>0, <4>1, AppendProperties
    <3>2. wpc' \in {"get", "flush"}
      BY <2>1, <3>1 DEF WriterGet, NextAwait
    <3> QED
      BY <2>1, <3>2 DEF WriterGet, engine, durable, tx, counts
  <2>2. CASE WriterTimeout \/ WriterResume
    <3>1. /\ wpc \in {"get", "resume"} /\ batch' = batch
          /\ wpc' \in {"get", "flush", "ended"}
          /\ wpc' = "ended" => batch' = <<>>
      BY <2>2 DEF WriterTimeout, WriterResume, NextAwait
    <3> QED
      BY <2>2, <3>1 DEF WriterTimeout, WriterResume, engine, durable, tx, counts
  <2>3. CASE WriterCancelled
    BY <2>3 DEF WriterCancelled, engine, durable, tx
  <2>4. CASE FlushRow
    BY <2>4 DEF FlushRow, engine, counts
  <2>5. CASE FlushCommit
    BY <2>5 DEF FlushCommit, CommitAll, Resumed, engine, counts
  <2>6. CASE FlushFault
    BY <2>6 DEF FlushFault, StatementFails, Resumed, engine, durable
  <2> QED
    BY <1>6, <2>1, <2>2, <2>3, <2>4, <2>5, <2>6 DEF WriterStep
<1>7. CASE UNCHANGED vars
  BY <1>7 DEF vars, engine, durable, tx, writer, counts
<1> QED
  BY <1>1, <1>2, <1>3, <1>4, <1>5, <1>6, <1>7 DEF Next

(* Only an acceptance touches the order, of a submission that is not done: *)
(* so not of one that is in it already.                                    *)
LEMMA StepOrder == TypeInv /\ NonceInv /\ OrderOnce /\ [Next]_vars => OrderOnce'
<1> SUFFICES ASSUME TypeInv, NonceInv, OrderOnce, [Next]_vars PROVE OrderOnce'
  OBVIOUS
<1> USE DEF TypeInv, TypeOK
<1>0. \A s \in Reqs : reply[s] = "OK" => reply'[s] = "OK"
  <2>1. UNCHANGED reply \/ \E r \in Reqs : SubmitStep(r)
    BY DEF Next, Start, RequestStop, CloseConnection, Crash, WriterStep, WriterGet,
           WriterTimeout, WriterCancelled, FlushRow, FlushCommit, FlushFault, WriterResume, vars
  <2> QED
    BY <2>1, AcceptedStays
<1>1. CASE UNCHANGED order
  <2>1. \A k \in Ranks(order) : order[k] \in Reqs /\ reply[order[k]] = "OK"
    BY ElementOfSeq DEF OrderOnce, Ranks
  <2> QED
    BY <1>0, <1>1, <2>1 DEF OrderOnce, Ranks
<1>2. ASSUME NEW r \in Reqs, Enqueue(r), order' = Append(order, r) PROVE OrderOnce'
  <2>1. PICK n \in Nat : n = Len(order)
    BY LenProperties
  <2>2. /\ Len(order') = n + 1 /\ order'[n + 1] = r
        /\ \A k \in 1 .. n : order'[k] = order[k]
    BY <1>2, <2>1, AppendProperties
  <2>3. \A k \in 1 .. n : order[k] \in Reqs /\ reply[order[k]] = "OK"
    BY <2>1, ElementOfSeq DEF OrderOnce, Ranks
  <2>4. pc[r] = "enqueue"
    BY <1>2 DEF Enqueue
  <2>5. \A k \in 1 .. n : order[k] # r
    BY <2>3, <2>4 DEF NonceInv, AnsweredIsDone
  <2>6. reply'[r] = "OK"
    <3>1. order' # order
      BY <2>1, <2>2
    <3> QED
      BY <1>2, <3>1 DEF Enqueue, Answer
  <2>7. \A k \in 1 .. n + 1 : k \in 1 .. n \/ k = n + 1
    OBVIOUS
  <2>8. \A k \in 1 .. n + 1 : reply'[order'[k]] = "OK"
    <3> SUFFICES ASSUME NEW k \in 1 .. n + 1 PROVE reply'[order'[k]] = "OK"
      OBVIOUS
    <3>1. CASE k \in 1 .. n
      BY <1>0, <2>2, <2>3, <3>1
    <3>2. CASE k = n + 1
      BY <2>2, <2>6, <3>2
    <3> QED
      BY <2>7, <3>1, <3>2
  <2>9. ASSUME NEW k \in 1 .. n + 1, NEW l \in 1 .. n + 1, order'[k] = order'[l] PROVE k = l
    <3>1. \A i, j \in 1 .. n : order[i] = order[j] => i = j
      BY <2>1 DEF OrderOnce, Ranks
    <3>2. CASE k \in 1 .. n /\ l \in 1 .. n
      BY <2>2, <2>9, <3>1, <3>2
    <3>3. CASE k = n + 1 /\ l \in 1 .. n
      BY <2>2, <2>5, <2>9, <3>3
    <3>4. CASE k \in 1 .. n /\ l = n + 1
      BY <2>2, <2>5, <2>9, <3>4
    <3> QED
      BY <2>7, <3>2, <3>3, <3>4
  <2> QED
    BY <2>2, <2>8, <2>9 DEF OrderOnce, Ranks
<1>3. UNCHANGED order \/ \E r \in Reqs : Enqueue(r) /\ order' = Append(order, r)
  BY DEF Next, Start, RequestStop, CloseConnection, Crash, SubmitStep, Submit, InsertNonce,
         CommitNonce, NonceFault, Enqueue, WriterStep, WriterGet, WriterTimeout, WriterCancelled,
         FlushRow, FlushCommit, FlushFault, WriterResume, vars
<1> QED
  BY <1>1, <1>2, <1>3

(* The three things a step does to the pipeline: it moves an item from one *)
(* part to the next, adds an accepted one at the end, or, when the process *)
(* dies or a statement has failed, takes a part out.                       *)
PipelineMove ==
  \/ UNCHANGED <<Pipeline, order>>
  \/ \E r \in Reqs : Pipeline' = Append(Pipeline, r) /\ order' = Append(order, r)
  \/ /\ UNCHANGED order
     /\ ~(faults' = 0 /\ crashes' = 0)
     /\ \E p \in Seq(Reqs) : InOrder(order, p) /\ Pipeline' = p

LEMMA StepMoves ==
  ASSUME TypeInv, TypeOK', WriterOK, InOrder(order, Pipeline), [Next]_vars
  PROVE  PipelineMove
<1>1. /\ telemetry \in Seq(Reqs) /\ txRows \in Seq(Reqs) /\ batch \in Seq(Reqs)
      /\ queue \in Seq(Reqs) /\ flushed \in 0 .. Len(batch)
  BY DEF TypeInv, TypeOK
<1>2. /\ telemetry' \in Seq(Reqs) /\ txRows' \in Seq(Reqs) /\ batch' \in Seq(Reqs)
      /\ queue' \in Seq(Reqs) /\ flushed' \in 0 .. Len(batch')
  BY DEF TypeOK
<1>3. Unflushed \in Seq(Reqs) /\ Unflushed' \in Seq(Reqs)
  BY <1>1, <1>2, LeftOfBatch DEF Unflushed
<1>4. UNCHANGED <<telemetry, txRows, batch, flushed, queue>> => UNCHANGED Pipeline
  BY DEF Pipeline, Unflushed
<1>5. /\ Pipeline = Line(telemetry, txRows, Unflushed, queue)
      /\ Pipeline' = Line(telemetry', txRows', Unflushed', queue')
  BY DEF Pipeline, Line, Cat
<1>6. UNCHANGED <<telemetry, txRows, batch, flushed, queue, order>> => PipelineMove
  BY DEF PipelineMove, Pipeline, Unflushed
<1>7. UNCHANGED <<batch, flushed, queue, order>> /\ CommitAll => PipelineMove
  <2> SUFFICES ASSUME UNCHANGED <<batch, flushed, queue, order>>, CommitAll PROVE PipelineMove
    OBVIOUS
  <2>1. telemetry' = Cat(telemetry, txRows) /\ txRows' = <<>>
    BY DEF CommitAll, Cat
  <2>2. Cat(telemetry', txRows') = Cat(telemetry, txRows)
    BY <1>1, <2>1, CatLaws
  <2>3. Unflushed' = Unflushed /\ queue' = queue
    BY DEF Unflushed
  <2> QED
    BY <1>5, <2>2, <2>3 DEF PipelineMove, Line
(* The open transaction is rolled back. *)
<1>8. ASSUME UNCHANGED <<telemetry, batch, flushed, queue, order>>, txRows' = <<>>,
             ~(faults' = 0 /\ crashes' = 0)
      PROVE  PipelineMove
  <2>1. Unflushed' = Unflushed
    BY <1>8 DEF Unflushed
  <2>2. Pipeline' = Line(telemetry, <<>>, Unflushed, queue)
    BY <1>5, <1>8, <2>1
  <2>3. InOrder(order, Line(telemetry, <<>>, Unflushed, queue))
    BY <1>1, <1>3, <1>5, LineLaws
  <2>4. Line(telemetry, <<>>, Unflushed, queue) \in Seq(Reqs)
    BY <1>1, <1>3, LineLaws, CatLaws
  <2> QED
    BY <1>8, <2>2, <2>3, <2>4 DEF PipelineMove
<1>9. CASE Start
  <2>1. batch = <<>> /\ flushed = 0
    BY <1>9 DEF Start, WriterOK, Flushing, TypeInv, TypeOK
  <2> QED
    BY <1>6, <1>9, <2>1 DEF Start, durable, tx
<1>10. CASE RequestStop
  BY <1>6, <1>10 DEF RequestStop, durable, tx, writer
<1>11. CASE CloseConnection
  <2>1. UNCHANGED <<telemetry, batch, flushed, queue, order, faults, crashes>> /\ txRows' = <<>>
    BY <1>11 DEF CloseConnection, RollBackAll, durable, writer, counts
  <2>2. faults = 0 => txRows = <<>>
    BY <1>11 DEF CloseConnection, WriterOK, Flushing
  <2> QED
    BY <1>6, <1>8, <2>1, <2>2
<1>12. CASE Crash
  <2>1. /\ telemetry' = telemetry /\ txRows' = <<>> /\ queue' = <<>> /\ UNCHANGED order
        /\ batch' = <<>> /\ flushed' = 0 /\ crashes' = crashes + 1 /\ crashes \in Nat
    BY <1>12 DEF Crash, durable, TypeInv, TypeOK
  <2>2. Unflushed' = <<>>
    BY <1>2, <2>1, LeftOfBatch DEF Unflushed
  <2>3. /\ InOrder(order, Line(telemetry, <<>>, <<>>, <<>>))
        /\ Line(telemetry, <<>>, <<>>, <<>>) \in Seq(Reqs)
    BY <1>1, <1>3, <1>5, LineLaws, CatLaws
  <2>4. Pipeline' = Line(telemetry, <<>>, <<>>, <<>>)
    BY <1>5, <2>1, <2>2
  <2>5. ~(faults' = 0 /\ crashes' = 0)
    BY <2>1
  <2> QED
    BY <2>1, <2>3, <2>4, <2>5 DEF PipelineMove
<1>13. ASSUME NEW r \in Reqs, SubmitStep(r) PROVE PipelineMove
  <2>1. CASE Submit(r) \/ InsertNonce(r)
    BY <1>6, <2>1 DEF Submit, InsertNonce, durable, tx, writer
  <2>2. CASE CommitNonce(r)
    BY <1>6, <1>7, <2>2 DEF CommitNonce, durable, tx, writer
  <2>3. CASE NonceFault(r)
    <3>1. /\ UNCHANGED <<telemetry, batch, flushed, queue, order>>
          /\ txRows' = txRows \/ txRows' = <<>>
          /\ faults' = faults + 1 /\ faults \in Nat
      BY <2>3 DEF NonceFault, StatementFails, RollBackAll, tx, durable, writer, TypeInv, TypeOK
    <3>2. ~(faults' = 0 /\ crashes' = 0)
      BY <3>1
    <3> QED
      BY <1>6, <1>8, <3>1, <3>2
  <2>4. CASE Enqueue(r)
    <3>1. UNCHANGED <<telemetry, txRows, batch, flushed>>
      BY <2>4 DEF Enqueue, durable, tx, writer
    <3>2. CASE UNCHANGED <<queue, order>>
      BY <1>6, <3>1, <3>2
    <3>3. CASE queue' = Append(queue, r) /\ order' = Append(order, r)
      <4>1. PICK line : line = Cat(Cat(telemetry, txRows), Unflushed)
        OBVIOUS
      <4>2. line \in Seq(Reqs)
        BY <1>1, <1>3, <4>1, CatLaws
      <4>3. Unflushed' = Unflushed
        BY <3>1 DEF Unflushed
      <4>4. Pipeline = Cat(line, queue) /\ Pipeline' = Cat(line, Append(queue, r))
        BY <1>5, <3>1, <3>3, <4>1, <4>3 DEF Line
      <4>5. PICK last \in Seq(Reqs) : \A s \in Seq(Reqs) : Append(s, r) = Cat(s, last)
        BY CatOne
      <4>6. Append(queue, r) = Cat(queue, last)
        BY <1>1, <4>5
      <4>7. Cat(line, Cat(queue, last)) = Cat(Cat(line, queue), last)
        BY ONLY <1>1, <4>2, last \in Seq(Reqs), CatLaws
      <4>8. Append(Pipeline, r) = Cat(Pipeline, last)
        <5>1. Pipeline \in Seq(Reqs)
          BY <1>1, <4>2, <4>4, CatLaws
        <5> QED
          BY <4>5, <5>1
      <4> QED
        BY <3>3, <4>4, <4>6, <4>7, <4>8 DEF PipelineMove
    <3> QED
      BY <2>4, <3>2, <3>3 DEF Enqueue
  <2> QED
    BY <1>13, <2>1, <2>2, <2>3, <2>4 DEF SubmitStep
<1>14. CASE WriterStep
  <2>1. CASE WriterGet
    <3>1. /\ queue # <<>> /\ queue' = Tail(queue) /\ batch' = Append(batch, Head(queue))
          /\ UNCHANGED <<telemetry, txRows, flushed, order>> /\ flushed = 0
      BY <2>1 DEF WriterGet, NextAwait, WriterOK, Flushing, durable, tx
    <3>2. Unflushed = batch /\ Unflushed' = batch'
      BY <1>1, <1>2, <3>1, LeftOfBatch DEF Unflushed
    <3>3. PICK x \in Reqs : x = Head(queue)
      BY <1>1, <3>1, RankLemma
    <3>4. PICK rest \in Seq(Reqs) : rest = Tail(queue)
      BY <1>1, <3>1, RankLemma
    <3>5. PICK one \in Seq(Reqs) : queue = Cat(one, rest) /\ batch' = Cat(batch, one)
      <4>1. PICK one \in Seq(Reqs) :
              /\ \A s \in Seq(Reqs) : Append(s, x) = Cat(s, one)
              /\ \A s \in Seq(Reqs) : s # <<>> /\ Head(s) = x => s = Cat(one, Tail(s))
        BY CatOne
      <4> QED
        BY <1>1, <3>1, <3>3, <3>4, <4>1
    <3>6. PICK stored : stored = Cat(telemetry, txRows)
      OBVIOUS
    <3>7. stored \in Seq(Reqs) /\ Cat(stored, batch) \in Seq(Reqs)
      BY <1>1, <3>6, CatLaws
    <3>8. Pipeline = Cat(Cat(stored, batch), Cat(one, rest))
      BY <1>5, <3>2, <3>5, <3>6 DEF Line
    <3>9. Pipeline' = Cat(Cat(stored, Cat(batch, one)), rest)
      BY <1>5, <3>1, <3>2, <3>4, <3>5, <3>6 DEF Line
    <3>10. /\ Cat(Cat(stored, batch), Cat(one, rest)) = Cat(Cat(Cat(stored, batch), one), rest)
           /\ Cat(Cat(stored, batch), one) = Cat(stored, Cat(batch, one))
      BY ONLY <1>1, <3>7, one \in Seq(Reqs), rest \in Seq(Reqs), CatLaws
    <3> QED
      BY <3>1, <3>8, <3>9, <3>10 DEF PipelineMove
  <2>2. CASE WriterTimeout \/ WriterCancelled \/ WriterResume
    <3>1. batch' = batch
      BY <2>2 DEF WriterTimeout, WriterCancelled, WriterResume, NextAwait, TypeInv, ResumeClean
    <3> QED
      BY <1>6, <2>2, <3>1 DEF WriterTimeout, WriterCancelled, WriterResume, durable, tx
  <2>3. CASE FlushRow
    <3>1. /\ flushed < Len(batch) /\ flushed' = flushed + 1
          /\ UNCHANGED <<batch, queue, order>>
      BY <2>3 DEF FlushRow
    <3>2. PICK x : x = batch[flushed + 1]
      OBVIOUS
    <3>3. x \in Reqs /\ Unflushed = <<x>> \o Unflushed'
      BY <1>1, <3>1, <3>2, LeftOfBatch DEF Unflushed
    <3>4. PICK one \in Seq(Reqs) : one = <<x>> /\ \A s \in Seq(Reqs) : Append(s, x) = Cat(s, one)
      BY <3>3, CatOne
    <3>5. Unflushed = Cat(one, Unflushed')
      BY <3>3, <3>4 DEF Cat
    <3>6. Cat(telemetry', txRows') = Cat(Cat(telemetry, txRows), one)
      <4>0. Append(txRows, x) = Cat(txRows, one) /\ Append(telemetry, x) = Cat(telemetry, one)
        BY <1>1, <3>4
      <4>1. CASE txRows' = Append(txRows, x) /\ UNCHANGED telemetry
        <5>1. txRows' = Cat(txRows, one) /\ telemetry' = telemetry
          BY <4>0, <4>1
        <5>2. Cat(telemetry, Cat(txRows, one)) = Cat(Cat(telemetry, txRows), one)
          BY ONLY <1>1, one \in Seq(Reqs), CatLaws
        <5> QED
          BY <5>1, <5>2
      <4>2. CASE txRows = <<>> /\ UNCHANGED txRows /\ telemetry' = Append(telemetry, x)
        <5>1. telemetry' = Cat(telemetry, one) /\ txRows' = <<>> /\ txRows = <<>>
          BY <4>0, <4>2
        <5>2. Cat(telemetry', <<>>) = telemetry' /\ Cat(telemetry, <<>>) = telemetry
          BY <1>1, <1>2, CatLaws
        <5> QED
          BY <5>1, <5>2
      <4> QED
        BY <2>3, <3>2, <4>1, <4>2 DEF FlushRow
    <3>7. PICK stored : stored = Cat(telemetry, txRows)
      OBVIOUS
    <3>8. stored \in Seq(Reqs)
      BY <1>1, <3>7, CatLaws
    <3>9. Pipeline = Cat(Cat(stored, Cat(one, Unflushed')), queue)
      BY <1>5, <3>5, <3>7 DEF Line
    <3>10. Pipeline' = Cat(Cat(Cat(stored, one), Unflushed'), queue)
      BY <1>5, <3>1, <3>6, <3>7 DEF Line
    <3>11. Cat(Cat(stored, one), Unflushed') = Cat(stored, Cat(one, Unflushed'))
      BY ONLY <1>3, <3>8, one \in Seq(Reqs), CatLaws
    <3> QED
      BY <3>1, <3>9, <3>10, <3>11 DEF PipelineMove
  <2>4. CASE FlushCommit
    <3>1. /\ flushed = Len(batch) /\ batch' = <<>> /\ flushed' = 0
          /\ telemetry' = Cat(telemetry, txRows) /\ txRows' = <<>>
          /\ UNCHANGED <<queue, order>>
      BY <2>4 DEF FlushCommit, CommitAll, Cat
    <3>2. Unflushed = <<>> /\ Unflushed' = <<>>
      BY <1>1, <1>2, <3>1, LeftOfBatch DEF Unflushed
    <3>3. Cat(telemetry', txRows') = Cat(telemetry, txRows)
      BY <1>1, <3>1, CatLaws
    <3> QED
      BY <1>5, <3>1, <3>2, <3>3 DEF PipelineMove, Line
  <2>5. CASE FlushFault
    <3>1. /\ UNCHANGED <<telemetry, queue, order>> /\ batch' = <<>> /\ flushed' = 0
          /\ txRows' = txRows \/ txRows' = <<>>
          /\ faults' = faults + 1 /\ faults \in Nat
      BY <2>5 DEF FlushFault, StatementFails, RollBackAll, tx, durable, TypeInv, TypeOK
    <3>2. Unflushed' = <<>>
      BY <1>2, <3>1, LeftOfBatch DEF Unflushed
    <3>3. /\ InOrder(order, Line(telemetry, txRows, <<>>, queue))
          /\ InOrder(order, Line(telemetry, <<>>, <<>>, queue))
      BY <1>1, <1>3, <1>5, LineLaws, CatLaws
    <3>4. Pipeline' \in {Line(telemetry, txRows, <<>>, queue), Line(telemetry, <<>>, <<>>, queue)}
      BY <1>5, <3>1, <3>2
    <3>5. /\ Line(telemetry, txRows, <<>>, queue) \in Seq(Reqs)
          /\ Line(telemetry, <<>>, <<>>, queue) \in Seq(Reqs)
      BY <1>1, LineLaws, CatLaws
    <3>6. ~(faults' = 0 /\ crashes' = 0)
      BY <3>1
    <3> QED
      BY <3>1, <3>3, <3>4, <3>5, <3>6 DEF PipelineMove
  <2> QED
    BY <1>14, <2>1, <2>2, <2>3, <2>4, <2>5 DEF WriterStep
<1>15. CASE UNCHANGED vars
  BY <1>6, <1>15 DEF vars, durable, tx, writer
<1> QED
  BY <1>9, <1>10, <1>11, <1>12, <1>13, <1>14, <1>15 DEF Next

LEMMA InitPipe == Init => PipeInv
<1> SUFFICES ASSUME Init PROVE PipeInv
  OBVIOUS
<1>1. WriterOK /\ OrderOnce
  BY DEF Init, WriterOK, OrderOnce, Flushing, Ranks
<1>2. telemetry = <<>> /\ txRows = <<>> /\ queue = <<>> /\ order = <<>> /\ Unflushed = <<>>
  <2>1. batch = <<>> /\ flushed = 0 /\ batch \in Seq(Reqs) /\ 0 \in 0 .. Len(batch)
    BY DEF Init
  <2>2. Unflushed = batch
    BY <2>1, LeftOfBatch DEF Unflushed
  <2> QED
    BY <2>1, <2>2 DEF Init
<1>3. Pipeline = <<>>
  <2>1. Pipeline = Cat(Cat(Cat(<<>>, <<>>), <<>>), <<>>)
    BY <1>2 DEF Pipeline, Cat
  <2> QED
    BY <2>1, CatLaws
<1>4. InOrder(order, Pipeline) /\ NothingLostWithoutFailure
  BY <1>2, <1>3 DEF InOrder, Ranks, NothingLostWithoutFailure
<1> QED
  BY <1>1, <1>4 DEF PipeInv

LEMMA StepPipe == TypeInv /\ NonceInv /\ PipeInv /\ [Next]_vars => PipeInv'
<1> SUFFICES ASSUME TypeInv, NonceInv, PipeInv, [Next]_vars PROVE PipeInv'
  OBVIOUS
<1>1. TypeOK' /\ WriterOK' /\ OrderOnce'
  BY StepType, StepWriter, StepOrder DEF PipeInv, TypeInv
<1>2. PipelineMove
  BY <1>1, StepMoves DEF PipeInv
<1>3. order \in Seq(Reqs) /\ Pipeline \in Seq(Reqs)
  <2>1. /\ telemetry \in Seq(Reqs) /\ txRows \in Seq(Reqs) /\ batch \in Seq(Reqs)
        /\ queue \in Seq(Reqs) /\ flushed \in 0 .. Len(batch) /\ order \in Seq(Reqs)
    BY DEF TypeInv, TypeOK
  <2>2. Unflushed \in Seq(Reqs)
    BY <2>1, LeftOfBatch DEF Unflushed
  <2>3. Pipeline = Line(telemetry, txRows, Unflushed, queue)
    BY DEF Pipeline, Line, Cat
  <2> QED
    BY <2>1, <2>2, <2>3, LineLaws
<1>4. faults' = 0 /\ crashes' = 0 => faults = 0 /\ crashes = 0
  BY DEF TypeInv, TypeOK, Next, Start, RequestStop, CloseConnection, Crash, SubmitStep, Submit,
         InsertNonce, CommitNonce, NonceFault, Enqueue, StatementFails, WriterStep, WriterGet,
         WriterTimeout, WriterCancelled, FlushRow, FlushCommit, FlushFault, WriterResume, counts,
         vars
<1>5. CASE UNCHANGED <<Pipeline, order>>
  <2>1. InOrder(order', Pipeline')
    BY <1>5 DEF PipeInv
  <2>2. NothingLostWithoutFailure'
    BY <1>4, <1>5 DEF PipeInv, NothingLostWithoutFailure
  <2> QED
    BY <1>1, <2>1, <2>2 DEF PipeInv
<1>6. ASSUME NEW r \in Reqs, Pipeline' = Append(Pipeline, r), order' = Append(order, r)
      PROVE  PipeInv'
  <2>1. InOrder(order', Pipeline')
    BY <1>3, <1>6, Accepts DEF PipeInv
  <2>2. NothingLostWithoutFailure'
    BY <1>4, <1>6 DEF PipeInv, NothingLostWithoutFailure
  <2> QED
    BY <1>1, <2>1, <2>2 DEF PipeInv
<1>7. ASSUME NEW p \in Seq(Reqs), InOrder(order, p), Pipeline' = p, UNCHANGED order,
             ~(faults' = 0 /\ crashes' = 0)
      PROVE  PipeInv'
  <2>1. InOrder(order', Pipeline')
    BY <1>7
  <2>2. NothingLostWithoutFailure'
    BY <1>7 DEF NothingLostWithoutFailure
  <2> QED
    BY <1>1, <2>1, <2>2 DEF PipeInv
<1> QED
  BY <1>2, <1>5, <1>6, <1>7 DEF PipelineMove

(* The rows of the table, of the open transaction, of the batch and of the *)
(* queue are accepted submissions in the order of their acceptance.        *)
THEOREM PipelineKeepsOrder == Spec => []HeldOnceInOrder
<1>1. PipeInv => HeldOnceInOrder
  BY DEF PipeInv, InOrder, Before, HeldOnceInOrder
<1> QED
  BY InitType, StepType, TypeInvType, InitNonce, StepNonce, InitPipe, StepPipe, <1>1, PTL DEF Spec

(* While no statement fails and the process lives, the pipeline holds all  *)
(* that was ever accepted, through stops, restarts and cancellations.      *)
THEOREM NoLossWithoutFailure == Spec => []NothingLostWithoutFailure
<1>1. PipeInv => NothingLostWithoutFailure
  BY DEF PipeInv
<1> QED
  BY InitType, StepType, TypeInvType, InitNonce, StepNonce, InitPipe, StepPipe, <1>1, PTL DEF Spec

(* A writer task that is not cancelled ends with everything committed.     *)
THEOREM WriterDrains == Spec => DrainedAtExit
<1>1. TypeInv /\ NonceInv /\ PipeInv /\ [Next]_vars =>
        [wpc # "ended" /\ wpc' = "ended" /\ cancels' = 0 /\ faults' = 0 /\ crashes' = 0
           => telemetry' = order']_vars
  <2> SUFFICES ASSUME TypeInv, NonceInv, PipeInv, Next, wpc # "ended", wpc' = "ended",
                      cancels' = 0, faults' = 0, crashes' = 0
               PROVE  telemetry' = order'
    BY DEF vars, writer
  <2>1. TypeOK' /\ PipeInv'
    BY StepType, StepPipe DEF TypeInv
  <2>2. batch' = <<>> /\ flushed' = 0 /\ txRows' = <<>>
    BY <2>1 DEF PipeInv, WriterOK, Flushing
  <2>3. queue' = <<>>
    <3>1. WriterTimeout \/ WriterResume \/ WriterGet
      <4>1. cancels = 0 /\ faults = 0
        BY <2>1 DEF TypeInv, TypeOK, Next, Start, RequestStop, CloseConnection, Crash,
              SubmitStep, Submit, InsertNonce, CommitNonce, NonceFault, Enqueue, StatementFails,
              WriterStep, WriterGet, WriterTimeout, WriterCancelled, FlushRow, FlushCommit,
              FlushFault, WriterResume, counts
      <4>2. ~WriterCancelled /\ ~FlushFault
        BY <4>1 DEF WriterCancelled, FlushFault, StatementFails
      <4>3. ~FlushCommit /\ ~FlushRow
        BY <4>1 DEF FlushCommit, FlushRow, Flushing, Resumed, PipeInv, WriterOK
      <4>4. WriterStep
        BY DEF Next, Start, RequestStop, CloseConnection, Crash, SubmitStep, Submit, InsertNonce,
               CommitNonce, NonceFault, Enqueue, writer
      <4> QED
        BY <4>2, <4>3, <4>4 DEF WriterStep
    <3> QED
      <4>1. CASE WriterTimeout \/ WriterResume
        BY <4>1 DEF WriterTimeout, WriterResume, NextAwait
      <4>2. CASE WriterGet
        BY <4>2 DEF WriterGet, NextAwait
      <4> QED
        BY <3>1, <4>1, <4>2
  <2>4. telemetry' \in Seq(Reqs) /\ batch' \in Seq(Reqs) /\ flushed' \in 0 .. Len(batch')
    BY <2>1 DEF TypeOK
  <2>5. Unflushed' = <<>>
    BY <2>2, <2>4, LeftOfBatch DEF Unflushed
  <2>6. Pipeline' = Cat(Cat(Cat(telemetry', <<>>), <<>>), <<>>)
    BY <2>2, <2>3, <2>5 DEF Pipeline, Cat
  <2>7. Pipeline' = telemetry'
    BY <2>4, <2>6, CatLaws
  <2> QED
    BY <2>1, <2>7 DEF PipeInv, NothingLostWithoutFailure
<1> QED
  BY InitType, StepType, TypeInvType, InitNonce, StepNonce, InitPipe, StepPipe, <1>1,
     PTL DEF Spec, DrainedAtExit

-----------------------------------------------------------------------------
(* The contract of the clients, when the engine is not started again under *)
(* a submission in flight and a failing statement leaves the transaction   *)
(* as it was: nobody then loses the nonce row on which it is accepted.     *)
UnderminedOut ==
  \A r \in undermined : \/ pc[r] = "commit" /\ conn = "none"
                        \/ pc[r] = "done" /\ reply[r] # "OK"

QuietInv ==
  /\ ~HotRestart /\ ~AutoRollback
  /\ \A r \in Reqs : pc[r] # "done" => reply[r] = "none"
  /\ UnderminedOut

LEMMA StepQuiet == TypeInv /\ NonceInv /\ QuietInv /\ [Next]_vars => QuietInv'
<1> SUFFICES ASSUME TypeInv, NonceInv, QuietInv, [Next]_vars PROVE QuietInv'
  OBVIOUS
<1> USE DEF TypeInv, TypeOK, QuietInv, UnderminedOut
<1>1. CASE Start
  BY <1>1 DEF Start, durable, tx, InFlight
<1>2. CASE RequestStop
  BY <1>2 DEF RequestStop, durable, tx, writer, counts
<1>3. CASE CloseConnection
  BY <1>3 DEF CloseConnection, RollBackAll, durable, writer, counts
<1>4. CASE Crash
  <2>1. \A r \in Reqs : pc[r] = "commit" => reply[r] # "OK"
    BY DEF NonceInv, AnsweredIsDone
  <2> QED
    BY <1>4, <2>1 DEF Crash, durable, InFlight
<1>5. ASSUME NEW r \in Reqs, SubmitStep(r) PROVE QuietInv'
  <2>1. UNCHANGED <<conn, undermined>>
    BY <1>5 DEF SubmitStep, Submit, InsertNonce, CommitNonce, NonceFault, StatementFails, Enqueue,
                engine
  <2>2. pc[r] # "done" /\ (pc[r] = "commit" /\ conn = "none" => CommitNonce(r))
    BY <1>5 DEF SubmitStep, Submit, InsertNonce, CommitNonce, NonceFault, Enqueue, IsOpen
  <2>3. CASE \E reason \in Reasons : Answer(r, reason)
    <3>1. PICK reason \in Reasons : Answer(r, reason)
      BY <2>3
    <3>2. r \in undermined => reply'[r] # "OK"
      <4>1. r \in undermined => CommitNonce(r) /\ conn = "none"
        BY <2>2
      <4>2. r \in undermined => Answer(r, "INTERNAL_DATABASE_FAULT")
        BY <4>1 DEF CommitNonce, IsOpen
      <4> QED
        BY <4>2 DEF Answer
    <3> QED
      BY <2>1, <3>1, <3>2 DEF Answer
  <2>4. CASE /\ UNCHANGED reply
             /\ \E at \in {"insert", "commit", "enqueue"} : pc' = [pc EXCEPT ![r] = at]
    <3>1. r \notin undermined
      <4>1. r \in undermined => CommitNonce(r) /\ conn = "none"
        BY <2>2
      <4>2. r \in undermined => Answer(r, "INTERNAL_DATABASE_FAULT")
        BY <4>1 DEF CommitNonce, IsOpen
      <4> QED
        BY <2>4, <4>2 DEF Answer
    <3> QED
      BY <2>1, <2>2, <2>4, <3>1
  <2> QED
    BY <1>5, <2>3, <2>4 DEF SubmitStep, Submit, InsertNonce, CommitNonce, NonceFault, Enqueue,
                            Reasons, GateReasons
<1>6. CASE WriterStep
  <2>1. UNCHANGED <<conn, undermined, pc, reply>>
    BY <1>6 DEF WriterStep, WriterGet, WriterTimeout, WriterCancelled, FlushRow, FlushCommit,
                FlushFault, StatementFails, WriterResume, engine
  <2> QED
    BY <2>1
<1>7. CASE UNCHANGED vars
  BY <1>7 DEF vars, engine, durable, tx, writer, counts
<1> QED
  BY <1>1, <1>2, <1>3, <1>4, <1>5, <1>6, <1>7 DEF Next

(* A submission has one row at most. *)
TableDistinct ==
  \A i, j \in Ranks(telemetry) : telemetry[i] = telemetry[j] => i = j

LEMMA TableIsDistinct == TypeInv /\ PipeInv => TableDistinct
<1> SUFFICES ASSUME TypeInv, PipeInv PROVE TableDistinct
  OBVIOUS
<1>1. /\ telemetry \in Seq(Reqs) /\ txRows \in Seq(Reqs) /\ batch \in Seq(Reqs)
      /\ queue \in Seq(Reqs) /\ flushed \in 0 .. Len(batch) /\ Len(telemetry) \in Nat
  BY DEF TypeInv, TypeOK
<1>2. Unflushed \in Seq(Reqs)
  BY <1>1, LeftOfBatch DEF Unflushed
<1>3. InOrder(order, Line(telemetry, txRows, Unflushed, queue))
  BY DEF PipeInv, Pipeline, Line, Cat
<1>4. InOrder(order, telemetry)
  <2>1. InOrder(order, Line(telemetry, <<>>, <<>>, <<>>))
    BY <1>1, <1>2, <1>3, LineLaws, CatLaws
  <2>2. Line(telemetry, <<>>, <<>>, <<>>) = telemetry
    BY <1>1, CatLaws DEF Line
  <2> QED
    BY <2>1, <2>2
<1>5. order \in Seq(Reqs) /\ Ranks(order) \subseteq Nat
  BY DEF TypeInv, TypeOK, Ranks
<1>6. ASSUME NEW i \in Ranks(telemetry), NEW j \in Ranks(telemetry), i < j
      PROVE  telemetry[i] # telemetry[j]
  <2>1. Before(order, telemetry[i], telemetry[j])
    BY <1>4, <1>6 DEF InOrder
  <2>2. PICK k \in Ranks(order) : \E l \in Ranks(order) :
          k < l /\ order[k] = telemetry[i] /\ order[l] = telemetry[j]
    BY <2>1 DEF Before
  <2>3. PICK l \in Ranks(order) : k < l /\ order[k] = telemetry[i] /\ order[l] = telemetry[j]
    BY <2>2
  <2>4. k # l
    BY <1>5, <2>3
  <2> QED
    BY <2>3, <2>4 DEF PipeInv, OrderOnce
<1>7. \A i, j \in Ranks(telemetry) : i < j \/ j < i \/ i = j
  BY <1>1 DEF Ranks
<1> QED
  BY <1>6, <1>7 DEF TableDistinct

LEMMA TableIsDistinctNext == TypeInv' /\ PipeInv' => TableDistinct'
BY TableIsDistinct, PTL

(* What a commit of rows adds to the table is accepted and new in it. *)
LEMMA CommitImplements ==
  ASSUME TypeInv, TypeInv', HeldInv', PipeInv', NEW x \in Seq(Reqs),
         telemetry' = Cat(telemetry, x), vault \subseteq vault', UNCHANGED reply
  PROVE  Contract!Commit
<1>1. telemetry \in Seq(Reqs) /\ telemetry' \in Seq(Reqs)
  BY DEF TypeInv, TypeOK
<1>2. PICK n \in Nat : n = Len(telemetry)
  BY <1>1, LenProperties
<1>3. PICK m \in Nat : m = Len(x)
  BY LenProperties
<1>4. Len(telemetry') = n + m /\ \A i \in 1 .. n : telemetry'[i] = telemetry[i]
  <2>1. telemetry' = telemetry \o x
    BY DEF Cat
  <2>2. /\ Len(telemetry') = Len(telemetry) + Len(x)
        /\ \A i \in 1 .. Len(telemetry) + Len(x) :
             telemetry'[i] = IF i <= Len(telemetry) THEN telemetry[i] ELSE x[i - Len(telemetry)]
    BY ONLY <1>1, <2>1, x \in Seq(Reqs), ConcatProperties
  <2>3. \A i \in 1 .. n + m : telemetry'[i] = IF i <= n THEN telemetry[i] ELSE x[i - n]
    BY ONLY <1>2, <1>3, <2>2
  <2>4. \A i \in 1 .. n : i \in 1 .. n + m /\ i <= n
    OBVIOUS
  <2>5. \A i \in 1 .. n : telemetry'[i] = telemetry[i]
    BY ONLY <2>3, <2>4
  <2> QED
    BY ONLY <1>2, <1>3, <2>2, <2>5
<1>5. telemetry = SubSeq(telemetry', 1, n)
  <2>1. n \in 0 .. Len(telemetry') /\ \A i \in 1 .. n : telemetry'[i] \in Reqs
    <3>1. n \in 0 .. n + m /\ \A i \in 1 .. n : i \in 1 .. n + m
      OBVIOUS
    <3> QED
      BY <1>1, <1>4, <3>1, ElementOfSeq
  <2>2. PICK t : t = SubSeq(telemetry', 1, n)
    OBVIOUS
  <2>3. t \in Seq(Reqs) /\ Len(t) = n /\ \A i \in 1 .. n : t[i] = telemetry'[i]
    <3>1. /\ SubSeq(telemetry', 1, n) \in Seq(Reqs)
          /\ Len(SubSeq(telemetry', 1, n)) = IF 1 <= n THEN n - 1 + 1 ELSE 0
          /\ \A i \in 1 .. n - 1 + 1 : SubSeq(telemetry', 1, n)[i] = telemetry'[1 + i - 1]
      BY ONLY <2>1, n \in Nat, SubSeqProperties
    <3>2. n - 1 + 1 = n /\ (IF 1 <= n THEN n - 1 + 1 ELSE 0) = n /\ \A i \in 1 .. n : 1 + i - 1 = i
      BY ONLY n \in Nat
    <3> QED
      BY <2>2, <3>1, <3>2
  <2> QED
    BY ONLY <1>1, <1>2, <1>4, <2>2, <2>3, SeqEqual
<1>6. \A i \in n + 1 .. n + m : i \in 1 .. n + m
  OBVIOUS
<1>7. \A i \in 1 .. n + m : telemetry'[i] \in Reqs /\ reply'[telemetry'[i]] = "OK"
  BY <1>1, <1>4, ElementOfSeq DEF HeldInv, AllAccepted
<1>8. \A i, j \in 1 .. n + m : telemetry'[i] = telemetry'[j] => i = j
  <2>1. TableDistinct'
    BY TableIsDistinctNext
  <2> QED
    BY <1>4, <2>1 DEF TableDistinct, Ranks
<1>9. ASSUME NEW i \in n + 1 .. n + m, NEW k \in 1 .. n PROVE telemetry'[i] # telemetry[k]
  <2>1. k \in 1 .. n + m /\ i \in 1 .. n + m /\ i # k
    OBVIOUS
  <2> QED
    BY <1>4, <1>8, <2>1
<1>10. Contract!Fresh = n + 1 .. n + m /\ Contract!Stored = {telemetry[i] : i \in 1 .. n}
  BY <1>2, <1>4 DEF Contract!Fresh, Contract!Stored
<1>11. \A i \in n + 1 .. n + m : telemetry'[i] \in Contract!Accepted
  BY <1>6, <1>7 DEF Contract!Accepted
<1>12. n <= n + m
  OBVIOUS
<1> QED
  BY <1>2, <1>4, <1>5, <1>6, <1>8, <1>9, <1>10, <1>11, <1>12 DEF Contract!Commit

(* An answer is an acceptance or a rejection of the contract. *)
LEMMA AnswerImplements ==
  ASSUME TypeInv, NonceInv, QuietInv, NEW r \in Reqs, pc[r] # "done",
         NEW reason \in Reasons, Answer(r, reason), UNCHANGED durable,
         reason = "OK" => pc[r] = "enqueue"
  PROVE  Contract!Accept(r) \/ Contract!Reject(r)
<1> DEFINE answer == [q \in Reqs |-> IF reply[q] = "none" THEN "none"
                                     ELSE IF reply[q] = "OK" THEN "accepted" ELSE "rejected"]
           given == IF reason = "OK" THEN "accepted" ELSE "rejected"
<1>1. reply' = [reply EXCEPT ![r] = reason] /\ reply \in [Reqs -> Reasons \cup {"none"}]
  BY DEF Answer, TypeInv, TypeOK
<1>2. reply[r] = "none" /\ reason # "none"
  BY DEF QuietInv, Reasons, GateReasons
<1>3. answer' = [answer EXCEPT ![r] = given]
  BY <1>1, <1>2
<1>4. answer[r] = "none"
  BY <1>2
<1>5. UNCHANGED <<vault, telemetry>>
  BY DEF durable
<1>6. CASE reason = "OK"
  <2>1. pc[r] = "enqueue" /\ r \notin undermined
    BY <1>6 DEF QuietInv, UnderminedOut
  <2>2. KeyOf[r] \in vault
    BY <2>1 DEF NonceInv, PassedRecorded
  <2>3. \A s \in Contract!Accepted : KeyOf[s] # KeyOf[r]
    <3> SUFFICES ASSUME NEW s \in Reqs, reply[s] = "OK" PROVE KeyOf[s] # KeyOf[r]
      BY DEF Contract!Accepted
    <3>1. s \notin undermined /\ s # r
      BY <1>2 DEF QuietInv, UnderminedOut, NonceInv, AnsweredIsDone
    <3>2. Passed(r) /\ Passed(s)
      BY <2>1 DEF Passed
    <3> QED
      BY <2>1, <3>1, <3>2 DEF NonceInv, OneHolder
  <2> QED
    BY <1>3, <1>4, <1>5, <1>6, <2>2, <2>3 DEF Contract!Accept
<1>7. CASE reason # "OK"
  BY <1>3, <1>4, <1>5, <1>7 DEF Contract!Reject
<1> QED
  BY <1>6, <1>7

LEMMA StepImplements ==
  ASSUME TypeInv, TypeInv', NonceInv, HeldInv', PipeInv', QuietInv, [Next]_vars
  PROVE  [Contract!Next]_(Contract!cvars)
<1>1. UNCHANGED <<durable, reply>> => UNCHANGED Contract!cvars
  BY DEF Contract!cvars, durable
<1>2. txRows \in Seq(Reqs) /\ telemetry \in Seq(Reqs)
  BY DEF TypeInv, TypeOK
<1>3. ASSUME CommitAll, UNCHANGED reply PROVE Contract!Next
  <2>1. telemetry' = Cat(telemetry, txRows) /\ vault \subseteq vault'
    BY <1>3 DEF CommitAll, Cat
  <2> QED
    BY <1>2, <1>3, <2>1, CommitImplements DEF Contract!Next
<1>4. CASE Start \/ RequestStop \/ CloseConnection \/ Crash \/ UNCHANGED vars
  BY <1>1, <1>4 DEF Start, RequestStop, CloseConnection, Crash, vars
<1>5. ASSUME NEW r \in Reqs, SubmitStep(r) PROVE [Contract!Next]_(Contract!cvars)
  <2>1. pc[r] # "done"
    BY <1>5 DEF SubmitStep, Submit, InsertNonce, CommitNonce, NonceFault, Enqueue
  <2>2. CASE UNCHANGED <<durable, reply>>
    BY <1>1, <2>2
  <2>3. CASE CommitAll /\ UNCHANGED reply
    BY <1>3, <2>3
  <2>4. ASSUME NEW reason \in Reasons, Answer(r, reason), UNCHANGED durable,
               reason = "OK" => pc[r] = "enqueue"
        PROVE  Contract!Next
    BY <2>1, <2>4, AnswerImplements DEF Contract!Next
  <2>5. \/ UNCHANGED <<durable, reply>>
        \/ CommitAll /\ UNCHANGED reply
        \/ \E reason \in Reasons : /\ Answer(r, reason) /\ UNCHANGED durable
                                   /\ reason = "OK" => pc[r] = "enqueue"
    BY <1>5 DEF SubmitStep, Submit, InsertNonce, CommitNonce, NonceFault, Enqueue, Reasons,
                GateReasons
  <2> QED
    BY <2>2, <2>3, <2>4, <2>5
<1>6. CASE WriterStep
  <2>1. UNCHANGED reply
    BY <1>6 DEF WriterStep, WriterGet, WriterTimeout, WriterCancelled, FlushRow, FlushCommit,
                FlushFault, WriterResume
  <2>2. CASE FlushCommit
    BY <1>3, <2>1, <2>2 DEF FlushCommit
  <2>3. CASE FlushRow /\ ~UNCHANGED telemetry
    <3>1. PICK x : x = batch[flushed + 1]
      OBVIOUS
    <3>2. telemetry' = Append(telemetry, x) /\ UNCHANGED vault
      BY <2>3, <3>1 DEF FlushRow
    <3>3. x \in Reqs
      <4>1. flushed < Len(batch) /\ batch \in Seq(Reqs) /\ flushed \in 0 .. Len(batch)
        BY <2>3 DEF FlushRow, TypeInv, TypeOK
      <4> QED
        BY <3>1, <4>1, LeftOfBatch
    <3>4. PICK one \in Seq(Reqs) : telemetry' = Cat(telemetry, one)
      BY <1>2, <3>2, <3>3, CatOne
    <3> QED
      BY <2>1, <3>2, <3>4, CommitImplements DEF Contract!Next
  <2>4. CASE UNCHANGED durable
    BY <1>1, <2>1, <2>4
  <2>5. UNCHANGED durable \/ FlushCommit \/ (FlushRow /\ ~UNCHANGED telemetry)
    BY <1>6 DEF WriterStep, WriterGet, WriterTimeout, WriterCancelled, FlushRow, FlushFault,
                WriterResume, durable
  <2> QED
    BY <2>2, <2>3, <2>4, <2>5
<1> QED
  BY <1>4, <1>5, <1>6 DEF Next

(* An engine that is not started again under a submission in flight, on a  *)
(* database whose failing statements leave the transaction as it was, is   *)
(* for its clients the ledger of IngressContract: what it accepts it has   *)
(* recorded, each key once, and what it stores is accepted and stored once.*)
THEOREM EngineImplementsContract ==
  ~HotRestart /\ ~AutoRollback /\ Spec => ImplementsContract
<1>1. Init => Contract!Init
  BY DEF Init, Contract!Init
<1>2. ~HotRestart /\ ~AutoRollback /\ Init => QuietInv
  BY DEF Init, QuietInv, UnderminedOut
<1>3. Init => HeldInv
  BY DEF Init, HeldInv, AllAccepted
<1>4. TypeInv /\ TypeInv' /\ NonceInv /\ HeldInv' /\ PipeInv' /\ QuietInv /\ [Next]_vars
        => [Contract!Next]_(Contract!cvars)
  BY StepImplements
<1> QED
  BY InitType, StepType, TypeInvType, InitNonce, StepNonce, StepHeld, InitPipe, StepPipe, StepQuiet,
     <1>1, <1>2, <1>3, <1>4, PTL DEF Spec, ImplementsContract, Contract!Spec

(* Strict idempotency holds without exception under the same conditions:   *)
(* no submission is undermined and accepted all the same.                  *)
THEOREM AcceptsOnce ==
  ~HotRestart /\ ~AutoRollback /\ Spec => []AcceptedOnce
<1>1. ~HotRestart /\ ~AutoRollback /\ Init => QuietInv
  BY DEF Init, QuietInv, UnderminedOut
<1>2. TypeInv /\ NonceInv /\ QuietInv => AcceptedOnce
  <2> SUFFICES ASSUME TypeInv, NonceInv, QuietInv, NEW r \in Accepted, NEW s \in Accepted,
                      KeyOf[r] = KeyOf[s]
               PROVE  r = s
    BY DEF AcceptedOnce
  <2>1. r \in Reqs \ undermined /\ s \in Reqs \ undermined
    BY DEF Accepted, QuietInv, UnderminedOut, NonceInv, AnsweredIsDone
  <2>2. Passed(r) /\ Passed(s)
    BY DEF Accepted, Passed
  <2> QED
    BY <2>1, <2>2 DEF NonceInv, OneHolder
<1> QED
  BY InitType, StepType, TypeInvType, InitNonce, StepNonce, StepQuiet, <1>1, <1>2, PTL DEF Spec
=============================================================================
