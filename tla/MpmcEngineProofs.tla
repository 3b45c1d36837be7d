--------------------------- MODULE MpmcEngineProofs ---------------------------
(***************************************************************************)
(* Theorems about MpmcEngine, for any number of producers, records and     *)
(* cells: the programs use the queue as it is meant to be used, the log    *)
(* file is a prefix of what was enqueued, and a SUCCESS line is true.      *)
(*                                                                         *)
(* The argument: the file is as long as head, a record in the logger's     *)
(* hands aside.  Main clears running only when head has reached the        *)
(* target, and no more records than the target are ever placed, for they   *)
(* are all different; so the logger can only stop with all of them.        *)
(*                                                                         *)
(* The totals: the profit printed is at any time the sum over the records' *)
(* numbers of what one record of that number makes, times the producers    *)
(* whose record of that number is in the file; in the end these are all    *)
(* producers.  What is needed of sums is proved here, by induction.        *)
(***************************************************************************)
EXTENDS MpmcEngine, MpmcQueueProofs, FiniteSetTheorems, WellFoundedInduction

-----------------------------------------------------------------------------
(* The invariant. *)

EngineType ==
  /\ kind \in Kinds
  /\ running \in {0, 1}
  /\ mpc \in {"join", "await", "joinLogger", "success"}
  /\ lpc \in {"open", "test", "dequeue", "inDequeue", "print", "empty", "closed", "failed"}
  /\ file \in Seq(Items)
  /\ count \in Nat /\ profit \in Nat

(* The logger has printed what it has dequeued, but for one record at most.*)
LogOK ==
  /\ lpc # "inDequeue" => pc[Logger] = "idle"
  /\ head = IF lpc = "print" \/ Reads(Logger) THEN Len(file) + 1 ELSE Len(file)
  /\ Reads(Logger) => pos[Logger] = Len(file)
  /\ lpc = "print" => local[Logger] = placed[Len(file) + 1]
  /\ \A i \in 1 .. Len(file) : file[i] = placed[i]
  /\ lpc \in {"open", "failed"} => file = <<>>

(* No record is placed twice; the one a producer is about to place is new. *)
Placing(p) == pc[p] \in {"loadTail", "checkFree", "casTail"}
PlacedOK ==
  /\ \A p \in Producers : sent[p] <= MaxItems /\ (Placing(p) => sent[p] > 0)
  /\ \A i \in 1 .. tail : \E p \in Producers : \E n \in 1 .. sent[p] :
       placed[i] = <<p, n>> /\ (Placing(p) => n < sent[p])
  /\ \A i, j \in 1 .. tail : placed[i] = placed[j] => i = j

(* Main stops the logger when head has reached the target, not before. *)
MainOK ==
  /\ running = 0 \/ mpc \in {"joinLogger", "success"} => head >= Target
  /\ lpc = "closed" => Len(file) >= Target
  /\ mpc = "success" => lpc \in {"closed", "failed"}

EngineInv == QueueInv /\ EngineType /\ LogOK /\ PlacedOK /\ MainOK

-----------------------------------------------------------------------------
(* What the steps of the queue leave alone. *)

LEMMA LoggerFacts ==
  /\ Logger \in Consumers /\ Logger \in Threads /\ Logger \notin Producers
  /\ \A p \in Producers : p \in Threads /\ p # Logger
BY LoggerAssumption, ThreadAssumption DEF Threads

LEMMA TargetIsNat == Target \in Nat /\ Target > 0
<1>1. Cardinality(Producers) \in Nat /\ Cardinality(Producers) # 0
  BY ProgramAssumption, FS_CardinalityType, FS_EmptySet
<1>2. MaxItems \in Nat /\ MaxItems > 0
  BY BoundAssumption, ProgramAssumption
<1> QED
  BY ONLY <1>1, <1>2 DEF Target

LEMMA AppendKeeps ==
  ASSUME NEW S, NEW s \in Seq(S), NEW x \in S
  PROVE  /\ Append(s, x) \in Seq(S) /\ Len(Append(s, x)) = Len(s) + 1
         /\ \A i \in 1 .. Len(s) : Append(s, x)[i] = s[i]
         /\ Append(s, x)[Len(s) + 1] = x
BY AppendProperties

(* A producer leaves the consumers, head and what is placed alone. *)
LEMMA ProducerKeeps ==
  ASSUME QueueInv, NEW p \in Producers, Enqueue(p) \/ ProducerStep(p)
  PROVE  /\ head' = head /\ local' = local
         /\ \A c \in Consumers : pc'[c] = pc[c] /\ pos'[c] = pos[c]
         /\ tail <= tail' /\ \A i \in 1 .. tail : placed'[i] = placed[i]
<1> USE TypeFacts
<1>1. head' = head /\ local' = local
  BY DEF Enqueue, ProducerStep, LoadTail, CheckFree, CasTail, Write, Publish, indices
<1>2. \A c \in Consumers : pc'[c] = pc[c] /\ pos'[c] = pos[c]
  <2>1. /\ \E l : pc' = [pc EXCEPT ![p] = l]
        /\ pos' = pos \/ \E v : pos' = [pos EXCEPT ![p] = v]
    BY DEF Enqueue, ProducerStep, LoadTail, CheckFree, CasTail, Write, Publish, Goto, Load
  <2> QED
    BY <2>1
<1>3. \/ tail' = tail /\ placed' = placed
      \/ tail' = tail + 1 /\ placed' = Append(placed, Item(p))
  BY DEF Enqueue, ProducerStep, LoadTail, CheckFree, CasTail, Write, Publish, indices
<1>4. Item(p) \in Items
  BY DEF QueueInv, TypeOK, Item, Items
<1>5. tail <= tail' /\ \A i \in 1 .. tail : placed'[i] = placed[i]
  BY <1>3, <1>4, AppendKeeps
<1> QED
  BY <1>1, <1>2, <1>5

(* A consumer leaves the producers and tail alone. *)
LEMMA ConsumerKeeps ==
  ASSUME QueueInv, NEW c \in Consumers, Dequeue(c) \/ ConsumerStep(c)
  PROVE  /\ tail' = tail /\ placed' = placed /\ sent' = sent
         /\ \A p \in Producers : pc'[p] = pc[p]
         /\ head' = head \/ head' = head + 1
<1> USE TypeFacts
<1>1. /\ tail' = tail /\ placed' = placed /\ sent' = sent
      /\ head' = head \/ head' = head + 1
  BY DEF Dequeue, ConsumerStep, LoadHead, CheckReady, CasHead, Read, Release, indices
<1>2. \E l : pc' = [pc EXCEPT ![c] = l]
  BY DEF Dequeue, ConsumerStep, LoadHead, CheckReady, CasHead, Read, Release, Goto
<1> QED
  BY <1>1, <1>2

(* The programs do nothing to the queue but call it. *)
LEMMA QueueSteps ==
  ASSUME [EngineNext]_vars
  PROVE  [Next]_qvars
<1>1. CASE \E p \in Producers : Produce(p)
  BY <1>1 DEF Produce, Next
<1>2. CASE CallDequeue \/ InDequeue
  BY <1>2, LoggerFacts DEF CallDequeue, InDequeue, Next
<1>3. CASE OpenLog \/ TestRunning \/ PrintRecord \/ Empty \/ MainStep
  BY <1>3 DEF OpenLog, TestRunning, PrintRecord, Empty, MainStep, JoinProducers, AwaitDrained,
              JoinLogger
<1>4. CASE UNCHANGED vars
  BY <1>4 DEF vars
<1> QED
  BY <1>1, <1>2, <1>3, <1>4 DEF EngineNext, LoggerStep

LEMMA HeadGrows ==
  ASSUME QueueInv, [Next]_qvars
  PROVE  head' = head \/ head' = head + 1
<1>1. CASE UNCHANGED qvars
  BY <1>1 DEF qvars, indices
<1>2. CASE Next
  BY <1>2, ProducerKeeps, ConsumerKeeps DEF Next
<1> QED
  BY <1>1, <1>2

-----------------------------------------------------------------------------
(* The invariant holds. *)

(* Nothing is placed and nobody begins to place. *)
LEMMA PlacedKept ==
  ASSUME PlacedOK, UNCHANGED <<sent, placed, tail>>,
         \A p \in Producers : Placing(p)' => Placing(p)
  PROVE  PlacedOK'
BY DEF PlacedOK

LEMMA PlacedStep ==
  ASSUME QueueInv, PlacedOK, [Next]_qvars
  PROVE  PlacedOK'
<1> USE TypeFacts, BoundAssumption
<1>0. sent \in [Producers -> Nat]
  BY DEF QueueInv, TypeOK
<1>1. CASE UNCHANGED qvars
  BY <1>1, PlacedKept DEF qvars, indices, Placing
<1>2. CASE \E c \in Consumers : Dequeue(c) \/ ConsumerStep(c)
  BY <1>2, ConsumerKeeps, PlacedKept DEF Placing
<1>3. ASSUME NEW p \in Producers, Enqueue(p) PROVE PlacedOK'
  <2>1. /\ pc' = [pc EXCEPT ![p] = "loadTail"] /\ sent' = [sent EXCEPT ![p] = @ + 1]
        /\ tail' = tail /\ placed' = placed /\ sent[p] < MaxItems /\ pc[p] = "idle"
    BY <1>3 DEF Enqueue, Goto, indices
  <2>2. /\ sent'[p] = sent[p] + 1 /\ sent[p] \in Nat
        /\ \A q \in Producers \ {p} : sent'[q] = sent[q] /\ pc'[q] = pc[q]
    BY <1>0, <2>1
  <2>3. \A q \in Producers : sent'[q] <= MaxItems /\ (Placing(q)' => sent'[q] > 0)
    <3> SUFFICES ASSUME NEW q \in Producers
                 PROVE  sent'[q] <= MaxItems /\ (Placing(q)' => sent'[q] > 0)
      OBVIOUS
    <3>1. CASE q = p
      <4>1. sent'[p] <= MaxItems /\ sent'[p] > 0
        BY ONLY <2>1, <2>2, BoundAssumption
      <4> QED
        BY <3>1, <4>1
    <3>2. CASE q # p
      BY <2>2, <3>2 DEF PlacedOK, Placing
    <3> QED
      BY <3>1, <3>2
  <2>4. ASSUME NEW i \in 1 .. tail
        PROVE  \E q \in Producers : \E n \in 1 .. sent'[q] :
                 placed[i] = <<q, n>> /\ (Placing(q)' => n < sent'[q])
    <3>1. PICK q \in Producers : \E n \in 1 .. sent[q] :
            placed[i] = <<q, n>> /\ (Placing(q) => n < sent[q])
      BY DEF PlacedOK
    <3>2. PICK n \in 1 .. sent[q] : placed[i] = <<q, n>> /\ (Placing(q) => n < sent[q])
      BY <3>1
    <3>3. CASE q = p
      <4>1. sent'[q] = sent[q] + 1 /\ sent[q] \in Nat
        BY <2>2, <3>3
      <4>2. n \in 1 .. sent'[q] /\ n < sent'[q]
        BY ONLY <4>1, n \in 1 .. sent[q]
      <4> QED
        BY <3>2, <4>2
    <3>4. CASE q # p
      BY <2>2, <3>2, <3>4 DEF Placing
    <3> QED
      BY <3>3, <3>4
  <2> QED
    BY <2>1, <2>3, <2>4 DEF PlacedOK
<1>4. ASSUME NEW p \in Producers, CasTail(p), TailClaimed(p) PROVE PlacedOK'
  <2>1. /\ tail' = tail + 1 /\ placed' = Append(placed, Item(p)) /\ pc[p] = "casTail"
        /\ pc' = [pc EXCEPT ![p] = "write"] /\ sent' = sent
    BY <1>4 DEF CasTail, TailClaimed, Goto
  <2>2. /\ ~Placing(p)' /\ Placing(p)
        /\ \A q \in Producers \ {p} : Placing(q)' <=> Placing(q)
    BY <2>1 DEF Placing
  <2>3. Item(p) \in Items /\ Item(p) = <<p, sent[p]>> /\ sent[p] \in Nat /\ sent[p] > 0
    BY <1>0, <2>2 DEF Item, Items, PlacedOK
  <2>4. /\ \A i \in 1 .. tail : placed'[i] = placed[i]
        /\ placed'[tail + 1] = <<p, sent[p]>>
    <3>1. placed \in Seq(Items) /\ Len(placed) = tail
      OBVIOUS
    <3>2. /\ \A i \in 1 .. Len(placed) : Append(placed, Item(p))[i] = placed[i]
          /\ Append(placed, Item(p))[Len(placed) + 1] = Item(p)
      BY ONLY <2>3, <3>1, AppendKeeps
    <3> QED
      BY <2>1, <2>3, <3>1, <3>2
  <2>5. ASSUME NEW i \in 1 .. tail
        PROVE  /\ placed[i] # <<p, sent[p]>>
               /\ \E q \in Producers : \E n \in 1 .. sent[q] :
                    placed[i] = <<q, n>> /\ (Placing(q)' => n < sent[q])
    <3>1. PICK q \in Producers : \E n \in 1 .. sent[q] :
            placed[i] = <<q, n>> /\ (Placing(q) => n < sent[q])
      BY DEF PlacedOK
    <3>2. PICK n \in 1 .. sent[q] : placed[i] = <<q, n>> /\ (Placing(q) => n < sent[q])
      BY <3>1
    <3>3. placed[i] # <<p, sent[p]>>
      BY <1>0, <2>2, <3>2
    <3>4. Placing(q)' => Placing(q)
      BY <2>2
    <3> QED
      BY <3>2, <3>3, <3>4
  <2>6. ASSUME NEW i \in 1 .. tail'
        PROVE  \E q \in Producers : \E n \in 1 .. sent'[q] :
                 placed'[i] = <<q, n>> /\ (Placing(q)' => n < sent'[q])
    <3>1. CASE i \in 1 .. tail
      <4>1. placed'[i] = placed[i] /\ sent' = sent
        BY <2>1, <2>4, <3>1
      <4> QED
        BY <2>5, <3>1, <4>1
    <3>2. CASE i = tail + 1
      <4>1. sent[p] \in 1 .. sent[p] /\ sent' = sent
        BY ONLY <2>1, <2>3
      <4> QED
        BY <2>2, <2>4, <3>2, <4>1
    <3>3. i \in 1 .. tail \/ i = tail + 1
      <4>1. tail \in Nat
        OBVIOUS
      <4> QED
        BY ONLY <2>1, <4>1, i \in 1 .. tail'
    <3> QED
      BY <3>1, <3>2, <3>3
  <2>7. ASSUME NEW i \in 1 .. tail', NEW j \in 1 .. tail', placed'[i] = placed'[j]
        PROVE  i = j
    <3>1. CASE i \in 1 .. tail /\ j \in 1 .. tail
      BY <2>4, <2>7, <3>1 DEF PlacedOK
    <3>2. CASE i = tail + 1 /\ j \in 1 .. tail
      BY <2>4, <2>5, <2>7, <3>2
    <3>3. CASE j = tail + 1 /\ i \in 1 .. tail
      BY <2>4, <2>5, <2>7, <3>3
    <3>4. \A k \in 1 .. tail' : k \in 1 .. tail \/ k = tail + 1
      <4>1. tail \in Nat
        OBVIOUS
      <4> QED
        BY ONLY <2>1, <4>1
    <3> QED
      BY ONLY <3>1, <3>2, <3>3, <3>4, i \in 1 .. tail', j \in 1 .. tail'
  <2>8. \A q \in Producers : sent'[q] <= MaxItems /\ (Placing(q)' => sent'[q] > 0)
    BY <2>1, <2>2 DEF PlacedOK
  <2> QED
    BY <2>6, <2>7, <2>8 DEF PlacedOK
<1>5. ASSUME NEW p \in Producers, ProducerStep(p), ~(CasTail(p) /\ TailClaimed(p))
      PROVE  PlacedOK'
  <2>1. sent' = sent /\ placed' = placed /\ tail' = tail
    BY <1>5 DEF ProducerStep, LoadTail, CheckFree, CasTail, Write, Publish, indices, TailClaimed
  <2>2. \/ Placing(p) /\ \E l : pc' = [pc EXCEPT ![p] = l]
        \/ ~Placing(p)' /\ \E l : pc' = [pc EXCEPT ![p] = l]
    BY <1>5 DEF ProducerStep, LoadTail, CheckFree, CasTail, Write, Publish, Goto, Placing
  <2>3. \A q \in Producers : Placing(q)' => Placing(q)
    BY <2>2 DEF Placing
  <2> QED
    BY <2>1, <2>3, PlacedKept
<1> QED
  BY <1>1, <1>2, <1>3, <1>4, <1>5 DEF Next

(* What is in the file and in the logger's hands has been placed. *)
LEMMA LogFacts ==
  ASSUME QueueInv, EngineType, LogOK
  PROVE  /\ Len(file) \in Nat /\ Len(file) <= tail /\ head <= tail
         /\ lpc = "print" => /\ Len(file) + 1 \in 1 .. tail
                             /\ local[Logger] = placed[Len(file) + 1]
                             /\ local[Logger] \in Items
         /\ lpc # "print" /\ lpc # "inDequeue" => head = Len(file)
<1>1. Len(file) \in Nat
  BY DEF EngineType
<1>2. head \in Nat /\ tail \in Nat /\ head <= tail /\ placed \in Seq(Items) /\ Len(placed) = tail
  BY TypeFacts
<1>3. head = Len(file) \/ head = Len(file) + 1
  BY DEF LogOK
<1>4. Len(file) <= tail
  BY ONLY <1>1, <1>2, <1>3
<1>5. ASSUME lpc = "print"
      PROVE  /\ Len(file) + 1 \in 1 .. tail
             /\ local[Logger] = placed[Len(file) + 1] /\ local[Logger] \in Items
  <2>1. head = Len(file) + 1 /\ local[Logger] = placed[Len(file) + 1]
    BY <1>5 DEF LogOK
  <2>2. Len(file) + 1 \in 1 .. tail
    BY ONLY <1>1, <1>2, <2>1
  <2> QED
    BY <1>2, <2>1, <2>2
<1>6. lpc # "print" /\ lpc # "inDequeue" => head = Len(file)
  BY DEF LogOK, Reads
<1> QED
  BY <1>1, <1>2, <1>4, <1>5, <1>6

LEMMA EngineTypeStep ==
  ASSUME QueueInv, EngineType, LogOK, PlacedOK, [EngineNext]_vars
  PROVE  EngineType'
<1>1. CASE \E p \in Producers : Produce(p)
  BY <1>1 DEF Produce, evars, EngineType
<1>2. CASE OpenLog \/ TestRunning \/ CallDequeue \/ InDequeue \/ Empty
  BY <1>2 DEF OpenLog, TestRunning, CallDequeue, InDequeue, Empty, EngineType
<1>3. CASE MainStep
  BY <1>3 DEF MainStep, JoinProducers, AwaitDrained, JoinLogger, EngineType
<1>4. CASE UNCHANGED vars
  BY <1>4 DEF vars, evars, EngineType
<1>5. CASE PrintRecord
  <2>1. local[Logger] \in Items /\ file \in Seq(Items)
    BY <1>5, LogFacts DEF PrintRecord, EngineType
  <2>2. file' \in Seq(Items)
    BY <1>5, <2>1 DEF PrintRecord
  <2>3. PICK p \in Producers : \E n \in 1 .. sent[p] : local[Logger] = <<p, n>>
    BY <1>5, LogFacts DEF PrintRecord, PlacedOK
  <2>4. PICK n \in 1 .. sent[p] : local[Logger] = <<p, n>>
    BY <2>3
  <2>5. ProfitOf(n) \in Nat
    <3>1. (n - 1) % 5 \in 0 .. 4 /\ (n - 1) % 7 \in 0 .. 6
      BY <2>4
    <3> QED
      BY <3>1 DEF ProfitOf
  <2>6. count' \in Nat /\ profit' \in Nat
    BY <1>5, <2>4, <2>5 DEF PrintRecord, EngineType
  <2> QED
    BY <1>5, <2>2, <2>6 DEF PrintRecord, EngineType
<1> QED
  BY <1>1, <1>2, <1>3, <1>4, <1>5 DEF EngineNext, LoggerStep

(* A call of the queue by the logger. *)
LEMMA DequeuedStep ==
  ASSUME QueueInv, EngineType, LogOK, InDequeue
  PROVE  LogOK'
<1> USE TypeFacts, LoggerFacts
<1>1. /\ lpc = "inDequeue" /\ file' = file /\ placed' = placed /\ Len(file) \in Nat
      /\ ConsumerStep(Logger)
      /\ lpc' = IF pc'[Logger] # "idle" THEN lpc
                ELSE IF pc[Logger] = "release" THEN "print" ELSE "empty"
  BY ConsumerKeeps DEF InDequeue, EngineType
<1>2. \A i \in 1 .. Len(file) : file[i] = placed[i]
  BY DEF LogOK
<1>3. head = IF Reads(Logger) THEN Len(file) + 1 ELSE Len(file)
  BY <1>1 DEF LogOK
<1>4. pos[Logger] \in Nat /\ head \in Nat
  OBVIOUS
<1> USE DEF Goto
<1>5. CASE LoadHead(Logger) \/ CheckReady(Logger)
  <2>1. ~Reads(Logger) /\ ~Reads(Logger)' /\ head' = head /\ pc[Logger] # "release"
    BY <1>5 DEF LoadHead, CheckReady, Reads, indices
  <2> QED
    BY <1>1, <1>2, <1>3, <2>1 DEF LogOK
<1>6. CASE CasHead(Logger)
  <2>1. CASE HeadClaimed(Logger)
    <3>1. /\ ~Reads(Logger) /\ pc'[Logger] = "read" /\ Reads(Logger)'
          /\ head' = head + 1 /\ pos' = pos /\ pos[Logger] = head
      BY <1>6, <2>1 DEF CasHead, HeadClaimed, Reads
    <3>2. lpc' = "inDequeue"
      BY <1>1, <3>1
    <3> QED
      BY <1>1, <1>2, <1>3, <3>1, <3>2 DEF LogOK
  <2>2. CASE ~HeadClaimed(Logger)
    <3>1. ~Reads(Logger) /\ ~Reads(Logger)' /\ head' = head /\ pc'[Logger] = "checkReady"
      BY <1>6, <2>2 DEF CasHead, HeadClaimed, Reads
    <3> QED
      BY <1>1, <1>2, <1>3, <3>1 DEF LogOK
  <2> QED
    BY <2>1, <2>2
<1>7. CASE Read(Logger)
  <2>1. /\ Reads(Logger) /\ pc'[Logger] = "release" /\ Reads(Logger)' /\ head' = head
        /\ pos' = pos
    BY <1>7 DEF Read, Reads, indices
  <2>2. lpc' = "inDequeue"
    BY <1>1, <2>1
  <2>3. pos[Logger] = Len(file)
    BY <2>1 DEF LogOK
  <2> QED
    BY <1>1, <1>2, <1>3, <2>1, <2>2, <2>3 DEF LogOK
<1>8. CASE Release(Logger)
  <2>1. /\ Reads(Logger) /\ pc[Logger] = "release" /\ pc'[Logger] = "idle" /\ ~Reads(Logger)'
        /\ head' = head /\ local' = local
    BY <1>8 DEF Release, Reads, indices
  <2>2. lpc' = "print"
    BY <1>1, <2>1
  <2>3. pos[Logger] = Len(file)
    BY <2>1 DEF LogOK
  <2>4. local[Logger] = placed[Len(file) + 1]
    BY <2>1, <2>3 DEF QueueInv, ReaderOK
  <2> QED
    BY <1>1, <1>2, <1>3, <2>1, <2>2, <2>4 DEF LogOK
<1> QED
  BY <1>1, <1>5, <1>6, <1>7, <1>8 DEF ConsumerStep

LEMMA LogStep ==
  ASSUME QueueInv, EngineType, LogOK, [EngineNext]_vars
  PROVE  LogOK'
<1>0. Len(file) \in Nat /\ file \in Seq(Items)
  BY DEF EngineType
<1>1. CASE \E p \in Producers : Produce(p)
  <2>1. /\ head' = head /\ local' = local /\ pc'[Logger] = pc[Logger] /\ pos'[Logger] = pos[Logger]
        /\ \A i \in 1 .. tail : placed'[i] = placed[i]
        /\ file' = file /\ lpc' = lpc
    BY <1>1, ProducerKeeps, LoggerFacts DEF Produce, evars
  <2>2. Len(file) <= tail /\ (lpc = "print" => Len(file) + 1 \in 1 .. tail)
    BY LogFacts
  <2>3. \A i \in 1 .. Len(file) : file[i] = placed'[i]
    <3>1. tail \in Nat
      BY TypeFacts
    <3>2. \A i \in 1 .. Len(file) : i \in 1 .. tail
      BY ONLY <1>0, <2>2, <3>1
    <3> QED
      BY <2>1, <3>2 DEF LogOK
  <2> QED
    BY <2>1, <2>2, <2>3 DEF LogOK, Reads
<1>2. CASE OpenLog \/ TestRunning \/ Empty
  BY <1>2, LoggerFacts DEF OpenLog, TestRunning, Empty, LogOK, Reads, qvars, indices
<1>3. CASE CallDequeue
  <2>1. pc'[Logger] = "loadHead" /\ UNCHANGED <<file, head, placed>> /\ lpc' = "inDequeue"
    BY <1>3, LoggerFacts, TypeFacts DEF CallDequeue, Dequeue, Goto, indices
  <2>2. ~Reads(Logger) /\ ~Reads(Logger)' /\ lpc = "dequeue"
    BY <1>3, <2>1 DEF LogOK, Reads, CallDequeue
  <2> QED
    BY <2>1, <2>2 DEF LogOK
<1>4. CASE InDequeue
  BY <1>4, DequeuedStep
<1>5. CASE PrintRecord
  <2>1. /\ lpc = "print" /\ lpc' = "test" /\ file' = Append(file, local[Logger])
        /\ UNCHANGED <<head, pc, pos, local, placed>>
    BY <1>5 DEF PrintRecord, qvars, indices
  <2>2. /\ pc[Logger] = "idle" /\ ~Reads(Logger) /\ ~Reads(Logger)'
        /\ head = Len(file) + 1 /\ local[Logger] = placed[Len(file) + 1]
        /\ \A i \in 1 .. Len(file) : file[i] = placed[i]
    BY <2>1 DEF LogOK, Reads
  <2>3. /\ Len(file') = Len(file) + 1
        /\ \A i \in 1 .. Len(file) : file'[i] = file[i]
        /\ file'[Len(file) + 1] = local[Logger]
    BY <1>0, <2>1, LogFacts, AppendKeeps
  <2>4. \A i \in 1 .. Len(file') : file'[i] = placed'[i]
    <3>1. \A i \in 1 .. Len(file') : i \in 1 .. Len(file) \/ i = Len(file) + 1
      BY ONLY <1>0, <2>3
    <3> QED
      BY <2>1, <2>2, <2>3, <3>1
  <2> QED
    BY <2>1, <2>2, <2>3, <2>4 DEF LogOK
<1>6. CASE MainStep
  BY <1>6 DEF MainStep, JoinProducers, AwaitDrained, JoinLogger, LogOK, Reads, qvars, indices
<1>7. CASE UNCHANGED vars
  BY <1>7 DEF vars, evars, LogOK, Reads, qvars, indices
<1> QED
  BY <1>1, <1>2, <1>3, <1>4, <1>5, <1>6, <1>7 DEF EngineNext, LoggerStep

LEMMA MainProgress ==
  ASSUME QueueInv, EngineType, LogOK, MainOK, [EngineNext]_vars
  PROVE  MainOK'
<1> USE TargetIsNat, TypeFacts
<1>1. head <= head' /\ head' \in Nat
  BY QueueSteps, HeadGrows
<1>2. running' = running \/ head >= Target
  BY DEF EngineNext, Produce, LoggerStep, OpenLog, TestRunning, CallDequeue, InDequeue,
         PrintRecord, Empty, MainStep, JoinProducers, AwaitDrained, JoinLogger, vars, evars
<1>3. mpc' = mpc \/ (mpc' = "await") \/ head >= Target
  BY DEF EngineNext, Produce, LoggerStep, OpenLog, TestRunning, CallDequeue, InDequeue,
         PrintRecord, Empty, MainStep, JoinProducers, AwaitDrained, JoinLogger, vars, evars,
         MainOK
<1>4. running' = 0 \/ mpc' \in {"joinLogger", "success"} => head' >= Target
  <2>1. running' = 0 \/ mpc' \in {"joinLogger", "success"} => head >= Target
    BY <1>2, <1>3 DEF MainOK
  <2>2. head \in Nat
    OBVIOUS
  <2> QED
    BY ONLY <1>1, <2>1, <2>2, TargetIsNat
<1>5. lpc' = "closed" => Len(file') >= Target
  <2>1. CASE lpc = "closed"
    <3>1. file' = file
      BY <2>1 DEF EngineNext, Produce, LoggerStep, OpenLog, TestRunning, CallDequeue, InDequeue,
         PrintRecord, Empty, MainStep, JoinProducers, AwaitDrained, JoinLogger, vars, evars
    <3> QED
      BY <2>1, <3>1 DEF MainOK
  <2>2. CASE TestRunning
    <3>1. file' = file /\ head = Len(file) /\ Len(file) \in Nat
      BY <2>2, LogFacts DEF TestRunning
    <3>2. lpc' = "closed" => Len(file) >= Target
      BY <2>2, <3>1 DEF TestRunning, MainOK, EngineType
    <3> QED
      BY <3>1, <3>2
  <2>3. CASE Empty
    <3>1. file' = file /\ head = Len(file)
      BY <2>3, LogFacts DEF Empty
    <3> QED
      BY <2>3, <3>1 DEF Empty, MainOK
  <2>4. lpc' = "closed" => lpc = "closed" \/ TestRunning \/ Empty
    BY DEF EngineNext, Produce, LoggerStep, OpenLog, CallDequeue, InDequeue,
       PrintRecord, MainStep, JoinProducers, AwaitDrained, JoinLogger, vars, evars
  <2> QED
    BY <2>1, <2>2, <2>3, <2>4
<1>6. mpc' = "success" => lpc' \in {"closed", "failed"}
  <2>1. lpc \in {"closed", "failed"} => lpc' = lpc
    BY DEF EngineNext, Produce, LoggerStep, OpenLog, TestRunning, CallDequeue, InDequeue,
         PrintRecord, Empty, MainStep, JoinProducers, AwaitDrained, JoinLogger, vars, evars
  <2>2. mpc' = "success" => mpc = "success" \/ lpc \in {"closed", "failed"}
    BY DEF EngineNext, Produce, LoggerStep, OpenLog, TestRunning, CallDequeue, InDequeue,
         PrintRecord, Empty, MainStep, JoinProducers, AwaitDrained, JoinLogger, vars, evars
  <2> QED
    BY <2>1, <2>2 DEF MainOK
<1> QED
  BY <1>4, <1>5, <1>6 DEF MainOK

-----------------------------------------------------------------------------
(* The invariant. *)

LEMMA EngineInitInv == EngineInit => EngineInv
<1> SUFFICES ASSUME EngineInit PROVE EngineInv
  OBVIOUS
<1>1. Init /\ QueueInv
  BY InitInv DEF EngineInit
<1>2. EngineType
  BY DEF EngineInit, EngineType
<1>3. pc[Logger] = "idle" /\ head = 0 /\ tail = 0
  BY <1>1, LoggerFacts DEF Init
<1>4. LogOK
  BY <1>3 DEF EngineInit, LogOK, Reads
<1>5. PlacedOK
  <2>1. \A p \in Producers : sent[p] = 0 /\ pc[p] = "idle"
    BY <1>1, LoggerFacts DEF Init
  <2> QED
    BY <1>3, <2>1, BoundAssumption DEF PlacedOK, Placing
<1>6. MainOK
  BY DEF EngineInit, MainOK
<1> QED
  BY <1>1, <1>2, <1>4, <1>5, <1>6 DEF EngineInv

LEMMA EngineStepInv == EngineInv /\ [EngineNext]_vars => EngineInv'
<1> SUFFICES ASSUME EngineInv, [EngineNext]_vars PROVE EngineInv'
  OBVIOUS
<1>1. [Next]_qvars
  BY QueueSteps
<1>2. QueueInv'
  BY <1>1, StepInv DEF EngineInv
<1> QED
  BY <1>1, <1>2, EngineTypeStep, LogStep, PlacedStep, MainProgress DEF EngineInv

LEMMA EngineInvariant == EngineSpec => []EngineInv
<1> QED
  BY EngineInitInv, EngineStepInv, PTL DEF EngineSpec

-----------------------------------------------------------------------------
(* The theorems. *)

(* The programs use the queue as its specification says: one thread at a   *)
(* time in each role, so all that is proved of the queue holds in them.    *)
THEOREM EngineUsesQueue == EngineSpec => Spec
<1>1. EngineInit => Init
  BY DEF EngineInit
<1>2. [EngineNext]_vars => [Next]_qvars
  BY QueueSteps
<1> QED
  BY <1>1, <1>2, PTL DEF EngineSpec, Spec

(* Records, counters and the places of main and the logger have their      *)
(* types; total_profit never goes below 0.                                 *)
THEOREM EngineTypeCorrect == EngineSpec => []EngineTypeOK
<1>1. EngineInv => EngineTypeOK
  BY DEF EngineInv, EngineType, EngineTypeOK, QueueInv
<1> QED
  BY <1>1, EngineInvariant, PTL

(* The log file is a prefix of what was enqueued. *)
THEOREM LogFileIsPrefix == EngineSpec => []FileIsPrefix
<1>1. EngineInv => FileIsPrefix
  <2> SUFFICES ASSUME EngineInv PROVE FileIsPrefix
    OBVIOUS
  <2>1. /\ Len(file) \in Nat /\ Len(file) <= tail /\ file \in Seq(Items)
        /\ \A i \in 1 .. Len(file) : file[i] = placed[i]
    BY LogFacts DEF EngineInv, EngineType, LogOK
  <2>2. placed \in Seq(Items) /\ Len(placed) = tail /\ tail \in Nat
    BY TypeFacts DEF EngineInv
  <2>3. PICK s : s = SubSeq(placed, 1, Len(file))
    OBVIOUS
  <2>4. PICK l \in Nat : l = Len(file)
    BY <2>1
  <2>5. s \in Seq(Items) /\ Len(s) = l /\ \A i \in 1 .. l : s[i] = placed[i]
    <3>1. s \in Seq(Items)
      <4>1. \A i \in 1 .. l : placed[i] \in Items
        BY <2>1, <2>2, <2>4
      <4> QED
        BY <2>2, <2>3, <2>4, <4>1, SubSeqProperties
    <3> QED
      BY <2>2, <2>3, <2>4, <3>1
  <2>6. s = file
    BY <2>1, <2>4, <2>5, SeqEqual
  <2> QED
    BY <2>1, <2>3, <2>6 DEF FileIsPrefix
<1> QED
  BY <1>1, EngineInvariant, PTL

(* No more is placed than the producers have. *)
LEMMA PlacedBound ==
  ASSUME QueueInv, PlacedOK
  PROVE  tail <= Target
<1> DEFINE N == 1 .. MaxItems
           T == Producers \X N
<1>1. MaxItems \in Nat /\ tail \in Nat /\ placed \in Seq(Items) /\ Len(placed) = tail
  BY BoundAssumption, TypeFacts
<1>2. IsFiniteSet(N) /\ Cardinality(N) = MaxItems
  BY ONLY <1>1, ProgramAssumption, FS_Interval
<1>3. IsFiniteSet(T) /\ Cardinality(T) = Target
  BY <1>2, ProgramAssumption, FS_Product DEF Target
<1>4. \A i \in 1 .. tail : placed[i] \in T
  <2> SUFFICES ASSUME NEW i \in 1 .. tail PROVE placed[i] \in T
    OBVIOUS
  <2>1. PICK p \in Producers : \E n \in 1 .. sent[p] : placed[i] = <<p, n>>
    BY DEF PlacedOK
  <2>2. PICK n \in 1 .. sent[p] : placed[i] = <<p, n>>
    BY <2>1
  <2>3. sent[p] \in Nat /\ sent[p] <= MaxItems
    BY DEF PlacedOK, QueueInv, TypeOK
  <2>4. n \in N
    BY ONLY <1>1, <2>2, <2>3
  <2> QED
    BY <2>2, <2>4
<1>5. placed \in Injection(1 .. tail, T)
  <2>1. placed \in [1 .. tail -> T]
    BY <1>1, <1>4
  <2>2. \A i, j \in 1 .. tail : placed[i] = placed[j] => i = j
    BY DEF PlacedOK
  <2> QED
    BY ONLY <2>1, <2>2 DEF Injection, IsInjective
<1>6. Cardinality(1 .. tail) <= Cardinality(T)
  BY ONLY <1>3, <1>5, FS_Injection
<1>7. Cardinality(1 .. tail) = tail
  <2>1. 1 \in Int /\ tail \in Int
    BY <1>1
  <2>2. Cardinality(1 .. tail) = IF 1 > tail THEN 0 ELSE tail - 1 + 1
    BY ONLY <2>1, FS_Interval
  <2> QED
    BY ONLY <1>1, <2>2
<1> QED
  BY <1>3, <1>6, <1>7

(* A SUCCESS line is true: every record is in a closed file. *)
THEOREM SuccessIsTrue == EngineSpec => []NoFalseSuccess
<1>1. EngineInv => NoFalseSuccess
  <2> SUFFICES ASSUME EngineInv, mpc = "success" PROVE lpc = "closed" /\ Len(file) = Target
    BY DEF NoFalseSuccess
  <2>1. /\ head >= Target /\ lpc \in {"closed", "failed"}
        /\ Len(file) \in Nat /\ Len(file) <= tail /\ head = Len(file)
    BY LogFacts DEF EngineInv, MainOK
  <2>2. lpc = "closed"
    <3>1. lpc = "failed" => Len(file) = 0
      BY DEF EngineInv, LogOK
    <3> QED
      BY <2>1, <3>1, TargetIsNat
  <2>3. tail <= Target /\ tail \in Nat /\ Target \in Nat
    BY PlacedBound, TypeFacts, TargetIsNat DEF EngineInv
  <2> QED
    BY <2>1, <2>2, <2>3
<1> QED
  BY <1>1, EngineInvariant, PTL

-----------------------------------------------------------------------------
(* Sums.  Their laws are proved by induction over the numbers of the terms.*)

(* Induction, as the least-number principle. *)
LEMMA LeastNat ==
  ASSUME NEW T, T \subseteq Nat, T # {}
  PROVE  \E x \in T : \A y \in T : x <= y
<1>1. PICK R : R = OpToRel(<, Nat)
  OBVIOUS
<1>2. IsWellFoundedOn(R, Nat)
  BY <1>1, NatLessThanWellFounded
<1>3. PICK x \in T : \A y \in T : ~(<<y, x>> \in R)
  BY <1>2, WFMin
<1>4. \A y \in Nat : y < x => <<y, x>> \in R
  BY <1>1, <1>3 DEF OpToRel
<1>5. \A y \in T : ~(y < x)
  BY <1>3, <1>4
<1>6. \A y \in T : x <= y
  BY ONLY T \subseteq Nat, x \in T, <1>5
<1> QED
  BY <1>6

LEMMA SetInduction ==
  ASSUME NEW T, 0 \in T, NEW m \in Nat, \A k \in 0 .. m - 1 : k \in T => k + 1 \in T
  PROVE  0 .. m \subseteq T
<1> DEFINE B == {k \in 0 .. m : k \notin T}
<1> SUFFICES ASSUME B # {} PROVE FALSE
  OBVIOUS
<1>1. B \subseteq Nat
  OBVIOUS
<1> HIDE DEF B
<1>2. PICK k \in B : \A j \in B : k <= j
  BY <1>1, LeastNat
<1>3. k \in 0 .. m /\ k \notin T /\ k # 0
  BY <1>2 DEF B
<1>4. k - 1 \in 0 .. m - 1 /\ k - 1 \in 0 .. m /\ ~(k <= k - 1) /\ (k - 1) + 1 = k
  BY ONLY m \in Nat, <1>3
<1>5. k - 1 \in T
  BY <1>2, <1>4 DEF B
<1> QED
  BY <1>3, <1>4, <1>5

(* g holds the sums of w(1), ..., w(n), for n up to m. *)
Summing(g, w, m) ==
  /\ g \in [0 .. m -> Int]
  /\ g[0] = 0
  /\ \A n \in 1 .. m : g[n] = g[n - 1] + w[n]

LEMMA SummingUnique ==
  ASSUME NEW m \in Nat, NEW w, NEW g, NEW h, Summing(g, w, m), Summing(h, w, m)
  PROVE  g = h
<1>1. 0 .. m \subseteq {k \in 0 .. m : g[k] = h[k]}
  <2> DEFINE T == {k \in 0 .. m : g[k] = h[k]}
  <2>1. 0 \in T
    BY DEF Summing
  <2>2. ASSUME NEW k \in 0 .. m - 1, k \in T PROVE k + 1 \in T
    <3>1. k + 1 \in 1 .. m /\ k + 1 \in 0 .. m /\ (k + 1) - 1 = k
      OBVIOUS
    <3>2. g[k + 1] = g[k] + w[k + 1] /\ h[k + 1] = h[k] + w[k + 1]
      BY <3>1 DEF Summing
    <3> QED
      BY <2>2, <3>1, <3>2
  <2> HIDE DEF T
  <2>3. 0 .. m \subseteq T
    BY <2>1, <2>2, SetInduction
  <2> QED
    BY <2>3 DEF T
<1> QED
  BY <1>1 DEF Summing

LEMMA SummingExists ==
  ASSUME NEW m \in Nat, NEW w \in [1 .. m -> Int]
  PROVE  \E g : Summing(g, w, m)
<1> DEFINE T == {k \in 0 .. m : \E g : Summing(g, w, k)}
<1>1. 0 \in T
  <2>1. Summing([n \in 0 .. 0 |-> 0], w, 0)
    BY DEF Summing
  <2> QED
    BY <2>1
<1>2. ASSUME NEW k \in 0 .. m - 1, k \in T PROVE k + 1 \in T
  <2>1. PICK g : Summing(g, w, k)
    BY <1>2
  <2> DEFINE h == [n \in 0 .. k + 1 |-> IF n = k + 1 THEN g[k] + w[k + 1] ELSE g[n]]
  <2>2. k \in Nat /\ k + 1 \in 1 .. m /\ k + 1 \in 0 .. m
    OBVIOUS
  <2>3. g \in [0 .. k -> Int] /\ g[0] = 0 /\ \A n \in 1 .. k : g[n] = g[n - 1] + w[n]
    BY <2>1 DEF Summing
  <2>4. w[k + 1] \in Int /\ g[k] \in Int
    BY <2>2, <2>3
  <2>5. h \in [0 .. k + 1 -> Int]
    BY <2>2, <2>3, <2>4
  <2>6. h[0] = 0
    BY <2>2, <2>3
  <2>7. ASSUME NEW n \in 1 .. k + 1 PROVE h[n] = h[n - 1] + w[n]
    <3>1. CASE n = k + 1
      BY <2>2, <3>1
    <3>2. CASE n # k + 1
      <4>1. n \in 1 .. k /\ n - 1 \in 0 .. k + 1 /\ n - 1 # k + 1 /\ n \in 0 .. k + 1
        BY <2>2, <3>2
      <4>2. h[n] = g[n] /\ h[n - 1] = g[n - 1]
        BY <3>2, <4>1
      <4> QED
        BY <2>3, <4>1, <4>2
    <3> QED
      BY <3>1, <3>2
  <2>8. Summing(h, w, k + 1)
    BY <2>5, <2>6, <2>7 DEF Summing
  <2> QED
    BY <2>2, <2>8
<1> HIDE DEF T
<1>3. 0 .. m \subseteq T
  BY <1>1, <1>2, SetInduction
<1>4. m \in T
  BY <1>3
<1> QED
  BY <1>4 DEF T

(* w(1) + ... + w(m). *)
SumTo(w, m) == (CHOOSE g : Summing(g, w, m))[m]

LEMMA SumIs ==
  ASSUME NEW m \in Nat, NEW w, NEW g, Summing(g, w, m)
  PROVE  SumTo(w, m) = g[m]
<1>1. Summing(CHOOSE h : Summing(h, w, m), w, m)
  OBVIOUS
<1>2. PICK h : h = CHOOSE f : Summing(f, w, m)
  OBVIOUS
<1>3. h = g
  BY <1>1, <1>2, SummingUnique
<1> QED
  BY <1>2, <1>3 DEF SumTo

LEMMA SumZero ==
  ASSUME NEW m \in Nat, NEW w, \A n \in 1 .. m : w[n] = 0
  PROVE  SumTo(w, m) = 0
<1>1. Summing([n \in 0 .. m |-> 0], w, m)
  BY DEF Summing
<1> QED
  BY <1>1, SumIs

(* One term larger by d. *)
LEMMA SumChange ==
  ASSUME NEW m \in Nat, NEW w \in [1 .. m -> Int], NEW v, NEW i \in 1 .. m, NEW d \in Int,
         \A n \in 1 .. m : v[n] = IF n = i THEN w[n] + d ELSE w[n]
  PROVE  SumTo(w, m) \in Int /\ SumTo(v, m) = SumTo(w, m) + d
<1>1. PICK g : Summing(g, w, m)
  BY SummingExists
<1>2. g \in [0 .. m -> Int] /\ g[0] = 0 /\ \A n \in 1 .. m : g[n] = g[n - 1] + w[n]
  BY <1>1 DEF Summing
<1> DEFINE h == [n \in 0 .. m |-> IF n >= i THEN g[n] + d ELSE g[n]]
<1>3. h \in [0 .. m -> Int] /\ h[0] = 0
  BY <1>2
<1>4. ASSUME NEW n \in 1 .. m PROVE h[n] = h[n - 1] + v[n]
  <2>1. n \in 0 .. m /\ n - 1 \in 0 .. m /\ w[n] \in Int /\ g[n - 1] \in Int /\ g[n] \in Int
    BY <1>2
  <2>2. g[n] = g[n - 1] + w[n]
    BY <1>2
  <2>3. CASE n = i
    <3>1. h[n] = g[n] + d /\ h[n - 1] = g[n - 1] /\ v[n] = w[n] + d
      BY <2>1, <2>3
    <3> QED
      BY ONLY <2>1, <2>2, <3>1, d \in Int
  <2>4. CASE n > i
    <3>1. h[n] = g[n] + d /\ h[n - 1] = g[n - 1] + d /\ v[n] = w[n]
      BY <2>1, <2>4
    <3> QED
      BY ONLY <2>1, <2>2, <3>1, d \in Int
  <2>5. CASE n < i
    <3>1. h[n] = g[n] /\ h[n - 1] = g[n - 1] /\ v[n] = w[n]
      BY <2>1, <2>5
    <3> QED
      BY ONLY <2>1, <2>2, <3>1
  <2> QED
    BY <2>3, <2>4, <2>5
<1>5. Summing(h, v, m)
  BY <1>3, <1>4 DEF Summing
<1>6. SumTo(w, m) = g[m] /\ SumTo(v, m) = h[m]
  BY <1>1, <1>5, SumIs
<1> QED
  BY <1>2, <1>6

LEMMA SumTimes ==
  ASSUME NEW m \in Nat, NEW w \in [1 .. m -> Int], NEW K \in Int, NEW v,
         \A n \in 1 .. m : v[n] = K * w[n]
  PROVE  SumTo(v, m) = K * SumTo(w, m)
<1>1. PICK g : Summing(g, w, m)
  BY SummingExists
<1>2. g \in [0 .. m -> Int] /\ g[0] = 0 /\ \A n \in 1 .. m : g[n] = g[n - 1] + w[n]
  BY <1>1 DEF Summing
<1> DEFINE h == [n \in 0 .. m |-> K * g[n]]
<1>3. \A a, b \in Int : K * (a + b) = K * a + K * b /\ K * a \in Int
  OBVIOUS
<1>4. h \in [0 .. m -> Int] /\ h[0] = 0
  BY <1>2, <1>3
<1>5. ASSUME NEW n \in 1 .. m PROVE h[n] = h[n - 1] + v[n]
  <2>1. n \in 0 .. m /\ n - 1 \in 0 .. m /\ w[n] \in Int /\ g[n - 1] \in Int
    BY <1>2
  <2>2. g[n] = g[n - 1] + w[n] /\ v[n] = K * w[n]
    BY <1>2
  <2>3. h[n] = K * g[n] /\ h[n - 1] = K * g[n - 1]
    BY <2>1
  <2> QED
    BY ONLY <1>3, <2>1, <2>2, <2>3
<1>6. Summing(h, v, m)
  BY <1>4, <1>5 DEF Summing
<1> QED
  BY <1>1, <1>6, SumIs

(* w where s has it, and 0 elsewhere. *)
Part(w, m, s) == [n \in 1 .. m |-> IF n \in s THEN w[n] ELSE 0]

Least(s) == CHOOSE x \in s : TRUE

(* f adds w up over the subsets of 1 .. m, an element at a time. *)
Adding(f, w, m) ==
  f = [s \in SUBSET (1 .. m) |-> IF s = {} THEN 0 ELSE w[Least(s)] + f[s \ {Least(s)}]]

LEMMA PartAdds ==
  ASSUME NEW m \in Nat, NEW w \in [1 .. m -> Int], NEW s \in SUBSET (1 .. m), NEW i \in s
  PROVE  SumTo(Part(w, m, s), m) = w[i] + SumTo(Part(w, m, s \ {i}), m)
<1>1. PICK u : u = Part(w, m, s \ {i})
  OBVIOUS
<1>2. PICK v : v = Part(w, m, s)
  OBVIOUS
<1>3. PICK d : d = w[i]
  OBVIOUS
<1>4. u \in [1 .. m -> Int] /\ i \in 1 .. m /\ d \in Int
  BY <1>1, <1>3 DEF Part
<1>5. \A n \in 1 .. m : v[n] = IF n = i THEN u[n] + d ELSE u[n]
  BY <1>1, <1>2, <1>3 DEF Part
<1>6. SumTo(u, m) \in Int /\ SumTo(v, m) = SumTo(u, m) + d
  BY ONLY m \in Nat, <1>4, <1>5, SumChange
<1>7. SumTo(v, m) = d + SumTo(u, m)
  BY ONLY <1>4, <1>6
<1> QED
  BY <1>1, <1>2, <1>3, <1>7

LEMMA AddingExists ==
  ASSUME NEW m \in Nat, NEW w \in [1 .. m -> Int]
  PROVE  Adding([s \in SUBSET (1 .. m) |-> SumTo(Part(w, m, s), m)], w, m)
<1> DEFINE f == [s \in SUBSET (1 .. m) |-> SumTo(Part(w, m, s), m)]
<1>1. ASSUME NEW s \in SUBSET (1 .. m), s = {} PROVE f[s] = 0
  <2>1. \A n \in 1 .. m : Part(w, m, s)[n] = 0
    BY <1>1 DEF Part
  <2> QED
    BY <2>1, SumZero
<1>2. ASSUME NEW s \in SUBSET (1 .. m), s # {}
      PROVE  f[s] = w[Least(s)] + f[s \ {Least(s)}]
  <2>1. Least(s) \in s
    BY <1>2 DEF Least
  <2>2. SumTo(Part(w, m, s), m) = w[Least(s)] + SumTo(Part(w, m, s \ {Least(s)}), m)
    BY <2>1, PartAdds
  <2> QED
    BY <2>2
<1>3. f = [s \in SUBSET (1 .. m) |-> f[s]]
  OBVIOUS
<1> HIDE DEF f
<1>4. f = [s \in SUBSET (1 .. m) |-> IF s = {} THEN 0 ELSE w[Least(s)] + f[s \ {Least(s)}]]
  BY <1>1, <1>2, <1>3
<1> QED
  BY <1>4 DEF Adding, f

LEMMA AddingUnique ==
  ASSUME NEW m \in Nat, NEW w, NEW f, NEW g, Adding(f, w, m), Adding(g, w, m)
  PROVE  f = g
<1>1. /\ f = [s \in SUBSET (1 .. m) |-> IF s = {} THEN 0 ELSE w[Least(s)] + f[s \ {Least(s)}]]
      /\ g = [s \in SUBSET (1 .. m) |-> IF s = {} THEN 0 ELSE w[Least(s)] + g[s \ {Least(s)}]]
  BY DEF Adding
<1>2. /\ \A s \in SUBSET (1 .. m) :
             f[s] = IF s = {} THEN 0 ELSE w[Least(s)] + f[s \ {Least(s)}]
      /\ \A s \in SUBSET (1 .. m) :
             g[s] = IF s = {} THEN 0 ELSE w[Least(s)] + g[s \ {Least(s)}]
  BY <1>1
<1>3. IsFiniteSet(1 .. m) /\ Cardinality(1 .. m) = m
  BY FS_Interval
<1> DEFINE T == {k \in 0 .. m : \A s \in SUBSET (1 .. m) : Cardinality(s) = k => f[s] = g[s]}
<1>4. 0 \in T
  <2>1. ASSUME NEW s \in SUBSET (1 .. m), Cardinality(s) = 0 PROVE f[s] = g[s]
    <3>1. s = {}
      BY <1>3, <2>1, FS_Subset, FS_EmptySet
    <3> QED
      BY <1>2, <3>1
  <2> QED
    BY <2>1
<1>5. ASSUME NEW k \in 0 .. m - 1, k \in T PROVE k + 1 \in T
  <2>1. ASSUME NEW s \in SUBSET (1 .. m), Cardinality(s) = k + 1 PROVE f[s] = g[s]
    <3>1. IsFiniteSet(s) /\ s # {}
      <4>1. IsFiniteSet(s)
        BY <1>3, FS_Subset
      <4>2. Cardinality({}) = 0
        BY FS_EmptySet
      <4> QED
        BY <2>1, <4>1, <4>2
    <3>2. PICK x : x = Least(s)
      OBVIOUS
    <3>3. x \in s
      BY <3>1, <3>2 DEF Least
    <3>4. Cardinality(s \ {x}) = k
      <4>1. Cardinality(s \ {x}) = Cardinality(s) - 1
        BY <3>1, <3>3, FS_RemoveElement
      <4> QED
        BY <2>1, <4>1
    <3>5. f[s \ {x}] = g[s \ {x}]
      BY <1>5, <3>4
    <3>6. f[s] = w[x] + f[s \ {x}] /\ g[s] = w[x] + g[s \ {x}]
      BY <1>2, <3>1, <3>2
    <3> QED
      BY <3>5, <3>6
  <2>2. k + 1 \in 0 .. m
    OBVIOUS
  <2> QED
    BY <2>1, <2>2
<1> HIDE DEF T
<1>6. 0 .. m \subseteq T
  BY <1>4, <1>5, SetInduction
<1>7. ASSUME NEW s \in SUBSET (1 .. m) PROVE f[s] = g[s]
  <2>1. Cardinality(s) \in 0 .. m
    <3>1. IsFiniteSet(s) /\ Cardinality(s) <= m /\ Cardinality(s) \in Nat
      BY <1>3, FS_Subset, FS_CardinalityType
    <3> QED
      BY <3>1
  <2> QED
    BY <1>6, <2>1 DEF T
<1>8. f = [s \in SUBSET (1 .. m) |-> f[s]] /\ g = [s \in SUBSET (1 .. m) |-> g[s]]
  BY <1>1
<1> QED
  BY <1>7, <1>8

LEMMA AddsUp ==
  ASSUME NEW m \in Nat, NEW w \in [1 .. m -> Int]
  PROVE  (CHOOSE f : Adding(f, w, m))[1 .. m] = SumTo(w, m)
<1> DEFINE F == [s \in SUBSET (1 .. m) |-> SumTo(Part(w, m, s), m)]
<1>1. Adding(F, w, m)
  BY AddingExists
<1>2. F[1 .. m] = SumTo(w, m)
  <2>1. Part(w, m, 1 .. m) = w
    BY DEF Part
  <2> QED
    BY <2>1
<1> HIDE DEF F
<1>3. PICK f : f = CHOOSE g : Adding(g, w, m)
  OBVIOUS
<1>4. Adding(f, w, m)
  BY <1>1, <1>3
<1>5. f = F
  BY <1>1, <1>4, AddingUnique
<1> QED
  BY <1>2, <1>3, <1>5

-----------------------------------------------------------------------------
(* The totals of an audit. *)

(* The producers whose n-th record is in the file. *)
Got(n) == {p \in Producers : \E i \in 1 .. Len(file) : file[i] = <<p, n>>}

Tally == [n \in 1 .. MaxItems |-> Cardinality(Got(n)) * ProfitOf(n)]

AuditOK == Audits => count = Len(file) /\ profit = SumTo(Tally, MaxItems)

LEMMA ProfitIsInt ==
  ASSUME NEW n \in Int
  PROVE  ProfitOf(n) \in Int
<1>1. (n - 1) % 5 \in Int /\ (n - 1) % 7 \in Int
  OBVIOUS
<1> QED
  BY ONLY <1>1 DEF ProfitOf

LEMMA GotIsFinite ==
  ASSUME NEW n
  PROVE  IsFiniteSet(Got(n)) /\ Cardinality(Got(n)) \in Nat
BY ProgramAssumption, FS_Subset, FS_CardinalityType DEF Got

LEMMA AuditInit == EngineInit => AuditOK
<1> SUFFICES ASSUME EngineInit PROVE count = Len(file) /\ profit = SumTo(Tally, MaxItems)
  BY DEF AuditOK
<1>1. count = Len(file) /\ profit = 0 /\ Len(file) = 0
  BY DEF EngineInit
<1>2. \A n \in 1 .. MaxItems : Tally[n] = 0
  <2> SUFFICES ASSUME NEW n \in 1 .. MaxItems PROVE Tally[n] = 0
    OBVIOUS
  <2>1. Got(n) = {}
    BY <1>1 DEF Got
  <2>2. Cardinality(Got(n)) = 0
    BY <2>1, FS_EmptySet
  <2>3. ProfitOf(n) \in Int
    BY ProfitIsInt, n \in Int
  <2>4. 0 * ProfitOf(n) = 0
    BY ONLY <2>3
  <2> QED
    BY <2>2, <2>4 DEF Tally
<1>3. SumTo(Tally, MaxItems) = 0
  BY <1>2, BoundAssumption, SumZero
<1> QED
  BY <1>1, <1>3

(* The record the logger prints is one the file does not have yet. *)
LEMMA PrintedIsNew ==
  ASSUME QueueInv, EngineType, LogOK, PlacedOK, PrintRecord
  PROVE  \E q \in Producers : \E m \in 1 .. MaxItems :
           /\ local[Logger] = <<q, m>> /\ q \notin Got(m)
           /\ Got(m)' = Got(m) \union {q}
           /\ \A n \in 1 .. MaxItems : n # m => Got(n)' = Got(n)
<1>1. /\ lpc = "print" /\ file' = Append(file, local[Logger]) /\ file \in Seq(Items)
      /\ Len(file) \in Nat
  BY DEF PrintRecord, EngineType
<1>2. PICK k : k = Len(file) + 1
  OBVIOUS
<1>3. k \in 1 .. tail /\ local[Logger] = placed[k] /\ local[Logger] \in Items
  BY <1>1, <1>2, LogFacts
<1>4. PICK q \in Producers : \E n \in 1 .. sent[q] : placed[k] = <<q, n>>
  BY <1>3 DEF PlacedOK
<1>5. PICK m \in 1 .. sent[q] : placed[k] = <<q, m>>
  BY <1>4
<1>6. m \in 1 .. MaxItems
  <2>1. sent[q] \in Nat /\ sent[q] <= MaxItems
    BY DEF PlacedOK, QueueInv, TypeOK
  <2> QED
    BY ONLY <2>1, m \in 1 .. sent[q], BoundAssumption
<1>7. PICK r : r = <<q, m>>
  OBVIOUS
<1>8. /\ Len(file') = k /\ file'[k] = r
      /\ \A i \in 1 .. Len(file) : file'[i] = file[i]
  BY <1>1, <1>2, <1>3, <1>5, <1>7, AppendKeeps
<1>9. \A i \in 1 .. Len(file) : i # k /\ i \in 1 .. tail /\ file[i] = placed[i] /\ i \in 1 .. k
  <2>1. \A i \in 1 .. Len(file) : i # k /\ i \in 1 .. tail /\ i \in 1 .. k
    <3>1. tail \in Nat
      BY TypeFacts
    <3> QED
      BY ONLY <1>1, <1>2, <1>3, <3>1
  <2> QED
    BY <2>1 DEF LogOK
<1>10. \A i \in 1 .. Len(file) : file[i] # r
  BY <1>3, <1>5, <1>7, <1>9 DEF PlacedOK
<1>11. \A i \in 1 .. k : i \in 1 .. Len(file) \/ i = k
  BY ONLY <1>1, <1>2
<1>12. k \in 1 .. k
  BY ONLY <1>1, <1>2
<1>13. \A p, n : (\E i \in 1 .. Len(file') : file'[i] = <<p, n>>)
                 <=> (\E i \in 1 .. Len(file) : file[i] = <<p, n>>) \/ <<p, n>> = r
  BY <1>8, <1>9, <1>11, <1>12
<1>14. q \notin Got(m)
  BY <1>7, <1>10 DEF Got
<1>15. \A n : Got(n)' = {p \in Producers : p \in Got(n) \/ <<p, n>> = r}
  BY <1>13 DEF Got
<1>16. Got(m)' = Got(m) \union {q}
  <2>1. \A p : <<p, m>> = r <=> p = q
    BY <1>7
  <2>2. Got(m) \subseteq Producers
    BY DEF Got
  <2> QED
    BY <1>15, <2>1, <2>2
<1>17. \A n \in 1 .. MaxItems : n # m => Got(n)' = Got(n)
  BY <1>7, <1>15 DEF Got
<1> QED
  BY <1>3, <1>5, <1>6, <1>14, <1>16, <1>17

LEMMA AuditStep ==
  ASSUME EngineInv, AuditOK, [EngineNext]_vars
  PROVE  AuditOK'
<1>0. kind' = kind /\ Audits' = Audits
  BY DEF EngineNext, Produce, LoggerStep, OpenLog, TestRunning, CallDequeue, InDequeue,
         PrintRecord, Empty, MainStep, JoinProducers, AwaitDrained, JoinLogger, vars, evars, Audits
<1>1. CASE UNCHANGED <<file, count, profit>>
  <2>1. \A n : Got(n)' = Got(n) /\ ProfitOf(n)' = ProfitOf(n)
    BY <1>0, <1>1 DEF Got, ProfitOf
  <2>2. Tally' = Tally
    BY <2>1 DEF Tally
  <2> QED
    BY <1>0, <1>1, <2>2 DEF AuditOK
<1>2. CASE PrintRecord
  <2> SUFFICES ASSUME Audits PROVE count' = Len(file') /\ profit' = SumTo(Tally', MaxItems)
    BY <1>0 DEF AuditOK
  <2>1. PICK q \in Producers : \E m \in 1 .. MaxItems :
           /\ local[Logger] = <<q, m>> /\ q \notin Got(m)
           /\ Got(m)' = Got(m) \union {q}
           /\ \A n \in 1 .. MaxItems : n # m => Got(n)' = Got(n)
    BY <1>2, PrintedIsNew DEF EngineInv
  <2>2. PICK m \in 1 .. MaxItems :
           /\ local[Logger] = <<q, m>> /\ q \notin Got(m)
           /\ Got(m)' = Got(m) \union {q}
           /\ \A n \in 1 .. MaxItems : n # m => Got(n)' = Got(n)
    BY <2>1
  <2>3. count' = count + 1 /\ profit' = profit + ProfitOf(m)
    BY <1>2, <2>2 DEF PrintRecord
  <2>4. count' = Len(file')
    <3>1. file' = Append(file, local[Logger]) /\ file \in Seq(Items) /\ lpc = "print"
      BY <1>2 DEF PrintRecord, EngineInv, EngineType
    <3>2. Len(file') = Len(file) + 1
      BY <3>1, LogFacts, AppendKeeps DEF EngineInv
    <3> QED
      BY <2>3, <3>2 DEF AuditOK
  <2>5. \A n \in 1 .. MaxItems : ProfitOf(n)' = ProfitOf(n) /\ ProfitOf(n) \in Int
    BY <1>0, ProfitIsInt DEF ProfitOf
  <2>6. Tally \in [1 .. MaxItems -> Int]
    <3>1. \A n \in 1 .. MaxItems : Cardinality(Got(n)) * ProfitOf(n) \in Int
      BY <2>5, GotIsFinite
    <3> QED
      BY <3>1 DEF Tally
  <2>7. \A n \in 1 .. MaxItems : Tally'[n] = IF n = m THEN Tally[n] + ProfitOf(m) ELSE Tally[n]
    <3> SUFFICES ASSUME NEW n \in 1 .. MaxItems
                 PROVE  Tally'[n] = IF n = m THEN Tally[n] + ProfitOf(m) ELSE Tally[n]
      OBVIOUS
    <3>1. Tally[n] = Cardinality(Got(n)) * ProfitOf(n)
      BY DEF Tally
    <3>2. Tally'[n] = Cardinality(Got(n)') * ProfitOf(n)
      BY <2>5 DEF Tally
    <3>3. CASE n = m
      <4>1. Cardinality(Got(m)') = Cardinality(Got(m)) + 1
        BY <2>2, GotIsFinite, FS_AddElement
      <4>2. ProfitOf(m) \in Int /\ Cardinality(Got(m)) \in Int
        BY <2>5, GotIsFinite
      <4>3. \A a, b \in Int : (a + 1) * b = a * b + b
        OBVIOUS
      <4> QED
        BY <3>1, <3>2, <3>3, <4>1, <4>2, <4>3
    <3>4. CASE n # m
      BY <2>2, <3>1, <3>2, <3>4
    <3> QED
      BY <3>3, <3>4
  <2>8. SumTo(Tally', MaxItems) = SumTo(Tally, MaxItems) + ProfitOf(m)
    <3>1. MaxItems \in Nat /\ ProfitOf(m) \in Int
      BY <2>5, BoundAssumption
    <3>2. PICK u : u = Tally
      OBVIOUS
    <3>3. PICK v : v = Tally'
      OBVIOUS
    <3>4. SumTo(v, MaxItems) = SumTo(u, MaxItems) + ProfitOf(m)
      BY <2>6, <2>7, <3>1, <3>2, <3>3, SumChange
    <3> QED
      BY <3>2, <3>3, <3>4
  <2> QED
    BY <2>3, <2>4, <2>8 DEF AuditOK
<1>3. UNCHANGED <<file, count, profit>> \/ PrintRecord
  BY DEF EngineNext, Produce, LoggerStep, OpenLog, TestRunning, CallDequeue, InDequeue,
         Empty, MainStep, JoinProducers, AwaitDrained, JoinLogger, vars, evars
<1> QED
  BY <1>1, <1>2, <1>3

(* A file as long as the target has every record of every producer. *)
LEMMA FullFile ==
  ASSUME EngineInv, Len(file) = Target, NEW n \in 1 .. MaxItems
  PROVE  Got(n) = Producers
<1> DEFINE N == 1 .. MaxItems
           T == Producers \X N
           I == 1 .. Target
<1>1. MaxItems \in Nat /\ tail \in Nat /\ Target \in Nat /\ Target <= tail
  BY BoundAssumption, TypeFacts, TargetIsNat, LogFacts DEF EngineInv
<1>2. IsFiniteSet(N) /\ Cardinality(N) = MaxItems
  BY ONLY <1>1, ProgramAssumption, FS_Interval
<1>3. IsFiniteSet(T) /\ Cardinality(T) = Target
  BY <1>2, ProgramAssumption, FS_Product DEF Target
<1>4. IsFiniteSet(I) /\ Cardinality(I) = Target
  BY ONLY <1>1, FS_Interval
<1>5. \A i \in I : i \in 1 .. tail /\ file[i] = placed[i]
  <2>1. \A i \in I : i \in 1 .. tail
    BY ONLY <1>1
  <2> QED
    BY <2>1 DEF EngineInv, LogOK
<1>6. file \in [I -> T]
  <2>1. ASSUME NEW i \in I PROVE file[i] \in T
    <3>1. PICK p \in Producers : \E k \in 1 .. sent[p] : placed[i] = <<p, k>>
      BY <1>5 DEF EngineInv, PlacedOK
    <3>2. PICK k \in 1 .. sent[p] : placed[i] = <<p, k>>
      BY <3>1
    <3>3. sent[p] \in Nat /\ sent[p] <= MaxItems
      BY DEF EngineInv, PlacedOK, QueueInv, TypeOK
    <3>4. k \in N
      BY ONLY <1>1, <3>2, <3>3
    <3>5. file[i] = <<p, k>>
      BY <1>5, <3>2
    <3>6. <<p, k>> \in T
      BY <3>4
    <3> QED
      BY ONLY <3>5, <3>6
  <2>2. file \in Seq(Items)
    BY DEF EngineInv, EngineType
  <2> QED
    BY <2>1, <2>2
<1>7. file \in Injection(I, T)
  <2>1. \A i, j \in I : file[i] = file[j] => i = j
    BY <1>5 DEF EngineInv, PlacedOK
  <2> QED
    BY ONLY <1>6, <2>1 DEF Injection, IsInjective
<1>8. file \in Surjection(I, T)
  BY ONLY <1>3, <1>4, <1>7, FS_Injection
<1>9. ASSUME NEW p \in Producers PROVE p \in Got(n)
  <2>1. PICK r : r = <<p, n>>
    OBVIOUS
  <2>2. r \in T
    BY <2>1
  <2> HIDE DEF T
  <2>3. \E i \in I : file[i] = r
    BY <1>8, <2>2 DEF Surjection
  <2> QED
    BY <2>1, <2>3 DEF Got
<1> QED
  BY <1>9 DEF Got

(* The totals an audit prints are those of the records in its file: all of *)
(* them, each counted once, although the logger adds them up unlocked.     *)
THEOREM TotalsAreTrue == EngineSpec => []TotalsMatchFile
<1>1. EngineInv /\ NoFalseSuccess /\ AuditOK => TotalsMatchFile
  <2> SUFFICES ASSUME EngineInv, NoFalseSuccess, AuditOK, mpc = "success", Audits
               PROVE  /\ count = Len(file)
                      /\ profit = Cardinality(Producers) * MapThenSumSet(ProfitOf, 1 .. MaxItems)
    BY DEF TotalsMatchFile
  <2> DEFINE w == [n \in 1 .. MaxItems |-> ProfitOf(n)]
  <2>1. count = Len(file) /\ profit = SumTo(Tally, MaxItems) /\ Len(file) = Target
    BY DEF AuditOK, NoFalseSuccess
  <2>2. MaxItems \in Nat /\ Cardinality(Producers) \in Int
    BY BoundAssumption, ProgramAssumption, FS_CardinalityType
  <2>3. w \in [1 .. MaxItems -> Int]
    BY ProfitIsInt
  <2>4. \A n \in 1 .. MaxItems : Tally[n] = Cardinality(Producers) * w[n]
    BY <2>1, FullFile DEF Tally
  <2>5. PICK iter : iter = CHOOSE f : f = [s \in SUBSET (1 .. MaxItems) |->
                      IF s = {} THEN 0
                      ELSE ProfitOf(CHOOSE x \in s : TRUE) + f[s \ {CHOOSE x \in s : TRUE}]]
    OBVIOUS
  <2>6. MapThenSumSet(ProfitOf, 1 .. MaxItems) = iter[1 .. MaxItems]
    BY <2>5 DEF MapThenSumSet, MapThenFoldSet
  <2>7. iter = CHOOSE f : Adding(f, w, MaxItems)
    <3>1. \A s \in SUBSET (1 .. MaxItems) : s # {} => w[Least(s)] = ProfitOf(CHOOSE x \in s : TRUE)
      BY DEF Least
    <3>2. \A f : [s \in SUBSET (1 .. MaxItems) |->
                    IF s = {} THEN 0
                    ELSE ProfitOf(CHOOSE x \in s : TRUE) + f[s \ {CHOOSE x \in s : TRUE}]]
               = [s \in SUBSET (1 .. MaxItems) |->
                    IF s = {} THEN 0 ELSE w[Least(s)] + f[s \ {Least(s)}]]
      BY <3>1 DEF Least
    <3> QED
      BY <2>5, <3>2 DEF Adding
  <2> HIDE DEF w
  <2>8. iter[1 .. MaxItems] = SumTo(w, MaxItems)
    BY <2>2, <2>3, <2>7, AddsUp
  <2>9. SumTo(Tally, MaxItems) = Cardinality(Producers) * SumTo(w, MaxItems)
    BY <2>2, <2>3, <2>4, SumTimes
  <2> QED
    BY <2>1, <2>6, <2>8, <2>9
<1>2. EngineInv /\ AuditOK /\ [EngineNext]_vars => AuditOK'
  BY AuditStep
<1> QED
  BY <1>1, <1>2, AuditInit, EngineInvariant, SuccessIsTrue, PTL DEF EngineSpec
=============================================================================
