----------------------------- MODULE MpmcEngine ------------------------------
(***************************************************************************)
(* The five programs built around the queue of MpmcQueue: main, the        *)
(* producer threads and the one logger thread that takes their records to  *)
(* the log file.                                                           *)
(*   "master"            src/sovereign_master.c                            *)
(*   "audit", "shadow"   src/audit_engine.c, src/shadow_arbitrage.c: the   *)
(*                       logger also adds up count and profit              *)
(*   "bench"             src/core128_bench.c, src/massive_bench.c: the     *)
(*                       logger counts to a target of its own              *)
(***************************************************************************)
EXTENDS MpmcQueue, FiniteSetsExt

CONSTANTS
  Logger,     (* the logger thread                                         *)
  Kinds       (* the programs of this instance                             *)

ASSUME LoggerAssumption == Consumers = {Logger}
ASSUME KindAssumption == Kinds \subseteq {"master", "audit", "shadow", "bench"}
(* NUM_PRODUCERS and the number of their records: neither is 0 in any of   *)
(* the programs, whose main would else not notice a logger without a file. *)
ASSUME ProgramAssumption == IsFiniteSet(Producers) /\ Producers # {} /\ MaxItems > 0

VARIABLES
  kind,       (* which program this is                                     *)
  running,    (* running                                                   *)
  mpc,        (* where main is                                             *)
  lpc,        (* where the logger's loop is                                *)
  file,       (* records printed to the log file                           *)
  count,      (* executed_count                                            *)
  profit      (* total_profit                                              *)

evars == <<kind, running, mpc, lpc, file, count, profit>>
vars == <<qvars, evars>>

Target == Cardinality(Producers) * MaxItems

Audits == kind \in {"audit", "shadow"}

(* net_profit_fixed of the n-th record of a producer, whose i is n - 1. *)
ProfitOf(n) == IF kind = "audit" THEN 20000 + ((n - 1) % 5) * 150 - 1200
                                 ELSE 25000 + ((n - 1) % 7) * 100 - 1500

EngineInit ==
  /\ Init
  /\ kind \in Kinds
  /\ running = 1
  /\ mpc = "join" /\ lpc = "open"
  /\ file = <<>> /\ count = 0 /\ profit = 0

-----------------------------------------------------------------------------
(* The producers: MaxItems enqueues each. *)

Produce(p) ==
  /\ Enqueue(p) \/ ProducerStep(p)
  /\ UNCHANGED evars

Finished(p) == pc[p] = "idle" /\ sent[p] = MaxItems

-----------------------------------------------------------------------------
(* The logger. *)

(* Without its file the logger returns at once. *)
OpenLog ==
  /\ lpc = "open"
  /\ lpc' \in {"test", "failed"}
  /\ UNCHANGED <<qvars, kind, running, mpc, file, count, profit>>

(* Mutant of TestRunning: the loop does not end.                           *)
TestRunningNever ==
  /\ lpc = "test"
  /\ lpc' = "dequeue"
  /\ UNCHANGED <<qvars, kind, running, mpc, file, count, profit>>

(* The while test, and fclose when it fails.  head and tail are still once *)
(* running is 0: every producer has been joined.                           *)
TestRunning ==
  /\ lpc = "test"
  /\ IF kind = "bench"
       THEN lpc' = IF Len(file) < Target THEN "dequeue" ELSE "closed"
       ELSE lpc' = IF running = 1 \/ head # tail THEN "dequeue" ELSE "closed"
  /\ UNCHANGED <<qvars, kind, running, mpc, file, count, profit>>

CallDequeue ==
  /\ lpc = "dequeue"
  /\ Dequeue(Logger)
  /\ lpc' = "inDequeue"
  /\ UNCHANGED <<kind, running, mpc, file, count, profit>>

(* The dequeue returns 1 from its release, and 0 from its check. *)
InDequeue ==
  /\ lpc = "inDequeue"
  /\ ConsumerStep(Logger)
  /\ lpc' = IF pc'[Logger] # "idle" THEN lpc
            ELSE IF pc[Logger] = "release" THEN "print" ELSE "empty"
  /\ UNCHANGED <<kind, running, mpc, file, count, profit>>

(* The record, and the two counters that main reads only after the join. *)
PrintRecord ==
  /\ lpc = "print"
  /\ file' = Append(file, local[Logger])
  /\ IF Audits
       THEN count' = count + 1 /\ profit' = profit + ProfitOf(local[Logger][2])
       ELSE UNCHANGED <<count, profit>>
  /\ lpc' = "test"
  /\ UNCHANGED <<qvars, kind, running, mpc>>

(* usleep; the benchmarks break out of their loop once running is 0. *)
Empty ==
  /\ lpc = "empty"
  /\ lpc' = IF kind = "bench" /\ running = 0 THEN "closed" ELSE "test"
  /\ UNCHANGED <<qvars, kind, running, mpc, file, count, profit>>

LoggerStep ==
  \/ OpenLog
  \/ TestRunning
  \/ CallDequeue
  \/ InDequeue
  \/ PrintRecord
  \/ Empty

-----------------------------------------------------------------------------
(* main. *)

JoinProducers ==
  /\ mpc = "join"
  /\ \A p \in Producers : Finished(p)
  /\ mpc' = "await"
  /\ UNCHANGED <<qvars, kind, running, lpc, file, count, profit>>

(* The poll of head sees the target; running is cleared.  The last record  *)
(* is claimed by then, and not yet read or printed.                        *)
AwaitDrained ==
  /\ mpc = "await"
  /\ head >= Target
  /\ running' = 0
  /\ mpc' = "joinLogger"
  /\ UNCHANGED <<qvars, kind, lpc, file, count, profit>>

(* Mutant of JoinLogger: the totals are printed without the join.          *)
JoinLoggerNever ==
  /\ mpc = "joinLogger"
  /\ mpc' = "success"
  /\ UNCHANGED <<qvars, kind, running, lpc, file, count, profit>>

(* pthread_join and the SUCCESS line with its totals. *)
JoinLogger ==
  /\ mpc = "joinLogger"
  /\ lpc \in {"closed", "failed"}
  /\ mpc' = "success"
  /\ UNCHANGED <<qvars, kind, running, lpc, file, count, profit>>

MainStep == JoinProducers \/ AwaitDrained \/ JoinLogger

EngineNext ==
  \/ \E p \in Producers : Produce(p)
  \/ LoggerStep
  \/ MainStep

(* Every thread runs on, a relaxed load in the end returns the current     *)
(* value, and a weak exchange does not fail for ever without a reason.     *)
Fairness ==
  /\ \A p \in Producers : /\ WF_vars(Produce(p))
                          /\ SF_vars(Produce(p) /\ LoadTail(p) /\ pos'[p] = tail)
                          /\ SF_vars(Produce(p) /\ CasTail(p) /\ tail' = tail + 1)
  /\ WF_vars(LoggerStep)
  /\ SF_vars(InDequeue /\ LoadHead(Logger) /\ pos'[Logger] = head)
  /\ SF_vars(InDequeue /\ CasHead(Logger) /\ head' = head + 1)
  /\ WF_vars(MainStep)

EngineSpec == EngineInit /\ [][EngineNext]_vars /\ Fairness

-----------------------------------------------------------------------------
(* Properties. *)

EngineTypeOK ==
  /\ TypeOK
  /\ kind \in Kinds
  /\ running \in {0, 1}
  /\ mpc \in {"join", "await", "joinLogger", "success"}
  /\ lpc \in {"open", "test", "dequeue", "inDequeue", "print", "empty", "closed", "failed"}
  /\ file \in Seq(Items)
  /\ count \in Nat /\ profit \in Nat

(* At any time the log file holds a prefix of what was enqueued, in the    *)
(* order of the exchanges on tail: no record is lost, repeated or swapped. *)
FileIsPrefix ==
  Len(file) <= tail /\ file = SubSeq(placed, 1, Len(file))

(* A SUCCESS line is true: every record of every producer is in a closed   *)
(* log file, although main stops the logger while the last one is on its   *)
(* way, and a program whose log file could not be opened prints none.      *)
NoFalseSuccess ==
  mpc = "success" => lpc = "closed" /\ Len(file) = Target

(* The totals an audit prints are those of the records in its file.        *)
TotalsMatchFile ==
  mpc = "success" /\ Audits =>
    /\ count = Len(file)
    /\ profit = Cardinality(Producers) * MapThenSumSet(ProfitOf, 1 .. MaxItems)

(* The program ends, for any size of the queue and any timing, when its    *)
(* log file can be opened.                                                 *)
Terminates == <>(mpc = "success" \/ lpc = "failed")
=============================================================================
