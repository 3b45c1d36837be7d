----------------------------- MODULE SpscEngine ------------------------------
(***************************************************************************)
(* The programs with one producer and one consumer on a ring:              *)
(*   "engine"  src/engine.c: main logs a heartbeat until a signal comes,   *)
(*             the logger thread prints the ring to the log file           *)
(*   "bench"   src/live_bench.c: main logs a fixed number of events and    *)
(*             waits for the ring to drain                                 *)
(*   "spsc"    sip_spsc_ring.h with tests/test_spsc_ring.c: a producer     *)
(*             thread pushes and a consumer thread pops a fixed number     *)
(*   "json"    engine.py with utils/logger.py: the same as "engine" in     *)
(*             Python, over a queue.Queue, until a KeyboardInterrupt       *)
(* In "spsc" Main is the producer thread and main's join of both threads.  *)
(***************************************************************************)
EXTENDS Integers, Sequences, SequencesExt

CONSTANTS
  Kinds,      (* the programs of this instance                             *)
  Size,       (* QUEUE_SIZE, capacity, or maxsize of the queue             *)
  Total       (* TOTAL_EVENTS; bound of the endless loops otherwise        *)

ASSUME KindAssumption == Kinds \subseteq {"engine", "bench", "spsc", "json"}
ASSUME SizeAssumption == Size \in Nat \ {0} /\ Total \in Nat \ {0}

VARIABLES
  kind,       (* which program this is                                     *)
  items,      (* the slots of the ring                                     *)
  head, tail, (* consumer's and producer's index                           *)
  lock,       (* the spinlock of log_event                                 *)
  running,    (* running; for "json", 1 until _stop_event is set           *)
  keep,       (* keep_running; for "json", 1 until the interrupt           *)
  mpc,        (* where main (the producer) is                              *)
  n,          (* the event it logs                                         *)
  t, h,       (* its t and h                                               *)
  accepted,   (* history: events put into the ring                         *)
  wpc,        (* where the logger (the consumer) is                        *)
  wh, event,  (* its h and event                                           *)
  file        (* events printed (popped)                                   *)

ringvars == <<items, head, tail>>
mainvars == <<lock, keep, mpc, n, t, h, accepted>>
loggervars == <<wpc, wh, event, file>>
vars == <<kind, ringvars, running, mainvars, loggervars>>

Slot(k) == k % Size

Init ==
  /\ kind \in Kinds
  /\ items = [s \in 0..(Size - 1) |-> 0]
  /\ head = 0 /\ tail = 0
  /\ lock = 0 /\ running = 0 /\ keep = 1
  /\ mpc = "start" /\ n = 1 /\ t = 0 /\ h = 0
  /\ accepted = <<>>
  /\ wpc = "none" /\ wh = 0 /\ event = 0
  /\ file = <<>>

-----------------------------------------------------------------------------
(* main. *)

(* The ring is initialised and the thread created: only "spsc" has no file *)
(* to open.  A signal that came before running = 1 is kept in keep.        *)
Start ==
  /\ mpc = "start"
  /\ running' = 1
  /\ mpc' = IF kind \in {"engine", "bench"} THEN "lock" ELSE "read"
  /\ wpc' = IF kind = "spsc" THEN "test" ELSE "open"
  /\ UNCHANGED <<kind, ringvars, lock, keep, n, t, h, accepted, wh, event,
                 file>>

Lock ==
  /\ mpc = "lock" /\ lock = 0
  /\ lock' = 1
  /\ mpc' = "read"
  /\ UNCHANGED <<kind, ringvars, running, keep, n, t, h, accepted, loggervars>>

(* t and h; tail is the producer's own, so the two loads are one step. *)
ReadIndices ==
  /\ mpc = "read" /\ kind # "json"
  /\ t' = tail /\ h' = head
  /\ mpc' = "check"
  /\ UNCHANGED <<kind, ringvars, running, lock, keep, n, accepted, loggervars>>

(* Mutant of Check: the loop on a full ring does not load head again.      *)
CheckStale ==
  /\ mpc = "check"
  /\ \/ t - h < Size /\ mpc' = "write" /\ UNCHANGED lock
     \/ t - h >= Size /\ kind = "engine" /\ mpc' = "unlock" /\ UNCHANGED lock
     \/ t - h >= Size /\ kind = "bench" /\ mpc' = "check" /\ UNCHANGED lock
     \/ t - h >= Size /\ kind = "spsc" /\ mpc' = "check" /\ UNCHANGED lock
  /\ UNCHANGED <<kind, ringvars, running, keep, n, t, h, accepted, loggervars>>

(* On a full ring log_event drops the event, the benchmark gives the lock  *)
(* back for a while, and the producer thread of the test tries again.      *)
Check ==
  /\ mpc = "check"
  /\ \/ t - h < Size /\ mpc' = "write" /\ UNCHANGED lock
     \/ t - h >= Size /\ kind = "engine" /\ mpc' = "unlock" /\ UNCHANGED lock
     \/ t - h >= Size /\ kind = "bench" /\ mpc' = "lock" /\ lock' = 0
     \/ t - h >= Size /\ kind = "spsc" /\ mpc' = "read" /\ UNCHANGED lock
  /\ UNCHANGED <<kind, ringvars, running, keep, n, t, h, accepted, loggervars>>

Write ==
  /\ mpc = "write"
  /\ items' = [items EXCEPT ![Slot(t)] = n]
  /\ mpc' = "publish"
  /\ UNCHANGED <<kind, head, tail, running, lock, keep, n, t, h, accepted,
                 loggervars>>

Publish ==
  /\ mpc = "publish"
  /\ tail' = t + 1
  /\ accepted' = Append(accepted, n)
  /\ mpc' = IF kind = "spsc" THEN "next" ELSE "unlock"
  /\ UNCHANGED <<kind, items, head, running, lock, keep, n, t, h, loggervars>>

Unlock ==
  /\ mpc = "unlock"
  /\ lock' = 0
  /\ mpc' = "next"
  /\ UNCHANGED <<kind, ringvars, running, keep, n, t, h, accepted, loggervars>>

(* log(): put_nowait, which drops the line when the queue is full.  The    *)
(* line that follows an interrupt is the last one before close().          *)
PutNowait ==
  /\ kind = "json" /\ mpc \in {"read", "last"}
  /\ IF tail - head < Size
       THEN /\ items' = [items EXCEPT ![Slot(tail)] = n]
            /\ tail' = tail + 1
            /\ accepted' = Append(accepted, n)
       ELSE UNCHANGED <<items, tail, accepted>>
  /\ mpc' = IF mpc = "last" THEN "stop" ELSE "next"
  /\ UNCHANGED <<kind, head, running, lock, keep, n, t, h, loggervars>>

(* Mutant of NextEvent: keep_running is not looked at. *)
NextEventBlind ==
  /\ mpc = "next"
  /\ \/ /\ kind = "engine" /\ keep = 0 /\ n = Total
        /\ mpc' = "stop" /\ n' = n
     \/ /\ kind \in {"bench", "spsc"} /\ n = Total
        /\ mpc' = IF kind = "bench" THEN "drain" ELSE "join"
        /\ n' = n
     \/ /\ n < Total
        /\ n' = n + 1
        /\ mpc' = IF kind \in {"engine", "bench"} THEN "lock" ELSE "read"
  /\ UNCHANGED <<kind, ringvars, running, lock, keep, t, h, accepted,
                 loggervars>>

(* The loop condition of main, and what follows its loop. *)
NextEvent ==
  /\ mpc = "next"
  /\ \/ /\ kind = "engine" /\ keep = 0
        /\ mpc' = "stop" /\ n' = n
     \/ /\ kind \in {"bench", "spsc"} /\ n = Total
        /\ mpc' = IF kind = "bench" THEN "drain" ELSE "join"
        /\ n' = n
     \/ /\ n < Total
        /\ kind = "engine" => keep = 1
        /\ n' = n + 1
        /\ mpc' = IF kind \in {"engine", "bench"} THEN "lock" ELSE "read"
  /\ UNCHANGED <<kind, ringvars, running, lock, keep, t, h, accepted,
                 loggervars>>

Drain ==
  /\ mpc = "drain" /\ head = tail
  /\ mpc' = "stop"
  /\ UNCHANGED <<kind, ringvars, running, lock, keep, n, t, h, accepted,
                 loggervars>>

Stop ==
  /\ mpc = "stop"
  /\ running' = 0
  /\ mpc' = "join"
  /\ UNCHANGED <<kind, ringvars, lock, keep, n, t, h, accepted, loggervars>>

Join ==
  /\ mpc = "join" /\ wpc \in {"ended", "failed"}
  /\ mpc' = "done"
  /\ UNCHANGED <<kind, ringvars, running, lock, keep, n, t, h, accepted,
                 loggervars>>

(* SIGINT or SIGTERM, at any point of main. *)
HandleShutdown ==
  /\ kind = "engine" /\ keep = 1 /\ mpc # "done"
  /\ keep' = 0 /\ running' = 0
  /\ UNCHANGED <<kind, ringvars, lock, mpc, n, t, h, accepted, loggervars>>

(* KeyboardInterrupt before the try block, which begins after the first    *)
(* line has been logged: nothing catches it or calls close(), and the      *)
(* daemon thread dies with main, whatever is in the queue or in its hand.  *)
InterruptBeforeTry ==
  /\ kind = "json" /\ keep = 1
  /\ n = 1 /\ mpc \in {"start", "read", "next"}
  /\ keep' = 0
  /\ mpc' = "killed"
  /\ wpc' = IF wpc = "failed" THEN wpc ELSE "ended"
  /\ UNCHANGED <<kind, ringvars, running, lock, n, t, h, accepted, wh, event,
                 file>>

(* KeyboardInterrupt inside it, from the end of the first line on.         *)
Interrupt ==
  /\ kind = "json" /\ keep = 1
  /\ mpc = "next" \/ (mpc = "read" /\ n > 1)
  /\ keep' = 0
  /\ mpc' = "last" /\ n' = n + 1
  /\ UNCHANGED <<kind, ringvars, running, lock, t, h, accepted, loggervars>>

-----------------------------------------------------------------------------
(* The logger, or the consumer thread. *)

Open ==
  /\ wpc = "open"
  /\ wpc' \in {"test", "failed"}
  /\ UNCHANGED <<kind, ringvars, running, mainvars, wh, event, file>>

(* Mutant of Test: the ring is not looked at once running is 0.            *)
TestRunningOnly ==
  /\ wpc = "test"
  /\ wpc' = IF kind = "spsc"
              THEN IF Len(file) < Total THEN "read" ELSE "ended"
              ELSE IF running = 1 THEN "read" ELSE "ended"
  /\ UNCHANGED <<kind, ringvars, running, mainvars, wh, event, file>>

(* The loop condition up to its first disjunct: the consumer of the test   *)
(* counts, the loggers read running.                                       *)
Test ==
  /\ wpc = "test"
  /\ wpc' = IF kind = "spsc"
              THEN IF Len(file) < Total THEN "read" ELSE "ended"
              ELSE IF running = 1 THEN "read" ELSE "testempty"
  /\ UNCHANGED <<kind, ringvars, running, mainvars, wh, event, file>>

(* Its second disjunct: head # tail, or not queue.empty(). *)
TestEmpty ==
  /\ wpc = "testempty"
  /\ wpc' = IF head # tail THEN "read" ELSE "ended"
  /\ UNCHANGED <<kind, ringvars, running, mainvars, wh, event, file>>

(* h and t of the loop; get() of the queue waits for an item for a while   *)
(* and takes it in one step.                                               *)
Read ==
  /\ wpc = "read"
  /\ wh' = head
  /\ IF head = tail
       THEN wpc' = "test" /\ UNCHANGED <<head, event>>
       ELSE IF kind = "json"
         THEN wpc' = "print" /\ event' = items[Slot(head)] /\ head' = head + 1
         ELSE wpc' = "copy" /\ UNCHANGED <<head, event>>
  /\ UNCHANGED <<kind, items, tail, running, mainvars, file>>

Copy ==
  /\ wpc = "copy"
  /\ event' = items[Slot(wh)]
  /\ wpc' = "advance"
  /\ UNCHANGED <<kind, ringvars, running, mainvars, wh, file>>

Advance ==
  /\ wpc = "advance"
  /\ head' = wh + 1
  /\ wpc' = "print"
  /\ UNCHANGED <<kind, items, tail, running, mainvars, wh, event, file>>

PrintEvent ==
  /\ wpc = "print"
  /\ file' = Append(file, event)
  /\ wpc' = "test"
  /\ UNCHANGED <<kind, ringvars, running, mainvars, wh, event>>

Main ==
  \/ Start \/ Lock \/ ReadIndices \/ Check \/ Write \/ Publish \/ Unlock
  \/ PutNowait \/ NextEvent \/ Drain \/ Stop \/ Join
Logger == Open \/ Test \/ TestEmpty \/ Read \/ Copy \/ Advance \/ PrintEvent
Next == Main \/ HandleShutdown \/ InterruptBeforeTry \/ Interrupt \/ Logger

(* Each thread is scheduled.  The logger asks for SCHED_FIFO on CPU 1, so  *)
(* this needs a second CPU: it spins where it has nothing to print.        *)
Spec == Init /\ [][Next]_vars /\ WF_vars(Main) /\ WF_vars(Logger)

-----------------------------------------------------------------------------
(* The file holds the accepted events in their order, none of them torn or *)
(* printed twice, and when the program has returned none is missing - but  *)
(* for one: a signal sets running to 0 while engine.c may still be inside  *)
(* log_event, so its last event can reach the ring behind the logger's     *)
(* back.  The fixed-number programs have accepted, and printed, them all.  *)
(* An interrupt that nothing catches costs engine.py its first line, and   *)
(* no more: a second one is only ever put inside the try block.            *)
NothingLostButTheLast ==
  /\ IsPrefix(file, accepted)
  /\ mpc = "killed" => Len(accepted) <= 1
  /\ mpc = "done" /\ wpc = "ended" =>
       /\ Len(accepted) - Len(file) <= IF kind = "engine" THEN 1 ELSE 0
       /\ kind \in {"bench", "spsc"} => file = [k \in 1..Total |-> k]

(* The log the programs implement.  An event is settled when it has been   *)
(* published or dropped; engine.c decides that from the head it has read.  *)
(* A killed program has settled what it had put.                           *)
Settled ==
  IF mpc = "killed" THEN Len(accepted)
  ELSE IF \/ mpc \in {"start", "lock", "read", "last", "write", "publish"}
          \/ mpc = "check" /\ (kind # "engine" \/ t - h < Size)
    THEN n - 1 ELSE n

Stage ==
  IF mpc = "done" THEN "returned"
  ELSE IF mpc = "killed" THEN "abandoned"
  ELSE IF keep = 1 THEN "runs"
  ELSE IF Settled = n THEN "noMore" ELSE "oneMore"

LogFile == IF wpc = "failed" THEN "failed" ELSE "usable"

Log == INSTANCE EventLog WITH
  Capacity <- Size,
  program <- kind,
  settled <- Settled,
  put <- accepted,
  taken <- head,
  logfile <- LogFile,
  stage <- Stage

(* An event is dropped on a full ring only and by the programs that may,   *)
(* although they look at an old head; a program that was told to stop logs *)
(* one event more at most, wherever the signal met it, and has printed all *)
(* it took when it returns.  What has been put is lost in one case only:   *)
(* an interrupt before the try block of engine.py abandons the program,    *)
(* with no event settled yet or with the first one on its way.             *)
ImplementsLog == Log!Spec

(* The fixed-number programs return, and the others do once they are told  *)
(* to, unless the benchmark's log file did not open: then its main waits   *)
(* for ever for the ring to drain.                                         *)
Terminates ==
  (keep = 0 \/ kind \in {"bench", "spsc"})
    ~> \/ mpc \in {"done", "killed"}
       \/ kind = "bench" /\ wpc = "failed"
=============================================================================
