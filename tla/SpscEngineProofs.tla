--------------------------- MODULE SpscEngineProofs ---------------------------
(***************************************************************************)
(* Theorems about SpscEngine, for any of its programs, any ring and any    *)
(* number of events: the file is a prefix of the accepted events, and when *)
(* the program has returned at most the last event of engine.c is missing. *)
(*                                                                         *)
(* The argument: a position of the ring is written while it is outside the *)
(* ring and read while it is inside, whatever old head the producer uses;  *)
(* the logger ends only after running was 0 and the ring empty, and from   *)
(* then on main is inside its last call at most.  FirstOK: an interrupt of *)
(* the Python program before its try block ends it while one line at most  *)
(* was put.                                                                *)
(***************************************************************************)
EXTENDS SpscEngine, SequenceTheorems, TLAPS

-----------------------------------------------------------------------------
(* Positions and slots. *)

LEMMA Quotient ==
  ASSUME NEW N \in Nat, N > 0, NEW k \in Nat
  PROVE  \E q \in Nat : k = N * q + (k % N)
<1>1. k \div N \in Nat
  OBVIOUS
<1>2. k = N * (k \div N) + (k % N)
  OBVIOUS
<1> QED
  BY <1>1, <1>2

(* Two positions with one slot are at least the size of the ring apart. *)
LEMMA SlotsApart ==
  ASSUME NEW N \in Nat, N > 0, NEW j \in Nat, NEW k \in Nat, j % N = k % N, j < k
  PROVE  j + N <= k
<1>1. PICK a \in Nat : j = N * a + (j % N)
  BY Quotient
<1>2. PICK b \in Nat : k = N * b + (k % N)
  BY Quotient
<1>3. j % N \in 0 .. N - 1
  OBVIOUS
<1>4. N * a \in Nat /\ N * b \in Nat /\ N * b > N * a
  BY <1>1, <1>2, <1>3
<1>5. b > a
  <2> SUFFICES ASSUME b <= a PROVE FALSE
    OBVIOUS
  <2>1. N * b <= N * a
    OBVIOUS
  <2> QED
    BY <2>1, <1>4
<1>6. N * b >= N * (a + 1) /\ N * (a + 1) = N * a + N
  BY <1>5
<1> QED
  BY <1>1, <1>2, <1>3, <1>4, <1>6

LEMMA Slots ==
  /\ \A k \in Nat : Slot(k) \in 0 .. Size - 1
  /\ \A j, k \in Nat : Slot(j) = Slot(k) /\ j < k => j + Size <= k
<1>1. \A k \in Nat : Slot(k) \in 0 .. Size - 1
  BY SizeAssumption DEF Slot
<1>2. ASSUME NEW j \in Nat, NEW k \in Nat, Slot(j) = Slot(k), j < k
      PROVE  j + Size <= k
  <2>1. Size \in Nat /\ Size > 0 /\ j % Size = k % Size
    BY <1>2, SizeAssumption DEF Slot
  <2> QED
    BY ONLY <1>2, <2>1, SlotsApart
<1> QED
  BY <1>1, <1>2

LEMMA AppendOne ==
  ASSUME NEW k, NEW s \in Seq(Nat), Len(s) = k, NEW e \in Nat
  PROVE  /\ Append(s, e) \in Seq(Nat) /\ Len(Append(s, e)) = k + 1
         /\ \A j \in 1 .. k : Append(s, e)[j] = s[j]
         /\ Append(s, e)[k + 1] = e
OBVIOUS

(* Positions less than the size of the ring apart have slots of their own. *)
LEMMA SlotsDiffer ==
  \A j, k \in Nat : j < k /\ k < j + Size => Slot(j) # Slot(k)
<1>1. Size \in Nat
  BY SizeAssumption
<1>2. \A j, k \in Nat : k < j + Size => ~(j + Size <= k)
  BY ONLY <1>1
<1> QED
  BY ONLY <1>2, Slots

-----------------------------------------------------------------------------
(* The invariant. *)

InCall == {"lock", "read", "check", "write", "publish"}
MainStates == InCall \cup {"start", "unlock", "next", "last", "drain", "stop", "join",
                           "done", "killed"}

EngineType ==
  /\ kind \in {"engine", "bench", "spsc", "json"}
  /\ items \in [0..(Size - 1) -> Nat]
  /\ head \in Nat /\ tail \in Nat
  /\ running \in {0, 1} /\ keep \in {0, 1}
  /\ mpc \in MainStates
  /\ n \in Nat /\ t \in Nat /\ h \in Nat
  /\ accepted \in Seq(Nat) /\ file \in Seq(Nat)
  /\ wpc \in {"none", "open", "failed", "test", "testempty", "read", "copy", "advance",
              "print", "ended"}
  /\ wh \in Nat /\ event \in Nat

(* Where each of the programs can be. *)
PlaceOK ==
  /\ mpc = "start" <=> wpc = "none"
  /\ mpc \in {"done", "killed"} => wpc \in {"ended", "failed"}
  /\ kind = "json" => mpc \notin {"lock", "check", "write", "publish", "unlock", "drain"}
  /\ kind # "json" => mpc \notin {"last", "killed"}
  /\ kind = "spsc" => mpc \notin {"lock", "unlock", "drain", "stop"}
  /\ mpc = "drain" => kind = "bench"
  /\ kind = "spsc" => wpc \notin {"open", "failed", "testempty"}

(* The ring, and what the producer knows of it. *)
RingOK ==
  /\ head <= tail /\ tail <= head + Size
  /\ Len(accepted) = tail
  /\ \A k \in head .. tail - 1 : items[Slot(k)] = accepted[k + 1]
  /\ mpc \in {"check", "write", "publish"} => t = tail /\ h <= head
  /\ mpc \in {"write", "publish"} => t < h + Size
  /\ mpc = "publish" => items[Slot(t)] = n

(* What the logger has in hand, and the file. *)
LoggerOK ==
  /\ wpc \in {"copy", "advance"} => wh = head /\ head < tail
  /\ wpc = "advance" => event = accepted[head + 1]
  /\ wpc = "print" => /\ head = Len(file) + 1
                      /\ event = accepted[head]
  /\ wpc # "print" /\ mpc # "killed" => Len(file) = head
  /\ wpc \in {"none", "open", "failed"} => head = 0
  /\ Len(file) <= head
  /\ \A k \in 1 .. Len(file) : file[k] = accepted[k]

(* The programs with a fixed number of events accept each of them. *)
NumberOK ==
  kind \in {"bench", "spsc"} =>
    /\ \A k \in 1 .. Len(accepted) : accepted[k] = k
    /\ Len(accepted) = IF mpc \in InCall \cup {"start"} THEN n - 1 ELSE n
    /\ 1 <= n /\ n <= Total /\ keep = 1
    /\ mpc \in {"drain", "stop", "join", "done"} => n = Total

(* What is known once the logger has seen running = 0. *)
EndOK ==
  /\ kind = "engine" =>
       /\ running = 0 /\ mpc # "start" => keep = 0
       /\ mpc \in {"stop", "join", "done"} => keep = 0
       /\ wpc \in {"testempty", "ended"} => running = 0
       /\ wpc = "ended" => tail <= head + 1 /\ (mpc \in InCall => head = tail)
  /\ kind = "json" =>
       /\ running = 0 => mpc \in {"start", "join", "done", "killed"}
       /\ mpc \in {"last", "stop", "join", "done", "killed"} <=> keep = 0
       /\ wpc \in {"testempty", "ended"} => mpc \in {"join", "done", "killed"}
       /\ wpc = "ended" /\ mpc # "killed" => head = tail
  /\ kind = "bench" /\ mpc \in {"stop", "join", "done"} => head = tail
  /\ kind = "spsc" /\ wpc = "ended" => Len(file) >= Total

EngineInv ==
  /\ EngineType
  /\ PlaceOK
  /\ RingOK
  /\ LoggerOK
  /\ NumberOK
  /\ EndOK

LEMMA InitInv == Init => EngineInv
<1> SUFFICES ASSUME Init PROVE EngineInv
  OBVIOUS
<1> USE SizeAssumption, KindAssumption DEF Init
<1>1. EngineType
  BY DEF EngineType, MainStates
<1>2. PlaceOK /\ RingOK /\ LoggerOK
  BY DEF PlaceOK, RingOK, LoggerOK
<1>3. NumberOK /\ EndOK
  BY DEF NumberOK, EndOK, InCall
<1> QED
  BY <1>1, <1>2, <1>3 DEF EngineInv

LEMMA TypeFacts ==
  ASSUME EngineInv
  PROVE  /\ EngineType /\ PlaceOK /\ RingOK /\ LoggerOK /\ NumberOK /\ EndOK
         /\ Size \in Nat /\ Size > 0 /\ Total \in Nat
         /\ head \in Nat /\ tail \in Nat /\ n \in Nat /\ t \in Nat /\ h \in Nat
         /\ wh \in Nat /\ event \in Nat
         /\ Len(accepted) \in Nat /\ Len(file) \in Nat
BY SizeAssumption DEF EngineInv, EngineType

(* The steps of main that leave the ring and the file alone. *)
LEMMA QuietMainStep ==
  ASSUME EngineInv,
         \/ Start \/ Lock \/ ReadIndices \/ Check \/ Unlock
         \/ NextEvent \/ Drain \/ Stop \/ Join \/ HandleShutdown
         \/ InterruptBeforeTry \/ Interrupt
  PROVE  EngineInv'
<1> USE TypeFacts DEF ringvars, mainvars, loggervars
<1>1. UNCHANGED <<kind, items, head, tail, accepted, file, wh, event>>
  BY DEF Start, Lock, ReadIndices, Check, Unlock, NextEvent, Drain, Stop, Join,
         HandleShutdown, InterruptBeforeTry, Interrupt
<1>2. CASE Start
  <2>1. /\ mpc = "start" /\ mpc' \in {"lock", "read"} /\ wpc' \in {"open", "test"}
        /\ kind \in {"json", "spsc"} => mpc' = "read"
        /\ kind = "spsc" => wpc' = "test"
        /\ running' = 1 /\ UNCHANGED <<keep, n, t, h>> /\ wpc = "none"
    BY <1>2 DEF Start, PlaceOK, EngineType
  <2>2. EngineType' /\ PlaceOK'
    BY <1>1, <2>1 DEF EngineType, PlaceOK, MainStates, InCall
  <2>3. RingOK' /\ LoggerOK'
    BY <1>1, <2>1 DEF RingOK, LoggerOK
  <2>4. NumberOK' /\ EndOK'
    BY <1>1, <2>1 DEF NumberOK, EndOK, InCall
  <2> QED
    BY <2>2, <2>3, <2>4 DEF EngineInv
<1>3. CASE Lock
  <2>1. /\ mpc = "lock" /\ mpc' = "read" /\ UNCHANGED <<running, keep, n, t, h, wpc>>
    BY <1>3 DEF Lock
  <2>2. EngineType' /\ PlaceOK'
    BY <1>1, <2>1 DEF EngineType, PlaceOK, MainStates, InCall
  <2>3. RingOK' /\ LoggerOK'
    BY <1>1, <2>1 DEF RingOK, LoggerOK
  <2>4. NumberOK' /\ EndOK'
    BY <1>1, <2>1 DEF NumberOK, EndOK, InCall, PlaceOK
  <2> QED
    BY <2>2, <2>3, <2>4 DEF EngineInv
<1>4. CASE ReadIndices
  <2>1. /\ mpc = "read" /\ mpc' = "check" /\ kind # "json" /\ t' = tail /\ h' = head
        /\ UNCHANGED <<running, keep, n, wpc>>
    BY <1>4 DEF ReadIndices
  <2>2. EngineType' /\ PlaceOK'
    BY <1>1, <2>1 DEF EngineType, PlaceOK, MainStates, InCall
  <2>3. RingOK' /\ LoggerOK'
    BY <1>1, <2>1 DEF RingOK, LoggerOK
  <2>4. NumberOK' /\ EndOK'
    BY <1>1, <2>1 DEF NumberOK, EndOK, InCall
  <2> QED
    BY <2>2, <2>3, <2>4 DEF EngineInv
<1>5. CASE Check
  <2>1. /\ mpc = "check" /\ UNCHANGED <<running, keep, n, t, h, wpc>>
        /\ \/ t < h + Size /\ mpc' = "write"
           \/ kind = "engine" /\ mpc' = "unlock"
           \/ kind = "bench" /\ mpc' = "lock"
           \/ kind = "spsc" /\ mpc' = "read"
    BY <1>5 DEF Check
  <2>2. EngineType' /\ PlaceOK'
    BY <1>1, <2>1 DEF EngineType, PlaceOK, MainStates, InCall
  <2>3. RingOK' /\ LoggerOK'
    BY <1>1, <2>1 DEF RingOK, LoggerOK, PlaceOK
  <2>4. NumberOK' /\ EndOK'
    BY <1>1, <2>1 DEF NumberOK, EndOK, InCall, PlaceOK
  <2> QED
    BY <2>2, <2>3, <2>4 DEF EngineInv
<1>6. CASE Unlock
  <2>1. /\ mpc = "unlock" /\ mpc' = "next" /\ UNCHANGED <<running, keep, n, t, h, wpc>>
    BY <1>6 DEF Unlock
  <2>2. EngineType' /\ PlaceOK'
    BY <1>1, <2>1 DEF EngineType, PlaceOK, MainStates, InCall
  <2>3. RingOK' /\ LoggerOK'
    BY <1>1, <2>1 DEF RingOK, LoggerOK
  <2>4. NumberOK' /\ EndOK'
    BY <1>1, <2>1 DEF NumberOK, EndOK, InCall, PlaceOK
  <2> QED
    BY <2>2, <2>3, <2>4 DEF EngineInv
<1>7. CASE NextEvent
  <2>1. /\ mpc = "next" /\ UNCHANGED <<running, keep, t, h, wpc>>
        /\ \/ kind = "engine" /\ keep = 0 /\ mpc' = "stop" /\ n' = n
           \/ kind = "bench" /\ n = Total /\ mpc' = "drain" /\ n' = n
           \/ kind = "spsc" /\ n = Total /\ mpc' = "join" /\ n' = n
           \/ /\ n < Total /\ n' = n + 1
              /\ kind = "engine" => keep = 1
              /\ mpc' = IF kind \in {"engine", "bench"} THEN "lock" ELSE "read"
    BY <1>7 DEF NextEvent
  <2>2. EngineType' /\ PlaceOK'
    <3>1. mpc' \in {"stop", "drain", "join", "lock", "read"} /\ n' \in Nat
      BY <2>1
    <3>2. EngineType'
      BY <1>1, <2>1, <3>1 DEF EngineType, MainStates, InCall
    <3>3. PlaceOK'
      BY <1>1, <2>1 DEF EngineType, PlaceOK
    <3> QED
      BY <3>2, <3>3
  <2>3. RingOK' /\ LoggerOK'
    BY <1>1, <2>1 DEF RingOK, LoggerOK
  <2>4. NumberOK'
    BY <1>1, <2>1 DEF NumberOK, InCall
  <2>5. EndOK'
    BY <1>1, <2>1 DEF EndOK, InCall, PlaceOK, EngineType
  <2> QED
    BY <2>2, <2>3, <2>4, <2>5 DEF EngineInv
<1>8. CASE Drain \/ Join
  <2>1. /\ \/ mpc = "drain" /\ mpc' = "stop" /\ head = tail
           \/ mpc = "join" /\ mpc' = "done" /\ wpc \in {"ended", "failed"}
        /\ UNCHANGED <<running, keep, n, t, h, wpc>>
    BY <1>8 DEF Drain, Join
  <2>2. EngineType' /\ PlaceOK'
    BY <1>1, <2>1 DEF EngineType, PlaceOK, MainStates, InCall
  <2>3. RingOK' /\ LoggerOK'
    BY <1>1, <2>1 DEF RingOK, LoggerOK
  <2>4. NumberOK' /\ EndOK'
    BY <1>1, <2>1 DEF NumberOK, EndOK, InCall, PlaceOK
  <2> QED
    BY <2>2, <2>3, <2>4 DEF EngineInv
<1>9. CASE Stop
  <2>1. /\ mpc = "stop" /\ mpc' = "join" /\ running' = 0
        /\ UNCHANGED <<keep, n, t, h, wpc>>
    BY <1>9 DEF Stop
  <2>2. EngineType' /\ PlaceOK'
    BY <1>1, <2>1 DEF EngineType, PlaceOK, MainStates, InCall
  <2>3. RingOK' /\ LoggerOK'
    BY <1>1, <2>1 DEF RingOK, LoggerOK
  <2>4. NumberOK' /\ EndOK'
    BY <1>1, <2>1 DEF NumberOK, EndOK, InCall, PlaceOK
  <2> QED
    BY <2>2, <2>3, <2>4 DEF EngineInv
<1>10. CASE HandleShutdown
  <2>1. /\ kind = "engine" /\ keep' = 0 /\ running' = 0
        /\ UNCHANGED <<mpc, n, t, h, wpc>>
    BY <1>10 DEF HandleShutdown
  <2>2. EngineType' /\ PlaceOK'
    BY <1>1, <2>1 DEF EngineType, PlaceOK
  <2>3. RingOK' /\ LoggerOK'
    BY <1>1, <2>1 DEF RingOK, LoggerOK
  <2>4. NumberOK' /\ EndOK'
    BY <1>1, <2>1 DEF NumberOK, EndOK
  <2> QED
    BY <2>2, <2>3, <2>4 DEF EngineInv
<1>11. CASE Interrupt
  <2>1. /\ kind = "json" /\ mpc \in {"read", "next"} /\ keep' = 0
        /\ mpc' = "last" /\ n' = n + 1
        /\ UNCHANGED <<running, t, h, wpc>>
    BY <1>11 DEF Interrupt
  <2>2. EngineType' /\ PlaceOK'
    BY <1>1, <2>1 DEF EngineType, PlaceOK, MainStates, InCall
  <2>3. RingOK' /\ LoggerOK'
    BY <1>1, <2>1 DEF RingOK, LoggerOK, PlaceOK
  <2>4. NumberOK' /\ EndOK'
    BY <1>1, <2>1 DEF NumberOK, EndOK, EngineType
  <2> QED
    BY <2>2, <2>3, <2>4 DEF EngineInv
<1>12. CASE InterruptBeforeTry
  <2>1. /\ kind = "json" /\ mpc \in {"start", "read", "next"} /\ keep' = 0
        /\ mpc' = "killed" /\ (wpc' = "ended" \/ (wpc' = "failed" /\ wpc = "failed"))
        /\ UNCHANGED <<running, n, t, h>>
    BY <1>12 DEF InterruptBeforeTry
  <2>2. EngineType' /\ PlaceOK'
    BY <1>1, <2>1 DEF EngineType, PlaceOK, MainStates, InCall
  <2>3. RingOK' /\ LoggerOK'
    BY <1>1, <2>1 DEF RingOK, LoggerOK, PlaceOK
  <2>4. NumberOK' /\ EndOK'
    BY <1>1, <2>1 DEF NumberOK, EndOK, EngineType
  <2> QED
    BY <2>2, <2>3, <2>4 DEF EngineInv
<1> QED
  BY <1>2, <1>3, <1>4, <1>5, <1>6, <1>7, <1>8, <1>9, <1>10, <1>11, <1>12

(* The steps of the logger that leave the ring and the file alone. *)
LEMMA QuietLoggerStep ==
  ASSUME EngineInv, Open \/ Test \/ TestEmpty \/ Copy
  PROVE  EngineInv'
<1> USE TypeFacts DEF ringvars, mainvars
<1>1. UNCHANGED <<kind, items, head, tail, accepted, file, wh, running, keep, mpc, n, t, h>>
  BY DEF Open, Test, TestEmpty, Copy
<1>2. NumberOK' /\ RingOK'
  BY <1>1 DEF NumberOK, RingOK
<1>3. CASE Open
  <2>1. wpc = "open" /\ wpc' \in {"test", "failed"} /\ event' = event
    BY <1>3 DEF Open
  <2>2. EngineType' /\ PlaceOK'
    BY <1>1, <2>1 DEF EngineType, PlaceOK
  <2>3. LoggerOK' /\ EndOK'
    BY <1>1, <2>1 DEF LoggerOK, EndOK, PlaceOK
  <2> QED
    BY <1>2, <2>2, <2>3 DEF EngineInv
<1>4. CASE Test
  <2>1. /\ wpc = "test" /\ event' = event
        /\ \/ wpc' = "read"
           \/ wpc' = "ended" /\ kind = "spsc" /\ ~ (Len(file) < Total)
           \/ wpc' = "testempty" /\ kind # "spsc" /\ running # 1
    BY <1>4 DEF Test
  <2>2. EngineType' /\ PlaceOK'
    BY <1>1, <2>1 DEF EngineType, PlaceOK
  <2>3. LoggerOK'
    BY <1>1, <2>1 DEF LoggerOK
  <2>4. EndOK'
    <3>1. mpc # "start" /\ (running # 1 => running = 0)
      BY <2>1 DEF PlaceOK, EngineType
    <3>2. CASE kind = "spsc"
      BY <1>1, <2>1, <3>2 DEF EndOK
    <3>3. CASE kind # "spsc"
      <4>1. wpc' = "read" \/ (wpc' = "testempty" /\ running = 0)
        BY <2>1, <3>1, <3>3
      <4> QED
        BY <1>1, <2>1, <3>1, <3>3, <4>1 DEF EndOK
    <3> QED
      BY <3>2, <3>3
  <2> QED
    BY <1>2, <2>2, <2>3, <2>4 DEF EngineInv
<1>5. CASE TestEmpty
  <2>1. /\ wpc = "testempty" /\ event' = event
        /\ wpc' = "read" \/ (wpc' = "ended" /\ head = tail)
    BY <1>5 DEF TestEmpty
  <2>2. EngineType' /\ PlaceOK'
    BY <1>1, <2>1 DEF EngineType, PlaceOK
  <2>3. LoggerOK'
    BY <1>1, <2>1 DEF LoggerOK
  <2>4. EndOK'
    <3>1. CASE kind = "spsc"
      BY <2>1, <3>1 DEF PlaceOK
    <3>2. CASE kind = "engine"
      BY <1>1, <2>1, <3>2 DEF EndOK
    <3>3. CASE kind \in {"json", "bench"}
      BY <1>1, <2>1, <3>3 DEF EndOK
    <3> QED
      BY <3>1, <3>2, <3>3 DEF EngineType
  <2> QED
    BY <1>2, <2>2, <2>3, <2>4 DEF EngineInv
<1>6. CASE Copy
  <2>1. /\ wpc = "copy" /\ wpc' = "advance" /\ event' = items[Slot(wh)]
        /\ wh = head /\ head < tail
    BY <1>6 DEF Copy, LoggerOK
  <2>2. Slot(wh) \in 0 .. Size - 1
    BY Slots
  <2>3. event' \in Nat
    BY <2>1, <2>2 DEF EngineType
  <2>4. event' = accepted[head + 1]
    <3>1. head \in head .. tail - 1
      BY <2>1
    <3> QED
      BY <2>1, <3>1 DEF RingOK
  <2>5. EngineType' /\ PlaceOK'
    BY <1>1, <2>1, <2>3 DEF EngineType, PlaceOK
  <2>6. LoggerOK' /\ EndOK'
    BY <1>1, <2>1, <2>4 DEF LoggerOK, EndOK
  <2> QED
    BY <1>2, <2>5, <2>6 DEF EngineInv
<1> QED
  BY <1>3, <1>4, <1>5, <1>6

(* The steps that write the ring. *)
LEMMA WriteStep ==
  ASSUME EngineInv, Write
  PROVE  EngineInv'
<1> USE TypeFacts DEF ringvars, mainvars, loggervars
<1>1. /\ mpc = "write" /\ mpc' = "publish"
      /\ items' = [items EXCEPT ![Slot(t)] = n]
      /\ UNCHANGED <<kind, head, tail, running, keep, n, t, h, accepted, wpc, wh, event, file>>
  BY DEF Write
<1>2. t = tail /\ h <= head /\ t < h + Size
  BY <1>1 DEF RingOK
<1>3. Slot(t) \in 0 .. Size - 1
  BY ONLY TypeFacts, EngineInv, Slots
<1>4. EngineType' /\ PlaceOK'
  <2>1. items' \in [0..(Size - 1) -> Nat]
    BY <1>1, <1>3 DEF EngineType
  <2> QED
    BY <1>1, <2>1 DEF EngineType, PlaceOK, MainStates, InCall
<1>5. RingOK'
  <2>1. \A k \in head .. tail - 1 : items'[Slot(k)] = accepted[k + 1]
    <3> SUFFICES ASSUME NEW k \in head .. tail - 1
                 PROVE  items'[Slot(k)] = items[Slot(k)]
      BY DEF RingOK
    <3>1. Slot(k) # Slot(t)
      <4>1. k \in Nat /\ t \in Nat /\ k < t /\ t < k + Size
        BY <1>2
      <4> QED
        BY ONLY <4>1, SlotsDiffer
    <3>2. Slot(k) \in 0 .. Size - 1
      <4>1. k \in Nat
        BY <1>2
      <4> QED
        BY ONLY <4>1, Slots
    <3> QED
      BY <1>1, <3>1, <3>2 DEF EngineType
  <2>2. items'[Slot(t)] = n
    BY <1>1, <1>3 DEF EngineType
  <2> QED
    BY <1>1, <1>2, <2>1, <2>2 DEF RingOK
<1>6. LoggerOK'
  BY <1>1 DEF LoggerOK
<1>7. NumberOK' /\ EndOK'
  BY <1>1 DEF NumberOK, EndOK, InCall
<1> QED
  BY <1>4, <1>5, <1>6, <1>7 DEF EngineInv

LEMMA PublishStep ==
  ASSUME EngineInv, Publish
  PROVE  EngineInv'
<1> USE TypeFacts DEF ringvars, mainvars, loggervars
<1>1. /\ mpc = "publish" /\ mpc' = (IF kind = "spsc" THEN "next" ELSE "unlock")
      /\ tail' = t + 1 /\ accepted' = Append(accepted, n)
      /\ UNCHANGED <<kind, items, head, running, keep, n, t, h, wpc, wh, event, file>>
  BY DEF Publish
<1>2. /\ t = tail /\ h <= head /\ t < h + Size /\ items[Slot(t)] = n
      /\ Len(accepted) = tail /\ head <= tail /\ tail < head + Size
  BY <1>1 DEF RingOK
<1>3. /\ accepted' \in Seq(Nat) /\ Len(accepted') = tail + 1
      /\ \A k \in 1 .. tail : accepted'[k] = accepted[k]
      /\ accepted'[tail + 1] = n
  <2>1. /\ accepted \in Seq(Nat) /\ n \in Nat /\ Len(accepted) = tail
        /\ accepted' = Append(accepted, n)
    BY <1>1, <1>2 DEF EngineType
  <2> QED
    BY ONLY <2>1, AppendOne
<1>4. EngineType' /\ PlaceOK'
  BY <1>1, <1>2, <1>3 DEF EngineType, PlaceOK, MainStates, InCall
<1>5. RingOK'
  <2>1. ASSUME NEW k \in head .. tail PROVE items[Slot(k)] = accepted'[k + 1]
    <3>1. CASE k = tail
      BY <1>2, <1>3, <3>1
    <3>2. CASE k # tail
      <4>1. k \in head .. tail - 1 /\ k + 1 \in 1 .. tail
        BY <3>2
      <4> QED
        BY <1>3, <4>1 DEF RingOK
    <3> QED
      BY <3>1, <3>2
  <2>2. head' .. tail' - 1 = head .. tail /\ items' = items
    BY <1>1, <1>2
  <2>3. head' <= tail' /\ tail' <= head' + Size /\ Len(accepted') = tail'
    BY <1>1, <1>2, <1>3
  <2> QED
    BY <1>1, <2>1, <2>2, <2>3 DEF RingOK
<1>6. LoggerOK'
  <2>1. wpc = "advance" => accepted'[head + 1] = accepted[head + 1]
    <3>1. wpc = "advance" => head + 1 \in 1 .. tail
      BY DEF LoggerOK
    <3> QED
      BY ONLY <1>3, <3>1
  <2>2. wpc = "print" => accepted'[head] = accepted[head]
    BY <1>2, <1>3 DEF LoggerOK
  <2>3. \A k \in 1 .. Len(file) : accepted'[k] = accepted[k]
    <3>1. Len(file) <= tail
      BY <1>2 DEF LoggerOK
    <3>2. \A k \in 1 .. Len(file) : k \in 1 .. tail
      BY <3>1
    <3> QED
      BY ONLY <1>3, <3>2
  <2>4. wpc \in {"copy", "advance"} => wh = head /\ head < tail'
    BY <1>1, <1>2 DEF LoggerOK
  <2> QED
    BY <1>1, <2>1, <2>2, <2>3, <2>4 DEF LoggerOK
<1>7. NumberOK'
  <2> SUFFICES ASSUME kind \in {"bench", "spsc"} PROVE NumberOK'
    BY <1>1 DEF NumberOK
  <2>1. /\ \A k \in 1 .. tail : accepted[k] = k
        /\ tail = n - 1 /\ 1 <= n /\ n <= Total /\ keep' = 1
    BY <1>1, <1>2 DEF NumberOK, InCall
  <2>2. ASSUME NEW k \in 1 .. tail + 1 PROVE accepted'[k] = k
    <3>1. CASE k = tail + 1
      BY <1>3, <2>1, <3>1
    <3>2. CASE k # tail + 1
      <4>1. k \in 1 .. tail
        BY <3>2
      <4> QED
        BY ONLY <1>3, <2>1, <4>1
    <3> QED
      BY <3>1, <3>2
  <2>3. /\ mpc' \notin InCall \cup {"start", "drain", "stop", "join", "done"}
        /\ n' = n /\ Len(accepted') = n
    <3>1. mpc' \notin InCall \cup {"start", "drain", "stop", "join", "done"} /\ n' = n
      BY <1>1 DEF InCall
    <3>2. Len(accepted') = n
      BY <1>3, <2>1
    <3> QED
      BY <3>1, <3>2
  <2>4. \A k \in 1 .. Len(accepted') : accepted'[k] = k
    BY <1>3, <2>2
  <2> QED
    BY <2>1, <2>3, <2>4 DEF NumberOK
<1>8. EndOK'
  BY <1>1, <1>2 DEF EndOK, InCall, PlaceOK
<1> QED
  BY <1>4, <1>5, <1>6, <1>7, <1>8 DEF EngineInv

LEMMA PutNowaitStep ==
  ASSUME EngineInv, PutNowait
  PROVE  EngineInv'
<1> USE TypeFacts DEF loggervars
<1>1. /\ kind = "json"
      /\ \/ mpc = "read" /\ mpc' = "next"
         \/ mpc = "last" /\ mpc' = "stop"
      /\ UNCHANGED <<kind, head, running, keep, n, t, h, wpc, wh, event, file>>
      /\ \/ /\ tail < head + Size /\ tail' = tail + 1
            /\ items' = [items EXCEPT ![Slot(tail)] = n]
            /\ accepted' = Append(accepted, n)
         \/ UNCHANGED <<items, tail, accepted>>
  <2>1. /\ kind = "json"
        /\ \/ mpc = "read" /\ mpc' = "next"
           \/ mpc = "last" /\ mpc' = "stop"
        /\ UNCHANGED <<kind, head, running, keep, n, t, h, wpc, wh, event, file>>
    BY DEF PutNowait
  <2>2. \/ /\ tail < head + Size /\ tail' = tail + 1
           /\ items' = [items EXCEPT ![Slot(tail)] = n]
           /\ accepted' = Append(accepted, n)
        \/ UNCHANGED <<items, tail, accepted>>
    BY DEF PutNowait
  <2> QED
    BY <2>1, <2>2
<1>2. NumberOK'
  BY <1>1 DEF NumberOK
<1>3. PlaceOK'
  BY <1>1 DEF PlaceOK
<1>4. CASE UNCHANGED <<items, tail, accepted>>
  <2>1. EngineType' /\ RingOK'
    BY <1>1, <1>4 DEF EngineType, RingOK, MainStates, InCall
  <2>2. LoggerOK' /\ EndOK'
    BY <1>1, <1>4 DEF LoggerOK, EndOK
  <2> QED
    BY <1>2, <1>3, <2>1, <2>2 DEF EngineInv
<1>5. CASE /\ tail < head + Size /\ tail' = tail + 1
           /\ items' = [items EXCEPT ![Slot(tail)] = n]
           /\ accepted' = Append(accepted, n)
  <2>1. /\ Len(accepted) = tail /\ head <= tail
        /\ accepted' \in Seq(Nat) /\ Len(accepted') = tail + 1
        /\ \A k \in 1 .. tail : accepted'[k] = accepted[k]
        /\ accepted'[tail + 1] = n
    <3>1. Len(accepted) = tail /\ head <= tail
      BY DEF RingOK
    <3>2. accepted \in Seq(Nat) /\ n \in Nat /\ accepted' = Append(accepted, n)
      BY <1>5 DEF EngineType
    <3> QED
      BY ONLY <3>1, <3>2, AppendOne
  <2>2. Slot(tail) \in 0 .. Size - 1
    BY ONLY TypeFacts, EngineInv, Slots
  <2>3. EngineType'
    <3>1. items' \in [0..(Size - 1) -> Nat]
      BY <1>5, <2>2 DEF EngineType
    <3>2. tail' \in Nat
      BY <1>5
    <3>3. mpc' \in MainStates
      BY <1>1 DEF MainStates, InCall
    <3> QED
      BY <1>1, <2>1, <3>1, <3>2, <3>3 DEF EngineType
  <2>4. RingOK'
    <3>1. ASSUME NEW k \in head .. tail PROVE items'[Slot(k)] = accepted'[k + 1]
      <4>1. CASE k = tail
        BY <1>5, <2>1, <2>2, <4>1 DEF EngineType
      <4>2. CASE k # tail
        <5>1. k \in head .. tail - 1 /\ k + 1 \in 1 .. tail
          BY <4>2
        <5>2. Slot(k) # Slot(tail)
          <6>1. /\ head \in Nat /\ tail \in Nat /\ Size \in Nat
                /\ tail < head + Size /\ k \in head .. tail - 1
            BY <1>5, <5>1
          <6>2. k \in Nat /\ k < tail /\ tail < k + Size
            BY ONLY <6>1
          <6> QED
            BY ONLY <6>1, <6>2, SlotsDiffer
        <5>3. Slot(k) \in 0 .. Size - 1
          <6>1. k \in Nat
            BY <5>1
          <6> QED
            BY ONLY <6>1, Slots
        <5>4. items'[Slot(k)] = items[Slot(k)]
          BY <1>5, <5>2, <5>3 DEF EngineType
        <5> QED
          BY <2>1, <5>1, <5>4 DEF RingOK
      <4> QED
        BY <4>1, <4>2
    <3>2. head' .. tail' - 1 = head .. tail
      BY <1>1, <1>5
    <3>3. head' <= tail' /\ tail' <= head' + Size /\ Len(accepted') = tail'
      BY <1>1, <1>5, <2>1
    <3> QED
      BY <1>1, <3>1, <3>2, <3>3 DEF RingOK
  <2>5. LoggerOK'
    <3>1. wpc = "advance" => accepted'[head + 1] = accepted[head + 1]
      <4>1. wpc = "advance" => head + 1 \in 1 .. tail
        BY DEF LoggerOK
      <4> QED
        BY ONLY <2>1, <4>1
    <3>2. wpc = "print" => accepted'[head] = accepted[head]
      <4>1. wpc = "print" => head \in 1 .. tail
        BY <2>1 DEF LoggerOK
      <4> QED
        BY ONLY <2>1, <4>1
    <3>3. \A k \in 1 .. Len(file) : accepted'[k] = accepted[k]
      <4>1. Len(file) <= tail
        BY <2>1 DEF LoggerOK
      <4>2. \A k \in 1 .. Len(file) : k \in 1 .. tail
        BY <4>1
      <4> QED
        BY ONLY <2>1, <4>2
    <3>4. wpc \in {"copy", "advance"} => wh = head /\ head < tail'
      BY <1>5, <2>1 DEF LoggerOK
    <3> QED
      BY <1>1, <3>1, <3>2, <3>3, <3>4 DEF LoggerOK
  <2>6. EndOK'
    BY <1>1, <1>5 DEF EndOK
  <2> QED
    BY <1>2, <1>3, <2>3, <2>4, <2>5, <2>6 DEF EngineInv
<1> QED
  BY <1>1, <1>4, <1>5

(* The steps that take from the ring, and the one that prints. *)
LEMMA TakeStep ==
  ASSUME EngineInv, Read \/ Advance
  PROVE  EngineInv'
<1> USE TypeFacts DEF ringvars, mainvars, loggervars
<1>1. UNCHANGED <<kind, items, tail, accepted, file, running, keep, mpc, n, t, h>>
  BY DEF Read, Advance
<1>2. NumberOK'
  BY <1>1 DEF NumberOK
<1>3. CASE head' = head
  <2>1. /\ wpc = "read" /\ event' = event /\ wh' = head
        /\ wpc' = "test" \/ (wpc' = "copy" /\ head # tail)
    BY <1>3 DEF Read, Advance, LoggerOK
  <2>2. EngineType' /\ PlaceOK'
    BY <1>1, <1>3, <2>1 DEF EngineType, PlaceOK
  <2>3. RingOK' /\ EndOK'
    BY <1>1, <1>3, <2>1 DEF RingOK, EndOK
  <2>4. LoggerOK'
    BY <1>1, <1>3, <2>1 DEF LoggerOK, RingOK
  <2> QED
    BY <1>2, <2>2, <2>3, <2>4 DEF EngineInv
<1>4. CASE head' # head
  <2>1. /\ head' = head + 1 /\ wpc' = "print" /\ wpc \in {"read", "advance"}
        /\ head < tail
        /\ event' = accepted[head + 1]
        /\ wh' \in Nat
    <3>1. CASE Read
      <4>1. /\ head # tail /\ head' = head + 1 /\ wpc' = "print" /\ wpc = "read"
            /\ event' = items[Slot(head)] /\ wh' = head
        BY <1>4, <3>1 DEF Read
      <4>2. head < tail /\ head \in head .. tail - 1
        BY <4>1 DEF RingOK
      <4> QED
        BY <4>1, <4>2 DEF RingOK
    <3>2. CASE Advance
      BY <3>2 DEF Advance, LoggerOK
    <3> QED
      BY <3>1, <3>2
  <2>2. event' \in Nat
    <3>1. head + 1 \in 1 .. Len(accepted)
      BY <2>1 DEF RingOK
    <3>2. accepted \in Seq(Nat)
      BY DEF EngineType
    <3>3. accepted[head + 1] \in Nat
      BY ONLY <3>1, <3>2, ElementOfSeq
    <3> QED
      BY ONLY <2>1, <3>3
  <2>3. EngineType' /\ PlaceOK'
    <3>1. head' \in Nat
      BY <2>1
    <3>2. EngineType'
      BY <1>1, <2>1, <2>2, <3>1 DEF EngineType
    <3>3. PlaceOK'
      BY <1>1, <2>1 DEF PlaceOK
    <3> QED
      BY <3>2, <3>3
  <2>4. RingOK'
    <3>1. head' .. tail' - 1 \subseteq head .. tail - 1 /\ items' = items
      BY <1>1, <2>1 DEF Read, Advance
    <3>2. head' <= tail' /\ tail' <= head' + Size /\ Len(accepted') = tail'
      BY <1>1, <2>1 DEF RingOK
    <3>3. \A k \in head' .. tail' - 1 : items'[Slot(k)] = accepted'[k + 1]
      BY <1>1, <3>1 DEF RingOK
    <3>4. /\ mpc \in {"check", "write", "publish"} => t = tail /\ h <= head'
          /\ mpc \in {"write", "publish"} => t < h + Size
          /\ mpc = "publish" => items[Slot(t)] = n
      BY <2>1 DEF RingOK
    <3> QED
      BY <1>1, <3>1, <3>2, <3>3, <3>4 DEF RingOK
  <2>5. LoggerOK'
    <3>1. mpc # "killed"
      BY <2>1 DEF PlaceOK
    <3>2. /\ Len(file) = head
          /\ \A k \in 1 .. Len(file) : file[k] = accepted[k]
      BY <2>1, <3>1 DEF LoggerOK
    <3> QED
      BY <1>1, <2>1, <3>2 DEF LoggerOK
  <2>6. EndOK'
    BY <1>1, <2>1 DEF EndOK, PlaceOK
  <2> QED
    BY <1>2, <2>3, <2>4, <2>5, <2>6 DEF EngineInv
<1> QED
  BY <1>3, <1>4

LEMMA PrintStep ==
  ASSUME EngineInv, PrintEvent
  PROVE  EngineInv'
<1> USE TypeFacts DEF ringvars, mainvars
<1>1. /\ wpc = "print" /\ wpc' = "test" /\ file' = Append(file, event)
      /\ UNCHANGED <<kind, items, head, tail, accepted, running, keep, mpc, n, t, h, wh, event>>
  BY DEF PrintEvent
<1>2. head = Len(file) + 1 /\ event = accepted[head]
  BY <1>1 DEF LoggerOK
<1>3. /\ file' \in Seq(Nat) /\ Len(file') = head
      /\ \A k \in 1 .. Len(file) : file'[k] = file[k]
      /\ file'[head] = accepted[head]
  BY <1>1, <1>2 DEF EngineType
<1>4. EngineType' /\ PlaceOK'
  BY <1>1, <1>3 DEF EngineType, PlaceOK
<1>5. RingOK' /\ NumberOK' /\ EndOK'
  BY <1>1 DEF RingOK, NumberOK, EndOK
<1>6. LoggerOK'
  <2>1. \A k \in 1 .. head : file'[k] = accepted[k]
    <3>1. \A k \in 1 .. head : k = head \/ k \in 1 .. Len(file)
      BY ONLY <1>2, TypeFacts, EngineInv
    <3>2. \A k \in 1 .. Len(file) : file[k] = accepted[k]
      BY DEF LoggerOK
    <3> QED
      BY ONLY <1>3, <3>1, <3>2
  <2> QED
    BY <1>1, <1>3, <2>1 DEF LoggerOK
<1> QED
  BY <1>4, <1>5, <1>6 DEF EngineInv

LEMMA StepInv == EngineInv /\ [Next]_vars => EngineInv'
<1> SUFFICES ASSUME EngineInv, [Next]_vars PROVE EngineInv'
  OBVIOUS
<1>1. CASE UNCHANGED vars
  <2> USE <1>1 DEF vars, ringvars, mainvars, loggervars, EngineInv
  <2>1. EngineType' /\ PlaceOK' /\ RingOK'
    BY DEF EngineType, PlaceOK, RingOK
  <2>2. LoggerOK' /\ NumberOK' /\ EndOK'
    BY DEF LoggerOK, NumberOK, EndOK
  <2> QED
    BY <2>1, <2>2
<1>2. CASE Main \/ HandleShutdown \/ InterruptBeforeTry \/ Interrupt
  BY <1>2, QuietMainStep, WriteStep, PublishStep, PutNowaitStep DEF Main
<1>3. CASE Logger
  BY <1>3, QuietLoggerStep, TakeStep, PrintStep DEF Logger
<1> QED
  BY <1>1, <1>2, <1>3 DEF Next

LEMMA EngineInvariant == Spec => []EngineInv
<1> QED
  BY InitInv, StepInv, PTL DEF Spec

(* engine.py before its try block: the first line is not there or has just *)
(* been put, and there is no way out of the call but to the loop.          *)
FirstOK ==
  kind = "json" =>
    /\ n >= 1
    /\ n = 1 => mpc \in {"start", "read", "next", "killed"}
    /\ n = 1 /\ mpc \in {"start", "read"} => tail = 0
    /\ n = 1 /\ mpc = "next" => tail = 1
    /\ mpc = "killed" => tail <= 1

LEMMA FirstStep == EngineInv /\ FirstOK /\ [Next]_vars => FirstOK'
<1> SUFFICES ASSUME EngineInv, FirstOK, [Next]_vars, kind = "json" PROVE FirstOK'
  <2>1. [Next]_vars => kind' = kind
    BY DEF Next, Main, Logger, Start, Lock, ReadIndices, Check, Write, Publish, Unlock,
           PutNowait, NextEvent, Drain, Stop, Join, HandleShutdown, InterruptBeforeTry,
           Interrupt, Open, Test, TestEmpty, Read, Copy, Advance, PrintEvent, vars
  <2> QED
    BY <2>1 DEF FirstOK
<1> USE TypeFacts DEF ringvars, mainvars, loggervars
<1>1. CASE UNCHANGED <<kind, mpc, n, tail>>
  BY <1>1 DEF FirstOK
<1>2. CASE Logger \/ UNCHANGED vars
  BY <1>1, <1>2 DEF Logger, Open, Test, TestEmpty, Read, Copy, Advance, PrintEvent, vars
<1>3. CASE Lock \/ ReadIndices \/ Check \/ Write \/ Publish \/ Unlock \/ Drain \/ HandleShutdown
  BY <1>3 DEF Lock, ReadIndices, Check, Write, Publish, Unlock, Drain, HandleShutdown, PlaceOK
<1>4. CASE Start \/ Stop \/ Join
  BY <1>4 DEF Start, Stop, Join, FirstOK
<1>5. CASE PutNowait
  <2>1. /\ UNCHANGED <<kind, n>> /\ mpc \in {"read", "last"} /\ mpc' \in {"next", "stop"}
        /\ mpc = "read" => mpc' = "next"
        /\ tail - head < Size => tail' = tail + 1
    BY <1>5 DEF PutNowait
  <2>2. n = 1 => tail = 0 /\ head = 0 /\ mpc = "read"
    BY <2>1 DEF FirstOK, RingOK
  <2> QED
    BY <2>1, <2>2 DEF FirstOK
<1>6. CASE NextEvent \/ Interrupt
  <2>1. kind' = kind /\ n' = n + 1 /\ mpc' \in {"read", "last"}
    BY <1>6 DEF NextEvent, Interrupt
  <2> QED
    BY <2>1 DEF FirstOK
<1>7. CASE InterruptBeforeTry
  BY <1>7 DEF InterruptBeforeTry, FirstOK
<1> QED
  BY <1>2, <1>3, <1>4, <1>5, <1>6, <1>7 DEF Next, Main

LEMMA FirstInvariant == Spec => []FirstOK
<1>1. Init => FirstOK
  BY DEF Init, FirstOK
<1> QED
  BY <1>1, FirstStep, EngineInvariant, PTL DEF Spec

-----------------------------------------------------------------------------
(* The theorem. *)

(* The file is a prefix of the accepted events; when the program has       *)
(* returned only engine.c can miss an event, and only its last one; the    *)
(* programs with a fixed number of events have printed all of them; and an *)
(* engine.py that is interrupted before its try block misses one line.     *)
THEOREM OnlyTheLastIsLost == Spec => []NothingLostButTheLast
<1>1. EngineInv /\ FirstOK => NothingLostButTheLast
  <2> SUFFICES ASSUME EngineInv, FirstOK PROVE NothingLostButTheLast
    OBVIOUS
  <2> USE TypeFacts
  <2>1. /\ Len(file) <= Len(accepted)
        /\ \A k \in 1 .. Len(file) : file[k] = accepted[k]
    BY DEF LoggerOK, RingOK
  <2>2. IsPrefix(file, accepted)
    <3>1. ASSUME NEW k \in 1 .. Len(file) PROVE file[k] \in Nat /\ accepted[k] \in Nat
      <4>1. k \in 1 .. Len(accepted)
        BY <2>1
      <4>2. file \in Seq(Nat) /\ accepted \in Seq(Nat)
        BY DEF EngineType
      <4> QED
        BY ONLY <4>1, <4>2, <3>1, ElementOfSeq
    <3>2. /\ SubSeq(file, 1, Len(file)) = file
      BY SubSeqFull DEF EngineType
    <3>3. /\ SubSeq(accepted, 1, Len(file)) \in Seq(Nat)
          /\ Len(SubSeq(accepted, 1, Len(file))) = Len(file)
          /\ \A k \in 1 .. Len(file) : SubSeq(accepted, 1, Len(file))[k] = accepted[k]
      BY <2>1, <3>1 DEF EngineType
    <3>4. file = SubSeq(accepted, 1, Len(file))
      BY <2>1, <3>3, SeqEqual DEF EngineType
    <3> QED
      BY <2>1, <3>2, <3>4 DEF IsPrefix
  <2>3. ASSUME mpc = "done", wpc = "ended"
        PROVE  /\ Len(accepted) - Len(file) <= IF kind = "engine" THEN 1 ELSE 0
               /\ kind \in {"bench", "spsc"} => file = [k \in 1..Total |-> k]
    <3>1. Len(file) = head /\ Len(accepted) = tail
      BY <2>3 DEF LoggerOK, RingOK
    <3>2. CASE kind = "engine"
      BY <2>3, <3>1, <3>2 DEF EndOK
    <3>3. CASE kind = "json"
      BY <2>3, <3>1, <3>3 DEF EndOK
    <3>4. CASE kind \in {"bench", "spsc"}
      <4>1. /\ Len(accepted) = Total
            /\ \A k \in 1 .. Total : accepted[k] = k
        BY <2>3, <3>4 DEF NumberOK, InCall
      <4>2. Len(file) = Total
        BY <2>1, <2>3, <3>1, <3>4, <4>1 DEF EndOK
      <4>3. file = [k \in 1 .. Total |-> k]
        <5>1. file = [k \in 1 .. Len(file) |-> file[k]]
          BY DEF EngineType
        <5> QED
          BY <2>1, <4>1, <4>2, <5>1
      <4> QED
        BY <3>4, <4>1, <4>2, <4>3
    <3> QED
      BY <3>2, <3>3, <3>4 DEF EngineType
  <2>4. mpc = "killed" => Len(accepted) <= 1
    BY DEF FirstOK, RingOK, PlaceOK
  <2> QED
    BY <2>2, <2>3, <2>4 DEF NothingLostButTheLast
<1> QED
  BY <1>1, EngineInvariant, FirstInvariant, PTL

-----------------------------------------------------------------------------
(* The programs implement EventLog. *)

LogQuiet ==
  /\ kind' = kind /\ Settled' = Settled /\ accepted' = accepted /\ head' = head
  /\ file' = file /\ LogFile' = LogFile /\ Stage' = Stage

LEMMA QuietStutters == LogQuiet => UNCHANGED Log!logvars
BY DEF LogQuiet, Log!logvars

(* One more event is settled: the last one that may be, if main was told.  *)
LEMMA SettlesOne ==
  ASSUME EngineInv, kind' = kind, n' = n, keep' = keep, head' = head, file' = file,
         wpc' = wpc, Settled = n - 1, Settled' = n,
         mpc \notin {"done", "killed"}, mpc' \notin {"done", "killed"}
  PROVE  Log!Settle
<1> USE TypeFacts
<1>1. Settled' = Settled + 1
  OBVIOUS
<1>2. keep \in {0, 1} /\ n - 1 # n
  BY DEF EngineType
<1>3. Stage = IF keep = 1 THEN "runs" ELSE "oneMore"
  BY <1>2 DEF Stage
<1>4. Stage' = IF keep = 1 THEN "runs" ELSE "noMore"
  BY DEF Stage
<1>5. LogFile' = LogFile
  BY DEF LogFile
<1>6. kind \notin {"engine", "json"} => Settled < Total
  <2>1. kind \notin {"engine", "json"} => n <= Total
    BY DEF EngineType, NumberOK
  <2> QED
    BY <2>1
<1> QED
  BY <1>1, <1>3, <1>4, <1>5, <1>6 DEF Log!Settle, Log!Endless

(* The steps of main that do not settle anything. *)
LEMMA QuietMain ==
  ASSUME EngineInv, Start \/ Lock \/ Check \/ Write \/ Unlock \/ NextEvent \/ Drain \/ Stop
  PROVE  LogQuiet
<1> USE TypeFacts DEF ringvars, mainvars, loggervars
<1>1. /\ UNCHANGED <<kind, accepted, head, file, keep, t, h>>
      /\ mpc \notin {"done", "killed"} /\ mpc' \notin {"done", "killed"}
      /\ (wpc' = "failed" <=> wpc = "failed")
  BY DEF Start, Lock, Check, Write, Unlock, NextEvent, Drain, Stop, PlaceOK
<1>2. LogFile' = LogFile
  BY <1>1 DEF LogFile
<1>3. Settled' = Settled /\ (keep = 1 \/ (Settled' = n' <=> Settled = n))
  <2>1. CASE Start \/ Lock \/ Write
    BY <2>1 DEF Start, Lock, Write, Settled
  <2>2. CASE Check
    <3>1. CASE kind = "engine"
      BY <2>2, <3>1 DEF Check, Settled
    <3>2. CASE kind # "engine"
      BY <2>2, <3>2, <1>1 DEF Check, Settled, PlaceOK
    <3> QED
      BY <3>1, <3>2
  <2>3. CASE Unlock \/ Drain \/ Stop
    BY <2>3 DEF Unlock, Drain, Stop, Settled
  <2>4. CASE NextEvent
    <3>1. /\ mpc = "next"
          /\ \/ mpc' \in {"stop", "drain", "join"} /\ n' = n
             \/ mpc' \in {"lock", "read"} /\ n' = n + 1 /\ (kind = "engine" => keep = 1)
      BY <2>4 DEF NextEvent
    <3>2. kind # "engine" => keep = 1
      BY <3>1 DEF EngineType, NumberOK, EndOK
    <3>3. Settled = n
      BY <3>1 DEF Settled
    <3>4. CASE mpc' \in {"stop", "drain", "join"} /\ n' = n
      <4>1. Settled' = n
        BY <3>4 DEF Settled
      <4> QED
        BY <3>3, <3>4, <4>1
    <3>5. CASE mpc' \in {"lock", "read"} /\ n' = n + 1 /\ keep = 1
      <4>1. Settled' = n
        BY <3>5 DEF Settled
      <4> QED
        BY <3>3, <3>5, <4>1
    <3> QED
      BY <3>1, <3>2, <3>4, <3>5
  <2> QED
    BY <2>1, <2>2, <2>3, <2>4
<1>4. Stage' = Stage
  BY <1>1, <1>3 DEF Stage
<1> QED
  BY <1>1, <1>2, <1>3, <1>4 DEF LogQuiet

(* log_event has read that the ring is full. *)
LEMMA ReadRefines ==
  ASSUME EngineInv, ReadIndices
  PROVE  [Log!Next]_Log!logvars
<1> USE TypeFacts DEF ringvars, mainvars, loggervars
<1>1. /\ UNCHANGED <<kind, accepted, head, tail, file, keep, n, wpc>>
      /\ mpc = "read" /\ mpc' = "check" /\ t' = tail /\ h' = head
  BY DEF ReadIndices
<1>2. LogFile' = LogFile
  BY <1>1 DEF LogFile
<1>3. Settled = n - 1
  BY <1>1 DEF Settled
<1>4. CASE kind = "engine" /\ ~(tail - head < Size)
  <2>1. Settled' = n
    BY <1>1, <1>4 DEF Settled
  <2>2. Log!Settle
    BY <1>1, <1>3, <2>1, SettlesOne
  <2>3. Len(accepted) - head >= Size
    BY <1>4 DEF RingOK
  <2> QED
    BY <1>1, <1>4, <2>2, <2>3 DEF Log!Refuse, Log!Endless, Log!Full, Log!Next
<1>5. CASE ~(kind = "engine" /\ ~(tail - head < Size))
  <2>1. Settled' = n - 1
    BY <1>1, <1>5 DEF Settled
  <2>2. Stage' = Stage
    BY <1>1, <1>3, <2>1 DEF Stage
  <2> QED
    BY <1>1, <1>2, <1>3, <2>1, <2>2, QuietStutters DEF LogQuiet
<1> QED
  BY <1>4, <1>5

LEMMA PublishRefines ==
  ASSUME EngineInv, Publish
  PROVE  Log!Put
<1> USE TypeFacts DEF ringvars, mainvars, loggervars
<1>1. /\ UNCHANGED <<kind, head, file, keep, n, wpc>>
      /\ mpc = "publish" /\ mpc' \in {"next", "unlock"} /\ accepted' = Append(accepted, n)
  BY DEF Publish
<1>2. /\ Settled = n - 1 /\ Settled' = n
      /\ mpc \notin {"done", "killed"} /\ mpc' \notin {"done", "killed"}
  BY <1>1 DEF Settled
<1>3. Log!Settle
  BY <1>1, <1>2, SettlesOne
<1>4. ~(Len(accepted) - head >= Size)
  BY <1>1 DEF RingOK
<1>5. Settled + 1 = n
  BY <1>2
<1> QED
  BY <1>1, <1>3, <1>4, <1>5 DEF Log!Put, Log!Full

LEMMA PutNowaitRefines ==
  ASSUME EngineInv, PutNowait
  PROVE  Log!Put \/ Log!Refuse
<1> USE TypeFacts DEF ringvars, mainvars, loggervars
<1>1. /\ UNCHANGED <<kind, head, file, keep, n, wpc>> /\ kind = "json"
      /\ mpc \in {"read", "last"} /\ mpc' \in {"next", "stop"}
      /\ IF tail - head < Size THEN accepted' = Append(accepted, n) ELSE accepted' = accepted
  BY DEF PutNowait
<1>2. /\ Settled = n - 1 /\ Settled' = n
      /\ mpc \notin {"done", "killed"} /\ mpc' \notin {"done", "killed"}
  BY <1>1 DEF Settled
<1>3. Log!Settle
  BY <1>1, <1>2, SettlesOne
<1>4. Len(accepted) = tail /\ Settled + 1 = n
  BY <1>2 DEF RingOK
<1>5. CASE tail - head < Size
  BY <1>1, <1>3, <1>4, <1>5 DEF Log!Put, Log!Full
<1>6. CASE ~(tail - head < Size)
  BY <1>1, <1>3, <1>4, <1>6 DEF Log!Refuse, Log!Full, Log!Endless
<1> QED
  BY <1>5, <1>6

LEMMA JoinRefines ==
  ASSUME EngineInv, Join
  PROVE  Log!Return
<1> USE TypeFacts DEF ringvars, mainvars, loggervars
<1>1. /\ UNCHANGED <<kind, head, accepted, file, keep, n, wpc>>
      /\ mpc = "join" /\ mpc' = "done" /\ wpc \in {"ended", "failed"}
  BY DEF Join
<1>2. Settled = n /\ Settled' = n /\ LogFile' = LogFile /\ Stage' = "returned"
  BY <1>1 DEF Settled, LogFile, Stage
<1>3. CASE kind \in {"engine", "json"}
  <2>1. keep = 0
    BY <1>1, <1>3 DEF EndOK
  <2>2. Stage = "noMore"
    BY <1>1, <1>2, <2>1 DEF Stage
  <2>3. wpc = "ended" => Len(accepted) - Len(file) <= IF kind = "engine" THEN 1 ELSE 0
    <3>1. wpc = "ended" => Len(file) = head /\ Len(accepted) = tail
      BY <1>1 DEF LoggerOK, RingOK
    <3>2. wpc = "ended" => tail <= head + 1 /\ (kind = "json" => head = tail)
      BY <1>1, <1>3 DEF EndOK
    <3> QED
      BY <3>1, <3>2, <1>3
  <2>4. LogFile = "usable" => wpc = "ended"
    BY <1>1 DEF LogFile
  <2> QED
    BY <1>1, <1>2, <1>3, <2>2, <2>3, <2>4 DEF Log!Return, Log!Endless
<1>4. CASE kind \in {"bench", "spsc"}
  <2>1. keep = 1 /\ n = Total /\ Len(accepted) = n
    BY <1>1, <1>4 DEF NumberOK, InCall
  <2>2. Stage = "runs"
    BY <1>1, <2>1 DEF Stage
  <2>3. wpc = "ended" => Len(accepted) - Len(file) <= 0
    <3>1. wpc = "ended" => Len(file) = head /\ Len(accepted) = tail
      BY <1>1 DEF LoggerOK, RingOK
    <3>2. wpc = "ended" => head = tail \/ Len(file) >= Total
      BY <1>1, <1>4 DEF EndOK
    <3> QED
      BY <2>1, <3>1, <3>2
  <2>4. LogFile = "usable" => wpc = "ended"
    BY <1>1 DEF LogFile
  <2> QED
    BY <1>1, <1>2, <1>4, <2>1, <2>2, <2>3, <2>4 DEF Log!Return, Log!Endless
<1> QED
  BY <1>3, <1>4 DEF EngineType

(* The signal, and the interrupt. *)
LEMMA SignalRefines ==
  ASSUME EngineInv, FirstOK, HandleShutdown \/ InterruptBeforeTry \/ Interrupt
  PROVE  Log!Tell \/ Log!Withdraw \/ Log!Abandon
<1> USE TypeFacts DEF ringvars, mainvars, loggervars
<1>1. /\ UNCHANGED <<kind, head, accepted, file>> /\ keep = 1 /\ keep' = 0
      /\ mpc # "done" /\ mpc # "killed" /\ mpc' # "done"
  BY DEF HandleShutdown, InterruptBeforeTry, Interrupt, PlaceOK
<1>2. /\ Stage = "runs"
      /\ mpc' # "killed" => Stage' = IF Settled' = n' THEN "noMore" ELSE "oneMore"
  BY <1>1 DEF Stage
<1>3. CASE HandleShutdown
  <2>1. /\ kind = "engine" /\ LogFile' = LogFile /\ Settled' = Settled /\ mpc' # "killed"
    BY <1>1, <1>3 DEF HandleShutdown, LogFile, Settled
  <2> QED
    BY <1>1, <1>2, <2>1 DEF Log!Tell, Log!Endless
<1>4. CASE Interrupt
  <2>1. /\ kind = "json" /\ LogFile' = LogFile
    BY <1>4 DEF Interrupt, LogFile
  <2>2. CASE mpc = "next"
    <3>1. mpc' = "last" /\ n' = n + 1
      BY <1>4, <2>2 DEF Interrupt
    <3>2. Settled' = Settled
      BY <2>2, <3>1 DEF Settled
    <3> QED
      BY <1>1, <1>2, <2>1, <3>1, <3>2 DEF Log!Tell, Log!Endless
  <2>3. CASE mpc = "read"
    <3>1. mpc' = "last" /\ n' = n + 1
      BY <1>4, <2>3 DEF Interrupt
    <3>2. Settled' = n
      BY <3>1 DEF Settled
    <3>3. Settled = n - 1
      BY <2>3 DEF Settled
    <3>4. n \in Nat
      BY DEF EngineType
    <3>5. Settled' = Settled + 1 /\ Settled' # n'
      BY ONLY <3>1, <3>2, <3>3, <3>4
    <3> QED
      BY <1>1, <1>2, <2>1, <3>1, <3>5 DEF Log!Withdraw
  <2> QED
    BY <1>4, <2>2, <2>3 DEF Interrupt
<1>5. CASE InterruptBeforeTry
  <2>1. /\ kind = "json" /\ n = 1 /\ mpc \in {"start", "read", "next"} /\ mpc' = "killed"
        /\ LogFile' = LogFile
    BY <1>5 DEF InterruptBeforeTry, LogFile
  <2>2. Settled' = Len(accepted) /\ Stage' = "abandoned"
    BY <1>1, <2>1 DEF Settled, Stage
  <2>3. Settled = Len(accepted) /\ Settled <= 1
    BY <2>1 DEF Settled, FirstOK, RingOK
  <2> QED
    BY <1>1, <1>2, <2>1, <2>2, <2>3 DEF Log!Abandon
<1> QED
  BY <1>3, <1>4, <1>5

LEMMA LoggerRefines ==
  ASSUME EngineInv, Logger
  PROVE  [Log!Next]_Log!logvars
<1> USE TypeFacts DEF ringvars, mainvars
<1>1. /\ UNCHANGED <<kind, accepted, mpc, keep, n, t, h>>
      /\ wpc \notin {"none", "ended", "failed"}
  BY DEF Logger, Open, Test, TestEmpty, Read, Copy, Advance, PrintEvent
<1>2. mpc # "done" /\ mpc # "killed"
  BY <1>1 DEF PlaceOK
<1>3. Settled' = Settled /\ Stage' = Stage /\ ~Log!Over /\ LogFile = "usable"
  BY <1>1, <1>2 DEF Settled, Stage, LogFile, Log!Over
<1>4. CASE Open
  <2>1. UNCHANGED <<head, file>> /\ head = 0 /\ kind # "spsc" /\ wpc' \in {"test", "failed"}
    BY <1>4 DEF Open, LoggerOK, PlaceOK
  <2>2. CASE wpc' = "failed"
    <3>1. LogFile' = "failed"
      BY <2>2 DEF LogFile
    <3> QED
      BY <1>1, <1>3, <2>1, <3>1 DEF Log!Fail, Log!Next
  <2>3. CASE wpc' = "test"
    <3>1. LogFile' = "usable"
      BY <2>3 DEF LogFile
    <3> QED
      BY <1>1, <1>3, <2>1, <3>1, QuietStutters DEF LogQuiet
  <2> QED
    BY <2>1, <2>2, <2>3
<1>5. CASE Test \/ TestEmpty \/ Copy
  <2>1. UNCHANGED <<head, file>> /\ wpc' # "failed"
    BY <1>5 DEF Test, TestEmpty, Copy
  <2>2. LogFile' = "usable"
    BY <2>1 DEF LogFile
  <2> QED
    BY <1>1, <1>3, <2>1, <2>2, QuietStutters DEF LogQuiet
<1>6. CASE Read \/ Advance
  <2>1. file' = file /\ wpc' # "failed" /\ Len(file) = head /\ Len(accepted) = tail
    BY <1>2, <1>6 DEF Read, Advance, LoggerOK, RingOK
  <2>2. LogFile' = "usable"
    BY <2>1 DEF LogFile
  <2>3. head' = head \/ (head' = head + 1 /\ head < tail)
    <3>1. CASE Read
      BY <3>1 DEF Read, RingOK
    <3>2. CASE Advance
      BY <3>2 DEF Advance, LoggerOK
    <3> QED
      BY <1>6, <3>1, <3>2
  <2>4. CASE head' = head
    BY <1>1, <1>3, <2>1, <2>2, <2>4, QuietStutters DEF LogQuiet
  <2>5. CASE head' = head + 1 /\ head < tail
    BY <1>1, <1>3, <2>1, <2>2, <2>5 DEF Log!Take, Log!Next
  <2> QED
    BY <2>3, <2>4, <2>5
<1>7. CASE PrintEvent
  <2>1. /\ head' = head /\ wpc' = "test" /\ head = Len(file) + 1
        /\ file' = Append(file, accepted[Len(file) + 1])
    BY <1>7 DEF PrintEvent, LoggerOK
  <2>2. LogFile' = "usable"
    BY <2>1 DEF LogFile
  <2>3. Len(file) < head
    BY <2>1
  <2> QED
    BY <1>1, <1>3, <2>1, <2>2, <2>3 DEF Log!PrintNext, Log!Next
<1> QED
  BY <1>4, <1>5, <1>6, <1>7 DEF Logger

LEMMA StepRefines ==
  ASSUME EngineInv, FirstOK, [Next]_vars
  PROVE  [Log!Next]_Log!logvars
<1>1. CASE Start \/ Lock \/ Check \/ Write \/ Unlock \/ NextEvent \/ Drain \/ Stop
  BY <1>1, QuietMain, QuietStutters
<1>2. CASE ReadIndices
  BY <1>2, ReadRefines
<1>3. CASE \/ Publish \/ PutNowait \/ Join
           \/ HandleShutdown \/ InterruptBeforeTry \/ Interrupt
  BY <1>3, PublishRefines, PutNowaitRefines, JoinRefines, SignalRefines DEF Log!Next
<1>4. CASE Logger
  BY <1>4, LoggerRefines
<1>5. CASE UNCHANGED vars
  <2>1. LogQuiet
    BY <1>5 DEF vars, ringvars, mainvars, loggervars, LogQuiet, Settled, Stage, LogFile
  <2> QED
    BY <2>1, QuietStutters
<1> QED
  BY <1>1, <1>2, <1>3, <1>4, <1>5 DEF Next, Main

(* The four programs implement EventLog: only a full ring refuses an       *)
(* event, and a program told to stop settles one more event at most and    *)
(* returns with what it has put in its file.  Nothing put is reordered, or *)
(* lost but for the first line of an engine.py interrupted before its try. *)
THEOREM ProgramsImplementLog == Spec => ImplementsLog
<1>1. Init => Log!Init
  <2> SUFFICES ASSUME Init PROVE Log!Init
    OBVIOUS
  <2>1. kind \in {"engine", "bench", "spsc", "json"}
    BY KindAssumption DEF Init
  <2>2. Settled = 0 /\ Stage = "runs" /\ LogFile = "usable"
    BY DEF Init, Settled, Stage, LogFile
  <2> QED
    BY <2>1, <2>2 DEF Init, Log!Init
<1>2. EngineInv /\ FirstOK /\ [Next]_vars => [Log!Next]_Log!logvars
  BY StepRefines
<1> QED
  BY <1>1, <1>2, EngineInvariant, FirstInvariant, PTL DEF Spec, ImplementsLog, Log!Spec
=============================================================================
