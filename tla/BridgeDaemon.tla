---------------------------- MODULE BridgeDaemon -----------------------------
(***************************************************************************)
(* src/sovereign-seed-commons/sip_bridge_daemon.c: a process that takes    *)
(* events from a ring in shared memory and inserts each, in a transaction  *)
(* of its own, into the table commons_events of an SQLite file.  It reads  *)
(* none of SQLite's results, and is ended by killing it: handle_sigint is  *)
(* never registered, so keep_running stays 1.                              *)
(*                                                                         *)
(* External, modelled from how the daemon uses them: the producer of the   *)
(* ring, which is not in the repository, and SQLite.                       *)
(***************************************************************************)
EXTENDS Integers, FiniteSets

CONSTANTS
  Size,        (* RING_BUFFER_SIZE                                         *)
  MaxEvents,   (* bound: events the producer puts                          *)
  MaxKills,    (* bound: times the daemon is killed                        *)
  MaxFailures  (* bound: SQLite calls that fail                            *)

ASSUME SizeAssumption == Size \in Nat \ {0}
ASSUME BoundAssumption ==
  MaxEvents \in Nat /\ MaxKills \in Nat /\ MaxFailures \in Nat

Events == 1..MaxEvents       (* by trace_id, the primary key               *)
NoEvent == 0

VARIABLES
  events,     (* events of the shared ring                                 *)
  head, tail, (* its indices                                               *)
  pc,         (* where the daemon is                                       *)
  localTail,  (* local_tail                                                *)
  stmt,       (* the insert: "none", "ready" or "done" until it is reset   *)
  trace,      (* the trace_id bound to it                                  *)
  slot,       (* the slot its payload is bound to, by reference            *)
  open,       (* 1 when a transaction is open                              *)
  pending,    (* its rows: pairs of a trace_id and the event whose payload *)
              (* it was stored with                                        *)
  ledger,     (* the committed rows of commons_events                      *)
  kills, failures

ring == <<events, head, tail>>
db == <<open, pending, ledger>>
vars == <<ring, pc, localTail, stmt, trace, slot, db, kills, failures>>

Slot(k) == k % Size

Init ==
  /\ events = [s \in 0..(Size - 1) |-> NoEvent]
  /\ head = 0 /\ tail = 0
  /\ pc = "down" /\ localTail = 0
  /\ stmt = "none" /\ trace = NoEvent /\ slot = 0
  /\ open = 0 /\ pending = {} /\ ledger = {}
  /\ kills = 0 /\ failures = 0

Fails == failures < MaxFailures /\ failures' = failures + 1

Produce ==
  /\ head < MaxEvents /\ head - tail < Size
  /\ events' = [events EXCEPT ![Slot(head)] = head + 1]
  /\ head' = head + 1
  /\ UNCHANGED <<tail, pc, localTail, stmt, trace, slot, db, kills, failures>>

-----------------------------------------------------------------------------
(* Mutant of Start: the daemon goes on with the events yet to come.        *)
StartAtHead ==
  /\ pc = "down"
  /\ \/ stmt' = "ready" /\ UNCHANGED failures
     \/ stmt' = "none" /\ Fails
  /\ localTail' = head
  /\ pc' = "poll"
  /\ trace' = NoEvent /\ slot' = 0
  /\ UNCHANGED <<ring, db, kills>>

(* shm_open finds the ring as it was left.  Without the table the insert   *)
(* is not prepared, which is not noticed either.                           *)
Start ==
  /\ pc = "down"
  /\ \/ stmt' = "ready" /\ UNCHANGED failures
     \/ stmt' = "none" /\ Fails
  /\ localTail' = tail
  /\ pc' = "poll"
  /\ trace' = NoEvent /\ slot' = 0
  /\ UNCHANGED <<ring, db, kills>>

Poll ==
  /\ pc = "poll" /\ localTail # head
  /\ pc' = "bind"
  /\ UNCHANGED <<ring, localTail, stmt, trace, slot, db, kills, failures>>

(* Mutant of Bind: the slot is given back when it has been bound.          *)
BindAndGiveBack ==
  /\ pc = "bind"
  /\ IF stmt = "ready"
       THEN trace' = events[Slot(localTail)] /\ slot' = Slot(localTail)
       ELSE UNCHANGED <<trace, slot>>
  /\ tail' = localTail + 1
  /\ pc' = "begin"
  /\ UNCHANGED <<events, head, localTail, stmt, db, kills, failures>>

(* trace_id and timestamp are bound by value, the payload with             *)
(* SQLITE_STATIC: it is read when the statement is stepped.  A statement   *)
(* that was not reset keeps its bindings.                                  *)
Bind ==
  /\ pc = "bind"
  /\ IF stmt = "ready"
       THEN trace' = events[Slot(localTail)] /\ slot' = Slot(localTail)
       ELSE UNCHANGED <<trace, slot>>
  /\ pc' = "begin"
  /\ UNCHANGED <<ring, localTail, stmt, db, kills, failures>>

(* BEGIN fails while a transaction is open, and nobody minds. *)
Begin ==
  /\ pc = "begin"
  /\ \/ open' = 1 /\ UNCHANGED failures
     \/ Fails /\ UNCHANGED open
  /\ pc' = "step"
  /\ UNCHANGED <<ring, localTail, stmt, trace, slot, pending, ledger, kills>>

TraceIdTaken == \E r \in ledger \cup pending : r[1] = trace

(* The insert is refused for a trace_id that has a row, and may fail, for  *)
(* example while another process writes.  Outside a transaction it commits *)
(* itself.                                                                 *)
Step ==
  /\ pc = "step"
  /\ \/ /\ stmt # "none" /\ ~TraceIdTaken
        /\ LET row == <<trace, events[slot]>>
           IN IF open = 1
                THEN pending' = pending \cup {row} /\ UNCHANGED ledger
                ELSE ledger' = ledger \cup {row} /\ UNCHANGED pending
        /\ UNCHANGED failures
     \/ (stmt = "none" \/ TraceIdTaken) /\ UNCHANGED <<pending, ledger, failures>>
     \/ stmt # "none" /\ Fails /\ UNCHANGED <<pending, ledger>>
  /\ stmt' = IF stmt = "none" THEN "none" ELSE "done"
  /\ pc' = "commit"
  /\ UNCHANGED <<ring, localTail, trace, slot, open, kills>>

(* A COMMIT that fails leaves the transaction open (busy) or rolls it back *)
(* (a full disk); without an open transaction it does nothing.             *)
Commit ==
  /\ pc = "commit"
  /\ \/ /\ ledger' = ledger \cup pending /\ pending' = {} /\ open' = 0
        /\ UNCHANGED failures
     \/ Fails /\ open = 1 /\ UNCHANGED db
     \/ Fails /\ open = 1 /\ open' = 0 /\ pending' = {} /\ UNCHANGED ledger
  /\ pc' = "reset"
  /\ UNCHANGED <<ring, localTail, stmt, trace, slot, kills>>

(* Mutant of Reset: the statement is not reset.                            *)
ResetForgotten ==
  /\ pc = "reset"
  /\ localTail' = localTail + 1
  /\ pc' = "advance"
  /\ UNCHANGED <<ring, stmt, trace, slot, db, kills, failures>>

(* sqlite3_reset; the slot goes back to the producer in Advance. *)
Reset ==
  /\ pc = "reset"
  /\ stmt' = IF stmt = "none" THEN "none" ELSE "ready"
  /\ localTail' = localTail + 1
  /\ pc' = "advance"
  /\ UNCHANGED <<ring, trace, slot, db, kills, failures>>

Advance ==
  /\ pc = "advance"
  /\ tail' = localTail
  /\ pc' = "poll"
  /\ UNCHANGED <<events, head, localTail, stmt, trace, slot, db, kills,
                 failures>>

(* The process is killed: SQLite rolls the open transaction back when the  *)
(* file is next opened; the ring stays in shared memory.                   *)
Kill ==
  /\ pc # "down" /\ kills < MaxKills
  /\ kills' = kills + 1
  /\ pc' = "down" /\ stmt' = "none"
  /\ open' = 0 /\ pending' = {}
  /\ UNCHANGED <<ring, localTail, trace, slot, ledger, failures>>

Daemon == Start \/ Poll \/ Bind \/ Begin \/ Step \/ Commit \/ Reset \/ Advance
Next == Produce \/ Daemon \/ Kill

Spec == Init /\ [][Next]_vars

-----------------------------------------------------------------------------
(* The ledger and the shared tail agree across kills as long as SQLite     *)
(* does not fail: an event is in the ledger before its slot is given back, *)
(* no later event is there than the one at the tail, and an event that was *)
(* committed before a kill and is met again is not entered twice.          *)
LedgerMatchesTail ==
  failures = 0 =>
    LET rows == {r[1] : r \in ledger}
    IN /\ 1..tail \subseteq rows
       /\ rows \subseteq 1..(tail + 1)
       /\ Cardinality(ledger) = Cardinality(rows)

(* A row holds the payload of its own event, although the payload is read  *)
(* from the shared ring when the row is inserted and the producer goes on  *)
(* writing to the ring; this holds also after failures.                    *)
RowsAreEvents ==
  \A r \in ledger \cup pending : r[1] \in Events /\ r[2] = r[1]

(* The ledger the daemon implements.  A kill, a restart and an event that  *)
(* is met for a second time are no steps of it.                            *)
Entered == {r[1] : r \in ledger}

Ledger == INSTANCE EventLedger WITH
  Capacity <- Size, sent <- head, given <- tail, rows <- Entered

(* Events enter the ledger one by one in their order and are given back to *)
(* the producer after that, wherever the daemon is killed; once SQLite has *)
(* failed rows may be missing or late, and still none is lost again or     *)
(* entered before its event has come.                                      *)
ImplementsLedger == Ledger!Spec
=============================================================================
