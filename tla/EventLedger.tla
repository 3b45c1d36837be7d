----------------------------- MODULE EventLedger -----------------------------
(***************************************************************************)
(* What the bridge daemon promises the producer of its ring, with no       *)
(* process that can be killed, no statement, no transaction and no slot:   *)
(* numbered events are sent, entered into a ledger in their order and      *)
(* given back, each after it has been entered.  A failure of the database  *)
(* ends that order: from then on events may be given back without a row,   *)
(* and rows come late; none is ever taken out of the ledger.               *)
(***************************************************************************)
EXTENDS Integers

CONSTANT
  Capacity    (* most events sent and not given back                       *)

VARIABLES
  sent,       (* events sent                                               *)
  given,      (* events given back                                         *)
  rows,       (* events in the ledger                                      *)
  failures    (* failures of the database                                  *)

lvars == <<sent, given, rows, failures>>

Init == sent = 0 /\ given = 0 /\ rows = {} /\ failures = 0

Send ==
  /\ sent - given < Capacity
  /\ sent' = sent + 1
  /\ UNCHANGED <<given, rows, failures>>

Enter ==
  /\ given < sent /\ given + 1 \notin rows
  /\ rows' = rows \cup {given + 1}
  /\ UNCHANGED <<sent, given, failures>>

EnterLate ==
  /\ failures > 0
  /\ rows \subseteq rows' /\ rows' \subseteq 1 .. given + 1
  /\ UNCHANGED <<sent, given, failures>>

GiveBack ==
  /\ given < sent
  /\ failures = 0 => given + 1 \in rows
  /\ given' = given + 1
  /\ UNCHANGED <<sent, rows, failures>>

Fail ==
  /\ failures' = failures + 1
  /\ UNCHANGED <<sent, given, rows>>

Next == Send \/ Enter \/ EnterLate \/ GiveBack \/ Fail

Spec == Init /\ [][Next]_lvars
=============================================================================
