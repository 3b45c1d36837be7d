------------------------------ MODULE EventLog -------------------------------
(***************************************************************************)
(* What the programs of SpscEngine promise, with no slot, no index, no     *)
(* lock and no running: a producer has numbered events for a pipe of       *)
(* bounded length, a logger takes them from it and prints them.            *)
(*   - Each event is settled in its turn: put, refused because the pipe is *)
(*     full, or withdrawn by the interrupt that ends a program.            *)
(*   - Only "engine" and "json" refuse, and what has been put is printed,  *)
(*     but when "json" is abandoned before its second event.               *)
(*   - A program that is told to stop settles one more event at most, and  *)
(*     returns with its file complete, "engine" but for one event.         *)
(***************************************************************************)
EXTENDS Naturals, Sequences

CONSTANTS
  Capacity,   (* longest pipe                                              *)
  Total       (* events of "bench" and "spsc"                              *)

VARIABLES
  program,    (* "engine" | "bench" | "spsc" | "json"                      *)
  settled,    (* events that have been settled                             *)
  put,        (* those that went into the pipe, in order                   *)
  taken,      (* how many of these have been taken out again               *)
  file,       (* those that are printed                                    *)
  logfile,    (* "usable", or "failed" when it could not be opened         *)
  stage       (* "runs" until the program is told to stop, then "oneMore"  *)
              (* or "noMore" event is to be settled, and "returned"; or    *)
              (* "abandoned" with what it has put                          *)

logvars == <<program, settled, put, taken, file, logfile, stage>>

Endless == program \in {"engine", "json"}
Full == Len(put) - taken >= Capacity
Over == stage \in {"returned", "abandoned"}

Init ==
  /\ program \in {"engine", "bench", "spsc", "json"}
  /\ settled = 0 /\ put = <<>> /\ taken = 0 /\ file = <<>>
  /\ logfile = "usable" /\ stage = "runs"

Settle ==
  /\ stage \in {"runs", "oneMore"}
  /\ Endless \/ settled < Total
  /\ settled' = settled + 1
  /\ stage' = IF stage = "runs" THEN "runs" ELSE "noMore"
  /\ UNCHANGED <<program, taken, file, logfile>>

Put == Settle /\ ~Full /\ put' = Append(put, settled + 1)

Refuse == Settle /\ Endless /\ Full /\ UNCHANGED put

Withdraw ==
  /\ program = "json" /\ stage = "runs"
  /\ settled' = settled + 1
  /\ stage' = "oneMore"
  /\ UNCHANGED <<program, put, taken, file, logfile>>

Tell ==
  /\ Endless /\ stage = "runs"
  /\ stage' \in {"oneMore", "noMore"}
  /\ UNCHANGED <<program, settled, put, taken, file, logfile>>

Abandon ==
  /\ program = "json" /\ stage = "runs" /\ settled <= 1
  /\ stage' = "abandoned"
  /\ UNCHANGED <<program, settled, put, taken, file, logfile>>

Fail ==
  /\ ~Over
  /\ program # "spsc" /\ logfile = "usable" /\ taken = 0
  /\ logfile' = "failed"
  /\ UNCHANGED <<program, settled, put, taken, file, stage>>

Take ==
  /\ ~Over
  /\ logfile = "usable" /\ taken = Len(file) /\ taken < Len(put)
  /\ taken' = taken + 1
  /\ UNCHANGED <<program, settled, put, file, logfile, stage>>

PrintNext ==
  /\ ~Over
  /\ Len(file) < taken
  /\ file' = Append(file, put[Len(file) + 1])
  /\ UNCHANGED <<program, settled, put, taken, logfile, stage>>

Return ==
  /\ IF Endless THEN stage = "noMore" ELSE stage = "runs" /\ settled = Total
  /\ logfile = "usable" =>
       Len(put) - Len(file) <= IF program = "engine" THEN 1 ELSE 0
  /\ stage' = "returned"
  /\ UNCHANGED <<program, settled, put, taken, file, logfile>>

Next ==
  \/ Put \/ Refuse \/ Withdraw \/ Tell \/ Abandon \/ Fail \/ Take \/ PrintNext
  \/ Return

Spec == Init /\ [][Next]_logvars
=============================================================================
