--------------------------- MODULE IngressContract ---------------------------
(***************************************************************************)
(* What the ingress engine promises its clients, with no queue, no batch,  *)
(* no thread and no transaction: a ledger of the (client_pubkey, nonce)    *)
(* keys ever recorded, one answer for each submission, and the payloads    *)
(* stored so far in the order they were accepted.                          *)
(***************************************************************************)
EXTENDS Naturals, Sequences

CONSTANTS
  Reqs,     (* submissions                                                 *)
  KeyOf     (* the (client_pubkey, nonce) pair of each submission          *)

VARIABLES
  recorded,   (* keys the ledger holds                                     *)
  answer,     (* Reqs -> "none" | "accepted" | "rejected"                  *)
  stored      (* the payload rows, in storage order                        *)

cvars == <<recorded, answer, stored>>

Accepted == {r \in Reqs : answer[r] = "accepted"}
Stored   == {stored[i] : i \in 1..Len(stored)}

Init ==
  /\ recorded = {}
  /\ answer = [r \in Reqs |-> "none"]
  /\ stored = <<>>

(* A submission is accepted on a recorded key, and on each key once. *)
Accept(r) ==
  /\ answer[r] = "none"
  /\ KeyOf[r] \in recorded
  /\ \A s \in Accepted : KeyOf[s] # KeyOf[r]
  /\ answer' = [answer EXCEPT ![r] = "accepted"]
  /\ UNCHANGED <<recorded, stored>>

Reject(r) ==
  /\ answer[r] = "none"
  /\ answer' = [answer EXCEPT ![r] = "rejected"]
  /\ UNCHANGED <<recorded, stored>>

(* A commit makes keys durable and appends accepted payloads that are not  *)
(* stored yet; it takes nothing away.                                      *)
Fresh == Len(stored) + 1..Len(stored')

Commit ==
  /\ recorded \subseteq recorded'
  /\ Len(stored) <= Len(stored')
  /\ stored = SubSeq(stored', 1, Len(stored))
  /\ \A i \in Fresh : stored'[i] \in Accepted \ Stored
  /\ \A i, j \in Fresh : stored'[i] = stored'[j] => i = j
  /\ UNCHANGED answer

Next ==
  \/ \E r \in Reqs : Accept(r) \/ Reject(r)
  \/ Commit

Spec == Init /\ [][Next]_cvars
=============================================================================
