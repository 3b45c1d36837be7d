----------------------------- MODULE SignedGates -----------------------------
(***************************************************************************)
(* The gates signed requests pass: the checks of tollbridge/security.py,   *)
(* BridgeRouter and the engine's checks for ingress envelopes, the remote  *)
(* handoff validator for the same envelopes on another node, and the       *)
(* manifest validator, the cell executor and the evidence validator for    *)
(* cell manifests.                                                         *)
(*                                                                         *)
(* A request is signed by its client and may reach a gate with one field   *)
(* changed on the way.  A signature is symbolic: it fits the bytes it was  *)
(* made for and no others.  The vault is that of IngressMetering, with its *)
(* one transaction that all threads share, but no stop and no crash.       *)
(***************************************************************************)
EXTENDS Naturals, FiniteSets

CONSTANTS
  Reqs,         (* requests                                                 *)
  Alterable,    (* those that may be changed between client and gate        *)
  CellReqs,     (* those that may be manifests; all may be envelopes        *)
  RemoteReqs,   (* those that may be handed to another node                 *)
  MaxDrift,     (* MAX_TIMESTAMP_DRIFT_SEC, in ticks of the clock           *)
  MaxTimeout,   (* the longest execution_timeout_sec of a manifest          *)
  MaxNow        (* bound: the clock                                         *)

ASSUME RequestAssumption ==
  Alterable \subseteq Reqs /\ CellReqs \subseteq Reqs /\ RemoteReqs \subseteq Reqs
ASSUME LimitAssumption == /\ MaxDrift \in Nat /\ MaxNow \in Nat
                          /\ MaxTimeout \in Nat \ {0}

(***************************************************************************)
(* Values.  A field holds text, a number, NaN, null or a malformed value;  *)
(* a text is the decimal form of a number, and may have blanks around it.  *)
(***************************************************************************)
Value(is, val) == [is |-> is, val |-> val, blanks |-> 0]
Text(n)   == Value("text", n)
Number(n) == Value("number", n)
NaN  == Value("nan", 0)
Null == Value("null", 0)
Padded(v) == [v EXCEPT !.blanks = 1]
Kinds == {"text", "number", "nan", "null", "words", "odd", "nothex", "short", "empty", "badkey"}

(* str(), strip() and float() of Python.  "None" and "nan" are words, and  *)
(* float() raises for what is not IsFloat.                                 *)
Str(v) ==
  CASE v.is = "number" -> Text(v.val)
    [] v.is = "null"   -> Value("words", 0)
    [] v.is = "nan"    -> Value("words", 2)
    [] OTHER -> v
Strip(v) == [v EXCEPT !.blanks = 0]
IsFloat(v) == v.is \in {"text", "number", "nan"}
Float(v) == IF v.is = "text" THEN Number(v.val) ELSE v

BoundText == {"protocol_version", "client_pubkey", "nonce", "asset_type",
              "subscription_topic", "content_type"}
EnvelopeFields == BoundText \cup {"timestamp_sec", "payload_hex", "signature_hex"}
ManifestBound  == {"manifest_version", "cell_id", "client_pubkey", "task_type", "target_resource",
                   "execution_timeout_sec", "expected_evidence_hash", "timestamp_sec"}
ManifestFields == ManifestBound \cup {"signature_hex"}

VARIABLES
  now,        (* the clock                                                  *)
  kind,       (* of each request: "none", "envelope" or "manifest"          *)
  signed,     (* the request as its client signed it                        *)
  wire,       (* the request as the gate has it                             *)
  pc,         (* where its handler is                                       *)
  reply,      (* what the handler has answered, "none" before               *)
  checked,    (* history: the clock when the engine checked the freshness   *)
  handoff,    (* verdict of the remote validator, the payload it was given  *)
              (* and, history, its clock                                    *)
  vault,      (* committed (client_pubkey, nonce) rows of the vault         *)
  open,       (* rows of the open transaction, which all threads share      *)
  undermined, (* history: requests whose row was rolled back between their  *)
              (* INSERT and their commit                                    *)
  expected,   (* expected_hash, as execute_cell has read it                 *)
  evidence    (* cell_id in the evidence execute_cell has answered with     *)

requests == <<kind, signed, wire>>
rows     == <<vault, open, undermined>>
cells    == <<expected, evidence>>
vars == <<now, requests, pc, reply, checked, handoff, rows, cells>>

(***************************************************************************)
(* security.py                                                             *)
(***************************************************************************)
(* build_canonical_envelope_bytes of converted fields; the payload stands  *)
(* for its hash.                                                           *)
BuildCanonical(args, payload) ==
  [f \in BoundText \cup {"payload_hash", "timestamp"} |->
     CASE f = "payload_hash" -> payload
       [] f = "timestamp"    -> args["timestamp_sec"]
       [] OTHER              -> Strip(Str(args[f]))]

(* What the client of r has signed: its own fields, through the same       *)
(* function.                                                               *)
SignedBytes(r) == BuildCanonical(signed[r], signed[r]["payload_hex"])

(* The comparison with the drift is false for NaN.                         *)
Fresh(ts, clock) ==
  ts.is = "number" => ts.val <= clock + MaxDrift /\ clock <= ts.val + MaxDrift

ValidPubkey(v) == v.is = "text"

(* verify_ed25519_envelope: the key, the form of the signature, and the    *)
(* signature itself, which fits when the bytes are those that were signed. *)
VerifyEd25519(pubkey, sig, fits) ==
  IF ~ValidPubkey(pubkey) THEN "INVALID_SOLANA_PUBKEY"
  ELSE IF sig.is = "empty" /\ sig.blanks = 0 THEN "MISSING_OR_INVALID_SIGNATURE_TYPE"
  ELSE IF sig.is = "odd" THEN "MALFORMED_HEX_SIGNATURE_ODD_LENGTH"
  ELSE IF sig.is \in {"nothex", "words"} THEN "INVALID_HEX_ENCODING"
  ELSE IF sig.is # "text" THEN "INVALID_SIGNATURE_LENGTH"
  ELSE IF sig.val # 1 \/ ~fits THEN "CRYPTOGRAPHIC_SIGNATURE_MISMATCH"
  ELSE "OK"

(***************************************************************************)
(* The verdicts of the three validators: "OK" or the reason of the first   *)
(* check that fails.                                                       *)
(***************************************************************************)
(* The router's conversions, and the bytes it decodes.                     *)
RouterArgs(q) ==
  [f \in EnvelopeFields |-> IF f = "timestamp_sec" THEN Float(q[f]) ELSE Str(q[f])]
PayloadOf(q) == Strip(Str(q["payload_hex"]))

(* route_ingress up to the engine.  Only ValueError is caught around the   *)
(* conversions: float(None) leaves the router as an exception.             *)
RouterVerdict(q) ==
  IF q["size"].is # "text" THEN "PAYLOAD_TOO_LARGE"
  ELSE IF ~(EnvelopeFields \subseteq DOMAIN q) THEN "MISSING_FIELDS"
  ELSE IF q["timestamp_sec"].is = "null" THEN "RAISED"
  ELSE IF ~IsFloat(q["timestamp_sec"]) THEN "MALFORMED_FIELD_TYPES"
  ELSE IF PayloadOf(q).is = "odd"    THEN "MALFORMED_PAYLOAD_HEX_ODD_LENGTH"
  ELSE IF PayloadOf(q).is # "text"   THEN "INVALID_PAYLOAD_HEX_ENCODING"
  ELSE "OK"

(* submit_envelope_payload up to the vault, with the router's conversions. *)
EngineVerdict(r, args, payload, clock) ==
  IF ~Fresh(args["timestamp_sec"], clock) THEN "TIMESTAMP_STALE"
  ELSE VerifyEd25519(args["client_pubkey"], args["signature_hex"],
                     BuildCanonical(args, payload) = SignedBytes(r))

(* The remote validator has its own list of fields, its own conversions    *)
(* (TypeError is caught too), and the payload apart from the envelope.     *)
HeaderFields == BoundText \cup {"timestamp_sec", "signature_hex"}
RemoteArgs(q) ==
  [f \in HeaderFields |-> IF f = "timestamp_sec" THEN Float(q[f]) ELSE Str(q[f])]

(* Mutant of RemoteVerdict: the freshness of the envelope is not checked.  *)
RemoteVerdictAnyTime(r, q, payload, clock) ==
  IF ~(HeaderFields \subseteq DOMAIN q) THEN "MISSING_FIELDS"
  ELSE IF ~IsFloat(q["timestamp_sec"]) THEN "HEADER_TYPE_CAST_FAULT"
  ELSE VerifyEd25519(RemoteArgs(q)["client_pubkey"], RemoteArgs(q)["signature_hex"],
                     BuildCanonical(RemoteArgs(q), payload) = SignedBytes(r))

RemoteVerdict(r, q, payload, clock) ==
  IF ~(HeaderFields \subseteq DOMAIN q) THEN "MISSING_FIELDS"
  ELSE IF ~IsFloat(q["timestamp_sec"]) THEN "HEADER_TYPE_CAST_FAULT"
  ELSE IF ~Fresh(RemoteArgs(q)["timestamp_sec"], clock) THEN "TIMESTAMP_STALE"
  ELSE VerifyEd25519(RemoteArgs(q)["client_pubkey"], RemoteArgs(q)["signature_hex"],
                     BuildCanonical(RemoteArgs(q), payload) = SignedBytes(r))

(* The bytes of a manifest are its fields as an f-string formats them, in  *)
(* their text form but not stripped.                                       *)
CanonicalManifest(q) == [f \in ManifestBound |-> Str(q[f])]

InTimeoutBounds(t) == t.is = "number" => 0 < t.val /\ t.val <= MaxTimeout

ManifestVerdict(r, q) ==
  IF ~(ManifestFields \subseteq DOMAIN q) THEN "MANIFEST_MISSING_FIELDS"
  ELSE IF ~IsFloat(q["execution_timeout_sec"]) \/ ~IsFloat(q["timestamp_sec"])
       THEN "MANIFEST_TYPE_CAST_FAULT"
  ELSE IF ~InTimeoutBounds(Float(q["execution_timeout_sec"]))
       THEN "MANIFEST_INVALID_TIMEOUT_BOUNDS"
  ELSE VerifyEd25519(Str(q["client_pubkey"]), Str(q["signature_hex"]),
                     CanonicalManifest(q) = CanonicalManifest(signed[r]))

(* The hash of the evidence of a cell, whose only variable part is the     *)
(* cell_id; Text(9) is a hash that no manifest of the model expects.       *)
EvidenceHash(cell) == IF cell.is = "text" /\ cell.blanks = 0 THEN Text(cell.val) ELSE Text(9)

EvidenceVerdict(cell, hash) ==
  IF hash.is # "text" THEN "EVIDENCE_INVALID_EXPECTED_HASH"
  ELSE IF EvidenceHash(cell) # hash THEN "EVIDENCE_HASH_MISMATCH"
  ELSE "OK"

(***************************************************************************)
(* The requests.                                                           *)
(***************************************************************************)
Stamps == {NaN} \cup {Number(t) : t \in 0..MaxNow}

(* An envelope its client can have signed.                                 *)
Envelopes ==
  {[f \in EnvelopeFields \cup {"size"} |->
      IF f = "timestamp_sec" THEN ts ELSE IF f = "nonce" THEN n ELSE Text(1)]
   : ts \in Stamps, n \in {Text(1), Text(2)}}

(* A manifest its client can have signed: for the right evidence or not.   *)
Manifests ==
  {[f \in ManifestFields |->
      CASE f = "timestamp_sec" -> Number(0)
        [] f = "execution_timeout_sec" -> t
        [] f = "expected_evidence_hash" -> h
        [] OTHER -> Text(1)]
   : t \in {Number(0), Number(MaxTimeout), Number(MaxTimeout + 1), NaN},
     h \in {Text(1), Text(2), Number(1)}}

(* What a field may have become on the way; also the number or the text    *)
(* with the same digits.                                                   *)
Changed(f, v) ==
  CASE f \in {"signature_hex", "payload_hex"} ->
         {Text(2), Value("odd", 1), Value("nothex", 1), Null, Padded(v), Number(v.val)}
         \cup (IF f = "signature_hex" THEN {Value("short", 1), Value("empty", 1)} ELSE {})
    [] f = "client_pubkey" -> {Text(2), Value("badkey", 1), Null, Padded(v)}
    [] f \in {"timestamp_sec", "execution_timeout_sec"} ->
         {Number(1), NaN, Null, Value("words", 1), Text(v.val)}
    [] f = "size" -> {Value("odd", 1)}
    [] OTHER -> {Text(2), Null, Padded(v), Number(v.val)}

Without(q, f) == [g \in DOMAIN q \ {f} |-> q[g]]
Alterations(q) ==
  {Without(q, f) : f \in DOMAIN q \ {"size"}}
  \cup UNION {{[q EXCEPT ![f] = v] : v \in Changed(f, q[f])} : f \in DOMAIN q}

NoRequest == [f \in {} |-> Null]

NoHandoff == [verdict |-> "none", payload |-> Null, at |-> 0]

Init ==
  /\ now = 0
  /\ kind = [r \in Reqs |-> "none"] /\ pc = [r \in Reqs |-> "unsent"]
  /\ signed = [r \in Reqs |-> NoRequest] /\ wire = signed
  /\ reply = [r \in Reqs |-> "none"] /\ handoff = [r \in Reqs |-> NoHandoff]
  /\ checked = [r \in Reqs |-> 0]
  /\ vault = {} /\ open = {} /\ undermined = {}
  /\ expected = [r \in Reqs |-> Null] /\ evidence = [r \in Reqs |-> Null]

Tick == now < MaxNow /\ now' = now + 1
        /\ UNCHANGED <<requests, pc, reply, checked, handoff, rows, cells>>

Send(r) ==
  /\ pc[r] = "unsent"
  /\ \E k \in {"envelope"} \cup (IF r \in CellReqs THEN {"manifest"} ELSE {}) :
       \E q \in IF k = "envelope" THEN Envelopes ELSE Manifests :
         \E w \in {q} \cup (IF r \in Alterable THEN Alterations(q) ELSE {}) :
           /\ kind' = [kind EXCEPT ![r] = k]
           /\ signed' = [signed EXCEPT ![r] = q]
           /\ wire' = [wire EXCEPT ![r] = w]
  /\ pc' = [pc EXCEPT ![r] = "sent"]
  /\ UNCHANGED <<now, reply, checked, handoff, rows, cells>>

Answer(r, reason) ==
  /\ reply' = [reply EXCEPT ![r] = reason]
  /\ pc' = [pc EXCEPT ![r] = "answered"]

(* The router and the engine's checks run without an await.                *)
GateVerdict(r, clock) ==
  IF RouterVerdict(wire[r]) # "OK" THEN RouterVerdict(wire[r])
  ELSE EngineVerdict(r, RouterArgs(wire[r]), PayloadOf(wire[r]), clock)

RouteIngress(r) ==
  /\ pc[r] = "sent" /\ kind[r] = "envelope"
  /\ IF GateVerdict(r, now) = "OK"
       THEN pc' = [pc EXCEPT ![r] = "insert"] /\ UNCHANGED reply
       ELSE Answer(r, GateVerdict(r, now))
  /\ checked' = [checked EXCEPT ![r] = now]
  /\ UNCHANGED <<now, requests, handoff, rows, cells>>

(* The row is keyed by the texts as they came, blanks included.            *)
KeyOf(q) == <<Str(q["client_pubkey"]), Str(q["nonce"])>>

(* Mutants of InsertNonce: the column of the timestamp may be NULL; the    *)
(* row of a conflict is replaced (INSERT OR REPLACE).                      *)
InsertNonceTakesNaN(r) ==
  /\ pc[r] = "insert"
  /\ IF KeyOf(wire[r]) \in vault \cup open
       THEN Answer(r, "NONCE_REPLAY_DETECTED") /\ UNCHANGED open
       ELSE /\ open' = open \cup {KeyOf(wire[r])}
            /\ pc' = [pc EXCEPT ![r] = "commit"] /\ UNCHANGED reply
  /\ UNCHANGED <<now, requests, checked, handoff, vault, undermined, cells>>

InsertOrReplaceNonce(r) ==
  /\ pc[r] = "insert"
  /\ IF wire[r]["timestamp_sec"] = NaN
       THEN Answer(r, "NONCE_REPLAY_DETECTED") /\ UNCHANGED open
       ELSE /\ open' = open \cup {KeyOf(wire[r])}
            /\ pc' = [pc EXCEPT ![r] = "commit"] /\ UNCHANGED reply
  /\ UNCHANGED <<now, requests, checked, handoff, vault, undermined, cells>>

(* The INSERT, in a pool thread, sees the rows the other threads have not  *)
(* committed yet.  SQLite stores NaN as NULL, and timestamp_sec is NOT     *)
(* NULL: that IntegrityError too is answered as a replay.                  *)
InsertNonce(r) ==
  /\ pc[r] = "insert"
  /\ IF KeyOf(wire[r]) \in vault \cup open \/ wire[r]["timestamp_sec"] = NaN
       THEN Answer(r, "NONCE_REPLAY_DETECTED") /\ UNCHANGED open
       ELSE /\ open' = open \cup {KeyOf(wire[r])}
            /\ pc' = [pc EXCEPT ![r] = "commit"] /\ UNCHANGED reply
  /\ UNCHANGED <<now, requests, checked, handoff, vault, undermined, cells>>

CommitAll   == vault' = vault \cup open /\ open' = {} /\ UNCHANGED undermined
RollBackAll ==
  /\ open' = {} /\ UNCHANGED vault
  /\ undermined' = undermined \cup {r \in Reqs : pc[r] = "commit" /\ KeyOf(wire[r]) \in open}

(* The commit, in the same thread, of whatever is open, and the queue.     *)
CommitNonce(r) ==
  /\ pc[r] = "commit"
  /\ CommitAll
  /\ \E reason \in {"OK", "BACKPRESSURE_REJECTION_QUEUE_FULL"} : Answer(r, reason)
  /\ UNCHANGED <<now, requests, checked, handoff, cells>>

(* The INSERT or the commit raises: the rows inserted before stay in the   *)
(* open transaction, or SQLite has rolled it back.                         *)
NonceFault(r) ==
  /\ pc[r] \in {"insert", "commit"}
  /\ Answer(r, "INTERNAL_DATABASE_FAULT")
  /\ UNCHANGED rows \/ RollBackAll
  /\ UNCHANGED <<now, requests, checked, handoff, cells>>

(* The batch writer flushes on the same connection, or fails to.           *)
FlushBatch ==
  /\ open # {}
  /\ CommitAll \/ RollBackAll
  /\ UNCHANGED <<now, requests, pc, reply, checked, handoff, cells>>

(* Another node validates the envelope it has been handed, next to a       *)
(* payload which need not be the one that was sent.                        *)
Handoff(r) ==
  /\ r \in RemoteReqs /\ kind[r] = "envelope" /\ handoff[r] = NoHandoff
  /\ \E payload \in {Text(1), Text(2)} :
       handoff' = [handoff EXCEPT ![r] =
                     [verdict |-> RemoteVerdict(r, wire[r], payload, now),
                      payload |-> payload, at |-> now]]
  /\ UNCHANGED <<now, requests, pc, reply, checked, rows, cells>>

(* execute_cell up to its await.                                           *)
StartCell(r) ==
  /\ pc[r] = "sent" /\ kind[r] = "manifest"
  /\ LET verdict == ManifestVerdict(r, wire[r])
     IN  IF verdict = "OK"
         THEN /\ pc' = [pc EXCEPT ![r] = "running"]
              /\ expected' = [expected EXCEPT ![r] = wire[r]["expected_evidence_hash"]]
              /\ UNCHANGED reply
         ELSE Answer(r, verdict) /\ UNCHANGED expected
  /\ UNCHANGED <<now, requests, checked, handoff, rows, evidence>>

(* The caller still holds the dictionary of a running cell and may change  *)
(* it while execute_cell waits.                                            *)
ChangeManifest(r) ==
  /\ pc[r] = "running" /\ r \in Alterable
  /\ \E f \in {"cell_id", "expected_evidence_hash"} :
       wire' = [wire EXCEPT ![r][f] = Text(2)]
  /\ UNCHANGED <<now, kind, signed, pc, reply, checked, handoff, rows, cells>>

(* Mutant of FinishCell: the hash is read from the manifest after the task.*)
FinishCellReadsAgain(r) ==
  /\ pc[r] = "running"
  /\ evidence' = [evidence EXCEPT ![r] = wire[r]["cell_id"]]
  /\ Answer(r, EvidenceVerdict(wire[r]["cell_id"], wire[r]["expected_evidence_hash"]))
  /\ UNCHANGED <<now, requests, checked, handoff, rows, expected>>

(* The task reads cell_id when its sleep is over.                          *)
FinishCell(r) ==
  /\ pc[r] = "running"
  /\ evidence' = [evidence EXCEPT ![r] = wire[r]["cell_id"]]
  /\ Answer(r, EvidenceVerdict(wire[r]["cell_id"], expected[r]))
  /\ UNCHANGED <<now, requests, checked, handoff, rows, expected>>

(* The timer of wait_for may win over the sleep: for a short timeout, for  *)
(* NaN, and whenever the event loop is late.                               *)
TimeOutCell(r) ==
  /\ pc[r] = "running"
  /\ Answer(r, "CELL_EXECUTION_TIMEOUT")
  /\ UNCHANGED <<now, requests, checked, handoff, rows, cells>>

Next ==
  \/ Tick \/ FlushBatch
  \/ \E r \in Reqs :
       \/ Send(r) \/ RouteIngress(r) \/ InsertNonce(r) \/ CommitNonce(r) \/ NonceFault(r)
       \/ Handoff(r)
       \/ StartCell(r) \/ ChangeManifest(r) \/ FinishCell(r) \/ TimeOutCell(r)

Spec == Init /\ [][Next]_vars

(***************************************************************************)
(* Properties.                                                             *)
(***************************************************************************)
Values == [is : Kinds, val : Nat, blanks : 0..1]
Reasons == {"none", "OK", "RAISED", "PAYLOAD_TOO_LARGE", "MISSING_FIELDS", "MALFORMED_FIELD_TYPES",
  "MALFORMED_PAYLOAD_HEX_ODD_LENGTH", "INVALID_PAYLOAD_HEX_ENCODING", "TIMESTAMP_STALE",
  "HEADER_TYPE_CAST_FAULT", "INVALID_SOLANA_PUBKEY", "MISSING_OR_INVALID_SIGNATURE_TYPE",
  "MALFORMED_HEX_SIGNATURE_ODD_LENGTH", "INVALID_HEX_ENCODING", "INVALID_SIGNATURE_LENGTH",
  "CRYPTOGRAPHIC_SIGNATURE_MISMATCH", "NONCE_REPLAY_DETECTED", "INTERNAL_DATABASE_FAULT",
  "BACKPRESSURE_REJECTION_QUEUE_FULL", "MANIFEST_MISSING_FIELDS", "MANIFEST_TYPE_CAST_FAULT",
  "MANIFEST_INVALID_TIMEOUT_BOUNDS", "EVIDENCE_INVALID_EXPECTED_HASH", "EVIDENCE_HASH_MISMATCH",
  "CELL_EXECUTION_TIMEOUT"}

(* Every answer is one of the reasons the gates have, and every field a    *)
(* value the gates can be given.                                           *)
TypeOK ==
  /\ now \in 0..MaxNow
  /\ \A r \in Reqs :
       /\ kind[r] \in {"none", "envelope", "manifest"}
       /\ pc[r] \in {"unsent", "sent", "insert", "commit", "running", "answered"}
       /\ reply[r] \in Reasons
       /\ handoff[r] \in [verdict : Reasons, payload : Values, at : 0..MaxNow]
       /\ \A f \in DOMAIN wire[r] : wire[r][f] \in Values
       /\ checked[r] \in 0..MaxNow /\ expected[r] \in Values /\ evidence[r] \in Values
  /\ vault \subseteq Values \X Values /\ open \subseteq Values \X Values
  /\ undermined \subseteq Reqs

(* What the signature stands for: the texts of the header fields without   *)
(* the blanks around them, and the timestamp as a number.                  *)
HeaderAsSigned(r) ==
  /\ \A f \in BoundText : Strip(Str(wire[r][f])) = signed[r][f]
  /\ Float(wire[r]["timestamp_sec"]) = signed[r]["timestamp_sec"]

(* Past the engine's checks, and past the vault.                           *)
PassedChecks(r) ==
  /\ kind[r] = "envelope"
  /\ \/ pc[r] \in {"insert", "commit"}
     \/ reply[r] \in {"OK", "BACKPRESSURE_REJECTION_QUEUE_FULL", "NONCE_REPLAY_DETECTED",
                      "INTERNAL_DATABASE_FAULT"}
PassedVault(r) ==
  kind[r] = "envelope" /\ reply[r] \in {"OK", "BACKPRESSURE_REJECTION_QUEUE_FULL"}

(* A row of the vault, committed or still in the open transaction of all   *)
(* threads, is there for an envelope whose client signed it with this      *)
(* nonce and payload and that was fresh, by a timestamp which is a number, *)
(* when it was checked - whatever its sender was answered: a commit that   *)
(* fails leaves its row for the next one, of another thread, to make       *)
(* durable.  What failed a check has no row in any order of the threads.   *)
NonceRowsAreEarned ==
  \A k \in vault \cup open : \E r \in Reqs :
    /\ PassedChecks(r) /\ pc[r] # "insert" /\ reply[r] # "NONCE_REPLAY_DETECTED"
    /\ k = KeyOf(wire[r])
    /\ HeaderAsSigned(r) /\ PayloadOf(wire[r]) = signed[r]["payload_hex"]
    /\ signed[r]["timestamp_sec"].is = "number" /\ Fresh(signed[r]["timestamp_sec"], checked[r])

(* What has got past the vault has its row there for good, and nothing     *)
(* else with this client_pubkey and nonce, as they came, gets past it -    *)
(* but for a request whose row a failing statement of another thread has   *)
(* rolled back between its INSERT and its commit.                          *)
SpendsItsNonce ==
  \A r \in Reqs :
    PassedVault(r) /\ r \notin undermined =>
      /\ KeyOf(wire[r]) \in vault
      /\ \A s \in Reqs \ ({r} \cup undermined) :
           PassedVault(s) => KeyOf(wire[s]) # KeyOf(wire[r])

(* What the engine has found, with the answers after its checks left out.  *)
EngineFound(r) == IF PassedChecks(r) THEN "OK" ELSE reply[r]

(* An envelope that the router let through and that was handed to another  *)
(* node with its payload has the same verdict in both places, though each  *)
(* converts the fields and builds the bytes for itself, or one of them saw *)
(* it when it was not fresh; at one time of the clock they never differ.   *)
(* And with whatever payload it is handed over, the other node passes      *)
(* nothing but header and payload as they were signed.                     *)
HandoffKeepsVerdict ==
  \A r \in Reqs :
    kind[r] = "envelope" /\ handoff[r] # NoHandoff =>
      /\ pc[r] # "sent" /\ RouterVerdict(wire[r]) = "OK" /\ handoff[r].payload = PayloadOf(wire[r]) =>
           \/ handoff[r].verdict = EngineFound(r)
           \/ /\ handoff[r].at # checked[r]
              /\ "TIMESTAMP_STALE" \in {handoff[r].verdict, EngineFound(r)}
      /\ handoff[r].verdict = "OK" =>
           HeaderAsSigned(r) /\ handoff[r].payload = signed[r]["payload_hex"]

(* The "strict nonce-based idempotency to prevent replays" of the engine   *)
(* (ingress_metering.py:21-22): of one signed envelope one copy is         *)
(* accepted, even when no row was ever rolled back; for "any mutation to   *)
(* any of these fields post-signature will result in a completely          *)
(* different byte string" (security.py:52-53).  But the fields are         *)
(* stripped before they are signed, and the row is keyed by the nonce as   *)
(* it came: a copy with blanks around its nonce is accepted again.         *)
SignedOnceAcceptedOnce ==
  \A r, s \in Reqs :
    /\ r # s /\ undermined = {}
    /\ kind[r] = "envelope" /\ kind[s] = "envelope" /\ signed[r] = signed[s]
    => ~(reply[r] = "OK" /\ reply[s] = "OK")

(* A cell that answers OK answers with evidence that has the hash its      *)
(* client signed, as a text, even when the caller changes the manifest,    *)
(* the expected hash included, while the cell runs.                        *)
CellOkIsCommitted ==
  \A r \in Reqs :
    kind[r] = "manifest" /\ reply[r] = "OK" =>
      EvidenceHash(evidence[r]) = Str(signed[r]["expected_evidence_hash"])
=============================================================================
