--------------------------- MODULE SignedGatesProofs ---------------------------
(***************************************************************************)
(* Theorems about SignedGates, for any requests, any clock and any limits: *)
(* each row of the vault is earned by an envelope that was signed and      *)
(* fresh, what gets past the vault has its row there alone, another node   *)
(* finds what the engine found, and a cell that answers OK has the         *)
(* evidence its client committed to.                                       *)
(*                                                                         *)
(* The argument: what the engine has found stays the verdict on the        *)
(* request at the clock it was checked, because an envelope does not       *)
(* change after it was sent; a row is in the vault or in the open          *)
(* transaction until a rollback takes it, which undermines its request;    *)
(* and the expected hash of a manifest was read before it could change.    *)
(***************************************************************************)
EXTENDS SignedGates, TLAPS

-----------------------------------------------------------------------------
(* The invariant. *)

States == {"unsent", "sent", "insert", "commit", "running", "answered"}
Handoffs == [verdict : Reasons, payload : Values, at : 0..MaxNow]

GatesType ==
  /\ now \in 0..MaxNow
  /\ kind \in [Reqs -> {"none", "envelope", "manifest"}]
  /\ pc \in [Reqs -> States]
  /\ reply \in [Reqs -> Reasons] /\ handoff \in [Reqs -> Handoffs]
  /\ checked \in [Reqs -> 0..MaxNow]
  /\ expected \in [Reqs -> Values] /\ evidence \in [Reqs -> Values]
  /\ DOMAIN signed = Reqs /\ DOMAIN wire = Reqs
  /\ vault \subseteq Values \X Values /\ open \subseteq Values \X Values
  /\ undermined \subseteq Reqs

(* Where each kind of request can be, and what has been answered there.    *)
PlaceOK(r) ==
  /\ kind[r] = "none" => pc[r] = "unsent"
  /\ kind[r] = "envelope" => pc[r] \in {"sent", "insert", "commit", "answered"}
  /\ kind[r] = "manifest" => pc[r] \in {"sent", "running", "answered"}
  /\ pc[r] # "answered" => reply[r] = "none"
  /\ kind[r] # "envelope" => handoff[r] = NoHandoff

(* What clients sign, and what may arrive. *)
RequestOK(r) ==
  /\ kind[r] = "envelope" => signed[r] \in Envelopes
  /\ kind[r] = "manifest" => signed[r] \in Manifests
  /\ wire[r] \in [DOMAIN wire[r] -> Values]

(* Both nodes have given the envelope the verdict it still has.            *)
EnvelopeOK(r) ==
  kind[r] = "envelope" =>
    /\ pc[r] # "sent" => EngineFound(r) = GateVerdict(r, checked[r])
    /\ handoff[r] # NoHandoff =>
         handoff[r].verdict = RemoteVerdict(r, wire[r], handoff[r].payload, handoff[r].at)

(* The cell runs for the manifest that was signed; only its caller may     *)
(* have changed it since.                                                  *)
CellOK(r) ==
  kind[r] = "manifest" =>
    /\ pc[r] = "running" => /\ ManifestFields \subseteq DOMAIN wire[r]
                            /\ Str(expected[r]) = Str(signed[r]["expected_evidence_hash"])
    /\ reply[r] = "OK" => EvidenceHash(evidence[r]) = Str(signed[r]["expected_evidence_hash"])

(* Envelopes whose INSERT has succeeded, and those of them that go on.     *)
Stored == {"OK", "BACKPRESSURE_REJECTION_QUEUE_FULL", "INTERNAL_DATABASE_FAULT"}
Holding(r) == kind[r] = "envelope" /\ (pc[r] = "commit" \/ reply[r] \in Stored)
Active(r) == (kind[r] = "envelope" /\ pc[r] = "commit") \/ PassedVault(r)

VaultOK ==
  \A k \in vault \cup open : \E r \in Reqs :
    Holding(r) /\ k = KeyOf(wire[r]) /\ wire[r]["timestamp_sec"] # NaN

(* The row is there until a rollback takes it, and there for one request.  *)
RowOK(r) ==
  Active(r) => \/ r \in undermined
               \/ KeyOf(wire[r]) \in vault
               \/ KeyOf(wire[r]) \in open /\ ~PassedVault(r)
AloneOK ==
  \A r, s \in Reqs :
    r # s /\ Active(r) /\ Active(s) /\ KeyOf(wire[r]) = KeyOf(wire[s]) =>
      r \in undermined \/ s \in undermined

RequestInv(r) == PlaceOK(r) /\ RequestOK(r) /\ EnvelopeOK(r) /\ CellOK(r)
RowsInv == VaultOK /\ AloneOK /\ \A r \in Reqs : RowOK(r)

GatesInv == GatesType /\ (\A r \in Reqs : RequestInv(r)) /\ RowsInv

-----------------------------------------------------------------------------
(* Values and requests. *)

LEMMA ValueFacts ==
  /\ \A x \in Nat : Text(x) \in Values /\ Number(x) \in Values
  /\ \A x \in Nat, w \in Kinds : Value(w, x) \in Values
  /\ NaN \in Values /\ Null \in Values
  /\ \A v \in Values : /\ Padded(v) \in Values /\ Str(v) \in Values
                       /\ Number(v.val) \in Values /\ Text(v.val) \in Values
BY DEF Values, Text, Number, NaN, Null, Padded, Str, Value, Kinds

(* What is left of a text without its blanks. *)
LEMMA TextFacts ==
  /\ \A x \in Nat : Strip(Text(x)) = Text(x) /\ Str(Text(x)) = Text(x)
  /\ \A x, y \in Nat : Text(x) = Text(y) => x = y
  /\ \A x \in Nat : Text(x).is = "text"
BY DEF Text, Value, Strip, Str

(* A text form is its own text form. *)
LEMMA StrTwice ==
  ASSUME NEW v
  PROVE  Str(Str(v)) = Str(v)
BY DEF Str, Text, Value

LEMMA StampFacts ==
  ASSUME NEW ts \in Stamps
  PROVE  /\ ts \in Values
         /\ ts = NaN \/ (ts.is = "number" /\ ts.val \in 0..MaxNow)
BY ValueFacts, LimitAssumption DEF Stamps, Number, Value

LEMMA EnvelopeFacts ==
  ASSUME NEW q \in Envelopes
  PROVE  /\ q \in [EnvelopeFields \cup {"size"} -> Values]
         /\ q["timestamp_sec"] \in Stamps
         /\ \A f \in BoundText \cup {"payload_hex"} : q[f] = Text(1) \/ q[f] = Text(2)
<1>1. PICK ts \in Stamps, x \in {Text(1), Text(2)} :
        q = [f \in EnvelopeFields \cup {"size"} |->
               IF f = "timestamp_sec" THEN ts ELSE IF f = "nonce" THEN x ELSE Text(1)]
  BY DEF Envelopes
<1>2. ts \in Values /\ x \in Values /\ Text(1) \in Values
  BY StampFacts, ValueFacts
<1>3. q \in [EnvelopeFields \cup {"size"} -> Values]
  BY <1>1, <1>2
<1>4. q["timestamp_sec"] = ts
  BY <1>1 DEF EnvelopeFields
<1>5. \A f \in BoundText \cup {"payload_hex"} : q[f] = Text(1) \/ q[f] = Text(2)
  BY <1>1 DEF EnvelopeFields, BoundText
<1> QED
  BY <1>3, <1>4, <1>5

LEMMA ManifestFacts ==
  ASSUME NEW q \in Manifests
  PROVE  q \in [ManifestFields -> Values]
<1>1. PICK x \in {Number(0), Number(MaxTimeout), Number(MaxTimeout + 1), NaN},
           y \in {Text(1), Text(2), Number(1)} :
        q = [f \in ManifestFields |->
               CASE f = "timestamp_sec" -> Number(0)
                 [] f = "execution_timeout_sec" -> x
                 [] f = "expected_evidence_hash" -> y
                 [] OTHER -> Text(1)]
  BY DEF Manifests
<1>2. /\ x \in Values /\ y \in Values /\ Number(0) \in Values /\ Text(1) \in Values
  BY ValueFacts, LimitAssumption
<1>3. \A f \in ManifestFields :
        (CASE f = "timestamp_sec" -> Number(0)
           [] f = "execution_timeout_sec" -> x
           [] f = "expected_evidence_hash" -> y
           [] OTHER -> Text(1)) \in Values
  BY ONLY <1>2
<1> QED
  BY <1>1, <1>3

(* A changed request still has values in its fields. *)
LEMMA AlteredFacts ==
  ASSUME NEW q, q \in [DOMAIN q -> Values], NEW w \in Alterations(q)
  PROVE  w \in [DOMAIN w -> Values]
<1>1. CASE \E f \in DOMAIN q : w = Without(q, f)
  BY <1>1 DEF Without
<1>2. CASE \E f \in DOMAIN q : \E v \in Changed(f, q[f]) : w = [q EXCEPT ![f] = v]
  <2>1. PICK f \in DOMAIN q : \E v \in Changed(f, q[f]) : w = [q EXCEPT ![f] = v]
    BY <1>2
  <2>2. PICK v \in Changed(f, q[f]) : w = [q EXCEPT ![f] = v]
    BY <2>1
  <2>3. v \in Values
    <3>1. q[f] \in Values
      OBVIOUS
    <3>2. {Padded(q[f]), Number(q[f].val), Text(q[f].val)} \subseteq Values
      BY <3>1, ValueFacts
    <3>3. /\ {"odd", "nothex", "short", "empty", "badkey", "words"} \subseteq Kinds
          /\ 1 \in Nat /\ 2 \in Nat
      BY DEF Kinds
    <3>4. /\ {Text(2), Null, NaN, Number(1), Value("odd", 1), Value("nothex", 1)} \subseteq Values
          /\ {Value("short", 1), Value("empty", 1), Value("badkey", 1), Value("words", 1)}
               \subseteq Values
      BY <3>3, ValueFacts
    <3> QED
      BY <2>2, <3>2, <3>4 DEF Changed
  <2> QED
    BY <2>2, <2>3
<1> QED
  BY <1>1, <1>2 DEF Alterations

-----------------------------------------------------------------------------
(* The verdicts. *)

SignatureReasons ==
  {"OK", "INVALID_SOLANA_PUBKEY", "MISSING_OR_INVALID_SIGNATURE_TYPE",
   "MALFORMED_HEX_SIGNATURE_ODD_LENGTH", "INVALID_HEX_ENCODING", "INVALID_SIGNATURE_LENGTH",
   "CRYPTOGRAPHIC_SIGNATURE_MISMATCH"}
RequestReasons ==
  SignatureReasons \cup
  {"RAISED", "PAYLOAD_TOO_LARGE", "MISSING_FIELDS", "MALFORMED_FIELD_TYPES",
   "MALFORMED_PAYLOAD_HEX_ODD_LENGTH", "INVALID_PAYLOAD_HEX_ENCODING", "TIMESTAMP_STALE",
   "HEADER_TYPE_CAST_FAULT", "MANIFEST_MISSING_FIELDS", "MANIFEST_TYPE_CAST_FAULT",
   "MANIFEST_INVALID_TIMEOUT_BOUNDS"}

LEMMA SignatureFacts ==
  ASSUME NEW key, NEW sig, NEW fits \in BOOLEAN
  PROVE  /\ VerifyEd25519(key, sig, fits) \in SignatureReasons
         /\ VerifyEd25519(key, sig, fits) = "OK" => fits
BY DEF VerifyEd25519, SignatureReasons

LEMMA RouterFacts ==
  ASSUME NEW q
  PROVE  /\ RouterVerdict(q) \in RequestReasons
         /\ RouterVerdict(q) = "OK" => /\ EnvelopeFields \subseteq DOMAIN q
                                       /\ IsFloat(q["timestamp_sec"])
BY DEF RouterVerdict, RequestReasons, SignatureReasons

LEMMA EngineFacts ==
  ASSUME NEW r, NEW args, NEW payload, NEW clock
  PROVE  /\ EngineVerdict(r, args, payload, clock) \in RequestReasons
         /\ EngineVerdict(r, args, payload, clock) = "OK" =>
              /\ Fresh(args["timestamp_sec"], clock)
              /\ BuildCanonical(args, payload) = SignedBytes(r)
<1>1. (BuildCanonical(args, payload) = SignedBytes(r)) \in BOOLEAN
  OBVIOUS
<1> QED
  BY <1>1, SignatureFacts DEF EngineVerdict, RequestReasons

LEMMA RemoteFacts ==
  ASSUME NEW r, NEW q, NEW payload, NEW clock
  PROVE  /\ RemoteVerdict(r, q, payload, clock) \in RequestReasons
         /\ RemoteVerdict(r, q, payload, clock) = "OK" =>
              BuildCanonical(RemoteArgs(q), payload) = SignedBytes(r)
<1>1. (BuildCanonical(RemoteArgs(q), payload) = SignedBytes(r)) \in BOOLEAN
  OBVIOUS
<1> QED
  BY <1>1, SignatureFacts DEF RemoteVerdict, RequestReasons

LEMMA ManifestVerdictFacts ==
  ASSUME NEW r, NEW q
  PROVE  /\ ManifestVerdict(r, q) \in RequestReasons
         /\ ManifestVerdict(r, q) = "OK" => /\ ManifestFields \subseteq DOMAIN q
                                            /\ CanonicalManifest(q) = CanonicalManifest(signed[r])
<1>1. (CanonicalManifest(q) = CanonicalManifest(signed[r])) \in BOOLEAN
  OBVIOUS
<1> QED
  BY <1>1, SignatureFacts DEF ManifestVerdict, RequestReasons

(* Bytes that fit the signature come from fields which have, as texts, the *)
(* text that was signed, blanks aside.                                     *)
LEMMA FittingFields ==
  ASSUME NEW r, NEW args, NEW payload, signed[r] \in Envelopes,
         BuildCanonical(args, payload) = SignedBytes(r)
  PROVE  /\ args["timestamp_sec"] = signed[r]["timestamp_sec"]
         /\ payload = signed[r]["payload_hex"]
         /\ \A f \in BoundText : Strip(Str(args[f])) = signed[r][f]
<1>1. \A f \in BoundText \cup {"payload_hash", "timestamp"} :
        BuildCanonical(args, payload)[f]
          = BuildCanonical(signed[r], signed[r]["payload_hex"])[f]
  BY DEF SignedBytes
<1>2. args["timestamp_sec"] = signed[r]["timestamp_sec"]
  BY <1>1 DEF BuildCanonical
<1>3. payload = signed[r]["payload_hex"]
  BY <1>1 DEF BuildCanonical
<1>4. ASSUME NEW f \in BoundText
      PROVE  Strip(Str(args[f])) = signed[r][f]
  <2>1. f # "payload_hash" /\ f # "timestamp"
    BY DEF BoundText
  <2>2. Strip(Str(args[f])) = Strip(Str(signed[r][f]))
    BY <1>1, <2>1 DEF BuildCanonical
  <2>3. PICK x \in {1, 2} : signed[r][f] = Text(x)
    BY EnvelopeFacts
  <2> QED
    BY <2>2, <2>3, TextFacts
<1> QED
  BY <1>2, <1>3, <1>4

(* What passes the gate is fresh, and header and payload are as signed.    *)
LEMMA GateFacts ==
  ASSUME NEW r, NEW clock
  PROVE  /\ GateVerdict(r, clock) \in RequestReasons
         /\ GateVerdict(r, clock) = "OK" => EnvelopeFields \subseteq DOMAIN wire[r]
         /\ GateVerdict(r, clock) = "OK" /\ signed[r] \in Envelopes =>
              /\ HeaderAsSigned(r) /\ PayloadOf(wire[r]) = signed[r]["payload_hex"]
              /\ Fresh(signed[r]["timestamp_sec"], clock)
<1> DEFINE args == RouterArgs(wire[r])
           payload == PayloadOf(wire[r])
<1>1. GateVerdict(r, clock) \in RequestReasons
  BY RouterFacts, EngineFacts DEF GateVerdict
<1>2. GateVerdict(r, clock) = "OK" =>
        /\ EnvelopeFields \subseteq DOMAIN wire[r]
        /\ Fresh(args["timestamp_sec"], clock)
        /\ BuildCanonical(args, payload) = SignedBytes(r)
  BY RouterFacts, EngineFacts DEF GateVerdict
<1>3. ASSUME GateVerdict(r, clock) = "OK", signed[r] \in Envelopes
      PROVE  /\ HeaderAsSigned(r) /\ payload = signed[r]["payload_hex"]
             /\ Fresh(signed[r]["timestamp_sec"], clock)
  <2>1. args["timestamp_sec"] = Float(wire[r]["timestamp_sec"])
    BY DEF RouterArgs, EnvelopeFields
  <2>2. \A f \in BoundText : args[f] = Str(wire[r][f])
    BY DEF RouterArgs, EnvelopeFields, BoundText
  <2> HIDE DEF args, payload
  <2>3. /\ args["timestamp_sec"] = signed[r]["timestamp_sec"]
        /\ payload = signed[r]["payload_hex"]
        /\ \A f \in BoundText : Strip(Str(args[f])) = signed[r][f]
    BY <1>2, <1>3, FittingFields
  <2>4. \A f \in BoundText : Strip(Str(wire[r][f])) = signed[r][f]
    BY <2>2, <2>3, StrTwice
  <2> QED
    BY <1>2, <1>3, <2>1, <2>3, <2>4 DEF HeaderAsSigned
<1> QED
  BY <1>1, <1>2, <1>3

(* The remote validator's bytes are the engine's, for the payload that was *)
(* sent; only the clock can make the two verdicts differ.                  *)
LEMMA SameBytes ==
  ASSUME NEW q, NEW payload
  PROVE  BuildCanonical(RemoteArgs(q), payload) = BuildCanonical(RouterArgs(q), payload)
<1>1. \A f \in HeaderFields : RemoteArgs(q)[f] = RouterArgs(q)[f]
  BY DEF RemoteArgs, RouterArgs, HeaderFields, EnvelopeFields
<1>2. "timestamp_sec" \in HeaderFields /\ BoundText \subseteq HeaderFields
  BY DEF HeaderFields
<1> QED
  BY <1>1, <1>2 DEF BuildCanonical

LEMMA SameVerdict ==
  ASSUME NEW r, NEW c1, NEW c2, RouterVerdict(wire[r]) = "OK"
  PROVE  LET here  == GateVerdict(r, c1)
             there == RemoteVerdict(r, wire[r], PayloadOf(wire[r]), c2)
         IN  here = there \/ (c1 # c2 /\ "TIMESTAMP_STALE" \in {here, there})
<1> DEFINE payload == PayloadOf(wire[r])
           args == RouterArgs(wire[r])
           verdict == VerifyEd25519(args["client_pubkey"], args["signature_hex"],
                                    BuildCanonical(args, payload) = SignedBytes(r))
<1>1. HeaderFields \subseteq DOMAIN wire[r] /\ IsFloat(wire[r]["timestamp_sec"])
  BY RouterFacts DEF HeaderFields, EnvelopeFields
<1>2. /\ RemoteArgs(wire[r])["timestamp_sec"] = args["timestamp_sec"]
      /\ RemoteArgs(wire[r])["client_pubkey"] = args["client_pubkey"]
      /\ RemoteArgs(wire[r])["signature_hex"] = args["signature_hex"]
  BY DEF RemoteArgs, RouterArgs, HeaderFields, EnvelopeFields, BoundText
<1>3. BuildCanonical(RemoteArgs(wire[r]), payload) = BuildCanonical(args, payload)
  BY SameBytes
<1>4. GateVerdict(r, c1)
        = IF ~Fresh(args["timestamp_sec"], c1) THEN "TIMESTAMP_STALE" ELSE verdict
  BY DEF GateVerdict, EngineVerdict
<1>5. RemoteVerdict(r, wire[r], payload, c2)
        = IF ~Fresh(args["timestamp_sec"], c2) THEN "TIMESTAMP_STALE" ELSE verdict
  BY <1>1, <1>2, <1>3 DEF RemoteVerdict
<1> HIDE DEF args, verdict, payload
<1> QED
  BY <1>4, <1>5 DEF payload

-----------------------------------------------------------------------------
(* The invariant holds at first, and what a step does not touch.           *)

LEMMA InitInv == Init => GatesInv
<1> SUFFICES ASSUME Init PROVE GatesInv
  OBVIOUS
<1> USE DEF Init
<1>1. NoHandoff \in Handoffs
  BY ValueFacts, LimitAssumption DEF Handoffs, NoHandoff, Reasons
<1>2. GatesType
  BY <1>1, ValueFacts, LimitAssumption DEF GatesType, States, Reasons
<1>3. ASSUME NEW r \in Reqs
      PROVE  RequestInv(r)
  <2>1. PlaceOK(r) /\ EnvelopeOK(r) /\ CellOK(r)
    BY DEF PlaceOK, EnvelopeOK, CellOK
  <2>2. RequestOK(r)
    BY DEF RequestOK, NoRequest
  <2> QED
    BY <2>1, <2>2 DEF RequestInv
<1>4. RowsInv
  <2>1. \A r \in Reqs : ~Active(r)
    BY DEF Active, PassedVault
  <2> QED
    BY <2>1 DEF RowsInv, VaultOK, AloneOK, RowOK
<1> QED
  BY <1>2, <1>3, <1>4 DEF GatesInv

(* The facts every step starts from. *)
LEMMA StepFacts ==
  ASSUME GatesInv
  PROVE  /\ GatesType /\ RowsInv
         /\ \A r \in Reqs : RequestInv(r)
         /\ MaxDrift \in Nat /\ MaxNow \in Nat
BY LimitAssumption DEF GatesInv

(* The verdicts speak of nothing but the request. *)
LEMMA VerdictsKept ==
  ASSUME NEW r, signed'[r] = signed[r], wire'[r] = wire[r]
  PROVE  /\ \A c : GateVerdict(r, c)' = GateVerdict(r, c)
         /\ \A q, p, c : RemoteVerdict(r, q, p, c)' = RemoteVerdict(r, q, p, c)
<1>1. SignedBytes(r)' = SignedBytes(r)
  BY DEF SignedBytes
<1> QED
  BY <1>1 DEF GateVerdict, EngineVerdict, RemoteVerdict

(* A step leaves alone the requests it is not about. *)
LEMMA OtherRequest ==
  ASSUME NEW r, RequestInv(r), expected'[r] = expected[r], evidence'[r] = evidence[r],
         kind'[r] = kind[r], pc'[r] = pc[r], reply'[r] = reply[r], handoff'[r] = handoff[r],
         checked'[r] = checked[r], signed'[r] = signed[r], wire'[r] = wire[r]
  PROVE  RequestInv(r)'
<1> USE DEF RequestInv
<1>1. PlaceOK(r)'
  BY DEF PlaceOK
<1>2. RequestOK(r)'
  BY DEF RequestOK
<1>3. EnvelopeOK(r)'
  <2>1. EngineFound(r)' = EngineFound(r)
    BY DEF EngineFound, PassedChecks
  <2> QED
    BY <2>1, VerdictsKept DEF EnvelopeOK
<1>4. CellOK(r)'
  BY DEF CellOK
<1> QED
  BY <1>1, <1>2, <1>3, <1>4

(* The rows outlive a step that touches none of them. *)
LEMMA RowsKept ==
  ASSUME RowsInv, UNCHANGED rows,
         \A x \in Reqs : Holding(x) => Holding(x)' /\ wire'[x] = wire[x],
         \A x \in Reqs : Active(x)' => /\ Active(x) /\ wire'[x] = wire[x]
                                       /\ PassedVault(x)' => PassedVault(x)
  PROVE  RowsInv'
<1> USE DEF RowsInv, rows
<1>1. VaultOK'
  BY DEF VaultOK, KeyOf
<1>2. AloneOK'
  BY DEF AloneOK, KeyOf
<1>3. \A x \in Reqs : RowOK(x)'
  BY DEF RowOK, KeyOf
<1> QED
  BY <1>1, <1>2, <1>3

(* A commit, of anyone, makes them durable. *)
LEMMA RowsCommitted ==
  ASSUME RowsInv, CommitAll, wire' = wire,
         \A x \in Reqs : Holding(x) => Holding(x)',
         \A x \in Reqs : Active(x)' => Active(x)
  PROVE  RowsInv'
<1> USE DEF RowsInv, CommitAll
<1>1. VaultOK'
  BY DEF VaultOK, KeyOf
<1>2. AloneOK'
  BY DEF AloneOK, KeyOf
<1>3. \A x \in Reqs : RowOK(x)'
  BY DEF RowOK, KeyOf
<1> QED
  BY <1>1, <1>2, <1>3

(* A rollback takes the open ones, and undermines their requests. *)
LEMMA RowsRolledBack ==
  ASSUME RowsInv, RollBackAll, wire' = wire,
         \A x \in Reqs : Holding(x) => Holding(x)',
         \A x \in Reqs : Active(x)' => Active(x)
  PROVE  RowsInv'
<1> USE DEF RowsInv, RollBackAll
<1>1. VaultOK'
  BY DEF VaultOK, KeyOf
<1>2. AloneOK'
  BY DEF AloneOK, KeyOf
<1>3. \A x \in Reqs : RowOK(x)'
  BY DEF RowOK, KeyOf, Active
<1> QED
  BY <1>1, <1>2, <1>3

-----------------------------------------------------------------------------
(* The steps, one lemma for each action.                                   *)

LEMMA TickStep ==
  ASSUME GatesInv, Tick
  PROVE  GatesInv'
<1> USE StepFacts DEF Tick, requests, rows, cells
<1>1. GatesType'
  BY DEF GatesType
<1>2. \A r \in Reqs : RequestInv(r)'
  BY OtherRequest
<1>3. RowsInv'
  BY RowsKept DEF Holding, Active, PassedVault
<1> QED
  BY <1>1, <1>2, <1>3 DEF GatesInv

LEMMA SendStep ==
  ASSUME GatesInv, NEW r \in Reqs, Send(r)
  PROVE  GatesInv'
<1> USE StepFacts
<1>1. PICK k \in {"envelope", "manifest"} :
        \E q \in IF k = "envelope" THEN Envelopes ELSE Manifests :
          \E w \in {q} \cup (IF r \in Alterable THEN Alterations(q) ELSE {}) :
            /\ kind' = [kind EXCEPT ![r] = k]
            /\ signed' = [signed EXCEPT ![r] = q]
            /\ wire' = [wire EXCEPT ![r] = w]
  BY DEF Send
<1>2. PICK q \in IF k = "envelope" THEN Envelopes ELSE Manifests :
        \E w \in {q} \cup (IF r \in Alterable THEN Alterations(q) ELSE {}) :
          /\ kind' = [kind EXCEPT ![r] = k]
          /\ signed' = [signed EXCEPT ![r] = q]
          /\ wire' = [wire EXCEPT ![r] = w]
  BY <1>1
<1>3. PICK w \in {q} \cup Alterations(q) :
        /\ kind' = [kind EXCEPT ![r] = k]
        /\ signed' = [signed EXCEPT ![r] = q]
        /\ wire' = [wire EXCEPT ![r] = w]
  BY <1>2
<1>4. /\ pc[r] = "unsent" /\ pc' = [pc EXCEPT ![r] = "sent"]
      /\ UNCHANGED <<now, reply, checked, handoff, vault, open, undermined, expected, evidence>>
  BY DEF Send, rows, cells
<1>5. GatesType'
  BY <1>3, <1>4 DEF GatesType, States
<1>6. /\ kind[r] = "none" /\ reply[r] = "none" /\ handoff[r] = NoHandoff
      /\ kind'[r] = k /\ signed'[r] = q /\ wire'[r] = w /\ pc'[r] = "sent"
  BY <1>3, <1>4 DEF GatesType, RequestInv, PlaceOK
<1>7. RequestInv(r)'
  <2>1. PlaceOK(r)'
    BY <1>4, <1>6 DEF PlaceOK
  <2>2. q \in [DOMAIN q -> Values]
    BY EnvelopeFacts, ManifestFacts
  <2>3. w \in [DOMAIN w -> Values]
    BY <2>2, AlteredFacts
  <2>4. RequestOK(r)'
    BY <1>6, <2>3 DEF RequestOK
  <2>5. EnvelopeOK(r)' /\ CellOK(r)'
    BY <1>4, <1>6 DEF EnvelopeOK, CellOK
  <2> QED
    BY <2>1, <2>4, <2>5 DEF RequestInv
<1>8. ASSUME NEW x \in Reqs, x # r PROVE RequestInv(x)'
  BY <1>3, <1>4, <1>8, OtherRequest DEF GatesType
<1>9. RowsInv'
  <2>1. ASSUME NEW x \in Reqs, x # r
        PROVE  kind'[x] = kind[x] /\ pc'[x] = pc[x] /\ reply'[x] = reply[x] /\ wire'[x] = wire[x]
    BY <1>3, <1>4, <2>1 DEF GatesType
  <2>2. ~Holding(r) /\ ~Active(r)'
    BY <1>4, <1>6 DEF Holding, Active, PassedVault, Stored
  <2> QED
    BY <1>4, <2>1, <2>2, RowsKept DEF Holding, Active, PassedVault, rows
<1> QED
  BY <1>5, <1>7, <1>8, <1>9 DEF GatesInv

LEMMA RouteIngressStep ==
  ASSUME GatesInv, NEW r \in Reqs, RouteIngress(r)
  PROVE  GatesInv'
<1> USE StepFacts
<1> DEFINE verdict == GateVerdict(r, now)
<1>1. /\ pc[r] = "sent" /\ kind[r] = "envelope"
      /\ checked' = [checked EXCEPT ![r] = now]
      /\ UNCHANGED <<now, kind, signed, wire, handoff, vault, open, undermined, expected, evidence>>
      /\ \/ /\ verdict = "OK" /\ reply' = reply
            /\ pc' = [pc EXCEPT ![r] = "insert"]
         \/ /\ verdict # "OK" /\ reply' = [reply EXCEPT ![r] = verdict]
            /\ pc' = [pc EXCEPT ![r] = "answered"]
  BY DEF RouteIngress, Answer, requests, rows, cells
<1>2. verdict \in RequestReasons
  BY GateFacts
<1>3. verdict = GateVerdict(r, now)
  OBVIOUS
<1> HIDE DEF verdict
<1>4. verdict \in Reasons
  BY <1>2 DEF RequestReasons, SignatureReasons, Reasons
<1>5. verdict # "OK" =>
        verdict \notin Stored \cup {"BACKPRESSURE_REJECTION_QUEUE_FULL", "NONCE_REPLAY_DETECTED"}
  BY <1>2 DEF RequestReasons, SignatureReasons, Stored
<1>6. GatesType'
  BY <1>1, <1>4 DEF GatesType, States
<1>7. /\ reply[r] = "none" /\ checked'[r] = now
      /\ \/ verdict = "OK" /\ reply'[r] = "none" /\ pc'[r] = "insert"
         \/ verdict # "OK" /\ reply'[r] = verdict /\ pc'[r] = "answered"
  BY <1>1 DEF GatesType, RequestInv, PlaceOK
<1>8. RequestInv(r)'
  <2>1. PlaceOK(r)'
    BY <1>1, <1>7 DEF PlaceOK, RequestInv
  <2>2. RequestOK(r)'
    BY <1>1 DEF RequestOK, RequestInv
  <2>3. EngineFound(r)' = verdict
    BY <1>1, <1>5, <1>7 DEF EngineFound, PassedChecks, Stored
  <2>4. GateVerdict(r, now)' = verdict
    BY <1>1, <1>3, VerdictsKept
  <2>5. EnvelopeOK(r)'
    BY <1>1, <1>7, <2>3, <2>4, VerdictsKept DEF EnvelopeOK, RequestInv
  <2>6. CellOK(r)'
    BY <1>1 DEF CellOK
  <2> QED
    BY <2>1, <2>2, <2>5, <2>6 DEF RequestInv
<1>9. ASSUME NEW x \in Reqs, x # r PROVE RequestInv(x)'
  BY <1>1, <1>9, OtherRequest DEF GatesType
<1>10. RowsInv'
  <2>1. ASSUME NEW x \in Reqs, x # r
        PROVE  pc'[x] = pc[x] /\ reply'[x] = reply[x]
    BY <1>1, <2>1 DEF GatesType
  <2>2. ~Holding(r) /\ ~Active(r)'
    BY <1>1, <1>5, <1>7 DEF Holding, Active, PassedVault, Stored
  <2> QED
    BY <1>1, <2>1, <2>2, RowsKept DEF Holding, Active, PassedVault, rows
<1> QED
  BY <1>6, <1>8, <1>9, <1>10 DEF GatesInv

(* What the vault's steps leave of the request they are about: it has      *)
(* passed the checks and goes on having passed them.                       *)
LEMMA VaultStepRequest ==
  ASSUME GatesInv, NEW r \in Reqs, NEW reason \in Reasons,
         pc[r] \in {"insert", "commit"},
         \/ reply'[r] = "none" /\ pc'[r] \in {"insert", "commit"}
         \/ reply'[r] = reason /\ pc'[r] = "answered",
         reason \in Stored \cup {"NONCE_REPLAY_DETECTED"},
         kind'[r] = kind[r], handoff'[r] = handoff[r], checked'[r] = checked[r],
         signed'[r] = signed[r], wire'[r] = wire[r]
  PROVE  RequestInv(r)'
<1> USE StepFacts
<1>1. kind[r] = "envelope" /\ reply[r] = "none"
  BY DEF RequestInv, PlaceOK, GatesType
<1>2. PlaceOK(r)' /\ RequestOK(r)' /\ CellOK(r)'
  BY <1>1 DEF PlaceOK, RequestOK, CellOK, RequestInv
<1>3. EngineFound(r) = "OK" /\ EngineFound(r)' = "OK"
  BY <1>1 DEF EngineFound, PassedChecks, Stored
<1>4. EnvelopeOK(r)'
  BY <1>1, <1>3, VerdictsKept DEF EnvelopeOK, RequestInv
<1> QED
  BY <1>2, <1>4 DEF RequestInv

(* A request in the vault's hands has its fields, signed and a number.     *)
LEMMA VaultStepFacts ==
  ASSUME GatesInv, NEW r \in Reqs, pc[r] \in {"insert", "commit"}
  PROVE  /\ kind[r] = "envelope" /\ reply[r] = "none"
         /\ KeyOf(wire[r]) \in Values \X Values
<1> USE StepFacts
<1>1. kind[r] = "envelope" /\ reply[r] = "none"
  BY DEF RequestInv, PlaceOK, GatesType
<1>2. EngineFound(r) = "OK" /\ EngineFound(r) = GateVerdict(r, checked[r])
  BY <1>1 DEF EngineFound, PassedChecks, RequestInv, EnvelopeOK
<1>3. EnvelopeFields \subseteq DOMAIN wire[r] /\ wire[r] \in [DOMAIN wire[r] -> Values]
  BY <1>2, GateFacts DEF RequestInv, RequestOK
<1>4. wire[r]["client_pubkey"] \in Values /\ wire[r]["nonce"] \in Values
  BY <1>3 DEF EnvelopeFields, BoundText
<1>5. KeyOf(wire[r]) \in Values \X Values
  BY <1>4, ValueFacts DEF KeyOf
<1> QED
  BY <1>1, <1>5

LEMMA InsertNonceStep ==
  ASSUME GatesInv, NEW r \in Reqs, InsertNonce(r)
  PROVE  GatesInv'
<1> USE StepFacts
<1>1. /\ pc[r] = "insert" /\ vault' = vault /\ undermined' = undermined
      /\ UNCHANGED <<now, kind, signed, wire, checked, handoff, expected, evidence>>
  BY DEF InsertNonce, requests, cells
<1>2. kind[r] = "envelope" /\ reply[r] = "none" /\ KeyOf(wire[r]) \in Values \X Values
  BY <1>1, VaultStepFacts
<1>3. CASE /\ open' = open /\ reply' = [reply EXCEPT ![r] = "NONCE_REPLAY_DETECTED"]
           /\ pc' = [pc EXCEPT ![r] = "answered"]
  <2>1. "NONCE_REPLAY_DETECTED" \in Reasons
    BY DEF Reasons
  <2>2. GatesType'
    BY <1>1, <1>3, <2>1 DEF GatesType, States
  <2>3. reply'[r] = "NONCE_REPLAY_DETECTED" /\ pc'[r] = "answered"
    BY <1>3 DEF GatesType
  <2>4. RequestInv(r)'
    BY <1>1, <2>1, <2>3, VaultStepRequest
  <2>5. ASSUME NEW x \in Reqs, x # r PROVE RequestInv(x)'
    BY <1>1, <1>3, <2>5, OtherRequest DEF GatesType
  <2>6. RowsInv'
    <3>1. ASSUME NEW x \in Reqs, x # r
          PROVE  pc'[x] = pc[x] /\ reply'[x] = reply[x]
      BY <1>3, <3>1 DEF GatesType
    <3>2. ~Holding(r) /\ ~Active(r)'
      BY <1>1, <1>2, <2>3 DEF Holding, Active, PassedVault, Stored
    <3> QED
      BY <1>1, <1>3, <3>1, <3>2, RowsKept DEF Holding, Active, PassedVault, rows
  <2> QED
    BY <2>2, <2>4, <2>5, <2>6 DEF GatesInv
<1>4. CASE /\ KeyOf(wire[r]) \notin vault \cup open /\ wire[r]["timestamp_sec"] # NaN
           /\ open' = open \cup {KeyOf(wire[r])} /\ reply' = reply
           /\ pc' = [pc EXCEPT ![r] = "commit"]
  <2>1. GatesType'
    BY <1>1, <1>2, <1>4 DEF GatesType, States
  <2>2. reply'[r] = "none" /\ pc'[r] = "commit"
    BY <1>2, <1>4 DEF GatesType
  <2>3. RequestInv(r)'
    <3>1. "OK" \in Reasons /\ "OK" \in Stored
      BY DEF Reasons, Stored
    <3> QED
      BY <1>1, <2>2, <3>1, VaultStepRequest
  <2>4. ASSUME NEW x \in Reqs, x # r PROVE RequestInv(x)'
    BY <1>1, <1>4, <2>4, OtherRequest DEF GatesType
  <2>5. ASSUME NEW x \in Reqs, x # r
        PROVE  /\ Holding(x)' = Holding(x) /\ Active(x)' = Active(x)
               /\ PassedVault(x)' = PassedVault(x)
    <3>1. pc'[x] = pc[x] /\ reply'[x] = reply[x]
      BY <1>4, <2>5 DEF GatesType
    <3> QED
      BY <1>1, <3>1 DEF Holding, Active, PassedVault
  <2>6. Holding(r)' /\ ~PassedVault(r)'
    BY <1>1, <1>2, <2>2 DEF Holding, PassedVault
  <2>7. VaultOK'
    <3>1. \A x \in Reqs : Holding(x) => Holding(x)'
      BY <2>5, <2>6
    <3> QED
      BY <1>1, <1>4, <2>6, <3>1 DEF VaultOK, RowsInv, KeyOf
  <2>8. \A x \in Reqs : RowOK(x)'
    <3>1. RowOK(r)'
      BY <1>1, <1>4, <2>6 DEF RowOK, KeyOf
    <3>2. ASSUME NEW x \in Reqs, x # r PROVE RowOK(x)'
      BY <1>1, <1>4, <2>5, <3>2 DEF RowOK, RowsInv, KeyOf
    <3> QED
      BY <3>1, <3>2
  <2>9. AloneOK'
    <3>1. ASSUME NEW x \in Reqs, x # r, Active(x), KeyOf(wire[x]) = KeyOf(wire[r])
          PROVE  x \in undermined
      BY <1>4, <3>1 DEF RowsInv, RowOK
    <3> QED
      BY <1>1, <2>5, <3>1 DEF AloneOK, RowsInv, KeyOf
  <2> QED
    BY <2>1, <2>3, <2>4, <2>7, <2>8, <2>9 DEF GatesInv, RowsInv
<1> QED
  BY <1>3, <1>4 DEF InsertNonce, Answer

(* The commit, and the failures before or of it. *)
LEMMA CommitNonceStep ==
  ASSUME GatesInv, NEW r \in Reqs, CommitNonce(r)
  PROVE  GatesInv'
<1> USE StepFacts
<1>1. /\ pc[r] = "commit" /\ pc' = [pc EXCEPT ![r] = "answered"] /\ CommitAll
      /\ UNCHANGED <<now, kind, signed, wire, checked, handoff, expected, evidence>>
  BY DEF CommitNonce, Answer, requests, cells
<1>2. PICK reason \in {"OK", "BACKPRESSURE_REJECTION_QUEUE_FULL"} :
        reply' = [reply EXCEPT ![r] = reason]
  BY DEF CommitNonce, Answer
<1>3. kind[r] = "envelope" /\ reason \in Reasons /\ reason \in Stored
  BY <1>1, VaultStepFacts DEF Reasons, Stored
<1>4. GatesType'
  BY <1>1, <1>2, <1>3 DEF GatesType, States, CommitAll
<1>5. reply'[r] = reason /\ pc'[r] = "answered"
  BY <1>1, <1>2 DEF GatesType
<1>6. RequestInv(r)'
  BY <1>1, <1>3, <1>5, VaultStepRequest
<1>7. ASSUME NEW x \in Reqs, x # r
      PROVE  pc'[x] = pc[x] /\ reply'[x] = reply[x] /\ RequestInv(x)'
  BY <1>1, <1>2, <1>7, OtherRequest DEF GatesType
<1>8. RowsInv'
  <2>1. Holding(r)' /\ Active(r)
    BY <1>1, <1>3, <1>5 DEF Holding, Active
  <2>2. ASSUME NEW x \in Reqs, x # r
        PROVE  Holding(x)' = Holding(x) /\ Active(x)' = Active(x)
    BY <1>1, <1>7, <2>2 DEF Holding, Active, PassedVault
  <2> QED
    BY <1>1, <2>1, <2>2, RowsCommitted
<1> QED
  BY <1>4, <1>6, <1>7, <1>8 DEF GatesInv

LEMMA NonceFaultStep ==
  ASSUME GatesInv, NEW r \in Reqs, NonceFault(r)
  PROVE  GatesInv'
<1> USE StepFacts
<1> DEFINE reason == "INTERNAL_DATABASE_FAULT"
<1>1. /\ pc[r] \in {"insert", "commit"} /\ pc' = [pc EXCEPT ![r] = "answered"]
      /\ reply' = [reply EXCEPT ![r] = reason]
      /\ UNCHANGED rows \/ RollBackAll
      /\ UNCHANGED <<now, kind, signed, wire, checked, handoff, expected, evidence>>
  BY DEF NonceFault, Answer, requests, cells
<1>2. kind[r] = "envelope" /\ reason \in Reasons /\ reason \in Stored
  BY <1>1, VaultStepFacts DEF Reasons, Stored
<1>3. GatesType'
  BY <1>1, <1>2 DEF GatesType, States, RollBackAll, rows
<1>4. reply'[r] = reason /\ pc'[r] = "answered"
  BY <1>1 DEF GatesType
<1>5. RequestInv(r)'
  BY <1>1, <1>2, <1>4, VaultStepRequest
<1>6. ASSUME NEW x \in Reqs, x # r
      PROVE  pc'[x] = pc[x] /\ reply'[x] = reply[x] /\ RequestInv(x)'
  BY <1>1, <1>6, OtherRequest DEF GatesType
<1>7. RowsInv'
  <2>1. Holding(r)' /\ ~Active(r)'
    BY <1>1, <1>2, <1>4 DEF Holding, Active, PassedVault
  <2>2. ASSUME NEW x \in Reqs, x # r
        PROVE  /\ Holding(x)' = Holding(x) /\ Active(x)' = Active(x)
               /\ PassedVault(x)' = PassedVault(x)
    BY <1>1, <1>6, <2>2 DEF Holding, Active, PassedVault
  <2>3. CASE UNCHANGED rows
    BY <1>1, <2>1, <2>2, <2>3, RowsKept
  <2>4. CASE RollBackAll
    BY <1>1, <2>1, <2>2, <2>4, RowsRolledBack
  <2> QED
    BY <1>1, <2>3, <2>4
<1> QED
  BY <1>3, <1>5, <1>6, <1>7 DEF GatesInv

LEMMA FlushBatchStep ==
  ASSUME GatesInv, FlushBatch
  PROVE  GatesInv'
<1> USE StepFacts
<1>1. /\ CommitAll \/ RollBackAll
      /\ UNCHANGED <<now, kind, signed, wire, pc, reply, checked, handoff, expected, evidence>>
  BY DEF FlushBatch, requests, cells
<1>2. GatesType'
  BY <1>1 DEF GatesType, CommitAll, RollBackAll
<1>3. \A x \in Reqs : RequestInv(x)'
  BY <1>1, OtherRequest
<1>4. \A x \in Reqs : Holding(x)' = Holding(x) /\ Active(x)' = Active(x)
  BY <1>1 DEF Holding, Active, PassedVault
<1>5. RowsInv'
  BY <1>1, <1>4, RowsCommitted, RowsRolledBack
<1> QED
  BY <1>2, <1>3, <1>5 DEF GatesInv

LEMMA HandoffStep ==
  ASSUME GatesInv, NEW r \in Reqs, Handoff(r)
  PROVE  GatesInv'
<1> USE StepFacts
<1>1. /\ kind[r] = "envelope"
      /\ UNCHANGED <<now, kind, signed, wire, pc, reply, checked, expected, evidence>>
      /\ UNCHANGED rows
  BY DEF Handoff, requests, cells
<1>2. PICK payload \in {Text(1), Text(2)} :
        handoff' = [handoff EXCEPT ![r] =
                      [verdict |-> RemoteVerdict(r, wire[r], payload, now),
                       payload |-> payload, at |-> now]]
  BY DEF Handoff
<1> DEFINE h == [verdict |-> RemoteVerdict(r, wire[r], payload, now),
                 payload |-> payload, at |-> now]
<1>3. h \in Handoffs
  <2>1. RemoteVerdict(r, wire[r], payload, now) \in Reasons
    BY RemoteFacts DEF RequestReasons, SignatureReasons, Reasons
  <2> QED
    BY <2>1, ValueFacts DEF Handoffs, GatesType
<1>4. h.verdict = RemoteVerdict(r, wire[r], h.payload, h.at)
  OBVIOUS
<1> HIDE DEF h
<1>5. GatesType' /\ handoff'[r] = h
  BY <1>1, <1>2, <1>3 DEF GatesType, rows, h
<1>6. RequestInv(r)'
  <2>1. PlaceOK(r)' /\ RequestOK(r)' /\ CellOK(r)'
    BY <1>1 DEF PlaceOK, RequestOK, CellOK, RequestInv
  <2>2. EngineFound(r)' = EngineFound(r)
    BY <1>1 DEF EngineFound, PassedChecks
  <2>3. EnvelopeOK(r)'
    BY <1>1, <1>4, <1>5, <2>2, VerdictsKept DEF EnvelopeOK, RequestInv
  <2> QED
    BY <2>1, <2>3 DEF RequestInv
<1>7. ASSUME NEW x \in Reqs, x # r PROVE RequestInv(x)'
  BY <1>1, <1>2, <1>7, OtherRequest DEF GatesType
<1>8. RowsInv'
  BY <1>1, RowsKept DEF Holding, Active, PassedVault
<1> QED
  BY <1>5, <1>6, <1>7, <1>8 DEF GatesInv

(* The rows know nothing of cells. *)
LEMMA CellStepRows ==
  ASSUME GatesInv, NEW r \in Reqs, kind[r] = "manifest", UNCHANGED <<kind, rows>>,
         \A x \in Reqs : x # r => /\ pc'[x] = pc[x] /\ reply'[x] = reply[x]
                                 /\ wire'[x] = wire[x]
  PROVE  RowsInv'
<1>1. ~Holding(r) /\ ~Active(r)'
  BY DEF Holding, Active, PassedVault
<1> QED
  BY <1>1, StepFacts, RowsKept DEF Holding, Active, PassedVault

LEMMA StartCellStep ==
  ASSUME GatesInv, NEW r \in Reqs, StartCell(r)
  PROVE  GatesInv'
<1> USE StepFacts
<1> DEFINE verdict == ManifestVerdict(r, wire[r])
<1>1. /\ pc[r] = "sent" /\ kind[r] = "manifest"
      /\ UNCHANGED <<now, kind, signed, wire, checked, handoff, vault, open, undermined, evidence>>
      /\ \/ /\ verdict = "OK" /\ reply' = reply
            /\ pc' = [pc EXCEPT ![r] = "running"]
            /\ expected' = [expected EXCEPT ![r] = wire[r]["expected_evidence_hash"]]
         \/ /\ verdict # "OK" /\ expected' = expected
            /\ reply' = [reply EXCEPT ![r] = verdict]
            /\ pc' = [pc EXCEPT ![r] = "answered"]
  BY DEF StartCell, Answer, requests, rows
<1>2. verdict \in Reasons
  BY ManifestVerdictFacts DEF RequestReasons, SignatureReasons, Reasons
<1>3. verdict = "OK" => /\ ManifestFields \subseteq DOMAIN wire[r]
                        /\ CanonicalManifest(wire[r]) = CanonicalManifest(signed[r])
  BY ManifestVerdictFacts
<1> HIDE DEF verdict
<1>4. /\ reply[r] = "none" /\ wire[r] \in [DOMAIN wire[r] -> Values]
      /\ handoff[r] = NoHandoff
  BY <1>1 DEF RequestInv, PlaceOK, RequestOK
<1>5. verdict = "OK" => wire[r]["expected_evidence_hash"] \in Values
  BY <1>3, <1>4 DEF ManifestFields, ManifestBound
<1>6. verdict = "OK" =>
        Str(wire[r]["expected_evidence_hash"]) = Str(signed[r]["expected_evidence_hash"])
  <2> SUFFICES ASSUME verdict = "OK"
               PROVE  Str(wire[r]["expected_evidence_hash"])
                        = Str(signed[r]["expected_evidence_hash"])
    OBVIOUS
  <2>1. CanonicalManifest(wire[r])["expected_evidence_hash"]
          = CanonicalManifest(signed[r])["expected_evidence_hash"]
    BY <1>3
  <2> QED
    BY <2>1 DEF CanonicalManifest, ManifestBound
<1>7. GatesType'
  BY <1>1, <1>2, <1>5 DEF GatesType, States
<1>8. \/ /\ verdict = "OK" /\ reply'[r] = "none" /\ pc'[r] = "running"
         /\ expected'[r] = wire[r]["expected_evidence_hash"]
      \/ verdict # "OK" /\ reply'[r] = verdict /\ pc'[r] = "answered"
  BY <1>1, <1>4 DEF GatesType
<1>9. RequestInv(r)'
  <2>1. PlaceOK(r)'
    BY <1>1, <1>4, <1>8 DEF PlaceOK
  <2>2. RequestOK(r)'
    BY <1>1 DEF RequestOK, RequestInv
  <2>3. EnvelopeOK(r)'
    BY <1>1 DEF EnvelopeOK
  <2>4. CellOK(r)'
    BY <1>1, <1>3, <1>6, <1>8 DEF CellOK
  <2> QED
    BY <2>1, <2>2, <2>3, <2>4 DEF RequestInv
<1>10. ASSUME NEW x \in Reqs, x # r
       PROVE  pc'[x] = pc[x] /\ reply'[x] = reply[x] /\ RequestInv(x)'
  BY <1>1, <1>10, OtherRequest DEF GatesType
<1>11. RowsInv'
  BY <1>1, <1>10, CellStepRows DEF rows
<1> QED
  BY <1>7, <1>9, <1>10, <1>11 DEF GatesInv

LEMMA ChangeManifestStep ==
  ASSUME GatesInv, NEW r \in Reqs, ChangeManifest(r)
  PROVE  GatesInv'
<1> USE StepFacts
<1>1. /\ pc[r] = "running" /\ UNCHANGED rows
      /\ UNCHANGED <<now, kind, signed, pc, reply, checked, handoff, expected, evidence>>
  BY DEF ChangeManifest, cells
<1>2. PICK f \in {"cell_id", "expected_evidence_hash"} :
        wire' = [wire EXCEPT ![r] = [wire[r] EXCEPT ![f] = Text(2)]]
  BY DEF ChangeManifest
<1>3. /\ kind[r] = "manifest" /\ wire[r] \in [DOMAIN wire[r] -> Values]
      /\ reply[r] = "none"
  BY <1>1 DEF RequestInv, PlaceOK, RequestOK, GatesType
<1>4. /\ DOMAIN wire'[r] = DOMAIN wire[r]
      /\ wire'[r] \in [DOMAIN wire[r] -> Values]
  BY <1>2, <1>3, ValueFacts DEF GatesType
<1>5. GatesType'
  BY <1>1, <1>2 DEF GatesType, rows
<1>6. RequestInv(r)'
  <2>1. PlaceOK(r)' /\ EnvelopeOK(r)'
    BY <1>1, <1>3 DEF PlaceOK, EnvelopeOK, RequestInv
  <2>2. RequestOK(r)'
    BY <1>1, <1>4 DEF RequestOK, RequestInv
  <2>3. CellOK(r)'
    BY <1>1, <1>3, <1>4 DEF CellOK, RequestInv
  <2> QED
    BY <2>1, <2>2, <2>3 DEF RequestInv
<1>7. ASSUME NEW x \in Reqs, x # r
      PROVE  wire'[x] = wire[x] /\ RequestInv(x)'
  BY <1>1, <1>2, <1>7, OtherRequest DEF GatesType
<1>8. RowsInv'
  BY <1>1, <1>3, <1>7, CellStepRows
<1> QED
  BY <1>5, <1>6, <1>7, <1>8 DEF GatesInv

LEMMA EvidenceFacts ==
  ASSUME NEW cell, NEW hash
  PROVE  /\ EvidenceVerdict(cell, hash) \in Reasons
         /\ EvidenceVerdict(cell, hash) = "OK" => EvidenceHash(cell) = hash /\ Str(hash) = hash
BY DEF EvidenceVerdict, Reasons, Str

LEMMA EndCellStep ==
  ASSUME GatesInv, NEW r \in Reqs, FinishCell(r) \/ TimeOutCell(r)
  PROVE  GatesInv'
<1> USE StepFacts
<1>1. PICK reason \in Reasons, e \in {evidence[r], wire[r]["cell_id"]} :
        /\ pc[r] = "running" /\ pc' = [pc EXCEPT ![r] = "answered"]
        /\ reply' = [reply EXCEPT ![r] = reason]
        /\ evidence' = [evidence EXCEPT ![r] = e]
        /\ reason = "OK" => EvidenceHash(e) = Str(expected[r])
        /\ UNCHANGED <<now, kind, signed, wire, checked, handoff, expected>>
        /\ UNCHANGED rows
  <2>1. CASE FinishCell(r)
    <3>1. EvidenceVerdict(wire[r]["cell_id"], expected[r]) \in Reasons
      BY EvidenceFacts
    <3> QED
      BY <2>1, <3>1, EvidenceFacts DEF FinishCell, Answer, requests
  <2>2. CASE TimeOutCell(r)
    <3>1. "CELL_EXECUTION_TIMEOUT" \in Reasons /\ "CELL_EXECUTION_TIMEOUT" # "OK"
      BY DEF Reasons
    <3>2. evidence' = [evidence EXCEPT ![r] = evidence[r]]
      BY <2>2 DEF TimeOutCell, GatesType, cells
    <3> QED
      BY <2>2, <3>1, <3>2 DEF TimeOutCell, Answer, requests, cells
  <2> QED
    BY <2>1, <2>2
<1>2. /\ kind[r] = "manifest" /\ wire[r] \in [DOMAIN wire[r] -> Values]
      /\ ManifestFields \subseteq DOMAIN wire[r] /\ handoff[r] = NoHandoff
      /\ Str(expected[r]) = Str(signed[r]["expected_evidence_hash"])
  BY <1>1 DEF RequestInv, PlaceOK, RequestOK, CellOK, GatesType
<1>3. e \in Values
  BY <1>1, <1>2 DEF ManifestFields, ManifestBound, GatesType
<1>4. GatesType'
  BY <1>1, <1>3 DEF GatesType, States, rows
<1>5. reply'[r] = reason /\ pc'[r] = "answered" /\ evidence'[r] = e
  BY <1>1 DEF GatesType
<1>6. RequestInv(r)'
  <2>1. PlaceOK(r)'
    BY <1>1, <1>2, <1>5 DEF PlaceOK
  <2>2. RequestOK(r)'
    BY <1>1 DEF RequestOK, RequestInv
  <2>3. EnvelopeOK(r)' /\ CellOK(r)'
    BY <1>1, <1>2, <1>5 DEF EnvelopeOK, CellOK
  <2> QED
    BY <2>1, <2>2, <2>3 DEF RequestInv
<1>7. ASSUME NEW x \in Reqs, x # r
      PROVE  pc'[x] = pc[x] /\ reply'[x] = reply[x] /\ RequestInv(x)'
  BY <1>1, <1>7, OtherRequest DEF GatesType
<1>8. RowsInv'
  BY <1>1, <1>2, <1>7, CellStepRows
<1> QED
  BY <1>4, <1>6, <1>7, <1>8 DEF GatesInv

LEMMA StepInv == GatesInv /\ [Next]_vars => GatesInv'
<1> SUFFICES ASSUME GatesInv, [Next]_vars PROVE GatesInv'
  OBVIOUS
<1>1. CASE UNCHANGED vars
  <2> USE <1>1, StepFacts DEF vars, requests, rows, cells
  <2>1. GatesType'
    BY DEF GatesType
  <2>2. \A r \in Reqs : RequestInv(r)'
    BY OtherRequest
  <2>3. RowsInv'
    BY RowsKept DEF Holding, Active, PassedVault
  <2> QED
    BY <2>1, <2>2, <2>3 DEF GatesInv
<1>2. CASE Next
  BY <1>2, TickStep, FlushBatchStep, SendStep, RouteIngressStep, InsertNonceStep,
     CommitNonceStep, NonceFaultStep, HandoffStep, StartCellStep, ChangeManifestStep,
     EndCellStep DEF Next
<1> QED
  BY <1>1, <1>2

LEMMA GatesInvariant == Spec => []GatesInv
<1> QED
  BY InitInv, StepInv, PTL DEF Spec

-----------------------------------------------------------------------------
(* The theorems. *)

(* Every answer of a gate is one of its reasons, and every field that the  *)
(* gates keep a value, whatever was changed on the way.                    *)
THEOREM GatesTypeCorrect == Spec => []TypeOK
<1>1. GatesInv => TypeOK
  <2> SUFFICES ASSUME GatesInv PROVE TypeOK
    OBVIOUS
  <2> USE StepFacts
  <2>1. ASSUME NEW r \in Reqs
        PROVE  /\ kind[r] \in {"none", "envelope", "manifest"}
               /\ pc[r] \in {"unsent", "sent", "insert", "commit", "running", "answered"}
               /\ reply[r] \in Reasons
               /\ handoff[r] \in [verdict : Reasons, payload : Values, at : 0..MaxNow]
               /\ \A f \in DOMAIN wire[r] : wire[r][f] \in Values
               /\ checked[r] \in 0..MaxNow /\ expected[r] \in Values /\ evidence[r] \in Values
    BY DEF GatesType, States, Handoffs, RequestInv, RequestOK
  <2> QED
    BY <2>1 DEF TypeOK, GatesType
<1> QED
  BY <1>1, GatesInvariant, PTL

(* A row of the vault, committed or in the open transaction, is there for  *)
(* an envelope that was signed with this nonce and fresh when the engine   *)
(* checked it, in whatever order threads insert, fail, roll back and       *)
(* commit; its sender may have been answered with a database fault.        *)
THEOREM NonceRowsEarned == Spec => []NonceRowsAreEarned
<1>1. GatesInv => NonceRowsAreEarned
  <2> SUFFICES ASSUME GatesInv, NEW k \in vault \cup open
               PROVE  \E r \in Reqs :
                        /\ PassedChecks(r) /\ pc[r] # "insert" /\ reply[r] # "NONCE_REPLAY_DETECTED"
                        /\ k = KeyOf(wire[r])
                        /\ HeaderAsSigned(r) /\ PayloadOf(wire[r]) = signed[r]["payload_hex"]
                        /\ signed[r]["timestamp_sec"].is = "number"
                        /\ Fresh(signed[r]["timestamp_sec"], checked[r])
    BY DEF NonceRowsAreEarned
  <2>1. PICK r \in Reqs :
          Holding(r) /\ k = KeyOf(wire[r]) /\ wire[r]["timestamp_sec"] # NaN
    BY StepFacts DEF RowsInv, VaultOK
  <2>2. RequestInv(r) /\ GatesType
    BY StepFacts
  <2>3. PassedChecks(r) /\ pc[r] # "insert" /\ reply[r] # "NONCE_REPLAY_DETECTED"
    BY <2>1, <2>2 DEF Holding, PassedChecks, Stored, RequestInv, PlaceOK
  <2>4. GateVerdict(r, checked[r]) = "OK" /\ signed[r] \in Envelopes
    BY <2>1, <2>2, <2>3 DEF EngineFound, Holding, Stored, RequestInv, PlaceOK, EnvelopeOK, RequestOK
  <2>5. /\ HeaderAsSigned(r) /\ PayloadOf(wire[r]) = signed[r]["payload_hex"]
        /\ Fresh(signed[r]["timestamp_sec"], checked[r])
    BY <2>4, GateFacts
  <2>6. signed[r]["timestamp_sec"].is = "number"
    <3>1. signed[r]["timestamp_sec"] \in Stamps
      BY <2>4, EnvelopeFacts
    <3>2. signed[r]["timestamp_sec"] # NaN
      BY <2>1, <2>5 DEF HeaderAsSigned, Float, NaN, Number, Value
    <3> QED
      BY <3>1, <3>2, StampFacts
  <2> QED
    BY <2>1, <2>3, <2>5, <2>6
<1> QED
  BY <1>1, GatesInvariant, PTL

(* What gets past the vault has its row there for good and shares its key  *)
(* with nothing else that gets past it, unless a statement of another      *)
(* thread that failed has rolled one of their rows back.                   *)
THEOREM NonceSpentOnce == Spec => []SpendsItsNonce
<1>1. GatesInv => SpendsItsNonce
  <2> SUFFICES ASSUME GatesInv, NEW r \in Reqs, PassedVault(r), r \notin undermined
               PROVE  /\ KeyOf(wire[r]) \in vault
                      /\ \A s \in Reqs \ ({r} \cup undermined) :
                           PassedVault(s) => KeyOf(wire[s]) # KeyOf(wire[r])
    BY DEF SpendsItsNonce
  <2>1. KeyOf(wire[r]) \in vault
    BY StepFacts DEF RowsInv, RowOK, Active
  <2>2. ASSUME NEW s \in Reqs \ ({r} \cup undermined), PassedVault(s)
        PROVE  KeyOf(wire[s]) # KeyOf(wire[r])
    BY <2>2, StepFacts DEF RowsInv, AloneOK, Active
  <2> QED
    BY <2>1, <2>2
<1> QED
  BY <1>1, GatesInvariant, PTL

(* Another node gives an envelope the verdict the engine gave it or the    *)
(* clock makes the difference, though it was asked at any time before or   *)
(* after; and it passes only header and payload as they were signed.       *)
THEOREM HandoffVerdictKept == Spec => []HandoffKeepsVerdict
<1>1. GatesInv => HandoffKeepsVerdict
  <2> SUFFICES ASSUME GatesInv, NEW r \in Reqs, kind[r] = "envelope", handoff[r] # NoHandoff
               PROVE  /\ pc[r] # "sent" /\ RouterVerdict(wire[r]) = "OK"
                           /\ handoff[r].payload = PayloadOf(wire[r]) =>
                             \/ handoff[r].verdict = EngineFound(r)
                             \/ /\ handoff[r].at # checked[r]
                                /\ "TIMESTAMP_STALE" \in {handoff[r].verdict, EngineFound(r)}
                      /\ handoff[r].verdict = "OK" =>
                           HeaderAsSigned(r) /\ handoff[r].payload = signed[r]["payload_hex"]
    BY DEF HandoffKeepsVerdict
  <2> DEFINE payload == handoff[r].payload
             at == handoff[r].at
  <2>1. /\ signed[r] \in Envelopes
        /\ handoff[r].verdict = RemoteVerdict(r, wire[r], payload, at)
        /\ pc[r] # "sent" => EngineFound(r) = GateVerdict(r, checked[r])
    BY StepFacts DEF RequestInv, RequestOK, EnvelopeOK
  <2> HIDE DEF payload, at
  <2>2. ASSUME pc[r] # "sent", RouterVerdict(wire[r]) = "OK", payload = PayloadOf(wire[r])
        PROVE  \/ handoff[r].verdict = EngineFound(r)
               \/ at # checked[r] /\ "TIMESTAMP_STALE" \in {handoff[r].verdict, EngineFound(r)}
    BY <2>1, <2>2, SameVerdict
  <2>3. ASSUME handoff[r].verdict = "OK"
        PROVE  HeaderAsSigned(r) /\ payload = signed[r]["payload_hex"]
    <3> DEFINE args == RemoteArgs(wire[r])
    <3>1. BuildCanonical(args, payload) = SignedBytes(r)
      BY <2>1, <2>3, RemoteFacts
    <3>2. args["timestamp_sec"] = Float(wire[r]["timestamp_sec"])
      BY DEF RemoteArgs, HeaderFields
    <3>3. \A f \in BoundText : args[f] = Str(wire[r][f])
      BY DEF RemoteArgs, HeaderFields, BoundText
    <3> HIDE DEF args
    <3>4. /\ args["timestamp_sec"] = signed[r]["timestamp_sec"]
          /\ payload = signed[r]["payload_hex"]
          /\ \A f \in BoundText : Strip(Str(args[f])) = signed[r][f]
      BY <2>1, <3>1, FittingFields
    <3> QED
      BY <3>2, <3>3, <3>4, StrTwice DEF HeaderAsSigned
  <2> QED
    BY <2>2, <2>3 DEF payload, at
<1> QED
  BY <1>1, GatesInvariant, PTL

(* A cell that answers OK has the evidence its client signed for, whatever *)
(* its caller did to the manifest meanwhile.                               *)
THEOREM EvidenceIsCommitted == Spec => []CellOkIsCommitted
<1>1. GatesInv => CellOkIsCommitted
  BY StepFacts DEF CellOkIsCommitted, RequestInv, CellOK
<1> QED
  BY <1>1, GatesInvariant, PTL
=============================================================================
