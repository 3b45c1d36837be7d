--------------------------- MODULE ReleaseGatesProofs ---------------------------
(***************************************************************************)
(* Theorems about ReleaseGates, for any number of scripts, kills and       *)
(* tidyings: what the scripts write about a run, a bundle, a branch or an  *)
(* export is true of it.                                                   *)
(*                                                                         *)
(* The argument: where a script is says what it has already done.  The     *)
(* scripts that write a packet before they package never get further: the  *)
(* packet names HEAD, no committed packet does, so the checkout is dirty   *)
(* and the package step ends the script.  That is all that keeps           *)
(* apply_fixes from writing COMPLETE without a run.                        *)
(***************************************************************************)
EXTENDS ReleaseGates, SequenceTheorems, TLAPS

-----------------------------------------------------------------------------
(* The steps of the scripts. *)

CellOps == {"clone", "fetch", "artifact", "discard"}
PlainSteps ==
  {<<"runner", {"runner"}>>, <<"ignore", {"gitignore"}>>, <<"manifest", {"manifest"}>>,
   <<"bundle", {"bundle"}>>, <<"evidence", {"evidence"}>>, <<"plan", Plan>>}
  \cup ({"soil", "dirty"} \X {{"sentinel"}, {"test_sentinel"}})
  \cup ({"packet"} \X {{"packet"}, {"packet_a"}, {"packet_b"}})
  \cup ({"check_p12", "run", "clean", "secret", "add", "commit", "try_commit"} \X SUBSET Paths)
Steps ==
  PlainSteps \cup (CellOps \X {{c} : c \in Cells})
    \cup {<<"export", {"bundle"}>>, <<"seal", {"manifest"}>>, <<"resurrect", {}>>}

(* The k-th step of the cell c in the gates of P12 and P13. *)
InCell(c, k) ==
  \/ script = "p12_gate" /\ c = "alpha" /\ step = k
  \/ script = "p12_gate" /\ c = "beta" /\ step = k + 4
  \/ script = "p13_gate" /\ c = "p13" /\ step = k

(* The k-th step from the package step on, in the scripts that package     *)
(* before they write their packet.                                         *)
InPackage(k) ==
  \/ script = "run_all" /\ step = k + 4
  \/ script = "fix_and_package" /\ step = k + 2

-----------------------------------------------------------------------------
(* The invariant. *)

Images == {tree, index, committed}

(* Exports: what is sealed has been exported, what is restored was sealed. *)
ExportOK ==
  /\ script = "export_state" /\ step = 2 =>
       exports > 0 /\ tree["bundle"] = C("state", exports)
  /\ \A image \in Images :
       image["manifest"].text = "sealed" => image["manifest"].at \in sealed
  /\ RestoredWasSealed

(* Cells: artifacts are behind their branch, and branches behind HEAD. *)
CellsOK ==
  \A c \in Cells :
    /\ \A image \in Images : image[c].at <= branch[c]
    /\ branch[c] <= head
    /\ InCell(c, 2) => tree[Workspace[c]].at = head
    /\ InCell(c, 3) => branch[c] = head

(* Packets: none that names HEAD is committed, so the scripts that package *)
(* after they have written one end there.                                  *)
PacketOK ==
  /\ tree["packet"].at <= head /\ index["packet"].at <= head /\ committed["packet"].at < head
  /\ script \in {"fix_all_gates", "apply_fixes"} =>
       /\ step <= 4
       /\ step >= 3 => tree["packet"] = C("packet", head)

(* Packages: what evidence is written from. *)
PackageOK ==
  /\ InPackage(2) => tree["runner"] = committed["runner"]
  /\ \A k \in 2..5 : InPackage(k) => tree["manifest"] = C("packaged", head)
  /\ \A k \in 3..5 : InPackage(k) => tree["bundle"] = C("tools", head)
  /\ \A k \in 4..5 : InPackage(k) => source = head

RanOK == exits["run"] = "zero" => executed > 0

ReleaseInv == TypeOK /\ ExportOK /\ CellsOK /\ PacketOK /\ PackageOK /\ RanOK

-----------------------------------------------------------------------------
(* What the scripts are made of. *)

(* The steps that write no evidence. *)
OtherSteps == {st \in PlainSteps : st[1] # "evidence"}

LEMMA Concat ==
  ASSUME NEW S, NEW s \in Seq(S), NEW u \in Seq(S)
  PROVE  /\ s \o u \in Seq(S)
         /\ Len(s \o u) = Len(s) + Len(u)
         /\ \A i \in 1 .. Len(s) : (s \o u)[i] = s[i]
         /\ \A i \in 1 .. Len(s) + Len(u) : i > Len(s) => (s \o u)[i] \in S
<1>1. Len(s) \in Nat /\ Len(u) \in Nat
  OBVIOUS
<1>2. ASSUME NEW i \in 1 .. Len(s) + Len(u), i > Len(s)
      PROVE  (s \o u)[i] \in S
  <2>1. i \in 1 .. Len(s \o u) /\ s \o u \in Seq(S)
    BY ConcatProperties
  <2> QED
    BY ONLY <2>1, ElementOfSeq
<1>3. \A i \in 1 .. Len(s) : (s \o u)[i] = s[i]
  BY <1>1, ConcatProperties
<1> QED
  BY <1>2, <1>3, ConcatProperties

(* Two more steps: w is s, of k elements, and the two of u. *)
IsPairMore(w, s, k, u) ==
  /\ Len(w) = k + 2
  /\ \A i \in 1 .. k : w[i] = s[i]
  /\ w[k + 1] = u[1] /\ w[k + 2] = u[2]

LEMMA ConcatPair ==
  ASSUME NEW S, NEW k \in Nat, NEW s \in Seq(S), Len(s) = k, NEW u \in Seq(S), Len(u) = 2
  PROVE  s \o u \in Seq(S) /\ IsPairMore(s \o u, s, k, u)
<1>1. /\ s \o u \in Seq(S) /\ Len(s \o u) = Len(s) + Len(u)
      /\ \A i \in 1 .. Len(s) + Len(u) :
           (s \o u)[i] = IF i <= Len(s) THEN s[i] ELSE u[i - Len(s)]
  BY ONLY s \in Seq(S), u \in Seq(S), ConcatProperties
<1>2. /\ s \o u \in Seq(S) /\ Len(s \o u) = k + 2
      /\ \A i \in 1 .. k + 2 : (s \o u)[i] = IF i <= k THEN s[i] ELSE u[i - k]
  BY ONLY <1>1, Len(s) = k, Len(u) = 2
<1>a. /\ k + 1 \in 1 .. k + 2 /\ ~(k + 1 <= k)
      /\ k + 2 \in 1 .. k + 2 /\ ~(k + 2 <= k)
  BY ONLY k \in Nat
<1>3. (s \o u)[k + 1] = u[(k + 1) - k]
  BY ONLY <1>2, <1>a, Zenon
<1>4. (s \o u)[k + 2] = u[(k + 2) - k]
  BY ONLY <1>2, <1>a, Zenon
<1>5. (k + 1) - k = 1 /\ (k + 2) - k = 2
  BY ONLY k \in Nat
<1>6. \A i \in 1 .. k : (s \o u)[i] = s[i]
  BY ONLY <1>2, k \in Nat
<1> QED
  BY ONLY <1>2, <1>3, <1>4, <1>5, <1>6 DEF IsPairMore

(* What follows a sequence with its evidence at k has none. *)
LEMMA ConcatOther ==
  ASSUME NEW k \in Nat, NEW s \in Seq(PlainSteps), NEW u \in Seq(OtherSteps),
         \A i \in 1 .. Len(s) : s[i][1] = "evidence" => i = k
  PROVE  /\ s \o u \in Seq(PlainSteps)
         /\ Len(s \o u) = Len(s) + Len(u)
         /\ \A i \in 1 .. Len(s) : (s \o u)[i] = s[i]
         /\ \A i \in 1 .. Len(s) + Len(u) : (s \o u)[i][1] = "evidence" => i = k
<1>1. Len(s) \in Nat /\ Len(u) \in Nat
  OBVIOUS
<1>2. u \in Seq(PlainSteps)
  BY SeqMonotonic DEF OtherSteps
<1>3. ASSUME NEW i \in 1 .. Len(s) + Len(u), (s \o u)[i][1] = "evidence"
      PROVE  i = k
  <2>1. (s \o u)[i] = IF i <= Len(s) THEN s[i] ELSE u[i - Len(s)]
    BY ONLY <1>2, ConcatProperties
  <2>2. CASE i <= Len(s)
    BY <1>1, <1>3, <2>1, <2>2
  <2>3. CASE i > Len(s)
    <3>1. i - Len(s) \in 1 .. Len(u)
      BY <1>1, <2>3
    <3>2. u[i - Len(s)] \in OtherSteps
      BY ONLY <3>1, ElementOfSeq
    <3>3. (s \o u)[i] = u[i - Len(s)]
      BY <1>1, <2>1, <2>3
    <3> QED
      BY <1>3, <3>2, <3>3 DEF OtherSteps
  <2> QED
    BY <1>1, <2>2, <2>3
<1> QED
  BY ONLY <1>2, <1>3, Concat

LEMMA Pieces ==
  /\ Package \in Seq(OtherSteps) /\ Len(Package) = 2
  /\ Package[1] = <<"manifest", {"manifest"}>> /\ Package[2] = <<"bundle", {"bundle"}>>
  /\ RealMutation \in Seq(OtherSteps) /\ Len(RealMutation) = 2
  /\ RealMutation[1] = <<"packet", {"packet"}>> /\ RealMutation[2] = <<"run", {}>>
  /\ \A x \in {"sentinel", "test_sentinel"} :
       GateChecks(x) \in Seq(OtherSteps) /\ Len(GateChecks(x)) = 4
<1>1. Package \in Seq(OtherSteps)
  <2>1. <<"manifest", {"manifest"}>> \in OtherSteps /\ <<"bundle", {"bundle"}>> \in OtherSteps
    BY DEF OtherSteps, PlainSteps
  <2> QED
    BY <2>1 DEF Package
<1>2. RealMutation \in Seq(OtherSteps)
  <2>1. <<"packet", {"packet"}>> \in OtherSteps /\ <<"run", {}>> \in OtherSteps
    BY DEF OtherSteps, PlainSteps
  <2> QED
    BY <2>1 DEF RealMutation
<1>3. ASSUME NEW x \in {"sentinel", "test_sentinel"}
      PROVE  GateChecks(x) \in Seq(OtherSteps) /\ Len(GateChecks(x)) = 4
  <2>1. /\ <<"clean", {}>> \in OtherSteps /\ <<"soil", {x}>> \in OtherSteps
        /\ <<"dirty", {x}>> \in OtherSteps /\ <<"secret", {}>> \in OtherSteps
    BY DEF OtherSteps, PlainSteps
  <2> QED
    BY <2>1 DEF GateChecks
<1> QED
  BY <1>1, <1>2, <1>3 DEF Package, RealMutation

(* The ends of the scripts. *)
LEMMA EndPieces ==
  ASSUME NEW A \in SUBSET Paths
  PROVE  /\ << <<"plan", Plan>>, <<"add", A>>, <<"commit", {}>> >> \in Seq(OtherSteps)
         /\ << <<"add", A>>, <<"commit", {}>> >> \in Seq(OtherSteps)
         /\ << <<"run", {}>>, <<"plan", Plan>>, <<"add", A>>, <<"commit", {}>> >>
              \in Seq(OtherSteps)
<1>1. /\ <<"plan", Plan>> \in OtherSteps /\ <<"add", A>> \in OtherSteps
      /\ <<"commit", {}>> \in OtherSteps /\ <<"run", {}>> \in OtherSteps
  BY DEF OtherSteps, PlainSteps
<1> QED
  BY <1>1

LEMMA AddFacts ==
  /\ Tools \cup Evidence \cup Experiments \cup Plan \in SUBSET Paths
  /\ Evidence \cup Experiments \cup Plan \in SUBSET Paths
  /\ Tools \cup Experiments \in SUBSET Paths
  /\ {"runner", "evidence", "packet"} \cup Plan \in SUBSET Paths
  /\ Evidence \cup Plan \in SUBSET Paths
  /\ Tools \cup Plan \in SUBSET Paths
BY DEF Paths, Tools, Evidence, Experiments

(* The scripts that write their packet before they package. *)
PacketFirst(s) ==
  /\ s \in Seq(PlainSteps) /\ Len(s) > 4
  /\ s[1] = <<"runner", {"runner"}>> /\ s[2] = <<"packet", {"packet"}>>
  /\ s[3] = <<"run", {}>> /\ s[4] = <<"manifest", {"manifest"}>>

LEMMA PacketFirstConcat ==
  ASSUME NEW s, PacketFirst(s), NEW u \in Seq(PlainSteps)
  PROVE  PacketFirst(s \o u)
<1>1. s \in Seq(PlainSteps) /\ Len(s) > 4
  BY DEF PacketFirst
<1>2. /\ s \o u \in Seq(PlainSteps) /\ Len(s \o u) = Len(s) + Len(u)
      /\ \A i \in 1 .. Len(s) : (s \o u)[i] = s[i]
  BY ONLY <1>1, Concat
<1>3. /\ 1 \in 1 .. Len(s) /\ 2 \in 1 .. Len(s) /\ 3 \in 1 .. Len(s) /\ 4 \in 1 .. Len(s)
      /\ Len(u) \in Nat /\ Len(s) \in Nat
  BY <1>1
<1>4. Len(s \o u) > 4
  BY <1>1, <1>2, <1>3
<1> QED
  BY <1>2, <1>3, <1>4 DEF PacketFirst

LEMMA PlainPieces ==
  /\ OtherSteps \subseteq PlainSteps
  /\ Seq(OtherSteps) \subseteq Seq(PlainSteps)
  /\ << <<"evidence", {"evidence"}>> >> \in Seq(PlainSteps)
  /\ << <<"evidence", {"evidence"}>>, <<"plan", Plan>> >> \in Seq(PlainSteps)
  /\ << <<"runner", {"runner"}>> >> \in Seq(OtherSteps)
<1>1. OtherSteps \subseteq PlainSteps
  BY DEF OtherSteps
<1>2. Seq(OtherSteps) \subseteq Seq(PlainSteps)
  BY <1>1, SeqMonotonic
<1>3. /\ <<"evidence", {"evidence"}>> \in PlainSteps /\ <<"plan", Plan>> \in PlainSteps
      /\ <<"runner", {"runner"}>> \in OtherSteps
  BY DEF PlainSteps, OtherSteps
<1> QED
  BY <1>1, <1>2, <1>3

LEMMA PacketPart ==
  PacketFirst(<< <<"runner", {"runner"}>> >> \o RealMutation \o Package)
<1>1. PICK r : r = << <<"runner", {"runner"}>> >>
  OBVIOUS
<1>2. /\ r \in Seq(PlainSteps) /\ RealMutation \in Seq(PlainSteps) /\ Package \in Seq(PlainSteps)
  BY <1>1, PlainPieces, Pieces
<1>3. PICK j \in Nat : Len(r) = j
  BY <1>2
<1>4. j = 1 /\ r[1] = <<"runner", {"runner"}>>
  BY <1>1, <1>3
<1>5. PICK u : u = r \o RealMutation
  OBVIOUS
<1>6. /\ u \in Seq(PlainSteps) /\ Len(u) = j + 2
      /\ \A i \in 1 .. j : u[i] = r[i]
      /\ u[j + 1] = RealMutation[1] /\ u[j + 2] = RealMutation[2]
  <2>1. Len(RealMutation) = 2
    BY Pieces
  <2>2. r \o RealMutation \in Seq(PlainSteps) /\ IsPairMore(r \o RealMutation, r, j, RealMutation)
    BY ONLY <1>2, <1>3, <2>1, j \in Nat, ConcatPair
  <2> QED
    BY ONLY <1>5, <2>2 DEF IsPairMore
<1>7. PICK l \in Nat : Len(u) = l
  BY <1>6
<1>8. l = 3 /\ u[1] = r[1] /\ u[2] = RealMutation[1] /\ u[3] = RealMutation[2]
  <2>1. j + 1 = 2 /\ j + 2 = 3 /\ 1 \in 1 .. j
    BY ONLY <1>4
  <2>2. u[1] = r[1] /\ u[2] = RealMutation[1] /\ u[3] = RealMutation[2]
    BY ONLY <1>6, <2>1
  <2>3. l = 3
    BY <1>6, <1>7, <2>1
  <2> QED
    BY <2>2, <2>3
<1>9. PICK w : w = u \o Package
  OBVIOUS
<1>10. /\ w \in Seq(PlainSteps) /\ Len(w) = l + 2
       /\ \A i \in 1 .. l : w[i] = u[i]
       /\ w[l + 1] = Package[1]
  <2>1. u \in Seq(PlainSteps) /\ Package \in Seq(PlainSteps)
    BY <1>2, <1>6
  <2>2. Len(Package) = 2
    BY Pieces
  <2>3. u \o Package \in Seq(PlainSteps) /\ IsPairMore(u \o Package, u, l, Package)
    BY ONLY <2>1, <2>2, <1>7, l \in Nat, ConcatPair
  <2> QED
    BY ONLY <1>9, <2>3 DEF IsPairMore
<1>11. /\ Len(w) > 4 /\ w[1] = u[1] /\ w[2] = u[2] /\ w[3] = u[3] /\ w[4] = Package[1]
  BY ONLY <1>8, <1>10
<1>12. PacketFirst(w)
  BY <1>4, <1>8, <1>10, <1>11, Pieces DEF PacketFirst
<1> QED
  BY <1>1, <1>5, <1>9, <1>12

LEMMA FixAllGatesFacts == PacketFirst(FixAllGates)
<1> DEFINE A == Tools \cup Evidence \cup Experiments \cup Plan
           b == << <<"runner", {"runner"}>> >> \o RealMutation \o Package
           e == << <<"plan", Plan>>, <<"add", A>>, <<"commit", {}>> >>
<1>1. e \in Seq(PlainSteps) /\ GateChecks("sentinel") \in Seq(PlainSteps)
  BY AddFacts, EndPieces, Pieces, PlainPieces
<1>2. PacketFirst(b \o << <<"evidence", {"evidence"}>> >>)
  BY PacketPart, PlainPieces, PacketFirstConcat
<1>3. PacketFirst(b \o << <<"evidence", {"evidence"}>> >> \o GateChecks("sentinel"))
  BY <1>1, <1>2, PacketFirstConcat
<1>4. PacketFirst(b \o << <<"evidence", {"evidence"}>> >> \o GateChecks("sentinel") \o e)
  BY <1>1, <1>3, PacketFirstConcat
<1> QED
  BY <1>4 DEF FixAllGates

LEMMA ApplyFixesFacts == PacketFirst(ApplyFixes)
<1> DEFINE A == {"runner", "evidence", "packet"} \cup Plan
           b == << <<"runner", {"runner"}>> >> \o RealMutation \o Package
           w == << <<"evidence", {"evidence"}>>, <<"plan", Plan>> >>
           e == << <<"add", A>>, <<"commit", {}>> >>
<1>1. e \in Seq(PlainSteps) /\ GateChecks("test_sentinel") \in Seq(PlainSteps)
  BY AddFacts, EndPieces, Pieces, PlainPieces
<1>2. PacketFirst(b \o w)
  BY PacketPart, PlainPieces, PacketFirstConcat
<1>3. PacketFirst(b \o w \o GateChecks("test_sentinel"))
  BY <1>1, <1>2, PacketFirstConcat
<1>4. PacketFirst(b \o w \o GateChecks("test_sentinel") \o e)
  BY <1>1, <1>3, PacketFirstConcat
<1> QED
  BY <1>4 DEF ApplyFixes

(* The scripts that package before they write their packet: the package    *)
(* step is the one after the first k, and evidence is written once.        *)
PackageFirst(s, k) ==
  /\ s \in Seq(PlainSteps) /\ Len(s) >= k + 5
  /\ s[k + 1] = <<"manifest", {"manifest"}>> /\ s[k + 2] = <<"bundle", {"bundle"}>>
  /\ s[k + 3] = <<"packet", {"packet"}>> /\ s[k + 4] = <<"run", {}>>
  /\ s[k + 5] = <<"evidence", {"evidence"}>>
  /\ \A i \in 1 .. Len(s) : s[i][1] = "evidence" => i = k + 5

LEMMA PackageFirstConcat ==
  ASSUME NEW k \in Nat, NEW s, PackageFirst(s, k), NEW u \in Seq(OtherSteps)
  PROVE  PackageFirst(s \o u, k)
<1>1. s \in Seq(PlainSteps) /\ k + 5 \in Nat /\ Len(s) >= k + 5 /\ Len(s) \in Nat
  BY DEF PackageFirst
<1>2. \A i \in 1 .. Len(s) : s[i][1] = "evidence" => i = k + 5
  BY DEF PackageFirst
<1>3. /\ s \o u \in Seq(PlainSteps)
      /\ Len(s \o u) = Len(s) + Len(u)
      /\ \A i \in 1 .. Len(s) : (s \o u)[i] = s[i]
      /\ \A i \in 1 .. Len(s) + Len(u) : (s \o u)[i][1] = "evidence" => i = k + 5
  BY ONLY <1>1, <1>2, ConcatOther
<1>4. /\ k + 1 \in 1 .. Len(s) /\ k + 2 \in 1 .. Len(s) /\ k + 3 \in 1 .. Len(s)
      /\ k + 4 \in 1 .. Len(s) /\ k + 5 \in 1 .. Len(s) /\ Len(u) \in Nat
  BY <1>1
<1>5. Len(s \o u) >= k + 5
  BY <1>1, <1>3, <1>4
<1> QED
  BY <1>3, <1>4, <1>5 DEF PackageFirst

LEMMA PackagePart ==
  ASSUME NEW k \in Nat, NEW b \in Seq(OtherSteps), Len(b) = k
  PROVE  PackageFirst(b \o Package \o RealMutation \o << <<"evidence", {"evidence"}>> >>, k)
<1>1. PICK s : s = b \o Package
  OBVIOUS
<1>2. PICK u : u = s \o RealMutation
  OBVIOUS
<1>3. PICK e : e = << <<"evidence", {"evidence"}>> >>
  OBVIOUS
<1>4. PICK w : w = u \o e
  OBVIOUS
<1>5. /\ s \in Seq(OtherSteps) /\ Len(s) = k + 2
      /\ s[k + 1] = Package[1] /\ s[k + 2] = Package[2]
  <2>1. Package \in Seq(OtherSteps) /\ Len(Package) = 2
    BY Pieces
  <2>2. b \o Package \in Seq(OtherSteps) /\ IsPairMore(b \o Package, b, k, Package)
    BY ONLY <2>1, k \in Nat, b \in Seq(OtherSteps), Len(b) = k, ConcatPair
  <2> QED
    BY ONLY <1>1, <2>2 DEF IsPairMore
<1>6. PICK j \in Nat : Len(s) = j
  BY <1>5
<1>7. /\ u \in Seq(OtherSteps) /\ Len(u) = j + 2
      /\ \A i \in 1 .. j : u[i] = s[i]
      /\ u[j + 1] = RealMutation[1] /\ u[j + 2] = RealMutation[2]
  <2>1. s \in Seq(OtherSteps) /\ RealMutation \in Seq(OtherSteps)
    BY <1>5, Pieces
  <2>2. Len(RealMutation) = 2
    BY Pieces
  <2>3. s \o RealMutation \in Seq(OtherSteps) /\ IsPairMore(s \o RealMutation, s, j, RealMutation)
    BY ONLY <1>6, <2>1, <2>2, j \in Nat, ConcatPair
  <2> QED
    BY ONLY <1>2, <2>3 DEF IsPairMore
<1>8. j = k + 2 /\ j + 1 = k + 3 /\ j + 2 = k + 4 /\ k + 1 \in 1 .. j /\ k + 2 \in 1 .. j
  BY <1>5, <1>6
<1>9. /\ Len(u) = k + 4
      /\ u[k + 1] = s[k + 1] /\ u[k + 2] = s[k + 2]
      /\ u[k + 3] = RealMutation[1] /\ u[k + 4] = RealMutation[2]
  BY ONLY <1>7, <1>8
<1>10. u \in Seq(PlainSteps) /\ e \in Seq(PlainSteps)
  BY <1>3, <1>7, PlainPieces
<1>11. Len(e) = 1 /\ e[1] = <<"evidence", {"evidence"}>>
  BY <1>3
<1>12. /\ w \in Seq(PlainSteps) /\ Len(w) = Len(u) + Len(e)
       /\ \A i \in 1 .. Len(u) + Len(e) :
            w[i] = IF i <= Len(u) THEN u[i] ELSE e[i - Len(u)]
  BY ONLY <1>4, <1>10, ConcatProperties
<1>13. /\ Len(w) = k + 5
       /\ \A i \in 1 .. k + 5 : w[i] = IF i <= k + 4 THEN u[i] ELSE e[i - (k + 4)]
  <2>1. Len(u) + Len(e) = k + 5
    BY <1>9, <1>11
  <2> QED
    BY ONLY <1>9, <1>12, <2>1
<1>14. /\ \A i \in 1 .. k + 4 : w[i] = u[i]
       /\ w[k + 5] = e[1]
  <2>1. (k + 5) - (k + 4) = 1 /\ k + 5 \in 1 .. k + 5 /\ ~(k + 5 <= k + 4)
    OBVIOUS
  <2>2. w[k + 5] = e[1]
    BY <1>13, <2>1
  <2> QED
    BY <1>13, <2>2
<1>15. ASSUME NEW i \in 1 .. k + 4 PROVE w[i][1] # "evidence"
  <2>1. u[i] \in OtherSteps
    BY <1>7, <1>9, ElementOfSeq
  <2> QED
    BY <1>14, <2>1 DEF OtherSteps
<1>16. \A i \in 1 .. Len(w) : w[i][1] = "evidence" => i = k + 5
  BY <1>13, <1>15
<1>17. /\ k + 1 \in 1 .. k + 4 /\ k + 2 \in 1 .. k + 4 /\ k + 3 \in 1 .. k + 4
       /\ k + 4 \in 1 .. k + 4
  OBVIOUS
<1>18. /\ w[k + 1] = <<"manifest", {"manifest"}>> /\ w[k + 2] = <<"bundle", {"bundle"}>>
       /\ w[k + 3] = <<"packet", {"packet"}>> /\ w[k + 4] = <<"run", {}>>
       /\ w[k + 5] = <<"evidence", {"evidence"}>>
  BY <1>5, <1>9, <1>11, <1>14, <1>17, Pieces
<1>19. Len(w) >= k + 5
  BY <1>13
<1>20. PackageFirst(w, k)
  BY <1>12, <1>16, <1>18, <1>19 DEF PackageFirst
<1> QED
  BY <1>1, <1>2, <1>3, <1>4, <1>20

LEMMA RunAllFacts == PackageFirst(RunAll, 4)
<1> DEFINE A == Evidence \cup Experiments \cup Plan
           b == << <<"check_p12", {}>>, <<"ignore", {"gitignore"}>>, <<"add", {"gitignore"}>>,
                   <<"try_commit", {}>> >>
           w == b \o Package \o RealMutation \o << <<"evidence", {"evidence"}>> >>
           e == << <<"plan", Plan>>, <<"add", A>>, <<"commit", {}>> >>
<1>1. b \in Seq(OtherSteps) /\ Len(b) = 4
  <2>1. /\ <<"check_p12", {}>> \in OtherSteps /\ <<"ignore", {"gitignore"}>> \in OtherSteps
        /\ <<"add", {"gitignore"}>> \in OtherSteps /\ <<"try_commit", {}>> \in OtherSteps
    BY DEF OtherSteps, PlainSteps, Paths
  <2> QED
    BY <2>1
<1>2. PackageFirst(w, 4)
  BY <1>1, PackagePart
<1>3. e \in Seq(OtherSteps) /\ GateChecks("sentinel") \in Seq(OtherSteps)
  BY AddFacts, EndPieces, Pieces
<1> HIDE DEF w, e
<1>4. PackageFirst(w \o GateChecks("sentinel"), 4)
  BY <1>2, <1>3, PackageFirstConcat
<1>5. PackageFirst(w \o GateChecks("sentinel") \o e, 4)
  BY <1>3, <1>4, PackageFirstConcat
<1> QED
  BY <1>5 DEF RunAll, w, e

LEMMA FixAndPackageFacts == PackageFirst(FixAndPackage, 2)
<1> DEFINE A == Evidence \cup Plan
           b == << <<"add", Tools \cup Experiments>>, <<"try_commit", {}>> >>
           w == b \o Package \o RealMutation \o << <<"evidence", {"evidence"}>> >>
           e == << <<"plan", Plan>>, <<"add", A>>, <<"commit", {}>> >>
<1>1. b \in Seq(OtherSteps) /\ Len(b) = 2
  <2>1. <<"add", Tools \cup Experiments>> \in OtherSteps /\ <<"try_commit", {}>> \in OtherSteps
    BY AddFacts DEF OtherSteps, PlainSteps
  <2> QED
    BY <2>1
<1>2. PackageFirst(w, 2)
  BY <1>1, PackagePart
<1>3. e \in Seq(OtherSteps) /\ GateChecks("sentinel") \in Seq(OtherSteps)
  BY AddFacts, EndPieces, Pieces
<1> HIDE DEF w, e
<1>4. PackageFirst(w \o GateChecks("sentinel"), 2)
  BY <1>2, <1>3, PackageFirstConcat
<1>5. PackageFirst(w \o GateChecks("sentinel") \o e, 2)
  BY <1>3, <1>4, PackageFirstConcat
<1> QED
  BY <1>5 DEF FixAndPackage, w, e

LEMMA FixAndReportFacts == FixAndReport \in Seq(OtherSteps) /\ Len(FixAndReport) > 0
<1>1. PICK b : b = << <<"runner", {"runner"}>> >>
  OBVIOUS
<1>2. PICK g : g = GateChecks("sentinel")
  OBVIOUS
<1>3. PICK e : e = << <<"run", {}>>, <<"plan", Plan>>, <<"add", Tools \cup Plan>>,
                      <<"commit", {}>> >>
  OBVIOUS
<1>4. b \in Seq(OtherSteps) /\ e \in Seq(OtherSteps) /\ g \in Seq(OtherSteps)
  BY <1>1, <1>2, <1>3, AddFacts, EndPieces, Pieces, PlainPieces
<1>5. b \o g \in Seq(OtherSteps) /\ Len(b \o g) = Len(b) + Len(g)
  BY ONLY <1>4
<1>6. b \o g \o e \in Seq(OtherSteps) /\ Len(b \o g \o e) = Len(b \o g) + Len(e)
  BY ONLY <1>4, <1>5, Concat
<1>7. Len(b) = 1 /\ Len(g) \in Nat /\ Len(e) \in Nat
  BY <1>1, <1>4
<1>8. Len(b \o g \o e) > 0
  BY ONLY <1>5, <1>6, <1>7
<1> QED
  BY <1>1, <1>2, <1>3, <1>6, <1>8 DEF FixAndReport

LEMMA SetupP12Facts == SetupP12 \in Seq(OtherSteps) /\ Len(SetupP12) > 0
<1>1. <<"packet", {"packet_a"}>> \in OtherSteps /\ <<"packet", {"packet_b"}>> \in OtherSteps
  BY DEF OtherSteps, PlainSteps
<1> QED
  BY <1>1 DEF SetupP12

LEMMA CellPrograms ==
  /\ Len(P12Gate) = 8 /\ Len(P13Gate) = 4 /\ Len(ExportState) = 2 /\ Len(Resurrect) = 1
  /\ P12Gate[1] = <<"clone", {"alpha"}>> /\ P12Gate[2] = <<"fetch", {"alpha"}>>
  /\ P12Gate[3] = <<"artifact", {"alpha"}>> /\ P12Gate[4] = <<"discard", {"alpha"}>>
  /\ P12Gate[5] = <<"clone", {"beta"}>> /\ P12Gate[6] = <<"fetch", {"beta"}>>
  /\ P12Gate[7] = <<"artifact", {"beta"}>> /\ P12Gate[8] = <<"discard", {"beta"}>>
  /\ P13Gate[1] = <<"clone", {"p13"}>> /\ P13Gate[2] = <<"fetch", {"p13"}>>
  /\ P13Gate[3] = <<"artifact", {"p13"}>> /\ P13Gate[4] = <<"discard", {"p13"}>>
  /\ ExportState[1] = <<"export", {"bundle"}>> /\ ExportState[2] = <<"seal", {"manifest"}>>
  /\ Resurrect[1] = <<"resurrect", {}>>
<1>1. Len(P12Gate) = 8
  BY DEF P12Gate, CellRun
<1>2. /\ P12Gate[1] = <<"clone", {"alpha"}>> /\ P12Gate[2] = <<"fetch", {"alpha"}>>
      /\ P12Gate[3] = <<"artifact", {"alpha"}>> /\ P12Gate[4] = <<"discard", {"alpha"}>>
  BY DEF P12Gate, CellRun
<1>3. /\ P12Gate[5] = <<"clone", {"beta"}>> /\ P12Gate[6] = <<"fetch", {"beta"}>>
      /\ P12Gate[7] = <<"artifact", {"beta"}>> /\ P12Gate[8] = <<"discard", {"beta"}>>
  BY DEF P12Gate, CellRun
<1> QED
  BY <1>1, <1>2, <1>3 DEF P13Gate, CellRun, ExportState, Resurrect

PlainScripts ==
  {"fix_all_gates", "apply_fixes", "run_all", "fix_and_package", "fix_and_report", "setup_p12"}

LEMMA Programs ==
  /\ Scripts = PlainScripts \cup {"p12_gate", "p13_gate", "export_state", "resurrect"}
  /\ Program["fix_all_gates"] = FixAllGates /\ Program["apply_fixes"] = ApplyFixes
  /\ Program["run_all"] = RunAll /\ Program["fix_and_package"] = FixAndPackage
  /\ Program["fix_and_report"] = FixAndReport /\ Program["setup_p12"] = SetupP12
  /\ Program["p12_gate"] = P12Gate /\ Program["p13_gate"] = P13Gate
  /\ Program["export_state"] = ExportState /\ Program["resurrect"] = Resurrect
BY DEF Scripts, Program, PlainScripts

LEMMA PlainPrograms ==
  ASSUME NEW s \in PlainScripts
  PROVE  Program[s] \in Seq(PlainSteps) /\ Len(Program[s]) > 0
<1>1. CASE s \in {"fix_all_gates", "apply_fixes"}
  <2>1. PacketFirst(Program[s])
    BY <1>1, Programs, FixAllGatesFacts, ApplyFixesFacts
  <2> QED
    BY <2>1 DEF PacketFirst
<1>2. CASE s = "run_all"
  <2>1. PackageFirst(Program[s], 4)
    BY <1>2, Programs, RunAllFacts
  <2> QED
    BY <2>1 DEF PackageFirst
<1>3. CASE s = "fix_and_package"
  <2>1. PackageFirst(Program[s], 2)
    BY <1>3, Programs, FixAndPackageFacts
  <2> QED
    BY <2>1 DEF PackageFirst
<1>4. CASE s \in {"fix_and_report", "setup_p12"}
  BY <1>4, Programs, PlainPieces, FixAndReportFacts, SetupP12Facts
<1> QED
  BY <1>1, <1>2, <1>3, <1>4 DEF PlainScripts

LEMMA ProgramLength ==
  ASSUME NEW s \in Scripts
  PROVE  Len(Program[s]) \in Nat /\ Len(Program[s]) > 0
<1>1. CASE s \in PlainScripts
  BY <1>1, PlainPrograms
<1>2. CASE s = "p12_gate"
  <2>1. Program[s] = P12Gate
    BY <1>2, Programs
  <2> QED
    BY <2>1, CellPrograms
<1>3. CASE s = "p13_gate"
  <2>1. Program[s] = P13Gate
    BY <1>3, Programs
  <2> QED
    BY <2>1, CellPrograms
<1>4. CASE s = "export_state"
  <2>1. Program[s] = ExportState
    BY <1>4, Programs
  <2> QED
    BY <2>1, CellPrograms
<1>5. CASE s = "resurrect"
  <2>1. Program[s] = Resurrect
    BY <1>5, Programs
  <2> QED
    BY <2>1, CellPrograms
<1> QED
  BY <1>1, <1>2, <1>3, <1>4, <1>5, Programs

-----------------------------------------------------------------------------
(* Where a script is. *)

Op == Program[script][step][1]
InScript == script \in Scripts /\ step \in 1 .. Len(Program[script])

LEMMA StepIsListed ==
  ASSUME InScript, script \in PlainScripts
  PROVE  Program[script][step] \in PlainSteps
BY PlainPrograms, ElementOfSeq DEF InScript

(* The gates of P12 and P13. *)
LEMMA CellPlace ==
  ASSUME InScript
  PROVE  /\ \A c \in Cells : InCell(c, 1) => Op = "clone" /\ Arg = {c}
         /\ \A c \in Cells : InCell(c, 2) => Op = "fetch" /\ Arg = {c}
         /\ \A c \in Cells : InCell(c, 3) => Op = "artifact" /\ Arg = {c}
         /\ script \in {"p12_gate", "p13_gate"} =>
              \E c \in Cells : /\ Arg = {c}
                               /\ \/ InCell(c, 1) /\ Op = "clone"
                                  \/ InCell(c, 2) /\ Op = "fetch"
                                  \/ InCell(c, 3) /\ Op = "artifact"
                                  \/ InCell(c, 4) /\ Op = "discard"
<1> USE DEF InScript, Op, Arg, InCell
<1>1. ASSUME script = "p12_gate"
      PROVE  /\ step \in 1 .. 8
             /\ step = 1 => Op = "clone" /\ Arg = {"alpha"}
             /\ step = 2 => Op = "fetch" /\ Arg = {"alpha"}
             /\ step = 3 => Op = "artifact" /\ Arg = {"alpha"}
             /\ step = 4 => Op = "discard" /\ Arg = {"alpha"}
             /\ step = 5 => Op = "clone" /\ Arg = {"beta"}
             /\ step = 6 => Op = "fetch" /\ Arg = {"beta"}
             /\ step = 7 => Op = "artifact" /\ Arg = {"beta"}
             /\ step = 8 => Op = "discard" /\ Arg = {"beta"}
  BY <1>1, Programs, CellPrograms
<1>2. ASSUME script = "p13_gate"
      PROVE  /\ step \in 1 .. 4
             /\ step = 1 => Op = "clone" /\ Arg = {"p13"}
             /\ step = 2 => Op = "fetch" /\ Arg = {"p13"}
             /\ step = 3 => Op = "artifact" /\ Arg = {"p13"}
             /\ step = 4 => Op = "discard" /\ Arg = {"p13"}
  BY <1>2, Programs, CellPrograms
<1> HIDE DEF Op, Arg
<1>3. \A c \in Cells : InCell(c, 1) => Op = "clone" /\ Arg = {c}
  BY <1>1, <1>2
<1>4. \A c \in Cells : InCell(c, 2) => Op = "fetch" /\ Arg = {c}
  BY <1>1, <1>2
<1>5. \A c \in Cells : InCell(c, 3) => Op = "artifact" /\ Arg = {c}
  BY <1>1, <1>2
<1>6. ASSUME script = "p12_gate"
      PROVE  \E c \in Cells : /\ Arg = {c}
                              /\ \/ InCell(c, 1) /\ Op = "clone"
                                 \/ InCell(c, 2) /\ Op = "fetch"
                                 \/ InCell(c, 3) /\ Op = "artifact"
                                 \/ InCell(c, 4) /\ Op = "discard"
  <2>1. step \in {1, 2, 3, 4} \/ step \in {5, 6, 7, 8}
    BY <1>1, <1>6
  <2>2. CASE step \in {1, 2, 3, 4}
    BY <1>1, <1>6, <2>2 DEF Cells
  <2>3. CASE step \in {5, 6, 7, 8}
    BY <1>1, <1>6, <2>3 DEF Cells
  <2> QED
    BY <2>1, <2>2, <2>3
<1>7. ASSUME script = "p13_gate"
      PROVE  \E c \in Cells : /\ Arg = {c}
                              /\ \/ InCell(c, 1) /\ Op = "clone"
                                 \/ InCell(c, 2) /\ Op = "fetch"
                                 \/ InCell(c, 3) /\ Op = "artifact"
                                 \/ InCell(c, 4) /\ Op = "discard"
  BY <1>2, <1>7 DEF Cells
<1> QED
  BY <1>3, <1>4, <1>5, <1>6, <1>7

LEMMA ExportPlace ==
  ASSUME InScript
  PROVE  /\ script = "export_state" =>
              \/ step = 1 /\ Op = "export" /\ Arg = {"bundle"}
              \/ step = 2 /\ Op = "seal" /\ Arg = {"manifest"}
         /\ script = "resurrect" => Op = "resurrect" /\ Arg = {}
<1>1. CASE script = "export_state"
  <2>1. Program[script] = ExportState
    BY <1>1, Programs
  <2>2. step \in 1 .. 2
    BY <2>1, CellPrograms DEF InScript
  <2>3. step = 1 \/ step = 2
    BY <2>2
  <2> QED
    BY <1>1, <2>1, <2>3, CellPrograms DEF Op, Arg
<1>2. CASE script = "resurrect"
  <2>1. Program[script] = Resurrect
    BY <1>2, Programs
  <2>2. step \in 1 .. 1
    BY <2>1, CellPrograms DEF InScript
  <2>3. step = 1
    BY <2>2
  <2> QED
    BY <1>2, <2>1, <2>3, CellPrograms DEF Op, Arg
<1> QED
  BY <1>1, <1>2

(* The scripts that write their packet first, and those that package first.*)
LEMMA PacketPlace ==
  ASSUME InScript, script \in {"fix_all_gates", "apply_fixes"}
  PROVE  /\ step = 1 => Op = "runner"
         /\ step = 2 => Op = "packet" /\ Arg = {"packet"}
         /\ step = 3 => Op = "run"
         /\ step = 4 => Op = "manifest"
<1>1. PacketFirst(Program[script])
  BY Programs, FixAllGatesFacts, ApplyFixesFacts
<1> QED
  BY <1>1 DEF PacketFirst, Op, Arg

LEMMA PackagePlace ==
  ASSUME InScript
  PROVE  /\ InPackage(1) => Op = "manifest"
         /\ InPackage(2) => Op = "bundle"
         /\ InPackage(3) => Op = "packet"
         /\ InPackage(4) => Op = "run"
         /\ InPackage(5) => Op = "evidence"
         /\ script \in {"run_all", "fix_and_package"} /\ Op = "evidence" => InPackage(5)
<1>1. CASE script = "run_all"
  <2>1. PackageFirst(Program[script], 4)
    BY <1>1, Programs, RunAllFacts
  <2>2. /\ Program[script][5] = <<"manifest", {"manifest"}>>
        /\ Program[script][6] = <<"bundle", {"bundle"}>>
        /\ Program[script][7] = <<"packet", {"packet"}>> /\ Program[script][8] = <<"run", {}>>
        /\ Program[script][9] = <<"evidence", {"evidence"}>>
        /\ Op = "evidence" => step = 9
    BY <2>1 DEF PackageFirst, Op, InScript
  <2> QED
    BY <1>1, <2>2 DEF InPackage, Op, InScript
<1>2. CASE script = "fix_and_package"
  <2>1. PackageFirst(Program[script], 2)
    BY <1>2, Programs, FixAndPackageFacts
  <2>2. /\ Program[script][3] = <<"manifest", {"manifest"}>>
        /\ Program[script][4] = <<"bundle", {"bundle"}>>
        /\ Program[script][5] = <<"packet", {"packet"}>> /\ Program[script][6] = <<"run", {}>>
        /\ Program[script][7] = <<"evidence", {"evidence"}>>
        /\ Op = "evidence" => step = 7
    BY <2>1 DEF PackageFirst, Op, InScript
  <2> QED
    BY <1>2, <2>2 DEF InPackage, Op, InScript
<1> QED
  BY <1>1, <1>2 DEF InPackage

(* What the operations are about, and where some of them are found.        *)
LEMMA Args ==
  ASSUME InScript
  PROVE  /\ Op = "runner" => Arg = {"runner"}
         /\ Op = "ignore" => Arg = {"gitignore"}
         /\ Op = "packet" => Arg \in {{"packet"}, {"packet_a"}, {"packet_b"}}
         /\ Op \in {"manifest", "seal"} => Arg = {"manifest"}
         /\ Op \in {"bundle", "export"} => Arg = {"bundle"}
         /\ Op = "evidence" => Arg = {"evidence"}
         /\ Op \in {"soil", "dirty"} => Arg \in {{"sentinel"}, {"test_sentinel"}}
         /\ Op = "plan" => Arg = Plan
         /\ Op \in CellOps => \E c \in Cells : Arg = {c}
         /\ Op = "fetch" => \E c \in Cells : Arg = {c} /\ InCell(c, 2)
         /\ Op = "artifact" => \E c \in Cells : Arg = {c} /\ InCell(c, 3)
         /\ Op = "seal" => script = "export_state" /\ step = 2
         /\ Op = "export" => script = "export_state" /\ step = 1
         /\ Op = "evidence" => \/ InPackage(5)
                               \/ script \in {"fix_all_gates", "apply_fixes"} /\ step > 4
<1>1. CASE script \in PlainScripts
  <2>1. Program[script][step] \in PlainSteps
    BY <1>1, StepIsListed
  <2>2. /\ Op = "runner" => Arg = {"runner"}
        /\ Op = "ignore" => Arg = {"gitignore"}
        /\ Op = "packet" => Arg \in {{"packet"}, {"packet_a"}, {"packet_b"}}
        /\ Op = "manifest" => Arg = {"manifest"}
        /\ Op = "bundle" => Arg = {"bundle"}
    BY <2>1 DEF PlainSteps, Op, Arg
  <2>3. /\ Op = "evidence" => Arg = {"evidence"}
        /\ Op \in {"soil", "dirty"} => Arg \in {{"sentinel"}, {"test_sentinel"}}
        /\ Op = "plan" => Arg = Plan
    BY <2>1 DEF PlainSteps, Op, Arg
  <2>4. Op \notin CellOps \cup {"seal", "export"}
    BY <2>1 DEF PlainSteps, Op, CellOps
  <2>5. ASSUME Op = "evidence"
        PROVE  \/ InPackage(5)
               \/ script \in {"fix_all_gates", "apply_fixes"} /\ step > 4
    <3>1. CASE script \in {"run_all", "fix_and_package"}
      BY <2>5, <3>1, PackagePlace
    <3>2. CASE script \in {"fix_all_gates", "apply_fixes"}
      BY <2>5, <3>2, PacketPlace DEF InScript
    <3>3. CASE script \in {"fix_and_report", "setup_p12"}
      <4>1. Program[script] \in Seq(OtherSteps)
        BY <3>3, Programs, FixAndReportFacts, SetupP12Facts
      <4>2. Program[script][step] \in OtherSteps
        BY <4>1, ElementOfSeq DEF InScript
      <4> QED
        BY <2>5, <4>2 DEF OtherSteps, Op
    <3> QED
      BY <1>1, <3>1, <3>2, <3>3 DEF PlainScripts
  <2> QED
    BY <2>2, <2>3, <2>4, <2>5, Zenon DEF CellOps
<1>2. CASE script \in {"p12_gate", "p13_gate"}
  <2>1. PICK c \in Cells : /\ Arg = {c}
                           /\ \/ InCell(c, 1) /\ Op = "clone"
                              \/ InCell(c, 2) /\ Op = "fetch"
                              \/ InCell(c, 3) /\ Op = "artifact"
                              \/ InCell(c, 4) /\ Op = "discard"
    BY <1>2, CellPlace
  <2> QED
    BY <2>1 DEF CellOps
<1>3. CASE script \in {"export_state", "resurrect"}
  BY <1>3, ExportPlace DEF CellOps
<1> QED
  BY <1>1, <1>2, <1>3, Programs DEF InScript

-----------------------------------------------------------------------------
(* What a step may do. *)

(* The action an operation stands for; any script may be killed instead.   *)
LEMMA ByOp ==
  ASSUME Next, script # "idle"
  PROVE  \/ Kill
         \/ Op = "runner" /\ RewriteRunner
         \/ Op = "check_p12" /\ CheckP12
         \/ Op = "ignore" /\ IgnoreGenesis
         \/ Op = "packet" /\ WritePacket
         \/ Op = "run" /\ RunMutation
         \/ Op = "manifest" /\ PackageManifest
         \/ Op = "bundle" /\ PackageBundle
         \/ Op = "evidence" /\ WriteEvidence
         \/ Op = "clean" /\ VerifyClean
         \/ Op = "soil" /\ SoilCheckout
         \/ Op = "dirty" /\ VerifyDirty
         \/ Op = "secret" /\ VerifyWithoutSecret
         \/ Op = "plan" /\ UpdatePlan
         \/ Op = "add" /\ GitAdd
         \/ Op \in {"commit", "try_commit"} /\ GitCommit
         \/ Op = "clone" /\ CloneCell
         \/ Op = "fetch" /\ FetchBranch
         \/ Op = "artifact" /\ WriteArtifact
         \/ Op = "discard" /\ DiscardClone
         \/ Op = "export" /\ ExportBundle
         \/ Op = "seal" /\ SealManifest
         \/ Op = "resurrect" /\ VerifyAndResurrect
<1>1. /\ RewriteRunner => Op = "runner"
      /\ CheckP12 => Op = "check_p12"
      /\ IgnoreGenesis => Op = "ignore"
      /\ WritePacket => Op = "packet"
      /\ RunMutation => Op = "run"
      /\ PackageManifest => Op = "manifest"
      /\ PackageBundle => Op = "bundle"
      /\ WriteEvidence => Op = "evidence"
  BY DEF RewriteRunner, CheckP12, IgnoreGenesis, WritePacket, RunMutation, PackageManifest,
         PackageBundle, WriteEvidence, Writes, At, Op
<1>2. /\ VerifyClean => Op = "clean"
      /\ SoilCheckout => Op = "soil"
      /\ VerifyDirty => Op = "dirty"
      /\ VerifyWithoutSecret => Op = "secret"
      /\ UpdatePlan => Op = "plan"
      /\ GitAdd => Op = "add"
      /\ GitCommit => Op \in {"commit", "try_commit"}
  BY DEF VerifyClean, SoilCheckout, VerifyDirty, VerifyWithoutSecret, UpdatePlan, GitAdd,
         GitCommit, Writes, At, Op
<1>3. /\ CloneCell => Op = "clone"
      /\ FetchBranch => Op = "fetch"
      /\ WriteArtifact => Op = "artifact"
      /\ DiscardClone => Op = "discard"
      /\ ExportBundle => Op = "export"
      /\ SealManifest => Op = "seal"
      /\ VerifyAndResurrect => Op = "resurrect"
  BY DEF CloneCell, FetchBranch, WriteArtifact, DiscardClone, ExportBundle, SealManifest,
         VerifyAndResurrect, Writes, At, Op
<1>4. /\ \A x \in Scripts : ~Start(x)
      /\ ~DeveloperCommit /\ ~DeveloperRestore
  BY DEF Start, DeveloperCommit, DeveloperRestore
<1> QED
  BY <1>1, <1>2, <1>3, <1>4, Zenon DEF Next

(* Between scripts: the next one starts, or the developer tidies up. *)
LEMMA ByIdle ==
  ASSUME Next, script = "idle"
  PROVE  (\E x \in Scripts : Start(x)) \/ DeveloperCommit \/ DeveloperRestore
<1> USE DEF At
<1>1. /\ ~RewriteRunner /\ ~CheckP12 /\ ~IgnoreGenesis /\ ~WritePacket /\ ~RunMutation
      /\ ~PackageManifest /\ ~PackageBundle /\ ~WriteEvidence
  BY DEF RewriteRunner, CheckP12, IgnoreGenesis, WritePacket, RunMutation, PackageManifest,
         PackageBundle, WriteEvidence, Writes
<1>2. /\ ~VerifyClean /\ ~SoilCheckout /\ ~VerifyDirty /\ ~VerifyWithoutSecret
      /\ ~UpdatePlan /\ ~GitAdd /\ ~GitCommit
  BY DEF VerifyClean, SoilCheckout, VerifyDirty, VerifyWithoutSecret, UpdatePlan, GitAdd,
         GitCommit, Writes
<1>3. /\ ~CloneCell /\ ~FetchBranch /\ ~WriteArtifact /\ ~DiscardClone /\ ~ExportBundle
      /\ ~SealManifest /\ ~VerifyAndResurrect /\ ~Kill
  BY DEF CloneCell, FetchBranch, WriteArtifact, DiscardClone, ExportBundle, SealManifest,
         VerifyAndResurrect, Kill, Writes
<1> QED
  BY <1>1, <1>2, <1>3, Zenon DEF Next

(* The script moves on by one step, ends, or is started. *)
LEMMA Moves ==
  ASSUME Next
  PROVE  \/ script' = "idle" /\ step' = 0 /\ script # "idle"
         \/ script' = script /\ step' = step + 1 /\ script # "idle"
              /\ step < Len(Program[script])
         \/ script = "idle" /\ script' = script /\ step' = step
         \/ script = "idle" /\ script' \in Scripts /\ step' = 1
<1>1. CASE script = "idle"
  BY <1>1, ByIdle DEF Start, DeveloperCommit, DeveloperRestore
<1>2. CASE script # "idle"
  <2>1. Advance \/ Stop
    <3> USE DEF Writes
    <3>1. CASE \/ Kill \/ RewriteRunner \/ CheckP12 \/ IgnoreGenesis \/ WritePacket
               \/ RunMutation \/ PackageManifest \/ PackageBundle \/ WriteEvidence
      BY <3>1 DEF Kill, RewriteRunner, CheckP12, IgnoreGenesis, WritePacket, RunMutation,
                  PackageManifest, PackageBundle, WriteEvidence
    <3>2. CASE \/ VerifyClean \/ SoilCheckout \/ VerifyDirty \/ VerifyWithoutSecret
               \/ UpdatePlan \/ GitAdd \/ GitCommit
      BY <3>2 DEF VerifyClean, SoilCheckout, VerifyDirty, VerifyWithoutSecret, UpdatePlan,
                  GitAdd, GitCommit
    <3>3. CASE \/ CloneCell \/ FetchBranch \/ WriteArtifact \/ DiscardClone \/ ExportBundle
               \/ SealManifest \/ VerifyAndResurrect
      BY <3>3 DEF CloneCell, FetchBranch, WriteArtifact, DiscardClone, ExportBundle,
                  SealManifest, VerifyAndResurrect
    <3> QED
      BY <1>2, <3>1, <3>2, <3>3, ByOp
  <2> QED
    BY <1>2, <2>1 DEF Advance, Stop
<1> QED
  BY <1>1, <1>2

-----------------------------------------------------------------------------
(* Contents. *)

LEMMA TypeFacts ==
  ASSUME TypeOK
  PROVE  /\ tree \in [Paths -> Contents] /\ index \in [Paths -> Contents]
         /\ committed \in [Paths -> Contents]
         /\ \A p \in Paths : /\ tree[p] \in Contents /\ index[p] \in Contents
                             /\ committed[p] \in Contents
                             /\ tree[p].at \in Nat /\ index[p].at \in Nat
                             /\ committed[p].at \in Nat
         /\ head \in Nat /\ exports \in Nat /\ executed \in Nat /\ source \in Nat
         /\ step \in Nat
         /\ \A c \in Cells : branch[c] \in Nat
         /\ script # "idle" => InScript
         /\ script = "idle" => step = 0
<1> USE DEF TypeOK
<1>1. \A v \in Contents : v.at \in Nat
  BY DEF Contents
<1>2. \A p \in Paths : tree[p] \in Contents /\ index[p] \in Contents /\ committed[p] \in Contents
  OBVIOUS
<1>3. script # "idle" => InScript
  BY DEF InScript
<1>4. step \in Nat
  <2>1. CASE script = "idle"
    BY <2>1
  <2>2. CASE script # "idle"
    BY <1>3, <2>2, ProgramLength DEF InScript
  <2> QED
    BY <2>1, <2>2
<1> QED
  BY <1>1, <1>2, <1>3, <1>4

LEMMA PathFacts ==
  /\ Cells \subseteq Paths /\ Plan \subseteq Paths /\ Workspaces \subseteq Paths
  /\ {"manifest", "bundle", "packet", "runner", "evidence", "gitignore"} \subseteq Paths
  /\ ({"manifest", "bundle", "packet", "runner", "evidence"} \cup Cells \cup Plan)
       \cap Workspaces = {}
  /\ \A c \in Cells : Workspace[c] \in Workspaces
  /\ "idle" \notin Scripts
<1>1. Workspaces = {"ws_alpha", "ws_beta", "ws_p13"}
  BY DEF Workspaces, Workspace, Cells
<1>2. \A c \in Cells : Workspace[c] \in Workspaces
  BY DEF Workspaces
<1> QED
  BY <1>1, <1>2, Programs DEF Paths, Cells, Plan, Evidence, Genesis, Experiments, Tools, PlainScripts

LEMMA PutFacts ==
  ASSUME TypeOK, NEW A, NEW v
  PROVE  /\ \A p \in Paths : Put(A, v)[p] = IF p \in A THEN v ELSE tree[p]
         /\ v \in Contents => Put(A, v) \in [Paths -> Contents]
BY TypeFacts DEF Put

LEMMA StageFacts ==
  ASSUME TypeOK, NEW A
  PROVE  /\ \A p \in Paths : Stage(A)[p] = IF p \in A THEN tree[p] ELSE index[p]
         /\ Stage(A) \in [Paths -> Contents]
BY TypeFacts DEF Stage

(* The packet is never hidden by the ignore rule, nor is the runner. *)
LEMMA CleanFacts ==
  ASSUME TypeOK, ~Dirty, NEW p \in {"packet", "runner"}
  PROVE  tree[p] = index[p] /\ index[p] = committed[p]
<1>1. p \in Paths \ Ignored
  BY PathFacts DEF Ignored, Genesis
<1> QED
  BY <1>1 DEF Dirty

(* A change of the tree: git restores it, or the script writes it with one *)
(* of its steps.                                                           *)
LEMMA Written ==
  ASSUME TypeOK, Next, NEW p \in Paths \ Workspaces, tree'[p] # tree[p], tree'[p] # committed[p]
  PROVE  /\ script # "idle" /\ p \in Arg
         /\ Op \in {"runner", "ignore", "packet", "manifest", "bundle", "evidence", "soil",
                    "dirty", "plan", "artifact", "export", "seal"}
<1> USE TypeFacts
<1>1. script # "idle"
  <2> SUFFICES ASSUME script = "idle" PROVE FALSE
    OBVIOUS
  <2>1. CASE DeveloperRestore
    BY <2>1 DEF DeveloperRestore
  <2>2. CASE DeveloperCommit \/ \E x \in Scripts : Start(x)
    BY <2>2 DEF DeveloperCommit, Start
  <2> QED
    BY <2>1, <2>2, ByIdle
<1>2. InScript
  BY <1>1
<1>3. ASSUME NEW v, tree' = Put(Arg, v) PROVE p \in Arg
  BY <1>3, PutFacts
<1>4. CASE Kill
  <2>1. tree' = Put(Arg, C("torn", 0)) /\ Op \in {"bundle", "export"}
    BY <1>4 DEF Kill, At, Op
  <2> QED
    BY <1>1, <1>3, <2>1
<1>5. CASE \/ RewriteRunner \/ IgnoreGenesis \/ PackageBundle \/ WriteEvidence
           \/ SoilCheckout \/ WriteArtifact
  <2>1. \E v : tree' = Put(Arg, v)
    BY <1>5 DEF RewriteRunner, IgnoreGenesis, PackageBundle, WriteEvidence,
                SoilCheckout, WriteArtifact, Writes
  <2>2. Op \in {"runner", "ignore", "bundle", "evidence", "soil", "artifact"}
    BY <1>5 DEF RewriteRunner, IgnoreGenesis, PackageBundle, WriteEvidence,
                SoilCheckout, WriteArtifact, Writes, At, Op
  <2> QED
    BY <1>1, <1>3, <2>1, <2>2
<1>6. CASE WritePacket \/ PackageManifest \/ VerifyDirty \/ ExportBundle \/ SealManifest
  <2>1. \E v : tree' = Put(Arg, v)
    BY <1>6 DEF WritePacket, PackageManifest, VerifyDirty, ExportBundle, SealManifest
  <2>2. Op \in {"packet", "manifest", "dirty", "export", "seal"}
    BY <1>6 DEF WritePacket, PackageManifest, VerifyDirty, ExportBundle, SealManifest, At, Op
  <2> QED
    BY <1>1, <1>3, <2>1, <2>2
<1>7. CASE UpdatePlan
  BY <1>1, <1>7 DEF UpdatePlan, At, Op
<1>8. CASE CloneCell \/ DiscardClone
  <2>1. \E v : tree' = Put({Workspace[c] : c \in Arg}, v)
    BY <1>8 DEF CloneCell, DiscardClone
  <2>2. Op \in CellOps
    BY <1>8 DEF CloneCell, DiscardClone, At, Op, CellOps
  <2>3. PICK c \in Cells : Arg = {c}
    BY <1>2, <2>2, Args
  <2>4. p \notin {Workspace[x] : x \in Arg}
    BY <2>3, PathFacts
  <2> QED
    BY <2>1, <2>4, PutFacts
<1>9. CASE \/ CheckP12 \/ RunMutation \/ VerifyClean \/ VerifyWithoutSecret \/ GitAdd
           \/ GitCommit \/ FetchBranch \/ VerifyAndResurrect
  BY <1>9 DEF CheckP12, RunMutation, VerifyClean, VerifyWithoutSecret, GitAdd, GitCommit,
              FetchBranch, VerifyAndResurrect
<1> QED
  BY <1>1, <1>4, <1>5, <1>6, <1>7, <1>8, <1>9, ByOp

(* Only git commands touch the index and the commits. *)
LEMMA NoGit ==
  ASSUME Next, script # "idle", ~GitAdd, ~GitCommit
  PROVE  UNCHANGED staged
<1> USE DEF Writes
<1>1. CASE \/ Kill \/ RewriteRunner \/ CheckP12 \/ IgnoreGenesis \/ WritePacket
           \/ RunMutation \/ PackageManifest \/ PackageBundle \/ WriteEvidence
  BY <1>1 DEF Kill, RewriteRunner, CheckP12, IgnoreGenesis, WritePacket, RunMutation,
              PackageManifest, PackageBundle, WriteEvidence
<1>2. CASE \/ VerifyClean \/ SoilCheckout \/ VerifyDirty \/ VerifyWithoutSecret
           \/ UpdatePlan
  BY <1>2 DEF VerifyClean, SoilCheckout, VerifyDirty, VerifyWithoutSecret, UpdatePlan
<1>3. CASE \/ CloneCell \/ FetchBranch \/ WriteArtifact \/ DiscardClone \/ ExportBundle
           \/ SealManifest \/ VerifyAndResurrect
  BY <1>3 DEF CloneCell, FetchBranch, WriteArtifact, DiscardClone, ExportBundle,
              SealManifest, VerifyAndResurrect
<1> QED
  BY <1>1, <1>2, <1>3, ByOp

(* A change of the index or of the commit comes from the tree. *)
LEMMA Committed ==
  ASSUME TypeOK, Next, NEW p \in Paths
  PROVE  /\ index'[p] \in {index[p], tree[p], committed[p]}
         /\ committed'[p] \in {committed[p], index[p], tree[p]}
         /\ \/ UNCHANGED <<head, committed>>
            \/ head' = head + 1 /\ (script = "idle" \/ Op \in {"commit", "try_commit"})
<1> USE TypeFacts
<1>1. CASE script = "idle"
  BY <1>1, ByIdle, StageFacts DEF Start, staged, DeveloperCommit, DeveloperRestore
<1>2. CASE GitAdd \/ GitCommit
  BY <1>2, StageFacts DEF GitAdd, GitCommit, At, Op
<1>3. CASE script # "idle" /\ ~GitAdd /\ ~GitCommit
  <2>1. UNCHANGED staged
    BY <1>3, NoGit
  <2> QED
    BY <2>1 DEF staged
<1> QED
  BY <1>1, <1>2, <1>3

-----------------------------------------------------------------------------
(* The invariant holds: types. *)

LEMMA ScriptTypeStep ==
  ASSUME TypeOK, Next
  PROVE  /\ script' \in Scripts \cup {"idle"}
         /\ IF script' = "idle" THEN step' = 0 ELSE step' \in 1..Len(Program[script'])
<1> USE TypeFacts
<1>1. script \in Scripts \cup {"idle"}
  BY DEF TypeOK
<1>2. CASE script' = "idle" /\ step' = 0
  BY <1>2
<1>3. CASE script' = script /\ step' = step + 1 /\ script # "idle" /\ step < Len(Program[script])
  <2>1. script \in Scripts /\ Len(Program[script]) \in Nat /\ step \in Nat
    BY <1>1, <1>3, ProgramLength
  <2>2. step + 1 \in 1 .. Len(Program[script])
    BY <1>3, <2>1
  <2> QED
    BY <1>3, <2>1, <2>2
<1>4. CASE script = "idle" /\ script' = script /\ step' = step
  BY <1>4
<1>5. CASE script' \in Scripts /\ step' = 1
  <2>1. 1 \in 1 .. Len(Program[script'])
    BY <1>5, ProgramLength
  <2> QED
    BY <1>5, <2>1, PathFacts
<1> QED
  BY <1>2, <1>3, <1>4, <1>5, Moves

LEMMA ContentFacts ==
  /\ Absent \in Contents
  /\ \A x \in Nat :
       {C("full", x), C("apply", x), C("report", x), C("genesis", x), C("packet", x),
        C("packaged", x), C("tools", x), C("uncommitted", x), C("exit0", x), C("exit1", x),
        C("dirty", x), C("clone", x), C("artifact", x), C("state", x), C("sealed", x),
        C("torn", x)} \subseteq Contents
  /\ \A t \in Statuses \cup {"other"} : C(t, 0) \in Contents
BY DEF Absent, C, Contents, Texts, Statuses

LEMMA TreeTypeStep ==
  ASSUME TypeOK, Next
  PROVE  tree' \in [Paths -> Contents]
<1> USE TypeFacts, ContentFacts
<1>1. ASSUME NEW A, NEW v \in Contents, tree' = Put(A, v) PROVE tree' \in [Paths -> Contents]
  BY <1>1, PutFacts
<1>2. CASE script = "idle"
  <2>1. CASE DeveloperRestore
    BY <2>1 DEF DeveloperRestore
  <2>2. CASE DeveloperCommit \/ \E x \in Scripts : Start(x)
    BY <2>2 DEF DeveloperCommit, Start
  <2> QED
    BY <1>2, <2>1, <2>2, ByIdle
<1>3. CASE Kill
  BY <1>1, <1>3 DEF Kill
<1>4. CASE RewriteRunner
  <2>1. NewRunner \in Contents
    <3>1. tree["runner"].at \in Nat
      BY PathFacts
    <3> QED
      BY <3>1 DEF NewRunner
  <2> QED
    BY <1>1, <1>4, <2>1 DEF RewriteRunner, Writes
<1>5. CASE IgnoreGenesis \/ SoilCheckout \/ WriteArtifact
  BY <1>1, <1>5 DEF IgnoreGenesis, SoilCheckout, WriteArtifact, Writes
<1>6. CASE PackageBundle
  <2>1. C(IF tree["runner"] = committed["runner"] THEN "tools" ELSE "uncommitted", head) \in Contents
    OBVIOUS
  <2> QED
    BY <1>1, <1>6, <2>1 DEF PackageBundle, Writes
<1>7. CASE WriteEvidence
  <2>1. C(IF exits["run"] = "zero" THEN "exit0" ELSE "exit1", source) \in Contents
    OBVIOUS
  <2> QED
    BY <1>1, <1>7, <2>1 DEF WriteEvidence, Writes
<1>8. CASE WritePacket \/ PackageManifest \/ VerifyDirty
  BY <1>1, <1>8 DEF WritePacket, PackageManifest, VerifyDirty
<1>9. CASE ExportBundle
  BY <1>1, <1>9 DEF ExportBundle
<1>10. CASE SealManifest
  <2>1. tree["bundle"].at \in Nat
    BY PathFacts
  <2> QED
    BY <1>1, <1>10, <2>1 DEF SealManifest
<1>11. CASE CloneCell \/ DiscardClone
  BY <1>1, <1>11 DEF CloneCell, DiscardClone
<1>12. CASE UpdatePlan
  <2>1. \A x : NewStatus(x) \in Statuses \cup {"other"}
    BY DEF NewStatus, Statuses
  <2>2. \A x : C(NewStatus(x), 0) \in Contents
    BY <2>1
  <2> QED
    BY <1>12, <2>2 DEF UpdatePlan
<1>13. CASE \/ CheckP12 \/ RunMutation \/ VerifyClean \/ VerifyWithoutSecret \/ GitAdd
            \/ GitCommit \/ FetchBranch \/ VerifyAndResurrect
  BY <1>13 DEF CheckP12, RunMutation, VerifyClean, VerifyWithoutSecret, GitAdd, GitCommit,
               FetchBranch, VerifyAndResurrect
<1> QED
  BY <1>2, <1>3, <1>4, <1>5, <1>6, <1>7, <1>8, <1>9, <1>10, <1>11, <1>12, <1>13, ByOp

LEMMA GitTypeStep ==
  ASSUME TypeOK, Next
  PROVE  /\ index' \in [Paths -> Contents] /\ committed' \in [Paths -> Contents]
         /\ head' \in Nat
<1> USE TypeFacts
<1>1. head' \in Nat
  <2>1. head' = head \/ head' = head + 1
    BY PathFacts, Committed
  <2> QED
    BY <2>1
<1>2. CASE script = "idle"
  BY <1>1, <1>2, ByIdle, StageFacts DEF Start, staged, DeveloperCommit, DeveloperRestore
<1>3. CASE GitAdd \/ GitCommit
  BY <1>1, <1>3, StageFacts DEF GitAdd, GitCommit
<1>4. CASE script # "idle" /\ ~GitAdd /\ ~GitCommit
  <2>1. UNCHANGED staged
    BY <1>4, NoGit
  <2> QED
    BY <1>1, <2>1 DEF staged
<1> QED
  BY <1>2, <1>3, <1>4

LEMMA TypeStep ==
  ASSUME TypeOK, ExportOK, Next
  PROVE  TypeOK'
<1> USE TypeFacts
<1>1. /\ tree' \in [Paths -> Contents] /\ index' \in [Paths -> Contents]
      /\ committed' \in [Paths -> Contents] /\ head' \in Nat
      /\ script' \in Scripts \cup {"idle"}
      /\ IF script' = "idle" THEN step' = 0 ELSE step' \in 1..Len(Program[script'])
  BY TreeTypeStep, GitTypeStep, ScriptTypeStep
<1> DEFINE Rest == /\ restored \in Contents /\ sealed \subseteq 1..exports
                   /\ branch \in [Cells -> Nat]
                   /\ exits \in [Checks -> {"none", "zero", "nonzero"}]
                   /\ {source, executed, exports} \subseteq Nat
                   /\ runs \in 0..MaxRuns /\ kills \in 0..MaxKills /\ tidyings \in 0..MaxTidyings
<1>2. Rest
  BY DEF TypeOK
<1>3. Rest'
  <2> USE BoundAssumption
  <2>1. CASE DeveloperCommit \/ DeveloperRestore
    <3>1. /\ tidyings < MaxTidyings /\ tidyings' = tidyings + 1
          /\ UNCHANGED <<facts, branch, exports, sealed, restored, runs, kills>>
      BY <2>1 DEF DeveloperCommit, DeveloperRestore
    <3>2. tidyings' \in 0..MaxTidyings
      BY <1>2, <3>1
    <3> QED
      BY <1>2, <3>1, <3>2 DEF facts
  <2>2. CASE \E x \in Scripts : Start(x)
    BY <1>2, <2>2 DEF Start
  <2>3. CASE Kill
    BY <1>2, <2>3 DEF Kill, facts
  <2>4. CASE \/ RewriteRunner \/ CheckP12 \/ IgnoreGenesis
             \/ PackageManifest \/ PackageBundle \/ WriteEvidence
             \/ SoilCheckout \/ UpdatePlan \/ GitAdd
             \/ GitCommit \/ CloneCell \/ WriteArtifact \/ DiscardClone
    BY <1>2, <2>4 DEF RewriteRunner, CheckP12, IgnoreGenesis, PackageManifest, PackageBundle,
         WriteEvidence, SoilCheckout, UpdatePlan, GitAdd, GitCommit, CloneCell, WriteArtifact,
         DiscardClone, Writes, facts, rest
  <2>5. CASE VerifyClean \/ VerifyDirty \/ VerifyWithoutSecret
    <3>1. CASE VerifyClean
      BY <1>2, <3>1 DEF VerifyClean, ExitOf, rest, Checks
    <3>2. CASE VerifyDirty
      BY <1>2, <3>2 DEF VerifyDirty, ExitOf, rest, Checks
    <3>3. CASE VerifyWithoutSecret
      BY <1>2, <3>3 DEF VerifyWithoutSecret, ExitOf, rest, Checks
    <3> QED
      BY <2>5, <3>1, <3>2, <3>3
  <2>6. CASE RunMutation
    BY <1>2, <2>6 DEF RunMutation, ExitOf, rest, Checks
  <2>7. CASE WritePacket
    BY <1>2, <2>7 DEF WritePacket, rest
  <2>8. CASE FetchBranch
    <3>1. \A c \in Cells : tree[Workspace[c]].at \in Nat
      BY PathFacts
    <3> QED
      BY <1>2, <2>8, <3>1 DEF FetchBranch, facts
  <2>9. CASE ExportBundle
    BY <1>2, <2>9 DEF ExportBundle, facts
  <2>10. CASE SealManifest
    <3>1. tree["bundle"].at \in 1..exports
      <4>1. script # "idle" /\ Op = "seal"
        BY <2>10 DEF SealManifest, At, Op
      <4>2. script = "export_state" /\ step = 2
        BY <4>1, Args
      <4>3. exports > 0 /\ tree["bundle"].at = exports
        BY <4>2 DEF ExportOK, C
      <4> QED
        BY <4>3
    <3> QED
      BY <1>2, <2>10, <3>1 DEF SealManifest, facts
  <2>11. CASE VerifyAndResurrect
    BY <1>2, <2>11, PathFacts DEF VerifyAndResurrect, facts
  <2> QED
    BY <2>1, <2>2, <2>3, <2>4, <2>5, <2>6, <2>7, <2>8, <2>9, <2>10, <2>11 DEF Next
<1> QED
  BY <1>1, <1>3 DEF TypeOK

-----------------------------------------------------------------------------
(* The invariant holds: what the texts say. *)

(* Who changes what, besides the tree and git. *)
LEMMA Kept ==
  ASSUME Next
  PROVE  /\ ExportBundle \/ exports' = exports
         /\ SealManifest \/ sealed' = sealed
         /\ VerifyAndResurrect \/ restored' = restored
         /\ FetchBranch \/ branch' = branch
         /\ WritePacket \/ source' = source
<1> USE DEF Writes, facts, rest
<1>1. CASE \/ RewriteRunner \/ CheckP12 \/ IgnoreGenesis \/ WritePacket
           \/ RunMutation \/ PackageManifest \/ PackageBundle \/ WriteEvidence
  BY <1>1 DEF RewriteRunner, CheckP12, IgnoreGenesis, WritePacket, RunMutation,
              PackageManifest, PackageBundle, WriteEvidence
<1>2. CASE \/ VerifyClean \/ SoilCheckout \/ VerifyDirty \/ VerifyWithoutSecret
           \/ UpdatePlan \/ GitAdd \/ GitCommit
  BY <1>2 DEF VerifyClean, SoilCheckout, VerifyDirty, VerifyWithoutSecret, UpdatePlan,
              GitAdd, GitCommit
<1>3. CASE \/ CloneCell \/ FetchBranch \/ WriteArtifact \/ DiscardClone \/ ExportBundle
           \/ SealManifest \/ VerifyAndResurrect
  BY <1>3 DEF CloneCell, FetchBranch, WriteArtifact, DiscardClone, ExportBundle,
              SealManifest, VerifyAndResurrect
<1>4. CASE Kill \/ DeveloperCommit \/ DeveloperRestore \/ \E x \in Scripts : Start(x)
  BY <1>4 DEF Kill, DeveloperCommit, DeveloperRestore, Start
<1> QED
  BY <1>1, <1>2, <1>3, <1>4 DEF Next

(* Which steps write the paths the invariant is about. *)
LEMMA WrittenBy ==
  ASSUME TypeOK, Next, NEW p \in Paths \ Workspaces, tree'[p] # tree[p], tree'[p] # committed[p]
  PROVE  /\ script # "idle"
         /\ p = "manifest" => PackageManifest \/ SealManifest
         /\ p = "packet" => WritePacket
         /\ p \in Cells => WriteArtifact /\ Arg = {p} /\ InCell(p, 3)
<1>1. /\ script # "idle" /\ p \in Arg /\ InScript
      /\ Op \in {"runner", "ignore", "packet", "manifest", "bundle", "evidence", "soil",
                 "dirty", "plan", "artifact", "export", "seal"}
  BY Written, TypeFacts
<1>2. ~Kill \/ Op \in {"bundle", "export"}
  BY DEF Kill, At, Op
<1>3. "manifest" \notin Cells /\ "packet" \notin Cells /\ Cells \cap Plan = {}
  BY DEF Cells, Plan
<1>4. CASE p = "manifest"
  <2>1. Op \in {"manifest", "seal"}
    BY <1>1, <1>3, <1>4, Args DEF CellOps, Plan
  <2> QED
    BY <1>1, <1>2, <1>3, <1>4, <2>1, ByOp
<1>5. CASE p = "packet"
  <2>1. Op = "packet"
    BY <1>1, <1>3, <1>5, Args DEF CellOps, Plan
  <2> QED
    BY <1>1, <1>2, <1>3, <1>5, <2>1, ByOp
<1>6. CASE p \in Cells
  <2>1. Op = "artifact" /\ Arg = {p} /\ InCell(p, 3)
    <3>1. Op = "artifact"
      BY <1>1, <1>6, Args DEF Cells, Plan
    <3> QED
      BY <1>1, <3>1, Args
  <2> QED
    BY <1>1, <1>2, <1>3, <1>6, <2>1, ByOp
<1> QED
  BY <1>1, <1>4, <1>5, <1>6

LEMMA ExportStep ==
  ASSUME TypeOK, ExportOK, Next
  PROVE  ExportOK'
<1> USE TypeFacts, PathFacts
<1>1. ASSUME script' = "export_state", step' = 2
      PROVE  exports' > 0 /\ tree'["bundle"] = C("state", exports')
  <2>1. script = "export_state" /\ step = 1 /\ script # "idle"
    BY <1>1, Moves
  <2>2. Op = "export" /\ Arg = {"bundle"}
    BY <2>1, ExportPlace
  <2>3. ExportBundle
    BY <1>1, <2>1, <2>2, ByOp DEF Kill, Stop
  <2> QED
    BY <2>2, <2>3, PutFacts DEF ExportBundle
<1>2. sealed \subseteq sealed'
  BY Kept DEF SealManifest
<1>3. ASSUME tree'["manifest"].text = "sealed"
      PROVE  tree'["manifest"].at \in sealed'
  <2>1. CASE tree'["manifest"] = tree["manifest"] \/ tree'["manifest"] = committed["manifest"]
    BY <1>2, <1>3, <2>1 DEF ExportOK, Images
  <2>2. CASE PackageManifest
    <3>1. tree' = tree \/ (tree' = Put(Arg, C("packaged", head)) /\ Arg = {"manifest"})
      <4>1. script # "idle" /\ Op = "manifest"
        BY <2>2 DEF PackageManifest, At, Op
      <4> QED
        BY <2>2, <4>1, Args DEF PackageManifest
    <3>2. tree'["manifest"] = tree["manifest"] \/ tree'["manifest"] = C("packaged", head)
      BY <3>1, PutFacts
    <3>3. C("packaged", head).text # "sealed"
      BY DEF C
    <3> QED
      BY <1>3, <2>1, <3>2, <3>3
  <2>3. CASE SealManifest
    <3>1. /\ tree' = Put(Arg, C("sealed", tree["bundle"].at)) /\ Arg = {"manifest"}
          /\ sealed' = sealed \cup {tree["bundle"].at}
      <4>1. script # "idle" /\ Op = "seal"
        BY <2>3 DEF SealManifest, At, Op
      <4> QED
        BY <2>3, <4>1, Args DEF SealManifest
    <3>2. tree'["manifest"] = C("sealed", tree["bundle"].at)
      BY <3>1, PutFacts
    <3> QED
      BY <3>1, <3>2 DEF C
  <2> QED
    BY <2>1, <2>2, <2>3, WrittenBy
<1>4. ASSUME NEW image \in {index', committed'}, image["manifest"].text = "sealed"
      PROVE  image["manifest"].at \in sealed'
  <2>1. image["manifest"] \in {index["manifest"], tree["manifest"], committed["manifest"]}
    BY Committed
  <2> QED
    BY <1>2, <1>4, <2>1 DEF ExportOK, Images
<1>5. RestoredWasSealed'
  <2>1. CASE restored' = restored
    BY <1>2, <2>1 DEF ExportOK, RestoredWasSealed
  <2>2. CASE VerifyAndResurrect /\ restored' # restored
    <3>1. restored' = tree["bundle"] /\ HashMatches
      BY <2>2 DEF VerifyAndResurrect
    <3>2. tree["manifest"].text = "sealed" /\ tree["manifest"].at = tree["bundle"].at
      BY <3>1 DEF HashMatches, C
    <3>3. tree["bundle"].at \in sealed
      BY <3>2 DEF ExportOK, Images
    <3> QED
      BY <1>2, <3>1, <3>3 DEF RestoredWasSealed, HashMatches
  <2> QED
    BY <2>1, <2>2, Kept
<1> QED
  BY <1>1, <1>3, <1>4, <1>5 DEF ExportOK, Images

(* A cell's gate goes on with its next step. *)
LEMMA CellMoves ==
  ASSUME TypeOK, Next, NEW c \in Cells
  PROVE  /\ InCell(c, 2)' => InCell(c, 1) /\ ~Kill
         /\ InCell(c, 3)' => InCell(c, 2) /\ ~Kill
         /\ InCell(c, 1) \/ InCell(c, 2) \/ InCell(c, 3) => script # "idle" /\ InScript
<1>1. Kill => script' = "idle"
  BY DEF Kill, Stop
<1>2. InCell(c, 1) \/ InCell(c, 2) \/ InCell(c, 3) => script # "idle" /\ InScript
  BY TypeFacts DEF InCell
<1>3. InCell(c, 2)' => InCell(c, 1)
  BY TypeFacts, Moves DEF InCell
<1>4. InCell(c, 3)' => InCell(c, 2)
  BY TypeFacts, Moves DEF InCell
<1>5. InCell(c, 2)' \/ InCell(c, 3)' => script' # "idle"
  BY DEF InCell
<1> QED
  BY <1>1, <1>2, <1>3, <1>4, <1>5

LEMMA CellsStep ==
  ASSUME TypeOK, CellsOK, Next
  PROVE  CellsOK'
<1> USE TypeFacts, PathFacts
<1> SUFFICES ASSUME NEW c \in Cells
             PROVE  /\ \A image \in Images' : image[c].at <= branch'[c]
                    /\ branch'[c] <= head'
                    /\ InCell(c, 2)' => tree'[Workspace[c]].at = head'
                    /\ InCell(c, 3)' => branch'[c] = head'
  BY DEF CellsOK
<1>1. head' = head \/ head' = head + 1
  BY Committed
<1>2. FetchBranch => script # "idle" /\ Op = "fetch" /\ head' = head
  BY DEF FetchBranch, At, Op, staged
<1>3. branch'[c] = branch[c] \/ (FetchBranch /\ InCell(c, 2) /\ branch'[c] = head)
  <2>1. CASE branch' = branch
    BY <2>1
  <2>2. CASE FetchBranch
    <3>1. PICK x \in Cells : Arg = {x} /\ InCell(x, 2)
      BY <1>2, <2>2, Args
    <3>2. CASE x = c
      <4>1. branch'[c] = tree[Workspace[c]].at
        BY <2>2, <3>1, <3>2 DEF FetchBranch
      <4> QED
        BY <2>2, <3>1, <3>2, <4>1 DEF CellsOK
    <3>3. CASE x # c
      BY <2>2, <3>1, <3>3 DEF FetchBranch
    <3> QED
      BY <3>2, <3>3
  <2> QED
    BY <2>1, <2>2, Kept
<1>4. branch[c] <= head /\ \A image \in Images : image[c].at <= branch[c]
  BY DEF CellsOK
<1>5. branch[c] <= branch'[c] /\ branch'[c] <= head' /\ branch'[c] \in Nat
  BY <1>1, <1>2, <1>3, <1>4
<1>6. index'[c].at <= branch'[c] /\ committed'[c].at <= branch'[c]
  <2>1. /\ index'[c] \in {index[c], tree[c], committed[c]}
        /\ committed'[c] \in {index[c], tree[c], committed[c]}
    BY Committed
  <2>2. /\ index[c].at <= branch'[c] /\ tree[c].at <= branch'[c] /\ committed[c].at <= branch'[c]
    BY <1>4, <1>5 DEF Images
  <2> QED
    BY <2>1, <2>2
<1>7. tree'[c].at <= branch'[c]
  <2>1. CASE tree'[c] = tree[c] \/ tree'[c] = committed[c]
    <3>1. tree[c].at <= branch'[c] /\ committed[c].at <= branch'[c]
      BY <1>4, <1>5 DEF Images
    <3> QED
      BY <2>1, <3>1
  <2>2. CASE WriteArtifact /\ Arg = {c} /\ InCell(c, 3)
    <3>1. tree'[c] = C("artifact", head)
      BY <2>2, PutFacts DEF WriteArtifact, Writes
    <3>2. branch[c] = head
      BY <2>2 DEF CellsOK
    <3> QED
      BY <1>5, <3>1, <3>2 DEF C
  <2>3. c \in Paths \ Workspaces
    OBVIOUS
  <2> QED
    BY <2>1, <2>2, <2>3, WrittenBy
<1>8. ASSUME InCell(c, 2)' PROVE tree'[Workspace[c]].at = head'
  <2>1. /\ InCell(c, 1) /\ ~Kill /\ script # "idle" /\ InScript
    BY <1>8, CellMoves
  <2>2. Op = "clone" /\ Arg = {c}
    BY <2>1, CellPlace
  <2>3. CloneCell
    BY <2>1, <2>2, ByOp
  <2>4. tree' = Put({Workspace[x] : x \in {c}}, C("clone", head)) /\ head' = head
    BY <2>2, <2>3 DEF CloneCell, staged
  <2>5. tree'[Workspace[c]] = C("clone", head)
    BY <2>4, PutFacts
  <2> QED
    BY <2>4, <2>5 DEF C
<1>9. ASSUME InCell(c, 3)' PROVE branch'[c] = head'
  <2>1. /\ InCell(c, 2) /\ ~Kill /\ script # "idle" /\ InScript
    BY <1>9, CellMoves
  <2>2. Op = "fetch" /\ Arg = {c}
    BY <2>1, CellPlace
  <2>3. FetchBranch
    BY <2>1, <2>2, ByOp
  <2>4. branch'[c] = tree[Workspace[c]].at
    BY <2>2, <2>3 DEF FetchBranch
  <2> QED
    BY <1>2, <2>1, <2>3, <2>4 DEF CellsOK
<1> QED
  BY <1>5, <1>6, <1>7, <1>8, <1>9 DEF Images

(* A script that writes its packet first never gets past its package step. *)
LEMMA PacketFirstStep ==
  ASSUME TypeOK, PacketOK, Next, script' \in {"fix_all_gates", "apply_fixes"}
  PROVE  step' <= 4 /\ (step' >= 3 => tree'["packet"] = C("packet", head'))
<1> USE TypeFacts, PathFacts
<1>1. script' # "idle"
  OBVIOUS
<1>2. CASE script = "idle" /\ script' \in Scripts /\ step' = 1
  BY <1>2
<1>3. CASE script' = script /\ step' = step + 1 /\ script # "idle"
  <2>1. InScript /\ script \in {"fix_all_gates", "apply_fixes"} /\ step <= 4 /\ step \in Nat
    BY <1>3 DEF PacketOK
  <2>2. ~Kill /\ ~Stop
    BY <1>1 DEF Kill, Stop
  <2>3. step \in {1, 2, 3, 4}
    BY <2>1 DEF InScript
  <2>4. CASE step = 1
    BY <1>3, <2>4
  <2>5. CASE step = 2
    <3>1. Op = "packet" /\ Arg = {"packet"}
      BY <2>1, <2>5, PacketPlace
    <3>2. WritePacket
      BY <1>3, <2>2, <3>1, ByOp
    <3>3. tree' = Put(Arg, C("packet", head)) /\ head' = head
      BY <3>2 DEF WritePacket, staged
    <3>4. tree'["packet"] = C("packet", head')
      BY <3>1, <3>3, PutFacts
    <3> QED
      BY <1>3, <2>5, <3>4
  <2>6. CASE step = 3
    <3>1. Op = "run"
      BY <2>1, <2>6, PacketPlace
    <3>2. RunMutation
      BY <1>3, <2>2, <3>1, ByOp
    <3>3. tree' = tree /\ head' = head
      BY <3>2 DEF RunMutation, staged
    <3>4. tree["packet"] = C("packet", head)
      BY <2>1, <2>6 DEF PacketOK
    <3> QED
      BY <1>3, <2>6, <3>3, <3>4
  <2>7. CASE step = 4
    <3>1. Op = "manifest"
      BY <2>1, <2>7, PacketPlace
    <3>2. PackageManifest
      BY <1>3, <2>2, <3>1, ByOp
    <3>3. tree["packet"].at = head /\ committed["packet"].at < head
      BY <2>1, <2>7 DEF PacketOK, C
    <3>4. tree["packet"] # committed["packet"]
      BY <3>3
    <3>5. Dirty
      BY <3>4, CleanFacts
    <3> QED
      BY <2>2, <3>2, <3>5 DEF PackageManifest
  <2> QED
    BY <2>3, <2>4, <2>5, <2>6, <2>7
<1> QED
  BY <1>1, <1>2, <1>3, Moves

LEMMA PacketStep ==
  ASSUME TypeOK, PacketOK, Next
  PROVE  PacketOK'
<1> USE TypeFacts, PathFacts
<1>1. /\ tree["packet"].at <= head /\ index["packet"].at <= head /\ committed["packet"].at < head
      /\ head \in Nat /\ tree["packet"].at \in Nat /\ index["packet"].at \in Nat
      /\ committed["packet"].at \in Nat
  BY DEF PacketOK
<1>2. head' = head \/ head' = head + 1
  BY Committed
<1>3. index'["packet"].at <= head'
  <2>1. index'["packet"] \in {index["packet"], tree["packet"], committed["packet"]}
    BY Committed
  <2>2. index'["packet"].at <= head
    BY <1>1, <2>1
  <2>3. index'["packet"].at \in Nat
    BY <1>1, <2>1
  <2> QED
    BY ONLY <1>1, <1>2, <2>2, <2>3
<1>4. committed'["packet"].at < head'
  <2>1. \/ head' = head /\ committed' = committed
        \/ head' = head + 1
    BY Committed
  <2>2. committed'["packet"] \in {index["packet"], tree["packet"], committed["packet"]}
    BY Committed
  <2>3. committed'["packet"].at \in Nat /\ committed'["packet"].at <= head
    BY <1>1, <2>2
  <2> QED
    BY ONLY <1>1, <2>1, <2>3
<1>5. tree'["packet"].at <= head'
  <2>1. CASE tree'["packet"] = tree["packet"] \/ tree'["packet"] = committed["packet"]
    <3>1. tree'["packet"].at <= head /\ tree'["packet"].at \in Nat
      BY <1>1, <2>1
    <3> QED
      BY ONLY <1>1, <1>2, <3>1
  <2>2. CASE WritePacket
    <3>1. tree' = Put(Arg, C("packet", head)) /\ head' = head
      BY <2>2 DEF WritePacket, staged
    <3>2. tree'["packet"] = tree["packet"] \/ tree'["packet"] = C("packet", head)
      BY <3>1, PutFacts
    <3> QED
      BY <1>1, <3>1, <3>2 DEF C
  <2>3. "packet" \in Paths \ Workspaces
    OBVIOUS
  <2> QED
    BY <2>1, <2>2, <2>3, WrittenBy
<1> QED
  BY <1>3, <1>4, <1>5, PacketFirstStep DEF PacketOK

(* A package goes on with its next step. *)
LEMMA PackageMoves ==
  ASSUME TypeOK, Next, NEW k \in 2 .. 5, InPackage(k)'
  PROVE  InPackage(k - 1) /\ script # "idle" /\ InScript /\ ~Kill /\ ~Stop
<1>1. script' # "idle" /\ step' # 1
  BY DEF InPackage
<1>2. ~Kill /\ ~Stop
  BY <1>1 DEF Kill, Stop
<1>3. script = script' /\ step' = step + 1 /\ script # "idle"
  <2>1. script = "idle" /\ script' = script => FALSE
    BY <1>1
  <2> QED
    BY <1>1, <2>1, Moves
<1>4. InPackage(k - 1)
  BY <1>3, TypeFacts DEF InPackage
<1> QED
  BY <1>2, <1>3, <1>4, TypeFacts

LEMMA PackageStep ==
  ASSUME TypeOK, PackageOK, Next
  PROVE  PackageOK'
<1> USE TypeFacts, PathFacts
<1> DEFINE Good(k) == /\ k = 2 => tree["runner"] = committed["runner"]
                      /\ k \in 2 .. 5 => tree["manifest"] = C("packaged", head)
                      /\ k \in 3 .. 5 => tree["bundle"] = C("tools", head)
                      /\ k \in 4 .. 5 => source = head
<1>1. ASSUME NEW k \in 2 .. 5, InPackage(k) PROVE Good(k)
  BY <1>1 DEF PackageOK
<1>2. ASSUME InPackage(2)' PROVE Good(2)'
  <2>1. InPackage(1) /\ InScript /\ script # "idle" /\ ~Kill /\ ~Stop
    <3>1. 2 \in 2 .. 5 /\ 2 - 1 = 1
      OBVIOUS
    <3> QED
      BY <1>2, <3>1, PackageMoves
  <2>2. Op = "manifest" /\ Arg = {"manifest"}
    BY <2>1, PackagePlace, Args
  <2>3. PackageManifest
    BY <2>1, <2>2, ByOp
  <2>4. /\ ~Dirty /\ tree' = Put(Arg, C("packaged", head))
        /\ head' = head /\ committed' = committed
    BY <2>1, <2>3 DEF PackageManifest, staged
  <2>5. tree["runner"] = committed["runner"]
    BY <2>4, CleanFacts
  <2>6. tree'["manifest"] = C("packaged", head) /\ tree'["runner"] = tree["runner"]
    BY <2>2, <2>4, PutFacts
  <2> QED
    BY <2>4, <2>5, <2>6
<1>3. ASSUME InPackage(3)' PROVE Good(3)'
  <2>1. InPackage(2) /\ InScript /\ script # "idle" /\ ~Kill
    <3>1. 3 \in 2 .. 5 /\ 3 - 1 = 2
      OBVIOUS
    <3> QED
      BY <1>3, <3>1, PackageMoves
  <2>2. Op = "bundle" /\ Arg = {"bundle"}
    BY <2>1, PackagePlace, Args
  <2>3. PackageBundle
    BY <2>1, <2>2, ByOp
  <2>4. tree["runner"] = committed["runner"] /\ tree["manifest"] = C("packaged", head)
    BY <1>1, <2>1
  <2>5. tree' = Put(Arg, C("tools", head)) /\ head' = head
    BY <2>3, <2>4 DEF PackageBundle, Writes, staged
  <2>6. tree'["bundle"] = C("tools", head) /\ tree'["manifest"] = tree["manifest"]
    BY <2>2, <2>5, PutFacts
  <2> QED
    BY <2>4, <2>5, <2>6
<1>4. ASSUME InPackage(4)' PROVE Good(4)'
  <2>1. InPackage(3) /\ InScript /\ script # "idle" /\ ~Kill
    <3>1. 4 \in 2 .. 5 /\ 4 - 1 = 3
      OBVIOUS
    <3> QED
      BY <1>4, <3>1, PackageMoves
  <2>2. Op = "packet" /\ Arg \in {{"packet"}, {"packet_a"}, {"packet_b"}}
    BY <2>1, PackagePlace, Args
  <2>3. WritePacket
    BY <2>1, <2>2, ByOp
  <2>4. tree["bundle"] = C("tools", head) /\ tree["manifest"] = C("packaged", head)
    BY <1>1, <2>1
  <2>5. tree' = Put(Arg, C("packet", head)) /\ head' = head /\ source' = head
    BY <2>3 DEF WritePacket, staged
  <2>6. tree'["bundle"] = tree["bundle"] /\ tree'["manifest"] = tree["manifest"]
    BY <2>2, <2>5, PutFacts
  <2> QED
    BY <2>4, <2>5, <2>6
<1>5. ASSUME InPackage(5)' PROVE Good(5)'
  <2>1. InPackage(4) /\ InScript /\ script # "idle" /\ ~Kill
    <3>1. 5 \in 2 .. 5 /\ 5 - 1 = 4
      OBVIOUS
    <3> QED
      BY <1>5, <3>1, PackageMoves
  <2>2. Op = "run"
    BY <2>1, PackagePlace
  <2>3. RunMutation
    BY <2>1, <2>2, ByOp
  <2>4. /\ tree["bundle"] = C("tools", head) /\ tree["manifest"] = C("packaged", head)
        /\ source = head
    BY <1>1, <2>1
  <2>5. tree' = tree /\ head' = head /\ source' = source
    BY <2>3 DEF RunMutation, staged
  <2> QED
    BY <2>4, <2>5
<1>6. ASSUME NEW k \in 2 .. 5, InPackage(k)' PROVE Good(k)'
  <2>1. k = 2 \/ k = 3 \/ k = 4 \/ k = 5
    OBVIOUS
  <2> QED
    BY <1>2, <1>3, <1>4, <1>5, <1>6, <2>1
<1> QED
  BY <1>6 DEF PackageOK

(* The runner has answered 0 only when it has executed the mutation. *)
LEMMA RanStep ==
  ASSUME TypeOK, RanOK, Next
  PROVE  RanOK'
<1> USE TypeFacts
<1>1. exits \in [Checks -> {"none", "zero", "nonzero"}]
  BY DEF TypeOK
<1>2. CASE \E x \in Scripts : Start(x)
  BY <1>2 DEF Start, RanOK, Checks
<1>3. CASE RunMutation
  <2>1. \/ executed' = executed + 1
        \/ exits' = [exits EXCEPT !["run"] = "nonzero"]
    BY <1>3 DEF RunMutation, ExitOf
  <2> QED
    BY <1>1, <2>1 DEF RanOK, Checks
<1>4. CASE VerifyClean \/ VerifyDirty \/ VerifyWithoutSecret
  <2>1. executed' = executed /\ exits'["run"] = exits["run"]
    BY <1>1, <1>4 DEF VerifyClean, VerifyDirty, VerifyWithoutSecret, Checks
  <2> QED
    BY <2>1 DEF RanOK
<1>5. CASE UNCHANGED <<exits, executed>>
  BY <1>5 DEF RanOK
<1>6. \/ \E x \in Scripts : Start(x)
      \/ RunMutation \/ VerifyClean \/ VerifyDirty \/ VerifyWithoutSecret
      \/ UNCHANGED <<exits, executed>>
  <2> USE DEF Writes, facts
  <2>1. CASE \/ RewriteRunner \/ CheckP12 \/ IgnoreGenesis \/ WritePacket
             \/ PackageManifest \/ PackageBundle \/ WriteEvidence
    BY <2>1 DEF RewriteRunner, CheckP12, IgnoreGenesis, WritePacket,
                PackageManifest, PackageBundle, WriteEvidence
  <2>2. CASE SoilCheckout \/ UpdatePlan \/ GitAdd \/ GitCommit \/ CloneCell \/ FetchBranch
    BY <2>2 DEF SoilCheckout, UpdatePlan, GitAdd, GitCommit, CloneCell, FetchBranch
  <2>3. CASE \/ WriteArtifact \/ DiscardClone \/ ExportBundle \/ SealManifest
             \/ VerifyAndResurrect \/ Kill \/ DeveloperCommit \/ DeveloperRestore
    BY <2>3 DEF WriteArtifact, DiscardClone, ExportBundle, SealManifest,
                VerifyAndResurrect, Kill, DeveloperCommit, DeveloperRestore
  <2> QED
    BY <2>1, <2>2, <2>3 DEF Next
<1> QED
  BY <1>2, <1>3, <1>4, <1>5, <1>6

-----------------------------------------------------------------------------
(* The invariant. *)

LEMMA InitInv == Init => ReleaseInv
<1> SUFFICES ASSUME Init PROVE ReleaseInv
  OBVIOUS
<1> USE PathFacts
<1>1. PICK known \in {{"P11"}, Plan} :
         tree = [p \in Paths |->
           CASE p \in Plan     -> C(IF p \in known THEN "COMPLETE" ELSE "other", 0)
             [] p \in Evidence -> C(IF p = "evidence" THEN "exit0" ELSE "artifact", 0)
             [] p \in {"packet_a", "packet_b"} -> C("packet", 0)
             [] p = "runner"    -> C("base", 1)
             [] p = "gitignore" -> C("plain", 0)
             [] OTHER           -> Absent]
  BY DEF Init
<1>2. /\ index = tree /\ committed = tree /\ head = 1
      /\ branch = [c \in Cells |-> 0]
      /\ script = "idle" /\ step = 0 /\ source = 0 /\ executed = 0
      /\ exits = [c \in Checks |-> "none"]
      /\ exports = 0 /\ sealed = {} /\ restored = Absent
      /\ runs = 0 /\ kills = 0 /\ tidyings = 0
  BY DEF Init
<1>3. ASSUME NEW p \in Paths
      PROVE  /\ tree[p] \in Contents
             /\ p # "runner" => tree[p].at = 0
             /\ tree[p].text # "sealed"
  <2>1. tree[p] \in {C("COMPLETE", 0), C("other", 0), C("exit0", 0), C("artifact", 0),
                     C("packet", 0), C("base", 1), C("plain", 0), Absent}
    BY <1>1
  <2>2. p # "runner" => tree[p] # C("base", 1)
    BY <1>1 DEF C, Absent
  <2> QED
    BY <2>1, <2>2 DEF C, Absent, Contents, Texts, Statuses
<1>4. TypeOK
  <2>1. tree \in [Paths -> Contents]
    BY <1>1, <1>3
  <2> QED
    BY <1>2, <2>1, ContentFacts, BoundAssumption DEF TypeOK
<1>5. ExportOK
  BY <1>2, <1>3 DEF ExportOK, Images, RestoredWasSealed
<1>6. CellsOK
  <2>1. \A c \in Cells : tree[c].at = 0
    BY <1>3 DEF Cells, Paths
  <2> QED
    BY <1>2, <2>1 DEF CellsOK, Images, InCell
<1>7. PacketOK
  <2>1. tree["packet"].at = 0
    BY <1>3
  <2> QED
    BY <1>2, <2>1 DEF PacketOK
<1>8. PackageOK
  BY <1>2 DEF PackageOK, InPackage
<1>9. RanOK
  BY <1>2 DEF RanOK, Checks
<1> QED
  BY <1>4, <1>5, <1>6, <1>7, <1>8, <1>9 DEF ReleaseInv

LEMMA StepInv == ReleaseInv /\ [Next]_vars => ReleaseInv'
<1> SUFFICES ASSUME ReleaseInv, [Next]_vars PROVE ReleaseInv'
  OBVIOUS
<1>1. CASE UNCHANGED vars
  <2> USE <1>1 DEF ReleaseInv, vars, staged, facts, rest
  <2>1. TypeOK'
    BY DEF TypeOK
  <2>2. ExportOK'
    BY DEF ExportOK, Images, RestoredWasSealed
  <2>3. CellsOK'
    BY DEF CellsOK, Images, InCell
  <2>4. PacketOK'
    BY DEF PacketOK
  <2>5. PackageOK'
    BY DEF PackageOK, InPackage
  <2>6. RanOK'
    BY DEF RanOK
  <2> QED
    BY <2>1, <2>2, <2>3, <2>4, <2>5, <2>6
<1>2. CASE Next
  BY <1>2, TypeStep, ExportStep, CellsStep, PacketStep, PackageStep, RanStep DEF ReleaseInv
<1> QED
  BY <1>1, <1>2

LEMMA ReleaseInvariant == Spec => []ReleaseInv
<1> QED
  BY InitInv, StepInv, PTL DEF Spec

-----------------------------------------------------------------------------
(* The theorems. *)

(* Every path of the checkout holds one of the texts the scripts write, in *)
(* the tree, in the index and in the commit, and a script is at one of its *)
(* steps.                                                                  *)
THEOREM ReleaseTypeCorrect == Spec => []TypeOK
<1>1. ReleaseInv => TypeOK
  BY DEF ReleaseInv
<1> QED
  BY <1>1, ReleaseInvariant, PTL

(* An artifact in the main checkout never names a parent commit that the   *)
(* branch of its cell has not reached: the branch is fetched first.        *)
THEOREM ArtifactBehindBranch == Spec => []ArtifactOnBranch
<1>1. ReleaseInv => ArtifactOnBranch
  BY DEF ReleaseInv, CellsOK, Images, ArtifactOnBranch
<1> QED
  BY <1>1, ReleaseInvariant, PTL

(* What has been resurrected is the state of a completed export.           *)
THEOREM OnlySealedIsRestored == Spec => []RestoredWasSealed
<1>1. ReleaseInv => RestoredWasSealed
  BY DEF ReleaseInv, ExportOK
<1> QED
  BY <1>1, ReleaseInvariant, PTL

(* COMPLETE is written for P11 only after a run in this execution, and for *)
(* P10 only when the three checks of the runner came out as they should.   *)
(* apply_fixes never gets to its plan: its package step ends it.           *)
THEOREM CompleteIsTrue == Spec => CompleteIsEarned
<1>1. ASSUME ReleaseInv, UpdatePlan, Next
      PROVE  /\ tree'["P11"].text = "COMPLETE" => executed > 0
             /\ tree'["P10"].text = "COMPLETE" => Passed("P10")
  <2> USE TypeFacts, PathFacts DEF ReleaseInv
  <2>1. script # "idle" /\ InScript /\ Op = "plan"
    BY <1>1 DEF UpdatePlan, At, Op
  <2>2. Arg = Plan
    BY <2>1, Args
  <2>3. script # "apply_fixes"
    <3>1. script = "apply_fixes" => step \in {1, 2, 3, 4}
      BY <1>1, <2>1 DEF PacketOK, InScript
    <3> QED
      BY <2>1, <3>1, PacketPlace
  <2>4. ASSUME NEW row \in {"P10", "P11"}, tree'[row].text = "COMPLETE"
        PROVE  Passed(row)
    <3>1. row \in Plan /\ row \in Paths /\ row \notin {"P12", "P13"}
      BY DEF Plan
    <3>2. tree'[row] = C(NewStatus(row), 0)
      BY <1>1, <2>2, <3>1 DEF UpdatePlan
    <3>3. NewStatus(row) = "COMPLETE"
      BY <2>4, <3>2 DEF C
    <3> QED
      BY <2>3, <3>1, <3>3 DEF NewStatus
  <2>5. Passed("P11") => executed > 0
    BY <1>1 DEF Passed, RanOK
  <2> QED
    BY <2>4, <2>5
<1>2. ReleaseInv /\ [Next]_vars
        => [UpdatePlan => /\ tree'["P11"].text = "COMPLETE" => executed > 0
                          /\ tree'["P10"].text = "COMPLETE" => Passed("P10")]_vars
  BY <1>1
<1> QED
  BY <1>2, ReleaseInvariant, PTL DEF Spec, CompleteIsEarned

(* Evidence names, as its source, the commit that its bundle and manifest  *)
(* were packaged at, from committed tools.                                 *)
THEOREM EvidenceIsOfItsBundle == Spec => EvidenceNamesItsBundle
<1>1. ASSUME ReleaseInv, WriteEvidence, Next
      PROVE  /\ tree["bundle"] = C("tools", tree'["evidence"].at)
             /\ tree["manifest"] = C("packaged", tree'["evidence"].at)
  <2> USE TypeFacts, PathFacts DEF ReleaseInv
  <2>1. script # "idle" /\ InScript /\ Op = "evidence"
    BY <1>1 DEF WriteEvidence, Writes, At, Op
  <2>2. Arg = {"evidence"}
    BY <2>1, Args
  <2>3. InPackage(5)
    <3>1. ~(script \in {"fix_all_gates", "apply_fixes"} /\ step > 4)
      BY <1>1 DEF PacketOK
    <3> QED
      BY <2>1, <3>1, Args
  <2>4. /\ tree["bundle"] = C("tools", head) /\ tree["manifest"] = C("packaged", head)
        /\ source = head
    BY <1>1, <2>3 DEF PackageOK
  <2>5. tree'["evidence"] = C(IF exits["run"] = "zero" THEN "exit0" ELSE "exit1", source)
    BY <1>1, <2>2, PutFacts DEF WriteEvidence, Writes
  <2>6. tree'["evidence"].at = source
    BY <2>5 DEF C
  <2> QED
    BY <2>4, <2>6
<1>2. ReleaseInv /\ [Next]_vars
        => [WriteEvidence => /\ tree["bundle"] = C("tools", tree'["evidence"].at)
                             /\ tree["manifest"] = C("packaged", tree'["evidence"].at)]_vars
  BY <1>1
<1> QED
  BY <1>2, ReleaseInvariant, PTL DEF Spec, EvidenceNamesItsBundle
=============================================================================
