---------------------------- MODULE ReleaseGates ----------------------------
(***************************************************************************)
(* The release gates of the repository: the repair scripts fix_all_gates,  *)
(* apply_fixes_and_verify, run_all, fix_and_package, fix_and_report, the   *)
(* packet writer setup_p12, the gates tools/p12_gate and tools/p13_gate,   *)
(* tools/resurrection, and tools/cell_runner, which the scripts call.      *)
(*                                                                         *)
(* What they share is a git checkout: the working tree, the index and the  *)
(* commit at HEAD.  A script is a sequence of steps, one action per step;  *)
(* scripts run one at a time, any of them may be killed between two steps, *)
(* and a developer commits or discards what they leave behind.             *)
(***************************************************************************)
EXTENDS Naturals, Sequences

CONSTANTS
  MaxRuns,      (* bound: scripts started                                   *)
  MaxKills,     (* bound: scripts killed                                    *)
  MaxTidyings   (* bound: commits and restores made by the developer        *)

ASSUME BoundAssumption == MaxRuns \in Nat /\ MaxKills \in Nat /\ MaxTidyings \in Nat

(* What a path of the checkout holds: a text, and the commit (or, for an   *)
(* exported bundle, the export) the text names.                            *)
C(text, at) == [text |-> text, at |-> at]
Absent == C("absent", 0)

(* The rows of SOVEREIGN_SEED_MASTER_EXECUTION_PLAN.md are paths here, for *)
(* the scripts rewrite them one by one; they are staged together.          *)
Plan        == {"P10", "P11", "P12", "P13"}
Cells       == {"alpha", "beta", "p13"}
Workspace   == [alpha |-> "ws_alpha", beta |-> "ws_beta", p13 |-> "ws_p13"]
Workspaces  == {Workspace[c] : c \in Cells}
Tools       == {"runner"}
Experiments == {"packet", "packet_a", "packet_b"}
Evidence    == {"evidence"} \cup Cells
Genesis     == {"manifest", "bundle"}
Sentinels   == {"sentinel", "test_sentinel"}
Paths == Plan \cup Workspaces \cup Tools \cup Experiments \cup Evidence
              \cup Genesis \cup Sentinels \cup {"gitignore"}

Statuses == {"NOT_STARTED", "FAILED_GATE", "COMPLETE"}
Texts == Statuses \cup {"absent", "other", "plain", "genesis", "base", "full", "apply",
  "report", "packet", "exit0", "exit1", "artifact", "packaged", "sealed", "tools",
  "uncommitted", "state", "torn", "clone", "dirty"}
Checks == {"run", "clean", "dirty", "secret"}

(***************************************************************************)
(* The scripts.  A step is an operation and the paths it is about.         *)
(***************************************************************************)
GateChecks(sentinel) ==
  << <<"clean", {}>>, <<"soil", {sentinel}>>, <<"dirty", {sentinel}>>, <<"secret", {}>> >>
Package == << <<"manifest", {"manifest"}>>, <<"bundle", {"bundle"}>> >>
RealMutation == << <<"packet", {"packet"}>>, <<"run", {}>> >>
(* Mutant of CellRun: the artifact is published before its branch.         *)
CellRunPublishesFirst(c) ==
  << <<"clone", {c}>>, <<"artifact", {c}>>, <<"fetch", {c}>>, <<"discard", {c}>> >>

CellRun(c) == << <<"clone", {c}>>, <<"fetch", {c}>>, <<"artifact", {c}>>, <<"discard", {c}>> >>

FixAllGates ==
  << <<"runner", {"runner"}>> >> \o RealMutation \o Package \o << <<"evidence", {"evidence"}>> >>
  \o GateChecks("sentinel")
  \o << <<"plan", Plan>>, <<"add", Tools \cup Evidence \cup Experiments \cup Plan>>, <<"commit", {}>> >>

ApplyFixes ==
  << <<"runner", {"runner"}>> >> \o RealMutation \o Package
  \o << <<"evidence", {"evidence"}>>, <<"plan", Plan>> >> \o GateChecks("test_sentinel")
  \o << <<"add", {"runner", "evidence", "packet"} \cup Plan>>, <<"commit", {}>> >>

RunAll ==
  << <<"check_p12", {}>>, <<"ignore", {"gitignore"}>>, <<"add", {"gitignore"}>>, <<"try_commit", {}>> >>
  \o Package \o RealMutation \o << <<"evidence", {"evidence"}>> >> \o GateChecks("sentinel")
  \o << <<"plan", Plan>>, <<"add", Evidence \cup Experiments \cup Plan>>, <<"commit", {}>> >>

FixAndPackage ==
  << <<"add", Tools \cup Experiments>>, <<"try_commit", {}>> >>
  \o Package \o RealMutation \o << <<"evidence", {"evidence"}>> >> \o GateChecks("sentinel")
  \o << <<"plan", Plan>>, <<"add", Evidence \cup Plan>>, <<"commit", {}>> >>

FixAndReport ==
  << <<"runner", {"runner"}>> >> \o GateChecks("sentinel")
  \o << <<"run", {}>>, <<"plan", Plan>>, <<"add", Tools \cup Plan>>, <<"commit", {}>> >>

SetupP12 == << <<"packet", {"packet_a"}>>, <<"packet", {"packet_b"}>> >>
P12Gate  == CellRun("alpha") \o CellRun("beta")
P13Gate  == CellRun("p13")
ExportState == << <<"export", {"bundle"}>>, <<"seal", {"manifest"}>> >>
Resurrect   == << <<"resurrect", {}>> >>

Program == [
  fix_all_gates |-> FixAllGates,   apply_fixes    |-> ApplyFixes,
  run_all       |-> RunAll,        fix_and_package |-> FixAndPackage,
  fix_and_report |-> FixAndReport, setup_p12      |-> SetupP12,
  p12_gate      |-> P12Gate,       p13_gate       |-> P13Gate,
  export_state  |-> ExportState,   resurrect      |-> Resurrect]
Scripts == DOMAIN Program

VARIABLES
  tree,        (* the working tree                                          *)
  index,       (* what is staged                                            *)
  committed,   (* the tree of the commit at HEAD                            *)
  head,        (* HEAD: the number of commits                               *)
  branch,      (* the parent commit of the artifact on each cell's branch   *)
  script,      (* the script that runs, or "idle"                           *)
  step,        (* its next step                                             *)
  exits,       (* exit codes of the runner in this execution                *)
  source,      (* source_commit: HEAD as the execution has read it          *)
  executed,    (* history: executions of the packet's command by the runner *)
               (* in this execution of the script                           *)
  exports,     (* exports of resurrection.py                                *)
  sealed,      (* history: the exports whose manifest has been written      *)
  restored,    (* the bundle last extracted by resurrection.py              *)
  runs, kills, tidyings   (* how much of each bound is used                 *)

staged == <<index, committed, head>>
facts  == <<exits, source, executed>>
rest   == <<branch, exports, sealed, restored, runs, kills, tidyings>>
vars   == <<tree, staged, script, step, facts, rest>>

At(op) == script # "idle" /\ Program[script][step][1] = op
Arg == Program[script][step][2]

Put(paths, content) == [p \in Paths |-> IF p \in paths THEN content ELSE tree[p]]

(* git: what the ignore rule hides, and what "git status" would print.     *)
Ignored ==
  IF tree["gitignore"].text = "genesis" THEN {p \in Genesis : index[p] = Absent} ELSE {}
Dirty == \E p \in Paths \ Ignored : tree[p] # index[p] \/ index[p] # committed[p]

Stage(paths) == [p \in Paths |-> IF p \in paths THEN tree[p] ELSE index[p]]

Stop == script' = "idle" /\ step' = 0
Advance == IF step < Len(Program[script])
           THEN step' = step + 1 /\ UNCHANGED script
           ELSE Stop

Init ==
  /\ \E known \in {{"P11"}, Plan} :
       tree = [p \in Paths |->
         CASE p \in Plan     -> C(IF p \in known THEN "COMPLETE" ELSE "other", 0)
           [] p \in Evidence -> C(IF p = "evidence" THEN "exit0" ELSE "artifact", 0)
           [] p \in {"packet_a", "packet_b"} -> C("packet", 0)
           [] p = "runner"    -> C("base", 1)
           [] p = "gitignore" -> C("plain", 0)
           [] OTHER           -> Absent]
  /\ index = tree /\ committed = tree /\ head = 1
  /\ branch = [c \in Cells |-> 0]
  /\ script = "idle" /\ step = 0 /\ source = 0 /\ executed = 0
  /\ exits = [c \in Checks |-> "none"]
  /\ exports = 0 /\ sealed = {} /\ restored = Absent
  /\ runs = 0 /\ kills = 0 /\ tidyings = 0

(***************************************************************************)
(* Steps.                                                                  *)
(***************************************************************************)
Start(s) ==
  /\ script = "idle" /\ runs < MaxRuns
  /\ script' = s /\ step' = 1 /\ runs' = runs + 1
  /\ exits' = [c \in Checks |-> "none"] /\ executed' = 0
  /\ UNCHANGED <<tree, staged, source, branch, exports, sealed, restored, kills, tidyings>>

(* A step that only writes its paths.                                      *)
Writes(op, content) ==
  /\ At(op)
  /\ tree' = Put(Arg, content)
  /\ Advance
  /\ UNCHANGED <<staged, facts, rest>>

(* fix_all_gates replaces the whole runner; the others replace the body of *)
(* verify_clean_checkout and keep the line behind the last function, if it *)
(* is there (at = 1).                                                      *)
NewRunner ==
  CASE script = "fix_all_gates" -> C("full", 0)
    [] script = "apply_fixes"   -> C("apply", tree["runner"].at)
    [] OTHER                    -> C("report", tree["runner"].at)

RewriteRunner == Writes("runner", NewRunner)

(* run_all: the gate of P12 is tried before "subprocess" is imported; the  *)
(* NameError is swallowed and nothing runs.                                *)
CheckP12 == At("check_p12") /\ Advance /\ UNCHANGED <<tree, staged, facts, rest>>

IgnoreGenesis == Writes("ignore", C("genesis", 0))

(* Read HEAD into source_commit and write a packet signed for it.          *)
WritePacket ==
  /\ At("packet")
  /\ source' = head
  /\ tree' = Put(Arg, C("packet", head))
  /\ Advance
  /\ UNCHANGED <<staged, exits, executed, rest>>

ExitOf(ok) == IF ok THEN "zero" ELSE "nonzero"

(* cell_runner run: refused on a dirty checkout or without a packet.       *)
RunMutation ==
  /\ At("run")
  /\ LET ok == ~Dirty /\ tree["packet"] # Absent
     IN  /\ exits' = [exits EXCEPT !["run"] = ExitOf(ok)]
         /\ executed' = IF ok THEN executed + 1 ELSE executed
  /\ Advance
  /\ UNCHANGED <<tree, staged, source, rest>>

(* Mutant of PackageManifest: the result of the package is not looked at.  *)
PackageAnyway ==
  Writes("manifest", IF Dirty THEN tree["manifest"] ELSE C("packaged", head))

(* cell_runner package: the checkout is tested first, then the manifest is *)
(* written, then the bundle.  The callers run it with check=True.          *)
PackageManifest ==
  /\ At("manifest")
  /\ IF Dirty
     THEN Stop /\ UNCHANGED tree
     ELSE Advance /\ tree' = Put(Arg, C("packaged", head))
  /\ UNCHANGED <<staged, facts, rest>>

(* Mutant of PackageBundle: a bundle that is there is not built again.     *)
PackageBundleOnce ==
  Writes("bundle", IF tree["bundle"].text = "tools" THEN tree["bundle"] ELSE C("tools", head))

PackageBundle ==
  Writes("bundle", C(IF tree["runner"] = committed["runner"] THEN "tools" ELSE "uncommitted", head))

WriteEvidence ==
  Writes("evidence", C(IF exits["run"] = "zero" THEN "exit0" ELSE "exit1", source))

(* cell_runner verify: on the checkout as it is, with the sentinel in      *)
(* place (which is removed afterwards), and without the secret.            *)
VerifyClean ==
  /\ At("clean")
  /\ exits' = [exits EXCEPT !["clean"] = ExitOf(~Dirty)]
  /\ Advance
  /\ UNCHANGED <<tree, staged, source, executed, rest>>

SoilCheckout == Writes("soil", C("dirty", 0))

VerifyDirty ==
  /\ At("dirty")
  /\ exits' = [exits EXCEPT !["dirty"] = ExitOf(~Dirty)]
  /\ tree' = Put(Arg, Absent)
  /\ Advance
  /\ UNCHANGED <<staged, source, executed, rest>>

VerifyWithoutSecret ==
  /\ At("secret")
  /\ exits' = [exits EXCEPT !["secret"] = ExitOf(FALSE)]
  /\ Advance
  /\ UNCHANGED <<tree, staged, source, executed, rest>>

(* The rows of the plan.  Text no pattern of the scripts matches ("other") *)
(* stays.  apply_fixes writes COMPLETE whatever its checks have returned.  *)
Passed(row) ==
  IF row = "P11" THEN exits["run"] = "zero"
  ELSE exits["clean"] = "zero" /\ exits["dirty"] = "nonzero" /\ exits["secret"] = "nonzero"

NewStatus(row) ==
  CASE tree[row].text = "other" -> "other"
    [] tree[row].text # "other" /\ row \in {"P12", "P13"} -> "NOT_STARTED"
    [] OTHER -> IF script = "apply_fixes" \/ Passed(row) THEN "COMPLETE" ELSE "FAILED_GATE"

UpdatePlan ==
  /\ At("plan")
  /\ tree' = [p \in Paths |-> IF p \in Arg THEN C(NewStatus(p), 0) ELSE tree[p]]
  /\ Advance
  /\ UNCHANGED <<staged, facts, rest>>

GitAdd ==
  /\ At("add")
  /\ index' = Stage(Arg)
  /\ Advance
  /\ UNCHANGED <<tree, committed, head, facts, rest>>

(* git commit exits with 1 when nothing is staged: with check=True the     *)
(* script ends there, without it the script goes on.                       *)
GitCommit ==
  /\ At("commit") \/ At("try_commit")
  /\ committed' = index
  /\ head' = IF index = committed THEN head ELSE head + 1
  /\ IF index = committed /\ At("commit") THEN Stop ELSE Advance
  /\ UNCHANGED <<tree, index, facts, rest>>

(* The gates of P12 and P13, once per cell: a fresh clone of HEAD, a       *)
(* commit of the artifact there, a forced fetch of its branch, the same    *)
(* artifact in the main checkout, the clone removed.                       *)
CloneCell ==
  /\ At("clone")
  /\ tree' = Put({Workspace[c] : c \in Arg}, C("clone", head))
  /\ Advance
  /\ UNCHANGED <<staged, facts, rest>>

FetchBranch ==
  /\ At("fetch")
  /\ branch' = [c \in Cells |-> IF c \in Arg THEN tree[Workspace[c]].at ELSE branch[c]]
  /\ Advance
  /\ UNCHANGED <<tree, staged, facts, exports, sealed, restored, runs, kills, tidyings>>

WriteArtifact == Writes("artifact", C("artifact", head))

DiscardClone ==
  /\ At("discard")
  /\ tree' = Put({Workspace[c] : c \in Arg}, Absent)
  /\ Advance
  /\ UNCHANGED <<staged, facts, rest>>

(* tools/resurrection.py: the state is bundled, then the hash of the       *)
(* bundle is sealed in the manifest.                                       *)
ExportBundle ==
  /\ At("export")
  /\ exports' = exports + 1
  /\ tree' = Put(Arg, C("state", exports'))
  /\ Advance
  /\ UNCHANGED <<staged, facts, branch, sealed, restored, runs, kills, tidyings>>

SealManifest ==
  /\ At("seal")
  /\ tree' = Put(Arg, C("sealed", tree["bundle"].at))
  /\ sealed' = sealed \cup {tree["bundle"].at}
  /\ Advance
  /\ UNCHANGED <<staged, facts, branch, exports, restored, runs, kills, tidyings>>

(* Mutant of HashMatches: a sealed manifest is enough.                     *)
HashNotCompared == tree["manifest"].text = "sealed"

(* The manifest holds the hash of the bundle in the tree.                  *)
HashMatches ==
  tree["bundle"].text = "state" /\ tree["manifest"] = C("sealed", tree["bundle"].at)

VerifyAndResurrect ==
  /\ At("resurrect")
  /\ IF tree["bundle"] # Absent /\ tree["manifest"] # Absent /\ HashMatches
     THEN Advance /\ restored' = tree["bundle"]
     ELSE Stop /\ UNCHANGED restored
  /\ UNCHANGED <<tree, staged, facts, branch, exports, sealed, runs, kills, tidyings>>

(***************************************************************************)
(* The surroundings.                                                       *)
(***************************************************************************)
(* The script dies between two steps; a bundle that is being written is    *)
(* left truncated.                                                         *)
Kill ==
  /\ script # "idle" /\ kills < MaxKills
  /\ kills' = kills + 1
  /\ Stop
  /\ \/ UNCHANGED tree
     \/ /\ At("bundle") \/ At("export")
        /\ tree' = Put(Arg, C("torn", 0))
  /\ UNCHANGED <<staged, facts, branch, exports, sealed, restored, runs, tidyings>>

(* git add -A and git commit by the developer.                             *)
DeveloperCommit ==
  /\ script = "idle" /\ tidyings < MaxTidyings /\ Dirty
  /\ tidyings' = tidyings + 1
  /\ index' = Stage(Paths \ Ignored)
  /\ committed' = index' /\ head' = head + 1
  /\ UNCHANGED <<tree, script, step, facts, branch, exports, sealed, restored, runs, kills>>

(* git reset --hard and git clean -fd; clones are repositories of their    *)
(* own and stay.                                                           *)
DeveloperRestore ==
  /\ script = "idle" /\ tidyings < MaxTidyings /\ Dirty
  /\ tidyings' = tidyings + 1
  /\ index' = committed
  /\ tree' = [p \in Paths |-> IF p \in Ignored \cup Workspaces THEN tree[p] ELSE committed[p]]
  /\ UNCHANGED <<committed, head, script, step, facts, branch, exports, sealed, restored, runs, kills>>

Next ==
  \/ \E s \in Scripts : Start(s)
  \/ RewriteRunner \/ CheckP12 \/ IgnoreGenesis \/ WritePacket \/ RunMutation
  \/ PackageManifest \/ PackageBundle \/ WriteEvidence
  \/ VerifyClean \/ SoilCheckout \/ VerifyDirty \/ VerifyWithoutSecret
  \/ UpdatePlan \/ GitAdd \/ GitCommit
  \/ CloneCell \/ FetchBranch \/ WriteArtifact \/ DiscardClone
  \/ ExportBundle \/ SealManifest \/ VerifyAndResurrect
  \/ Kill \/ DeveloperCommit \/ DeveloperRestore

Spec == Init /\ [][Next]_vars

(***************************************************************************)
(* Properties.                                                             *)
(***************************************************************************)
Contents == [text : Texts, at : Nat]

(* Every path holds one of the texts the scripts write.                    *)
TypeOK ==
  /\ tree \in [Paths -> Contents] /\ index \in [Paths -> Contents]
  /\ committed \in [Paths -> Contents] /\ restored \in Contents
  /\ sealed \subseteq 1..exports
  /\ branch \in [Cells -> Nat] /\ exits \in [Checks -> {"none", "zero", "nonzero"}]
  /\ script \in Scripts \cup {"idle"}
  /\ IF script = "idle" THEN step = 0 ELSE step \in 1..Len(Program[script])
  /\ {head, source, executed, exports} \subseteq Nat
  /\ runs \in 0..MaxRuns /\ kills \in 0..MaxKills /\ tidyings \in 0..MaxTidyings

(* A script that has written the plan leaves P11 COMPLETE only when the    *)
(* runner has executed the mutation in this execution, and P10 COMPLETE    *)
(* only when the runner has accepted the clean checkout and refused the    *)
(* soiled one and the one without a secret.  apply_fixes writes COMPLETE   *)
(* without looking at its results, so this rests on its package step.      *)
CompleteIsEarned ==
  [][UpdatePlan => /\ tree'["P11"].text = "COMPLETE" => executed > 0
                   /\ tree'["P10"].text = "COMPLETE" => Passed("P10")]_vars

(* The resurrection evidence that is written names a bundle and a manifest *)
(* packaged, from committed tools, at the very commit it gives as source,  *)
(* never what an earlier script or an export left in genesis/.             *)
EvidenceNamesItsBundle ==
  [][WriteEvidence => /\ tree["bundle"] = C("tools", tree'["evidence"].at)
                      /\ tree["manifest"] = C("packaged", tree'["evidence"].at)]_vars

(* Whatever scripts are killed: an artifact in the main checkout never     *)
(* names a parent commit that the branch of its cell has not reached.      *)
ArtifactOnBranch == \A c \in Cells : tree[c].at <= branch[c]

(* What has been resurrected is the state of an export that was completed, *)
(* never a bundle of tools, a torn one, or one whose export was cut short. *)
RestoredWasSealed == restored # Absent => restored.text = "state" /\ restored.at \in sealed
=============================================================================
