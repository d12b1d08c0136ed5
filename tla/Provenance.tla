------------------------------ MODULE Provenance ------------------------------
(***************************************************************************)
(* DakotaSource and WheelSbom together: the jobs wheels-linux, wheels-macos *)
(* and sbom-scan of buildwheels.yml, in the runs of one branch, master or  *)
(* that of a pull request.  A leg's build repairs its wheel, which writes  *)
(* the SBOM; when all linux legs are done the job sbom-scan takes the      *)
(* first of their wheels.                                                  *)
(***************************************************************************)
EXTENDS DakotaSource, WheelSbom

CONSTANTS
  LinuxLeg,  \* the legs of wheels-linux; the others are those of wheels-macos
  ScanLeg    \* the leg whose wheel `ls dist/*.whl | head -1` names

ASSUME ScanLegAssumption == LinuxLeg \subseteq Leg /\ {GateLeg, ScanLeg} \subseteq LinuxLeg

VARIABLE pull   \* the branch is that of a pull request

provenanceVars == <<sourceVars, sbomVars, pull>>

(* What the legs of a run check out has the number of the run.  For a pull    *)
(* request that is a merge commit, and the head of its branch another commit. *)
ShaOf(r) == IF pull THEN MaxRuns + r ELSE r

Init == SourceInit /\ SbomInit /\ pull \in BOOLEAN

PushCancels(p, s) == Push(p, s) /\ Cancel /\ UNCHANGED pull

(* One run at a time: what a push cancelled ends before the next run begins.  *)
OwnTurn == job \notin {"cancelled", "over"}

BuildLeg(l) ==
  /\ OwnTurn
  /\ Build(l)
  /\ IF l = ScanLeg THEN Repair(run) ELSE UNCHANGED sbomVars
  /\ UNCHANGED pull

LegStep(l) == OwnTurn /\ SourceStep(l) /\ UNCHANGED <<sbomVars, pull>>

(* needs: wheels-linux.                                                       *)
WheelsLinuxPassed == \A l \in LinuxLeg : leg[l] = "done"

StartScan ==
  /\ WheelsLinuxPassed
  /\ StartJob(ShaOf(run))
  /\ UNCHANGED <<sourceVars, pull>>

(* Mutant: the branch is asked for its commit when the snapshot is submitted. *)
BugScanStep ==
  (Extract \/ Grype \/ Submit(ShaOf(run)) \/ Freed) /\ UNCHANGED <<sourceVars, pull>>

ScanStep == (Extract \/ Grype \/ Submit(names) \/ Freed) /\ UNCHANGED <<sourceVars, pull>>

EvictEntry(p) == Evict(p) /\ UNCHANGED <<sbomVars, pull>>

Next ==
  \/ \E p \in PatchSet, s \in Stub : PushCancels(p, s)
  \/ \E l \in Leg : LegStep(l) \/ BuildLeg(l)
  \/ \E p \in PatchSet : EvictEntry(p)
  \/ StartScan
  \/ ScanStep

Spec == Init /\ [][Next]_provenanceVars

(* The URLs under which augment_sbom.py may name the sources of a checkout.   *)
SourcesOf(r) ==
  {vendored_source_component(n, v, r).purl : n \in ToSet(Vendored), v \in View \ {"none"}}

(* The vendored sources that the dependency graph is told of for a commit are *)
(* those of the checkout that this commit's run built: the commit's own, for  *)
(* a pull request that of the merge with it, although a job that a push has   *)
(* cancelled submits all the same, while the branch is further on             *)
(* (buildwheels.yml L201-243).                                                *)
SnapshotOfCommit ==
  \A r \in 1 .. MaxRuns, e \in snapshot.resolved :
    e.purl \in SourcesOf(r) => snapshot.sha = ShaOf(r)
==============================================================================
