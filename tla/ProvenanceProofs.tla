-------------------------- MODULE ProvenanceProofs ---------------------------
(***************************************************************************)
(* Proofs about DakotaSource, for any number of patches, patch sets, legs  *)
(* and pushes, and whichever patches are rejected; about Provenance, whose *)
(* steps are steps of DakotaSource or leave the sources alone, so that     *)
(* what is proved there holds here; and about WheelSbom, whose operators   *)
(* on SBOMs are followed for any SBOM that auditwheel may write.           *)
(***************************************************************************)
EXTENDS Provenance, TLAPS, SequenceTheorems, WellFoundedInduction

------------------------------------------------------------------------------
(* Trees *)

(* What the recipe leaves is a tree, and so is what it starts from; a tree    *)
(* that was never extracted has no CMakeLists.txt.                            *)
LEMMA TreeTypes ==
  /\ \A p \in PatchSet : Patched(p) \in Tree
  /\ PatchSet # {} => NoTree \in Tree
  /\ ~ HasCMakeLists(NoTree)
<1>1. ASSUME NEW p \in PatchSet
      PROVE  Patched(p) \in Tree
  BY DEF Patched, Tree
<1>2. ASSUME PatchSet # {}
      PROVE  NoTree \in Tree
  BY <1>2 DEF NoTree, Tree
<1>3. ~ HasCMakeLists(NoTree)
  BY DEF NoTree, HasCMakeLists
<1>. QED  BY <1>1, <1>2, <1>3

(* The values the variables take.                                             *)
THEOREM SourceTypeCorrect == SourceSpec => []SourceTypeOK
<1>1. SourceInit => SourceTypeOK
  <2>. SUFFICES ASSUME SourceInit
                PROVE  SourceTypeOK
    OBVIOUS
  <2>1. commit \in [patches : PatchSet, stub : Stub] /\ PatchSet # {}
    BY DEF SourceInit, Stub
  <2>2. run \in 0 .. MaxRuns
    BY SourceAssumptions DEF SourceInit, SourceAssumptions
  <2>. QED  BY <2>1, <2>2, TreeTypes DEF SourceInit, SourceTypeOK
<1>2. SourceTypeOK /\ [SourceNext]_sourceVars => SourceTypeOK'
  <2>. SUFFICES ASSUME SourceTypeOK, [SourceNext]_sourceVars
                PROVE  SourceTypeOK'
    OBVIOUS
  <2>. USE DEF SourceTypeOK
  <2>0. PatchSet # {} /\ commit.patches \in PatchSet
    OBVIOUS
  <2>1. ASSUME NEW p \in PatchSet, NEW s \in Stub, Push(p, s)
        PROVE  SourceTypeOK'
    <3>1. run' \in 0 .. MaxRuns
      BY <2>1, SourceAssumptions DEF Push
    <3>. QED  BY <2>0, <2>1, <3>1, TreeTypes DEF Push
  <2>2. ASSUME NEW l \in Leg, RestoreCache(l)
        PROVE  SourceTypeOK'
    BY <2>0, <2>2 DEF RestoreCache, Goes, Key
  <2>3. ASSUME NEW l \in Leg, GuardSkips(l)
        PROVE  SourceTypeOK'
    BY <2>3 DEF GuardSkips, Goes
  <2>4. ASSUME NEW l \in Leg, GetDakotaSrc(l)
        PROVE  SourceTypeOK'
    BY <2>0, <2>4, TreeTypes DEF GetDakotaSrc, Goes
  <2>5. ASSUME NEW l \in Leg, ExtractFails(l)
        PROVE  SourceTypeOK'
    <3>1. PICK f \in {"none", "part", "part_cmake"} :
            tree' = [tree EXCEPT ![l] = [of |-> commit.patches, files |-> f, applied |-> {}]]
      BY <2>5 DEF ExtractFails
    <3>2. [of |-> commit.patches, files |-> f, applied |-> {}] \in Tree
      BY <2>0 DEF Tree
    <3>. QED  BY <2>5, <3>1, <3>2 DEF ExtractFails, Goes
  <2>6. ASSUME NEW l \in Leg, Build(l)
        PROVE  SourceTypeOK'
    BY <2>6 DEF Build, Goes
  <2>7. ASSUME NEW l \in Leg, CheckStubs(l)
        PROVE  SourceTypeOK'
    BY <2>7 DEF CheckStubs, Goes
  <2>8. ASSUME NEW l \in Leg, SaveCache(l)
        PROVE  SourceTypeOK'
    BY <2>0, <2>8 DEF SaveCache, Goes, Key
  <2>9. ASSUME NEW p \in PatchSet, Evict(p)
        PROVE  SourceTypeOK'
    BY <2>0, <2>9, TreeTypes DEF Evict
  <2>10. CASE UNCHANGED sourceVars
    BY <2>10 DEF sourceVars
  <2>. QED  BY <2>1, <2>2, <2>3, <2>4, <2>5, <2>6, <2>7, <2>8, <2>9, <2>10
            DEF SourceNext, SourceStep
<1>. QED  BY <1>1, <1>2, PTL DEF SourceSpec

------------------------------------------------------------------------------
(* The invariant *)

(* t is what the recipe makes of patch set p, with an exit status of 0.       *)
Good(t, p) == t = Patched(p) /\ NPatch \in t.applied

(* Nothing but a good tree of its own patch set is under a key, so that what  *)
(* the guard lets pass, which looks at one file, is a good tree too.          *)
CacheGood == \A p \in PatchSet : cache[p] = NoTree \/ Good(cache[p], p)

RestoredGood ==
  \A l \in Leg : leg[l] = "guard" => tree[l] = NoTree \/ Good(tree[l], commit.patches)

BuiltGood ==
  \A l \in Leg :
    leg[l] \in {"build", "stubs", "post", "done"} => Good(tree[l], commit.patches)

(* The leg with the gate is past it only with the right stub.                 *)
GatePassed ==
  leg[GateLeg] \in {"post", "done"} => commit.stub = Normalized(RawStub(tree[GateLeg]))

SourceInv == CacheGood /\ RestoredGood /\ BuiltGood /\ GatePassed

(* SourceInv is an invariant: every way into the cache leads through a build  *)
(* of a good tree, and a push takes the trees away with the commit.           *)
THEOREM SourceInvariant == SourceSpec => []SourceInv
<1>1. SourceInit => SourceInv
  BY SourceAssumptions
     DEF SourceInit, SourceInv, CacheGood, RestoredGood, BuiltGood, GatePassed
<1>2. SourceTypeOK /\ SourceInv /\ [SourceNext]_sourceVars => SourceInv'
  <2>. SUFFICES ASSUME SourceTypeOK, SourceInv, [SourceNext]_sourceVars
                PROVE  SourceInv'
    OBVIOUS
  <2>. USE DEF SourceInv
  <2>0. /\ commit.patches \in PatchSet /\ GateLeg \in Leg
        /\ leg \in [Leg -> {"idle", "cache", "guard", "build", "stubs", "post", "done",
                          "failed"}]
        /\ tree \in [Leg -> Tree] /\ cache \in [PatchSet -> Tree]
    BY SourceAssumptions DEF SourceTypeOK
  <2>1. ASSUME NEW p \in PatchSet, NEW s \in Stub, Push(p, s)
        PROVE  SourceInv'
    BY <2>0, <2>1 DEF Push, CacheGood, RestoredGood, BuiltGood, GatePassed
  <2>2. ASSUME NEW l \in Leg, RestoreCache(l)
        PROVE  SourceInv'
    <3>1. /\ leg' = [leg EXCEPT ![l] = "guard"]
          /\ tree' = [tree EXCEPT ![l] = cache[commit.patches]]
          /\ UNCHANGED <<commit, cache>>
      BY <2>2 DEF RestoreCache, Goes, Key
    <3>. QED  BY <2>0, <3>1 DEF CacheGood, RestoredGood, BuiltGood, GatePassed
  <2>3. ASSUME NEW l \in Leg, GuardSkips(l)
        PROVE  SourceInv'
    <3>1. Good(tree[l], commit.patches)
      BY <2>3, TreeTypes DEF GuardSkips, Goes, RestoredGood
    <3>. QED  BY <2>0, <2>3, <3>1
              DEF GuardSkips, Goes, CacheGood, RestoredGood, BuiltGood, GatePassed
  <2>4. ASSUME NEW l \in Leg, GetDakotaSrc(l)
        PROVE  SourceInv'
    <3>1. RecipeSucceeds(commit.patches) => Good(Patched(commit.patches), commit.patches)
      BY SourceAssumptions DEF RecipeSucceeds, Good, Patched, Patch
    <3>. QED  BY <2>0, <2>4, <3>1
              DEF GetDakotaSrc, Goes, CacheGood, RestoredGood, BuiltGood, GatePassed
  <2>5. ASSUME NEW l \in Leg, ExtractFails(l)
        PROVE  SourceInv'
    <3>1. /\ leg' = [leg EXCEPT ![l] = "failed"]
          /\ \A k \in Leg \ {l} : tree'[k] = tree[k]
          /\ UNCHANGED <<commit, cache>>
      BY <2>0, <2>5 DEF ExtractFails, Goes
    <3>. QED  BY <2>0, <3>1 DEF CacheGood, RestoredGood, BuiltGood, GatePassed
  <2>6. ASSUME NEW l \in Leg, Build(l)
        PROVE  SourceInv'
    BY <2>0, <2>6 DEF Build, Goes, CacheGood, RestoredGood, BuiltGood, GatePassed
  <2>7. ASSUME NEW l \in Leg, CheckStubs(l)
        PROVE  SourceInv'
    BY <2>0, <2>7 DEF CheckStubs, Goes, CacheGood, RestoredGood, BuiltGood, GatePassed
  <2>8. ASSUME NEW l \in Leg, SaveCache(l)
        PROVE  SourceInv'
    <3>1. Good(tree[l], commit.patches)
      BY <2>8 DEF SaveCache, Goes, BuiltGood
    <3>2. CacheGood'
      BY <2>0, <2>8, <3>1 DEF SaveCache, Key, CacheGood
    <3>. QED  BY <2>0, <2>8, <3>2
              DEF SaveCache, Goes, RestoredGood, BuiltGood, GatePassed
  <2>9. ASSUME NEW p \in PatchSet, Evict(p)
        PROVE  SourceInv'
    BY <2>0, <2>9 DEF Evict, CacheGood, RestoredGood, BuiltGood, GatePassed
  <2>10. CASE UNCHANGED sourceVars
    BY <2>10 DEF sourceVars, CacheGood, RestoredGood, BuiltGood, GatePassed
  <2>. QED  BY <2>1, <2>2, <2>3, <2>4, <2>5, <2>6, <2>7, <2>8, <2>9, <2>10
            DEF SourceNext, SourceStep
<1>. QED  BY <1>1, <1>2, SourceTypeCorrect, PTL DEF SourceSpec

------------------------------------------------------------------------------
(* What follows from it *)

(* Every leg compiles the patched tree of its own commit.                     *)
THEOREM LegsCompileTheirCommit == SourceSpec => []TreeOfCommit
<1>1. SourceInv => TreeOfCommit
  BY DEF SourceInv, BuiltGood, Good, TreeOfCommit
<1>. QED  BY <1>1, SourceInvariant, PTL

(* One leg's look at the stub is enough for all: they built the same tree.    *)
THEOREM OneGateIsEnough == SourceSpec => []StubGate
<1>1. SourceInv => StubGate
  <2>. SUFFICES ASSUME SourceInv, \A l \in Leg : leg[l] = "done", NEW l \in Leg
                PROVE  commit.stub = Normalized(RawStub(tree[l]))
    BY DEF StubGate
  <2>1. tree[l] = tree[GateLeg]
    BY SourceAssumptions DEF SourceInv, BuiltGood, Good
  <2>2. commit.stub = Normalized(RawStub(tree[GateLeg]))
    BY SourceAssumptions DEF SourceInv, GatePassed
  <2>. QED  BY <2>1, <2>2
<1>. QED  BY <1>1, SourceInvariant, PTL

------------------------------------------------------------------------------
(* The workflow *)

(* The composition adds nothing to what happens to the sources.               *)
THEOREM ComposesSource == Spec => SourceSpec
<1>1. Init => SourceInit
  BY DEF Init
<1>2. [Next]_provenanceVars => [SourceNext]_sourceVars
  <2>. SUFFICES ASSUME [Next]_provenanceVars
                PROVE  [SourceNext]_sourceVars
    OBVIOUS
  <2>1. ASSUME NEW p \in PatchSet, NEW s \in Stub, PushCancels(p, s)
        PROVE  SourceNext
    BY <2>1 DEF PushCancels, SourceNext
  <2>2. ASSUME NEW l \in Leg, LegStep(l) \/ BuildLeg(l)
        PROVE  SourceNext
    BY <2>2 DEF LegStep, BuildLeg, SourceNext
  <2>3. ASSUME NEW p \in PatchSet, EvictEntry(p)
        PROVE  SourceNext
    BY <2>3 DEF EvictEntry, SourceNext
  <2>4. CASE StartScan \/ ScanStep
    BY <2>4 DEF StartScan, ScanStep
  <2>5. CASE UNCHANGED provenanceVars
    BY <2>5 DEF provenanceVars
  <2>. QED  BY <2>1, <2>2, <2>3, <2>4, <2>5 DEF Next
<1>. QED  BY <1>1, <1>2, PTL DEF Spec, SourceSpec

(* Every leg of the composed system compiles the tree of its own commit.      *)
THEOREM WheelsOfCommit == Spec => []TreeOfCommit
  BY ComposesSource, LegsCompileTheirCommit, PTL

(* No wheel of the composed system is done with a stale stub.                 *)
THEOREM StubsOfWheels == Spec => []StubGate
  BY ComposesSource, OneGateIsEnough, PTL

------------------------------------------------------------------------------

(* Where a job that was not cancelled is after it started.                    *)
Running == {"extract", "grype", "submit", "submit_failed"}

(* The job sbom-scan runs only when the linux legs are done and names the     *)
(* commit whose wheel it has, which is of this run from the build of ScanLeg  *)
(* on; a cancelled one keeps the next run from its turn.  The commits that    *)
(* are submitted are numbered upwards, so that what the graph has is not this *)
(* job's before it submits.                                                   *)
ScanInv ==
  /\ job \in {"wait", "passed", "failed", "cancelled", "over"} \cup Running
  /\ describes \in Nat /\ snapshot.sha \in Nat
  /\ leg[ScanLeg] # "idle" => run > 0
  /\ leg[ScanLeg] \in {"stubs", "post", "done"} => describes = run
  /\ IF job = "wait" THEN names = 0 ELSE names = ShaOf(describes) /\ describes > 0
  /\ job \in {"passed", "failed"} \cup Running => WheelsLinuxPassed
  /\ job \in {"cancelled", "over"} =>
       describes < run /\ \A l \in Leg : leg[l] = "cache"
  /\ IF job = "wait" THEN snapshot.sha = 0 \/ snapshot.sha < ShaOf(run)
     ELSE snapshot.sha <= names
  /\ job \in {"cancelled"} \cup Running => snapshot.sha < names

(* ScanInv is an invariant: no step but a push leads a leg out of "done", and *)
(* what a push cancels submits what it started with.                          *)
THEOREM ScanInvariant == Spec => []ScanInv
<1>1. Init => ScanInv
  BY ScanLegAssumption DEF Init, SourceInit, SbomInit, ScanInv, NoSnapshot, Running
<1>2. SourceTypeOK /\ ScanInv /\ [Next]_provenanceVars => ScanInv'
  <2>. SUFFICES ASSUME SourceTypeOK, ScanInv, [Next]_provenanceVars
                PROVE  ScanInv'
    OBVIOUS
  <2>0. /\ leg \in [Leg -> {"idle", "cache", "guard", "build", "stubs", "post", "done",
                            "failed"}]
        /\ run \in Nat /\ MaxRuns \in Nat
        /\ LinuxLeg \subseteq Leg /\ ScanLeg \in LinuxLeg /\ ScanLeg \in Leg
    BY SourceAssumptions, ScanLegAssumption DEF SourceTypeOK, SourceAssumptions
  <2>1. ASSUME NEW p \in PatchSet, NEW s \in Stub, PushCancels(p, s)
        PROVE  ScanInv'
    <3>1. /\ run' = run + 1 /\ leg' = [l \in Leg |-> "cache"] /\ pull' = pull
          /\ snapshot' = snapshot
      BY <2>1 DEF PushCancels, Push, Cancel, Clear, sbomVars
    <3>2. /\ \A l \in Leg : leg'[l] = "cache"
          /\ run' \in Nat /\ run' > run
      BY <2>0, <3>1
    <3>3. ShaOf(run)' = ShaOf(run) + 1
      BY <2>0, <3>1 DEF ShaOf
    <3>4. CASE job \in {"wait", "passed", "failed"}
      <4>1. job' = "wait" /\ describes' = 0 /\ names' = 0
        BY <2>1, <3>4 DEF PushCancels, Cancel, Clear, Running
      <4>2. snapshot.sha = 0 \/ snapshot.sha < ShaOf(run)'
        <5>1. CASE job = "wait"
          BY <2>0, <3>3, <5>1 DEF ScanInv, ShaOf
        <5>2. CASE job # "wait"
          <6>1. describes = run
            BY <2>0, <3>4, <5>2 DEF ScanInv, WheelsLinuxPassed
          <6>2. snapshot.sha <= ShaOf(run)
            BY <5>2, <6>1 DEF ScanInv
          <6>. QED  BY <2>0, <3>3, <6>2 DEF ScanInv, ShaOf
        <5>. QED  BY <5>1, <5>2
      <4>. QED  BY <2>0, <3>1, <3>2, <4>1, <4>2 DEF ScanInv, Running
    <3>5. CASE job \in {"cancelled", "over"} \cup Running
      <4>1. /\ job' \in {"cancelled", "over"} /\ (job' = "over" <=> job = "over")
            /\ UNCHANGED <<describes, names>>
        BY <2>1, <3>5 DEF PushCancels, Cancel, Clear, Running, sbomVars, wheelVars
      <4>2. describes <= run
        BY <2>0, <3>5 DEF ScanInv, WheelsLinuxPassed, Running
      <4>3. names' = ShaOf(describes)'
        BY <3>1, <3>5, <4>1 DEF ScanInv, ShaOf, Running
      <4>4. job' = "cancelled" => snapshot.sha < names
        BY <3>5, <4>1 DEF ScanInv
      <4>. QED  BY <2>0, <3>1, <3>2, <3>5, <4>1, <4>2, <4>3, <4>4 DEF ScanInv, Running
    <3>. QED  BY <3>4, <3>5 DEF ScanInv
  <2>2. ASSUME NEW l \in Leg, LegStep(l)
        PROVE  ScanInv'
    <3>1. /\ leg[l] \notin {"idle", "done"} /\ job \notin {"cancelled", "over"}
          /\ UNCHANGED <<run, pull, describes, names, snapshot, job>>
      BY <2>2 DEF LegStep, OwnTurn, SourceStep, RestoreCache, GuardSkips, GetDakotaSrc,
                  ExtractFails, CheckStubs, SaveCache, Goes, sbomVars, wheelVars
    <3>2. /\ \A k \in Leg \ {l} : leg'[k] = leg[k]
          /\ leg'[l] \in {"stubs", "post", "done"} => leg[l] \in {"stubs", "post"}
      BY <2>0, <2>2 DEF LegStep, SourceStep, RestoreCache, GuardSkips, GetDakotaSrc,
                  ExtractFails, CheckStubs, SaveCache, Goes
    <3>3. WheelsLinuxPassed => WheelsLinuxPassed'
      BY <2>0, <3>1, <3>2 DEF WheelsLinuxPassed
    <3>4. ShaOf(run)' = ShaOf(run) /\ ShaOf(describes)' = ShaOf(describes)
      BY <3>1 DEF ShaOf
    <3>. QED  BY <2>0, <3>1, <3>2, <3>3, <3>4 DEF ScanInv, Running
  <2>3. ASSUME NEW l \in Leg, BuildLeg(l)
        PROVE  ScanInv'
    <3>1. /\ leg[l] = "build" /\ run' = run /\ pull' = pull
          /\ \A k \in Leg \ {l} : leg'[k] = leg[k]
          /\ UNCHANGED <<names, snapshot, job>> /\ job \notin {"cancelled", "over"}
      BY <2>0, <2>3 DEF BuildLeg, OwnTurn, Build, Goes, Repair, sbomVars
    <3>2. WheelsLinuxPassed => WheelsLinuxPassed' /\ l \notin LinuxLeg
      BY <2>0, <3>1 DEF WheelsLinuxPassed
    <3>3. \/ l = ScanLeg /\ describes' = run
          \/ l # ScanLeg /\ UNCHANGED describes
      BY <2>3 DEF BuildLeg, Repair, sbomVars, wheelVars
    <3>4. ShaOf(run)' = ShaOf(run) /\ (describes' = describes => ShaOf(describes)' = ShaOf(describes))
      BY <3>1 DEF ShaOf
    <3>. QED  BY <2>0, <3>1, <3>2, <3>3, <3>4 DEF ScanInv, Running
  <2>4. ASSUME NEW p \in PatchSet, EvictEntry(p)
        PROVE  ScanInv'
    BY <2>4 DEF EvictEntry, Evict, sbomVars, wheelVars, ScanInv, WheelsLinuxPassed, ShaOf
  <2>5. CASE StartScan
    <3>1. /\ job = "wait" /\ job' = "extract" /\ names' = ShaOf(run) /\ WheelsLinuxPassed
          /\ UNCHANGED <<leg, run, pull, describes, snapshot>>
      BY <2>5 DEF StartScan, StartJob, sourceVars, wheelVars
    <3>2. describes = run /\ run > 0
      BY <2>0, <3>1 DEF ScanInv, WheelsLinuxPassed
    <3>3. snapshot.sha < ShaOf(run)
      BY <2>0, <3>1, <3>2 DEF ScanInv, ShaOf
    <3>. QED  BY <2>0, <3>1, <3>2, <3>3 DEF ScanInv, Running, ShaOf, WheelsLinuxPassed
  <2>6. CASE ScanStep
    <3>0. UNCHANGED <<leg, run, pull>>
      BY <2>6 DEF ScanStep, sourceVars
    <3>. USE DEF ScanInv, Running, ShaOf, WheelsLinuxPassed
    <3>1. CASE Extract
      BY <3>0, <3>1 DEF Extract, wheelVars
    <3>2. CASE Grype
      BY <3>0, <3>2 DEF Grype, wheelVars
    <3>3. CASE Submit(names)
      <4>1. /\ job \in {"submit", "submit_failed", "cancelled"}
            /\ job' \in {"passed", "failed", "over"} /\ (job' = "over" <=> job = "cancelled")
            /\ UNCHANGED <<describes, names>>
        BY <3>3 DEF Submit, wheelVars
      <4>2. snapshot' = snapshot \/ snapshot'.sha = names
        BY <3>3 DEF Submit
      <4>3. names \in Nat /\ snapshot'.sha \in Nat /\ snapshot'.sha <= names
        BY <2>0, <4>1, <4>2
      <4>. QED  BY <3>0, <4>1, <4>3
    <3>4. CASE Freed
      <4>1. job = "over" /\ job' = "wait" /\ names' = 0 /\ describes' = 0 /\ snapshot' = snapshot
        BY <3>4 DEF Freed, Clear
      <4>2. snapshot.sha < ShaOf(run)
        BY <2>0, <4>1
      <4>. QED  BY <2>0, <3>0, <4>1, <4>2
    <3>. QED  BY <2>6, <3>1, <3>2, <3>3, <3>4 DEF ScanStep
  <2>7. CASE UNCHANGED provenanceVars
    BY <2>7 DEF provenanceVars, sourceVars, sbomVars, wheelVars, ScanInv, WheelsLinuxPassed, ShaOf
  <2>. QED  BY <2>1, <2>2, <2>3, <2>4, <2>5, <2>6, <2>7 DEF Next
<1>. QED  BY <1>1, <1>2, ComposesSource, SourceTypeCorrect, PTL DEF Spec

------------------------------------------------------------------------------
(* Lists *)

(* Induction along a list, on the set of places up to which something holds.  *)
LEMMA Along ==
  ASSUME NEW n \in Nat, NEW P, 0 \in P, \A i \in 1 .. n : i - 1 \in P => i \in P
  PROVE  0 .. n \subseteq P
<1>. DEFINE T == (0 .. n) \ P
            R == OpToRel(<, Nat)
<1>1. SUFFICES ASSUME T # {}
               PROVE  FALSE
  OBVIOUS
<1>2. T \in SUBSET Nat /\ T # {}
  BY <1>1
<1>3. IsWellFoundedOn(R, Nat)
  BY NatLessThanWellFounded
<1>4. PICK x \in T : \A y \in T : <<y, x>> \notin R
  <2>. HIDE DEF T, R
  <2>. QED  BY <1>2, <1>3, WFMin
<1>5. \A y \in Nat : <<y, x>> \notin R => ~ (y < x)
  BY <1>4 DEF OpToRel
<1>. HIDE DEF R
<1>6. x \in 1 .. n /\ x - 1 \in T /\ x - 1 \in Nat
  BY <1>4
<1>7. <<x - 1, x>> \notin R
  BY <1>4, <1>6
<1>. HIDE DEF T
<1>8. ~ (x - 1 < x)
  BY <1>5, <1>6, <1>7
<1>. QED  BY <1>6, <1>8

(* A set of places in a list has a last one.                                  *)
LEMMA HasLast ==
  ASSUME NEW n \in Nat, NEW S \in SUBSET (1 .. n), S # {}
  PROVE  \E k \in S : \A j \in S : j <= k
<1>. DEFINE P == {i \in 0 .. n : \A Q \in SUBSET (1 .. i) :
                     Q # {} => \E k \in Q : \A j \in Q : j <= k}
<1>1. 0 \in P
  <2>1. \A Q \in SUBSET (1 .. 0) : Q = {}
    OBVIOUS
  <2>2. 0 \in 0 .. n
    OBVIOUS
  <2>. QED  BY <2>1, <2>2, Zenon
<1>2. ASSUME NEW i \in 1 .. n, i - 1 \in P
      PROVE  i \in P
  <2>1. ASSUME NEW Q \in SUBSET (1 .. i), Q # {}
        PROVE  \E k \in Q : \A j \in Q : j <= k
    <3>1. CASE i \in Q
      BY <3>1
    <3>2. CASE i \notin Q
      <4>1. Q \in SUBSET (1 .. i - 1)
        BY <3>2
      <4>. QED  BY <1>2, <2>1, <4>1
    <3>. QED  BY <3>1, <3>2
  <2>. QED  BY <2>1
<1>3. 0 .. n \subseteq P
  <2>. HIDE DEF P
  <2>. QED  BY <1>1, <1>2, Along
<1>4. n \in P
  <2>. HIDE DEF P
  <2>. QED  BY <1>3
<1>. QED  BY <1>4

(* A sequence, of whatever it holds.                                          *)
IsList(s) == s \in Seq(ToSet(s))

(* The elements of a sequence are those at its places.                        *)
LEMMA ListOf ==
  ASSUME NEW S, NEW s \in Seq(S)
  PROVE  /\ ToSet(s) = {s[i] : i \in 1 .. Len(s)} /\ ToSet(s) \subseteq S
         /\ Len(s) \in Nat /\ s \in [1 .. Len(s) -> S] /\ IsList(s)
         /\ ToSet(s) = {} => s = <<>>
<1>1. Len(s) \in Nat /\ s \in [1 .. Len(s) -> S] /\ DOMAIN s = 1 .. Len(s)
  BY LenProperties
<1>2. ToSet(s) = {s[i] : i \in 1 .. Len(s)}
  BY <1>1 DEF ToSet
<1>3. s \in [1 .. Len(s) -> ToSet(s)]
  BY <1>1, <1>2
<1>4. s \in Seq(ToSet(s))
  BY <1>1, <1>3, SeqDef
<1>. USE DEF IsList
<1>5. ToSet(s) = {} => s = <<>>
  <2>1. ASSUME s # <<>>
        PROVE  s[1] \in ToSet(s)
    BY <1>2, <2>1, EmptySeq
  <2>. QED  BY <2>1
<1>. QED  BY <1>1, <1>2, <1>4, <1>5

(* extend() and append() keep what was there and add what they are given.     *)
LEMMA JoinedList ==
  ASSUME NEW s, NEW t, IsList(s), IsList(t)
  PROVE  IsList(s \o t) /\ ToSet(s \o t) = ToSet(s) \cup ToSet(t)
<1>. DEFINE S == ToSet(s) \cup ToSet(t)
<1>0. s \in Seq(S) /\ t \in Seq(S)
  BY SeqMonotonic DEF IsList
<1>. HIDE DEF S
<1>1. /\ s \o t \in Seq(S) /\ Len(s \o t) = Len(s) + Len(t)
      /\ \A i \in 1 .. Len(s) + Len(t) :
           (s \o t)[i] = IF i <= Len(s) THEN s[i] ELSE t[i - Len(s)]
  BY <1>0, ConcatProperties
<1>2. Len(s) \in Nat /\ Len(t) \in Nat /\ IsList(s \o t)
  BY <1>0, <1>1, ListOf
<1>3. ToSet(s \o t) = {(s \o t)[i] : i \in 1 .. Len(s) + Len(t)}
  BY <1>1, ListOf
<1>4. /\ ToSet(s) = {s[i] : i \in 1 .. Len(s)}
      /\ ToSet(t) = {t[i] : i \in 1 .. Len(t)}
  BY <1>0, ListOf
<1>5. ASSUME NEW i \in 1 .. Len(t)
      PROVE  t[i] = (s \o t)[i + Len(s)] /\ i + Len(s) \in 1 .. Len(s) + Len(t)
  BY <1>1, <1>2
<1>6. ASSUME NEW i \in 1 .. Len(s)
      PROVE  s[i] = (s \o t)[i] /\ i \in 1 .. Len(s) + Len(t)
  BY <1>1, <1>2
<1>7. ASSUME NEW i \in 1 .. Len(s) + Len(t)
      PROVE  (s \o t)[i] \in ToSet(s) \cup ToSet(t)
  <2>1. CASE i <= Len(s)
    BY <1>1, <1>2, <1>4, <2>1
  <2>2. CASE ~ (i <= Len(s))
    <3>1. i - Len(s) \in 1 .. Len(t) /\ (s \o t)[i] = t[i - Len(s)]
      BY <1>1, <1>2, <2>2
    <3>. QED  BY <1>4, <3>1
  <2>. QED  BY <2>1, <2>2
<1>8. ToSet(s) \cup ToSet(t) \subseteq ToSet(s \o t)
  BY <1>3, <1>4, <1>5, <1>6
<1>9. ToSet(s \o t) \subseteq ToSet(s) \cup ToSet(t)
  BY <1>3, <1>7
<1>. QED  BY <1>2, <1>8, <1>9

LEMMA AppendedList ==
  ASSUME NEW S, NEW s \in Seq(S), NEW x \in S
  PROVE  Append(s, x) \in Seq(S) /\ ToSet(Append(s, x)) = ToSet(s) \cup {x}
<1>1. /\ Append(s, x) \in Seq(S) /\ Len(Append(s, x)) = Len(s) + 1
      /\ \A i \in 1 .. Len(s) : Append(s, x)[i] = s[i]
      /\ Append(s, x)[Len(s) + 1] = x
  BY AppendProperties
<1>2. ToSet(Append(s, x)) = {Append(s, x)[i] : i \in 1 .. Len(s) + 1}
  BY <1>1, ListOf
<1>3. ToSet(s) = {s[i] : i \in 1 .. Len(s)} /\ Len(s) \in Nat
  BY ListOf
<1>. QED  BY <1>1, <1>2, <1>3

(* The list comprehensions drop what they say, keep everything else.          *)
LEMMA WithoutDrops ==
  ASSUME NEW list, IsList(list), NEW refs
  PROVE  /\ IsList(Without(list, refs))
         /\ ToSet(Without(list, refs)) = {x \in ToSet(list) : x.ref \notin refs}
<1>. DEFINE S == ToSet(list)
<1>0. list \in Seq(S)
  BY DEF IsList
<1>. HIDE DEF S
<1>. DEFINE n == Len(list)
            Next1(g, i) == IF list[i].ref \in refs THEN g[i - 1] ELSE Append(g[i - 1], list[i])
            Upto(g, m) == g = [i \in 0 .. m |-> IF i = 0 THEN <<>> ELSE Next1(g, i)]
            f == CHOOSE g : Upto(g, n)
<1>1. Without(list, refs) = f[n]
  BY Zenon DEF Without
<1>2. n \in Nat
  BY <1>0, ListOf
<1>3. Upto(f, n)
  <2>. DEFINE P == {m \in 0 .. n : \E g : Upto(g, m)}
  <2>1. 0 \in P
    <3>1. Upto([i \in 0 .. 0 |-> <<>>], 0)
      OBVIOUS
    <3>2. 0 \in 0 .. n
      BY <1>2
    <3>. HIDE DEF Upto, n
    <3>. QED  BY <3>1, <3>2
  <2>2. ASSUME NEW m \in 1 .. n, m - 1 \in P
        PROVE  m \in P
    <3>1. PICK g : Upto(g, m - 1)
      BY <2>2
    <3>. DEFINE h == [i \in 0 .. m |-> IF i = 0 THEN <<>> ELSE Next1(g, i)]
    <3>2. ASSUME NEW i \in 0 .. m, i # 0
          PROVE  h[i - 1] = g[i - 1]
      <4>1. i - 1 \in 0 .. m - 1 /\ i - 1 \in 0 .. m
        BY <1>2, <3>2
      <4>. QED  BY <3>1, <4>1
    <3>3. Upto(h, m)
      BY <3>2
    <3>. HIDE DEF Upto, h
    <3>. QED  BY <3>3
  <2>3. 0 .. n \subseteq P
    <3>. HIDE DEF P, n
    <3>. QED  BY <1>2, <2>1, <2>2, Along
  <2>4. \E g : Upto(g, n)
    BY <1>2, <2>3
  <2>. HIDE DEF Upto, n
  <2>. QED  BY <2>4
<1>. HIDE DEF f
<1>4. f[0] = <<>> /\ \A i \in 1 .. n : f[i] = Next1(f, i)
  <2>. HIDE DEF n
  <2>1. 0 \in 0 .. n /\ \A i \in 1 .. n : i \in 0 .. n /\ i # 0
    BY <1>2
  <2>2. \A i \in 0 .. n : f[i] = IF i = 0 THEN <<>> ELSE Next1(f, i)
    <3>. HIDE DEF Next1
    <3>. QED  BY <1>3, Zenon
  <2>. HIDE DEF Next1, Upto
  <2>. QED  BY <2>1, <2>2
<1>. DEFINE Kept(m) == {list[i] : i \in {j \in 1 .. m : list[j].ref \notin refs}}
            Q == {m \in 0 .. n : f[m] \in Seq(S) /\ ToSet(f[m]) = Kept(m)}
<1>5. 0 \in Q
  <2>1. <<>> \in Seq(S) /\ Len(<<>>) = 0
    BY EmptySeq
  <2>2. ToSet(<<>>) = {} /\ Kept(0) = {}
    BY DEF ToSet
  <2>3. 0 \in 0 .. n /\ f[0] \in Seq(S)
    BY <1>2, <1>4, <2>1
  <2>. HIDE DEF n, Kept
  <2>. QED  BY <1>4, <2>2, <2>3, Zenon
<1>6. ASSUME NEW m \in 1 .. n, m - 1 \in Q
      PROVE  m \in Q
  <2>1. f[m - 1] \in Seq(S) /\ ToSet(f[m - 1]) = Kept(m - 1)
    BY <1>6
  <2>2. CASE list[m].ref \in refs
    <3>1. Kept(m) = Kept(m - 1)
      BY <1>2, <2>2
    <3>. QED  BY <1>4, <2>1, <2>2, <3>1
  <2>3. CASE list[m].ref \notin refs
    <3>1. Kept(m) = Kept(m - 1) \cup {list[m]}
      BY <1>2, <2>3
    <3>2. list[m] \in S /\ f[m] = Append(f[m - 1], list[m])
      BY <1>0, <1>4, <2>3, ElementOfSeq
    <3>3. f[m] \in Seq(S) /\ ToSet(f[m]) = ToSet(f[m - 1]) \cup {list[m]}
      BY <2>1, <3>2, AppendedList
    <3>4. m \in 0 .. n
      BY <1>2
    <3>. HIDE DEF n, Kept, Next1, Upto
    <3>. QED  BY <2>1, <3>1, <3>3, <3>4
  <2>. QED  BY <2>2, <2>3
<1>7. 0 .. n \subseteq Q
  <2>. HIDE DEF Q, n
  <2>. QED  BY <1>2, <1>5, <1>6, Along
<1>8. f[n] \in Seq(S) /\ ToSet(f[n]) = Kept(n)
  <2>1. n \in Q
    <3>. HIDE DEF Q, n
    <3>. QED  BY <1>2, <1>7
  <2>. HIDE DEF n, Kept, Next1, Upto
  <2>. QED  BY <2>1
<1>9. Kept(n) = {x \in ToSet(list) : x.ref \notin refs}
  BY <1>0, ListOf
<1>. QED  BY <1>1, <1>8, <1>9, ListOf

(* The empty sequence is the one without elements.                            *)
LEMMA EmptyList ==
  /\ IsList(<<>>) /\ ToSet(<<>>) = {}
  /\ \A s : IsList(s) /\ ToSet(s) = {} => s = <<>>
<1>1. \A s : IsList(s) /\ ToSet(s) = {} => s = <<>>
  BY ListOf DEF IsList
<1>2. ToSet(<<>>) = {}
  BY DEF ToSet
<1>. QED  BY <1>1, <1>2, EmptySeq DEF IsList

(* A sequence made of another, element by element.                            *)
LEMMA MappedList ==
  ASSUME NEW s, IsList(s), NEW g, NEW m, DOMAIN m = 1 .. Len(s),
         m = [i \in DOMAIN m |-> m[i]], \A i \in DOMAIN m : m[i] = g[s[i]]
  PROVE  IsList(m) /\ ToSet(m) = {g[x] : x \in ToSet(s)}
<1>1. Len(s) \in Nat /\ ToSet(s) = {s[i] : i \in 1 .. Len(s)}
  BY ListOf DEF IsList
<1>2. m \in [1 .. Len(s) -> {g[x] : x \in ToSet(s)}]
  BY <1>1
<1>3. m \in Seq({g[x] : x \in ToSet(s)})
  BY <1>1, <1>2, SeqDef
<1>4. ToSet(m) = {m[i] : i \in 1 .. Len(s)} /\ IsList(m)
  BY <1>3, ListOf DEF ToSet
<1>5. {m[i] : i \in 1 .. Len(s)} = {g[x] : x \in {s[i] : i \in 1 .. Len(s)}}
  OBVIOUS
<1>. QED  BY <1>1, <1>4, <1>5

------------------------------------------------------------------------------
(* SBOMs *)

(* What augment_sbom.py would add to an SBOM that has nothing of it.          *)
Offered(view, rev) ==
  <<Numpy>> \o (IF view = "none" THEN <<>>
                ELSE [i \in 1 .. 4 |-> vendored_source_component(Vendored[i], view, rev)])

(* It has components of its own references, none of them the wheel's.         *)
LEMMA OfferedIs ==
  ASSUME NEW view, NEW rev
  PROVE  /\ IsList(Offered(view, rev))
         /\ \A c \in ToSet(Offered(view, rev)) :
              /\ DOMAIN c = {"ref", "name", "purl"} /\ c.purl = c.ref /\ c.ref # Root
<1>. DEFINE sources == IF view = "none" THEN <<>>
                       ELSE [i \in 1 .. 4 |-> vendored_source_component(Vendored[i], view, rev)]
            Fine(c) == /\ DOMAIN c = {"ref", "name", "purl"} /\ c.purl = c.ref /\ c.ref # Root
<1>1. Fine(Numpy)
  BY BaseAssumption DEF BaseAssumption, Numpy
<1>2. \A name : Fine(vendored_source_component(name, view, rev))
  <2>1. <<"github", rev>>[1] = "github" /\ \A name : <<"generic", name, rev>>[1] = "generic"
    OBVIOUS
  <2>2. Root # <<"github", rev>> /\ \A name : Root # <<"generic", name, rev>>
    BY <2>1, BaseAssumption DEF BaseAssumption
  <2>. QED  BY <2>2 DEF vendored_source_component
<1>. HIDE DEF Fine
<1>3. IsList(sources) /\ \A c \in ToSet(sources) : Fine(c)
  <2>1. CASE view = "none"
    BY <2>1, EmptyList
  <2>2. CASE view # "none"
    <3>. DEFINE four == [i \in 1 .. 4 |-> vendored_source_component(Vendored[i], view, rev)]
    <3>1. sources = four
      BY <2>2
    <3>2. ToSet(four) = {four[i] : i \in 1 .. 4} /\ four \in [1 .. 4 -> ToSet(four)]
      BY DEF ToSet
    <3>3. IsList(four)
      BY <3>2, SeqDef DEF IsList
    <3>4. \A i \in 1 .. 4 : Fine(four[i])
      BY <1>2
    <3>. QED  BY <3>1, <3>2, <3>3, <3>4
  <2>. QED  BY <2>1, <2>2
<1>4. IsList(<<Numpy>>) /\ ToSet(<<Numpy>>) = {Numpy}
  <2>1. ToSet(<<Numpy>>) = {Numpy}
    BY DEF ToSet
  <2>. QED  BY <2>1 DEF IsList
<1>5. Offered(view, rev) = <<Numpy>> \o sources
  BY DEF Offered
<1>. HIDE DEF sources
<1>6. IsList(<<Numpy>> \o sources) /\ ToSet(<<Numpy>> \o sources) = {Numpy} \cup ToSet(sources)
  BY <1>3, <1>4, JoinedList
<1>7. \A c \in ToSet(Offered(view, rev)) : Fine(c)
  BY <1>1, <1>3, <1>5, <1>6
<1>. QED  BY <1>5, <1>6, <1>7 DEF Fine

(* What is added is what is offered and not there yet.                        *)
LEMMA NewIs ==
  ASSUME NEW s, NEW view, NEW rev
  PROVE  /\ IsList(NewComponents(s, view, rev))
         /\ ToSet(NewComponents(s, view, rev)) =
              {c \in ToSet(Offered(view, rev)) : c.ref \notin Refs(s)}
<1>1. NewComponents(s, view, rev) = Without(Offered(view, rev), Refs(s))
  BY DEF NewComponents, Offered
<1>. QED  BY <1>1, OfferedIs, WithoutDrops

(* It has one purl under a name, which is that of a source of this revision;  *)
(* numpy's is a package of PyPI.                                              *)
LEMMA OfferedNames ==
  ASSUME NEW view, NEW rev, NEW c \in ToSet(Offered(view, rev))
  PROVE  /\ c.name \in {"numpy"} \cup ToSet(Vendored)
         /\ \A d \in ToSet(Offered(view, rev)) : c.name = d.name => c.purl = d.purl
         /\ c.purl \in {Numpy.purl, <<"github", rev>>, <<"generic", c.name, rev>>}
<1>. DEFINE Source(n) == vendored_source_component(n, view, rev)
<1>1. ASSUME NEW d \in ToSet(Offered(view, rev))
      PROVE  d = Numpy \/ \E i \in 1 .. 4 : d = Source(Vendored[i])
  <2>1. IsList(<<Numpy>>) /\ ToSet(<<Numpy>>) = {Numpy}
    <3>1. ToSet(<<Numpy>>) = {Numpy}
      BY DEF ToSet
    <3>. QED  BY <3>1 DEF IsList
  <2>2. CASE view = "none"
    <3>1. Offered(view, rev) = <<Numpy>> \o <<>>
      BY <2>2 DEF Offered
    <3>. QED  BY <2>1, <3>1, EmptyList, JoinedList
  <2>3. CASE view # "none"
    <3>. DEFINE four == [i \in 1 .. 4 |-> Source(Vendored[i])]
    <3>1. Offered(view, rev) = <<Numpy>> \o four
      BY <2>3 DEF Offered
    <3>2. ToSet(four) = {four[i] : i \in 1 .. 4} /\ four \in [1 .. 4 -> ToSet(four)]
      BY DEF ToSet
    <3>3. IsList(four)
      BY <3>2, SeqDef DEF IsList
    <3>4. ToSet(Offered(view, rev)) = {Numpy} \cup ToSet(four)
      <4>. HIDE DEF four
      <4>. QED  BY <2>1, <3>1, <3>3, JoinedList
    <3>. QED  BY <3>2, <3>4
  <2>. QED  BY <2>2, <2>3
<1>2. /\ \A i \in 1 .. 4 : Vendored[i] \in ToSet(Vendored) /\ Vendored[i] # "numpy"
      /\ Numpy.name = "numpy" /\ Numpy.purl = <<"pypi", "numpy">>
  BY DEF Vendored, Numpy, ToSet
<1>3. \A n : /\ Source(n).name = n
             /\ Source(n).purl = IF view = "github" THEN <<"github", rev>>
                                 ELSE <<"generic", n, rev>>
  BY DEF vendored_source_component
<1>. HIDE DEF Source
<1>4. ASSUME NEW d \in ToSet(Offered(view, rev))
      PROVE  /\ d.name \in {"numpy"} \cup ToSet(Vendored)
             /\ d.purl = IF d.name = "numpy" THEN <<"pypi", "numpy">>
                         ELSE IF view = "github" THEN <<"github", rev>>
                         ELSE <<"generic", d.name, rev>>
  <2>1. CASE d = Numpy
    BY <1>2, <2>1
  <2>2. ASSUME NEW i \in 1 .. 4, d = Source(Vendored[i])
        PROVE  /\ d.name = Vendored[i]
               /\ d.purl = IF view = "github" THEN <<"github", rev>>
                           ELSE <<"generic", Vendored[i], rev>>
    BY <1>3, <2>2, Zenon
  <2>. QED  BY <1>1, <1>2, <2>1, <2>2
<1>. QED  BY <1>2, <1>4

(* Dependencies, and what linking the root to new components makes of one.    *)
Dep(ref, on) == [ref |-> ref, on |-> on]

Link(d, refs) == IF d.ref = Root THEN Dep(Root, d.on \cup refs) ELSE d

AreDeps(D) == \A d \in D : d = Dep(d.ref, d.on)

(* The fields of a dependency.                                                *)
LEMMA DepIs ==
  ASSUME NEW ref, NEW on
  PROVE  /\ Dep(ref, on).ref = ref /\ Dep(ref, on).on = on
         /\ Dep(ref, on) = Dep(Dep(ref, on).ref, Dep(ref, on).on)
         /\ \A refs : [Dep(ref, on) EXCEPT !.on = @ \cup refs] = Dep(ref, on \cup refs)
  BY DEF Dep

(* The same of any dependency.                                                *)
LEMMA Extended ==
  ASSUME NEW d, d = Dep(d.ref, d.on), NEW refs
  PROVE  [d EXCEPT !.on = @ \cup refs] = Dep(d.ref, d.on \cup refs)
  BY DepIs

(* The entries of a reference.  Where the wheel has one at most, the first is *)
(* all of them.                                                               *)
Entries(s, ref) == {d \in ToSet(s.deps) : d.ref = ref}

OneRoot(deps) == \A i, j \in Places(deps, Root) : i = j

LEMMA RootEntry ==
  ASSUME NEW s, IsList(s.deps), OneRoot(s.deps)
  PROVE  /\ Places(s.deps, Root) = {} <=> Entries(s, Root) = {}
         /\ DependsOn(s, Root) = UNION {d.on : d \in Entries(s, Root)}
<1>1. Len(s.deps) \in Nat /\ ToSet(s.deps) = {s.deps[i] : i \in 1 .. Len(s.deps)}
  BY ListOf DEF IsList
<1>2. Entries(s, Root) = {s.deps[i] : i \in Places(s.deps, Root)}
  BY <1>1 DEF Entries, Places
<1>3. ASSUME NEW k \in Places(s.deps, Root)
      PROVE  DependsOn(s, Root) = s.deps[k].on /\ Entries(s, Root) = {s.deps[k]}
  <2>1. Places(s.deps, Root) = {k} /\ k \in Nat
    BY <1>1, <1>3 DEF OneRoot, Places
  <2>2. Min(Places(s.deps, Root)) = k
    BY <2>1 DEF Min
  <2>. QED  BY <1>2, <2>1, <2>2 DEF DependsOn
<1>4. CASE Places(s.deps, Root) = {}
  BY <1>2, <1>4 DEF DependsOn
<1>5. CASE Places(s.deps, Root) # {}
  <2>1. PICK k : k \in Places(s.deps, Root)
    BY <1>5
  <2>. QED  BY <1>2, <1>3, <1>5, <2>1
<1>. QED  BY <1>4, <1>5

(* The dependencies among which there is one of the wheel.                    *)
Listed(s) == ToSet(s.deps) \cup (IF Entries(s, Root) # {} THEN {} ELSE {Dep(Root, {})})

Unlisted(s, new) == {c \in ToSet(new) : c.ref \notin {d.ref : d \in ToSet(s.deps)}}

RefsOf(new) == {c.ref : c \in ToSet(new)}

(* The parts of an augmented SBOM.                                            *)
LEMMA AugmentedIs ==
  ASSUME NEW s, NEW view, NEW rev, IsList(s.components), IsList(s.deps), AreDeps(ToSet(s.deps)),
         OneRoot(s.deps), NEW new, new = NewComponents(s, view, rev),
         NEW t, t = Augmented(s, view, rev)
  PROVE  /\ t = [components |-> t.components, deps |-> t.deps, tools |-> s.tools + 1]
         /\ IsList(t.components) /\ IsList(t.deps) /\ OneRoot(t.deps)
         /\ ToSet(t.components) = ToSet(s.components) \cup ToSet(new)
         /\ ToSet(t.deps) = {Link(d, RefsOf(new)) : d \in Listed(s)}
                              \cup {Dep(c.ref, {}) : c \in Unlisted(s, new)}
<1>. DEFINE listed == IF Places(s.deps, Root) # {} THEN s.deps
                      ELSE Append(s.deps, [ref |-> Root, on |-> {}])
            linked == [listed EXCEPT ![Max(Places(listed, Root))].on =
                                       @ \cup {c.ref : c \in ToSet(new)}]
            absent == Without(new, {d.ref : d \in ToSet(s.deps)})
            bare   == [i \in 1 .. Len(absent) |-> [ref |-> absent[i].ref, on |-> {}]]
<1>1. t = [components |-> s.components \o new, deps |-> linked \o bare, tools |-> s.tools + 1]
  BY Zenon DEF Augmented
<1>2. IsList(new)
  BY NewIs
<1>3. IsList(listed) /\ ToSet(listed) = Listed(s)
  <2>1. CASE Places(s.deps, Root) # {}
    BY <2>1, RootEntry DEF Listed
  <2>2. CASE Places(s.deps, Root) = {}
    <3>1. listed = Append(s.deps, Dep(Root, {}))
      BY <2>2 DEF Dep
    <3>2. Listed(s) = ToSet(s.deps) \cup {Dep(Root, {})}
      BY <2>2, RootEntry DEF Listed
    <3>3. s.deps \in Seq(Listed(s)) /\ Dep(Root, {}) \in Listed(s)
      BY <3>2, SeqMonotonic DEF IsList
    <3>. HIDE DEF listed
    <3>4. listed \in Seq(Listed(s)) /\ ToSet(listed) = Listed(s)
      BY <3>1, <3>2, <3>3, AppendedList
    <3>. QED  BY <3>4, ListOf
  <2>. QED  BY <2>1, <2>2
<1>31. PICK k \in 1 .. Len(listed) : Places(listed, Root) = {k}
  <2>1. CASE Places(s.deps, Root) # {}
    BY <2>1 DEF OneRoot, Places
  <2>2. CASE Places(s.deps, Root) = {}
    <3>1. listed = Append(s.deps, Dep(Root, {})) /\ Dep(Root, {}).ref = Root
      BY <2>2 DEF Dep
    <3>2. /\ Len(listed) = Len(s.deps) + 1 /\ Len(s.deps) \in Nat
          /\ \A i \in 1 .. Len(s.deps) : listed[i] = s.deps[i]
          /\ listed[Len(s.deps) + 1] = Dep(Root, {})
      <4>. DEFINE S == ToSet(s.deps) \cup {Dep(Root, {})}
      <4>1. s.deps \in Seq(S) /\ Dep(Root, {}) \in S
        BY SeqMonotonic DEF IsList
      <4>. HIDE DEF S, listed
      <4>. QED  BY <3>1, <4>1, AppendProperties, ListOf
    <3>. HIDE DEF listed
    <3>3. Places(listed, Root) = {Len(s.deps) + 1}
      BY <2>2, <3>1, <3>2 DEF Places
    <3>. QED  BY <3>2, <3>3
  <2>. QED  BY <2>1, <2>2
<1>. HIDE DEF listed
<1>32. Max(Places(listed, Root)) = k
  <2>1. k \in Nat
    BY <1>31
  <2>. QED  BY <1>31, <2>1 DEF Max
<1>33. \A i \in 1 .. Len(listed) : listed[i].ref = Root <=> i = k
  BY <1>31 DEF Places
<1>34. DOMAIN listed = 1 .. Len(listed) /\ Len(listed) \in Nat
  BY <1>3, ListOf DEF IsList
<1>4. AreDeps(Listed(s))
  BY DepIs DEF AreDeps, Listed
<1>5. IsList(linked) /\ ToSet(linked) = {Link(d, RefsOf(new)) : d \in Listed(s)}
  <2>. DEFINE g == [d \in Listed(s) |-> Link(d, RefsOf(new))]
  <2>1. ASSUME NEW i \in 1 .. Len(listed)
        PROVE  linked[i] = g[listed[i]]
    <3>1. linked[i] = IF listed[i].ref = Root THEN [listed[i] EXCEPT !.on = @ \cup RefsOf(new)]
                      ELSE listed[i]
      BY <1>32, <1>33, <1>34 DEF RefsOf
    <3>. HIDE DEF linked
    <3>2. listed[i] \in Listed(s)
      BY <1>3, ElementOfSeq DEF IsList
    <3>3. listed[i] = Dep(listed[i].ref, listed[i].on)
      BY <1>4, <3>2, Zenon DEF AreDeps
    <3>4. linked[i] = Link(listed[i], RefsOf(new))
      <4>1. [listed[i] EXCEPT !.on = @ \cup RefsOf(new)] =
              Dep(listed[i].ref, listed[i].on \cup RefsOf(new))
        BY <3>3, Extended
      <4>. QED  BY <3>1, <4>1 DEF Link
    <3>. QED  BY <3>2, <3>4
  <2>2. /\ DOMAIN linked = 1 .. Len(listed) /\ linked = [i \in DOMAIN linked |-> linked[i]]
        /\ \A i \in DOMAIN linked : linked[i] = g[listed[i]]
    <3>1. DOMAIN linked = 1 .. Len(listed) /\ linked = [i \in DOMAIN linked |-> linked[i]]
      BY <1>34
    <3>. HIDE DEF g, linked
    <3>. QED  BY <2>1, <3>1
  <2>. HIDE DEF linked, g
  <2>3. IsList(linked) /\ ToSet(linked) = {g[x] : x \in ToSet(listed)}
    BY <1>3, <2>2, MappedList
  <2>. QED  BY <1>3, <2>3 DEF g
<1>51. Len(linked) = Len(listed) /\ \A i \in 1 .. Len(linked) : linked[i].ref = listed[i].ref
  <2>1. DOMAIN linked = 1 .. Len(listed)
    BY <1>34
  <2>2. ASSUME NEW i \in 1 .. Len(listed)
        PROVE  linked[i].ref = listed[i].ref
    <3>1. listed[i] = Dep(listed[i].ref, listed[i].on)
      <4>1. listed[i] \in Listed(s)
        BY <1>3, ElementOfSeq DEF IsList
      <4>. QED  BY <1>4, <4>1, Zenon DEF AreDeps
    <3>2. \A refs : [listed[i] EXCEPT !.on = @ \cup refs].ref = listed[i].ref
      BY <3>1, DepIs
    <3>3. linked[i] = listed[i]
            \/ linked[i] = [listed[i] EXCEPT !.on = @ \cup {c.ref : c \in ToSet(new)}]
      BY <1>32, <1>34
    <3>. HIDE DEF linked
    <3>. QED  BY <3>2, <3>3
  <2>. HIDE DEF linked
  <2>3. Len(linked) = Len(listed)
    BY <1>5, <1>34, <2>1, LenProperties DEF IsList
  <2>. QED  BY <2>2, <2>3
<1>. HIDE DEF linked
<1>6. IsList(absent) /\ ToSet(absent) = Unlisted(s, new)
  BY <1>2, WithoutDrops DEF Unlisted
<1>. HIDE DEF absent
<1>7. IsList(bare) /\ ToSet(bare) = {Dep(c.ref, {}) : c \in Unlisted(s, new)}
  <2>. DEFINE g == [c \in ToSet(absent) |-> Dep(c.ref, {})]
  <2>1. \A i \in 1 .. Len(absent) : absent[i] \in ToSet(absent)
    BY <1>6, ElementOfSeq DEF IsList
  <2>2. /\ DOMAIN bare = 1 .. Len(absent) /\ bare = [i \in DOMAIN bare |-> bare[i]]
        /\ \A i \in DOMAIN bare : bare[i] = g[absent[i]]
    BY <2>1 DEF Dep
  <2>. HIDE DEF bare, g
  <2>3. IsList(bare) /\ ToSet(bare) = {g[x] : x \in ToSet(absent)}
    BY <1>6, <2>2, MappedList
  <2>. QED  BY <1>6, <2>3 DEF g
<1>71. Root \notin RefsOf(new)
  BY NewIs, OfferedIs DEF RefsOf
<1>72. \A i \in 1 .. Len(bare) : bare[i].ref # Root
  <2>1. ASSUME NEW d \in ToSet(bare)
        PROVE  d.ref # Root
    BY <1>7, <1>71, DepIs DEF Unlisted, RefsOf
  <2>. HIDE DEF bare
  <2>2. \A i \in 1 .. Len(bare) : bare[i] \in ToSet(bare)
    BY <1>7, ElementOfSeq DEF IsList
  <2>. QED  BY <2>1, <2>2
<1>. HIDE DEF bare
<1>8. IsList(linked \o bare) /\ ToSet(linked \o bare) = ToSet(linked) \cup ToSet(bare)
  BY <1>5, <1>7, JoinedList
<1>9. /\ IsList(s.components \o new)
      /\ ToSet(s.components \o new) = ToSet(s.components) \cup ToSet(new)
  BY <1>2, JoinedList
<1>10. t.components = s.components \o new /\ t.deps = linked \o bare
  BY <1>1
<1>11. t = [components |-> t.components, deps |-> t.deps, tools |-> s.tools + 1]
  BY <1>1, <1>10
<1>12. ToSet(t.deps) = {Link(d, RefsOf(new)) : d \in Listed(s)}
                         \cup {Dep(c.ref, {}) : c \in Unlisted(s, new)}
  BY <1>5, <1>7, <1>8, <1>10
<1>13. OneRoot(t.deps)
  <2>1. ASSUME NEW i \in Places(linked \o bare, Root)
        PROVE  i = k
    <3>. DEFINE S == ToSet(linked) \cup ToSet(bare)
    <3>1. linked \in Seq(S) /\ bare \in Seq(S)
      BY <1>5, <1>7, SeqMonotonic DEF IsList
    <3>. HIDE DEF S
    <3>2. /\ Len(linked) \in Nat /\ Len(bare) \in Nat
          /\ Len(linked \o bare) = Len(linked) + Len(bare)
          /\ \A j \in 1 .. Len(linked) + Len(bare) :
               (linked \o bare)[j] = IF j <= Len(linked) THEN linked[j] ELSE bare[j - Len(linked)]
      BY <3>1, ConcatProperties, ListOf
    <3>3. i \in 1 .. Len(linked) + Len(bare) /\ (linked \o bare)[i].ref = Root
      BY <3>2 DEF Places
    <3>4. CASE i <= Len(linked)
      BY <1>33, <1>51, <3>2, <3>3, <3>4
    <3>5. CASE ~ (i <= Len(linked))
      <4>1. i - Len(linked) \in 1 .. Len(bare)
        BY <3>2, <3>3, <3>5
      <4>. QED  BY <1>72, <3>2, <3>3, <3>5, <4>1
    <3>. QED  BY <3>4, <3>5
  <2>. QED  BY <1>10, <2>1 DEF OneRoot
<1>. QED  BY <1>8, <1>9, <1>10, <1>11, <1>12, <1>13

(* Of an SBOM that has all that is offered only the tools grow.               *)
LEMMA NothingToAdd ==
  ASSUME NEW t, NEW view, NEW rev,
         t = [components |-> t.components, deps |-> t.deps, tools |-> t.tools],
         IsList(t.components), IsList(t.deps), AreDeps(ToSet(t.deps)), OneRoot(t.deps),
         Entries(t, Root) # {}, \A c \in ToSet(Offered(view, rev)) : c.ref \in Refs(t)
  PROVE  Augmented(t, view, rev) = [t EXCEPT !.tools = @ + 1]
<1>. DEFINE linked == [t.deps EXCEPT ![Max(Places(t.deps, Root))].on =
                                       @ \cup {c.ref : c \in ToSet(<<>>)}]
            absent == Without(<<>>, {d.ref : d \in ToSet(t.deps)})
            bare   == [i \in 1 .. Len(absent) |-> [ref |-> absent[i].ref, on |-> {}]]
<1>1. NewComponents(t, view, rev) = <<>>
  BY NewIs, EmptyList
<1>2. Augmented(t, view, rev) =
        [components |-> t.components \o <<>>, deps |-> linked \o bare, tools |-> t.tools + 1]
  <2>1. Places(t.deps, Root) # {}
    BY RootEntry
  <2>. QED  BY <1>1, <2>1, Zenon DEF Augmented
<1>3. absent = <<>>
  BY WithoutDrops, EmptyList
<1>4. bare = <<>>
  <2>. HIDE DEF absent
  <2>1. Len(absent) = 0
    BY <1>3, EmptySeq
  <2>. QED  BY <2>1
<1>5. linked = t.deps
  <2>1. Len(t.deps) \in Nat /\ t.deps \in [1 .. Len(t.deps) -> ToSet(t.deps)]
    BY ListOf DEF IsList
  <2>2. {c.ref : c \in ToSet(<<>>)} = {}
    BY EmptyList
  <2>3. ASSUME NEW d \in ToSet(t.deps)
        PROVE  [d EXCEPT !.on = @ \cup {}] = d
    <3>1. d = [ref |-> d.ref, on |-> d.on]
      BY Zenon DEF AreDeps, Dep
    <3>. QED  BY <3>1
  <2>4. \A i \in 1 .. Len(t.deps) : linked[i] = t.deps[i]
    BY <2>1, <2>2, <2>3
  <2>. QED  BY <2>1, <2>4
<1>. HIDE DEF linked, absent, bare
<1>6. t.components \o <<>> = t.components /\ t.deps \o <<>> = t.deps
  BY ConcatEmptySeq DEF IsList
<1>. QED  BY <1>2, <1>4, <1>5, <1>6

(* What an SBOM is, augmented or not: references and names have one purl      *)
(* each, no dependency leads nowhere, and the wheel, which has one entry,     *)
(* depends on all that is listed.                                             *)
Component(c) == DOMAIN c = {"ref", "name", "purl"}

Leads(d, refs) == {d.ref} \cup d.on \subseteq refs \cup {Root}

WellFormed(s) ==
  /\ s = [components |-> s.components, deps |-> s.deps, tools |-> s.tools] /\ s.tools \in Nat
  /\ IsList(s.components) /\ IsList(s.deps) /\ AreDeps(ToSet(s.deps)) /\ OneRoot(s.deps)
  /\ \A c \in ToSet(s.components) : Component(c)
  /\ \A c, d \in ToSet(s.components) : c.name = d.name \/ c.ref = d.ref => c.purl = d.purl
  /\ \A d \in ToSet(s.deps) : Leads(d, Refs(s))
  /\ DependsOn(s, Root) = Refs(s) \ {Root}

(* The script makes an SBOM of an SBOM, with all that it offers.              *)
LEMMA AugmentedIsWellFormed ==
  ASSUME NEW s \in Base, NEW view, NEW rev, NEW t, t = Augmented(s, view, rev)
  PROVE  /\ WellFormed(t) /\ Entries(t, Root) # {}
         /\ \A c \in ToSet(Offered(view, rev)) : c.ref \in Refs(t)
<1>1. /\ IsList(s.components) /\ IsList(s.deps) /\ AreDeps(ToSet(s.deps)) /\ OneRoot(s.deps)
      /\ s.tools \in Nat
      /\ \A c \in ToSet(s.components) :
           Component(c) /\ c.name \notin {"numpy"} \cup ToSet(Vendored)
      /\ \A c, d \in ToSet(s.components) : c.name = d.name \/ c.ref = d.ref => c.purl = d.purl
      /\ \A d \in ToSet(s.deps) : Leads(d, Refs(s))
      /\ DependsOn(s, Root) = Refs(s) \ {Root}
  BY BaseAssumption, Zenon DEF BaseAssumption, IsList, AreDeps, Dep, Component, Leads, OneRoot
<1>2. PICK new : new = NewComponents(s, view, rev)
  OBVIOUS
<1>3. ToSet(new) = {c \in ToSet(Offered(view, rev)) : c.ref \notin Refs(s)}
  BY <1>2, NewIs
<1>4. \A c \in ToSet(Offered(view, rev)) : Component(c) /\ c.purl = c.ref /\ c.ref # Root
  BY OfferedIs DEF Component
<1>5. /\ t = [components |-> t.components, deps |-> t.deps, tools |-> s.tools + 1]
      /\ IsList(t.components) /\ IsList(t.deps) /\ OneRoot(t.deps)
      /\ ToSet(t.components) = ToSet(s.components) \cup ToSet(new)
      /\ ToSet(t.deps) = {Link(d, RefsOf(new)) : d \in Listed(s)}
                           \cup {Dep(c.ref, {}) : c \in Unlisted(s, new)}
  BY <1>1, <1>2, AugmentedIs
<1>6. Refs(t) = Refs(s) \cup RefsOf(new)
  BY <1>5 DEF Refs, RefsOf
<1>7. Root \notin RefsOf(new)
  BY <1>3, <1>4 DEF RefsOf
<1>8. PICK r \in Listed(s) : r.ref = Root
  <2>1. CASE Entries(s, Root) # {}
    BY <2>1 DEF Entries, Listed
  <2>2. CASE Entries(s, Root) = {}
    BY <2>2, DepIs DEF Listed
  <2>. QED  BY <2>1, <2>2
<1>. DEFINE Sound(d, refs, on) == /\ d = Dep(d.ref, d.on) /\ Leads(d, refs)
                                  /\ d.ref = Root => d.on \subseteq on
<1>9. ASSUME NEW d \in Listed(s)
      PROVE  Sound(d, Refs(s), Refs(s) \ {Root})
  <2>1. CASE d \in ToSet(s.deps)
    <3>1. d = Dep(d.ref, d.on) /\ Leads(d, Refs(s))
      BY <1>1, <2>1, Zenon DEF AreDeps
    <3>2. d.ref = Root => d.on \subseteq DependsOn(s, Root)
      BY <1>1, <2>1, RootEntry DEF Entries
    <3>. QED  BY <1>1, <3>1, <3>2
  <2>2. CASE d = Dep(Root, {})
    BY <2>2, DepIs DEF Leads
  <2>. QED  BY <2>1, <2>2 DEF Listed
<1>10. ASSUME NEW d \in ToSet(t.deps)
       PROVE  Sound(d, Refs(t), (Refs(s) \ {Root}) \cup RefsOf(new))
  <2>1. ASSUME NEW e \in Listed(s), d = Link(e, RefsOf(new))
        PROVE  Sound(d, Refs(t), (Refs(s) \ {Root}) \cup RefsOf(new))
    <3>1. Sound(e, Refs(s), Refs(s) \ {Root})
      BY <1>9
    <3>2. CASE e.ref = Root
      <4>1. d = Dep(Root, e.on \cup RefsOf(new))
        BY <2>1, <3>2 DEF Link
      <4>2. d.ref = Root /\ d.on = e.on \cup RefsOf(new)
        BY <4>1, DepIs
      <4>. QED  BY <1>6, <3>1, <3>2, <4>1, <4>2 DEF Leads
    <3>3. CASE e.ref # Root
      <4>1. d = e
        BY <2>1, <3>3 DEF Link
      <4>. QED  BY <1>6, <3>1, <3>3, <4>1 DEF Leads
    <3>. QED  BY <3>2, <3>3
  <2>2. ASSUME NEW c \in Unlisted(s, new), d = Dep(c.ref, {})
        PROVE  Sound(d, Refs(t), (Refs(s) \ {Root}) \cup RefsOf(new))
    <3>1. c.ref \in RefsOf(new)
      BY DEF Unlisted, RefsOf
    <3>. QED  BY <1>6, <2>2, <3>1, DepIs DEF Leads
  <2>. HIDE DEF Sound
  <2>. QED  BY <1>5, <2>1, <2>2
<1>11. \A e \in Listed(s) : Link(e, RefsOf(new)) \in ToSet(t.deps)
  BY <1>5
<1>12. ASSUME NEW e \in Listed(s), e.ref = Root
       PROVE  \E d \in Entries(t, Root) : d.on = e.on \cup RefsOf(new)
  <2>1. Link(e, RefsOf(new)) = Dep(Root, e.on \cup RefsOf(new))
    BY <1>12 DEF Link
  <2>2. Link(e, RefsOf(new)).ref = Root /\ Link(e, RefsOf(new)).on = e.on \cup RefsOf(new)
    BY <2>1, DepIs
  <2>3. Link(e, RefsOf(new)) \in Entries(t, Root)
    BY <1>11, <2>2 DEF Entries
  <2>. QED  BY <2>2, <2>3
<1>13. DependsOn(t, Root) = Refs(t) \ {Root}
  <2>1. \A d \in Entries(t, Root) : d.on \subseteq (Refs(s) \ {Root}) \cup RefsOf(new)
    BY <1>10 DEF Entries
  <2>2. DependsOn(t, Root) \subseteq Refs(t) \ {Root}
    BY <1>5, <1>6, <1>7, <2>1, RootEntry
  <2>3. RefsOf(new) \subseteq DependsOn(t, Root)
    BY <1>5, <1>8, <1>12, RootEntry
  <2>4. ASSUME NEW x \in DependsOn(s, Root)
        PROVE  x \in DependsOn(t, Root)
    <3>1. PICK e \in ToSet(s.deps) : e.ref = Root /\ x \in e.on
      BY <1>1, RootEntry DEF Entries
    <3>. QED  BY <1>5, <1>12, <3>1, RootEntry DEF Listed
  <2>. QED  BY <1>1, <1>6, <2>2, <2>3, <2>4
<1>14. \A c \in ToSet(t.components) : Component(c)
  BY <1>1, <1>3, <1>4, <1>5
<1>15. \A c, d \in ToSet(t.components) : c.name = d.name \/ c.ref = d.ref => c.purl = d.purl
  <2>1. \A c \in ToSet(s.components) : c.ref \in Refs(s)
    BY DEF Refs
  <2>2. \A c \in ToSet(new) : c.ref \notin Refs(s) /\ c.purl = c.ref
    BY <1>3, <1>4
  <2>3. \A c \in ToSet(new) :
          /\ c.name \in {"numpy"} \cup ToSet(Vendored)
          /\ \A d \in ToSet(new) : c.name = d.name => c.purl = d.purl
    BY <1>3, OfferedNames
  <2>. QED  BY <1>1, <1>5, <2>1, <2>2, <2>3
<1>16. ASSUME NEW c \in ToSet(Offered(view, rev))
       PROVE  c.ref \in Refs(t)
  <2>1. c.ref \in Refs(s) \/ c.ref \in RefsOf(new)
    BY <1>3 DEF RefsOf
  <2>. QED  BY <1>6, <2>1
<1>17. Entries(t, Root) # {} /\ t.tools \in Nat
  BY <1>1, <1>5, <1>8, <1>12
<1>18. AreDeps(ToSet(t.deps)) /\ \A d \in ToSet(t.deps) : Leads(d, Refs(t))
  BY <1>10, Zenon DEF AreDeps
<1>. QED  BY <1>5, <1>13, <1>14, <1>15, <1>16, <1>17, <1>18 DEF WellFormed

(* Of an SBOM sbom_for_scan.py makes one without numpy and without references *)
(* to it.                                                                     *)
LEMMA CopyForGrype ==
  ASSUME NEW s, WellFormed(s), NEW t, t = ScanCopy(s)
  PROVE  /\ Refs(t) = Refs(s) \ Unscannable /\ t.tools = s.tools
         /\ \A c \in ToSet(t.components) : DOMAIN c = {"ref", "name", "purl"}
         /\ \A d \in ToSet(t.deps) : {d.ref} \cup d.on \subseteq Refs(t) \cup {Root}
<1>. DEFINE kept == Without(s.deps, Unscannable)
            deps == [i \in 1 .. Len(kept) |-> [kept[i] EXCEPT !.on = @ \ Unscannable]]
<1>1. t = [components |-> Without(s.components, Unscannable), deps |-> deps, tools |-> s.tools]
  BY Zenon DEF ScanCopy
<1>2. ToSet(t.components) = {c \in ToSet(s.components) : c.ref \notin Unscannable}
  BY <1>1, WithoutDrops DEF WellFormed
<1>3. Refs(t) = Refs(s) \ Unscannable
  BY <1>2 DEF Refs
<1>4. IsList(kept) /\ ToSet(kept) = {d \in ToSet(s.deps) : d.ref \notin Unscannable}
  BY WithoutDrops DEF WellFormed
<1>. HIDE DEF kept
<1>5. ASSUME NEW d \in ToSet(t.deps)
      PROVE  {d.ref} \cup d.on \subseteq Refs(t) \cup {Root}
  <2>1. PICK i \in 1 .. Len(kept) : d = [kept[i] EXCEPT !.on = @ \ Unscannable]
    BY <1>1 DEF ToSet
  <2>2. kept[i] \in ToSet(kept)
    BY <1>4, ElementOfSeq DEF IsList
  <2>3. /\ kept[i] = [ref |-> kept[i].ref, on |-> kept[i].on] /\ kept[i].ref \notin Unscannable
        /\ {kept[i].ref} \cup kept[i].on \subseteq Refs(s) \cup {Root}
    <3>1. kept[i] \in ToSet(s.deps) /\ kept[i].ref \notin Unscannable
      BY <1>4, <2>2
    <3>2. kept[i] = [ref |-> kept[i].ref, on |-> kept[i].on] /\ Leads(kept[i], Refs(s))
      BY <3>1, Zenon DEF WellFormed, AreDeps, Dep
    <3>. QED  BY <3>1, <3>2 DEF Leads
  <2>4. d.ref = kept[i].ref /\ d.on = kept[i].on \ Unscannable
    BY <2>1, <2>3
  <2>. QED  BY <1>3, <2>3, <2>4
<1>6. t.tools = s.tools
  BY <1>1
<1>. HIDE DEF deps
<1>. QED  BY <1>2, <1>3, <1>5, <1>6 DEF WellFormed, Component

(* A list always has a last component of each of its references, which is the *)
(* one that the snapshot shows; one name does not hide another's URL.         *)
LEMMA ManifestHasAll ==
  ASSUME NEW s, WellFormed(s), NEW dict \in build_manifest(s)
  PROVE  {e.purl : e \in dict} = {c.purl : c \in {d \in ToSet(s.components) : d.ref # Root}}
<1>1. ASSUME NEW ref \in Refs(s)
      PROVE  ByRef(s, ref) \in ToSet(s.components) /\ ByRef(s, ref).ref = ref
  <2>. DEFINE n == Len(s.components)
              I == Places(s.components, ref)
  <2>1. n \in Nat /\ ToSet(s.components) = {s.components[i] : i \in 1 .. n}
    BY ListOf DEF WellFormed, IsList
  <2>2. I # {} /\ I \in SUBSET (1 .. n)
    BY <2>1 DEF Refs, Places
  <2>3. PICK k \in I : \A j \in I : j <= k
    <3>. HIDE DEF I, n
    <3>. QED  BY <2>1, <2>2, HasLast
  <2>4. \A j \in I : k >= j
    BY <2>1, <2>2, <2>3
  <2>5. Max(I) \in I
    <3>. HIDE DEF I
    <3>. QED  BY <2>3, <2>4 DEF Max
  <2>. QED  BY <2>1, <2>5 DEF ByRef, Places
<1>. DEFINE refs == Refs(s) \ {Root}
            entry(c) == [name |-> c.name, purl |-> c.purl]
            all == {c \in ToSet(s.components) : c.ref # Root}
<1>2. Resolved(s, DependsOn(s, Root)) = {entry(ByRef(s, ref)) : ref \in refs}
  <2>1. DependsOn(s, Root) \cap Refs(s) = refs
    BY DEF WellFormed
  <2>. HIDE DEF refs
  <2>. QED  BY <2>1 DEF Resolved
<1>3. \A c \in ToSet(s.components) : c.ref \in Refs(s)
  BY DEF Refs
<1>4. \A c, d \in ToSet(s.components) : c.name = d.name \/ c.ref = d.ref => c.purl = d.purl
  BY DEF WellFormed
<1>5. /\ dict \subseteq {entry(ByRef(s, ref)) : ref \in refs}
      /\ {e.name : e \in dict} = {e.name : e \in {entry(ByRef(s, ref)) : ref \in refs}}
  BY <1>2 DEF build_manifest, Dicts
<1>6. \A c : entry(c).name = c.name /\ entry(c).purl = c.purl
  OBVIOUS
<1>. HIDE DEF entry
<1>7. ASSUME NEW e \in dict
      PROVE  \E c \in all : e.name = c.name /\ e.purl = c.purl
  <2>1. PICK ref \in refs : e = entry(ByRef(s, ref))
    BY <1>5
  <2>. QED  BY <1>1, <1>6, <2>1
<1>8. ASSUME NEW c \in all
      PROVE  \E e \in dict : e.purl = c.purl
  <2>1. c.ref \in refs
    BY <1>3
  <2>2. /\ ByRef(s, c.ref) \in ToSet(s.components) /\ ByRef(s, c.ref).ref = c.ref
        /\ ByRef(s, c.ref).purl = c.purl
    BY <1>1, <1>4, <2>1
  <2>3. ByRef(s, c.ref).name \in {e.name : e \in dict}
    <3>1. entry(ByRef(s, c.ref)) \in {entry(ByRef(s, ref)) : ref \in refs}
      BY <2>1
    <3>. QED  BY <1>5, <1>6, <3>1
  <2>4. PICK e \in dict : e.name = ByRef(s, c.ref).name
    BY <2>3
  <2>5. PICK d \in all : e.name = d.name /\ e.purl = d.purl
    BY <1>7
  <2>. QED  BY <1>4, <2>2, <2>4, <2>5
<1>. HIDE DEF all
<1>9. {e.purl : e \in dict} = {c.purl : c \in all}
  BY <1>7, <1>8
<1>. QED  BY <1>9 DEF all

(* The vendored sources of an augmented SBOM are those of one checkout.       *)
LEMMA SourcesAreOfOne ==
  ASSUME NEW s \in Base, NEW view, NEW rev, NEW t, t = Augmented(s, view, rev),
         NEW c \in ToSet(t.components), NEW r, c.purl \in SourcesOf(r)
  PROVE  r = rev
<1>1. c.purl = <<"github", r>> \/ \E n : c.purl = <<"generic", n, r>>
  BY DEF SourcesOf, vendored_source_component
<1>2. c.purl[1] \in {"github", "generic"}
  BY <1>1
<1>3. PICK new : new = NewComponents(s, view, rev)
  OBVIOUS
<1>4. c \in ToSet(s.components) \/ c \in ToSet(new)
  <2>1. IsList(s.components) /\ IsList(s.deps) /\ AreDeps(ToSet(s.deps)) /\ OneRoot(s.deps)
    BY BaseAssumption, Zenon DEF BaseAssumption, IsList, AreDeps, Dep, OneRoot
  <2>2. ToSet(t.components) = ToSet(s.components) \cup ToSet(new)
    BY <1>3, <2>1, AugmentedIs
  <2>. QED  BY <2>2
<1>5. CASE c \in ToSet(s.components)
  <2>1. c.purl[1] \notin {"github", "generic"}
    BY <1>5, BaseAssumption, Zenon DEF BaseAssumption
  <2>. QED  BY <1>2, <2>1
<1>6. CASE c \in ToSet(new)
  <2>1. c \in ToSet(Offered(view, rev))
    BY <1>3, <1>6, NewIs
  <2>2. c.purl \in {Numpy.purl, <<"github", rev>>, <<"generic", c.name, rev>>}
    BY <2>1, OfferedNames
  <2>3. Numpy.purl[1] = "pypi"
    BY DEF Numpy
  <2>4. c.purl # Numpy.purl
    BY <1>2, <2>3
  <2>. QED  BY <1>1, <2>2, <2>4
<1>. QED  BY <1>4, <1>5, <1>6

------------------------------------------------------------------------------
(* The SBOM of the wheel in the workflow *)

(* What is made of the wheel's SBOM is made of the SBOM that the wheel has:   *)
(* it is an augmented one, nothing is made of it before the job runs, and     *)
(* what the job made is of this SBOM, not of one before it.                   *)
SbomInv ==
  /\ sees \in View /\ describes \in Nat /\ names \in Nat
  /\ DOMAIN snapshot = {"sha", "resolved"}
  /\ sbom # NoSbom => \E base \in Base : sbom = Augmented(base, sees, describes)
  /\ scan # NoSbom => sbom # NoSbom /\ scan = ScanCopy(sbom)
  /\ names # 0 /\ snapshot.sha = names =>
       sbom # NoSbom /\ snapshot.resolved \in build_manifest(sbom)
  /\ job = "wait" => scan = NoSbom /\ names = 0

(* SbomInv is an invariant: the wheel is repaired only while the job waits,   *)
(* and what another job submitted has another commit's number.                *)
THEOREM SbomInvariant == Spec => []SbomInv
<1>1. Init => SbomInv
  BY DEF Init, SbomInit, SbomInv, NoSbom, NoSnapshot, View
<1>2. SourceTypeOK /\ ScanInv /\ SbomInv /\ [Next]_provenanceVars => SbomInv'
  <2>. SUFFICES ASSUME SourceTypeOK, ScanInv, SbomInv, [Next]_provenanceVars
                PROVE  SbomInv'
    OBVIOUS
  <2>0. run \in Nat /\ MaxRuns \in Nat
    BY SourceAssumptions DEF SourceTypeOK, SourceAssumptions
  <2>1. CASE UNCHANGED sbomVars
    BY <2>1 DEF SbomInv, sbomVars, wheelVars
  <2>2. CASE Clear
    BY <2>2 DEF Clear, SbomInv, NoSbom, View
  <2>3. ASSUME NEW p \in PatchSet, NEW s \in Stub, PushCancels(p, s)
        PROVE  SbomInv'
    <3>1. CASE /\ job' = "cancelled"
               /\ UNCHANGED <<wheelVars, scan, names, snapshot>>
      BY <3>1 DEF SbomInv, wheelVars
    <3>. QED  BY <2>1, <2>2, <2>3, <3>1 DEF PushCancels, Cancel
  <2>4. ASSUME NEW l \in Leg, BuildLeg(l)
        PROVE  SbomInv'
    <3>1. CASE l # ScanLeg
      BY <2>1, <2>4, <3>1 DEF BuildLeg
    <3>2. CASE l = ScanLeg
      <4>1. job = "wait" /\ Repair(run)
        <5>1. leg[ScanLeg] = "build" /\ OwnTurn /\ Repair(run)
          BY <2>4, <3>2 DEF BuildLeg, Build, Goes
        <5>. QED  BY <5>1, ScanLegAssumption DEF ScanInv, OwnTurn, WheelsLinuxPassed
      <4>2. PICK base \in Base \cup {NoSbom}, view \in View :
              /\ sees' = view
              /\ sbom' = IF base = NoSbom THEN NoSbom ELSE Augmented(base, view, run)
        BY <4>1 DEF Repair
      <4>3. describes' = run /\ UNCHANGED <<scan, names, snapshot, job>>
        BY <4>1 DEF Repair
      <4>4. sbom' # NoSbom => \E b \in Base : sbom' = Augmented(b, sees', describes')
        BY <4>2, <4>3
      <4>. QED  BY <2>0, <4>1, <4>2, <4>3, <4>4 DEF SbomInv
    <3>. QED  BY <3>1, <3>2
  <2>5. ASSUME NEW l \in Leg, LegStep(l)
        PROVE  SbomInv'
    BY <2>1, <2>5 DEF LegStep
  <2>6. ASSUME NEW p \in PatchSet, EvictEntry(p)
        PROVE  SbomInv'
    BY <2>1, <2>6 DEF EvictEntry
  <2>7. CASE StartScan
    <3>1. /\ job = "wait" /\ job' = "extract" /\ names' = ShaOf(run)
          /\ UNCHANGED <<wheelVars, scan, snapshot>>
      BY <2>7 DEF StartScan, StartJob
    <3>2. snapshot.sha = 0 \/ snapshot.sha < ShaOf(run)
      BY <3>1 DEF ScanInv
    <3>3. ShaOf(run) \in Nat /\ snapshot.sha \in Nat
      BY <2>0 DEF ShaOf, ScanInv
    <3>4. ~ (names' # 0 /\ snapshot'.sha = names')
      BY <3>1, <3>2, <3>3
    <3>. QED  BY <3>1, <3>3, <3>4 DEF SbomInv, wheelVars
  <2>8. CASE Extract
    BY <2>8 DEF Extract, SbomInv, wheelVars
  <2>9. CASE Grype
    BY <2>9 DEF Grype, SbomInv, wheelVars
  <2>10. CASE Submit(names)
    <3>1. /\ job' # "wait" /\ UNCHANGED <<wheelVars, scan, names>>
          /\ \/ UNCHANGED snapshot
             \/ /\ sbom # NoSbom
                /\ \E resolved \in build_manifest(sbom) :
                     snapshot' = [sha |-> names, resolved |-> resolved]
      BY <2>10 DEF Submit
    <3>. QED  BY <3>1 DEF SbomInv, wheelVars
  <2>11. CASE Freed
    BY <2>2, <2>11 DEF Freed
  <2>12. CASE UNCHANGED provenanceVars
    BY <2>1, <2>12 DEF provenanceVars
  <2>. QED  BY <2>3, <2>4, <2>5, <2>6, <2>7, <2>8, <2>9, <2>10, <2>11, <2>12 DEF Next, ScanStep
<1>. QED  BY <1>1, <1>2, ComposesSource, SourceTypeCorrect, ScanInvariant, PTL DEF Spec

(* The SBOM in the wheel and the copy of it are SBOMs.                        *)
LEMMA SbomIsWellFormed ==
  ASSUME SbomInv, sbom # NoSbom
  PROVE  /\ WellFormed(sbom) /\ Entries(sbom, Root) # {}
         /\ \A c \in ToSet(Offered(sees, describes)) : c.ref \in Refs(sbom)
  BY AugmentedIsWellFormed DEF SbomInv

(* The values the variables take, whatever auditwheel wrote.                  *)
THEOREM SbomTypeCorrect == Spec => []SbomTypeOK
<1>1. ScanInv /\ SbomInv => SbomTypeOK
  <2>. SUFFICES ASSUME ScanInv, SbomInv
                PROVE  SbomTypeOK
    OBVIOUS
  <2>1. NoSbom.tools \in Nat /\ \A c \in ToSet(NoSbom.components) : Component(c)
    BY EmptyList DEF NoSbom
  <2>2. sbom.tools \in Nat /\ \A c \in ToSet(sbom.components) : Component(c)
    BY <2>1, SbomIsWellFormed DEF WellFormed
  <2>3. scan.tools \in Nat /\ \A c \in ToSet(scan.components) : Component(c)
    <3>1. CASE scan = NoSbom
      BY <2>1, <3>1
    <3>2. CASE scan # NoSbom
      <4>1. WellFormed(sbom) /\ scan = ScanCopy(sbom)
        BY <3>2, SbomIsWellFormed DEF SbomInv
      <4>. QED  BY <2>2, <4>1, CopyForGrype DEF Component
    <3>. QED  BY <3>1, <3>2
  <2>. QED  BY <2>2, <2>3 DEF ScanInv, Running, SbomInv, SbomTypeOK, Component
<1>. QED  BY <1>1, ScanInvariant, SbomInvariant, PTL

(* augment_sbom.py is idempotent on what it wrote but for the list of tools:  *)
(* whichever SBOM auditwheel wrote and whatever git said, a second run of it  *)
(* leaves one more tool there and nothing else.                               *)
THEOREM SbomAugmentedOnce == Spec => []AugmentOnce
<1>1. SbomInv => AugmentOnce
  BY SbomIsWellFormed, NothingToAdd DEF WellFormed, AugmentOnce
<1>. QED  BY <1>1, SbomInvariant, PTL

(* grype gets all components but numpy, and no dependency that leads nowhere. *)
THEOREM ScanIsConsistent == Spec => []ScanConsistent
<1>1. SbomInv => ScanConsistent
  <2>. SUFFICES ASSUME SbomInv, scan # NoSbom
                PROVE  /\ Refs(scan) = Refs(sbom) \ Unscannable
                       /\ \A d \in ToSet(scan.deps) :
                            {d.ref} \cup d.on \subseteq Refs(scan) \cup {Root}
    BY DEF ScanConsistent
  <2>1. WellFormed(sbom) /\ scan = ScanCopy(sbom)
    BY SbomIsWellFormed DEF SbomInv
  <2>. QED  BY <2>1, CopyForGrype
<1>. QED  BY <1>1, SbomInvariant, PTL

(* The dependency graph gets the package URL of every component.              *)
THEOREM SnapshotHasAll == Spec => []SnapshotComplete
<1>1. SbomInv => SnapshotComplete
  BY SbomIsWellFormed, ManifestHasAll DEF SbomInv, SnapshotComplete
<1>. QED  BY <1>1, SbomInvariant, PTL

(* The sources that a snapshot lists are those of the checkout that belongs   *)
(* to the commit it names, however many pushes and cancelled jobs later it is *)
(* submitted, on master and for pull requests.                                *)
THEOREM SnapshotIsOfCommit == Spec => []SnapshotOfCommit
<1>1. Init => SnapshotOfCommit
  BY DEF Init, SbomInit, NoSnapshot, SnapshotOfCommit
<1>2. ScanInv /\ SbomInv /\ SnapshotOfCommit /\ [Next]_provenanceVars => SnapshotOfCommit'
  <2>. SUFFICES ASSUME ScanInv, SbomInv, SnapshotOfCommit, [Next]_provenanceVars
                PROVE  SnapshotOfCommit'
    OBVIOUS
  <2>1. pull' = pull
    BY DEF Next, PushCancels, LegStep, BuildLeg, EvictEntry, StartScan, ScanStep, provenanceVars
  <2>2. CASE snapshot' = snapshot
    BY <2>1, <2>2 DEF SnapshotOfCommit, ShaOf
  <2>3. CASE snapshot' # snapshot
    <3>1. Submit(names)
      BY <2>3 DEF Next, PushCancels, Cancel, Clear, LegStep, BuildLeg, Repair, EvictEntry,
                  StartScan, StartJob, ScanStep, Extract, Grype, Freed, provenanceVars, sbomVars
    <3>2. PICK resolved \in build_manifest(sbom) :
            snapshot' = [sha |-> names, resolved |-> resolved]
      BY <2>3, <3>1 DEF Submit
    <3>3. sbom # NoSbom /\ names = ShaOf(describes)
      BY <2>3, <3>1 DEF Submit, ScanInv
    <3>4. PICK base \in Base : sbom = Augmented(base, sees, describes)
      BY <3>3 DEF SbomInv
    <3>5. ASSUME NEW r \in 1 .. MaxRuns, NEW e \in resolved, e.purl \in SourcesOf(r)
          PROVE  r = describes
      <4>1. WellFormed(sbom)
        BY <3>3, SbomIsWellFormed
      <4>2. {f.purl : f \in resolved} =
              {c.purl : c \in {d \in ToSet(sbom.components) : d.ref # Root}}
        BY <4>1, ManifestHasAll
      <4>3. PICK c \in ToSet(sbom.components) : c.purl = e.purl
        BY <4>2
      <4>. QED  BY <3>4, <3>5, <4>3, SourcesAreOfOne
    <3>6. snapshot'.sha = ShaOf(describes) /\ snapshot'.resolved = resolved
      BY <3>2, <3>3
    <3>. QED  BY <2>1, <3>5, <3>6 DEF SnapshotOfCommit, ShaOf
  <2>. QED  BY <2>2, <2>3
<1>. QED  BY <1>1, <1>2, ScanInvariant, SbomInvariant, PTL DEF Spec
==============================================================================
