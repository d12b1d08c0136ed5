---------------------------- MODULE DakotaSource ----------------------------
(***************************************************************************)
(* Where the Dakota sources of a wheel come from: `make get-dakota-src`    *)
(* unpacks a tarball and applies src_patches_v624/*.patch in the order of  *)
(* their names; the build legs of buildwheels.yml run it unless a cache    *)
(* restored the patched tree, and one leg compares the committed stub with *)
(* the extension it built.                                                 *)
(*                                                                         *)
(* The legs are those that share a cache key, on Linux and on macOS; the   *)
(* key on Windows is another.  Every push cancels the run before it (the   *)
(* concurrency group) and its legs get fresh runners.                      *)
(***************************************************************************)
EXTENDS Naturals

CONSTANTS
  PatchSet,   \* what the directory src_patches_v624 may hold
  NPatch,     \* how many files it has, numbered in the order of the loop
  Bindings,   \* the number of src_dakota_python.cpp.patch
  Rejected,   \* [PatchSet -> SUBSET (1 .. NPatch)]: those `patch` fails on
  Parameters, \* [PatchSet -> annotations of study's parameters in the patch]
  Upstream,   \* the annotations of study's parameters without the patch
  Leg,
  GateLeg,    \* the leg with the step "Check stubs are up to date"
  MaxRuns     \* bound: pushes

ASSUME SourceAssumptions ==
  /\ NPatch \in Nat \ {0}
  /\ Bindings \in 1 .. NPatch
  /\ Rejected \in [PatchSet -> SUBSET (1 .. NPatch)]
  /\ GateLeg \in Leg
  /\ MaxRuns \in Nat

VARIABLES
  commit,   \* [patches, stub]: what was pushed last
  run,      \* number of the push, 0 before the first
  leg,      \* [Leg -> where the leg's job is]
  tree,     \* [Leg -> the directory dakota/ on the leg's runner]
  cache     \* [PatchSet -> tree]: the cache entry under each key

sourceVars == <<commit, run, leg, tree, cache>>

Patch == 1 .. NPatch

(* "part" is a tree whose extraction ended early, before or after its         *)
(* CMakeLists.txt was written.                                                *)
Tree == [of : PatchSet, files : {"none", "part", "part_cmake", "whole"},
         applied : SUBSET Patch]

NoTree == [of |-> CHOOSE p \in PatchSet : TRUE, files |-> "none", applied |-> {}]

HasCMakeLists(t) == t.files \in {"part_cmake", "whole"}

(* Mutant: the numbers of the loop begin at 0.                                *)
BugPatched(p) ==
  [of |-> p, files |-> "whole", applied |-> (0 .. NPatch - 1) \ Rejected[p]]

(* The loop goes on after a patch that fails; the status of the recipe is     *)
(* that of its last one.                                                      *)
Patched(p) == [of |-> p, files |-> "whole", applied |-> Patch \ Rejected[p]]

RecipeSucceeds(p) == NPatch \notin Rejected[p]

------------------------------------------------------------------------------

(* A stub: annotations as <<parameter, type>>, how often the callback         *)
(* aliases were inserted.  What pybind11-stubgen writes for an extension      *)
(* built from t:                                                              *)
RawStub(t) ==
  [types |-> IF Bindings \in t.applied THEN Parameters[t.of] ELSE Upstream,
   aliases |-> 0]

(* normalize of scripts/normalize_stubs.py; json first, then the names.       *)
Annotation(name, type) ==
  LET any == IF type = "json" THEN "typing.Any" ELSE type
  IN  CASE name = "callback" /\ any = "typing.Any"         -> "DakotaCallback"
        [] name = "callbacks" /\ any = "dict"              -> "dict[str, DakotaCallback]"
        [] any = "numpy.ndarray[numpy.float64]"            -> "numpy.typing.NDArray"
        [] OTHER                                           -> any

Normalized(stub) ==
  [types |-> {<<a[1], Annotation(a[1], a[2])>> : a \in stub.types},
   aliases |-> stub.aliases + 1]

EmptyStub == [types |-> {}, aliases |-> 0]

(* What may be committed: the output of generate_stubs.sh for the extension   *)
(* of any patch set, as it is when the script stops before normalize_stubs.py *)
(* or inside it (the file is truncated first), and after it.                  *)
Stub ==
  LET Raw == {RawStub([Patched(p) EXCEPT !.applied = A]) : p \in PatchSet, A \in SUBSET {Bindings}}
  IN  Raw \cup {Normalized(s) : s \in Raw} \cup {EmptyStub}

------------------------------------------------------------------------------

SourceInit ==
  /\ commit \in [patches : PatchSet, stub : {EmptyStub}]
  /\ run = 0
  /\ leg = [l \in Leg |-> "idle"]
  /\ tree = [l \in Leg |-> NoTree]
  /\ cache = [p \in PatchSet |-> NoTree]

Push(p, s) ==
  /\ run < MaxRuns
  /\ run' = run + 1
  /\ commit' = [patches |-> p, stub |-> s]
  /\ leg' = [l \in Leg |-> "cache"]
  /\ tree' = [l \in Leg |-> NoTree]
  /\ UNCHANGED cache

Goes(l, from, to) == leg[l] = from /\ leg' = [leg EXCEPT ![l] = to]

(* Mutant: the key of the first patch set for all of them.                    *)
BugKey(p) == CHOOSE q \in PatchSet : TRUE

(* The hash of the patches; the rest of the key is the same for ever.         *)
Key(p) == p

RestoreCache(l) ==
  /\ Goes(l, "cache", "guard")
  /\ tree' = [tree EXCEPT ![l] = cache[Key(commit.patches)]]
  /\ UNCHANGED <<commit, run, cache>>

GuardSkips(l) ==
  /\ HasCMakeLists(tree[l])
  /\ Goes(l, "guard", "build")
  /\ UNCHANGED <<commit, run, tree, cache>>

GetDakotaSrc(l) ==
  /\ ~ HasCMakeLists(tree[l])
  /\ Goes(l, "guard", IF RecipeSucceeds(commit.patches) THEN "build" ELSE "failed")
  /\ tree' = [tree EXCEPT ![l] = Patched(commit.patches)]
  /\ UNCHANGED <<commit, run, cache>>

(* curl or tar ends early; make stops before the patches.                     *)
ExtractFails(l) ==
  /\ ~ HasCMakeLists(tree[l])
  /\ Goes(l, "guard", "failed")
  /\ \E f \in {"none", "part", "part_cmake"} :
       tree' = [tree EXCEPT ![l] = [of |-> commit.patches, files |-> f, applied |-> {}]]
  /\ UNCHANGED <<commit, run, cache>>

(* cibuildwheel, the integrity gate and the tests; any of them may fail.      *)
Build(l) ==
  /\ \/ Goes(l, "build", "stubs")
     \/ Goes(l, "build", "failed")
  /\ UNCHANGED <<commit, run, tree, cache>>

(* Mutant: the status of diff is dropped.                                     *)
BugCheckStubs(l) ==
  /\ Goes(l, "stubs", "post")
  /\ UNCHANGED <<commit, run, tree, cache>>

CheckStubs(l) ==
  /\ Goes(l, "stubs",
          IF l = GateLeg /\ commit.stub # Normalized(RawStub(tree[l]))
            THEN "failed" ELSE "post")
  /\ UNCHANGED <<commit, run, tree, cache>>

(* The post step of actions/cache saves the directory after a job without     *)
(* failure, under a key that has no entry yet.                                *)
SaveCache(l) ==
  /\ Goes(l, "post", "done")
  /\ LET k == Key(commit.patches)
     IN  cache' = IF cache[k] = NoTree THEN [cache EXCEPT ![k] = tree[l]] ELSE cache
  /\ UNCHANGED <<commit, run, tree>>

Evict(p) ==
  /\ cache[p] # NoTree
  /\ cache' = [cache EXCEPT ![p] = NoTree]
  /\ UNCHANGED <<commit, run, leg, tree>>

(* The steps of a leg but Build, which a composition takes with the wheel.    *)
SourceStep(l) ==
  \/ RestoreCache(l) \/ GuardSkips(l) \/ GetDakotaSrc(l) \/ ExtractFails(l)
  \/ CheckStubs(l) \/ SaveCache(l)

SourceNext ==
  \/ \E p \in PatchSet, s \in Stub : Push(p, s)
  \/ \E l \in Leg : SourceStep(l) \/ Build(l)
  \/ \E p \in PatchSet : Evict(p)

SourceSpec == SourceInit /\ [][SourceNext]_sourceVars

------------------------------------------------------------------------------

(* The values the variables take.                                             *)
SourceTypeOK ==
  /\ commit \in [patches : PatchSet, stub : Stub]
  /\ run \in 0 .. MaxRuns
  /\ leg \in [Leg -> {"idle", "cache", "guard", "build", "stubs", "post", "done",
                    "failed"}]
  /\ tree \in [Leg -> Tree]
  /\ cache \in [PatchSet -> Tree]

(* What a leg compiles (buildwheels.yml L99-108, Makefile L153-160) is the    *)
(* whole tarball with the patches of its own commit, all but those that were  *)
(* rejected, and never the last of them: whatever other runs, failed legs and *)
(* evictions have put into or taken out of the cache.                         *)
TreeOfCommit ==
  \A l \in Leg :
    leg[l] \in {"build", "stubs", "post", "done"} =>
      /\ tree[l] = Patched(commit.patches)
      /\ NPatch \in tree[l].applied

(* When all legs are done the committed stub is the normalised stub of the    *)
(* extension in every leg's wheel, although one leg only looks (L175-194) and *)
(* although the patch of the bindings may have been rejected without a word.  *)
StubGate ==
  (\A l \in Leg : leg[l] = "done") =>
    \A l \in Leg : commit.stub = Normalized(RawStub(tree[l]))
==============================================================================
