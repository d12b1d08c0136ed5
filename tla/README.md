# itis-dakota in TLA+

itis-dakota packages Sandia's Dakota as Python wheels: it downloads the Dakota
sources, patches them, builds them with CMake for three platforms, repairs the
wheels so that they carry their shared libraries, tests them and publishes them.
Dakota itself is not in the repository. What can go wrong in the code that *is*
here is in the preparation of the sources, in the repair scripts, in the command
that starts Dakota on a Mac, in the integrity gate, in the workflow that tags,
publishes and reports what a wheel contains, and in the patch that gives Python
its `study` class; that is what these modules model.

## Inventory

| Part | State it keeps | Operations | Hard behaviour | What makes it correct |
|---|---|---|---|---|
| `stage_exe_dlls` (`scripts/repair_wheel_windows.py` L151-254) | pool, work list, `seen`, `missing`, the extracted scripts directory, the wheel | pop a name, skip, miss, stage, refuse, replace the archive | import cycles; files of one name in two places; mangled names; a crash at any point | `dakota.exe` finds every DLL; only needed DLLs are added; the wheel changes at once or not at all |
| Driver of the Windows repair (L87-148, L265-293) | scratch directory, PATH, destination wheel, RECORD | prestrip, delvewheel, stage, verify | any call raises; a half-done wheel under its final name; MSYS2's directory before the staged ones on PATH | exit status 0 means a whole wheel |
| Linux repair (`scripts/repair_wheel.sh`) | the saved program, the unpacked wheel, RECORD | save, auditwheel, rename, restore, drop duplicates, drop ICU, set search paths, pack | names matched by globs; files and RECORD edited apart; swallowed failures | nothing but ICU is asked for in vain; the program put back asks for what it was linked with; search paths lead to the libraries once installed; RECORD is right |
| macOS repair (`scripts/repair_wheel_macos.sh`) | bundle directory, load commands, signatures | move, rewrite, merge copies, empty ICU, sign, pack | each step undoes or relies on an earlier one; failures of otool and nm that nobody sees | every binary loads: names, places and signatures agree; no import is lost |
| macOS launcher (same file, L108-201) | the link `<tmp>/itis_dakota_<uid>/Python`, shared by all launches of a user | islink, readlink, unlink, exists, symlink, exec | launches interleave; one is killed; a Python was removed | the program runs on the Python that launched it |
| Integrity gate (`scripts/verify_wheels.py`) | `wheelhouse/`, `.cibw_wheels_safe/` | check, recover, give up | corrupted deliveries; copies of an earlier run | nothing corrupted is uploaded; the exit status is true |
| Release pipeline (`.github/workflows/buildwheels.yml`) | commits, runs and their jobs, tags, releases, two indexes | push, schedule, re-run, cancel, tag, build, test, release, upload | cancellation inside an upload, re-runs of old code, two tags on one commit, failing jobs | what is published was together when a test passed, is the tagged code, went to Test PyPI first; a push is published unless it fails or is replaced |
| SBOM scripts (`augment_sbom.py`, `sbom_for_scan.py`, `submit_sbom_snapshot.py`) and the job `sbom-scan` | the SBOM file in the wheel, the copy for grype, GitHub's dependency graph | add components, pack anew, leave out numpy, submit | what git answers for sources without a repository; several components of one reference; steps that run after failures and in cancelled jobs; pull requests | augmenting twice adds nothing; no dependency leads to nothing; the graph is told all of the SBOM of that commit's run |
| `study` bindings (`src_patches_v624/src_dakota_python.cpp.patch`) | one callback per interface of a Dakota environment | four constructors, execute, results | overloads that take one another's arguments; one slot for several drivers; several studies; failure half-way through construction | a study calls what was given for it; each driver calls its own entry |
| Source tree (`Makefile` L153-160, cache steps of the workflow) | the `dakota/` directory of each leg, the cache | download, patch, guard, build, cache, evict | half-extracted and half-patched trees, cancelled runs | a leg compiles the whole patched tree of its own commit |
| Stubs (`normalize_stubs.py`, `generate_stubs.sh`, the step of one leg) | the committed stub | generate, normalise, compare | scripts that stop half-way; one leg of six looks | what all legs ship agrees with the stub |
| Everything else | - | - | - | see `PROJECT.json`, `components` |

The parts interact through files: a leg restores or makes the source tree, the
build backend makes a wheel of it, one of the
three repair scripts rewrites it, cibuildwheel copies it to `wheelhouse/`, the
gate checks it, the leg tests and uploads it, and the jobs at the end of the
workflow download all of them, publish them, and report the SBOM of one. The launcher is written into the
macOS wheel by the repair script and runs on the user's machine. The hazards,
each at its line and with the properties that watch it, are the list `hazards`
of `PROJECT.json`.

## Modules

| Module | Models | Role |
|---|---|---|
| `ExeBundle` | what `stage_exe_dlls` promises | abstract specification: deliver, refuse or crash in one step |
| `DllClosure` | `stage_exe_dlls` | the work list; `Bundle == INSTANCE ExeBundle WITH ...` |
| `WindowsRepair` | `main` of `repair_wheel_windows.py` | the driver; EXTENDS `DllClosure` and takes its steps as its own |
| `LinuxRepair` | `repair_wheel.sh`, and what `augment_sbom.py` does to RECORD | one action per step of the script |
| `MacBundle` | `repair_wheel_macos.sh` after delocate | one action per step of the script |
| `MacLauncher` | the wrapper inside that script | one action per system call, any number of processes |
| `WheelGate` | `verify_wheels.py` with the linux leg around it and `make act-linux` | one action per outcome of the loop's body |
| `Publication` | what those runs promise about tags, releases and the two indexes | abstract specification: one action per thing that becomes public, and per test |
| `ReleasePipeline` | the runs of `buildwheels.yml` on master, and the version git gives a wheel (`pyproject.toml`) | one action per event, job and GitHub decision; `Pub == INSTANCE Publication WITH ...` |
| `DakotaSource` | `get-dakota-src`, the cache and the stub check | one action per step of a leg |
| `WheelSbom` | the three SBOM scripts | operators on SBOMs, one action per step of `sbom-scan` |
| `Provenance` | jobs `wheels-linux`, `wheels-macos` and `sbom-scan`, on master or for a pull request | composes `DakotaSource` and `WheelSbom` |
| `Study` | the patch of `dakota.environment.study` | one action per outcome of a constructor and per call in or out of Dakota |
| `*Proofs` | - | theorems about the module of that name, and the modules it composes, and their proofs |
| `MC*` | - | constants for TLC |

How state and actions correspond to the code:

* **DllClosure.** `pool`, `work`, `seen`, `missing`, `scripts` are the variables
  of the function (`scripts` is the extracted directory `scripts_dir`, `wheel`
  the same directory in the file). The pool is a constant function of the
  listing, so it is defined and not stepped. `Skip`, `Miss` and `Stage` are the
  three ways through the loop's body, `Refuse` the `SystemExit`, `Replace` the
  end of the function (`rezip` writes a temporary file and replaces the wheel by
  `os.replace`), `Crash` an exception or a lost runner at any point. The work
  list is a set: it is filled from Python sets, whose order is arbitrary.
  `LayoutAssumption` states what delvewheel leaves: `itis_dakota-<v>.data` sorts
  before `itis_dakota.libs`, only vendored files are mangled, one directory has
  no two files of a name. `SystemAssumption` says that the staged DLLs shadow
  none of Windows' own; without it the closure, which never follows a system
  name, could miss the imports of the shadowing file.
* **WindowsRepair.** `step` is the place in `main`; `packed` is the stripped
  wheel's scripts directory, `onPath` what PATH has under the name of a staged
  DLL (`MSYS_UCRT64_BIN` comes first, L275 and L125, so it may be MSYS2's), `dest` the wheel in `dest_dir`, `record` what its RECORD says of the
  scripts directory. The actions are the calls of L268-283 in their order; the
  loop's own actions are taken unchanged, with `rewrite_record` joined to the
  end of the function it is called from. Any call of the `try` block may raise
  (`FailInTry`, which is a `Crash` for `DllClosure`), and delvewheel may have
  begun to write when it does.
* **LinuxRepair.** `needed` and `rpath` are the dynamic sections of the unpacked
  wheel; `files` and `record` hold the shared libraries by directory; `fresh`
  says whether RECORD's hashes are right. Every status that the script does not
  look at is a choice: `Save` may come back without the program (L31), the
  program may not be where L86 looks for it (`NotReplaced`), patchelf may fail
  inside `$(... | grep)` (L106, remembered in `unread`) and under `find -exec`
  (L132, remembered in `unset`). The glob of L72-74 is modelled on names:
  `Dashed[l]` are the libraries whose file names `<base>-*.so*` matches, and
  `First` is the one that `ls` lists first. `Levels` is the computation of
  L123-130 on a path, `ExtDir`. auditwheel is external: it vendors the closure of
  what the wheel needs, renames entries, sets search paths for the layout inside
  the wheel, and moves the program, or does not (`moved`). Anything may be linked
  with ICU.
* **MacBundle.** `refs` are the load commands (name and directory part), `uses`
  what `nm -m` shows, `signed` the valid signatures. In each step one of the sets
  `Blind` of binaries may go unread by `file`, `otool` or `nm`, whose status is
  lost in a pipe or not looked at (L243, L271, L326, L367, L410); `missed` and
  `unseen` remember them. A wheel may have no program, and the program may name a
  Python that neither pattern of L267 matches. delocate is external: it
  bundles what the wheel loads, and the program's names are those L96-102
  describe (the header, L22-24, says of older versions of delocate that they do
  not look at the program). Whether two copies are near in size and whether an
  LC_ID_DYLIB can be parsed are free choices.
* **MacLauncher.** `link` is the one shared file; a link to a library in
  `GoneLib` dangles. `readlink`, `unlink` and `symlink` raise as Python's do.
  `bound` is what dyld finds when the program starts. The directory (L180) is
  there for ever.
* **WheelGate.** `house`, `safe` and `artifact` are the three places a wheel can
  be, with the health of the file (a bad entry, a stream the inflater rejects)
  and the run that built it. A repair writes a safe copy (`Build`), unless the
  directory is read-only or the wheel has no program (`BuildPlain`,
  `repair_wheel.sh` L36-43); `backed` remembers which did.
* **ReleasePipeline.** A run has a commit, a status, an attempt, the state of
  its jobs, its tag and the artifacts its legs uploaded. `Superseded` and `Entry`
  are the concurrency group with `cancel-in-progress`; `lost` remembers the runs
  whose turn a later event took. A job may fail at any time. The job `test`
  installs the artifacts of the legs in `Tested` (five of them, L568-596), and
  leaves the others as they are (`Seen`). The version of a wheel is not the tag
  job's output: the build asks `git describe` for a tag of the checked-out commit
  (`pyproject.toml` L46-48), and where a full re-run of old code has given the
  commit a second tag, `BuildLeg` takes either. `Release` makes the release, and
  its assets may then fail or be cut; the uploads go file by file. What GitHub,
  the tag action and the indexes do is external: a commit that has the latest tag
  keeps it, an existing tag or release makes its job fail, an index takes a file
  name once. `Publication` keeps the tags' commits, the sets of artifacts that
  passed, the releases and the files; runs, jobs, attempts and the concurrency
  group are not in it. Of a version whose commit has another tag it promises
  only that its files are of that commit, are never replaced, and reach PyPI by
  way of Test PyPI (`Sole`).
* **DakotaSource.** A tree has the patch set it was made from, how far its
  extraction went, and the patches applied. The loop of L157-160 goes on after a
  patch that fails, so `Patched` leaves out those that are rejected, and the
  recipe's status is that of the last (`RecipeSucceeds`). `GuardSkips` looks at
  CMakeLists.txt only, as the workflow does; a tree may have it and be half
  extracted. The post step of actions/cache saves after a job that did not fail.
  A push cancels all legs, which come back on fresh runners. A stub is its
  annotations and a count of the aliases inserted, which is what
  `normalize_stubs.py` changes; `Stub` has all that `generate_stubs.sh` may
  leave, its early ends included. The legs are those that share a cache key,
  which those of Linux and of macOS do (L103, L347); Windows has a key of its
  own.
* **WheelSbom.** An SBOM is its list of components, its list of dependencies and
  the length of `metadata.tools`. `View` is what git says: nothing, a GitHub
  remote, another one. The tarball is flat, so git answers for the checkout, and
  the same for all four sources. The readers take what the code takes: the last
  of several components with one reference, the first dependency entry of one,
  one entry of the snapshot for each name (`Dicts`: the order of `dependsOn` is
  left open). `Extract`, `Grype` and `Submit` are the steps of the job with their
  `always()` and `continue-on-error`; the verdict of grype and the HTTP request
  are choices. `Cancel` lets a job that a push has cancelled go on to its
  `always()` steps, and the next run waits until it has ended (`Freed`).
* **Provenance.** `BuildLeg` is `DakotaSource!Build` together with the repair
  that writes the SBOM, `StartScan` waits for the linux legs, as `needs` does. On
  the branch of a pull request (`pull`) the legs check out the merge commit, and
  the snapshot is submitted under the head of the branch (`ShaOf`, L242).
* **Study.** `made` holds the calls of the constructor, `slot` the one callback
  per interface, `called` the last evaluation. `Overload` has the four `py::init`
  in the order of the file and `Chosen` is the first that accepts a call, as
  pybind11 does it. `Registered` walks the drivers of an interface, each found
  one overwriting the slot. A text asks for exit mode throw (L165-166), JSON
  does not (L184). A constructor is one step; `execute` is many, since its
  callbacks are Python code that may make and execute other studies, nested or in
  another thread.

## Runs

| Run | Question | Bounds | Answer |
|---|---|---|---|
| `dll_closure` | does the whole Windows repair deliver what the program needs, tell the truth, and end | 7 names, 3 files (one staged DLL, its mangled copy, one vendored DLL), 6 import tables to choose from for each, a failure at any step | holds |
| `linux_repair` | is the repaired wheel whole | 8 libraries, one whose name begins with another's and one that goes on with a dash, any staged subset, 4 sets of direct needs for program and extension | holds |
| `mac_bundle` | have the steps not lost one another's work | 4 libraries, one in two copies, any staged subset, 80 link patterns, one unread binary in each step | holds |
| `mac_bundle_icu` | is the extension self-contained | as above | violated, see below |
| `mac_launcher` | does a launch run on its own Python | 3 processes, 2 launches each, 2 libraries and one removed | holds for launches that do not overlap, and for one Python |
| `mac_launcher_race` | and for overlapping launches of two Pythons | 2 processes, 1 launch each | violated, see below |
| `wheel_gate` | can a bad or old wheel be uploaded | 2 wheels, 2 runs in one checkout | only an old one, where this run wrote no safe copy |
| `wheel_gate_swap` | is a corrupted wheel always swapped | 1 wheel, 1 run | violated, see below |
| `release` | what can be published, is a push published, and do the runs together publish as `Publication` says | 2 legs, one of them tested, 1 wheel each, 2 events, 1 re-run, 3 versions | holds |
| `provenance` | does a leg compile its own commit, and is the graph told of it | 2 linux legs and one of macOS, 2 pushes, 3 patch sets of 3 patches (all apply; the bindings patch is rejected; the last is), 2 SBOMs of auditwheel | holds |
| `study` | does a study call its own callbacks | 2 studies, 2 interfaces, one with 2 drivers, 4 dicts, 2 callables, an object that cannot be called | holds |
| `study_keyed` | does each driver call its own entry of the dict | 1 study | violated, see below |

Why the bounds are enough to be interesting. In `dll_closure` the import tables
contain cycles, mangled and dashed names, a DLL that is in the wheel twice, one
of the system, one of the virtual environment and one that nobody has; a longer
chain adds nothing that the theorems do not cover for every size. Two processes
suffice for a race on one link, three for a launch between the calls of two that
race, and two launches each for a link that an earlier launch left. Two wheels show a hopeless one before a healthy one; two
runs an old safe copy. In `release` two events are what it takes to cancel, to
supersede and to overtake; the re-run may be of either run, whole or of the
failed jobs, and gives an old commit its second tag. In `provenance` two pushes
are a run that fills the cache or is cut while it does, and one that restores from
it; a cancelled job that submits, and the run that waits for it; what a third push
could add is an older cache entry, which the theorems cover. In `study` two studies are enough for a callback of one to make or
execute the other. The bounds are `MaxLaunches`, `MaxRuns` (of `WheelGate`,
`ReleasePipeline` and `DakotaSource`), `MaxVersion`, `MaxReruns` and
`MaxStudies`; all are constants used only in guards. The theorems below hold for
every value of them.

`CHECK_DEADLOCK FALSE` stands in all configurations: each of these programs ends.

Some of the passing properties need reading with care.

* `TreeOfCommit` holds although the guard is weak, because nothing but a finished
  leg saves a tree and the key is the hash of the patches; it speaks of a rejected
  patch that is not the last as the code does, by leaving it out. The key does not
  hold the tarball's address or the list of excluded links (`Makefile` L109-151),
  which the model takes as fixed: a change of those alone is not seen by a leg that
  restores the cache, nor by a local checkout that has a `dakota/` already.
* `AllResolve`, `SearchPathsLead`, `RefsResolve` and `ImportsKept` name the
  failures that the scripts pass over, and hold of everything else. ICU may be
  asked for in vain by a library other than Boost.Regex, since L103 claims nothing
  about the others; the glob may give the program one library for another if the
  name of the second goes on from the first's with a dash.
* `TestedTogether` says what the job `test` makes true: it installs five artifacts
  and the rest were tested in their own legs. It does not say that the artifacts
  are of one attempt, since a re-run of the failed jobs keeps the others. It and
  part of `PublicationSpec` except a version whose commit has a second tag: in that
  case wheels of two runs can meet under one version. `CodeIsTagged` excepts
  nothing.
* `PushIsPublished` excepts a push whose turn a later event took. That event may be
  the weekly schedule, which publishes nothing (L618).
* `OwnCallback` is exact where an interface has one driver, and silent about a dict
  for an interface with several, where `KeyedByDriver` fails. `DictIsMap` is about
  the keyword `callbacks`: a dict passed by position reaches the constructor for
  one callback.
* `SnapshotComplete` is about package URLs. With a GitHub remote the four vendored
  sources share one, and the snapshot names only the last of them.

### What the violated runs show

* `mac_launcher_race`: `islink`, `readlink`, `unlink`, `exists` and `symlink` are
  separate calls on one path (L183-186), and dyld reads it after `execv`. A
  launch of Python 3.12 and one of 3.13 that overlap can leave the first on the
  library of the second. `OnePython` shows that users of one Python are safe.
* `wheel_gate_swap`: `_first_bad` catches `BadZipFile`; a broken deflate stream
  raises `zlib.error`, the gate stops, and the healthy copy stays unused. The
  job still fails, so `UploadSound` holds.
* `mac_bundle_icu`: step 3c looks for imports outside the ICU family only. If an
  ICU library is kept, its own imports from a sibling that was emptied are not
  looked at.
* `study_keyed`: a pybind11 interface has one callback, and the loop over its
  drivers (L449-453 of the patch) registers every entry that it finds, so that the
  last driver's callback serves all. `normalize_stubs.py` L14-15 says that
  `callbacks` is keyed by analysis-driver id.

## Fairness

`FairRepair` of `WindowsRepair` assumes weak fairness of `RepairProgress`, the
steps of the script: a sequential program that is not killed goes on (`FailInTry`
and `LoopCrashes`, which are not in it, end it otherwise). `FairSpec` of
`DllClosure` says the same of the loop alone. The other modules state safety only:
of the workflow's progress `PushIsPublished` says what can be said without
fairness, that a run which is not replaced and fails in no job does not end before
all is published.

## What is proved

All theorems hold for every value of the constants that satisfies the named
assumption of the module (`DllAssumptions`, `RepairAssumptions`,
`BundleAssumptions`, `SourceAssumptions`, `ScanLegAssumption`, `BaseAssumption`,
`GateAssumptions`, `LauncherAssumptions`, `StudyAssumptions`,
`PipelineAssumptions`); the runs evaluate the assumptions. All invariants and
action properties that the passing runs check are theorems.

Three of the assumptions say what an external tool does. `RepairAssumptions`: a
library's own hashed file matches the glob of its name, a name that goes on from
one outside ICU with a dash is no ICU library, and `ls` lists one of the files that match first. `BundleAssumptions`: there are
finitely many libraries, a binary imports only from libraries it loads, and the
copies of an ICU library are ICU libraries. `BaseAssumption`: auditwheel gives one
package one URL and one name, lists every component as a dependency of the wheel in
one entry, lets no dependency lead to what it does not list, and lists packages of
the system, none of which is named as those that are added.

**`WindowsRepairProofs`**, the loop, for all sets of names and files, all listings
and all import tables:

* `TypeCorrect`: `Spec => []TypeOK`;
* `WorkListCorrect`: `Spec => []WorkListInv`, the inductive invariant. It says
  that the names seen are resolved by the pool or missing (`Resolved`), that
  what a resolved DLL imports is seen, pending or the system's (`Covered`), that
  every set closed under imports holds all that was asked for (`OnlyNeeded`),
  and that the wheel is the old directory or the finished one (`WheelWhole`).
  The lemma `ScriptsFirst` is what makes it inductive over `scripts`: a file that
  is already in the scripts directory is the pool's choice for its name, so
  "copy if absent" and "the pool's file" agree;
* `FinishedExeLoads`: `Spec => []ExeLoads`, with the witness `seen \cup System`;
* `ImplementsBundle`: `Spec => BundleSpec`. At the end of the loop `seen` is the
  set that `ExeBundle` calls `Needed`: `Covered` with an empty work list makes
  it closed, `OnlyNeeded` makes it the least.

The driver: `ComposesClosure`, that every step of the repair is a step of
`DllClosure` or leaves it alone, which carries the theorems above over, so that
the whole repair implements `ExeBundle` (`RepairImplementsBundle`);
`ExitIsTrue` (`ExitTruth`), from the invariant
`Finished`, which ties the states of the driver after the loop to those of the
loop and RECORD to the wheel.

**`LinuxRepairProofs`**: `LinuxInvariant`, the invariant `RepairInv`. From
auditwheel on, between any two steps of the script, no shipped file asks for a
library that is not there, until ICU goes, and from then on for none but ICU
(`Resolved`): auditwheel vendors a closed set, in whatever cycles the libraries
need each other (`VendoredIsClosed`), and what the glob makes of an entry is there
and is of the same library if no other name goes on from its name with a dash
(`RenamedIs`). That the program which is put back asks for what it was linked with
needs `SavedAsLinked`. `LevelsOfExt` evaluates the computation of L123-130 for a
package of any depth, in `*.data/platlib` or not. `Restored` and `Recorded` follow
the program, the search paths and RECORD along. `AllResolve`, `SearchPathsLead` and
`RecordExact` are what these say at the end (`LinuxWheelLoads`,
`LinuxSearchPathsLead`, `LinuxRecordIsExact`).

**`MacBundleProofs`**: `MacInvariant`, the invariant `BundleInv`, about the
binaries that no tool failed on (`Read`): what one loads by a name the script knows
is in the wheel (`Closed`); old places are empty after step 2 (`Moved`); from step 3
on the directory parts are those of the installed layout (`Rewritten`); only step 3c
empties libraries, and no import that nm showed is lost to it (`Imported`); what
step 4 leaves is signed (`Resigned`). `Closed` needs that delocate's search ends in a
closed set (`LoadedIsClosed`), and the merging of copies that the copy which stays is
one of them (`KeepIsACopy`), for which the order by depth and name has a last element
in any set of copies (`BeforeIsOrder`, `HasLastCopy`: the one with the fewest copies
after it). `RefsResolve` and `ImportsKept` follow (`MacWheelLoads`,
`MacImportsKept`).

**`ProvenanceProofs`**, the sources: `SourceInvariant`, whose parts are that the cache holds
good trees of the right patch set only (`CacheGood`), that what was restored is
good or nothing (`RestoredGood`: this is why a guard that looks at one file is
enough), that what is built is good (`BuiltGood`), and that the leg with the stub
check is past it with the right stub only (`GatePassed`). `TreeOfCommit` and
`StubGate` follow; for the latter, all legs have equal trees.

The workflow: `ComposesSource` carries `TreeOfCommit` and `StubGate`
over to it. `ScanInvariant` says of which run the wheel, the SBOM and the job are,
that a cancelled job keeps the next run from its turn, and that commits are
submitted in order, so that what the graph has is not this job's before it submits.

The SBOM: `SbomInvariant` says that the SBOM in the wheel is one that
`augment_sbom.py` wrote, and that the copy for grype and the snapshot of the job's
commit are made of this one. What such an SBOM is like is
in lemmas: `WithoutDrops` for the list comprehensions of the three scripts,
`AugmentedIs` for its parts, `AugmentedIsWellFormed` (`WellFormed`: equal
references have equal URLs, every dependency leads to something, the wheel
depends on all components), `NothingToAdd` for a second run, `CopyForGrype` and
`ManifestHasAll` for the readers. `SbomAugmentedOnce`, `ScanIsConsistent`,
`SnapshotHasAll` and `SbomTypeCorrect` follow, for any SBOM of auditwheel and any
answer of git. `SnapshotIsOfCommit` needs that a vendored URL is offered by one
checkout only, and by no package that auditwheel lists (`SourcesAreOfOne`). Facts
about all places of a list are proved on the set of places
where they hold: `Along` takes the least place that is not in it, `HasLast` finds
a last one. Both rest on the order of the numbers being well founded, so no
induction theorem of the library is needed.

**`WheelGateProofs`**: `UploadIsSound` and `GateIsThorough`, from `GateInv`: a wheel
that this run's repair backed is of this run, and so is its safe copy (`OfRun`); a
corrupted wheel the loop is past had no healthy copy and is remembered in `failed`,
which is true for no other reason (`Passed`); what is tested or uploaded is not
corrupted (`Clean`).

**`MacLauncherProofs`**: `OnePythonIsSafe`, from `Shared`: as long as all launches
share a library the link is that library's or absent, and no launch gets to
unlink it. `SoloLaunchIsSafe`, from `Solo`: what a launch without company has read is
still so, and nobody else is between two calls (`OthersDoNotDisturb`).

**`StudyProofs`**: `CallbacksAreOwn` and `DictsAreMaps`, from
`StudyInv`: the slots of a study hold what was registered for its call
(`SlotsKept`), what was called is from the slot (`CalledKept`), nothing runs after
Python is down (`Down`). The lemma `ChosenAccepts` settles the overloads,
`RegisteredIsGiven` the walk over the drivers, `HasLast` that a last one exists.

**`ReleasePipelineProofs`**: `PipelineTypeInvariant` strengthens the types by the
order of jobs (`Ordered`: a job that ran, ran after those it needs) and the number
of runs (`Bounds`). `PublishInvariant` is the invariant of publication: legs build
the commit of their run's tag, under a version of that commit (`BuiltTagged`), a test
that passed was of what the run holds (`TestPassed`), the run that made a release
owns every file of that version, if it is its commit's only one (`Owns`), and no
other run does (`OneOwner`), what its uploads sent is there (`Rehearses`,
`Publishes`), files are of tagged versions, and of released ones (`FilesReleased`).
`OneOwner` is the key: a release is made once, and before its assets, so a second run
that got the same tag fails before it can upload. That a tag is the only one of its
commit can only be lost (`SoleBefore`), so what is said under this condition needs no
more than steps that had it before. `TestedTogether` and `CodeIsTagged` follow, and
`RehearsedFirst`, which is stated beside its proof: PyPI has only what Test PyPI has,
and, under the same condition, has whole, of a version with a release.
`TurnInvariant` says that a run which no event replaced is not being cancelled and
ends only when none of its jobs could go on (`Done`); with `Rehearses` and
`Publishes` this gives `PushIsPublished`.
`ImplementsPublication` shows step by step that the pipeline implements
`Publication`: tagging, testing, making a release and sending a file are its
actions, every other step of a run or of GitHub leaves what is public alone. The
steps need `PublishInv` for whose artifacts a file is (`BuiltOfTag`) and
`HistoryInv` for that a tag is of a commit. `PipelineAssumptions` asks for at
least one leg: a workflow without one would test nothing, of no tag.
`HistoryInvariant` proves `VersionsFollowHistory` from `OnlyNewest`: among first
attempts only the run of the last event goes on.

## What is only model-checked

`Terminates`: liveness under fairness is beyond the prover.
That the `sorted` of Python, auditwheel, delocate, patchelf, install_name_tool,
the archive formats, pybind11, Dakota and the services behave as modelled is
assumed.

## What is not modelled

* The root CMake project and the build configuration: declarations.
* The numerical and toolchain patches: a few lines each, in code that is not in
  the repository. The bindings' patch is a whole file's worth, and is `Study`.
* The build backend (two calls in a row), the lock check (one `diff`), the health
  check (one install), the script that builds Boost.Regex (a straight line), the
  older patch sets and the superseded repair script (used by no recipe).
* `make wheel`, `test` and `clean`: they act on one directory and call external
  tools. The stamp `wheelhouse/.built` (L78) says that a wheel was built, not that
  it is there still.
* The pre-commit hook for stubs, which does what the gate does, and the virtual
  environment of `generate_stubs.sh`.
* The release jobs in runs of pull requests: their conditions skip them. The
  snapshots that such runs submit are in `Provenance`.
* The environment that stays allocated when the cast of a dict raises (patch
  L438-440): memory is not in the model.

## Plan

Done, in this order: `ExeBundle`, `DllClosure` and its proofs, `MacLauncher`,
`WheelGate`, `ReleasePipeline` and `Publication`, `MacBundle`, `LinuxRepair`; then `WindowsRepair`,
`DakotaSource`, `WheelSbom`, `Provenance`, `Study`, and the proofs of all modules.

Next:

1. The two passes over the static archives in the root CMake project as a small
   module on graphs.
