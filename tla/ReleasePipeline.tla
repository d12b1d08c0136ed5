---------------------------- MODULE ReleasePipeline ----------------------------
(***************************************************************************)
(* The master branch of .github/workflows/buildwheels.yml: pushes and the  *)
(* weekly schedule start runs, which share one concurrency group (L25-27)  *)
(* where a newcomer cancels the run in progress and replaces the one that  *)
(* waits; a run tags its commit, builds the wheels from the tag, tests     *)
(* some of them, and, for a push, publishes all: a GitHub release, Test    *)
(* PyPI, PyPI, file by file.  A run can be cut at any point and run again. *)
(*                                                                         *)
(* The version of a wheel is not the tag job's output: setuptools_scm asks *)
(* git, in the leg, for a tag of the commit (pyproject.toml L46-48).  Which*)
(* of several tags of one commit git names is left open.                   *)
(*                                                                         *)
(* Runs of pull requests are in groups of their own and stop after the     *)
(* tests; sbom-scan and lock-check decide nothing that is published.       *)
(***************************************************************************)
EXTENDS Naturals, Sequences, FiniteSets

CONSTANTS
  Leg,         \* entries of the build matrices
  Tested,      \* the legs whose artifacts the job `test` installs (L568-596)
  Wheel,       \* the wheels of one version
  LegOf,       \* [Wheel -> Leg]
  Asked,       \* the versions that commit messages ask for, 0 for none
  MaxRuns,     \* bound: events that start a run
  MaxVersion,  \* bound: versions
  MaxReruns    \* bound: how often runs are run again

ASSUME PipelineAssumptions ==
  /\ Leg # {} /\ Tested \subseteq Leg /\ LegOf \in [Wheel -> Leg]
  /\ {"tag", "test", "release", "test-pypi", "pypi"} \cap Leg = {}
  /\ Asked \subseteq 0 .. MaxVersion
  /\ MaxRuns \in Nat /\ MaxVersion \in Nat /\ MaxReruns \in Nat

Version == 1 .. MaxVersion

Job == {"tag", "test", "release", "test-pypi", "pypi"} \cup Leg

Publishing == {"release", "test-pypi", "pypi"}

(* The `needs` of the jobs.                                                   *)
(* Mutant: pypi does not wait for test-pypi.                                  *)
BugNeedsNoTestPypi ==
  [j \in Job |-> CASE j = "tag" -> {}
                   [] j \in Leg -> {"tag"}
                   [] j = "test" -> Leg
                   [] j = "release" -> {"tag", "test"}
                   [] j = "test-pypi" -> {"release"}
                   [] j = "pypi" -> {"release"}]

Needs ==
  [j \in Job |-> CASE j = "tag" -> {}
                   [] j \in Leg -> {"tag"}
                   [] j = "test" -> Leg
                   [] j = "release" -> {"tag", "test"}
                   [] j = "test-pypi" -> {"release"}
                   [] j = "pypi" -> {"test-pypi"}]

VARIABLES
  commits,   \* master: per commit, its #version: number, or 0
  runs,      \* the runs, in the order of the events that started them
  tags,      \* [Version -> [commit, run, attempt]], or Untagged
  releases,  \* versions with a GitHub release
  testpypi, pypi,  \* files on the two indexes
  reruns,    \* how often a run was run again
  passed,    \* history: what a test job that passed installed, and what it left
  lost       \* history: runs whose turn a later event took

vars == <<commits, runs, tags, releases, testpypi, pypi, reruns, passed, lost>>

history == <<passed, lost>>

published == <<releases, testpypi, pypi>>

Untagged == [commit |-> 0, run |-> 0, attempt |-> 0]

(* What a leg uploads: the artifact of one attempt, from one commit, with the *)
(* version that git gave it.                                                  *)
Build == [run : 1 .. MaxRuns, attempt : 1 .. MaxReruns + 1, commit : 0 .. MaxRuns,
          version : Version]

NoBuild == [run |-> 0, attempt |-> 0, commit |-> 0, version |-> 0]

File == [version : Version, wheel : Wheel, build : Build]

Run == [event : {"push", "schedule"}, commit : 1 .. MaxRuns,
        status : {"pending", "running", "cancelling", "ended"},
        attempt : 1 .. MaxReruns + 1,
        job : [Job -> {"waiting", "running", "ok", "failed"}],
        tag : {0} \cup Version,
        built : [Leg -> Build \cup {NoBuild}],
        sent : SUBSET Wheel]

Tagged == {v \in Version : tags[v] # Untagged}

Latest == IF Tagged = {} THEN 0 ELSE CHOOSE v \in Tagged : \A u \in Tagged : u <= v

Init ==
  /\ commits = <<>>
  /\ runs = <<>>
  /\ tags = [v \in Version |-> Untagged]
  /\ releases = {}
  /\ testpypi = {}
  /\ pypi = {}
  /\ reruns = 0
  /\ passed = {}
  /\ lost = {}

------------------------------------------------------------------------------
(* The concurrency group.                                                     *)

(* github.workflow and github.ref: all these runs have one group.             *)
(* Mutant: each run has a group of its own (github.run_id in the expression). *)
BugGroup(r) == r

Group(r) == "buildwheels-refs/heads/master"

Active(r) == {q \in DOMAIN runs : Group(q) = Group(r)
                                  /\ runs[q].status \in {"running", "cancelling"}}

(* An event of run r tells the run in progress to stop, and the waiting one   *)
(* never starts.                                                              *)
Superseded(r, q) ==
  IF Group(q) # Group(r) THEN runs[q]
  ELSE [runs[q] EXCEPT !.status = IF @ = "running" THEN "cancelling"
                                  ELSE IF @ = "pending" THEN "ended" ELSE @]

Entry(r) == IF Active(r) = {} THEN "running" ELSE "pending"

Replaced(r) == {q \in DOMAIN runs : Superseded(r, q) # runs[q]}

Fresh(event, c) ==
  LET r == Len(runs) + 1
  IN  Append([q \in DOMAIN runs |-> Superseded(r, q)],
             [event |-> event, commit |-> c, status |-> Entry(r), attempt |-> 1,
              job |-> [j \in Job |-> "waiting"], tag |-> 0,
              built |-> [l \in Leg |-> NoBuild], sent |-> {}])

(* A push to master, whose message may ask for a version, or the schedule.    *)
Push(version) ==
  /\ Len(runs) < MaxRuns
  /\ commits' = Append(commits, version)
  /\ runs' = Fresh("push", Len(commits) + 1)
  /\ lost' = lost \cup Replaced(Len(runs) + 1)
  /\ UNCHANGED <<tags, reruns, published, passed>>

Schedule ==
  /\ Len(runs) < MaxRuns
  /\ Len(commits) > 0
  /\ runs' = Fresh("schedule", Len(commits))
  /\ lost' = lost \cup Replaced(Len(runs) + 1)
  /\ UNCHANGED <<commits, tags, reruns, published, passed>>

(* "Re-run": all the jobs, or those that did not succeed, of the same commit  *)
(* and event.                                                                 *)
Rerun(r, keep) ==
  /\ runs[r].status = "ended"
  /\ reruns < MaxReruns
  /\ reruns' = reruns + 1
  /\ keep \in {{}, {j \in Job : runs[r].job[j] = "ok"}}
  /\ keep # Job
  /\ runs' = [q \in DOMAIN runs |->
                IF q # r THEN Superseded(r, q)
                ELSE [runs[r] EXCEPT
                        !.status = Entry(r), !.attempt = reruns + 2,
                        !.job = [j \in Job |-> IF j \in keep THEN "ok" ELSE "waiting"]]]
  /\ lost' = (lost \cup Replaced(r)) \ {r}
  /\ UNCHANGED <<commits, tags, published, passed>>

Dequeue(r) ==
  /\ runs[r].status = "pending"
  /\ Active(r) = {}
  /\ runs' = [runs EXCEPT ![r].status = "running"]
  /\ UNCHANGED <<commits, tags, published, reruns, history>>

(* The cancelled run stops, wherever its jobs are.                            *)
Stop(r) ==
  /\ runs[r].status = "cancelling"
  /\ runs' = [runs EXCEPT
                ![r].status = "ended",
                ![r].job = [j \in Job |-> IF @[j] = "running" THEN "failed" ELSE @[j]]]
  /\ UNCHANGED <<commits, tags, published, reruns, history>>

------------------------------------------------------------------------------
(* The jobs of a run.                                                         *)

(* Mutant: the publishing jobs wait for a push of the tag, which the tag job, *)
(* with its GITHUB_TOKEN, never causes.                                       *)
BugCanStart(r, j) ==
  /\ runs[r].status = "running"
  /\ runs[r].job[j] = "waiting"
  /\ \A n \in Needs[j] : runs[r].job[n] = "ok"
  /\ j \notin Publishing

CanStart(r, j) ==
  /\ runs[r].status = "running"
  /\ runs[r].job[j] = "waiting"
  /\ \A n \in Needs[j] : runs[r].job[n] = "ok"
  /\ j \in Publishing => runs[r].event = "push"

(* Publishing takes several steps, so it has a beginning (of the release, see *)
(* Release); the other jobs have one effect, and being cut before or after it *)
(* is all that matters.                                                       *)
Start(r, j) ==
  /\ j \in {"test-pypi", "pypi"}
  /\ CanStart(r, j)
  /\ runs' = [runs EXCEPT ![r].job[j] = "running", ![r].sent = {}]
  /\ UNCHANGED <<commits, tags, published, reruns, history>>

(* A cancelled run's upload goes on until the run stops.                      *)
Uploading(r, j) ==
  /\ runs[r].status \in {"running", "cancelling"}
  /\ runs[r].job[j] = "running"

Fail(r, j) ==
  /\ CanStart(r, j) \/ Uploading(r, j)
  /\ runs' = [runs EXCEPT ![r].job[j] = "failed"]
  /\ UNCHANGED <<commits, tags, published, reruns, history>>

AtLatest(r) == Latest # 0 /\ tags[Latest].commit = runs[r].commit

(* A commit that already carries the latest tag keeps it.                     *)
(* Mutant: the job then has no output.                                        *)
BugKeepTag(r) ==
  /\ CanStart(r, "tag")
  /\ AtLatest(r)
  /\ runs' = [runs EXCEPT ![r].job["tag"] = "ok"]
  /\ UNCHANGED <<commits, tags, published, reruns, history>>

KeepTag(r) ==
  /\ CanStart(r, "tag")
  /\ AtLatest(r)
  /\ runs' = [runs EXCEPT ![r].job["tag"] = "ok", ![r].tag = Latest]
  /\ UNCHANGED <<commits, tags, published, reruns, history>>

(* The version of the commit message, or the next one.  A tag that exists is  *)
(* not moved: the job fails.                                                  *)
NewTag(r) ==
  LET v == IF commits[runs[r].commit] # 0 THEN commits[runs[r].commit] ELSE Latest + 1
  IN  /\ CanStart(r, "tag")
      /\ ~ AtLatest(r)
      /\ v \in Version \ Tagged
      /\ tags' = [tags EXCEPT ![v] = [commit |-> runs[r].commit, run |-> r,
                                      attempt |-> runs[r].attempt]]
      /\ runs' = [runs EXCEPT ![r].job["tag"] = "ok", ![r].tag = v]
      /\ UNCHANGED <<commits, published, reruns, history>>

(* What git describe may say of a commit: one of its tags.                    *)
NamesOf(c) == {v \in Tagged : tags[v].commit = c}

(* A leg checks out the tag, builds, verifies, tests and uploads its wheels.  *)
(* Mutant: it checks out master, and is told the version.                     *)
BugBuildLeg(r, l) ==
  /\ CanStart(r, l)
  /\ runs' = [runs EXCEPT
                ![r].job[l] = "ok",
                ![r].built[l] = [run |-> r, attempt |-> runs[r].attempt,
                                 commit |-> Len(commits), version |-> runs[r].tag]]
  /\ UNCHANGED <<commits, tags, published, reruns, history>>

BuildLeg(r, l) ==
  /\ CanStart(r, l)
  /\ \E v \in NamesOf(tags[runs[r].tag].commit) :
       runs' = [runs EXCEPT
                  ![r].job[l] = "ok",
                  ![r].built[l] = [run |-> r, attempt |-> runs[r].attempt,
                                   commit |-> tags[runs[r].tag].commit, version |-> v]]
  /\ UNCHANGED <<commits, tags, published, reruns, history>>

(* The artifacts of a run: those that the job installs, and the rest, which   *)
(* were tested in their own legs only.                                        *)
Seen(x) == [installed |-> [l \in Tested |-> x.built[l]],
            left      |-> [l \in Leg \ Tested |-> x.built[l]]]

Test(r) ==
  /\ CanStart(r, "test")
  /\ runs' = [runs EXCEPT ![r].job["test"] = "ok"]
  /\ passed' = passed \cup {Seen(runs[r])}
  /\ UNCHANGED <<commits, tags, reruns, published, lost>>

(* The release is made, and then the artifacts are uploaded to it, which may  *)
(* fail or be cut (Fail, Stop).  Without allowUpdates the action refuses a    *)
(* tag that has a release.                                                    *)
(* Mutant: allowUpdates.                                                      *)
BugRelease(r) ==
  /\ CanStart(r, "release")
  /\ releases' = releases \cup {runs[r].tag}
  /\ runs' = [runs EXCEPT ![r].job["release"] = "running"]
  /\ UNCHANGED <<commits, tags, testpypi, pypi, reruns, history>>

Release(r) ==
  /\ CanStart(r, "release")
  /\ runs[r].tag \notin releases
  /\ releases' = releases \cup {runs[r].tag}
  /\ runs' = [runs EXCEPT ![r].job["release"] = "running"]
  /\ UNCHANGED <<commits, tags, testpypi, pypi, reruns, history>>

(* The file of a wheel bears the version of the wheel.                        *)
FileOf(x, w) ==
  [version |-> x.built[LegOf[w]].version, wheel |-> w, build |-> x.built[LegOf[w]]]

(* Without skip-existing a file that the index has makes the job fail.        *)
Accepts(index, file) ==
  \A f \in index : ~ (f.version = file.version /\ f.wheel = file.wheel)

Upload(r, j, index, w) ==
  /\ Uploading(r, j)
  /\ w \in Wheel \ runs[r].sent
  /\ Accepts(index, FileOf(runs[r], w))
  /\ runs' = [runs EXCEPT ![r].sent = @ \cup {w}]

UploadTestPypi(r, w) ==
  /\ Upload(r, "test-pypi", testpypi, w)
  /\ testpypi' = testpypi \cup {FileOf(runs[r], w)}
  /\ UNCHANGED <<commits, tags, releases, pypi, reruns, history>>

UploadPypi(r, w) ==
  /\ Upload(r, "pypi", pypi, w)
  /\ pypi' = pypi \cup {FileOf(runs[r], w)}
  /\ UNCHANGED <<commits, tags, releases, testpypi, reruns, history>>

Uploaded(r, j) ==
  /\ j \in Publishing
  /\ Uploading(r, j)
  /\ j # "release" => runs[r].sent = Wheel
  /\ runs' = [runs EXCEPT ![r].job[j] = "ok"]
  /\ UNCHANGED <<commits, tags, published, reruns, history>>

End(r) ==
  /\ runs[r].status = "running"
  /\ \A j \in Job : runs[r].job[j] # "running" /\ ~ CanStart(r, j)
  /\ runs' = [runs EXCEPT ![r].status = "ended"]
  /\ UNCHANGED <<commits, tags, published, reruns, history>>

Step(r) ==
  \/ Dequeue(r) \/ Stop(r) \/ End(r)
  \/ KeepTag(r) \/ NewTag(r) \/ Test(r) \/ Release(r)
  \/ \E l \in Leg : BuildLeg(r, l)
  \/ \E j \in Job : Start(r, j) \/ Fail(r, j) \/ Uploaded(r, j)
  \/ \E w \in Wheel : UploadTestPypi(r, w) \/ UploadPypi(r, w)

Next ==
  \/ \E v \in Asked : Push(v)
  \/ Schedule
  \/ \E r \in DOMAIN runs : \E keep \in SUBSET Job : Rerun(r, keep)
  \/ \E r \in DOMAIN runs : Step(r)

Spec == Init /\ [][Next]_vars

------------------------------------------------------------------------------

(* Types; a tag job that succeeded has a version for the jobs that need it.   *)
TypeOK ==
  /\ commits \in Seq(Asked)
  /\ runs \in Seq(Run)
  /\ tags \in [Version -> [commit : 0 .. MaxRuns, run : 0 .. MaxRuns,
                          attempt : 0 .. MaxReruns + 1]]
  /\ releases \subseteq Version
  /\ testpypi \subseteq File /\ pypi \subseteq File
  /\ passed \subseteq [installed : [Tested -> Build], left : [Leg \ Tested -> Build]]
  /\ reruns \in 0 .. MaxReruns
  /\ lost \subseteq DOMAIN runs
  /\ \A r \in DOMAIN runs : runs[r].job["tag"] = "ok" => runs[r].tag \in Tagged

(* The version is the only tag of its commit; a full re-run of an old run     *)
(* gives the commit a second one.                                             *)
Sole(v) == \A u \in Tagged : tags[u].commit = tags[v].commit => u = v

(* Whatever is cut and run again, the files of a version, on both indexes     *)
(* together, are the artifacts of one run as a passing test job found them:   *)
(* it installed those of the tested legs, and the others were there at that   *)
(* moment.  So an index has one file of a name.  (The legs need not be of one *)
(* attempt: a re-run of the failed ones keeps the rest.)  When its commit has *)
(* a second tag, two sets can meet under one version.                         *)
TestedTogether ==
  \A v \in Tagged :
    LET files == {f \in testpypi \cup pypi : f.version = v}
    IN  Sole(v) /\ files # {} =>
          \E set \in passed : \A f \in files :
            \/ LegOf[f.wheel] \in Tested /\ f.build = set.installed[LegOf[f.wheel]]
            \/ LegOf[f.wheel] \notin Tested /\ f.build = set.left[LegOf[f.wheel]]

(* A published file holds the code that its version tags, wherever master has *)
(* moved since the event.                                                     *)
CodeIsTagged ==
  \A f \in testpypi \cup pypi : f.build.commit = tags[f.version].commit

(* Because one group serialises the runs, a higher default version is never   *)
(* older code, although tagging reads the latest tag and then makes the next: *)
(* the runs that were run again, and the versions that commits asked for, are *)
(* the exceptions.                                                            *)
VersionsFollowHistory ==
  \A u, v \in Tagged :
    /\ u < v
    /\ tags[u].attempt = 1 /\ commits[tags[u].commit] = 0
    /\ tags[v].attempt = 1 /\ commits[tags[v].commit] = 0
    => tags[u].commit <= tags[v].commit

Pub == INSTANCE Publication WITH
         Commit <- 1 .. MaxRuns,
         code   <- [v \in Version |-> tags[v].commit]

(* Runs that are cut anywhere and run again publish as Publication says: no   *)
(* tag moves, no file is replaced or taken back, the files of a version that  *)
(* is its commit's only one come from one tested set of builds of its tag,    *)
(* and PyPI gets what is whole on Test PyPI.                                  *)
PublicationSpec == Pub!Spec

(* A push is published, on GitHub and every wheel on both indexes, unless a   *)
(* job of its run fails or a later event takes its turn: the jobs wait for    *)
(* nothing that never comes.  (The turn may go to the weekly schedule, which  *)
(* publishes nothing, L618.)                                                  *)
PushIsPublished ==
  \A r \in DOMAIN runs \ lost :
    /\ runs[r].event = "push" /\ runs[r].status = "ended"
    /\ \A j \in Job : runs[r].job[j] # "failed"
    => /\ runs[r].tag \in releases
       /\ \A w \in Wheel : FileOf(runs[r], w) \in testpypi \cap pypi
==============================================================================
