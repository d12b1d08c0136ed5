------------------------------ MODULE Publication ------------------------------
(***************************************************************************)
(* What .github/workflows/buildwheels.yml promises about what it           *)
(* publishes, with the runs, their jobs, cancellations and re-runs left    *)
(* out: versions are tagged once and never moved, a version is released    *)
(* once, its files are builds of its tag, no file is ever replaced or      *)
(* taken back, and PyPI takes from Test PyPI.  More is promised of a       *)
(* version that is the only one of its commit: its files come, one by one, *)
(* after its release, from one set of builds that the tests, which install *)
(* some of them, let through, and PyPI follows when Test PyPI has all.     *)
(***************************************************************************)
EXTENDS Naturals

CONSTANTS
  Version,  \* versions
  Commit,   \* positive numbers of commits
  Leg,      \* what builds an artifact
  Tested,   \* the legs whose artifacts the tests install
  Build,    \* artifacts: records with the commit they are built from
  Wheel,    \* the wheels of one version
  LegOf     \* [Wheel -> Leg]

VARIABLES
  code,      \* [Version -> the commit it tags, or 0]
  passed,    \* sets of artifacts, [installed, left], that the tests let through
  releases,  \* versions with a GitHub release
  testpypi, pypi  \* files on the two indexes

vars == <<code, passed, releases, testpypi, pypi>>

Of(index, v) == {f \in index : f.version = v}

Sole(v) == \A u \in Version : code[u] = code[v] => u = v

Init ==
  /\ code = [v \in Version |-> 0]
  /\ passed = {} /\ releases = {} /\ testpypi = {} /\ pypi = {}

Tag(v, c) ==
  /\ code[v] = 0
  /\ code' = [code EXCEPT ![v] = c]
  /\ UNCHANGED <<passed, releases, testpypi, pypi>>

(* The tests pass on some of the artifacts that were all built from one tag.  *)
Pass ==
  /\ passed \subseteq passed'
  /\ \A set \in passed' \ passed :
       \E v \in Version :
         /\ code[v] # 0
         /\ \A l \in Tested : set.installed[l].commit = code[v]
         /\ \A l \in Leg \ Tested : set.left[l].commit = code[v]
  /\ UNCHANGED <<code, releases, testpypi, pypi>>

(* A release is there before its artifacts are, and stays without them.       *)
Release(v) ==
  /\ code[v] # 0 /\ v \notin releases
  /\ releases' = releases \cup {v}
  /\ UNCHANGED <<code, passed, testpypi, pypi>>

(* The files are of one set that the tests let through.                       *)
Together(files) ==
  \E set \in passed : \A f \in files :
    \/ LegOf[f.wheel] \in Tested /\ f.build = set.installed[LegOf[f.wheel]]
    \/ LegOf[f.wheel] \notin Tested /\ f.build = set.left[LegOf[f.wheel]]

(* The next file of a version, a build of its tag, joins the others.          *)
Rehearse(v, w, build) ==
  LET file == [version |-> v, wheel |-> w, build |-> build]
  IN  /\ build.commit = code[v]
      /\ \A f \in Of(testpypi, v) : f.wheel # w
      /\ Sole(v) => v \in releases /\ Together(Of(testpypi, v) \cup {file})
      /\ testpypi' = testpypi \cup {file}
      /\ UNCHANGED <<code, passed, releases, pypi>>

(* A file goes from Test PyPI to PyPI, once all wheels of its version are     *)
(* there.                                                                     *)
Publish(f) ==
  /\ f \notin pypi
  /\ Sole(f.version) => {g.wheel : g \in Of(testpypi, f.version)} = Wheel
  /\ pypi' = pypi \cup {f}
  /\ UNCHANGED <<code, passed, releases, testpypi>>

Next ==
  \/ \E v \in Version, c \in Commit : Tag(v, c)
  \/ Pass
  \/ \E v \in Version : Release(v)
  \/ \E v \in Version, w \in Wheel, build \in Build : code[v] # 0 /\ Rehearse(v, w, build)
  \/ \E f \in testpypi : Publish(f)

Spec == Init /\ [][Next]_vars
==============================================================================
