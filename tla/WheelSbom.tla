------------------------------ MODULE WheelSbom ------------------------------
(***************************************************************************)
(* The SBOM of one linux wheel: auditwheel writes it, augment_sbom.py adds *)
(* numpy and the vendored sources to it inside the repair, and the job     *)
(* sbom-scan makes a copy for grype (sbom_for_scan.py) and a snapshot for  *)
(* GitHub's dependency graph (submit_sbom_snapshot.py).                    *)
(*                                                                         *)
(* An SBOM is its list of components [ref, name, purl], its list of        *)
(* dependencies [ref, on], where a missing dependsOn is an empty set, and  *)
(* how many entries metadata.tools has; refs and purls are tuples that     *)
(* stand for package URLs.                                                 *)
(***************************************************************************)
EXTENDS Naturals, Sequences, SequencesExt

CONSTANTS
  Root,   \* bom-ref of metadata.component
  Base    \* the SBOMs auditwheel may write, as records [components, deps, tools]

VARIABLES
  sbom,      \* the SBOM embedded in the wheel
  describes, \* the commit that was checked out where the repair ran
  sees,      \* what git told augment_sbom.py, an element of View
  scan,      \* sbom-for-scan.cdx.json
  names,     \* SNAPSHOT_SHA of the job, 0 before it starts
  snapshot,  \* what the dependency graph got last: [sha, resolved]
  job        \* where the job sbom-scan is

wheelVars == <<sbom, describes, sees>>
sbomVars == <<wheelVars, scan, names, snapshot, job>>

NoSbom == [components |-> <<>>, deps |-> <<>>, tools |-> 0]

NoSnapshot == [sha |-> 0, resolved |-> {}]

(* git finds no repository, or no remote; the remote is on GitHub, or not.    *)
View == {"none", "github", "elsewhere"}

Vendored == <<"dakota", "pecos", "surfpack", "dakota-packages">>

Numpy == [ref |-> <<"pypi", "numpy">>, name |-> "numpy", purl |-> <<"pypi", "numpy">>]

(* Mutant: a purl only where the remote is on GitHub.                         *)
BugComponent(name, view, commit) ==
  IF view = "github" THEN [ref |-> <<"github", commit>>, name |-> name, purl |-> <<"github", commit>>]
  ELSE [ref |-> <<"generic", name, commit>>, name |-> name]

(* `git -C dakota/...`: the sources are an unpacked tarball inside the        *)
(* checkout, so that for all four of them git answers for the checkout.       *)
vendored_source_component(name, view, commit) ==
  LET ref == IF view = "github" THEN <<"github", commit>> ELSE <<"generic", name, commit>>
  IN  [ref |-> ref, name |-> name, purl |-> ref]

Refs(s) == {c.ref : c \in ToSet(s.components)}

(* Where a list has a reference.                                              *)
Places(list, ref) == {i \in 1 .. Len(list) : list[i].ref = ref}

(* next() over the dependencies: the first entry.                             *)
DependsOn(s, ref) ==
  IF Places(s.deps, ref) = {} THEN {} ELSE s.deps[Min(Places(s.deps, ref))].on

(* auditwheel lists the packages that own the vendored libraries, one package *)
(* under one name and one purl, and says in one entry that the wheel depends  *)
(* on each of them; a dependency leads to what is listed or to the wheel      *)
(* itself, which is a package of PyPI and not numpy.  A package is one of the *)
(* system's, neither named as those that are added nor with a URL like        *)
(* theirs.                                                                    *)
ASSUME BaseAssumption ==
  /\ Root[1] = "pypi" /\ Root # Numpy.ref
  /\ \A s \in Base :
       /\ s.components \in Seq(ToSet(s.components)) /\ s.deps \in Seq(ToSet(s.deps))
       /\ s.tools \in Nat
       /\ \A c \in ToSet(s.components) :
            /\ DOMAIN c = {"ref", "name", "purl"}
            /\ c.name \notin {"numpy"} \cup ToSet(Vendored)
            /\ c.purl[1] \notin {"github", "generic"}
       /\ \A c, d \in ToSet(s.components) :
            c.name = d.name \/ c.ref = d.ref => c.purl = d.purl
       /\ \A d \in ToSet(s.deps) :
            d = [ref |-> d.ref, on |-> d.on] /\ {d.ref} \cup d.on \subseteq Refs(s) \cup {Root}
       /\ \A i, j \in Places(s.deps, Root) : i = j
       /\ DependsOn(s, Root) = Refs(s) \ {Root}

(* The list comprehensions of the scripts: what has none of these references. *)
Without(list, refs) ==
  LET upto[i \in 0 .. Len(list)] ==
        IF i = 0 THEN <<>>
        ELSE IF list[i].ref \in refs THEN upto[i - 1] ELSE Append(upto[i - 1], list[i])
  IN  upto[Len(list)]

(* Mutant: the refs that are there already are not looked at.                 *)
BugNewComponents(s, view, commit) ==
  <<Numpy>> \o (IF view = "none" THEN <<>>
                ELSE [i \in 1 .. 4 |-> vendored_source_component(Vendored[i], view, commit)])

NewComponents(s, view, commit) ==
  LET sources == IF view = "none" THEN <<>>
                 ELSE [i \in 1 .. 4 |-> vendored_source_component(Vendored[i], view, commit)]
  IN  Without(<<Numpy>> \o sources, Refs(s))

Augmented(s, view, commit) ==
  LET new    == NewComponents(s, view, commit)
      listed == IF Places(s.deps, Root) # {} THEN s.deps
                ELSE Append(s.deps, [ref |-> Root, on |-> {}])
      linked == [listed EXCEPT ![Max(Places(listed, Root))].on = @ \cup {c.ref : c \in ToSet(new)}]
      absent == Without(new, {d.ref : d \in ToSet(s.deps)})
  IN  [components |-> s.components \o new,
       deps |-> linked \o [i \in 1 .. Len(absent) |-> [ref |-> absent[i].ref, on |-> {}]],
       tools |-> s.tools + 1]

Unscannable == {<<"pypi", "numpy">>}

(* Mutant: only the components are looked at.                                 *)
BugScanCopy(s) ==
  [s EXCEPT !.components = Without(s.components, Unscannable)]

ScanCopy(s) ==
  LET kept == Without(s.deps, Unscannable)
  IN  [components |-> Without(s.components, Unscannable),
       deps |-> [i \in 1 .. Len(kept) |-> [kept[i] EXCEPT !.on = @ \ Unscannable]],
       tools |-> s.tools]

(* components_by_ref: of two components with one ref the later one stays.     *)
ByRef(s, ref) == s.components[Max(Places(s.components, ref))]

Resolved(s, refs) ==
  {[name |-> c.name, purl |-> c.purl] : c \in {ByRef(s, ref) : ref \in refs \cap Refs(s)}}

(* The dictionaries that are made of these entries: one entry for each name,  *)
(* whichever comes last of those that have it.                                *)
Dicts(entries) ==
  {d \in SUBSET entries :
     /\ {e.name : e \in d} = {e.name : e \in entries}
     /\ \A e, f \in d : e.name = f.name => e = f}

(* Mutant: the snapshot is made of the copy for grype.                        *)
BugManifest(s) == Dicts(Resolved(s, DependsOn(s, Root) \ Unscannable))

build_manifest(s) == Dicts(Resolved(s, DependsOn(s, Root)))

------------------------------------------------------------------------------

SbomInit ==
  /\ sbom = NoSbom
  /\ describes = 0
  /\ sees = "none"
  /\ scan = NoSbom
  /\ names = 0
  /\ snapshot = NoSnapshot
  /\ job = "wait"

(* A wheel without an SBOM is left as it is.                                  *)
Repair(commit) ==
  /\ \E base \in Base \cup {NoSbom}, view \in View :
       /\ sees' = view
       /\ sbom' = IF base = NoSbom THEN NoSbom ELSE Augmented(base, view, commit)
  /\ describes' = commit
  /\ UNCHANGED <<scan, names, snapshot, job>>

StartJob(sha) ==
  /\ job = "wait"
  /\ job' = "extract"
  /\ names' = sha
  /\ UNCHANGED <<wheelVars, scan, snapshot>>

(* `unzip -p` of a member that is not there fails, and with it the step; the  *)
(* steps with always() are still taken.                                       *)
Extract ==
  /\ job = "extract"
  /\ scan' = IF sbom = NoSbom THEN NoSbom ELSE ScanCopy(sbom)
  /\ job' = IF sbom = NoSbom THEN "submit_failed" ELSE "grype"
  /\ UNCHANGED <<wheelVars, names, snapshot>>

Grype ==
  /\ job = "grype"
  /\ job' \in {"submit", "submit_failed"}
  /\ UNCHANGED <<wheelVars, scan, names, snapshot>>

(* continue-on-error: the HTTP request, or load_sbom on a wheel without an    *)
(* SBOM, may fail unnoticed.  The step is taken in a cancelled job too.       *)
Submit(sha) ==
  /\ job \in {"submit", "submit_failed", "cancelled"}
  /\ job' = [submit |-> "passed", submit_failed |-> "failed", cancelled |-> "over"][job]
  /\ \/ UNCHANGED snapshot
     \/ /\ sbom # NoSbom
        /\ \E resolved \in build_manifest(sbom) :
             snapshot' = [sha |-> sha, resolved |-> resolved]
  /\ UNCHANGED <<wheelVars, scan, names>>

(* The next run has its own wheels, on its own runners.                       *)
Clear ==
  /\ sbom' = NoSbom
  /\ describes' = 0
  /\ sees' = "none"
  /\ scan' = NoSbom
  /\ names' = 0
  /\ job' = "wait"
  /\ UNCHANGED snapshot

(* A push cancels the run: a job that has begun goes on with its always()     *)
(* steps, and the next run waits until they are over.                         *)
Cancel ==
  \/ job \in {"wait", "passed", "failed"} /\ Clear
  \/ /\ job \in {"extract", "grype", "submit", "submit_failed"}
     /\ job' = "cancelled"
     /\ UNCHANGED <<wheelVars, scan, names, snapshot>>
  \/ job \in {"cancelled", "over"} /\ UNCHANGED sbomVars

Freed == job = "over" /\ Clear

------------------------------------------------------------------------------

(* The values the variables take.                                             *)
SbomTypeOK ==
  /\ \A s \in {sbom, scan} :
       s.tools \in Nat /\ \A c \in ToSet(s.components) : DOMAIN c = {"ref", "name", "purl"}
  /\ describes \in Nat /\ names \in Nat
  /\ sees \in View
  /\ DOMAIN snapshot = {"sha", "resolved"}
  /\ job \in {"wait", "extract", "grype", "submit", "submit_failed", "passed", "failed",
             "cancelled", "over"}

(* Once augmented (augment_sbom.py L84-109) an SBOM has nothing left to add:  *)
(* a second run of the script on the repaired wheel changes neither           *)
(* components nor dependencies, although four sources may share one           *)
(* reference; all it leaves is one more entry under metadata.tools (L111).    *)
AugmentOnce ==
  sbom # NoSbom => Augmented(sbom, sees, describes) = [sbom EXCEPT !.tools = @ + 1]

(* The copy for grype (sbom_for_scan.py L19-25) lacks numpy and nothing else, *)
(* and no dependency in it leads to a component that is not there.            *)
ScanConsistent ==
  scan # NoSbom =>
    /\ Refs(scan) = Refs(sbom) \ Unscannable
    /\ \A d \in ToSet(scan.deps) : {d.ref} \cup d.on \subseteq Refs(scan) \cup {Root}

(* The snapshot the job submitted (submit_sbom_snapshot.py L24-42) has the    *)
(* package URL of every component of the wheel's SBOM but the wheel's own:    *)
(* what auditwheel found and what augment_sbom.py added is linked to the      *)
(* root, which is all that the snapshot follows, and no name hides another    *)
(* package's URL; it makes no difference that the run was cancelled before.   *)
SnapshotComplete ==
  names # 0 /\ snapshot.sha = names =>
    {e.purl : e \in snapshot.resolved} =
      {c.purl : c \in {d \in ToSet(sbom.components) : d.ref # Root}}
==============================================================================
