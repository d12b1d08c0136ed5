------------------------------- MODULE MacBundle -------------------------------
(***************************************************************************)
(* scripts/repair_wheel_macos.sh after delocate: the program moves into    *)
(* the package, the staged TPL libraries move into the bundle directory,   *)
(* the load commands are rewritten for the installed layout, versioned     *)
(* copies are merged, unused ICU libraries become stubs, and everything is *)
(* signed again.  Each step works on the whole tree, and the script stops  *)
(* at the first command that fails, leaving no wheel: but not where file,  *)
(* otool or nm is only asked about a binary, and its answer is taken to be *)
(* that there is nothing.                                                  *)
(***************************************************************************)
EXTENDS Naturals, FiniteSets

CONSTANTS
  Dylib,     \* file names of dynamic libraries
  Stem,      \* [Dylib -> stems]: the name without version numbers
  Depth,     \* [Dylib -> Nat]: how many version numbers the name has
  Rank,      \* [Dylib -> Nat]: alphabetical order of the names
  Icu,       \* the libicu* names
  Ext, Exe,  \* environment.so and the dakota program
  Layouts,   \* what each binary loads (names) and imports from (stems)
  Blind      \* the sets of binaries that may go unread in one step

Macho == Dylib \cup {Ext, Exe}

ASSUME BundleAssumptions ==
  /\ IsFiniteSet(Dylib) /\ {Ext, Exe} \cap Dylib = {} /\ Ext # Exe
  /\ Depth \in [Dylib -> Nat] /\ Rank \in [Dylib -> Nat]
  /\ \A f, g \in Dylib : Rank[f] = Rank[g] => f = g
  /\ Icu \subseteq Dylib /\ Blind \subseteq SUBSET Macho /\ {} \in Blind
  /\ \A f \in Icu, g \in Dylib : Stem[f] = Stem[g] => g \in Icu
  /\ \A lay \in Layouts :
       /\ lay \in [Macho -> [loads : SUBSET Dylib, uses : SUBSET {Stem[d] : d \in Dylib}]]
       /\ \A f \in Macho : lay[f].uses \subseteq {Stem[b] : b \in lay[f].loads}

VARIABLES
  exeAt,    \* where the program is: "none", "scripts" or "package"
  bundle,   \* names in the .dylibs directory
  scripts,  \* names in *.data/scripts
  refs,     \* per binary: its load commands, name and directory part
  uses,     \* per binary: stems it imports symbols from (nm -m)
  python,   \* how the program refers to the Python library: a path in the bundle,
            \* in a framework or elsewhere, or its bare name
  stubs,    \* libraries that are now empty
  signed,   \* binaries whose signature is valid
  missed,   \* history: binaries that file or otool failed on, unnoticed
  unseen,   \* history: binaries that nm failed on, unnoticed
  pc

vars == <<exeAt, bundle, scripts, refs, uses, python, stubs, signed, missed, unseen, pc>>

Unnoticed == <<missed, unseen>>

Form == {"wheel", "sibling", "installed"}

Steps == {"move_exe", "move_dylibs", "names", "dedupe", "icu", "sign", "pack", "done", "failed"}

Ref(base, form) == [base |-> base, form |-> form]

Loaded(roots, lay) ==
  {d \in Dylib : \A S \in SUBSET Macho :
     (roots \subseteq S /\ \A f \in S : lay[f].loads \subseteq S) => d \in S}

(* What delocate leaves: all that the wheel loads is bundled, except where it *)
(* found the staged library itself; the extension's install names follow the  *)
(* layout inside the wheel, the program's happen to be those of its new place *)
(* (L96-102).  Python's own library is not bundled (L66).                     *)
Roots == {Ext} \cup scripts \cup (IF exeAt = "none" THEN {} ELSE {Exe})

Init ==
  /\ exeAt \in {"none", "scripts"}
  /\ \E lay \in Layouts :
       /\ scripts \in SUBSET Dylib
       /\ LET needed == Loaded(Roots, lay)
          IN  bundle \in {needed, needed \ scripts}
       /\ refs = [f \in Macho |->
                    {Ref(b, IF f = Exe THEN "installed" ELSE "wheel") : b \in lay[f].loads}]
       /\ uses = [f \in Macho |-> lay[f].uses]
  /\ python \in {"bundle", "framework", "other"}
  /\ stubs = {}
  /\ signed = Macho
  /\ missed = {}
  /\ unseen = {}
  /\ pc = "move_exe"

(* Step 2b.                                                                   *)
MoveExe ==
  /\ pc = "move_exe"
  /\ pc' = "move_dylibs"
  /\ exeAt' = IF exeAt = "none" THEN "none" ELSE "package"
  /\ UNCHANGED <<bundle, scripts, refs, uses, python, stubs, signed, Unnoticed>>

(* Step 2c: a library that the bundle has already is dropped, the others move.*)
MoveDylibs ==
  /\ pc = "move_dylibs"
  /\ pc' = "names"
  /\ bundle' = bundle \cup scripts
  /\ scripts' = {}
  /\ UNCHANGED <<exeAt, refs, uses, python, stubs, signed, Unnoticed>>

Present == bundle \cup {Ext} \cup (IF exeAt = "none" THEN {} ELSE {Exe})

(* Step 3: references to bundled libraries, and the program's to Python where *)
(* they match one of the two patterns.  The list of names comes from a        *)
(* process substitution, whose status nobody sees: a binary that otool cannot *)
(* read keeps its names, the program in one of its two readings or in both.   *)
(* Mutants: the libraries themselves are left out; a name loses its version.  *)
BugNewRef(f, r) ==
  IF r.base \notin bundle \/ f \in Dylib THEN r ELSE Ref(r.base, "installed")

BugNewRefStem(f, r) ==
  IF r.base \notin bundle THEN r
  ELSE Ref(Stem[r.base], IF f \in Dylib THEN "sibling" ELSE "installed")

NewRef(f, r) ==
  IF r.base \notin bundle THEN r
  ELSE Ref(r.base, IF f \in Dylib THEN "sibling" ELSE "installed")

Bare(p) == IF p \in {"bundle", "framework"} THEN "bare" ELSE p

FixNames ==
  /\ pc = "names"
  /\ pc' = "dedupe"
  /\ \E blind \in Blind :
       /\ refs' = [f \in Macho |->
                     IF f \in Present \ blind THEN {NewRef(f, r) : r \in refs[f]} ELSE refs[f]]
       /\ python' \in IF exeAt = "none" THEN {python}
                      ELSE {Bare(python)} \cup (IF Exe \in blind THEN {python} ELSE {})
       /\ missed' = missed \cup blind
  /\ signed' = signed \ ({f \in Present : refs'[f] # refs[f]}
                           \cup (IF python' # python THEN {Exe} ELSE {}))
  /\ UNCHANGED <<exeAt, bundle, scripts, uses, stubs, unseen>>

(* Step 3b: of the copies of a library whose sizes are near (within 4096      *)
(* bytes) the one with the longest version stays, and takes all references.   *)
Before(f, g) == Depth[f] < Depth[g] \/ (Depth[f] = Depth[g] /\ Rank[f] < Rank[g])

Copies(d) == {g \in bundle : Stem[g] = Stem[d]}

Keep(near, d) ==
  IF Stem[d] \notin near THEN d
  ELSE CHOOSE g \in Copies(d) : \A h \in Copies(d) \ {g} : Before(h, g)

(* Mutant: the libraries in the bundle keep their references.                 *)
BugRenamed(near, f) ==
  {IF r.base \in bundle /\ f \notin bundle THEN Ref(Keep(near, r.base), r.form) ELSE r
     : r \in refs[f]}

Renamed(near, f) ==
  {IF r.base \in bundle THEN Ref(Keep(near, r.base), r.form) ELSE r : r \in refs[f]}

Twice == {s \in {Stem[d] : d \in bundle} : \E d \in bundle : Stem[d] = s /\ Copies(d) # {d}}

(* otool is asked only if there is something to merge; a binary it cannot     *)
(* read keeps the names of the copies that go.                                *)
Dedupe ==
  /\ pc = "dedupe"
  /\ pc' = "icu"
  /\ \E near \in SUBSET Twice : \E blind \in IF near = {} THEN {{}} ELSE Blind :
       /\ refs' = [f \in Macho |-> IF f \in Present \ blind THEN Renamed(near, f) ELSE refs[f]]
       /\ bundle' = {Keep(near, d) : d \in bundle}
       /\ missed' = missed \cup blind
  /\ signed' = signed \ {f \in Present : refs'[f] # refs[f]}
  /\ UNCHANGED <<exeAt, scripts, uses, python, stubs, unseen>>

(* Step 3c: an ICU library from which no binary outside the ICU family        *)
(* imports a symbol, and whose identity (LC_ID_DYLIB) otool shows, is         *)
(* replaced by an empty one of the same name.  A binary that nm cannot read   *)
(* counts as one that imports nothing.                                        *)
(* Mutant: only the extension's imports count.                                *)
BugUnsafe(blind) == {d \in Icu \cap bundle : Stem[d] \in uses[Ext] /\ Ext \notin blind}

Unsafe(blind) == {d \in Icu \cap bundle : \E f \in Present \ (Icu \cup blind) : Stem[d] \in uses[f]}

Neutralize ==
  /\ pc = "icu"
  /\ pc' = "sign"
  /\ unseen' \in IF Icu \cap bundle = {} THEN {{}} ELSE Blind
  /\ \E opaque \in SUBSET (Icu \cap bundle) :
       stubs' = (Icu \cap bundle) \ (Unsafe(unseen') \cup opaque)
  /\ refs' = [f \in Macho |-> IF f \in stubs' THEN {} ELSE refs[f]]
  /\ uses' = [f \in Macho |-> IF f \in stubs' THEN {} ELSE uses[f]]
  /\ signed' = signed \ stubs'
  /\ UNCHANGED <<exeAt, bundle, scripts, python, missed>>

(* Step 4, of what `file` takes for a Mach-O file.                            *)
Sign ==
  /\ pc = "sign"
  /\ pc' = "pack"
  /\ \E blind \in Blind :
       /\ signed' = signed \cup (Present \ blind)
       /\ missed' = missed \cup blind
  /\ UNCHANGED <<exeAt, bundle, scripts, refs, uses, python, stubs, unseen>>

(* Step 5: the wheel appears in the destination.                              *)
Pack ==
  /\ pc = "pack"
  /\ pc' = "done"
  /\ UNCHANGED <<exeAt, bundle, scripts, refs, uses, python, stubs, signed, Unnoticed>>

(* A command fails (set -e, check=True).                                      *)
Fail ==
  /\ pc \notin {"done", "failed"}
  /\ pc' = "failed"
  /\ UNCHANGED <<exeAt, bundle, scripts, refs, uses, python, stubs, signed, Unnoticed>>

Next == MoveExe \/ MoveDylibs \/ FixNames \/ Dedupe \/ Neutralize \/ Sign \/ Pack \/ Fail

Spec == Init /\ [][Next]_vars

------------------------------------------------------------------------------

TypeOK ==
  /\ exeAt \in {"none", "scripts", "package"}
  /\ bundle \subseteq Dylib /\ scripts \subseteq Dylib
  /\ refs \in [Macho -> SUBSET [base : Dylib, form : Form]]
  /\ uses \in [Macho -> SUBSET {Stem[d] : d \in Dylib}]
  /\ python \in {"bundle", "framework", "other", "bare"}
  /\ stubs \subseteq Icu
  /\ signed \subseteq Macho
  /\ missed \subseteq Macho /\ unseen \subseteq Macho
  /\ pc \in Steps

(* In a finished wheel every binary loads, but for one that file or otool     *)
(* failed on in a step that did not notice: every load command leads, from    *)
(* where pip installs that binary, to a library that is there; the program    *)
(* does not name a Python that is not shipped; and the signature is of what   *)
(* the steps have left, without which an arm64 Mac refuses the binary.        *)
(* Moving, rewriting, merging and emptying have not lost one another's work   *)
(* (L86-337, L407-413).                                                       *)
RefsResolve ==
  pc = "done" =>
    /\ exeAt # "scripts"
    /\ Exe \in Present \ missed => python \in {"bare", "other"}
    /\ \A f \in Present \ missed :
         /\ f \in signed
         /\ \A r \in refs[f] :
              /\ r.base \in bundle
              /\ r.form = IF f \in Dylib THEN "sibling" ELSE "installed"

(* What a binary outside the ICU family imports still comes from a library    *)
(* that it loads and that is not an empty one (L362-372), if nm could read    *)
(* that binary: nm's status is not looked at, and an import it did not show   *)
(* fails at run time, with exit status 0 here.                                *)
ImportsKept ==
  pc = "done" =>
    \A f \in Present \ (Icu \cup missed \cup unseen) :
      uses[f] \subseteq {Stem[r.base] : r \in {q \in refs[f] : q.base \notin stubs}}

(* `import dakota.environment` is fully self-contained (L22-25): no binary it *)
(* loads imports from an empty library.  The safety test of step 3c only asks *)
(* the binaries outside the ICU family, and an ICU library that it keeps may  *)
(* need one that it empties, with every tool at work.                         *)
SelfContained ==
  pc = "done" /\ missed = {} /\ unseen = {} =>
    \A f \in Present :
      (\A S \in SUBSET Present :
         (Ext \in S /\ \A g \in S : \A r \in refs[g] : r.base \in S) => f \in S)
        => \A d \in stubs : Stem[d] \notin uses[f]
==============================================================================
