------------------------------ MODULE DllClosure ------------------------------
(***************************************************************************)
(* stage_exe_dlls of scripts/repair_wheel_windows.py: the work list that   *)
(* computes the DLL closure of dakota.exe over the DLLs of an extracted    *)
(* wheel and copies it beside the program, the guard on what is missing,   *)
(* and the archive that replaces the wheel at the end.                     *)
(*                                                                         *)
(* The wheel's import tables are variables chosen by Init and never        *)
(* changed, so that one run ranges over all the import graphs.  A name is  *)
(* its lower-cased form.  The work list is kept as the set of its members: *)
(* it is filled from Python sets, whose order is arbitrary, and popping a  *)
(* second occurrence of a name is the Skip of a name already seen.         *)
(***************************************************************************)
EXTENDS Integers

CONSTANTS
  Name,        \* DLL names that import tables hold
  File,        \* the *.dll files of the extracted wheel
  NoFile,      \* None, or a path that does not exist
  NameOf,      \* [File -> Name]: dll.name.lower()
  BaseOf,      \* [File -> Name]: the name without delvewheel's hash suffix
  Dashed,      \* the files with a "-" in their stem
  Rank,        \* [File -> Nat]: position in sorted(td_path.rglob("*.dll"))
  InScripts,   \* the files already in *.data/scripts
  System,      \* the names is_system_dll accepts
  VenvPython,  \* the names python\d{1,3}t?\.dll matches
  ImportSets   \* the import tables a PE file may have

(* What rglob and sorted return: paths in a total order, with a first one   *)
(* among any of them.                                                       *)
ListingAssumption ==
  /\ NoFile \notin File
  /\ NameOf \in [File -> Name]
  /\ BaseOf \in [File -> Name]
  /\ Rank \in [File -> Nat]
  /\ \A S \in SUBSET File : S # {} => \E f \in S : \A g \in S \ {f} : Rank[f] < Rank[g]

(* The layout delvewheel leaves.  itis_dakota-<version>.data sorts before    *)
(* itis_dakota.libs; only vendored DLLs are mangled; one directory has no    *)
(* two files of one name; whether a stem has a dash depends on the name.     *)
LayoutAssumption ==
  /\ InScripts \subseteq File
  /\ Dashed \subseteq File
  /\ \A f \in InScripts, g \in File \ InScripts : Rank[f] < Rank[g]
  /\ \A f \in InScripts : BaseOf[f] = NameOf[f]
  /\ \A f, g \in InScripts : NameOf[f] = NameOf[g] => f = g
  /\ \A f, g \in File : NameOf[f] = NameOf[g] => (f \in Dashed <=> g \in Dashed)

(* The scripts directory shadows no DLL of Windows: the loader looks there   *)
(* first, and the closure never follows a system name.                       *)
SystemAssumption ==
  /\ System \subseteq Name
  /\ VenvPython \subseteq Name
  /\ ImportSets \subseteq SUBSET Name
  /\ \A f \in InScripts : NameOf[f] \notin System

ASSUME DllAssumptions == ListingAssumption /\ LayoutAssumption /\ SystemAssumption

VARIABLES
  imports,     \* [File -> ImportSets]: dll_imports of each DLL
  exeImports,  \* dll_imports(exe)
  pc,          \* "closure", "done", "refused" or "crashed"
  work, seen, missing,
  scripts,     \* [Name -> File \cup {NoFile}]: the extracted *.data/scripts
  wheel        \* the same directory in the wheel file

vars == <<imports, exeImports, pc, work, seen, missing, scripts, wheel>>

------------------------------------------------------------------------------

First(S) == CHOOSE f \in S : \A g \in S \ {f} : Rank[f] < Rank[g]

(* _pool_add over the undashed files, then over all: setdefault keeps the    *)
(* first entry of a key, and the second pass also enters pre-mangle names.   *)
Originals(n) == {f \in File \ Dashed : NameOf[f] = n}

Keyed(n) == {f \in File : n \in {NameOf[f], BaseOf[f]}}

BugLast(S) == CHOOSE f \in S : \A g \in S \ {f} : Rank[g] < Rank[f]

(* Mutant: pool[key] = dll, the last file of a key, in place of setdefault.   *)
BugPoolLast == [n \in Name |-> IF Keyed(n) # {} THEN BugLast(Keyed(n)) ELSE NoFile]

pool == [n \in Name |->
           IF Originals(n) # {} THEN First(Originals(n))
           ELSE IF Keyed(n) # {} THEN First(Keyed(n)) ELSE NoFile]

Extracted == [n \in Name |->
                IF \E f \in InScripts : NameOf[f] = n
                  THEN CHOOSE f \in InScripts : NameOf[f] = n ELSE NoFile]

Init ==
  /\ imports \in [File -> ImportSets]
  /\ exeImports \in ImportSets
  /\ pc = "closure"
  /\ work = exeImports
  /\ seen = {}
  /\ missing = {}
  /\ scripts = Extracted
  /\ wheel = Extracted

Popped(n) == pc = "closure" /\ n \in work

(* Mutant: the loop forgets what it has seen.                                 *)
BugFreshUnseen(n) == n \notin System

Fresh(n) == n \notin seen /\ n \notin System

Skip(n) ==
  /\ Popped(n)
  /\ ~ Fresh(n)
  /\ work' = work \ {n}
  /\ UNCHANGED <<imports, exeImports, pc, seen, missing, scripts, wheel>>

(* Mutant: seen.add(src) in place of seen.add(name).                          *)
BugMissSeesNone(n) ==
  /\ Popped(n)
  /\ Fresh(n)
  /\ pool[n] = NoFile
  /\ work' = work \ {n}
  /\ seen' = seen \cup {NoFile}
  /\ missing' = missing \cup {n}
  /\ UNCHANGED <<imports, exeImports, pc, scripts, wheel>>

Miss(n) ==
  /\ Popped(n)
  /\ Fresh(n)
  /\ pool[n] = NoFile
  /\ work' = work \ {n}
  /\ seen' = seen \cup {n}
  /\ missing' = missing \cup {n}
  /\ UNCHANGED <<imports, exeImports, pc, scripts, wheel>>

(* The copy goes under the import name, and never over a file that is there. *)
(* Mutant: the copy keeps the file's own, mangled, name.                      *)
BugCopiedMangled(n) == [scripts EXCEPT ![NameOf[pool[n]]] = pool[n]]

Copied(n) == [scripts EXCEPT ![n] = IF @ = NoFile THEN pool[n] ELSE @]

Stage(n) ==
  /\ Popped(n)
  /\ Fresh(n)
  /\ pool[n] # NoFile
  /\ seen' = seen \cup {n}
  /\ scripts' = Copied(n)
  /\ work' = (work \ {n}) \cup imports[pool[n]]
  /\ UNCHANGED <<imports, exeImports, pc, missing, wheel>>

Refuse ==
  /\ pc = "closure"
  /\ work = {}
  /\ missing \ VenvPython # {}
  /\ pc' = "refused"
  /\ UNCHANGED <<imports, exeImports, work, seen, missing, scripts, wheel>>

(* rewrite_record and rezip: os.replace makes the new archive appear at once. *)
(* Mutant: whatever is missing, the wheel is written.                         *)
BugReplaceUnguarded ==
  /\ pc = "closure"
  /\ work = {}
  /\ pc' = "done"
  /\ wheel' = scripts
  /\ UNCHANGED <<imports, exeImports, work, seen, missing, scripts>>

Replace ==
  /\ pc = "closure"
  /\ work = {}
  /\ missing \ VenvPython = {}
  /\ pc' = "done"
  /\ wheel' = scripts
  /\ UNCHANGED <<imports, exeImports, work, seen, missing, scripts>>

(* pefile rejects a file, a copy fails, the runner is lost.                   *)
Crash ==
  /\ pc = "closure"
  /\ pc' = "crashed"
  /\ UNCHANGED <<imports, exeImports, work, seen, missing, scripts, wheel>>

Progress == Refuse \/ Replace \/ \E n \in Name : Skip(n) \/ Miss(n) \/ Stage(n)

Next == Progress \/ Crash

Spec == Init /\ [][Next]_vars

FairSpec == Spec /\ WF_vars(Progress)

------------------------------------------------------------------------------

TypeOK ==
  /\ imports \in [File -> ImportSets]
  /\ exeImports \in ImportSets
  /\ pc \in {"closure", "done", "refused", "crashed"}
  /\ work \in SUBSET Name
  /\ seen \in SUBSET Name
  /\ missing \in SUBSET Name
  /\ scripts \in [Name -> File \cup {NoFile}]
  /\ wheel \in [Name -> File \cup {NoFile}]

(* S is closed for the Windows loader started in the scripts directory of     *)
(* the finished wheel: it reads the files that are there, not the pool.       *)
LoadClosed(S) ==
  /\ exeImports \subseteq S
  /\ \A n \in S : wheel[n] # NoFile => imports[wheel[n]] \subseteq S

(* A wheel the script finished holds, beside dakota.exe, every DLL the loader *)
(* will ask for, directly or through another DLL, but those of Windows and    *)
(* the Python DLLs of the virtual environment (L187-225): although the loop   *)
(* reads the imports of the pool's copy, and the loader those of the file     *)
(* that was already there (L203).                                             *)
ExeLoads ==
  pc = "done" =>
    \E S \in SUBSET Name :
      /\ LoadClosed(S)
      /\ \A n \in S : wheel[n] = NoFile => n \in System \cup VenvPython

(* The loop's own invariant.  What was seen is resolved or missing, what a    *)
(* resolved DLL imports is seen, or still to do, or the system's; what the    *)
(* exe does not need is never asked for; the wheel only ever holds the old    *)
(* directory or the finished one.                                             *)
Resolved ==
  /\ seen \cap System = {}
  /\ missing = {n \in seen : pool[n] = NoFile}
  /\ \A n \in Name : scripts[n] = IF n \in seen THEN pool[n] ELSE Extracted[n]

Covered ==
  /\ exeImports \subseteq seen \cup work \cup System
  /\ \A n \in seen \ missing : imports[pool[n]] \subseteq seen \cup work \cup System

Bundle == INSTANCE ExeBundle WITH
            Original <- Extracted,
            Supply   <- pool,
            outcome  <- IF pc = "closure" THEN "pending"
                        ELSE IF pc = "done" THEN "ok" ELSE pc

OnlyNeeded ==
  \A S \in SUBSET Name : Bundle!NeedClosed(S) => seen \cup work \subseteq S

WheelWhole ==
  /\ pc # "done" => wheel = Extracted
  /\ pc = "done" => wheel = scripts /\ work = {} /\ missing \subseteq VenvPython

WorkListInv == Resolved /\ Covered /\ OnlyNeeded /\ WheelWhole

(* The loop implements the promise: the wheel changes in one step, to exactly *)
(* the needed bundle, and is refused exactly when a DLL that nobody provides  *)
(* is needed.                                                                 *)
BundleSpec == Bundle!Spec

(* Import cycles do not keep the loop going: a run that is not killed ends    *)
(* (L193, the `seen` test).                                                   *)
Terminates == <>(pc # "closure")
==============================================================================
