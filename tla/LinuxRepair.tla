------------------------------ MODULE LinuxRepair ------------------------------
(***************************************************************************)
(* scripts/repair_wheel.sh: auditwheel vendors the shared libraries under  *)
(* hashed names and breaks the dakota program doing so; the script keeps   *)
(* the program of the unrepaired wheel, gives it the hashed names itself,  *)
(* puts it back, drops duplicates and the ICU libraries, sets the search   *)
(* paths, edits RECORD along, and packs the wheel again.  Under `set -e`   *)
(* any step may be the last one; a command whose status the shell does not *)
(* look at may also have failed with nobody the wiser.                     *)
(***************************************************************************)
EXTENDS Naturals, Sequences

CONSTANTS
  Lib,        \* shared libraries, by base name
  System,     \* those every Linux has, which auditwheel does not vendor
  Icu,        \* libicu*
  IcuListed,  \* libicudata, libicui18n and libicuuc
  Regex,      \* libboost_regex
  Dashed,     \* [Lib -> SUBSET Lib]: this name, and those that go on from it with a dash
  Begins,     \* [Lib -> SUBSET Lib]: names that begin with this one
  Unversioned,\* libraries whose file name ends in ".so"
  First,      \* of a set of libraries, the one that ls lists first
  Needs,      \* [Lib -> SUBSET Lib]: NEEDED of the libraries
  RootNeeds,  \* what the program and the extension may need
  PkgDir      \* the directories from site-packages down to environment.so

(* A name that begins with "libicu" after a dash began with it before.        *)
ASSUME RepairAssumptions ==
  /\ System \subseteq Lib /\ Icu \subseteq Lib /\ IcuListed \subseteq Icu
  /\ Unversioned \subseteq Lib /\ Regex \in Lib \ Icu /\ {"exe", "ext"} \cap Lib = {}
  /\ Dashed \in [Lib -> SUBSET Lib] /\ \A l \in Lib : l \in Dashed[l]
  /\ \A l \in Lib \ Icu : Dashed[l] \cap Icu = {}
  /\ Begins \in [Lib -> SUBSET Lib] /\ \A l \in Lib : Dashed[l] \subseteq Begins[l]
  /\ \A S \in (SUBSET Lib) \ {{}} : First[S] \in S
  /\ Needs \in [Lib -> SUBSET Lib]
  /\ RootNeeds \subseteq (SUBSET Lib) \ {{}}
  /\ PkgDir \in Seq(STRING) /\ \A i \in 1 .. Len(PkgDir) : PkgDir[i] # "platlib"

Elf == Lib \cup {"exe", "ext"}

(* A file of the wheel: a library in itis_dakota.libs, its duplicate in       *)
(* itis_dakota.scripts, or auditwheel's wrapper stub in *.data/scripts.       *)
File == {"libs", "dupes", "stubs"} \X Lib

(* A DT_NEEDED entry, by the SONAME or by auditwheel's hashed name.           *)
Entry == [lib : Lib, hashed : BOOLEAN]

Soname(l) == [lib |-> l, hashed |-> FALSE]

Hashed(l) == [lib |-> l, hashed |-> TRUE]

(* A search path: how many levels up from the file itis_dakota.libs is        *)
(* looked for, or none; 0 is the file's own directory.                        *)
VARIABLES
  hasExe,   \* whether the wheel has the program
  section,  \* where the wheel keeps the extension: "root" or "platlib"
  sbom,     \* whether auditwheel leaves an SBOM
  staged,   \* libraries in *.data/scripts of the unrepaired wheel
  needed,   \* [Elf -> NEEDED entries], in the unpacked wheel
  rpath,    \* [Elf -> search path], in the unpacked wheel
  moved,    \* whether auditwheel has moved the program to itis_dakota.scripts
  exe,      \* the program in the unpacked wheel: "original", or as auditwheel left it
  saved,    \* the program's entries in the saved copy, or {} when there is none
  files,    \* shared libraries in the unpacked wheel
  record,   \* those that RECORD lists
  fresh,    \* whether RECORD's hashes are those of the files
  unread,   \* history: whether patchelf could not read Boost.Regex, unnoticed
  unset,    \* history: libraries that patchelf gave no search path, unnoticed
  pc

vars == <<hasExe, section, sbom, staged, needed, rpath, moved, exe, saved,
          files, record, fresh, unread, unset, pc>>

In(dir) == {l \in Lib : <<dir, l>> \in files}

Wheel == <<hasExe, section, sbom, staged>>

Unnoticed == <<unread, unset>>

Steps == {"save", "auditwheel", "restore", "dupes", "icu", "rpath", "pack",
          "done", "failed"}

Init ==
  /\ hasExe \in BOOLEAN
  /\ section \in {"root", "platlib"}
  /\ sbom \in BOOLEAN
  /\ staged \in SUBSET (Lib \ System)
  /\ \E forExe, forExt \in RootNeeds :
       needed = [f \in Elf |-> {Soname(l) : l \in IF f = "exe" THEN forExe
                                                ELSE IF f = "ext" THEN forExt
                                                ELSE Needs[f]}]
  /\ rpath = [f \in Elf |-> {}]
  /\ moved = FALSE
  /\ exe = "original"
  /\ saved = {}
  /\ files = {<<"stubs", l>> : l \in staged}
  /\ record = files
  /\ fresh = TRUE
  /\ unread = FALSE
  /\ unset = {}
  /\ pc = "save"

(* Step 1.  `unzip ... || true` also passes over an unzip that failed: then   *)
(* the wheel is taken for one without a program.                              *)
Save ==
  /\ pc = "save"
  /\ pc' = "auditwheel"
  /\ saved' \in {{}} \cup (IF hasExe THEN {needed["exe"]} ELSE {})
  /\ UNCHANGED <<Wheel, needed, rpath, moved, exe, files, record, fresh, Unnoticed>>

(* Step 2: all that an ELF file of the wheel needs is vendored, and the       *)
(* search paths of the program and the extension lead to it from where they   *)
(* are in the wheel; a library may be left without one.                       *)
Roots == {"ext"} \cup staged \cup (IF hasExe THEN {"exe"} ELSE {})

NeedClosed(S) ==
  \A f \in Roots \cup (S \ System) : {e.lib : e \in needed[f]} \subseteq S

Vendored == {l \in Lib \ System : \A S \in SUBSET Lib : NeedClosed(S) => l \in S}

ExtDir == (IF section = "platlib" THEN <<".data", "platlib">> ELSE <<>>) \o PkgDir

Auditwheel ==
  /\ pc = "auditwheel"
  /\ pc' = IF saved = {} THEN "pack" ELSE "restore"
  /\ \E vendored \in {Vendored} :
       /\ files' = ({"libs"} \X vendored) \cup ({"dupes", "stubs"} \X staged)
       /\ needed' = [f \in Elf |-> {IF e.lib \in vendored THEN Hashed(e.lib) ELSE e
                                       : e \in needed[f]}]
  /\ moved' \in BOOLEAN
  /\ \E own \in {{}, {0}} :
       rpath' = [f \in Elf |-> CASE f = "exe" -> IF moved' THEN {1} ELSE {2}
                                 [] f = "ext" -> {Len(ExtDir)}
                                 [] OTHER     -> own]
  /\ exe' = "patched"
  /\ record' = files'
  /\ fresh' = TRUE
  /\ UNCHANGED <<Wheel, saved, Unnoticed>>

(* Steps 4 and 5.  The glob <base>-*.so* matches the hashed copy of the       *)
(* library, and those of the libraries whose name goes on with a dash.        *)
(* Mutant: the glob is <base>*.so*.                                           *)
BugGlob(l) == In("libs") \cap Begins[l]

Glob(l) == In("libs") \cap Dashed[l]

Renamed(e) == IF Glob(e.lib) = {} THEN e ELSE Hashed(First[Glob(e.lib)])

Restore ==
  /\ pc = "restore"
  /\ moved
  /\ pc' = "dupes"
  /\ needed' = [needed EXCEPT !["exe"] = {Renamed(e) : e \in saved}]
  /\ rpath' = [rpath EXCEPT !["exe"] = IF In("libs") # {} THEN {1} ELSE {}]
  /\ exe' = "original"
  /\ fresh' = FALSE
  /\ UNCHANGED <<Wheel, moved, saved, files, record, Unnoticed>>

(* With no program at itis_dakota.scripts/dakota nothing is replaced.         *)
NotReplaced ==
  /\ pc = "restore"
  /\ ~ moved
  /\ pc' = "dupes"
  /\ UNCHANGED <<Wheel, needed, rpath, moved, exe, saved, files, record, fresh, Unnoticed>>

(* The duplicates go, and the stubs, with their lines of RECORD.              *)
(* Mutant: RECORD keeps the lines of the stubs.                               *)
BugListedDupes == {"dupes"} \X Lib

ListedDupes == {"dupes", "stubs"} \X Lib

Dupes ==
  /\ pc = "dupes"
  /\ pc' = "icu"
  /\ files' = files \ ({"dupes", "stubs"} \X Lib)
  /\ record' = record \ ListedDupes
  /\ UNCHANGED <<Wheel, needed, rpath, moved, exe, saved, fresh, Unnoticed>>

(* ICU goes, where Boost.Regex is there to be unlinked from it.  The status   *)
(* of $(patchelf ... | grep ...) is not looked at: if patchelf fails, there   *)
(* is nothing to unlink, and ICU goes all the same.                           *)
Unlinked(f) == IF f = Regex THEN {e \in needed[f] : e.lib \notin Icu} ELSE needed[f]

DropIcu ==
  /\ pc = "icu"
  /\ Regex \in In("libs")
  /\ pc' = "rpath"
  /\ unread' \in BOOLEAN
  /\ needed' = IF unread' THEN needed ELSE [f \in Elf |-> Unlinked(f)]
  /\ files' = files \ ({"libs"} \X Icu)
  /\ record' = record \ ({"libs"} \X IcuListed)
  /\ fresh' = FALSE
  /\ UNCHANGED <<Wheel, rpath, moved, exe, saved, unset>>

NoRegex ==
  /\ pc = "icu"
  /\ Regex \notin In("libs")
  /\ pc' = "rpath"
  /\ UNCHANGED <<Wheel, needed, rpath, moved, exe, saved, files, record, fresh, Unnoticed>>

(* Step 6: from the directory of a *.so file up to its root, the longest      *)
(* prefix of the path that ends in .data/platlib, or else the top of the      *)
(* wheel.                                                                     *)
IsRoot(dir, i) == i = 0 \/ (i > 1 /\ dir[i - 1] = ".data" /\ dir[i] = "platlib")

RootLevel(dir) ==
  CHOOSE i \in 0 .. Len(dir) : IsRoot(dir, i) /\ \A j \in i + 1 .. Len(dir) : ~ IsRoot(dir, j)

(* Mutants: always up to the top of the wheel; one level too many.            *)
BugLevelsTop(dir) == Len(dir)

BugLevelsMore(dir) == Len(dir) + 1

Levels(dir) == Len(dir) - RootLevel(dir)

(* Without itis_dakota.libs the second find fails; a patchelf that it runs    *)
(* (-exec ... \;) may fail, and the library keeps what auditwheel gave it.    *)
FixRpath ==
  /\ pc = "rpath"
  /\ In("libs") # {}
  /\ pc' = "pack"
  /\ unset' \in SUBSET (In("libs") \ Unversioned)
  /\ rpath' = [f \in Elf |-> CASE f = "exe"          -> rpath[f]
                               [] f = "ext"          -> {Levels(ExtDir)}
                               [] f \in Unversioned -> {Levels(<<"itis_dakota.libs">>)}
                               [] f \in unset'      -> rpath[f]
                               [] OTHER              -> {0}]
  /\ fresh' = FALSE
  /\ UNCHANGED <<Wheel, needed, moved, exe, saved, files, record, unread>>

(* Steps 7 to 10: zip, testzip; augment_sbom.py packs anew, with a RECORD of  *)
(* its own, only a wheel that has an SBOM.                                    *)
Pack ==
  /\ pc = "pack"
  /\ pc' = "done"
  /\ record' = IF sbom THEN files ELSE record
  /\ fresh' = (sbom \/ fresh)
  /\ UNCHANGED <<Wheel, needed, rpath, moved, exe, saved, files, Unnoticed>>

(* A command fails: no wheel of the name is left that cibuildwheel would take.*)
Fail ==
  /\ pc \notin {"done", "failed"}
  /\ pc' = "failed"
  /\ UNCHANGED <<Wheel, needed, rpath, moved, exe, saved, files, record, fresh, Unnoticed>>

Next ==
  \/ Save \/ Auditwheel \/ Restore \/ NotReplaced \/ Dupes \/ DropIcu \/ NoRegex
  \/ FixRpath \/ Pack \/ Fail

Spec == Init /\ [][Next]_vars

------------------------------------------------------------------------------

TypeOK ==
  /\ hasExe \in BOOLEAN /\ sbom \in BOOLEAN /\ fresh \in BOOLEAN
  /\ section \in {"root", "platlib"}
  /\ staged \subseteq Lib
  /\ needed \in [Elf -> SUBSET Entry]
  /\ rpath \in [Elf -> SUBSET (0 .. Len(PkgDir) + 2)]
  /\ moved \in BOOLEAN /\ unread \in BOOLEAN /\ unset \subseteq Lib
  /\ exe \in {"original", "patched"}
  /\ saved \subseteq Entry
  /\ files \subseteq File /\ record \subseteq File
  /\ pc \in Steps

(* The ELF files of the repaired wheel.                                       *)
Shipped == In("libs") \cup {"ext"} \cup (IF hasExe THEN {"exe"} ELSE {})

Present(e) == e.lib \in (IF e.hashed THEN In("libs") ELSE System)

(* In a repaired wheel nothing asks for a library that is not there, but for  *)
(* an ICU library: a file other than Boost.Regex does if it was linked with   *)
(* one (L103 says that Boost.Regex is, not that nothing else is), Boost.Regex *)
(* only after patchelf failed to read it (L105-110).  A program put back asks *)
(* for every library it was linked with, by the hashed name, unless another   *)
(* library's name goes on from that one's with a dash (L68-78).               *)
AllResolve ==
  pc = "done" =>
    /\ \A f \in Shipped : \A e \in needed[f] :
         Present(e) \/ (e.lib \in Icu /\ (f = Regex => unread))
    /\ exe = "original" /\ saved # {} =>
         \A e \in saved : Dashed[e.lib] = {e.lib} => \E d \in needed["exe"] : d.lib = e.lib

(* Where a file lies below site-packages once it is installed, and whether    *)
(* its search path leads from there to itis_dakota.libs.                      *)
Installed(f) ==
  CASE f = "exe" -> <<"itis_dakota.scripts">>
    [] f = "ext" -> PkgDir
    [] OTHER     -> <<"itis_dakota.libs">>

Leads(f) == Len(Installed(f)) \in rpath[f] \/ (f \in Lib /\ 0 \in rpath[f])

(* In a wheel whose program was saved, the search paths computed from the     *)
(* paths in the wheel lead to itis_dakota.libs from where pip installs the    *)
(* files, out of *.data/platlib too (L80-91, L117-132): those of the          *)
(* extension, of every library that patchelf did not fail on, and of the      *)
(* program, unless it was not where L86 looks for it.                         *)
SearchPathsLead ==
  pc = "done" /\ saved # {} =>
    \A f \in Shipped \ unset : f # "exe" \/ moved => Leads(f)

(* RECORD, edited by regular expressions along with the files, still lists    *)
(* what is in the wheel: all of it, and nothing else but an ICU library that  *)
(* the expression does not name; and after augment_sbom.py exactly that, with *)
(* the right hashes (L97-113, L159-160).                                      *)
RecordExact ==
  pc = "done" =>
    /\ files \subseteq record
    /\ record \ files \subseteq {"libs"} \X (Icu \ IcuListed)
    /\ sbom => record = files /\ fresh
==============================================================================
