-------------------------- MODULE LinuxRepairProofs --------------------------
(***************************************************************************)
(* Proofs about LinuxRepair, for any libraries and any links between them, *)
(* cyclic ones included, that satisfy RepairAssumptions.                   *)
(***************************************************************************)
EXTENDS LinuxRepair, TLAPS

------------------------------------------------------------------------------
(* What auditwheel vendors, and what the globs find *)

(* The libraries any closed set must hold.                                    *)
Closure == {l \in Lib : \A S \in SUBSET Lib : NeedClosed(S) => l \in S}

Named(entries) == {e.lib : e \in entries}

(* auditwheel vendors the least closed set but the system's libraries: what a *)
(* root or a vendored library needs is vendored or the system's, in whatever  *)
(* cycles the libraries need each other.                                      *)
LEMMA VendoredIsClosed ==
  ASSUME NEW f \in Roots \cup Vendored, NEW e \in needed[f], e.lib \in Lib
  PROVE  e.lib \in Vendored \cup System
<1>1. ASSUME NEW S \in SUBSET Lib, NeedClosed(S)
      PROVE  e.lib \in S
  <2>1. f \in Roots \cup (S \ System)
    BY <1>1 DEF Vendored
  <2>. QED  BY <1>1, <2>1 DEF NeedClosed
<1>. QED  BY <1>1 DEF Vendored

(* What the glob makes of an entry that can be resolved can be resolved, is   *)
(* no ICU library unless the entry was one, and is of the same library if no  *)
(* other name goes on from its name with a dash.                              *)
LEMMA RenamedIs ==
  ASSUME NEW e \in Entry, e.lib \in In("libs") \cup System, ~ e.hashed
  PROVE  /\ Renamed(e) \in Entry
         /\ Present(Renamed(e))
         /\ Renamed(e).lib \in Icu => e.lib \in Icu
         /\ Dashed[e.lib] = {e.lib} => Renamed(e).lib = e.lib
<1>. USE RepairAssumptions DEF RepairAssumptions, Entry
<1>1. CASE Glob(e.lib) = {}
  <2>1. e.lib \notin In("libs")
    BY <1>1 DEF Glob
  <2>. QED  BY <1>1, <2>1 DEF Renamed, Present
<1>2. CASE Glob(e.lib) # {}
  <2>1. Glob(e.lib) \in (SUBSET Lib) \ {{}}
    BY <1>2 DEF Glob, In
  <2>2. First[Glob(e.lib)] \in Glob(e.lib)
    BY <2>1
  <2>3. Renamed(e) = Hashed(First[Glob(e.lib)])
    BY <1>2 DEF Renamed
  <2>. QED  BY <2>1, <2>2, <2>3 DEF Hashed, Present, Glob
<1>. QED  BY <1>1, <1>2

(* The typed part alone.                                                      *)
LEMMA RenamedType ==
  ASSUME NEW e \in Entry
  PROVE  Renamed(e) \in Entry
<1>. USE RepairAssumptions DEF RepairAssumptions, Entry
<1>1. CASE Glob(e.lib) = {}
  BY <1>1 DEF Renamed
<1>2. CASE Glob(e.lib) # {}
  <2>1. Glob(e.lib) \in (SUBSET Lib) \ {{}}
    BY <1>2 DEF Glob, In
  <2>. QED  BY <1>2, <2>1 DEF Renamed, Hashed
<1>. QED  BY <1>1, <1>2

------------------------------------------------------------------------------
(* The levels that step 6 computes *)

(* From the directory of the extension up to the longest prefix that ends in  *)
(* .data/platlib: the levels below site-packages, wherever the wheel has it.  *)
LEMMA LevelsOfExt ==
  ASSUME section \in {"root", "platlib"}
  PROVE  /\ Levels(ExtDir) = Len(PkgDir)
         /\ Len(ExtDir) \in 0 .. Len(PkgDir) + 2 /\ Len(PkgDir) \in Nat
<1>. USE RepairAssumptions DEF RepairAssumptions
<1>1. CASE section = "platlib"
  <2>. DEFINE dir == <<".data", "platlib">> \o PkgDir
  <2>1. /\ ExtDir = dir
        /\ Len(dir) = Len(PkgDir) + 2 /\ Len(PkgDir) \in Nat
        /\ dir[1] = ".data" /\ dir[2] = "platlib"
        /\ \A i \in 3 .. Len(dir) : dir[i] = PkgDir[i - 2]
    BY <1>1 DEF ExtDir
  <2>2. \A i \in 3 .. Len(dir) : dir[i] # "platlib"
    BY <2>1
  <2>3. IsRoot(dir, 2) /\ \A j \in 3 .. Len(dir) : ~ IsRoot(dir, j)
    BY <2>1, <2>2 DEF IsRoot
  <2>4. \A i \in 0 .. Len(dir) :
          IsRoot(dir, i) /\ (\A j \in i + 1 .. Len(dir) : ~ IsRoot(dir, j)) => i = 2
    BY <2>1, <2>3
  <2>5. RootLevel(dir) = 2
    <3>. HIDE DEF dir
    <3>. QED  BY <2>1, <2>3, <2>4 DEF RootLevel
  <2>. QED  BY <2>1, <2>5 DEF Levels
<1>2. CASE section = "root"
  <2>1. ExtDir = PkgDir /\ Len(PkgDir) \in Nat
    BY <1>2 DEF ExtDir
  <2>2. IsRoot(PkgDir, 0) /\ \A j \in 1 .. Len(PkgDir) : ~ IsRoot(PkgDir, j)
    BY DEF IsRoot
  <2>3. RootLevel(PkgDir) = 0
    BY <2>1, <2>2 DEF RootLevel
  <2>. QED  BY <2>1, <2>3 DEF Levels
<1>. QED  BY <1>1, <1>2

LEMMA LevelsOfLib == Levels(<<"itis_dakota.libs">>) = 1
<1>. DEFINE dir == <<"itis_dakota.libs">>
<1>1. Len(dir) = 1 /\ dir[1] # "platlib"
  OBVIOUS
<1>2. IsRoot(dir, 0) /\ ~ IsRoot(dir, 1)
  BY <1>1 DEF IsRoot
<1>3. RootLevel(dir) = 0
  <2>. HIDE DEF dir
  <2>. QED  BY <1>1, <1>2 DEF RootLevel
<1>. QED  BY <1>1, <1>3 DEF Levels

------------------------------------------------------------------------------
(* Types *)

LEMMA EntryTypes ==
  /\ \A l \in Lib : Soname(l) \in Entry /\ Hashed(l) \in Entry
  /\ \A e \in Entry : e.lib \in Lib
  BY DEF Soname, Hashed, Entry

(* The values the variables take.                                             *)
THEOREM LinuxTypeCorrect == Spec => []TypeOK
<1>. USE RepairAssumptions DEF RepairAssumptions, File, Elf
<1>1. Init => TypeOK
  <2>. SUFFICES ASSUME Init
                PROVE  TypeOK
    OBVIOUS
  <2>1. PICK forExe, forExt \in RootNeeds :
          needed = [f \in Elf |-> {Soname(l) : l \in IF f = "exe" THEN forExe
                                                   ELSE IF f = "ext" THEN forExt
                                                   ELSE Needs[f]}]
    BY DEF Init
  <2>2. ASSUME NEW f \in Elf
        PROVE  {Soname(l) : l \in IF f = "exe" THEN forExe
                                ELSE IF f = "ext" THEN forExt ELSE Needs[f]} \subseteq Entry
    <3>1. (IF f = "exe" THEN forExe ELSE IF f = "ext" THEN forExt ELSE Needs[f]) \subseteq Lib
      OBVIOUS
    <3>. QED  BY <3>1, EntryTypes
  <2>3. needed \in [Elf -> SUBSET Entry]
    BY <2>1, <2>2
  <2>4. files \subseteq File /\ record \subseteq File /\ staged \subseteq Lib
    BY DEF Init
  <2>5. /\ rpath \in [Elf -> SUBSET (0 .. Len(PkgDir) + 2)] /\ unset \subseteq Lib
        /\ saved \subseteq Entry /\ pc \in Steps /\ exe \in {"original", "patched"}
    BY DEF Init, Steps
  <2>6. /\ hasExe \in BOOLEAN /\ sbom \in BOOLEAN /\ fresh \in BOOLEAN
        /\ moved \in BOOLEAN /\ unread \in BOOLEAN
        /\ section \in {"root", "platlib"}
    BY Zenon DEF Init
  <2>. QED  BY <2>3, <2>4, <2>5, <2>6 DEF TypeOK
<1>2. TypeOK /\ [Next]_vars => TypeOK'
  <2>. SUFFICES ASSUME TypeOK, [Next]_vars
                PROVE  TypeOK'
    OBVIOUS
  <2>. USE DEF TypeOK, Steps, Wheel, Unnoticed
  <2>1. CASE Save
    BY <2>1 DEF Save
  <2>2. CASE Auditwheel
    <3>1. PICK vendored \in {Vendored} :
            /\ files' = ({"libs"} \X vendored) \cup ({"dupes", "stubs"} \X staged)
            /\ needed' = [f \in Elf |-> {IF e.lib \in vendored THEN Hashed(e.lib) ELSE e
                                            : e \in needed[f]}]
      BY <2>2 DEF Auditwheel
    <3>2. files' \subseteq File
      BY <3>1 DEF Vendored
    <3>3. \A e \in Entry : Hashed(e.lib) \in Entry
      BY EntryTypes
    <3>4. needed' \in [Elf -> SUBSET Entry]
      BY <3>1, <3>3
    <3>5. rpath' \in [Elf -> SUBSET (0 .. Len(PkgDir) + 2)]
      <4>1. PICK own \in {{}, {0}} :
              rpath' = [f \in Elf |-> CASE f = "exe" -> IF moved' THEN {1} ELSE {2}
                                        [] f = "ext" -> {Len(ExtDir)}
                                        [] OTHER     -> own]
        BY <2>2 DEF Auditwheel
      <4>. QED  BY <4>1, LevelsOfExt
    <3>6. record' \subseteq File /\ pc' \in Steps /\ exe' \in {"original", "patched"}
      BY <2>2, <3>2 DEF Auditwheel
    <3>7. /\ hasExe' \in BOOLEAN /\ sbom' \in BOOLEAN /\ fresh' \in BOOLEAN
          /\ moved' \in BOOLEAN /\ unread' \in BOOLEAN
      BY <2>2, Zenon DEF Auditwheel
    <3>8. /\ section' \in {"root", "platlib"} /\ staged' \subseteq Lib /\ saved' \subseteq Entry
          /\ unset' \subseteq Lib
      BY <2>2 DEF Auditwheel
    <3>. QED  BY <3>2, <3>4, <3>5, <3>6, <3>7, <3>8
  <2>3. CASE Restore
    <3>1. \A e \in saved : Renamed(e) \in Entry
      BY RenamedType
    <3>2. needed' \in [Elf -> SUBSET Entry]
      BY <2>3, <3>1 DEF Restore
    <3>3. "exe" \in Elf /\ rpath' \in [Elf -> SUBSET (0 .. Len(PkgDir) + 2)]
      BY <2>3, LevelsOfExt DEF Restore
    <3>4. fresh' \in BOOLEAN
      BY <2>3 DEF Restore
    <3>. QED  BY <2>3, <3>2, <3>3, <3>4 DEF Restore
  <2>4. CASE Dupes
    BY <2>4 DEF Dupes
  <2>5. CASE DropIcu
    <3>1. [f \in Elf |-> Unlinked(f)] \in [Elf -> SUBSET Entry]
      BY DEF Unlinked
    <3>2. fresh' \in BOOLEAN /\ unread' \in BOOLEAN /\ files' \subseteq File /\ record' \subseteq File
      BY <2>5 DEF DropIcu
    <3>3. needed' \in [Elf -> SUBSET Entry]
      BY <2>5, <3>1 DEF DropIcu
    <3>. QED  BY <2>5, <3>2, <3>3 DEF DropIcu
  <2>6. CASE NoRegex \/ NotReplaced \/ Fail
    BY <2>6 DEF NoRegex, NotReplaced, Fail
  <2>7. CASE FixRpath
    <3>1. rpath' \in [Elf -> SUBSET (0 .. Len(PkgDir) + 2)]
      BY <2>7, LevelsOfExt, LevelsOfLib DEF FixRpath
    <3>2. fresh' \in BOOLEAN /\ unset' \subseteq Lib
      BY <2>7 DEF FixRpath, In
    <3>. QED  BY <2>7, <3>1, <3>2 DEF FixRpath
  <2>8. CASE Pack
    <3>1. fresh' \in BOOLEAN
      BY <2>8, Zenon DEF Pack
    <3>. QED  BY <2>8, <3>1 DEF Pack
  <2>9. CASE UNCHANGED vars
    BY <2>9 DEF vars
  <2>. QED  BY <2>1, <2>2, <2>3, <2>4, <2>5, <2>6, <2>7, <2>8, <2>9 DEF Next
<1>. QED  BY <1>1, <1>2, PTL DEF Spec

------------------------------------------------------------------------------
(* The invariant *)

(* The saved entries are those the program was linked with.                   *)
SavedAsLinked ==
  /\ pc \in {"save", "auditwheel"} => \A f \in Elf : \A e \in needed[f] : ~ e.hashed
  /\ pc = "save" => saved = {}
  /\ pc = "auditwheel" /\ saved # {} => saved = needed["exe"]
  /\ \A e \in saved : ~ e.hashed
  /\ saved # {} => hasExe
  /\ pc \in {"restore", "dupes", "icu", "rpath"} => saved # {}
  /\ pc = "restore" => \A e \in saved : e.lib \in In("libs") \cup System

(* What may be asked for in vain: an ICU library, by any file but a           *)
(* Boost.Regex that patchelf could read.                                      *)
Excused(f, e) == e.lib \in Icu /\ (f = Regex => unread)

(* From auditwheel on nothing asks for a library that is not there, between   *)
(* any two steps of the script, until ICU is dropped; from then on nothing    *)
(* but what is excused.                                                       *)
Resolved ==
  /\ pc \in {"restore", "dupes", "icu"} =>
       \A f \in Shipped : \A e \in needed[f] : Present(e)
  /\ pc \in {"rpath", "pack", "done"} =>
       \A f \in Shipped : \A e \in needed[f] : Present(e) \/ Excused(f, e)

Edited == pc \in {"dupes", "icu", "rpath", "pack", "done"} /\ saved # {}

(* The program that is put back asks for the libraries it was linked with,    *)
(* and looks for them where they are as long as there are any; one that       *)
(* auditwheel did not move stays as auditwheel left it.                       *)
Restored ==
  /\ pc = "restore" => exe = "patched"
  /\ Edited /\ exe = "original" =>
       \A e \in saved : Dashed[e.lib] = {e.lib} => \E d \in needed["exe"] : d.lib = e.lib
  /\ Edited /\ moved /\ In("libs") # {} => rpath["exe"] = {1}
  /\ pc \in {"pack", "done"} /\ saved # {} =>
       \A f \in Shipped \ unset : f # "exe" \/ moved => Leads(f)

(* RECORD and the files part only where ICU goes, and there by the names that *)
(* the expression does not have.                                              *)
Recorded ==
  /\ pc \in {"restore", "dupes", "icu"} => record = files
  /\ pc \in {"rpath", "pack", "done"} =>
       files \subseteq record /\ record \ files \subseteq {"libs"} \X (Icu \ IcuListed)
  /\ pc = "done" /\ sbom => record = files /\ fresh

RepairInv == SavedAsLinked /\ Resolved /\ Restored /\ Recorded

LEMMA InvInit == Init => RepairInv
<1>. SUFFICES ASSUME Init
              PROVE  RepairInv
  OBVIOUS
<1>1. PICK forExe, forExt \in RootNeeds :
        needed = [f \in Elf |-> {Soname(l) : l \in IF f = "exe" THEN forExe
                                                 ELSE IF f = "ext" THEN forExt
                                                 ELSE Needs[f]}]
  BY DEF Init
<1>2. \A f \in Elf : \A e \in needed[f] : ~ e.hashed
  <2>. SUFFICES ASSUME NEW f \in Elf, NEW e \in needed[f]
                PROVE  ~ e.hashed
    OBVIOUS
  <2>1. \E l : e = Soname(l)
    BY <1>1
  <2>. QED  BY <2>1 DEF Soname
<1>3. SavedAsLinked
  BY <1>2 DEF Init, SavedAsLinked
<1>4. Resolved /\ Restored /\ Recorded
  BY DEF Init, Resolved, Restored, Recorded, Edited
<1>. QED  BY <1>3, <1>4 DEF RepairInv

(* auditwheel: what was vendored is in itis_dakota.libs, by its hashed name.  *)
LEMMA AuditwheelKeeps ==
  ASSUME TypeOK, RepairInv, Auditwheel
  PROVE  RepairInv'
<1>. USE RepairAssumptions DEF RepairAssumptions
<1>1. /\ files' = ({"libs"} \X Vendored) \cup ({"dupes", "stubs"} \X staged)
      /\ needed' = [f \in Elf |-> {IF e.lib \in Vendored THEN Hashed(e.lib) ELSE e
                                      : e \in needed[f]}]
      /\ UNCHANGED <<hasExe, section, sbom, staged, saved>>
      /\ record' = files' /\ pc' \in {"pack", "restore"}
      /\ pc' = "pack" <=> saved = {}
      /\ pc = "auditwheel"
  BY DEF Auditwheel, Wheel
<1>2. In("libs")' = Vendored
  BY <1>1 DEF In, Vendored
<1>3. \A f \in Elf : \A e \in needed[f] : e \in Entry /\ e.lib \in Lib /\ ~ e.hashed
  BY <1>1, EntryTypes DEF TypeOK, RepairInv, SavedAsLinked
<1>4. \A f \in Elf : \A e \in needed'[f] :
        \E d \in needed[f] : e = IF d.lib \in Vendored THEN Hashed(d.lib) ELSE d
  BY <1>1
<1>5. Resolved'
  <2>. SUFFICES ASSUME NEW f \in Shipped', NEW e \in needed'[f]
                PROVE  e.lib \in (IF e.hashed THEN In("libs")' ELSE System)
    BY DEF Resolved, Present
  <2>1. f \in Elf /\ f \in Roots \cup Vendored
    BY <1>1, <1>2 DEF Shipped, Roots, Elf, Vendored
  <2>2. PICK d \in needed[f] : e = IF d.lib \in Vendored THEN Hashed(d.lib) ELSE d
    BY <1>4, <2>1
  <2>3. d.lib \in Vendored \cup System /\ ~ d.hashed
    BY <1>3, <2>1, VendoredIsClosed
  <2>4. CASE d.lib \in Vendored
    BY <1>2, <2>2, <2>4 DEF Hashed
  <2>5. CASE d.lib \notin Vendored
    BY <2>2, <2>3, <2>5
  <2>. QED  BY <2>4, <2>5
<1>6. SavedAsLinked'
  <2>1. ASSUME saved # {}, NEW e \in saved
        PROVE  e.lib \in Vendored \cup System
    <3>1. "exe" \in Roots /\ e \in needed["exe"] /\ "exe" \in Elf
      BY <1>1, <2>1 DEF RepairInv, SavedAsLinked, Roots, Elf
    <3>. QED  BY <1>3, <3>1, VendoredIsClosed
  <2>. QED  BY <1>1, <1>2, <2>1 DEF RepairInv, SavedAsLinked
<1>7. Restored' /\ Recorded'
  BY <1>1 DEF Auditwheel, Restored, Recorded, Edited
<1>. QED  BY <1>5, <1>6, <1>7 DEF RepairInv

(* The program is put back, with the names of the hashed libraries.           *)
LEMMA RestoreKeeps ==
  ASSUME TypeOK, RepairInv, Restore
  PROVE  RepairInv'
<1>1. /\ pc = "restore" /\ pc' = "dupes" /\ exe' = "original" /\ "exe" \in Elf
      /\ needed' = [needed EXCEPT !["exe"] = {Renamed(e) : e \in saved}]
      /\ rpath' = [rpath EXCEPT !["exe"] = IF In("libs") # {} THEN {1} ELSE {}]
      /\ UNCHANGED <<hasExe, section, sbom, staged, moved, saved, files, record, unread, unset>>
  BY DEF Restore, Wheel, Unnoticed, Elf
<1>2. In("libs")' = In("libs") /\ Shipped' = Shipped
  BY <1>1 DEF In, Shipped
<1>3. \A e \in saved : e \in Entry /\ ~ e.hashed /\ e.lib \in In("libs") \cup System
  BY <1>1 DEF TypeOK, RepairInv, SavedAsLinked
<1>4. \A e \in saved : /\ Present(Renamed(e))
                       /\ Dashed[e.lib] = {e.lib} => Renamed(e).lib = e.lib
  BY <1>3, RenamedIs
<1>5. /\ needed'["exe"] = {Renamed(e) : e \in saved}
      /\ rpath'["exe"] = IF In("libs") # {} THEN {1} ELSE {}
  BY <1>1 DEF TypeOK
<1>6. \A f \in Elf \ {"exe"} : needed'[f] = needed[f]
  BY <1>1 DEF TypeOK
<1>7. Resolved'
  <2>. SUFFICES ASSUME NEW f \in Shipped, NEW e \in needed'[f]
                PROVE  Present(e)
    BY <1>1, <1>2 DEF Resolved, Present
  <2>1. CASE f = "exe"
    BY <1>4, <1>5, <2>1
  <2>2. CASE f # "exe"
    <3>1. e \in needed[f]
      BY <1>6, <2>2 DEF Shipped, In, Elf
    <3>. QED  BY <1>1, <3>1 DEF RepairInv, Resolved
  <2>. QED  BY <2>1, <2>2
<1>8. Restored'
  BY <1>1, <1>2, <1>4, <1>5 DEF Restored, Edited
<1>9. SavedAsLinked' /\ Recorded'
  BY <1>1 DEF RepairInv, SavedAsLinked, Recorded
<1>. QED  BY <1>7, <1>8, <1>9 DEF RepairInv

(* ICU goes: what asks for it now in vain is excused, for a Boost.Regex that  *)
(* was read was unlinked.                                                     *)
LEMMA DropIcuKeeps ==
  ASSUME TypeOK, RepairInv, DropIcu
  PROVE  RepairInv'
<1>. USE RepairAssumptions DEF RepairAssumptions
<1>1. /\ pc = "icu" /\ pc' = "rpath" /\ unread' \in BOOLEAN
      /\ needed' = IF unread' THEN needed ELSE [f \in Elf |-> Unlinked(f)]
      /\ files' = files \ ({"libs"} \X Icu)
      /\ record' = record \ ({"libs"} \X IcuListed)
      /\ UNCHANGED <<hasExe, section, sbom, staged, rpath, moved, exe, saved, unset>>
  BY DEF DropIcu, Wheel
<1>2. In("libs")' = In("libs") \ Icu
  BY <1>1 DEF In
<1>3. \A f \in Elf : needed'[f] \subseteq needed[f]
  BY <1>1 DEF Unlinked
<1>4. ASSUME NEW e \in needed'[Regex], ~ unread'
      PROVE  e.lib \notin Icu
  BY <1>1, <1>4 DEF Unlinked, Elf
<1>5. Resolved'
  <2>. SUFFICES ASSUME NEW f \in Shipped', NEW e \in needed'[f]
                PROVE  Present(e)' \/ Excused(f, e)'
    BY <1>1 DEF Resolved
  <2>1. f \in Shipped /\ f \in Elf
    BY <1>1, <1>2 DEF Shipped, Elf, In
  <2>2. e \in needed[f] /\ Present(e)
    BY <1>1, <1>3, <2>1 DEF RepairInv, Resolved
  <2>3. CASE e.lib \in Icu
    BY <1>1, <1>4, <2>3 DEF Excused
  <2>4. CASE e.lib \notin Icu
    BY <1>2, <2>2, <2>4 DEF Present
  <2>. QED  BY <2>3, <2>4
<1>6. Restored'
  <2>1. needed'["exe"] = needed["exe"]
    BY <1>1 DEF Unlinked, Elf
  <2>. QED  BY <1>1, <1>2, <2>1 DEF RepairInv, Restored, Edited
<1>7. SavedAsLinked'
  BY <1>1 DEF RepairInv, SavedAsLinked
<1>8. Recorded'
  BY <1>1 DEF RepairInv, Recorded, TypeOK, File
<1>. QED  BY <1>5, <1>6, <1>7, <1>8 DEF RepairInv

(* The search paths lead to itis_dakota.libs once step 6 is over.             *)
LEMMA FixRpathKeeps ==
  ASSUME TypeOK, RepairInv, FixRpath
  PROVE  RepairInv'
<1>. USE RepairAssumptions DEF RepairAssumptions
<1>1. /\ pc = "rpath" /\ pc' = "pack" /\ In("libs") # {}
      /\ rpath' = [f \in Elf |-> CASE f = "exe"          -> rpath[f]
                                   [] f = "ext"          -> {Levels(ExtDir)}
                                   [] f \in Unversioned -> {Levels(<<"itis_dakota.libs">>)}
                                   [] f \in unset'      -> rpath[f]
                                   [] OTHER              -> {0}]
      /\ UNCHANGED <<hasExe, section, sbom, staged, needed, moved, exe, saved, files, record, unread>>
  BY DEF FixRpath, Wheel
<1>2. Edited /\ In("libs")' = In("libs") /\ Shipped' = Shipped
  BY <1>1 DEF RepairInv, SavedAsLinked, Edited, In, Shipped
<1>3. ASSUME NEW f \in Shipped \ unset', f # "exe" \/ moved
      PROVE  Leads(f)'
  <2>1. f \in Elf
    BY DEF Shipped, In, Elf
  <2>2. CASE f = "exe"
    <3>1. rpath["exe"] = {1}
      BY <1>1, <1>2, <1>3, <2>2 DEF RepairInv, Restored
    <3>2. rpath'["exe"] = {1}
      BY <1>1, <2>1, <2>2, <3>1
    <3>. QED  BY <2>2, <3>2 DEF Leads, Installed
  <2>3. CASE f = "ext"
    <3>1. rpath'["ext"] = {Len(PkgDir)}
      BY <1>1, <2>1, <2>3, LevelsOfExt DEF TypeOK
    <3>. QED  BY <2>3, <3>1 DEF Leads, Installed
  <2>4. CASE f \in Lib
    <3>1. f \notin {"exe", "ext"}
      BY <2>4
    <3>2. CASE f \in Unversioned
      <4>1. rpath'[f] = {1}
        BY <1>1, <2>1, <3>1, <3>2, LevelsOfLib
      <4>. QED  BY <3>1, <4>1 DEF Leads, Installed
    <3>3. CASE f \notin Unversioned
      <4>1. rpath'[f] = {0}
        BY <1>1, <2>1, <3>1, <3>3
      <4>. QED  BY <2>4, <4>1 DEF Leads
    <3>. QED  BY <3>2, <3>3
  <2>. QED  BY <2>1, <2>2, <2>3, <2>4 DEF Elf
<1>4. Restored'
  <2>1. "exe" \in Elf /\ rpath'["exe"] = rpath["exe"]
    BY <1>1 DEF Elf
  <2>. QED  BY <1>1, <1>2, <1>3, <2>1 DEF RepairInv, Restored, Edited
<1>5. SavedAsLinked' /\ Recorded'
  BY <1>1 DEF RepairInv, SavedAsLinked, Recorded
<1>6. Resolved'
  BY <1>1, <1>2 DEF RepairInv, Resolved, Present, Excused
<1>. QED  BY <1>4, <1>5, <1>6 DEF RepairInv

(* RepairInv is an invariant: auditwheel vendors a closed set, and each step  *)
(* after it renames or drops entries and files together, but for the ICU      *)
(* libraries.                                                                 *)
THEOREM LinuxInvariant == Spec => []RepairInv
<1>1. Init => RepairInv
  BY InvInit
<1>2. TypeOK /\ RepairInv /\ [Next]_vars => RepairInv'
  <2>. SUFFICES ASSUME TypeOK, RepairInv, [Next]_vars
                PROVE  RepairInv'
    OBVIOUS
  <2>. USE DEF Wheel, Unnoticed
  <2>1. CASE Save
    <3>1. SavedAsLinked'
      <4>1. "exe" \in Elf
        BY DEF Elf
      <4>. QED  BY <2>1, <4>1 DEF Save, RepairInv, SavedAsLinked
    <3>2. Resolved' /\ Restored' /\ Recorded'
      BY <2>1 DEF Save, RepairInv, Resolved, Restored, Recorded, Edited
    <3>. QED  BY <3>1, <3>2 DEF RepairInv
  <2>2. CASE Auditwheel
    BY <2>2, AuditwheelKeeps
  <2>3. CASE Restore
    BY <2>3, RestoreKeeps
  <2>4. CASE NotReplaced
    <3>1. exe = "patched"
      BY <2>4 DEF NotReplaced, RepairInv, Restored
    <3>. QED  BY <2>4, <3>1 DEF NotReplaced, RepairInv, SavedAsLinked, Resolved, Present, Shipped,
                In, Restored, Recorded, Edited
  <2>5. CASE Dupes
    <3>1. /\ pc = "dupes" /\ pc' = "icu"
          /\ UNCHANGED <<hasExe, needed, rpath, moved, exe, saved, unread, unset>>
          /\ files' = files \ ({"dupes", "stubs"} \X Lib)
          /\ record' = record \ ({"dupes", "stubs"} \X Lib)
      BY <2>5 DEF Dupes, ListedDupes
    <3>2. In("libs")' = In("libs")
      BY <3>1 DEF In
    <3>3. Resolved'
      BY <3>1, <3>2 DEF RepairInv, Resolved, Present, Shipped
    <3>4. SavedAsLinked' /\ Restored' /\ Recorded'
      BY <3>1, <3>2 DEF RepairInv, SavedAsLinked, Restored, Recorded, Edited
    <3>. QED  BY <3>3, <3>4 DEF RepairInv
  <2>6. CASE DropIcu
    BY <2>6, DropIcuKeeps
  <2>7. CASE NoRegex
    BY <2>7 DEF NoRegex, RepairInv, SavedAsLinked, Resolved, Present, Excused, Shipped,
                In, Restored, Recorded, Edited
  <2>8. CASE FixRpath
    BY <2>8, FixRpathKeeps
  <2>9. CASE Pack
    <3>1. /\ pc = "pack" /\ pc' = "done"
          /\ UNCHANGED <<hasExe, needed, rpath, moved, exe, saved, files, unread, unset>>
      BY <2>9 DEF Pack
    <3>2. sbom' = sbom /\ record' = (IF sbom THEN files ELSE record) /\ (sbom => fresh')
      BY <2>9 DEF Pack
    <3>3. Recorded'
      BY <3>1, <3>2 DEF RepairInv, Recorded
    <3>4. SavedAsLinked' /\ Resolved' /\ Restored'
      BY <3>1 DEF RepairInv, SavedAsLinked, Resolved, Present, Excused, Shipped, In,
                  Restored, Edited, Leads
    <3>. QED  BY <3>3, <3>4 DEF RepairInv
  <2>10. CASE Fail
    BY <2>10 DEF Fail, RepairInv, SavedAsLinked, Resolved, Restored, Recorded, Edited
  <2>11. CASE UNCHANGED vars
    BY <2>11 DEF vars, RepairInv, SavedAsLinked, Resolved, Present, Excused, Shipped,
                 In, Restored, Recorded, Edited, Leads
  <2>. QED  BY <2>1, <2>2, <2>3, <2>4, <2>5, <2>6, <2>7, <2>8, <2>9, <2>10, <2>11 DEF Next
<1>. QED  BY <1>1, <1>2, LinuxTypeCorrect, PTL DEF Spec

------------------------------------------------------------------------------
(* What follows from it *)

(* Nothing in a repaired wheel asks for a library that is not there, whatever *)
(* the libraries are linked with, but for the ICU libraries that step 5 drops *)
(* (L36-115).                                                                 *)
THEOREM LinuxWheelLoads == Spec => []AllResolve
<1>1. RepairInv => AllResolve
  BY DEF RepairInv, Resolved, Excused, Restored, Edited, AllResolve
<1>. QED  BY <1>1, LinuxInvariant, PTL

(* Every file finds itis_dakota.libs from where pip puts it (L117-132), but   *)
(* for a library that patchelf failed on and a program L86 did not find.      *)
THEOREM LinuxSearchPathsLead == Spec => []SearchPathsLead
<1>1. RepairInv => SearchPathsLead
  BY DEF RepairInv, Restored, SearchPathsLead
<1>. QED  BY <1>1, LinuxInvariant, PTL

(* RECORD, edited apart from the files, lists what is there (L97-113), and    *)
(* after augment_sbom.py exactly that, with the right hashes.                 *)
THEOREM LinuxRecordIsExact == Spec => []RecordExact
<1>1. RepairInv => RecordExact
  BY DEF RepairInv, Recorded, RecordExact
<1>. QED  BY <1>1, LinuxInvariant, PTL
==============================================================================
