------------------------- MODULE WindowsRepairProofs -------------------------
(***************************************************************************)
(* Proofs about DllClosure, for every layout of the wheel, every import    *)
(* graph, cyclic ones included, and every order of the work list; then     *)
(* about WindowsRepair, whose steps are steps of DllClosure or leave the   *)
(* closure alone: what is proved of the closure holds of the whole script, *)
(* up to its exit status.                                                  *)
(***************************************************************************)
EXTENDS WindowsRepair, TLAPS

------------------------------------------------------------------------------
(* The pool *)

(* First(S) is a member of S that sorts before all the others.                *)
LEMMA FirstIsFirst ==
  ASSUME NEW S \in SUBSET File, S # {}
  PROVE  First(S) \in S /\ \A g \in S \ {First(S)} : Rank[First(S)] < Rank[g]
  BY DllAssumptions DEF ListingAssumption, First

(* The pool maps a name to a DLL of the wheel or to nothing.                  *)
LEMMA PoolType == pool \in [Name -> File \cup {NoFile}]
<1>. SUFFICES ASSUME NEW n \in Name
              PROVE  pool[n] \in File \cup {NoFile}
  BY DEF pool
<1>1. Originals(n) \in SUBSET File /\ Keyed(n) \in SUBSET File
  BY DEF Originals, Keyed
<1>2. CASE Originals(n) # {}
  BY <1>1, <1>2, FirstIsFirst DEF pool
<1>3. CASE Originals(n) = {} /\ Keyed(n) # {}
  BY <1>1, <1>3, FirstIsFirst DEF pool
<1>4. CASE Originals(n) = {} /\ Keyed(n) = {}
  BY <1>4 DEF pool
<1>. QED  BY <1>2, <1>3, <1>4

(* The scripts directory as it was extracted.                                 *)
LEMMA ExtractedType == Extracted \in [Name -> File \cup {NoFile}]
<1>. SUFFICES ASSUME NEW n \in Name
              PROVE  Extracted[n] \in File \cup {NoFile}
  BY DEF Extracted
<1>1. CASE \E f \in InScripts : NameOf[f] = n
  BY <1>1, DllAssumptions DEF Extracted, LayoutAssumption
<1>2. CASE ~ \E f \in InScripts : NameOf[f] = n
  BY <1>2 DEF Extracted
<1>. QED  BY <1>1, <1>2

(* A DLL that lies beside dakota.exe is the pool's entry for its name: a      *)
(* mangled copy under itis_dakota.libs never takes its place.  The loop reads *)
(* the imports of the pool's file, so this is what makes them those of the    *)
(* file the loader will open.                                                 *)
LEMMA ScriptsFirst ==
  \A n \in Name : Extracted[n] # NoFile =>
    /\ pool[n] = Extracted[n]
    /\ n \notin System
<1>. SUFFICES ASSUME NEW n \in Name, Extracted[n] # NoFile
              PROVE  pool[n] = Extracted[n] /\ n \notin System
  OBVIOUS
<1>. DEFINE f == Extracted[n]
<1>1. f \in InScripts /\ NameOf[f] = n
  BY DEF Extracted
<1>2. f \in File /\ BaseOf[f] = n /\ n \notin System
  BY <1>1, DllAssumptions DEF LayoutAssumption, SystemAssumption
<1>3. ASSUME NEW S \in SUBSET File, f \in S,
             \A g \in S : NameOf[g] = n \/ BaseOf[g] = n
      PROVE  First(S) = f
  <2>1. /\ First(S) \in S
        /\ \A g \in S \ {First(S)} : Rank[First(S)] < Rank[g]
    BY <1>3, FirstIsFirst
  <2>. SUFFICES ASSUME First(S) # f
                PROVE  FALSE
    OBVIOUS
  <2>2. Rank[First(S)] < Rank[f] /\ Rank[f] \in Nat /\ Rank[First(S)] \in Nat
    BY <2>1, <1>2, <1>3, DllAssumptions DEF ListingAssumption
  <2>3. First(S) \in InScripts
    BY <2>1, <2>2, <1>1, DllAssumptions DEF LayoutAssumption
  <2>4. NameOf[First(S)] = n
    BY <2>1, <2>3, <1>3, DllAssumptions DEF LayoutAssumption
  <2>. QED  BY <2>3, <2>4, <1>1, DllAssumptions DEF LayoutAssumption
<1>4. CASE f \notin Dashed
  <2>1. f \in Originals(n)
    BY <1>4, <1>1, <1>2 DEF Originals
  <2>. QED  BY <2>1, <1>2, <1>3 DEF Originals, pool
<1>5. CASE f \in Dashed
  <2>1. Originals(n) = {}
    BY <1>5, <1>1, <1>2, DllAssumptions DEF Originals, LayoutAssumption
  <2>2. f \in Keyed(n)
    BY <1>1, <1>2 DEF Keyed
  <2>3. \A g \in Keyed(n) : NameOf[g] = n \/ BaseOf[g] = n
    BY DEF Keyed
  <2>. QED  BY <2>1, <2>2, <2>3, <1>2, <1>3 DEF Keyed, pool
<1>. QED  BY <1>4, <1>5, <1>2

------------------------------------------------------------------------------
(* Type correctness *)

(* The loop keeps to names, and the directory to files of the wheel.          *)
THEOREM TypeCorrect == Spec => []TypeOK
<1>1. Init => TypeOK
  BY ExtractedType, DllAssumptions DEF Init, TypeOK, SystemAssumption
<1>2. TypeOK /\ [Next]_vars => TypeOK'
  <2>. SUFFICES ASSUME TypeOK, [Next]_vars
                PROVE  TypeOK'
    OBVIOUS
  <2>. USE DEF TypeOK
  <2>1. ASSUME NEW n \in Name, Skip(n)
        PROVE  TypeOK'
    BY <2>1 DEF Skip
  <2>2. ASSUME NEW n \in Name, Miss(n)
        PROVE  TypeOK'
    BY <2>2 DEF Miss
  <2>3. ASSUME NEW n \in Name, Stage(n)
        PROVE  TypeOK'
    <3>1. pool[n] \in File
      BY <2>3, PoolType DEF Stage
    <3>2. imports[pool[n]] \subseteq Name
      BY <3>1, DllAssumptions DEF SystemAssumption
    <3>3. scripts' \in [Name -> File \cup {NoFile}]
      BY <2>3, <3>1 DEF Stage, Copied
    <3>. QED  BY <2>3, <3>2, <3>3 DEF Stage
  <2>4. CASE Refuse
    BY <2>4 DEF Refuse
  <2>5. CASE Replace
    BY <2>5 DEF Replace
  <2>6. CASE Crash
    BY <2>6 DEF Crash
  <2>7. CASE UNCHANGED vars
    BY <2>7 DEF vars
  <2>. QED  BY <2>1, <2>2, <2>3, <2>4, <2>5, <2>6, <2>7 DEF Next, Progress
<1>. QED  BY <1>1, <1>2, PTL DEF Spec

------------------------------------------------------------------------------
(* The invariant of the loop *)

(* Staging a name that is new to the loop leaves the directory as Resolved    *)
(* says: the copy is the pool's file, or the file already there is.           *)
LEMMA CopyResolves ==
  ASSUME TypeOK, Resolved, NEW n \in Name, Fresh(n), pool[n] # NoFile
  PROVE  Copied(n) = [scripts EXCEPT ![n] = pool[n]]
<1>1. scripts[n] = Extracted[n] /\ scripts \in [Name -> File \cup {NoFile}]
  BY DEF Resolved, Fresh, TypeOK
<1>2. scripts[n] = NoFile \/ scripts[n] = pool[n]
  BY <1>1, ScriptsFirst
<1>. QED  BY <1>1, <1>2 DEF Copied

(* What is missing was not there to begin with.                               *)
LEMMA MissingAbsent ==
  ASSUME NEW n \in Name, pool[n] = NoFile
  PROVE  Extracted[n] = NoFile
  BY ScriptsFirst

(* At every step of the loop what was seen is resolved or missing, all that   *)
(* resolved DLLs import is seen, pending or the system's, and nothing else    *)
(* is ever asked for; the wheel is never half done.                           *)
THEOREM WorkListCorrect == Spec => []WorkListInv
<1>1. Init => WorkListInv
  <2>. SUFFICES ASSUME Init
                PROVE  WorkListInv
    OBVIOUS
  <2>1. Resolved
    BY ExtractedType DEF Init, Resolved
  <2>2. Covered
    BY DEF Init, Covered
  <2>3. OnlyNeeded
    BY DEF Init, OnlyNeeded, Bundle!NeedClosed
  <2>4. WheelWhole
    BY DEF Init, WheelWhole
  <2>. QED  BY <2>1, <2>2, <2>3, <2>4 DEF WorkListInv
<1>2. TypeOK /\ WorkListInv /\ [Next]_vars => WorkListInv'
  <2>. SUFFICES ASSUME TypeOK, WorkListInv, [Next]_vars
                PROVE  WorkListInv'
    OBVIOUS
  <2>. USE DEF WorkListInv
  <2>1. ASSUME NEW n \in Name, Skip(n)
        PROVE  WorkListInv'
    <3>1. Resolved'
      BY <2>1 DEF Skip, Resolved
    <3>2. Covered'
      BY <2>1 DEF Skip, Fresh, Covered
    <3>3. OnlyNeeded'
      BY <2>1 DEF Skip, OnlyNeeded, Bundle!NeedClosed
    <3>4. WheelWhole'
      BY <2>1 DEF Skip, Popped, WheelWhole
    <3>. QED  BY <3>1, <3>2, <3>3, <3>4
  <2>2. ASSUME NEW n \in Name, Miss(n)
        PROVE  WorkListInv'
    <3>1. Resolved'
      <4>1. Extracted[n] = NoFile
        BY <2>2, MissingAbsent DEF Miss
      <4>. QED  BY <2>2, <4>1 DEF Miss, Fresh, Resolved
    <3>2. Covered'
      BY <2>2 DEF Miss, Covered
    <3>3. OnlyNeeded'
      BY <2>2 DEF Miss, Popped, OnlyNeeded, Bundle!NeedClosed
    <3>4. WheelWhole'
      BY <2>2 DEF Miss, Popped, WheelWhole
    <3>. QED  BY <3>1, <3>2, <3>3, <3>4
  <2>3. ASSUME NEW n \in Name, Stage(n)
        PROVE  WorkListInv'
    <3>0. scripts' = [scripts EXCEPT ![n] = pool[n]]
      BY <2>3, CopyResolves DEF Stage
    <3>1. Resolved'
      BY <2>3, <3>0 DEF Stage, Fresh, Resolved, TypeOK
    <3>2. Covered'
      BY <2>3 DEF Stage, Covered
    <3>3. OnlyNeeded'
      <4>. SUFFICES ASSUME NEW S \in SUBSET Name, Bundle!NeedClosed(S)'
                    PROVE  seen' \cup work' \subseteq S
        BY DEF OnlyNeeded
      <4>1. Bundle!NeedClosed(S)
        BY <2>3 DEF Stage, Bundle!NeedClosed
      <4>2. seen \cup work \subseteq S /\ n \in S \ System
        BY <4>1, <2>3 DEF OnlyNeeded, Stage, Popped, Fresh
      <4>3. imports[pool[n]] \subseteq S
        BY <4>1, <4>2, <2>3 DEF Bundle!NeedClosed, Stage
      <4>. QED  BY <4>2, <4>3, <2>3 DEF Stage
    <3>4. WheelWhole'
      BY <2>3 DEF Stage, Popped, WheelWhole
    <3>. QED  BY <3>1, <3>2, <3>3, <3>4
  <2>4. CASE Refuse
    BY <2>4 DEF Refuse, Resolved, Covered, OnlyNeeded, WheelWhole, Bundle!NeedClosed
  <2>5. CASE Replace
    BY <2>5 DEF Replace, Resolved, Covered, OnlyNeeded, WheelWhole, Bundle!NeedClosed
  <2>6. CASE Crash
    BY <2>6 DEF Crash, Resolved, Covered, OnlyNeeded, WheelWhole, Bundle!NeedClosed
  <2>7. CASE UNCHANGED vars
    BY <2>7 DEF vars, Resolved, Covered, OnlyNeeded, WheelWhole, Bundle!NeedClosed
  <2>. QED  BY <2>1, <2>2, <2>3, <2>4, <2>5, <2>6, <2>7 DEF Next, Progress
<1>. QED  BY <1>1, <1>2, TypeCorrect, PTL DEF Spec

------------------------------------------------------------------------------
(* What the finished wheel guarantees *)

(* The finished wheel's program loads: what was seen and the system's names   *)
(* are closed for the loader, and every one of them is there.                 *)
THEOREM FinishedExeLoads == Spec => []ExeLoads
<1>1. TypeOK /\ WorkListInv => ExeLoads
  <2>. SUFFICES ASSUME TypeOK, WorkListInv, pc = "done"
                PROVE  \E S \in SUBSET Name :
                         /\ LoadClosed(S)
                         /\ \A n \in S : wheel[n] = NoFile => n \in System \cup VenvPython
    BY DEF ExeLoads
  <2>. USE DEF WorkListInv
  <2>1. /\ wheel = scripts /\ work = {} /\ missing \subseteq VenvPython
        /\ seen \subseteq Name /\ System \subseteq Name
    BY DllAssumptions DEF WheelWhole, TypeOK, SystemAssumption
  <2>2. ASSUME NEW n \in System
        PROVE  wheel[n] = NoFile
    <3>1. n \in Name /\ n \notin seen
      BY <2>1, <2>2 DEF Resolved
    <3>2. wheel[n] = Extracted[n]
      BY <2>1, <3>1 DEF Resolved
    <3>. QED  BY <3>1, <3>2, <2>2, ScriptsFirst
  <2>3. ASSUME NEW n \in seen
        PROVE  /\ wheel[n] = pool[n]
               /\ wheel[n] = NoFile => n \in missing
    BY <2>1, <2>3 DEF Resolved
  <2>4. LoadClosed(seen \cup System)
    <3>1. exeImports \subseteq seen \cup System
      BY <2>1 DEF Covered
    <3>2. ASSUME NEW n \in seen, wheel[n] # NoFile
          PROVE  imports[wheel[n]] \subseteq seen \cup System
      <4>1. wheel[n] = pool[n] /\ n \notin missing
        BY <2>1, <2>3, <3>2 DEF Resolved
      <4>. QED  BY <2>1, <4>1 DEF Covered
    <3>. QED  BY <2>2, <3>1, <3>2 DEF LoadClosed
  <2>5. \A n \in seen \cup System : wheel[n] = NoFile => n \in System \cup VenvPython
    BY <2>1, <2>3
  <2>. QED  BY <2>1, <2>4, <2>5
<1>. QED  BY <1>1, TypeCorrect, WorkListCorrect, PTL

(* When the work list is empty the names seen are those the program needs.    *)
LEMMA SeenIsNeeded ==
  ASSUME TypeOK, WorkListInv, work = {}
  PROVE  seen = Bundle!Needed /\ missing = Bundle!Unmet
<1>. USE DEF WorkListInv
<1>1. Bundle!NeedClosed(seen \cup System)
  <2>1. exeImports \subseteq seen \cup System
    BY DEF Covered
  <2>2. ASSUME NEW n \in (seen \cup System) \ System, pool[n] # NoFile
        PROVE  imports[pool[n]] \subseteq seen \cup System
    BY <2>2 DEF Covered, Resolved
  <2>. QED  BY <2>1, <2>2 DEF Bundle!NeedClosed
<1>2. seen \cup System \in SUBSET Name /\ seen \cap System = {}
  BY DllAssumptions DEF TypeOK, SystemAssumption, Resolved
<1>3. Bundle!Needed \subseteq seen
  BY <1>1, <1>2 DEF Bundle!Needed
<1>4. seen \subseteq Bundle!Needed
  BY <1>2 DEF OnlyNeeded, Bundle!Needed
<1>. QED  BY <1>3, <1>4 DEF Resolved, Bundle!Unmet

(* stage_exe_dlls keeps its promise: each step of the loop is a step of       *)
(* ExeBundle or changes nothing that the promise speaks of.                   *)
THEOREM ImplementsBundle == Spec => BundleSpec
<1>1. Init => Bundle!Init
  BY DEF Init, Bundle!Init
<1>2. TypeOK /\ WorkListInv /\ [Next]_vars => [Bundle!Next]_(Bundle!vars)
  <2>. SUFFICES ASSUME TypeOK, WorkListInv, [Next]_vars
                PROVE  [Bundle!Next]_(Bundle!vars)
    OBVIOUS
  <2>1. ASSUME NEW n \in Name, Skip(n) \/ Miss(n) \/ Stage(n)
        PROVE  UNCHANGED Bundle!vars
    BY <2>1 DEF Skip, Miss, Stage, Bundle!vars
  <2>2. CASE Refuse
    <3>1. ~ (Bundle!Unmet \subseteq VenvPython)
      BY <2>2, SeenIsNeeded DEF Refuse
    <3>. QED  BY <2>2, <3>1 DEF Refuse, Bundle!Next, Bundle!Refuse
  <2>3. CASE Replace
    <3>1. seen = Bundle!Needed /\ Bundle!Unmet \subseteq VenvPython
      BY <2>3, SeenIsNeeded DEF Replace
    <3>2. scripts = Bundle!Bundled
      <4>1. scripts = [n \in Name |-> IF n \in seen THEN pool[n] ELSE Extracted[n]]
        BY DEF TypeOK, WorkListInv, Resolved
      <4>2. \A n \in Name : (IF n \in seen THEN pool[n] ELSE Extracted[n])
                            = IF n \in seen /\ Extracted[n] = NoFile
                                THEN pool[n] ELSE Extracted[n]
        BY ScriptsFirst
      <4>. QED  BY <3>1, <4>1, <4>2 DEF Bundle!Bundled
    <3>. QED  BY <2>3, <3>1, <3>2 DEF Replace, Bundle!Next, Bundle!Deliver
  <2>4. CASE Crash
    BY <2>4 DEF Crash, Bundle!Next, Bundle!Crash
  <2>5. CASE UNCHANGED vars
    BY <2>5 DEF vars, Bundle!vars
  <2>. QED  BY <2>1, <2>2, <2>3, <2>4, <2>5 DEF Next, Progress
<1>. QED  BY <1>1, <1>2, TypeCorrect, WorkListCorrect, PTL
          DEF Spec, BundleSpec, Bundle!Spec

------------------------------------------------------------------------------
(* The driver *)

(* The driver takes the steps of stage_exe_dlls and no others.                *)
THEOREM ComposesClosure == RepairSpec => Spec
<1>1. RepairInit => Init
  BY DEF RepairInit
<1>2. [RepairNext]_repairVars => [Next]_vars
  <2>. SUFFICES ASSUME [RepairNext]_repairVars
                PROVE  [Next]_vars
    OBVIOUS
  <2>1. CASE Prestrip \/ StagePath \/ Delvewheel \/ VerifyZip
    BY <2>1 DEF Prestrip, StagePath, Delvewheel, VerifyZip
  <2>2. CASE LoopStep
    BY <2>2 DEF LoopStep, Next, Progress
  <2>3. CASE LoopRefuses \/ RewriteAndZip
    BY <2>3 DEF LoopRefuses, RewriteAndZip, Next, Progress
  <2>4. CASE FailInTry \/ LoopCrashes
    BY <2>4 DEF FailInTry, LoopCrashes, Next
  <2>5. CASE UNCHANGED repairVars
    BY <2>5 DEF repairVars
  <2>. QED  BY <2>1, <2>2, <2>3, <2>4, <2>5 DEF RepairNext, RepairProgress
<1>. QED  BY <1>1, <1>2, PTL DEF RepairSpec, Spec

(* So the whole repair keeps the promise of ExeBundle: whatever fails in the  *)
(* steps around the loop, the wheel gains all it needs at once, or nothing.   *)
THEOREM RepairImplementsBundle == RepairSpec => BundleSpec
  BY ComposesClosure, ImplementsBundle

(* The values the driver's variables take.                                    *)
THEOREM RepairTypeCorrect == RepairSpec => []RepairTypeOK
<1>1. RepairInit => RepairTypeOK
  BY ExtractedType DEF RepairInit, RepairTypeOK, Gone, Bytes, Found, InTry
<1>2. TypeOK /\ RepairTypeOK /\ [RepairNext]_repairVars => RepairTypeOK'
  <2>. SUFFICES ASSUME TypeOK, RepairTypeOK, [RepairNext]_repairVars
                PROVE  RepairTypeOK'
    OBVIOUS
  <2>. USE DEF RepairTypeOK, InTry
  <2>1. CASE Prestrip
    <3>1. PICK bare \in SUBSET InScripts :
            packed' = [f \in InScripts |-> IF f \in bare THEN "stripped" ELSE "raw"]
      BY <2>1 DEF Prestrip
    <3>. QED  BY <2>1, <3>1 DEF Prestrip, Bytes
  <2>2. CASE StagePath
    <3>1. PICK msys \in SUBSET InScripts :
            onPath' = [f \in InScripts |-> IF f \in msys THEN "msys" ELSE packed[f]]
      BY <2>2 DEF StagePath
    <3>. QED  BY <2>2, <3>1 DEF StagePath, Found
  <2>3. CASE Delvewheel
    BY <2>3, ExtractedType DEF Delvewheel, Gone, Bytes, Found
  <2>4. CASE FailInTry
    BY <2>4 DEF FailInTry, Gone, Bytes, Found
  <2>5. CASE LoopStep
    BY <2>5 DEF LoopStep, driverVars
  <2>6. CASE LoopRefuses \/ LoopCrashes
    BY <2>6 DEF LoopRefuses, LoopCrashes
  <2>7. CASE RewriteAndZip
    BY <2>7 DEF RewriteAndZip, TypeOK
  <2>8. CASE VerifyZip
    BY <2>8 DEF VerifyZip
  <2>9. CASE UNCHANGED repairVars
    BY <2>9 DEF repairVars, driverVars
  <2>. QED  BY <2>1, <2>2, <2>3, <2>4, <2>5, <2>6, <2>7, <2>8, <2>9
            DEF RepairNext, RepairProgress
<1>. QED  BY <1>1, <1>2, ComposesClosure, TypeCorrect, PTL DEF RepairSpec

(* Past the archive the closure is done and RECORD is of the same directory;  *)
(* past the verification the archive reads back.                              *)
Finished ==
  /\ step \in {"verify", "ok"} => pc = "done" /\ record = wheel
  /\ step = "verify" => dest \in {"staged", "broken"}
  /\ step = "ok" => dest = "staged"

(* Finished is an invariant: nothing comes after stage_exe_dlls but the look  *)
(* at the archive, and every failure before it ends the script.               *)
THEOREM FinishedInvariant == RepairSpec => []Finished
<1>1. RepairInit => Finished
  BY DEF RepairInit, Finished
<1>2. Finished /\ [RepairNext]_repairVars => Finished'
  <2>. SUFFICES ASSUME Finished, [RepairNext]_repairVars
                PROVE  Finished'
    OBVIOUS
  <2>. USE DEF Finished
  <2>1. CASE Prestrip \/ StagePath \/ Delvewheel
    BY <2>1 DEF Prestrip, StagePath, Delvewheel
  <2>2. CASE FailInTry \/ LoopRefuses \/ LoopCrashes
    BY <2>2 DEF FailInTry, LoopRefuses, LoopCrashes
  <2>3. CASE LoopStep
    BY <2>3 DEF LoopStep, driverVars
  <2>4. CASE RewriteAndZip
    BY <2>4 DEF RewriteAndZip, Replace
  <2>5. CASE VerifyZip
    BY <2>5 DEF VerifyZip, vars
  <2>6. CASE UNCHANGED repairVars
    BY <2>6 DEF repairVars, driverVars, vars
  <2>. QED  BY <2>1, <2>2, <2>3, <2>4, <2>5, <2>6 DEF RepairNext, RepairProgress
<1>. QED  BY <1>1, <1>2, PTL DEF RepairSpec

(* Exit status 0 tells the truth about the wheel in dest_dir.                 *)
THEOREM ExitIsTrue == RepairSpec => []ExitTruth
<1>1. Finished /\ ExeLoads => ExitTruth
  BY DEF Finished, ExitTruth
<1>. QED  BY <1>1, FinishedInvariant, ComposesClosure, FinishedExeLoads, PTL
==============================================================================
