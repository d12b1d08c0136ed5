---------------------------- MODULE WindowsRepair ----------------------------
(***************************************************************************)
(* main of scripts/repair_wheel_windows.py around stage_exe_dlls: every PE *)
(* file is stripped into a second wheel, the DLLs staged in that wheel go  *)
(* to directories on PATH, delvewheel makes the wheel in dest_dir,         *)
(* stage_exe_dlls (DllClosure, whose steps are taken here as they are)     *)
(* completes it, verify_zip reads it once more.                            *)
(*                                                                         *)
(* An exception before stage_exe_dlls is DllClosure's Crash: the script    *)
(* ends without having touched the scripts directory of the wheel.         *)
(***************************************************************************)
EXTENDS DllClosure

VARIABLES
  step,    \* where main is; "ok" is exit status 0, "failed" any other
  packed,  \* [InScripts -> Bytes]: the staged DLLs in the stripped wheel
  onPath,  \* [InScripts -> Found]: the DLL that PATH has under the name
  dest,    \* the wheel in dest_dir: "none", "vendored", "staged" or "broken"
  record   \* *.data/scripts as the RECORD of the wheel in dest_dir lists it

driverVars == <<step, packed, onPath, dest, record>>

repairVars == <<vars, driverVars>>

Bytes == {"none", "raw", "stripped"}

Found == Bytes \cup {"msys"}

Gone == [f \in InScripts |-> "none"]

InTry == {"prestrip", "path", "delvewheel"}

RepairInit ==
  /\ Init
  /\ step = "prestrip"
  /\ packed = Gone
  /\ onPath = Gone
  /\ dest = "none"
  /\ record = Extracted

(* GNU strip may fail on any file; strip_pe warns and goes on.                *)
(* Mutant: only what was stripped goes into the second wheel.                 *)
BugPrestripDrops ==
  /\ step = "prestrip"
  /\ \E bare \in SUBSET InScripts : packed' = [f \in bare |-> "stripped"]
  /\ step' = "path"
  /\ UNCHANGED <<vars, onPath, dest, record>>

Prestrip ==
  /\ step = "prestrip"
  /\ \E bare \in SUBSET InScripts :
       packed' = [f \in InScripts |-> IF f \in bare THEN "stripped" ELSE "raw"]
  /\ step' = "path"
  /\ UNCHANGED <<vars, onPath, dest, record>>

(* The staged DLLs go to directories that come after MSYS_UCRT64_BIN: a DLL   *)
(* of the same name that the build host's MSYS2 has is found in their place.  *)
StagePath ==
  /\ step = "path"
  /\ \E msys \in SUBSET InScripts :
       onPath' = [f \in InScripts |-> IF f \in msys THEN "msys" ELSE packed[f]]
  /\ step' = "delvewheel"
  /\ UNCHANGED <<vars, packed, dest, record>>

(* delvewheel writes its own RECORD; `finally` removes the scratch directory. *)
Delvewheel ==
  /\ step = "delvewheel"
  /\ dest' = "vendored"
  /\ record' = Extracted
  /\ packed' = Gone
  /\ onPath' = Gone
  /\ step' = "closure"
  /\ UNCHANGED vars

(* Any call of the try block raises; delvewheel may have begun to write.      *)
FailInTry ==
  /\ step \in InTry
  /\ Crash
  /\ \/ dest' = dest
     \/ step = "delvewheel" /\ dest' = "broken"
  /\ packed' = Gone
  /\ onPath' = Gone
  /\ step' = "failed"
  /\ UNCHANGED record

LoopStep ==
  /\ step = "closure"
  /\ \E n \in Name : Skip(n) \/ Miss(n) \/ Stage(n)
  /\ UNCHANGED driverVars

LoopRefuses ==
  /\ step = "closure"
  /\ Refuse
  /\ step' = "failed"
  /\ UNCHANGED <<packed, onPath, dest, record>>

LoopCrashes ==
  /\ step = "closure"
  /\ Crash
  /\ step' = "failed"
  /\ UNCHANGED <<packed, onPath, dest, record>>

(* rewrite_record, then rezip; what the disk holds may be damaged.            *)
(* Mutant: rezip first, RECORD afterwards, for the next time.                 *)
BugRewriteLate ==
  /\ step = "closure"
  /\ Replace
  /\ dest' \in {"staged", "broken"}
  /\ step' = "verify"
  /\ UNCHANGED <<packed, onPath, record>>

RewriteAndZip ==
  /\ step = "closure"
  /\ Replace
  /\ record' = scripts
  /\ dest' \in {"staged", "broken"}
  /\ step' = "verify"
  /\ UNCHANGED <<packed, onPath>>

VerifyZip ==
  /\ step = "verify"
  /\ step' = IF dest = "broken" THEN "failed" ELSE "ok"
  /\ UNCHANGED <<vars, packed, onPath, dest, record>>

RepairProgress ==
  Prestrip \/ StagePath \/ Delvewheel \/ LoopStep \/ LoopRefuses \/ RewriteAndZip
  \/ VerifyZip

RepairNext == RepairProgress \/ FailInTry \/ LoopCrashes

RepairSpec == RepairInit /\ [][RepairNext]_repairVars

FairRepair == RepairSpec /\ WF_repairVars(RepairProgress)

------------------------------------------------------------------------------

(* The values the driver's variables take.                                    *)
RepairTypeOK ==
  /\ step \in InTry \cup {"closure", "verify", "ok", "failed"}
  /\ packed \in [InScripts -> Bytes]
  /\ onPath \in [InScripts -> Found]
  /\ dest \in {"none", "vendored", "staged", "broken"}
  /\ record \in [Name -> File \cup {NoFile}]

(* Exit status 0 (L265-285) is only for a wheel that went all the way: it     *)
(* reads back, the program in it finds its DLLs, and its RECORD lists the     *)
(* scripts directory as it is.  A failure at any step, which can leave        *)
(* delvewheel's half of the work under the wheel's final name, is told.       *)
ExitTruth ==
  step = "ok" =>
    /\ pc = "done" /\ ExeLoads
    /\ dest = "staged"
    /\ record = wheel
==============================================================================
