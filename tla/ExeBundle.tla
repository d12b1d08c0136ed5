------------------------------ MODULE ExeBundle ------------------------------
(***************************************************************************)
(* What stage_exe_dlls (scripts/repair_wheel_windows.py) promises about a  *)
(* wheel, with the work list, the temporary directory and the archive left *)
(* out: in one step the wheel gains, beside dakota.exe, exactly the DLLs   *)
(* its program needs; or it is refused, or the script dies, and the wheel  *)
(* is what it was.                                                         *)
(***************************************************************************)

CONSTANTS
  Name,        \* DLL names a PE file can import, lower-cased
  NoFile,      \* "no such file"
  System,      \* names that Windows itself provides
  VenvPython,  \* the Python DLLs a virtual environment provides
  Original,    \* [Name -> file or NoFile]: *.data/scripts before the repair
  Supply       \* [Name -> file or NoFile]: what the wheel can offer for a name

VARIABLES
  imports,     \* [file -> set of names]: the import table of each DLL
  exeImports,  \* the import table of dakota.exe
  wheel,       \* [Name -> file or NoFile]: *.data/scripts of the wheel
  outcome      \* "pending", "ok", "refused" or "crashed"

vars == <<imports, exeImports, wheel, outcome>>

(* S holds what the program imports and, with a name, what its DLL imports. *)
NeedClosed(S) ==
  /\ exeImports \subseteq S
  /\ \A n \in S \ System : Supply[n] # NoFile => imports[Supply[n]] \subseteq S

Needed == {n \in Name \ System : \A S \in SUBSET Name : NeedClosed(S) => n \in S}

Unmet == {n \in Needed : Supply[n] = NoFile}

Bundled == [n \in Name |-> IF n \in Needed /\ Original[n] = NoFile
                             THEN Supply[n] ELSE Original[n]]

Init == wheel = Original /\ outcome = "pending"

Deliver ==
  /\ outcome = "pending"
  /\ Unmet \subseteq VenvPython
  /\ wheel' = Bundled
  /\ outcome' = "ok"
  /\ UNCHANGED <<imports, exeImports>>

Refuse ==
  /\ outcome = "pending"
  /\ ~ (Unmet \subseteq VenvPython)
  /\ outcome' = "refused"
  /\ UNCHANGED <<imports, exeImports, wheel>>

Crash ==
  /\ outcome = "pending"
  /\ outcome' = "crashed"
  /\ UNCHANGED <<imports, exeImports, wheel>>

Next == Deliver \/ Refuse \/ Crash

Spec == Init /\ [][Next]_vars
==============================================================================
