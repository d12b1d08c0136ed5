------------------------------ MODULE MacLauncher ------------------------------
(***************************************************************************)
(* The `dakota` command of a macOS wheel: the Python wrapper that          *)
(* scripts/repair_wheel_macos.sh writes over the program (L108-201).  It   *)
(* points the link <tmp>/itis_dakota_<uid>/Python at the running Python's  *)
(* library and execs the real program, which dyld binds to what the link   *)
(* names at that moment.  All the wrappers of one user share that link:    *)
(* every system call on it is a step of its own here.                      *)
(***************************************************************************)
EXTENDS Naturals

CONSTANTS
  Launcher,    \* processes that run the wrapper
  Lib,         \* Python libraries that exist
  GoneLib,     \* libraries of Pythons since removed: a link to one dangles
  Absent,      \* no link
  NoLib,       \* _find_python_lib returned None
  MaxLaunches  \* bound: launches per process

ASSUME LauncherAssumptions ==
  /\ Lib \cap GoneLib = {}
  /\ {Absent, NoLib} \cap (Lib \cup GoneLib) = {}
  /\ Absent # NoLib
  /\ MaxLaunches \in Nat

VARIABLES
  link,      \* what <runtime_dir>/Python points to, or Absent
  link0,     \* history: the link before the first launch
  installed, \* whether itis_dakota/.bin/dakota is there
  pc, own,   \* per launcher: next call, and its python_lib
  bound,     \* per launcher: the library its program was bound to
  alone,     \* history: no other launcher was under way since it started
  launches,  \* per launcher: launches so far
  used       \* history: the libraries found by the launches so far

vars == <<link, link0, installed, pc, own, bound, alone, launches, used>>

Target == Lib \cup GoneLib \cup {Absent}

InFlight == {"islink", "readlink", "unlink", "exists", "symlink", "exec"}

Ended == {"idle", "ran", "died", "killed", "no_binary"}

Init ==
  /\ link \in Target
  /\ link0 = link
  /\ installed \in BOOLEAN
  /\ pc = [p \in Launcher |-> "idle"]
  /\ own = [p \in Launcher |-> NoLib]
  /\ bound = [p \in Launcher |-> NoLib]
  /\ alone = [p \in Launcher |-> TRUE]
  /\ launches = [p \in Launcher |-> 0]
  /\ used = {}

(* Mutant: the link is also made when no library was found.                   *)
BugStart(p, lib) ==
  /\ pc[p] \in Ended
  /\ launches[p] < MaxLaunches
  /\ launches' = [launches EXCEPT ![p] = @ + 1]
  /\ used' = used \cup {lib}
  /\ own' = [own EXCEPT ![p] = lib]
  /\ bound' = [bound EXCEPT ![p] = NoLib]
  /\ pc' = [pc EXCEPT ![p] = IF ~ installed THEN "no_binary" ELSE "islink"]
  /\ alone' = [q \in Launcher |->
                 IF q = p THEN \A r \in Launcher \ {p} : pc[r] \notin InFlight
                 ELSE alone[q] /\ pc[q] \notin InFlight]
  /\ UNCHANGED <<link, link0, installed>>

(* The wrapper starts: the program must be there, and what                    *)
(* _find_python_lib finds is a file, or None and the link is left alone.      *)
Start(p, lib) ==
  /\ pc[p] \in Ended
  /\ launches[p] < MaxLaunches
  /\ launches' = [launches EXCEPT ![p] = @ + 1]
  /\ used' = used \cup {lib}
  /\ own' = [own EXCEPT ![p] = lib]
  /\ bound' = [bound EXCEPT ![p] = NoLib]
  /\ pc' = [pc EXCEPT ![p] = IF ~ installed THEN "no_binary"
                             ELSE IF lib = NoLib THEN "exec" ELSE "islink"]
  /\ alone' = [q \in Launcher |->
                 IF q = p THEN \A r \in Launcher \ {p} : pc[r] \notin InFlight
                 ELSE alone[q] /\ pc[q] \notin InFlight]
  /\ UNCHANGED <<link, link0, installed>>

Goto(p, from, to) ==
  /\ pc[p] = from
  /\ pc' = [pc EXCEPT ![p] = to]

Rest == <<link0, installed, own, alone, launches, used>>

IsLink(p) ==
  /\ Goto(p, "islink", IF link = Absent THEN "exists" ELSE "readlink")
  /\ UNCHANGED <<link, bound, Rest>>

(* Mutant: a link that is there is taken as it is.                            *)
BugReadLink(p) ==
  /\ Goto(p, "readlink", IF link = Absent THEN "died" ELSE "exists")
  /\ UNCHANGED <<link, bound, Rest>>

(* Mutant: the link is always made anew.                                      *)
BugReadLinkAnew(p) ==
  /\ Goto(p, "readlink", IF link = Absent THEN "died" ELSE "unlink")
  /\ UNCHANGED <<link, bound, Rest>>

(* os.readlink raises when the link has gone since islink.                    *)
ReadLink(p) ==
  /\ Goto(p, "readlink", IF link = Absent THEN "died"
                         ELSE IF link = own[p] THEN "exists" ELSE "unlink")
  /\ UNCHANGED <<link, bound, Rest>>

(* os.unlink raises when another launcher was faster, and else removes        *)
(* whatever the link has become since it was read.                            *)
Unlink(p) ==
  /\ Goto(p, "unlink", IF link = Absent THEN "died" ELSE "exists")
  /\ link' = Absent
  /\ UNCHANGED <<bound, Rest>>

(* os.path.exists follows the link: a dangling one does not exist.            *)
Exists(p) ==
  /\ Goto(p, "exists", IF link \in Lib THEN "exec" ELSE "symlink")
  /\ UNCHANGED <<link, bound, Rest>>

(* os.symlink raises when the link is there.                                  *)
Symlink(p) ==
  /\ Goto(p, "symlink", IF link = Absent THEN "exec" ELSE "died")
  /\ link' = IF link = Absent THEN own[p] ELSE link
  /\ UNCHANGED <<bound, Rest>>

(* os.execv: dyld resolves "Python" through the link as it is now.            *)
Exec(p) ==
  /\ Goto(p, "exec", "ran")
  /\ bound' = [bound EXCEPT ![p] = IF own[p] = NoLib THEN NoLib ELSE link]
  /\ UNCHANGED <<link, Rest>>

(* The wrapper is killed between two calls: what it did to the link stays.    *)
Kill(p) ==
  /\ pc[p] \in InFlight
  /\ pc' = [pc EXCEPT ![p] = "killed"]
  /\ UNCHANGED <<link, bound, Rest>>

Next ==
  \E p \in Launcher :
    \/ \E lib \in Lib \cup {NoLib} : Start(p, lib)
    \/ IsLink(p) \/ ReadLink(p) \/ Unlink(p)
    \/ Exists(p) \/ Symlink(p) \/ Exec(p) \/ Kill(p)

Spec == Init /\ [][Next]_vars

------------------------------------------------------------------------------

TypeOK ==
  /\ link \in Target /\ link0 \in Target
  /\ installed \in BOOLEAN
  /\ pc \in [Launcher -> InFlight \cup Ended]
  /\ own \in [Launcher -> Lib \cup {NoLib}]
  /\ bound \in [Launcher -> Target \cup {NoLib}]
  /\ alone \in [Launcher -> BOOLEAN]
  /\ launches \in [Launcher -> 0 .. MaxLaunches]
  /\ used \subseteq Lib \cup {NoLib}

(* A launch that no other launch overlaps runs the program on its own Python, *)
(* whatever link the launches before it left, those of other Pythons, those   *)
(* that lost a race and those killed between unlink and symlink included      *)
(* (L182-186).                                                                *)
SoloLaunch ==
  \A p \in Launcher :
    alone[p] /\ own[p] \in Lib /\ pc[p] \in {"ran", "died"} =>
      pc[p] = "ran" /\ bound[p] = own[p]

(* As long as a user has one Python, and no link or that Python's, no launch  *)
(* is ever bound to anything else, however they overlap; and once the link is *)
(* there, none dies on it.                                                    *)
OnePython ==
  \A lib \in Lib :
    used \subseteq {lib, NoLib} /\ link0 \in {lib, Absent} =>
      /\ \A p \in Launcher : pc[p] = "ran" => bound[p] = own[p]
      /\ link0 = lib => link = lib /\ \A p \in Launcher : pc[p] # "died"

(* What the wrapper's documentation says (L117-120, L182): before the program *)
(* is exec'ed the link points to the host Python's real library.  Overlapping *)
(* launches of two Pythons break it.                                          *)
LaunchBindsOwnPython ==
  \A p \in Launcher : own[p] \in Lib /\ pc[p] = "ran" => bound[p] = own[p]
==============================================================================
