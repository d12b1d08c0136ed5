--------------------------- MODULE MacLauncherProofs ---------------------------
(***************************************************************************)
(* Proofs about MacLauncher, for any number of launchers, Pythons and      *)
(* launches.                                                               *)
(***************************************************************************)
EXTENDS MacLauncher, TLAPS

(* Only a launch that found a library touches the link.                       *)
OwnFound == \A p \in Launcher : pc[p] \in InFlight \ {"exec"} => own[p] \in Lib

(* The values the variables take.                                             *)
THEOREM LauncherTypeCorrect == Spec => [](TypeOK /\ OwnFound)
<1>. USE LauncherAssumptions
     DEF LauncherAssumptions, TypeOK, OwnFound, Target, InFlight, Ended
<1>1. Init => TypeOK /\ OwnFound
  BY DEF Init
<1>2. TypeOK /\ OwnFound /\ [Next]_vars => (TypeOK /\ OwnFound)'
  <2>. SUFFICES ASSUME TypeOK, OwnFound, [Next]_vars
                PROVE  (TypeOK /\ OwnFound)'
    OBVIOUS
  <2>1. ASSUME NEW p \in Launcher, NEW lib \in Lib \cup {NoLib}, Start(p, lib)
        PROVE  (TypeOK /\ OwnFound)'
    <3>1. alone' \in [Launcher -> BOOLEAN]
      BY <2>1 DEF Start
    <3>2. launches' \in [Launcher -> 0 .. MaxLaunches]
      BY <2>1 DEF Start
    <3>3. pc' \in [Launcher -> InFlight \cup Ended]
      BY <2>1 DEF Start
    <3>4. OwnFound'
      BY <2>1 DEF Start
    <3>. QED  BY <2>1, <3>1, <3>2, <3>3, <3>4 DEF Start
  <2>2. ASSUME NEW p \in Launcher, IsLink(p) \/ ReadLink(p) \/ Exists(p) \/ Kill(p)
        PROVE  (TypeOK /\ OwnFound)'
    BY <2>2 DEF IsLink, ReadLink, Exists, Kill, Goto, Rest
  <2>3. ASSUME NEW p \in Launcher, Unlink(p)
        PROVE  (TypeOK /\ OwnFound)'
    BY <2>3 DEF Unlink, Goto, Rest
  <2>4. ASSUME NEW p \in Launcher, Symlink(p)
        PROVE  (TypeOK /\ OwnFound)'
    <3>1. own[p] \in Lib
      BY <2>4 DEF Symlink, Goto
    <3>. QED  BY <2>4, <3>1 DEF Symlink, Goto, Rest
  <2>5. ASSUME NEW p \in Launcher, Exec(p)
        PROVE  (TypeOK /\ OwnFound)'
    BY <2>5 DEF Exec, Goto, Rest
  <2>6. CASE UNCHANGED vars
    BY <2>6 DEF vars
  <2>. QED  BY <2>1, <2>2, <2>3, <2>4, <2>5, <2>6 DEF Next
<1>. QED  BY <1>1, <1>2, PTL DEF Spec

------------------------------------------------------------------------------
(* Launches that overlap but share one Python *)

(* As long as every launch has found lib or nothing, the link is absent or    *)
(* lib's, so that nobody unlinks it, and a launch gets to exec only with it.  *)
SharedState(lib) ==
  /\ link \in {lib, Absent}
  /\ link0 = lib => link = lib
  /\ \A p \in Launcher :
       /\ own[p] \in {lib, NoLib}
       /\ pc[p] # "unlink"
       /\ pc[p] = "exec" /\ own[p] = lib => link = lib
       /\ pc[p] = "ran" => bound[p] = own[p]
       /\ link0 = lib => pc[p] \notin {"symlink", "died"}

Shared ==
  \A lib \in Lib : used \subseteq {lib, NoLib} /\ link0 \in {lib, Absent} => SharedState(lib)

(* Shared is an invariant: the one call that removes the link is not reached. *)
THEOREM SharedInvariant == Spec => []Shared
<1>. USE LauncherAssumptions DEF LauncherAssumptions, InFlight, Ended
<1>1. Init => Shared
  BY DEF Init, Shared, SharedState
<1>2. TypeOK /\ OwnFound /\ Shared /\ [Next]_vars => Shared'
  <2>. SUFFICES ASSUME TypeOK, OwnFound, Shared, [Next]_vars, NEW lib \in Lib,
                       used' \subseteq {lib, NoLib}, link0' \in {lib, Absent}
                PROVE  SharedState(lib)'
    BY DEF Shared
  <2>0. /\ SharedState(lib) /\ lib # Absent /\ lib # NoLib /\ link0' = link0
        /\ pc \in [Launcher -> InFlight \cup Ended]
        /\ own \in [Launcher -> Lib \cup {NoLib}]
        /\ bound \in [Launcher -> Target \cup {NoLib}]
    <3>1. used \subseteq used' /\ link0' = link0
      BY DEF Next, vars, Rest, Start, IsLink, ReadLink, Unlink, Exists, Symlink, Exec, Kill
    <3>. QED  BY <3>1 DEF Shared, TypeOK
  <2>. USE DEF SharedState
  <2>1. ASSUME NEW p \in Launcher, NEW found \in Lib \cup {NoLib}, Start(p, found)
        PROVE  SharedState(lib)'
    <3>1. found \in {lib, NoLib}
      BY <2>1 DEF Start
    <3>. QED  BY <2>0, <2>1, <3>1 DEF Start
  <2>2. ASSUME NEW p \in Launcher, IsLink(p)
        PROVE  SharedState(lib)'
    BY <2>0, <2>2 DEF IsLink, Goto, Rest
  <2>3. ASSUME NEW p \in Launcher, ReadLink(p)
        PROVE  SharedState(lib)'
    <3>1. own[p] = lib
      BY <2>0, <2>3 DEF ReadLink, Goto, OwnFound
    <3>. QED  BY <2>0, <2>3, <3>1 DEF ReadLink, Goto, Rest
  <2>4. ASSUME NEW p \in Launcher, Unlink(p)
        PROVE  SharedState(lib)'
    BY <2>0, <2>4 DEF Unlink, Goto
  <2>5. ASSUME NEW p \in Launcher, Exists(p)
        PROVE  SharedState(lib)'
    BY <2>0, <2>5 DEF Exists, Goto, Rest
  <2>6. ASSUME NEW p \in Launcher, Symlink(p)
        PROVE  SharedState(lib)'
    <3>1. own[p] = lib
      BY <2>0, <2>6 DEF Symlink, Goto, OwnFound
    <3>2. link' = lib
      BY <2>0, <2>6, <3>1 DEF Symlink
    <3>. QED  BY <2>0, <2>6, <3>2 DEF Symlink, Goto, Rest
  <2>7. ASSUME NEW p \in Launcher, Exec(p)
        PROVE  SharedState(lib)'
    BY <2>0, <2>7 DEF Exec, Goto, Rest
  <2>8. ASSUME NEW p \in Launcher, Kill(p)
        PROVE  SharedState(lib)'
    BY <2>0, <2>8 DEF Kill, Rest
  <2>9. CASE UNCHANGED vars
    BY <2>0, <2>9 DEF vars
  <2>. QED  BY <2>1, <2>2, <2>3, <2>4, <2>5, <2>6, <2>7, <2>8, <2>9 DEF Next
<1>. QED  BY <1>1, <1>2, LauncherTypeCorrect, PTL DEF Spec

(* One Python: whatever overlaps, nothing is bound to anything else.          *)
THEOREM OnePythonIsSafe == Spec => []OnePython
<1>1. Shared => OnePython
  BY DEF Shared, SharedState, OnePython
<1>. QED  BY <1>1, SharedInvariant, PTL

------------------------------------------------------------------------------
(* Launches that do not overlap *)

(* What a launch knows of the link between two of its calls, if nobody else   *)
(* is at work: lib is the library it found.                                   *)
Knows(at, lib) ==
  /\ at = "readlink" => link # Absent
  /\ at = "unlink"   => link # Absent
  /\ at = "exists"   => link \in {lib, Absent}
  /\ at = "symlink"  => link = Absent
  /\ at = "exec"     => link = lib

SoloState(p) ==
  /\ pc[p] \in InFlight => \A q \in Launcher \ {p} : pc[q] \notin InFlight
  /\ own[p] \in Lib =>
       /\ Knows(pc[p], own[p])
       /\ pc[p] = "ran" => bound[p] = own[p]
       /\ pc[p] # "died"

Solo == \A p \in Launcher : alone[p] => SoloState(p)

(* A call of another launcher, be it alone or not, ends p's solitude unless   *)
(* p has ended; then it leaves alone what p has become.                       *)
LEMMA OthersDoNotDisturb ==
  ASSUME TypeOK, Solo, NEW p \in Launcher, alone'[p], NEW q \in Launcher \ {p},
         pc[q] \in InFlight, alone' = alone,
         pc'[p] = pc[p], own'[p] = own[p], bound'[p] = bound[p]
  PROVE  SoloState(p)'
<1>1. SoloState(p) /\ pc[p] \notin InFlight
  BY DEF Solo, SoloState
<1>. QED  BY <1>1 DEF SoloState, Knows, InFlight

(* Solo is an invariant.                                                      *)
THEOREM SoloInvariant == Spec => []Solo
<1>. USE LauncherAssumptions DEF LauncherAssumptions
<1>1. Init => Solo
  BY DEF Init, Solo, SoloState, Knows, InFlight
<1>2. TypeOK /\ OwnFound /\ Solo /\ [Next]_vars => Solo'
  <2>. SUFFICES ASSUME TypeOK, OwnFound, Solo, [Next]_vars, NEW p \in Launcher, alone'[p]
                PROVE  SoloState(p)'
    BY DEF Solo
  <2>0. /\ pc \in [Launcher -> InFlight \cup Ended]
        /\ own \in [Launcher -> Lib \cup {NoLib}]
        /\ bound \in [Launcher -> Target \cup {NoLib}]
    BY DEF TypeOK
  <2>1. ASSUME NEW q \in Launcher, NEW lib \in Lib \cup {NoLib}, Start(q, lib)
        PROVE  SoloState(p)'
    <3>1. CASE q = p
      BY <2>0, <2>1, <3>1 DEF Start, SoloState, Knows, InFlight
    <3>2. CASE q # p
      <4>1. SoloState(p) /\ pc[p] \notin InFlight
        BY <2>1, <3>2 DEF Start, Solo
      <4>2. pc'[p] = pc[p] /\ own'[p] = own[p] /\ bound'[p] = bound[p]
        BY <2>0, <2>1, <3>2 DEF Start
      <4>. QED  BY <4>1, <4>2 DEF SoloState, Knows, InFlight
    <3>. QED  BY <3>1, <3>2
  <2>2. ASSUME NEW q \in Launcher,
               IsLink(q) \/ ReadLink(q) \/ Unlink(q) \/ Exists(q) \/ Symlink(q) \/ Exec(q)
                 \/ Kill(q)
        PROVE  SoloState(p)'
    <3>0. pc[q] \in InFlight /\ alone' = alone /\ own' = own
      BY <2>2 DEF IsLink, ReadLink, Unlink, Exists, Symlink, Exec, Kill, Goto, InFlight, Rest
    <3>1. CASE q # p
      <4>1. pc'[p] = pc[p] /\ bound'[p] = bound[p]
        BY <2>0, <2>2, <3>1
           DEF IsLink, ReadLink, Unlink, Exists, Symlink, Exec, Kill, Goto
      <4>. QED  BY <3>0, <3>1, <4>1, OthersDoNotDisturb
    <3>2. CASE q = p
      <4>0. SoloState(p) /\ \A r \in Launcher \ {p} : pc'[r] = pc[r]
        BY <2>0, <2>2, <3>0, <3>2
           DEF Solo, IsLink, ReadLink, Unlink, Exists, Symlink, Exec, Kill, Goto
      <4>. USE DEF SoloState, Knows, InFlight, Ended
      <4>1. CASE IsLink(p)
        BY <2>0, <3>0, <4>0, <4>1 DEF IsLink, Goto
      <4>2. CASE ReadLink(p)
        BY <2>0, <3>0, <4>0, <4>2 DEF ReadLink, Goto
      <4>3. CASE Unlink(p)
        BY <2>0, <3>0, <4>0, <4>3 DEF Unlink, Goto
      <4>4. CASE Exists(p)
        BY <2>0, <3>0, <4>0, <4>4 DEF Exists, Goto
      <4>5. CASE Symlink(p)
        BY <2>0, <3>0, <4>0, <4>5 DEF Symlink, Goto
      <4>6. CASE Exec(p)
        BY <2>0, <3>0, <4>0, <4>6 DEF Exec, Goto
      <4>7. CASE Kill(p)
        BY <2>0, <3>0, <4>0, <4>7 DEF Kill
      <4>. QED  BY <2>2, <3>2, <4>1, <4>2, <4>3, <4>4, <4>5, <4>6, <4>7
    <3>. QED  BY <3>1, <3>2
  <2>3. CASE UNCHANGED vars
    BY <2>3 DEF vars, Solo, SoloState, Knows
  <2>. QED  BY <2>1, <2>2, <2>3 DEF Next
<1>. QED  BY <1>1, <1>2, LauncherTypeCorrect, PTL DEF Spec

(* A launch that nobody overlaps runs on its own Python, from any link.       *)
THEOREM SoloLaunchIsSafe == Spec => []SoloLaunch
<1>1. Solo => SoloLaunch
  BY DEF Solo, SoloState, SoloLaunch
<1>. QED  BY <1>1, SoloInvariant, PTL
==============================================================================
