------------------------------- MODULE WheelGate -------------------------------
(***************************************************************************)
(* The life of the wheels of one linux build leg on one machine: the       *)
(* repair writes a wheel and a copy of it through the project's bind mount *)
(* (scripts/repair_wheel.sh, step 10), `docker cp` brings the wheel to     *)
(* wheelhouse/ and may corrupt it, scripts/verify_wheels.py checks and     *)
(* recovers, the tests run, the artifact is uploaded (buildwheels.yml      *)
(* L116-199).  The job may be run again in the same checkout, as           *)
(* `make act-linux` does: wheelhouse/ is emptied, the safe copies stay.    *)
(***************************************************************************)
EXTENDS Naturals

CONSTANTS
  Wheel,    \* the file names of the wheels one leg builds
  MaxRuns   \* bound: how often the job is run in one checkout

ASSUME GateAssumptions == Wheel # {} /\ MaxRuns \in Nat \ {0}

(* What reading all the entries of a file does: nothing wrong; testzip names  *)
(* an entry, or the file is no zip (BadZipFile); the inflater raises.         *)
Health == {"ok", "bad_entry", "bad_stream"}

File == [health : Health, build : 1 .. MaxRuns]

Absent == [health |-> "absent", build |-> 0]

VARIABLES
  house,     \* [Wheel -> file]: wheelhouse/
  safe,      \* [Wheel -> file]: .cibw_wheels_safe/
  artifact,  \* [Wheel -> file]: what the leg uploaded
  writable,  \* whether the container can write the safe directory in this run
  backed,    \* history: wheels whose repair in this run wrote a safe copy
  run,       \* number of the run
  phase,     \* "build", "gate", "test", "upload", or how the job ended
  todo,      \* wheels still to build, or to check
  failed     \* verify_wheels: a wheel is beyond recovery

vars == <<house, safe, artifact, writable, backed, run, phase, todo, failed>>

Ended == {"build_failed", "gate_failed", "gate_crashed", "copy_failed",
          "tests_failed", "done"}

Present(dir) == {w \in Wheel : dir[w] # Absent}

Init ==
  /\ house = [w \in Wheel |-> Absent]
  /\ safe = [w \in Wheel |-> Absent]
  /\ artifact = [w \in Wheel |-> Absent]
  /\ writable \in BOOLEAN
  /\ backed = {}
  /\ run = 1
  /\ phase = "build"
  /\ todo = Wheel
  /\ failed = FALSE

(* A wheel comes to wheelhouse/, over cibuildwheel's docker cp.               *)
Deliver(w, copied) ==
  /\ phase = "build"
  /\ w \in todo
  /\ todo' = todo \ {w}
  /\ house' = [house EXCEPT ![w] = [health |-> copied, build |-> run]]

(* repair_wheel.sh L162-172: the copy of a wheel with the program.            *)
Build(w, copied, saved) ==
  /\ Deliver(w, copied)
  /\ IF writable
       THEN /\ safe' = [safe EXCEPT ![w] = [health |-> saved, build |-> run]]
            /\ backed' = backed \cup {w}
       ELSE UNCHANGED <<safe, backed>>
  /\ UNCHANGED <<artifact, writable, run, phase, failed>>

(* L36-43: a wheel without the program is repaired and gets no copy; one of   *)
(* an earlier run stays.                                                      *)
BuildPlain(w, copied) ==
  /\ Deliver(w, copied)
  /\ UNCHANGED <<safe, artifact, writable, backed, run, phase, failed>>

(* The repair, or the build before it, fails; when it is step 10's cp, its    *)
(* target is left cut short.                                                  *)
BuildFails ==
  /\ phase = "build"
  /\ todo # {}
  /\ phase' = "build_failed"
  /\ \/ UNCHANGED safe
     \/ /\ writable
        /\ \E w \in todo :
             safe' = [safe EXCEPT ![w] = [health |-> "bad_entry", build |-> run]]
  /\ UNCHANGED <<house, artifact, writable, backed, run, todo, failed>>

(* Mutant: the loop is over the files and not their names.                    *)
BugStartGate ==
  /\ phase = "build"
  /\ todo = {}
  /\ phase' = "gate"
  /\ todo' = {house[w] : w \in Present(house)}
  /\ UNCHANGED <<house, safe, artifact, writable, backed, run, failed>>

StartGate ==
  /\ phase = "build"
  /\ todo = {}
  /\ phase' = "gate"
  /\ todo' = Present(house)
  /\ UNCHANGED <<house, safe, artifact, writable, backed, run, failed>>

Visited(w) == phase = "gate" /\ w \in todo /\ todo' = todo \ {w}

(* _first_bad(whl) is None.                                                   *)
Healthy(w) ==
  /\ Visited(w)
  /\ house[w].health = "ok"
  /\ UNCHANGED <<house, safe, artifact, writable, backed, run, phase, failed>>

(* Mutant: the safe copy is taken unread.                                     *)
BugRecover(w) ==
  /\ Visited(w)
  /\ house[w].health = "bad_entry"
  /\ safe[w] # Absent
  /\ house' = [house EXCEPT ![w] = safe[w]]
  /\ UNCHANGED <<safe, artifact, writable, backed, run, phase, failed>>

Recover(w) ==
  /\ Visited(w)
  /\ house[w].health = "bad_entry"
  /\ safe[w].health = "ok"
  /\ house' = [house EXCEPT ![w] = safe[w]]
  /\ UNCHANGED <<safe, artifact, writable, backed, run, phase, failed>>

(* Mutant: the first wheel beyond recovery ends the loop.                     *)
BugGiveUp(w) ==
  /\ phase = "gate" /\ w \in todo
  /\ house[w].health = "bad_entry"
  /\ safe[w].health \in {"absent", "bad_entry"}
  /\ failed' = TRUE
  /\ todo' = {}
  /\ UNCHANGED <<house, safe, artifact, writable, backed, run, phase>>

GiveUp(w) ==
  /\ Visited(w)
  /\ house[w].health = "bad_entry"
  /\ safe[w].health \in {"absent", "bad_entry"}
  /\ failed' = TRUE
  /\ UNCHANGED <<house, safe, artifact, writable, backed, run, phase>>

(* _first_bad catches BadZipFile only: the zlib.error of a broken stream, in  *)
(* the wheel or in its safe copy, ends the script.                            *)
Raises(w) ==
  /\ Visited(w)
  /\ \/ house[w].health = "bad_stream"
     \/ house[w].health = "bad_entry" /\ safe[w].health = "bad_stream"
  /\ phase' = "gate_crashed"
  /\ UNCHANGED <<house, safe, artifact, writable, backed, run, failed>>

(* shutil.copyfile fails half-way: the wheel is a truncated file.             *)
CopyFails(w) ==
  /\ Visited(w)
  /\ house[w].health = "bad_entry"
  /\ safe[w].health = "ok"
  /\ phase' = "copy_failed"
  /\ house' = [house EXCEPT ![w] = [health |-> "bad_entry", build |-> safe[w].build]]
  /\ UNCHANGED <<safe, artifact, writable, backed, run, failed>>

ExitGate ==
  /\ phase = "gate"
  /\ todo = {}
  /\ phase' = IF failed THEN "gate_failed" ELSE "test"
  /\ UNCHANGED <<house, safe, artifact, writable, backed, run, todo, failed>>

(* pip install wheelhouse/*.whl needs a wheel; pytest may fail.               *)
Test ==
  /\ phase = "test"
  /\ phase' \in IF Present(house) = {} THEN {"tests_failed"}
                ELSE {"upload", "tests_failed"}
  /\ UNCHANGED <<house, safe, artifact, writable, backed, run, todo, failed>>

Upload ==
  /\ phase = "upload"
  /\ phase' = "done"
  /\ artifact' = house
  /\ UNCHANGED <<house, safe, writable, backed, run, todo, failed>>

(* Mutant: the wheels of the run before stay.                                 *)
BugRunAgain ==
  /\ phase \in Ended
  /\ run < MaxRuns
  /\ run' = run + 1
  /\ writable' \in BOOLEAN
  /\ backed' = {}
  /\ phase' = "build"
  /\ \E built \in SUBSET Wheel : todo' = built
  /\ failed' = FALSE
  /\ artifact' = [w \in Wheel |-> Absent]
  /\ UNCHANGED <<house, safe>>

(* make act-linux (Makefile L168-175): rm -f wheelhouse/*.whl, and the job    *)
(* again, for the Pythons it is told.                                         *)
RunAgain ==
  /\ phase \in Ended
  /\ run < MaxRuns
  /\ run' = run + 1
  /\ writable' \in BOOLEAN
  /\ backed' = {}
  /\ phase' = "build"
  /\ \E built \in SUBSET Wheel : todo' = built
  /\ failed' = FALSE
  /\ house' = [w \in Wheel |-> Absent]
  /\ artifact' = [w \in Wheel |-> Absent]
  /\ UNCHANGED safe

Gate == \E w \in Wheel :
          Healthy(w) \/ Recover(w) \/ GiveUp(w) \/ Raises(w) \/ CopyFails(w)

Next ==
  \/ \E w \in Wheel, copied, saved \in Health : Build(w, copied, saved)
  \/ \E w \in Wheel, copied \in Health : BuildPlain(w, copied)
  \/ BuildFails \/ StartGate \/ Gate \/ ExitGate \/ Test \/ Upload \/ RunAgain

Spec == Init /\ [][Next]_vars

------------------------------------------------------------------------------

TypeOK ==
  /\ house \in [Wheel -> File \cup {Absent}]
  /\ safe \in [Wheel -> File \cup {Absent}]
  /\ artifact \in [Wheel -> File \cup {Absent}]
  /\ writable \in BOOLEAN /\ failed \in BOOLEAN
  /\ backed \subseteq Wheel
  /\ run \in 1 .. MaxRuns
  /\ phase \in Ended \cup {"build", "gate", "test", "upload"}
  /\ todo \subseteq Wheel

Corrupt(w) == house[w].health \in {"bad_entry", "bad_stream"}

(* No corrupted wheel leaves the leg, and an uploaded wheel is one that this  *)
(* run built, unless its repair in this run wrote no safe copy - it had no    *)
(* program, or the directory was read-only - and the gate took an earlier     *)
(* run's for a corrupted one (verify_wheels.py L43-54).                       *)
UploadSound ==
  phase = "done" =>
    \A w \in Present(artifact) :
      /\ artifact[w].health = "ok"
      /\ w \in backed => artifact[w].build = run

(* A gate that ends by itself has done all it can: it has visited every       *)
(* wheel, the ones after a hopeless one too, a corrupted wheel is left only   *)
(* without a healthy copy, and its exit status says whether one is (L42-60).  *)
GateThorough ==
  phase \in {"gate_failed", "test"} =>
    /\ \A w \in Wheel : Corrupt(w) => safe[w].health # "ok"
    /\ phase = "test" <=> \A w \in Wheel : ~ Corrupt(w)

(* What the gate promises (verify_wheels.py L7-8): a corrupted wheel is       *)
(* swapped when a healthy same-named copy exists.  A wheel whose deflate      *)
(* stream is broken makes testzip raise zlib.error, and the copy stays        *)
(* unused.                                                                    *)
CorruptIsSwapped ==
  phase \in {"gate_failed", "gate_crashed", "test"} =>
    \A w \in Wheel : Corrupt(w) => safe[w].health # "ok"
==============================================================================
