---------------------------- MODULE WheelGateProofs ----------------------------
(***************************************************************************)
(* Proofs about WheelGate, for any number of wheels and of runs in one     *)
(* checkout.                                                               *)
(***************************************************************************)
EXTENDS WheelGate, TLAPS

(* The values the variables take.                                             *)
THEOREM GateTypeCorrect == Spec => []TypeOK
<1>. USE GateAssumptions DEF GateAssumptions
<1>1. Init => TypeOK
  <2>. SUFFICES ASSUME Init
                PROVE  TypeOK
    OBVIOUS
  <2>1. writable \in BOOLEAN /\ failed \in BOOLEAN
    BY Zenon DEF Init
  <2>. QED  BY <2>1 DEF Init, TypeOK
<1>2. TypeOK /\ [Next]_vars => TypeOK'
  <2>. SUFFICES ASSUME TypeOK, [Next]_vars
                PROVE  TypeOK'
    OBVIOUS
  <2>. USE DEF TypeOK, Ended
  <2>1. ASSUME NEW w \in Wheel, NEW copied \in Health, NEW saved \in Health,
               Build(w, copied, saved)
        PROVE  TypeOK'
    <3>1. [health |-> copied, build |-> run] \in File /\ [health |-> saved, build |-> run] \in File
      BY DEF File
    <3>. QED  BY <2>1, <3>1 DEF Build, Deliver
  <2>1a. ASSUME NEW w \in Wheel, NEW copied \in Health, BuildPlain(w, copied)
         PROVE  TypeOK'
    <3>1. [health |-> copied, build |-> run] \in File
      BY DEF File
    <3>. QED  BY <2>1a, <3>1 DEF BuildPlain, Deliver
  <2>2. CASE BuildFails
    <3>1. [health |-> "bad_entry", build |-> run] \in File
      BY DEF File, Health
    <3>. QED  BY <2>2, <3>1 DEF BuildFails
  <2>3. CASE StartGate
    BY <2>3 DEF StartGate, Present
  <2>4. ASSUME NEW w \in Wheel, Healthy(w) \/ GiveUp(w) \/ Raises(w)
        PROVE  TypeOK'
    BY <2>4 DEF Healthy, GiveUp, Raises, Visited
  <2>5. ASSUME NEW w \in Wheel, Recover(w)
        PROVE  TypeOK'
    BY <2>5 DEF Recover, Visited
  <2>6. ASSUME NEW w \in Wheel, CopyFails(w)
        PROVE  TypeOK'
    <3>1. safe[w] \in File
      BY <2>6 DEF CopyFails, Absent
    <3>2. [health |-> "bad_entry", build |-> safe[w].build] \in File
      BY <3>1 DEF File, Health
    <3>. QED  BY <2>6, <3>2 DEF CopyFails, Visited
  <2>7. CASE ExitGate \/ Test \/ Upload
    BY <2>7 DEF ExitGate, Test, Upload
  <2>8. CASE RunAgain
    <3>1. writable' \in BOOLEAN /\ failed' \in BOOLEAN
      BY <2>8, Zenon DEF RunAgain
    <3>2. run' \in 1 .. MaxRuns
      BY <2>8 DEF RunAgain
    <3>. QED  BY <2>8, <3>1, <3>2 DEF RunAgain
  <2>9. CASE UNCHANGED vars
    BY <2>9 DEF vars
  <2>. QED  BY <2>1, <2>1a, <2>2, <2>3, <2>4, <2>5, <2>6, <2>7, <2>8, <2>9 DEF Next, Gate
<1>. QED  BY <1>1, <1>2, PTL DEF Spec

------------------------------------------------------------------------------
(* The invariant *)

(* A wheel in wheelhouse/ that this run's repair backed is of this run, and   *)
(* so is its safe copy; a wheel still to build is not backed.                 *)
OfRun ==
  /\ \A w \in backed : safe[w].build = run /\ (w \in Present(house) => house[w].build = run)
  /\ phase = "build" => todo \cap backed = {}

(* The wheels the loop is past are read, and `failed` is about them.          *)
Passed ==
  phase = "gate" =>
    /\ \A w \in Wheel \ todo : Corrupt(w) => failed /\ safe[w].health # "ok"
    /\ failed => \E w \in Wheel \ todo : Corrupt(w)

Clean ==
  /\ phase = "build" => ~ failed
  /\ phase \in {"upload", "done"} => \A w \in Wheel : ~ Corrupt(w)
  /\ phase = "done" => artifact = house

GateInv == OfRun /\ Passed /\ Clean /\ GateThorough

(* GateInv is an invariant: a copy is taken only of a wheel that is there,    *)
(* and from the one that this run's repair wrote, when it wrote one.          *)
THEOREM GateInvariant == Spec => []GateInv
<1>. USE GateAssumptions DEF GateAssumptions
<1>1. Init => GateInv
  BY DEF Init, GateInv, OfRun, Present, Passed, Clean, GateThorough
<1>2. TypeOK /\ GateInv /\ [Next]_vars => GateInv'
  <2>. SUFFICES ASSUME TypeOK, GateInv, [Next]_vars
                PROVE  GateInv'
    OBVIOUS
  <2>. USE DEF GateInv
  <2>0. /\ house \in [Wheel -> File \cup {Absent}] /\ safe \in [Wheel -> File \cup {Absent}]
        /\ Absent.health = "absent"
    BY DEF TypeOK, Absent
  <2>1. ASSUME NEW w \in Wheel, NEW copied \in Health, NEW saved \in Health,
               Build(w, copied, saved)
        PROVE  GateInv'
    <3>1. CASE writable
      BY <2>0, <2>1, <3>1 DEF Build, Deliver, TypeOK, OfRun, Present, Passed, Clean, GateThorough
    <3>2. CASE ~ writable
      BY <2>0, <2>1, <3>2 DEF Build, Deliver, TypeOK, OfRun, Present, Passed, Clean, GateThorough
    <3>. QED  BY <3>1, <3>2
  <2>1a. ASSUME NEW w \in Wheel, NEW copied \in Health, BuildPlain(w, copied)
         PROVE  GateInv'
    BY <2>0, <2>1a DEF BuildPlain, Deliver, TypeOK, OfRun, Present, Passed, Clean, GateThorough
  <2>2. CASE BuildFails
    <3>1. /\ phase = "build" /\ phase' = "build_failed"
          /\ UNCHANGED <<house, backed, run>>
          /\ \A w \in backed : safe'[w] = safe[w]
      BY <2>0, <2>2 DEF BuildFails, TypeOK, OfRun
    <3>2. OfRun'
      BY <3>1 DEF OfRun, Present
    <3>. QED  BY <3>1, <3>2 DEF Passed, Clean, GateThorough
  <2>3. CASE StartGate
    BY <2>0, <2>3 DEF StartGate, OfRun, Present, Passed, Clean, GateThorough, Corrupt
  <2>4. ASSUME NEW w \in Wheel, Healthy(w)
        PROVE  GateInv'
    BY <2>4 DEF Healthy, Visited, OfRun, Present, Passed, Clean, GateThorough, Corrupt
  <2>5. ASSUME NEW w \in Wheel, Recover(w)
        PROVE  GateInv'
    <3>1. /\ house[w] # Absent /\ safe[w] # Absent
          /\ house' = [house EXCEPT ![w] = safe[w]]
          /\ todo' = todo \ {w} /\ safe[w].health = "ok" /\ phase = "gate"
          /\ UNCHANGED <<safe, artifact, writable, backed, run, phase, failed>>
      BY <2>0, <2>5 DEF Recover, Visited
    <3>2. OfRun'
      BY <2>0, <3>1 DEF OfRun, Present
    <3>3. Passed'
      BY <2>0, <3>1 DEF Passed, Corrupt
    <3>4. Clean' /\ GateThorough'
      BY <3>1 DEF Clean, GateThorough
    <3>. QED  BY <3>2, <3>3, <3>4
  <2>6. ASSUME NEW w \in Wheel, GiveUp(w)
        PROVE  GateInv'
    BY <2>6 DEF GiveUp, Visited, OfRun, Present, Passed, Clean, GateThorough, Corrupt
  <2>7. ASSUME NEW w \in Wheel, Raises(w)
        PROVE  GateInv'
    BY <2>7 DEF Raises, Visited, OfRun, Present, Passed, Clean, GateThorough, Corrupt
  <2>8. ASSUME NEW w \in Wheel, CopyFails(w)
        PROVE  GateInv'
    <3>1. /\ house[w] # Absent
          /\ house' = [house EXCEPT ![w] = [health |-> "bad_entry", build |-> safe[w].build]]
          /\ phase' = "copy_failed"
          /\ UNCHANGED <<safe, writable, backed, run>>
      BY <2>0, <2>8 DEF CopyFails
    <3>2. OfRun'
      BY <2>0, <3>1 DEF OfRun, Present
    <3>. QED  BY <3>1, <3>2 DEF Passed, Clean, GateThorough
  <2>9. CASE ExitGate
    BY <2>9 DEF ExitGate, OfRun, Present, Passed, Clean, GateThorough, Corrupt
  <2>10. CASE Test
    BY <2>10 DEF Test, OfRun, Present, Passed, Clean, GateThorough, Corrupt
  <2>11. CASE Upload
    BY <2>11 DEF Upload, OfRun, Present, Passed, Clean, GateThorough, Corrupt
  <2>12. CASE RunAgain
    <3>1. Present(house)' = {}
      BY <2>12 DEF RunAgain, Present
    <3>. QED  BY <2>12, <3>1 DEF RunAgain, OfRun, Passed, Clean, GateThorough
  <2>13. CASE UNCHANGED vars
    BY <2>13 DEF vars, OfRun, Present, Passed, Clean, GateThorough, Corrupt
  <2>. QED  BY <2>1, <2>1a, <2>2, <2>3, <2>4, <2>5, <2>6, <2>7, <2>8, <2>9, <2>10, <2>11, <2>12,
               <2>13 DEF Next, Gate
<1>. QED  BY <1>1, <1>2, GateTypeCorrect, PTL DEF Spec

------------------------------------------------------------------------------
(* What the gate guarantees *)

(* No corrupted wheel is uploaded, and none of an earlier run in place of one *)
(* whose repair in this run wrote its safe copy.                              *)
THEOREM UploadIsSound == Spec => []UploadSound
<1>1. TypeOK /\ GateInv => UploadSound
  <2>. SUFFICES ASSUME TypeOK, GateInv, phase = "done", NEW w \in Present(artifact)
                PROVE  artifact[w].health = "ok" /\ (w \in backed => artifact[w].build = run)
    BY DEF UploadSound
  <2>1. artifact = house /\ w \in Wheel /\ w \in Present(house) /\ ~ Corrupt(w)
    BY DEF GateInv, Clean, Present
  <2>2. house[w] \in File
    BY <2>1 DEF TypeOK, Present
  <2>3. house[w].health = "ok"
    BY <2>1, <2>2 DEF File, Health, Corrupt
  <2>4. w \in backed => house[w].build = run
    BY <2>1 DEF GateInv, OfRun
  <2>. QED  BY <2>1, <2>3, <2>4
<1>. QED  BY <1>1, GateTypeCorrect, GateInvariant, PTL

(* A gate that ends by itself has visited every wheel and says so truly.      *)
THEOREM GateIsThorough == Spec => []GateThorough
<1>1. GateInv => GateThorough
  BY DEF GateInv
<1>. QED  BY <1>1, GateInvariant, PTL
==============================================================================
