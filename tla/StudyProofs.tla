------------------------------ MODULE StudyProofs ------------------------------
(***************************************************************************)
(* Proofs about Study, for any interfaces and drivers, any dicts and any   *)
(* number of studies.                                                      *)
(***************************************************************************)
EXTENDS Study, TLAPS, SequenceTheorems, WellFoundedInduction

------------------------------------------------------------------------------
(* Which constructor a call reaches *)

(* A finite set of positions that is not empty has a last one.                *)
LEMMA HasLast ==
  ASSUME NEW n \in Nat, NEW S \in SUBSET (1 .. n), S # {}
  PROVE  \E k \in S : \A j \in S : j <= k
<1>. DEFINE T == {n - k : k \in S}
<1>1. T \subseteq Nat /\ T # {}
  <2>1. \A k \in S : n - k \in Nat
    OBVIOUS
  <2>. QED  BY <2>1
<1>. DEFINE R == OpToRel(<, Nat)
<1>2. IsWellFoundedOn(R, Nat)
  BY NatLessThanWellFounded
<1>. HIDE DEF T
<1>3. PICK x \in T : \A y \in T : <<y, x>> \notin R
  <2>. HIDE DEF R
  <2>. QED  BY <1>1, <1>2, WFMin
<1>4. \A x1 \in Nat, y1 \in Nat : <<y1, x1>> \notin R => ~ (y1 < x1)
  BY DEF OpToRel
<1>5. PICK k \in S : x = n - k
  BY <1>3 DEF T
<1>6. ASSUME NEW j \in S
      PROVE  j <= k
  <2>1. n - j \in T
    BY DEF T
  <2>2. ~ (n - j < n - k)
    BY <1>1, <1>3, <1>4, <1>5, <2>1
  <2>. QED  BY <2>2
<1>. QED  BY <1>6

(* The constructor that is called accepts the call, and the ones that take a  *)
(* dict are reached by the keyword only: a dict passed by position is taken   *)
(* by the constructor for objects, which comes first.                         *)
LEMMA ChosenAccepts ==
  ASSUME NEW c \in Call, Candidates(c) # {}
  PROVE  /\ Chosen(c).input = c.input
         /\ Chosen(c).kind = "object" => c.by # "callbacks"
         /\ Chosen(c).kind = "dict" => c.by = "callbacks" /\ c.first.kind = "dict"
         /\ Chosen(c).kind \in {"object", "dict"}
<1>. DEFINE k == CHOOSE i \in Candidates(c) : \A j \in Candidates(c) : i <= j
<1>1. k \in Candidates(c) /\ \A j \in Candidates(c) : k <= j
  <2>1. \E i \in Candidates(c) : \A j \in Candidates(c) : i <= j
    <3>1. Candidates(c) \subseteq {1, 2, 3, 4}
      BY DEF Candidates
    <3>. QED  BY <3>1
  <2>. QED  BY <2>1
<1>2. Chosen(c) = Overload[k] /\ k \in {1, 2, 3, 4} /\ Accepts(Overload[k], c)
  BY <1>1 DEF Chosen, Candidates
<1>3. c.by \in {"position", "callback", "callbacks"} /\ c.first.kind \in {"object", "dict"}
  BY DEF Call, First, Object, Mapping
<1>. HIDE DEF k
<1>4. ASSUME k \in {2, 4}, c.by = "position"
      PROVE  FALSE
  <2>1. Accepts(Overload[k - 1], c)
    BY <1>2, <1>4 DEF Accepts, Overload
  <2>2. k - 1 \in Candidates(c)
    BY <1>2, <1>4, <2>1 DEF Candidates
  <2>. QED  BY <1>1, <1>4, <2>2
<1>5. Overload[k].input = c.input /\ c.by \in {"position", Overload[k].name}
  BY <1>2 DEF Accepts
<1>6. CASE k \in {1, 3}
  BY <1>2, <1>3, <1>5, <1>6 DEF Overload
<1>7. CASE k \in {2, 4}
  <2>1. Overload[k].kind = "dict" /\ Overload[k].name = "callbacks"
    BY <1>7 DEF Overload
  <2>. QED  BY <1>2, <1>3, <1>4, <1>5, <1>7, <2>1 DEF Accepts
<1>. QED  BY <1>2, <1>6, <1>7

(* What is registered is the callback, or what the dict has for a driver of   *)
(* the interface, or nothing if it has none for any.                          *)
LEMMA RegisteredIsGiven ==
  ASSUME NEW c \in Call, Candidates(c) # {}, ~ CastRaises(c), NEW i \in Interface
  PROVE  /\ Registered(i, c) \in Held
         /\ Chosen(c).kind = "object" => Registered(i, c) = c.first
         /\ Chosen(c).kind = "dict" =>
              /\ ~ NotCallable(Registered(i, c))
              /\ \/ \E n \in 1 .. Len(Drivers[i]) :
                      /\ Drivers[i][n] \in DOMAIN c.first.is
                      /\ Registered(i, c) = Object(c.first.is[Drivers[i][n]])
                 \/ /\ \A n \in 1 .. Len(Drivers[i]) : Drivers[i][n] \notin DOMAIN c.first.is
                    /\ Registered(i, c) = Object(Nothing)
<1>1. c.first \in First
  BY DEF Call
<1>2. CASE Chosen(c).kind = "object"
  BY <1>1, <1>2 DEF Registered, Held
<1>3. CASE Chosen(c).kind = "dict"
  <2>. DEFINE f == c.first.is
  <2>1. c.first.kind = "dict"
    BY <1>3, ChosenAccepts
  <2>2. f \in Dict
    BY <1>1, <2>1 DEF First, Object, Mapping
  <2>3. \A d \in DOMAIN f : f[d] \in Callable
    BY <1>3, <2>2, StudyAssumptions DEF CastRaises, StudyAssumptions
  <2>4. CASE Found(i, f) = {}
    <3>1. Registered(i, c) = Object(Nothing)
      BY <1>3, <2>4 DEF Registered
    <3>2. ~ NotCallable(Object(Nothing))
      BY StudyAssumptions DEF StudyAssumptions, NotCallable, Object
    <3>. QED  BY <1>3, <2>4, <3>1, <3>2 DEF Found, Held
  <2>5. CASE Found(i, f) # {}
    <3>. DEFINE n == CHOOSE k \in Found(i, f) : \A j \in Found(i, f) : j <= k
    <3>1. Len(Drivers[i]) \in Nat
      BY StudyAssumptions DEF StudyAssumptions
    <3>2. n \in Found(i, f)
      <4>1. Found(i, f) \in SUBSET (1 .. Len(Drivers[i]))
        BY DEF Found
      <4>2. \E k \in Found(i, f) : \A j \in Found(i, f) : j <= k
        BY <2>5, <3>1, <4>1, HasLast
      <4>. QED  BY <4>2
    <3>3. Registered(i, c) = Object(f[Drivers[i][n]])
      BY <1>3, <2>5 DEF Registered
    <3>. HIDE DEF n
    <3>4. n \in 1 .. Len(Drivers[i]) /\ Drivers[i][n] \in DOMAIN f
      BY <3>2 DEF Found
    <3>5. f[Drivers[i][n]] \in Callable
      BY <2>3, <3>4
    <3>6. Registered(i, c) \in Held /\ ~ NotCallable(Registered(i, c))
      BY <3>3, <3>5, StudyAssumptions DEF StudyAssumptions, Held, First, NotCallable, Object
    <3>. QED  BY <1>3, <3>3, <3>4, <3>6
  <2>. QED  BY <2>4, <2>5
<1>. QED  BY <1>2, <1>3, ChosenAccepts

------------------------------------------------------------------------------
(* Types *)

(* A call that fails leaves a study without callbacks behind.                 *)
LEMMA StopsTypes ==
  ASSUME StudyTypeOK, NEW c \in Call, MayCall(c),
         NEW where \in {"raised", "making"}, Stops(where), python' \in {"up", "exited"}
  PROVE  StudyTypeOK'
<1>1. Empty \in [Interface -> Held]
  BY DEF Empty, Held
<1>. QED  BY <1>1 DEF StudyTypeOK, MayCall, Stops

(* The values the variables take.                                             *)
THEOREM StudyTypeCorrect == StudySpec => []StudyTypeOK
<1>1. StudyInit => StudyTypeOK
  BY DEF StudyInit, StudyTypeOK
<1>2. StudyTypeOK /\ [StudyNext]_studyVars => StudyTypeOK'
  <2>. SUFFICES ASSUME StudyTypeOK, [StudyNext]_studyVars
                PROVE  StudyTypeOK'
    OBVIOUS
  <2>1. ASSUME NEW c \in Call, NoOverload(c) \/ CreateFails(c) \/ RegisterFails(c)
        PROVE  StudyTypeOK'
    <3>1. python' \in {"up", "exited"}
      BY <2>1 DEF NoOverload, CreateFails, RegisterFails, Raises, StudyTypeOK
    <3>2. MayCall(c) /\ (Stops("raised") \/ Stops("making"))
      BY <2>1 DEF NoOverload, CreateFails, RegisterFails, Raises
    <3>. QED  BY <3>1, <3>2, StopsTypes
  <2>2. ASSUME NEW c \in Call, Construct(c)
        PROVE  StudyTypeOK'
    <3>1. ASSUME NEW s \in 1 .. Len(made) + 1
          PROVE  [i \in Interface |->
                    IF <<s, i>> \in InterfacesOf(Len(made) + 1) THEN Registered(i, c)
                    ELSE slot[s][i]] \in [Interface -> Held]
      <4>1. ASSUME NEW i \in Interface
            PROVE  Registered(i, c) \in Held
        BY <2>2, <4>1, RegisteredIsGiven DEF Construct
      <4>2. ASSUME NEW i \in Interface, <<s, i>> \notin InterfacesOf(Len(made) + 1)
            PROVE  slot[s][i] \in Held
        <5>1. s \in 1 .. Len(slot)
          BY <4>2 DEF InterfacesOf, StudyTypeOK
        <5>. QED  BY <5>1 DEF StudyTypeOK
      <4>. QED  BY <4>1, <4>2
    <3>2. Len(made) \in Nat
      BY DEF StudyTypeOK
    <3>3. slot' \in Seq([Interface -> Held]) /\ Len(slot') = Len(made) + 1
      BY <2>2, <3>1, <3>2 DEF Construct
    <3>. QED  BY <2>2, <3>3 DEF Construct, MayCall, StudyTypeOK
  <2>3. ASSUME NEW s \in Studies, Execute(s) \/ Answer(s) \/ CallbackFails(s) \/ Finish(s)
        PROVE  StudyTypeOK'
    <3>1. s \in 1 .. Len(state)
      BY DEF Studies, StudyTypeOK
    <3>2. PICK now \in {"ready", "executing"} :
            state' = state \/ state' = [state EXCEPT ![s] = now]
      BY <2>3 DEF Execute, Answer, CallbackFails, Finish
    <3>3. /\ state' \in Seq({"raised", "making", "ready", "executing", "evaluating"})
          /\ Len(state') = Len(state)
      <4>1. CASE state' = [state EXCEPT ![s] = now]
        BY <3>1, <4>1, ExceptSeq DEF StudyTypeOK
      <4>. QED  BY <3>2, <4>1 DEF StudyTypeOK
    <3>4. python' \in {"up", "exited"} /\ UNCHANGED <<made, slot, called>>
      BY <2>3 DEF Execute, Answer, CallbackFails, Finish, StudyTypeOK
    <3>. QED  BY <3>3, <3>4 DEF StudyTypeOK
  <2>4. ASSUME NEW s \in Studies, NEW i \in Interface, NEW k \in 1 .. Len(Drivers[i]),
               Evaluate(s, i, Drivers[i][k])
        PROVE  StudyTypeOK'
    <3>1. s \in 1 .. Len(state) /\ s \in 1 .. Len(slot) /\ s \in 1 .. Len(called)
      BY DEF Studies, StudyTypeOK
    <3>2. Drivers[i][k] \in Driver /\ slot[s][i] \in Held
      BY <3>1, StudyAssumptions DEF StudyAssumptions, StudyTypeOK
    <3>3. called' \in Seq({<<>>} \cup (Interface \X Driver \X Held)) /\ Len(called') = Len(called)
      BY <2>4, <3>1, <3>2 DEF Evaluate, StudyTypeOK
    <3>. QED  BY <2>4, <3>1, <3>3 DEF Evaluate, StudyTypeOK
  <2>5. CASE UNCHANGED studyVars
    BY <2>5 DEF studyVars, StudyTypeOK
  <2>. QED  BY <2>1, <2>2, <2>3, <2>4, <2>5 DEF StudyNext
<1>. QED  BY <1>1, <1>2, PTL DEF StudySpec

------------------------------------------------------------------------------
(* The invariant *)

Made(s) == state[s] \in {"ready", "executing", "evaluating"}

(* A study that was made has in its slots what was registered for it then;    *)
(* one that was not has nothing.                                              *)
SlotsKept(s) ==
  IF Made(s)
    THEN /\ Candidates(made[s]) # {} /\ ~ CastRaises(made[s])
         /\ \A i \in Interface : slot[s][i] = Registered(i, made[s])
    ELSE slot[s] = Empty /\ called[s] = <<>>

(* The last evaluation is of such a slot.                                     *)
CalledKept(s) ==
  called[s] # <<>> =>
    /\ called[s][1] \in Interface
    /\ \E k \in 1 .. Len(Drivers[called[s][1]]) : called[s][2] = Drivers[called[s][1]][k]
    /\ called[s][3] = slot[s][called[s][1]]

(* Python is taken down only while no study executes, so that nothing comes   *)
(* after it.                                                                  *)
Down == python = "exited" => \A s \in Studies : state[s] # "executing"

StudyInv ==
  /\ \A s \in Studies : SlotsKept(s) /\ CalledKept(s)
  /\ Down

(* A call of the constructor adds a study and leaves those before it alone.   *)
LEMMA CallAdds ==
  ASSUME StudyTypeOK, StudyInv, NEW c \in Call, MayCall(c),
         NEW where \in {"raised", "making"}, Stops(where)
  PROVE  StudyInv'
<1>0. PICK n : n = Len(made) + 1
  OBVIOUS
<1>1. /\ Studies' = Studies \cup {n} /\ n \notin Studies /\ n \in Nat
      /\ made' = Append(made, c) /\ Len(made) \in Nat
  BY <1>0 DEF MayCall, Studies, StudyTypeOK
<1>2. \A s \in Studies : /\ made'[s] = made[s] /\ state'[s] = state[s]
                         /\ slot'[s] = slot[s] /\ called'[s] = called[s]
  BY DEF MayCall, Stops, Studies, StudyTypeOK
<1>3. made'[n] = c /\ state'[n] = where /\ slot'[n] = Empty /\ called'[n] = <<>>
  BY <1>0 DEF MayCall, Stops, StudyTypeOK
<1>4. ASSUME NEW s \in Studies
      PROVE  SlotsKept(s)' /\ CalledKept(s)'
  BY <1>2, <1>4 DEF StudyInv, SlotsKept, CalledKept, Made, Empty
<1>5. SlotsKept(n)' /\ CalledKept(n)'
  BY <1>3 DEF SlotsKept, CalledKept, Made, Empty
<1>6. Down'
  BY <1>1, <1>2, <1>3 DEF MayCall, Down
<1>. QED  BY <1>1, <1>4, <1>5, <1>6 DEF StudyInv

(* A study that is made has the callbacks of its call, and no other gets any. *)
LEMMA ConstructAdds ==
  ASSUME StudyTypeOK, StudyInv, NEW c \in Call, Construct(c)
  PROVE  StudyInv'
<1>0. PICK n : n = Len(made) + 1
  OBVIOUS
<1>1. /\ Studies' = Studies \cup {n} /\ n \notin Studies /\ n \in Nat
      /\ Studies = 1 .. Len(made) /\ Len(made) \in Nat
  BY <1>0 DEF Construct, MayCall, Studies, StudyTypeOK
<1>2. /\ \A s \in Studies : made'[s] = made[s] /\ state'[s] = state[s] /\ called'[s] = called[s]
      /\ made'[n] = c /\ state'[n] = "ready" /\ called'[n] = <<>>
  BY <1>0 DEF Construct, MayCall, Studies, StudyTypeOK
<1>3. slot' = [s \in 1 .. n |-> [i \in Interface |->
                 IF <<s, i>> \in {n} \X Interface THEN Registered(i, c) ELSE slot[s][i]]]
  BY <1>0 DEF Construct, InterfacesOf
<1>4. ASSUME NEW s \in Studies
      PROVE  slot'[s] = slot[s]
  <2>1. slot[s] \in [Interface -> Held] /\ s \in 1 .. n /\ s # n
    BY <1>1, <1>0 DEF StudyTypeOK
  <2>2. slot'[s] = [i \in Interface |-> slot[s][i]]
    BY <1>3, <2>1
  <2>. QED  BY <2>1, <2>2
<1>5. \A i \in Interface : slot'[n][i] = Registered(i, c)
  BY <1>0, <1>1, <1>3
<1>6. ASSUME NEW s \in Studies
      PROVE  SlotsKept(s)' /\ CalledKept(s)'
  BY <1>2, <1>4 DEF StudyInv, SlotsKept, CalledKept, Made, Empty
<1>7. SlotsKept(n)' /\ CalledKept(n)'
  BY <1>2, <1>5 DEF Construct, SlotsKept, CalledKept, Made
<1>8. python' = python /\ python = "up"
  BY DEF Construct, MayCall
<1>. QED  BY <1>1, <1>6, <1>7, <1>8 DEF StudyInv, Down

(* A step of one study that changes no slot.                                  *)
LEMMA StudyMoves ==
  ASSUME StudyTypeOK, StudyInv, NEW s \in Studies, Made(s),
         NEW now \in {"ready", "executing", "evaluating"},
         state' = [state EXCEPT ![s] = now],
         UNCHANGED <<python, made, slot>>,
         \A t \in Studies \ {s} : called'[t] = called[t],
         CalledKept(s)', now = "executing" => python = "up",
         python = "exited" => now = state[s]
  PROVE  StudyInv'
<1>1. Studies' = Studies /\ Studies = 1 .. Len(state)
  BY DEF Studies, StudyTypeOK
<1>2. state'[s] = now /\ \A t \in Studies \ {s} : state'[t] = state[t]
  BY <1>1 DEF StudyTypeOK
<1>3. ASSUME NEW t \in Studies
      PROVE  SlotsKept(t)' /\ CalledKept(t)'
  <2>1. CASE t = s
    BY <1>2, <2>1 DEF StudyInv, SlotsKept, Made
  <2>2. CASE t # s
    BY <1>2, <2>2 DEF StudyInv, SlotsKept, CalledKept, Made, Empty
  <2>. QED  BY <2>1, <2>2
<1>4. Down'
  BY <1>1, <1>2 DEF StudyInv, Down
<1>. QED  BY <1>1, <1>3, <1>4 DEF StudyInv

(* StudyInv is an invariant.                                                  *)
THEOREM StudyInvariant == StudySpec => []StudyInv
<1>1. StudyInit => StudyInv
  BY DEF StudyInit, StudyInv, Studies, Down
<1>2. StudyTypeOK /\ StudyInv /\ [StudyNext]_studyVars => StudyInv'
  <2>. SUFFICES ASSUME StudyTypeOK, StudyInv, [StudyNext]_studyVars
                PROVE  StudyInv'
    OBVIOUS
  <2>1. ASSUME NEW c \in Call, NoOverload(c) \/ RegisterFails(c)
        PROVE  StudyInv'
    <3>1. MayCall(c) /\ Stops("raised") /\ python' = "up"
      BY <2>1 DEF NoOverload, RegisterFails, Raises, MayCall
    <3>. QED  BY <3>1, CallAdds
  <2>2. ASSUME NEW c \in Call, CreateFails(c)
        PROVE  StudyInv'
    <3>1. MayCall(c) /\ (Stops("raised") \/ Stops("making"))
      BY <2>2 DEF CreateFails, Raises
    <3>. QED  BY <3>1, CallAdds
  <2>3. ASSUME NEW c \in Call, Construct(c)
        PROVE  StudyInv'
    BY <2>3, ConstructAdds
  <2>4. ASSUME NEW s \in Studies, Execute(s) \/ Answer(s) \/ Finish(s)
        PROVE  StudyInv'
    <3>1. Made(s) /\ UNCHANGED <<python, made, slot, called>>
      BY <2>4 DEF Execute, Answer, Finish, Made
    <3>2. CalledKept(s)'
      BY <3>1 DEF StudyInv, CalledKept
    <3>3. \/ python = "up" /\ state' = [state EXCEPT ![s] = "executing"]
          \/ state[s] = "executing" /\ state' = [state EXCEPT ![s] = "ready"]
      BY <2>4 DEF Execute, Answer, Finish
    <3>4. state[s] = "executing" => python = "up"
      BY DEF StudyInv, Down, StudyTypeOK
    <3>. QED  BY <3>1, <3>2, <3>3, <3>4, StudyMoves
  <2>5. ASSUME NEW s \in Studies, CallbackFails(s)
        PROVE  StudyInv'
    <3>1. /\ Made(s) /\ UNCHANGED <<made, slot, called>>
          /\ state[s] = "evaluating" /\ python = "up"
      BY <2>5 DEF CallbackFails, Made
    <3>2. CASE Throws(made[s])
      <4>1. CalledKept(s)'
        BY <3>1 DEF StudyInv, CalledKept
      <4>. QED  BY <2>5, <3>1, <3>2, <4>1, StudyMoves DEF CallbackFails
    <3>3. CASE ~ Throws(made[s])
      <4>1. UNCHANGED <<state, Studies>> /\ \A t \in Studies : state[t] # "executing"
        BY <2>5, <3>1, <3>3 DEF CallbackFails, Studies
      <4>2. Down'
        BY <4>1 DEF Down
      <4>3. ASSUME NEW t \in Studies
            PROVE  SlotsKept(t)' /\ CalledKept(t)'
        BY <3>1, <4>1 DEF StudyInv, SlotsKept, CalledKept, Made, Empty
      <4>. QED  BY <4>1, <4>2, <4>3 DEF StudyInv
    <3>. QED  BY <3>2, <3>3
  <2>6. ASSUME NEW s \in Studies, NEW i \in Interface, NEW k \in 1 .. Len(Drivers[i]),
               Evaluate(s, i, Drivers[i][k])
        PROVE  StudyInv'
    <3>1. /\ Made(s) /\ UNCHANGED <<python, made, slot>> /\ state[s] = "executing"
          /\ state' = [state EXCEPT ![s] = "evaluating"]
      BY <2>6 DEF Evaluate, Made
    <3>2. python = "up"
      BY <3>1 DEF StudyInv, Down, StudyTypeOK
    <3>3. /\ called'[s] = <<i, Drivers[i][k], slot[s][i]>>
          /\ \A t \in Studies \ {s} : called'[t] = called[t]
      BY <2>6 DEF Evaluate, Studies, StudyTypeOK
    <3>4. CalledKept(s)'
      BY <3>1, <3>3 DEF CalledKept
    <3>. QED  BY <3>1, <3>2, <3>3, <3>4, StudyMoves
  <2>7. CASE UNCHANGED studyVars
    BY <2>7 DEF studyVars, StudyInv, Studies, SlotsKept, CalledKept, Made, Empty, Down
  <2>. QED  BY <2>1, <2>2, <2>3, <2>4, <2>5, <2>6, <2>7 DEF StudyNext
<1>. QED  BY <1>1, <1>2, StudyTypeCorrect, PTL DEF StudySpec

------------------------------------------------------------------------------
(* What a study can rely on *)

(* A driver that is its interface's only one is evaluated with what was given *)
(* for it when the study was made.                                            *)
THEOREM CallbacksAreOwn == StudySpec => []OwnCallback
<1>1. StudyTypeOK /\ StudyInv => OwnCallback
  <2>. SUFFICES ASSUME StudyTypeOK, StudyInv, NEW s \in Studies, called[s] # <<>>
                PROVE  LET i == called[s][1]
                           d == called[s][2]
                           f == made[s].first.is
                       IN  IF made[s].by # "callbacks" THEN called[s][3] = made[s].first
                           ELSE Len(Drivers[i]) = 1 =>
                                  called[s][3] = Object(IF d \in DOMAIN f THEN f[d] ELSE Nothing)
    BY DEF OwnCallback
  <2>. DEFINE i == called[s][1]
              d == called[s][2]
              c == made[s]
  <2>1. i \in Interface /\ called[s][3] = slot[s][i] /\ Made(s) /\ c \in Call
    BY DEF StudyInv, SlotsKept, CalledKept, Studies, StudyTypeOK
  <2>2. Candidates(c) # {} /\ ~ CastRaises(c) /\ called[s][3] = Registered(i, c)
    BY <2>1 DEF StudyInv, SlotsKept
  <2>3. \E k \in 1 .. Len(Drivers[i]) : d = Drivers[i][k]
    BY DEF StudyInv, CalledKept
  <2>. HIDE DEF i, c, d
  <2>4. CASE Chosen(c).kind = "object"
    BY <2>1, <2>2, <2>4, ChosenAccepts, RegisteredIsGiven DEF i, c
  <2>5. CASE Chosen(c).kind = "dict"
    <3>1. c.by = "callbacks"
      BY <2>1, <2>2, <2>5, ChosenAccepts
    <3>2. Len(Drivers[i]) = 1 => \A n \in 1 .. Len(Drivers[i]) : d = Drivers[i][n]
      BY <2>3
    <3>3. Len(Drivers[i]) = 1 =>
            Registered(i, c) = Object(IF d \in DOMAIN c.first.is THEN c.first.is[d] ELSE Nothing)
      BY <2>1, <2>2, <2>3, <2>5, <3>2, RegisteredIsGiven
    <3>. QED  BY <2>2, <3>1, <3>3 DEF i, c, d
  <2>. QED  BY <2>1, <2>2, <2>4, <2>5, ChosenAccepts
<1>. QED  BY <1>1, StudyTypeCorrect, StudyInvariant, PTL

(* A dict passed as `callbacks` is read as a map.                             *)
THEOREM DictsAreMaps == StudySpec => []DictIsMap
<1>1. StudyTypeOK /\ StudyInv => DictIsMap
  <2>. SUFFICES ASSUME StudyTypeOK, StudyInv, NEW s \in Studies,
                       made[s].by = "callbacks", NEW i \in Interface
                PROVE  ~ NotCallable(slot[s][i])
    BY DEF DictIsMap
  <2>1. made[s] \in Call
    BY DEF Studies, StudyTypeOK
  <2>2. CASE Made(s)
    <3>1. /\ Candidates(made[s]) # {} /\ ~ CastRaises(made[s])
          /\ slot[s][i] = Registered(i, made[s])
      BY <2>2 DEF StudyInv, SlotsKept
    <3>. QED  BY <2>1, <3>1, ChosenAccepts, RegisteredIsGiven
  <2>3. CASE ~ Made(s)
    <3>1. slot[s] = Empty
      BY <2>3 DEF StudyInv, SlotsKept
    <3>. QED  BY <3>1, StudyAssumptions DEF StudyAssumptions, Empty, NotCallable, Object
  <2>. QED  BY <2>2, <2>3
<1>. QED  BY <1>1, StudyTypeCorrect, StudyInvariant, PTL
==============================================================================
