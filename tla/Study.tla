-------------------------------- MODULE Study --------------------------------
(***************************************************************************)
(* dakota.environment.study, src_patches_v624/src_dakota_python.cpp.patch: *)
(* the four constructors, which of them a call reaches, how they fill the  *)
(* one callback slot of each pybind11 interface, and what becomes of       *)
(* errors.  Dakota's own part, which reads the input, calls the slots and  *)
(* handles errors as its exit mode says, is external.                      *)
(*                                                                         *)
(* A constructor is one step: it holds the GIL and calls no Python code.   *)
(* execute holds it too, but the callbacks are Python code, which may make *)
(* and execute other studies, itself or in another thread.                 *)
(***************************************************************************)
EXTENDS Naturals, Sequences

CONSTANTS
  Interface,   \* the pybind11 interfaces of an input
  Driver,      \* names of analysis drivers
  Drivers,     \* [Interface -> Seq(Driver)]: analysis_drivers()
  Callable,    \* Python functions
  Dict,        \* the dicts a user may pass: [driver |-> function or junk]
  Junk,        \* a Python object that is neither
  Nothing,     \* an empty slot
  MaxStudies   \* bound: studies made in one process

ASSUME StudyAssumptions ==
  /\ Drivers \in [Interface -> Seq(Driver)]
  /\ \A f \in Dict : \A d \in DOMAIN f : f[d] \in Callable \cup {Junk}
  /\ Junk \notin Callable
  /\ Nothing \notin Callable \cup {Junk}
  /\ MaxStudies \in Nat

VARIABLES
  python,   \* "up" or "exited"
  made,     \* the calls of the constructor, in their order
  state,    \* [study -> "raised", "making", "ready", "executing", "evaluating"]
  slot,     \* [study -> [Interface -> its callback]]
  called    \* [study -> the last evaluation <<interface, driver, callback>>]

studyVars == <<python, made, state, slot, called>>

Object(o) == [kind |-> "object", is |-> o]

Mapping(f) == [kind |-> "dict", is |-> f]

First == {Object(o) : o \in Callable \cup {Junk}} \cup {Mapping(f) : f \in Dict}

(* What a slot may hold.                                                      *)
Held == First \cup {Object(Nothing)}

(* A call: the first argument and its keyword, the kind of the input, and     *)
(* whether read_restart is given.                                             *)
Call == [first : First, by : {"position", "callback", "callbacks"},
         input : {"text", "json"}, restart : BOOLEAN]

(* py::init in the order of L408, L432, L472 and L493.                        *)
Overload == <<[name |-> "callback",  kind |-> "object", input |-> "text"],
              [name |-> "callbacks", kind |-> "dict",   input |-> "text"],
              [name |-> "callback",  kind |-> "object", input |-> "json"],
              [name |-> "callbacks", kind |-> "dict",   input |-> "json"]>>

(* Mutant: the names of the arguments are not declared (py::arg).             *)
BugAccepts(o, c) ==
  /\ o.kind \in {"object", c.first.kind}
  /\ o.input = c.input
  /\ c.restart => o.input = "text"

Accepts(o, c) ==
  /\ c.by \in {"position", o.name}
  /\ o.kind \in {"object", c.first.kind}
  /\ o.input = c.input
  /\ c.restart => o.input = "text"

(* pybind11 takes the first overload that accepts the arguments.              *)
Candidates(c) == {k \in 1 .. 4 : Accepts(Overload[k], c)}

Chosen(c) == Overload[CHOOSE k \in Candidates(c) : \A j \in Candidates(c) : k <= j]

(* What is registered for interface i.  In a dict, every driver found there   *)
(* overwrites the slot; a driver that is not only gives a warning.            *)
Found(i, f) == {k \in 1 .. Len(Drivers[i]) : Drivers[i][k] \in DOMAIN f}

Registered(i, c) ==
  IF Chosen(c).kind = "object" THEN c.first
  ELSE LET f == c.first.is
       IN  IF Found(i, f) = {} THEN Object(Nothing)
           ELSE Object(f[Drivers[i][CHOOSE k \in Found(i, f) :
                                      \A j \in Found(i, f) : j <= k]])

(* callbacks.cast<std::map<std::string, py::function>> raises on any value    *)
(* that is not callable.                                                      *)
CastRaises(c) == Chosen(c).kind = "dict" /\ \E d \in DOMAIN c.first.is : c.first.is[d] = Junk

NotCallable(o) == o.kind = "dict" \/ o.is = Junk

Studies == 1 .. Len(made)

------------------------------------------------------------------------------

StudyInit ==
  /\ python = "up"
  /\ made = <<>>
  /\ state = <<>>
  /\ slot = <<>>
  /\ called = <<>>

Empty == [i \in Interface |-> Object(Nothing)]

MayCall(c) ==
  /\ python = "up"
  /\ Len(made) < MaxStudies
  /\ \A s \in Studies : state[s] # "executing"
  /\ made' = Append(made, c)
  /\ called' = Append(called, <<>>)

Stops(where) ==
  /\ state' = Append(state, where)
  /\ slot' = Append(slot, Empty)

Raises == Stops("raised") /\ UNCHANGED python

NoOverload(c) == MayCall(c) /\ Candidates(c) = {} /\ Raises

(* create_libEnv asks for exit_mode throw for a text (L165-166) only.         *)
Throws(c) == Chosen(c).input = "text"

(* Dakota refuses the input.                                                  *)
CreateFails(c) ==
  /\ MayCall(c)
  /\ Candidates(c) # {}
  /\ IF Throws(c) THEN Raises ELSE python' = "exited" /\ Stops("making")

(* The environment is made before the dict is looked at, and is lost.         *)
(* Whether registering an object that cannot be called raises here, or only   *)
(* its call does, is up to Dakota.                                            *)
RegisterFails(c) ==
  /\ MayCall(c)
  /\ Candidates(c) # {}
  /\ \/ CastRaises(c)
     \/ Chosen(c).kind = "object" /\ NotCallable(c.first) /\ Interface # {}
  /\ Raises

(* Mutant: interface_cache() of the process, not of the new environment.      *)
BugInterfacesOf(s) == (1 .. s) \X Interface

InterfacesOf(s) == {s} \X Interface

Construct(c) ==
  /\ MayCall(c)
  /\ Candidates(c) # {}
  /\ ~ CastRaises(c)
  /\ state' = Append(state, "ready")
  /\ slot' = [s \in 1 .. Len(made) + 1 |->
                [i \in Interface |->
                   IF <<s, i>> \in InterfacesOf(Len(made) + 1) THEN Registered(i, c)
                   ELSE slot[s][i]]]
  /\ UNCHANGED python

Execute(s) ==
  /\ python = "up"
  /\ state[s] = "ready"
  /\ \A t \in Studies : state[t] # "executing"
  /\ state' = [state EXCEPT ![s] = "executing"]
  /\ UNCHANGED <<python, made, slot, called>>

(* Dakota runs driver d of interface i; an empty slot makes it import the     *)
(* module and function that d names.                                          *)
Evaluate(s, i, d) ==
  /\ state[s] = "executing"
  /\ state' = [state EXCEPT ![s] = "evaluating"]
  /\ called' = [called EXCEPT ![s] = <<i, d, slot[s][i]>>]
  /\ UNCHANGED <<python, made, slot>>

(* The callback returns what Dakota can use; a thread at a time runs Dakota.  *)
Answer(s) ==
  /\ python = "up"
  /\ state[s] = "evaluating"
  /\ ~ NotCallable(called[s][3])
  /\ \A t \in Studies : state[t] # "executing"
  /\ state' = [state EXCEPT ![s] = "executing"]
  /\ UNCHANGED <<python, made, slot, called>>

(* The callback raises, or cannot be called, or its answer is of no use.      *)
CallbackFails(s) ==
  /\ python = "up"
  /\ state[s] = "evaluating"
  /\ \A t \in Studies : state[t] # "executing"
  /\ IF Throws(made[s])
       THEN state' = [state EXCEPT ![s] = "ready"] /\ UNCHANGED python
       ELSE python' = "exited" /\ UNCHANGED state
  /\ UNCHANGED <<made, slot, called>>

(* Mutant: execute closes the study for good.                                 *)
BugFinish(s) ==
  /\ state[s] = "executing"
  /\ state' = [state EXCEPT ![s] = "closed"]
  /\ UNCHANGED <<python, made, slot, called>>

Finish(s) ==
  /\ state[s] = "executing"
  /\ state' = [state EXCEPT ![s] = "ready"]
  /\ UNCHANGED <<python, made, slot, called>>

StudyNext ==
  \/ \E c \in Call : NoOverload(c) \/ CreateFails(c) \/ RegisterFails(c) \/ Construct(c)
  \/ \E s \in Studies :
       \/ Execute(s) \/ Answer(s) \/ CallbackFails(s) \/ Finish(s)
       \/ \E i \in Interface : \E k \in 1 .. Len(Drivers[i]) : Evaluate(s, i, Drivers[i][k])

StudySpec == StudyInit /\ [][StudyNext]_studyVars

------------------------------------------------------------------------------

(* The values the variables take.                                             *)
StudyTypeOK ==
  /\ python \in {"up", "exited"}
  /\ made \in Seq(Call)
  /\ state \in Seq({"raised", "making", "ready", "executing", "evaluating"})
  /\ slot \in Seq([Interface -> Held])
  /\ called \in Seq({<<>>} \cup (Interface \X Driver \X Held))
  /\ Len(state) = Len(made) /\ Len(slot) = Len(made) /\ Len(called) = Len(made)

(* Dakota calls, for the driver of a study's interface, what was given for it *)
(* when that study was made: the one callback, or the driver's entry of the   *)
(* dict, or nothing of Python's if the dict has none, whatever studies were   *)
(* made, ran or failed in between (L408-528).  Of an interface with several   *)
(* drivers and a dict it says nothing: there KeyedByDriver fails.             *)
OwnCallback ==
  \A s \in Studies :
    called[s] # <<>> =>
      LET i == called[s][1]
          d == called[s][2]
          f == made[s].first.is
      IN  IF made[s].by # "callbacks" THEN called[s][3] = made[s].first
          ELSE Len(Drivers[i]) = 1 =>
                 called[s][3] = Object(IF d \in DOMAIN f THEN f[d] ELSE Nothing)

(* Said by normalize_stubs.py L14-15 of `callbacks`: it is keyed by           *)
(* analysis-driver id, so that an evaluation of a driver which has an entry   *)
(* calls that entry.                                                          *)
KeyedByDriver ==
  \A s \in Studies :
    called[s] # <<>> /\ made[s].by = "callbacks" =>
      LET d == called[s][2]
          f == made[s].first.is
      IN  d \in DOMAIN f => called[s][3] = Object(f[d])

(* A dict that is passed as `callbacks` is read as the map it is: no slot     *)
(* ever holds the dict itself, or an entry of it that cannot be called.       *)
DictIsMap ==
  \A s \in Studies :
    made[s].by = "callbacks" => \A i \in Interface : ~ NotCallable(slot[s][i])
==============================================================================
