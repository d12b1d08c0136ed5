------------------------- MODULE ReleasePipelineProofs -------------------------
(***************************************************************************)
(* Proofs about ReleasePipeline, for any legs and wheels, and any number   *)
(* of events, versions and re-runs.                                        *)
(***************************************************************************)
EXTENDS ReleasePipeline, TLAPS, SequenceTheorems, WellFoundedInduction

------------------------------------------------------------------------------
(* Jobs and versions *)

(* What each job waits for.                                                   *)
LEMMA NeedsAre ==
  /\ {"tag", "test", "release", "test-pypi", "pypi"} \subseteq Job /\ Leg \subseteq Job
  /\ {"tag", "test", "release", "test-pypi", "pypi"} \cap Leg = {}
  /\ Needs["tag"] = {} /\ (\A l \in Leg : Needs[l] = {"tag"})
  /\ Needs["test"] = Leg /\ Needs["release"] = {"tag", "test"}
  /\ Needs["test-pypi"] = {"release"} /\ Needs["pypi"] = {"test-pypi"}
  /\ \A j \in Job : Needs[j] \subseteq Job
<1>. USE PipelineAssumptions DEF PipelineAssumptions, Job, Needs
<1>1. \A l \in Leg : Needs[l] = {"tag"}
  OBVIOUS
<1>2. /\ Needs["tag"] = {} /\ Needs["test"] = Leg /\ Needs["release"] = {"tag", "test"}
      /\ Needs["test-pypi"] = {"release"} /\ Needs["pypi"] = {"test-pypi"}
  OBVIOUS
<1>. QED  BY <1>1, <1>2

(* The latest version is the highest that has a tag.                          *)
LEMMA LatestIsHighest ==
  ASSUME Tagged # {}
  PROVE  Latest \in Tagged /\ \A u \in Tagged : u <= Latest
<1>. USE PipelineAssumptions DEF PipelineAssumptions, Version
<1>. DEFINE T == {MaxVersion - v : v \in Tagged}
            R == OpToRel(<, Nat)
<1>0. Tagged \subseteq 1 .. MaxVersion
  BY DEF Tagged
<1>1. T \subseteq Nat /\ T # {}
  <2>1. \A v \in Tagged : MaxVersion - v \in Nat
    BY <1>0
  <2>. QED  BY <2>1
<1>2. IsWellFoundedOn(R, Nat)
  BY NatLessThanWellFounded
<1>. HIDE DEF T
<1>3. PICK x \in T : \A y \in T : <<y, x>> \notin R
  <2>. HIDE DEF R
  <2>. QED  BY <1>1, <1>2, WFMin
<1>4. \A x1 \in Nat, y1 \in Nat : <<y1, x1>> \notin R => ~ (y1 < x1)
  BY DEF OpToRel
<1>5. PICK v \in Tagged : x = MaxVersion - v
  BY <1>3 DEF T
<1>6. ASSUME NEW u \in Tagged
      PROVE  u <= v
  <2>1. MaxVersion - u \in T
    BY DEF T
  <2>2. ~ (MaxVersion - u < MaxVersion - v)
    BY <1>1, <1>3, <1>4, <1>5, <2>1
  <2>. QED  BY <1>0, <2>2
<1>. QED  BY <1>6 DEF Latest

------------------------------------------------------------------------------
(* Types *)

(* A job has run, or runs, only after those it needs.                         *)
Ordered(x) ==
  \A j \in Job : x.job[j] \in {"ok", "running"} => \A n \in Needs[j] : x.job[n] = "ok"

BuiltOK(x) == \A l \in Leg : x.job[l] = "ok" => x.built[l] \in Build

(* No run is of a commit that was not pushed, and none but the bounded number *)
(* of events starts one.                                                      *)
Bounds ==
  /\ Len(commits) <= Len(runs) /\ Len(runs) <= MaxRuns
  /\ \A r \in DOMAIN runs : runs[r].commit <= Len(commits)

TypeInv ==
  TypeOK /\ Bounds /\ \A r \in DOMAIN runs : Ordered(runs[r]) /\ BuiltOK(runs[r])

(* What the types say of a run.                                               *)
LEMMA RunTypes ==
  ASSUME TypeInv, NEW r \in DOMAIN runs
  PROVE  /\ TypeOK /\ runs[r] \in Run /\ Ordered(runs[r]) /\ BuiltOK(runs[r])
         /\ runs[r].job["tag"] = "ok" => runs[r].tag \in Tagged
<1>1. TypeOK /\ Ordered(runs[r]) /\ BuiltOK(runs[r])
  BY DEF TypeInv
<1>2. runs \in Seq(Run) /\ (runs[r].job["tag"] = "ok" => runs[r].tag \in Tagged)
  BY <1>1, Zenon DEF TypeOK
<1>3. runs[r] \in Run
  BY <1>2
<1>. QED  BY <1>1, <1>2, <1>3

(* A job that starts, or has started, finds the work of those before it.      *)
LEMMA Before ==
  ASSUME TypeInv, NEW r \in DOMAIN runs, NEW j \in Job \ {"tag"},
         CanStart(r, j) \/ runs[r].job[j] \in {"ok", "running"}
  PROVE  /\ j # "test" => runs[r].job["tag"] = "ok" /\ runs[r].tag \in Tagged
         /\ j \notin Leg => \A l \in Leg : runs[r].job[l] = "ok" /\ runs[r].built[l] \in Build
         /\ j \in {"release", "test-pypi", "pypi"} => runs[r].job["test"] = "ok"
         /\ j \in {"test-pypi", "pypi"} => runs[r].job["release"] = "ok"
         /\ j = "pypi" => runs[r].job["test-pypi"] = "ok"
<1>. USE NeedsAre DEF TypeInv
<1>1. \A n \in Needs[j] : runs[r].job[n] = "ok"
  BY DEF CanStart, Ordered
<1>2. j = "pypi" => runs[r].job["test-pypi"] = "ok"
  BY <1>1
<1>3. j \in {"test-pypi", "pypi"} => runs[r].job["release"] = "ok"
  BY <1>1, <1>2 DEF Ordered
<1>4. j \in {"release", "test-pypi", "pypi"} => runs[r].job["test"] = "ok"
  BY <1>1, <1>3 DEF Ordered
<1>5. j \notin Leg => \A l \in Leg : runs[r].job[l] = "ok"
  <2>1. j \notin Leg => j \in {"test", "release", "test-pypi", "pypi"}
    BY DEF Job
  <2>. QED  BY <1>1, <1>4, <2>1 DEF Ordered
<1>6. j # "test" => runs[r].job["tag"] = "ok"
  <2>1. CASE j \in Leg
    BY <1>1, <2>1
  <2>2. CASE j \in {"release", "test-pypi", "pypi"}
    <3>1. runs[r].job["release"] = "ok" \/ j = "release"
      BY <1>3, <2>2
    <3>. QED  BY <1>1, <3>1 DEF Ordered
  <2>. QED  BY <2>1, <2>2 DEF Job
<1>. QED  BY <1>2, <1>3, <1>4, <1>5, <1>6 DEF TypeOK, BuiltOK

(* A step of run r: it gets record x, nothing else happens to the runs.       *)
Moves(r, x) == runs' = [runs EXCEPT ![r] = x]

LEMMA MoveTypes ==
  ASSUME runs \in Seq(Run), NEW r \in DOMAIN runs, NEW x \in Run, Moves(r, x)
  PROVE  /\ runs' \in Seq(Run) /\ Len(runs') = Len(runs) /\ DOMAIN runs' = DOMAIN runs
         /\ runs'[r] = x /\ \A q \in DOMAIN runs \ {r} : runs'[q] = runs[q]
<1>1. DOMAIN runs = 1 .. Len(runs)
  BY LenProperties
<1>. QED  BY <1>1, ExceptSeq, LenProperties DEF Moves

(* What the steps of a run make of it.                                        *)
Now(r, status) == [runs[r] EXCEPT !.status = status]

Cut(r) ==
  [runs[r] EXCEPT !.status = "ended",
                  !.job = [j \in Job |-> IF @[j] = "running" THEN "failed" ELSE @[j]]]

Does(r, j, status) == [runs[r] EXCEPT !.job = [@ EXCEPT ![j] = status]]

TaggedAs(r, v) == [Does(r, "tag", "ok") EXCEPT !.tag = v]

Tags(r, v) ==
  /\ tags' = [tags EXCEPT ![v] = [commit |-> runs[r].commit, run |-> r,
                                  attempt |-> runs[r].attempt]]
  /\ commits[runs[r].commit] = 0 => v = Latest + 1

Built(r, l, v) ==
  [Does(r, l, "ok") EXCEPT
     !.built = [@ EXCEPT ![l] = [run |-> r, attempt |-> runs[r].attempt,
                                 commit |-> tags[runs[r].tag].commit, version |-> v]]]

Sends(r, j) == [Does(r, j, "running") EXCEPT !.sent = {}]

Sent(r, w) == [runs[r] EXCEPT !.sent = @ \cup {w}]

LEMMA StepMoves ==
  ASSUME TypeOK, NEW r \in DOMAIN runs
  PROVE  /\ Dequeue(r) => Moves(r, Now(r, "running"))
         /\ End(r) => Moves(r, Now(r, "ended"))
         /\ Stop(r) => Moves(r, Cut(r))
         /\ KeepTag(r) => Moves(r, TaggedAs(r, Latest))
         /\ NewTag(r) => \E v \in Version \ Tagged : Moves(r, TaggedAs(r, v)) /\ Tags(r, v)
         /\ Test(r) => Moves(r, Does(r, "test", "ok"))
         /\ Release(r) => Moves(r, Does(r, "release", "running"))
         /\ \A j \in Job : Start(r, j) => Moves(r, Sends(r, j))
         /\ \A j \in Job : Fail(r, j) => Moves(r, Does(r, j, "failed"))
         /\ \A j \in Job : Uploaded(r, j) => Moves(r, Does(r, j, "ok"))
         /\ \A l \in Leg : BuildLeg(r, l) =>
              \E v \in NamesOf(tags[runs[r].tag].commit) : Moves(r, Built(r, l, v))
         /\ \A w \in Wheel : UploadTestPypi(r, w) \/ UploadPypi(r, w) => Moves(r, Sent(r, w))
<1>1. /\ Dequeue(r) => Moves(r, Now(r, "running"))
      /\ End(r) => Moves(r, Now(r, "ended"))
      /\ Stop(r) => Moves(r, Cut(r))
  BY DEF Moves, Dequeue, End, Stop, Now, Cut
<1>2. /\ KeepTag(r) => Moves(r, TaggedAs(r, Latest))
      /\ NewTag(r) => \E v \in Version \ Tagged : Moves(r, TaggedAs(r, v)) /\ Tags(r, v)
  BY DEF Moves, KeepTag, NewTag, TaggedAs, Tags, Does
<1>3. /\ Test(r) => Moves(r, Does(r, "test", "ok"))
      /\ Release(r) => Moves(r, Does(r, "release", "running"))
  BY DEF Moves, Test, Release, Does
<1>4. ASSUME NEW j \in Job
      PROVE  /\ Start(r, j) => Moves(r, Sends(r, j))
             /\ Fail(r, j) => Moves(r, Does(r, j, "failed"))
             /\ Uploaded(r, j) => Moves(r, Does(r, j, "ok"))
  BY DEF Moves, Start, Fail, Uploaded, Sends, Does
<1>5. ASSUME NEW l \in Leg
      PROVE  BuildLeg(r, l) =>
               \E v \in NamesOf(tags[runs[r].tag].commit) : Moves(r, Built(r, l, v))
  BY DEF Moves, BuildLeg, Built, Does
<1>6. ASSUME NEW w \in Wheel
      PROVE  UploadTestPypi(r, w) \/ UploadPypi(r, w) => Moves(r, Sent(r, w))
  BY DEF Moves, UploadTestPypi, UploadPypi, Upload, Sent
<1>. QED  BY <1>1, <1>2, <1>3, <1>4, <1>5, <1>6

(* A job that goes on after those it needs, and was not done, keeps the order.*)
LEMMA DoesKeepsOrder ==
  ASSUME TypeInv, NEW r \in DOMAIN runs, NEW j \in Job, NEW s \in {"running", "ok", "failed"},
         runs[r].job[j] # "ok",
         s # "failed" => \A n \in Needs[j] : runs[r].job[n] = "ok"
  PROVE  /\ Does(r, j, s) \in Run /\ Ordered(Does(r, j, s))
         /\ \A k \in Job : Does(r, j, s).job[k] = IF k = j THEN s ELSE runs[r].job[k]
         /\ Does(r, j, s).commit = runs[r].commit /\ Does(r, j, s).tag = runs[r].tag
         /\ Does(r, j, s).built = runs[r].built /\ Does(r, j, s).sent = runs[r].sent
         /\ Does(r, j, s).attempt = runs[r].attempt /\ Does(r, j, s).status = runs[r].status
<1>1. runs[r] \in Run
  BY DEF TypeInv, TypeOK
<1>2. Ordered(runs[r])
  BY DEF TypeInv
<1>3. Does(r, j, s) \in Run
  BY <1>1 DEF Run, Does
<1>4. /\ \A k \in Job : Does(r, j, s).job[k] = IF k = j THEN s ELSE runs[r].job[k]
      /\ Does(r, j, s).commit = runs[r].commit /\ Does(r, j, s).tag = runs[r].tag
      /\ Does(r, j, s).built = runs[r].built /\ Does(r, j, s).sent = runs[r].sent
      /\ Does(r, j, s).attempt = runs[r].attempt /\ Does(r, j, s).status = runs[r].status
  BY <1>1 DEF Run, Does
<1>5. Ordered(Does(r, j, s))
  <2>1. runs[r].job \in [Job -> {"waiting", "running", "ok", "failed"}]
    BY <1>1 DEF Run
  <2>. QED  BY <1>2, <1>4, <2>1, NeedsAre DEF Ordered
<1>. QED  BY <1>3, <1>4, <1>5

(* What a test job that passed has seen.                                      *)
Cleared == [installed : [Tested -> Build], left : [Leg \ Tested -> Build]]

(* What is left to show of a step of run r.                                   *)
LEMMA MoveKeepsTypes ==
  ASSUME TypeInv, NEW r \in DOMAIN runs, NEW x \in Run, Moves(r, x),
         Ordered(x), BuiltOK(x), x.commit = runs[r].commit,
         x.job["tag"] = "ok" => x.tag \in Tagged',
         UNCHANGED commits, Tagged \subseteq Tagged',
         tags' \in [Version -> [commit : 0 .. MaxRuns, run : 0 .. MaxRuns,
                               attempt : 0 .. MaxReruns + 1]],
         releases' \subseteq Version, testpypi' \subseteq File, pypi' \subseteq File,
         passed' \subseteq Cleared, UNCHANGED <<reruns, lost>>
  PROVE  TypeInv'
<1>. USE DEF TypeInv
<1>1. /\ runs' \in Seq(Run) /\ Len(runs') = Len(runs) /\ DOMAIN runs' = DOMAIN runs
      /\ runs'[r] = x /\ \A q \in DOMAIN runs \ {r} : runs'[q] = runs[q]
  BY MoveTypes DEF TypeOK
<1>2. TypeOK'
  BY <1>1 DEF TypeOK, Cleared
<1>3. Bounds'
  BY <1>1 DEF Bounds
<1>4. \A q \in DOMAIN runs' : Ordered(runs'[q]) /\ BuiltOK(runs'[q])
  BY <1>1
<1>5. (\A q \in DOMAIN runs : Ordered(runs[q]) /\ BuiltOK(runs[q]))'
  BY <1>4 DEF Ordered, BuiltOK
<1>. QED  BY <1>2, <1>3, <1>5

(* The steps of a run.                                                        *)
LEMMA StepKeepsTypes ==
  ASSUME TypeInv, NEW r \in DOMAIN runs, Step(r)
  PROVE  TypeInv'
<1>. USE NeedsAre
<1>0. /\ TypeOK /\ Ordered(runs[r]) /\ BuiltOK(runs[r]) /\ runs[r] \in Run
      /\ (runs[r].job["tag"] = "ok" => runs[r].tag \in Tagged)
  BY RunTypes
<1>1. /\ tags \in [Version -> [commit : 0 .. MaxRuns, run : 0 .. MaxRuns,
                              attempt : 0 .. MaxReruns + 1]]
      /\ releases \subseteq Version /\ testpypi \subseteq File /\ pypi \subseteq File
      /\ passed \subseteq Cleared
  BY <1>0 DEF TypeOK, Cleared
<1>2. ASSUME NEW status \in {"running", "ended"}, Moves(r, Now(r, status)),
             UNCHANGED <<commits, tags, published, reruns, passed, lost>>
      PROVE  TypeInv'
  <2>1. Now(r, status) \in Run
    BY <1>0 DEF Run, Now
  <2>2. /\ Now(r, status).job = runs[r].job /\ Now(r, status).built = runs[r].built
        /\ Now(r, status).tag = runs[r].tag /\ Now(r, status).commit = runs[r].commit
    BY <1>0 DEF Run, Now
  <2>3. Ordered(Now(r, status)) /\ BuiltOK(Now(r, status))
    BY <1>0, <2>2 DEF Ordered, BuiltOK
  <2>4. Tagged' = Tagged
    BY <1>2 DEF Tagged
  <2>. QED  BY <1>0, <1>1, <1>2, <2>1, <2>2, <2>3, <2>4, MoveKeepsTypes DEF published
<1>3. ASSUME NEW j \in Job, NEW s \in {"running", "ok", "failed"}, NEW x \in Run, Moves(r, x),
             runs[r].job[j] # "ok", s # "failed" => \A n \in Needs[j] : runs[r].job[n] = "ok",
             x.job = Does(r, j, s).job, x.commit = runs[r].commit,
             \/ x.tag = runs[r].tag /\ (s = "ok" => j # "tag")
             \/ x.tag \in Tagged',
             \A l \in Leg : \/ x.built[l] = runs[r].built[l] /\ (s = "ok" => l # j)
                           \/ x.built[l] \in Build,
             UNCHANGED <<commits, reruns>>, Tagged \subseteq Tagged',
             tags' \in [Version -> [commit : 0 .. MaxRuns, run : 0 .. MaxRuns,
                                   attempt : 0 .. MaxReruns + 1]],
             releases' \subseteq Version, testpypi' \subseteq File, pypi' \subseteq File,
             passed' \subseteq Cleared, UNCHANGED lost
      PROVE  TypeInv'
  <2>0. /\ \A k \in Job : Does(r, j, s).job[k] = IF k = j THEN s ELSE runs[r].job[k]
        /\ Ordered(Does(r, j, s))
    <3>1. /\ j \in Job /\ s \in {"running", "ok", "failed"} /\ runs[r].job[j] # "ok"
          /\ s # "failed" => \A n \in Needs[j] : runs[r].job[n] = "ok"
      BY <1>3
    <3>. QED  BY <3>1, DoesKeepsOrder
  <2>1. \A k \in Job : x.job[k] = IF k = j THEN s ELSE runs[r].job[k]
    BY <1>3, <2>0
  <2>2. runs[r].job \in [Job -> {"waiting", "running", "ok", "failed"}]
    BY <1>0 DEF Run
  <2>3. Ordered(x)
    BY <1>3, <2>0 DEF Ordered
  <2>4. BuiltOK(x)
    BY <1>0, <1>3, <2>1, <2>2 DEF BuiltOK
  <2>5. x.job["tag"] = "ok" => x.tag \in Tagged'
    BY <1>0, <1>3, <2>1, <2>2
  <2>. QED  BY <1>3, <2>3, <2>4, <2>5, MoveKeepsTypes
<1>4. CASE Dequeue(r) \/ End(r)
  BY <1>0, <1>2, <1>4, StepMoves DEF Dequeue, End, history
<1>5. CASE Stop(r)
  <2>1. Moves(r, Cut(r))
    BY <1>0, <1>5, StepMoves
  <2>2. Cut(r) \in Run
    BY <1>0 DEF Run, Cut
  <2>3. /\ Cut(r).built = runs[r].built
        /\ Cut(r).tag = runs[r].tag /\ Cut(r).commit = runs[r].commit
        /\ \A j \in Job : Cut(r).job[j] \in {"ok", "running"} <=> runs[r].job[j] = "ok"
        /\ \A j \in Job : Cut(r).job[j] = "ok" <=> runs[r].job[j] = "ok"
    BY <1>0 DEF Run, Cut
  <2>4. Ordered(Cut(r)) /\ BuiltOK(Cut(r))
    BY <1>0, <2>3 DEF Ordered, BuiltOK
  <2>5. Tagged' = Tagged
    BY <1>5 DEF Stop, Tagged
  <2>. QED  BY <1>0, <1>1, <1>5, <2>1, <2>2, <2>3, <2>4, <2>5, MoveKeepsTypes
            DEF Stop, published, history
<1>6. CASE KeepTag(r) \/ NewTag(r)
  <2>0. runs[r].job["tag"] = "waiting" /\ Needs["tag"] = {}
    BY <1>6 DEF KeepTag, NewTag, CanStart
  <2>1. ASSUME NEW v \in Version, Moves(r, TaggedAs(r, v))
        PROVE  /\ TaggedAs(r, v) \in Run /\ TaggedAs(r, v).job = Does(r, "tag", "ok").job
               /\ TaggedAs(r, v).commit = runs[r].commit /\ TaggedAs(r, v).tag = v
               /\ TaggedAs(r, v).built = runs[r].built
    <3>1. Does(r, "tag", "ok") \in Run
      BY <1>0 DEF Run, Does
    <3>. QED  BY <1>0, <3>1 DEF Run, TaggedAs, Does
  <2>2. CASE KeepTag(r)
    <3>1. Latest \in Tagged /\ Tagged' = Tagged /\ Latest \in Version
      <4>1. Tagged # {} 
        BY <2>2 DEF KeepTag, AtLatest, Latest
      <4>. QED  BY <2>2, <4>1, LatestIsHighest DEF KeepTag, Tagged
    <3>2. Moves(r, TaggedAs(r, Latest))
      BY <1>0, <2>2, StepMoves
    <3>3. UNCHANGED <<commits, tags, published, reruns, passed, lost>>
      BY <2>2 DEF KeepTag, history
    <3>. QED  BY <1>1, <1>3, <2>0, <2>1, <3>1, <3>2, <3>3 DEF published
  <2>3. CASE NewTag(r)
    <3>1. PICK v \in Version \ Tagged : Moves(r, TaggedAs(r, v)) /\ Tags(r, v)
      BY <1>0, <2>3, StepMoves
    <3>2. [commit |-> runs[r].commit, run |-> r, attempt |-> runs[r].attempt]
             \in [commit : 1 .. MaxRuns, run : 1 .. MaxRuns, attempt : 0 .. MaxReruns + 1]
      <4>1. r \in 1 .. MaxRuns
        BY PipelineAssumptions, LenProperties DEF PipelineAssumptions, TypeInv, TypeOK, Bounds
      <4>. QED  BY <1>0, <4>1, PipelineAssumptions DEF PipelineAssumptions, Run
    <3>3. v \in Tagged' /\ Tagged \subseteq Tagged'
      BY <1>1, <3>1, <3>2 DEF Tagged, Tags, Untagged
    <3>4. tags' \in [Version -> [commit : 0 .. MaxRuns, run : 0 .. MaxRuns,
                                attempt : 0 .. MaxReruns + 1]]
      BY <1>1, <3>1, <3>2 DEF Tags
    <3>5. UNCHANGED <<commits, published, reruns, passed, lost>>
      BY <2>3 DEF NewTag, history
    <3>. QED  BY <1>1, <1>3, <2>0, <2>1, <3>1, <3>3, <3>4, <3>5 DEF published
  <2>. QED  BY <1>6, <2>2, <2>3
<1>7. CASE Test(r) \/ Release(r)
  <2>1. PICK j \in {"test", "release"}, s \in {"ok", "running"} :
          CanStart(r, j) /\ Moves(r, Does(r, j, s))
    BY <1>0, <1>7, StepMoves DEF Test, Release
  <2>2. runs[r].job[j] # "ok" /\ \A n \in Needs[j] : runs[r].job[n] = "ok"
    BY <2>1 DEF CanStart
  <2>3. /\ Does(r, j, s) \in Run /\ Does(r, j, s).commit = runs[r].commit
        /\ Does(r, j, s).tag = runs[r].tag /\ Does(r, j, s).built = runs[r].built
    BY <2>2, DoesKeepsOrder
  <2>4. UNCHANGED <<commits, tags, testpypi, pypi, reruns, lost>> /\ Tagged' = Tagged
    BY <1>7 DEF Test, Release, history, published, Tagged
  <2>5. passed' \subseteq Cleared
    <3>1. ASSUME Test(r)
          PROVE  Seen(runs[r]) \in Cleared
      <4>1. \A l \in Leg : runs[r].built[l] \in Build
        BY <3>1, Before DEF Test
      <4>2. Tested \subseteq Leg
        BY PipelineAssumptions DEF PipelineAssumptions
      <4>. QED  BY <4>1, <4>2 DEF Seen, Cleared
    <3>. QED  BY <1>1, <1>7, <3>1 DEF Test, Release, history
  <2>6. releases' \subseteq Version
    <3>1. Release(r) => runs[r].tag \in Version
      BY Before DEF Release, Tagged
    <3>. QED  BY <1>1, <1>7, <3>1 DEF Test, Release, published
  <2>. QED  BY <1>1, <1>3, <2>1, <2>2, <2>3, <2>4, <2>5, <2>6
<1>8. ASSUME NEW l \in Leg, BuildLeg(r, l)
      PROVE  TypeInv'
  <2>1. runs[r].job[l] # "ok" /\ \A n \in Needs[l] : runs[r].job[n] = "ok"
    BY <1>8 DEF BuildLeg, CanStart
  <2>2. Does(r, l, "ok") \in Run /\ Does(r, l, "ok").built = runs[r].built
        /\ Does(r, l, "ok").commit = runs[r].commit /\ Does(r, l, "ok").tag = runs[r].tag
    BY <2>1, DoesKeepsOrder
  <2>0. PICK v \in NamesOf(tags[runs[r].tag].commit) : Moves(r, Built(r, l, v))
    BY <1>0, <1>8, StepMoves
  <2>3. [run |-> r, attempt |-> runs[r].attempt, commit |-> tags[runs[r].tag].commit,
         version |-> v] \in Build
    <3>1. r \in 1 .. MaxRuns
      BY PipelineAssumptions, LenProperties DEF PipelineAssumptions, TypeInv, TypeOK, Bounds
    <3>2. runs[r].tag \in Version
      BY <1>8, Before DEF BuildLeg, Tagged
    <3>3. v \in Version
      BY DEF NamesOf, Tagged
    <3>. QED  BY <1>0, <1>1, <3>1, <3>2, <3>3 DEF Build, Run
  <2>4. /\ Built(r, l, v) \in Run /\ Built(r, l, v).job = Does(r, l, "ok").job
        /\ Built(r, l, v).commit = runs[r].commit /\ Built(r, l, v).tag = runs[r].tag
        /\ Built(r, l, v).built[l] \in Build
        /\ \A k \in Leg \ {l} : Built(r, l, v).built[k] = runs[r].built[k]
    BY <1>0, <2>2, <2>3 DEF Built, Run
  <2>6. UNCHANGED <<commits, tags, published, reruns, passed, lost>> /\ Tagged' = Tagged
    BY <1>8 DEF BuildLeg, history, Tagged
  <2>. QED  BY <1>1, <1>3, <2>0, <2>1, <2>4, <2>6 DEF published
<1>9. ASSUME NEW j \in Job, Start(r, j) \/ Fail(r, j) \/ Uploaded(r, j)
      PROVE  TypeInv'
  <2>1. UNCHANGED <<commits, tags, published, reruns, passed, lost>> /\ Tagged' = Tagged
    BY <1>9 DEF Start, Fail, Uploaded, history, Tagged
  <2>2. CASE Start(r, j)
    <3>1. runs[r].job[j] # "ok" /\ \A n \in Needs[j] : runs[r].job[n] = "ok"
      BY <2>2 DEF Start, CanStart
    <3>2. /\ Does(r, j, "running") \in Run /\ Does(r, j, "running").built = runs[r].built
          /\ Does(r, j, "running").commit = runs[r].commit
          /\ Does(r, j, "running").tag = runs[r].tag
      BY <3>1, DoesKeepsOrder
    <3>3. /\ Sends(r, j) \in Run /\ Sends(r, j).job = Does(r, j, "running").job
          /\ Sends(r, j).commit = runs[r].commit /\ Sends(r, j).tag = runs[r].tag
          /\ Sends(r, j).built = runs[r].built
      BY <3>2 DEF Sends, Run
    <3>4. Moves(r, Sends(r, j))
      BY <1>0, <2>2, StepMoves
    <3>. QED  BY <1>1, <1>3, <2>1, <3>1, <3>3, <3>4 DEF published
  <2>3. ASSUME NEW s \in {"failed", "ok"}, runs[r].job[j] # "ok", Moves(r, Does(r, j, s)),
               s = "ok" => j \notin Leg \cup {"tag"} /\ \A n \in Needs[j] : runs[r].job[n] = "ok"
        PROVE  TypeInv'
    <3>1. /\ Does(r, j, s) \in Run /\ Does(r, j, s).built = runs[r].built
          /\ Does(r, j, s).commit = runs[r].commit /\ Does(r, j, s).tag = runs[r].tag
      <4>1. s # "failed" => \A n \in Needs[j] : runs[r].job[n] = "ok"
        BY <2>3
      <4>. QED  BY <2>3, <4>1, DoesKeepsOrder
    <3>. QED  BY <1>1, <1>3, <2>1, <2>3, <3>1 DEF published
  <2>4. CASE Fail(r, j)
    <3>1. runs[r].job[j] # "ok"
      BY <2>4 DEF Fail, CanStart, Uploading
    <3>. QED  BY <1>0, <2>3, <2>4, <3>1, StepMoves
  <2>5. CASE Uploaded(r, j)
    <3>1. j \in {"release", "test-pypi", "pypi"} /\ runs[r].job[j] = "running"
      BY <2>5 DEF Uploaded, Uploading, Publishing
    <3>2. \A n \in Needs[j] : runs[r].job[n] = "ok"
      BY <1>0, <3>1 DEF Ordered
    <3>. QED  BY <1>0, <2>3, <2>5, <3>1, <3>2, StepMoves
  <2>. QED  BY <1>9, <2>2, <2>4, <2>5
<1>10. ASSUME NEW w \in Wheel, UploadTestPypi(r, w) \/ UploadPypi(r, w)
       PROVE  TypeInv'
  <2>1. /\ Sent(r, w) \in Run /\ Sent(r, w).job = runs[r].job
        /\ Sent(r, w).commit = runs[r].commit /\ Sent(r, w).tag = runs[r].tag
        /\ Sent(r, w).built = runs[r].built
    BY <1>0 DEF Sent, Run
  <2>2. Ordered(Sent(r, w)) /\ BuiltOK(Sent(r, w))
    BY <1>0, <2>1 DEF Ordered, BuiltOK
  <2>3. Moves(r, Sent(r, w))
    BY <1>0, <1>10, StepMoves
  <2>4. FileOf(runs[r], w) \in File
    <3>1. PICK j \in {"test-pypi", "pypi"} : runs[r].job[j] = "running"
      BY <1>10 DEF UploadTestPypi, UploadPypi, Upload, Uploading
    <3>2. LegOf[w] \in Leg
      BY PipelineAssumptions DEF PipelineAssumptions
    <3>3. runs[r].built[LegOf[w]] \in Build
      BY <3>1, <3>2, Before
    <3>. QED  BY <3>3 DEF File, FileOf, Build
  <2>5. testpypi' \subseteq File /\ pypi' \subseteq File
    BY <1>1, <1>10, <2>4 DEF UploadTestPypi, UploadPypi
  <2>6. UNCHANGED <<commits, tags, releases, reruns, passed, lost>> /\ Tagged' = Tagged
    BY <1>10 DEF UploadTestPypi, UploadPypi, history, Tagged
  <2>. QED  BY <1>0, <1>1, <2>1, <2>2, <2>3, <2>5, <2>6, MoveKeepsTypes
<1>. QED  BY <1>4, <1>5, <1>6, <1>7, <1>8, <1>9, <1>10 DEF Step

------------------------------------------------------------------------------
(* Events *)

(* An event takes their status from the runs it supersedes, and no more.      *)
LEMMA SupersededKeeps ==
  ASSUME TypeOK, NEW r, NEW q \in DOMAIN runs
  PROVE  /\ Superseded(r, q) \in Run
         /\ Superseded(r, q).status \in {"cancelling", "ended"}
         /\ Superseded(r, q).job = runs[q].job /\ Superseded(r, q).tag = runs[q].tag
         /\ Superseded(r, q).built = runs[q].built /\ Superseded(r, q).sent = runs[q].sent
         /\ Superseded(r, q).commit = runs[q].commit
         /\ Superseded(r, q).attempt = runs[q].attempt
<1>1. runs[q] \in Run
  BY DEF TypeOK
<1>. QED  BY <1>1 DEF Superseded, Group, Run

(* An event adds a run whose jobs all wait.                                   *)
LEMMA EventAdds ==
  ASSUME TypeInv, NEW event \in {"push", "schedule"}, NEW c \in 1 .. MaxRuns,
         runs' = Fresh(event, c), Len(runs) < MaxRuns
  PROVE  /\ runs' \in Seq(Run) /\ Len(runs') = Len(runs) + 1
         /\ DOMAIN runs' = DOMAIN runs \cup {Len(runs) + 1} /\ Len(runs) + 1 \notin DOMAIN runs
         /\ \A q \in DOMAIN runs : runs'[q] = Superseded(Len(runs) + 1, q)
         /\ runs'[Len(runs) + 1].commit = c /\ runs'[Len(runs) + 1].attempt = 1
         /\ runs'[Len(runs) + 1].status = Entry(Len(runs) + 1)
         /\ \A j \in Job : runs'[Len(runs) + 1].job[j] = "waiting"
<1>. DEFINE r == Len(runs) + 1
            old == [q \in DOMAIN runs |-> Superseded(r, q)]
            new == [event |-> event, commit |-> c, status |-> Entry(r), attempt |-> 1,
                    job |-> [j \in Job |-> "waiting"], tag |-> 0,
                    built |-> [l \in Leg |-> NoBuild], sent |-> {}]
<1>1. DOMAIN runs = 1 .. Len(runs) /\ Len(runs) \in Nat
  BY LenProperties DEF TypeInv, TypeOK
<1>2. old \in Seq(Run) /\ Len(old) = Len(runs)
  <2>1. \A q \in 1 .. Len(runs) : Superseded(r, q) \in Run
    BY <1>1, SupersededKeeps DEF TypeInv
  <2>. QED  BY <1>1, <2>1
<1>3. new \in Run
  <2>1. Entry(r) \in {"running", "pending"}
    BY DEF Entry
  <2>2. 1 \in 1 .. MaxReruns + 1
    BY PipelineAssumptions DEF PipelineAssumptions
  <2>. QED  BY <2>1, <2>2 DEF Run
<1>4. runs' = Append(old, new)
  BY DEF Fresh
<1>5. /\ runs' \in Seq(Run) /\ Len(runs') = Len(runs) + 1
      /\ \A q \in 1 .. Len(runs) : runs'[q] = old[q]
      /\ runs'[Len(runs) + 1] = new
  <2>. HIDE DEF old, new
  <2>. QED  BY <1>1, <1>2, <1>3, <1>4, AppendProperties
<1>6. DOMAIN runs' = 1 .. Len(runs) + 1
  BY <1>5, LenProperties
<1>. QED  BY <1>1, <1>5, <1>6

(* Events and re-runs.                                                        *)
LEMMA EventKeepsTypes ==
  ASSUME TypeInv,
         \/ \E v \in Asked : Push(v)
         \/ Schedule
         \/ \E r \in DOMAIN runs : \E keep \in SUBSET Job : Rerun(r, keep)
  PROVE  TypeInv'
<1>. USE NeedsAre
<1>1. /\ TypeOK /\ Len(runs) \in Nat /\ DOMAIN runs = 1 .. Len(runs) /\ runs \in Seq(Run)
      /\ commits \in Seq(Asked) /\ Len(commits) \in Nat
      /\ MaxRuns \in Nat /\ MaxReruns \in Nat
  BY LenProperties, PipelineAssumptions DEF TypeInv, TypeOK, PipelineAssumptions
<1>2. \A q \in DOMAIN runs : Ordered(runs[q]) /\ BuiltOK(runs[q])
  BY DEF TypeInv
<1>3. Bounds
  BY DEF TypeInv
<1>4. ASSUME NEW event \in {"push", "schedule"}, NEW c \in 1 .. MaxRuns,
             runs' = Fresh(event, c), Len(runs) < MaxRuns,
             lost' = lost \cup Replaced(Len(runs) + 1),
             UNCHANGED <<tags, reruns, published, passed>>,
             commits' \in Seq(Asked), Len(commits) <= Len(commits'), c <= Len(commits'),
             Len(commits') <= Len(runs) + 1
      PROVE  TypeInv'
  <2>1. /\ runs' \in Seq(Run) /\ Len(runs') = Len(runs) + 1
        /\ DOMAIN runs' = DOMAIN runs \cup {Len(runs) + 1}
        /\ \A q \in DOMAIN runs : runs'[q] = Superseded(Len(runs) + 1, q)
        /\ runs'[Len(runs) + 1].commit = c
        /\ \A j \in Job : runs'[Len(runs) + 1].job[j] = "waiting"
    BY <1>4, EventAdds
  <2>2. \A q \in DOMAIN runs :
          /\ runs'[q].job = runs[q].job /\ runs'[q].tag = runs[q].tag
          /\ runs'[q].built = runs[q].built /\ runs'[q].commit = runs[q].commit
    BY <1>1, <2>1, SupersededKeeps
  <2>3. Tagged' = Tagged /\ lost' \subseteq DOMAIN runs'
    BY <1>1, <1>4, <2>1 DEF Tagged, Replaced, TypeOK
  <2>4. TypeOK'
    BY <1>1, <1>4, <2>1, <2>2, <2>3 DEF TypeOK, published
  <2>5. Bounds'
    <3>1. \A q \in DOMAIN runs' : runs'[q].commit <= Len(commits')
      <4>1. Len(commits') \in Nat
        BY <1>4, LenProperties
      <4>2. \A q \in DOMAIN runs : runs[q].commit \in Nat
        <5>1. \A q \in DOMAIN runs : runs[q] \in Run
          BY <1>1
        <5>. QED  BY <1>1, <5>1 DEF Run
      <4>. QED  BY <1>1, <1>3, <1>4, <2>1, <2>2, <4>1, <4>2 DEF Bounds
    <3>. QED  BY <1>1, <1>3, <1>4, <2>1, <3>1 DEF Bounds
  <2>6. \A q \in DOMAIN runs' : Ordered(runs'[q]) /\ BuiltOK(runs'[q])
    BY <1>2, <2>1, <2>2 DEF Ordered, BuiltOK
  <2>7. (\A q \in DOMAIN runs : Ordered(runs[q]) /\ BuiltOK(runs[q]))'
    BY <2>6 DEF Ordered, BuiltOK
  <2>. QED  BY <2>4, <2>5, <2>7 DEF TypeInv
<1>5. ASSUME NEW v \in Asked, Push(v)
      PROVE  TypeInv'
  <2>1. commits' \in Seq(Asked) /\ Len(commits') = Len(commits) + 1
    BY <1>1, <1>5, AppendProperties DEF Push
  <2>2. Len(commits) + 1 \in 1 .. MaxRuns
    BY <1>1, <1>3, <1>5 DEF Push, Bounds
  <2>. QED  BY <1>1, <1>3, <1>4, <1>5, <2>1, <2>2 DEF Push, Bounds
<1>6. CASE Schedule
  <2>1. Len(commits) \in 1 .. MaxRuns
    BY <1>1, <1>3, <1>6 DEF Schedule, Bounds
  <2>. QED  BY <1>1, <1>3, <1>4, <1>6, <2>1 DEF Schedule, Bounds
<1>7. ASSUME NEW r \in DOMAIN runs, NEW keep \in SUBSET Job, Rerun(r, keep)
      PROVE  TypeInv'
  <2>. DEFINE again == [runs[r] EXCEPT
                          !.status = Entry(r), !.attempt = reruns + 2,
                          !.job = [j \in Job |-> IF j \in keep THEN "ok" ELSE "waiting"]]
  <2>1. /\ again \in Run /\ again.tag = runs[r].tag /\ again.built = runs[r].built
        /\ again.commit = runs[r].commit
        /\ \A j \in Job : again.job[j] = IF j \in keep THEN "ok" ELSE "waiting"
    <3>1. runs[r] \in Run
      BY <1>1 DEF TypeOK
    <3>2. Entry(r) \in {"running", "pending"}
      BY DEF Entry
    <3>3. reruns + 2 \in 1 .. MaxReruns + 1
      <4>1. reruns \in 0 .. MaxReruns
        BY <1>1 DEF TypeOK
      <4>2. reruns < MaxReruns
        BY <1>7 DEF Rerun
      <4>. QED  BY <1>1, <4>1, <4>2
    <3>. QED  BY <3>1, <3>2, <3>3 DEF Run
  <2>2. \A j \in keep : runs[r].job[j] = "ok"
    BY <1>7 DEF Rerun
  <2>3. \A j \in keep : Needs[j] \subseteq keep
    <3>1. CASE keep = {}
      BY <3>1
    <3>2. CASE keep = {j \in Job : runs[r].job[j] = "ok"}
      BY <1>2, <3>2 DEF Ordered
    <3>. QED  BY <1>7, <3>1, <3>2 DEF Rerun
  <2>4. Ordered(again) /\ BuiltOK(again)
    <3>. HIDE DEF again
    <3>. QED  BY <1>2, <2>1, <2>2, <2>3 DEF Ordered, BuiltOK
  <2>5. runs' = [q \in DOMAIN runs |-> IF q # r THEN Superseded(r, q) ELSE again]
    BY <1>7 DEF Rerun
  <2>. HIDE DEF again
  <2>6. \A q \in DOMAIN runs : runs'[q] \in Run
    BY <1>1, <2>1, <2>5, SupersededKeeps
  <2>7. runs' \in Seq(Run) /\ Len(runs') = Len(runs) /\ DOMAIN runs' = DOMAIN runs
    BY <1>1, <2>5, <2>6
  <2>8. \A q \in DOMAIN runs :
          /\ runs'[q].tag = runs[q].tag /\ runs'[q].commit = runs[q].commit
          /\ runs'[q].job["tag"] = "ok" => runs[q].job["tag"] = "ok"
    BY <1>1, <2>1, <2>2, <2>5, SupersededKeeps
  <2>9. Tagged' = Tagged /\ lost' \subseteq DOMAIN runs' /\ reruns' \in 0 .. MaxReruns
    <3>1. reruns \in 0 .. MaxReruns
      BY <1>1 DEF TypeOK
    <3>2. /\ reruns < MaxReruns /\ reruns' = reruns + 1 /\ tags' = tags
          /\ lost' \subseteq lost \cup Replaced(r)
      BY <1>7 DEF Rerun
    <3>3. Tagged' = Tagged
      BY <3>2 DEF Tagged
    <3>4. lost' \subseteq DOMAIN runs
      BY <1>1, <3>2 DEF Replaced, TypeOK
    <3>. QED  BY <1>1, <2>7, <3>1, <3>2, <3>3, <3>4
  <2>10. TypeOK'
    <3>1. UNCHANGED <<commits, tags, published, passed>>
      BY <1>7 DEF Rerun
    <3>. QED  BY <1>1, <2>7, <2>8, <2>9, <3>1 DEF TypeOK, published
  <2>11. Bounds'
    BY <1>3, <1>7, <2>7, <2>8 DEF Bounds, Rerun
  <2>12. \A q \in DOMAIN runs' : Ordered(runs'[q]) /\ BuiltOK(runs'[q])
    <3>1. ASSUME NEW q \in DOMAIN runs, q # r
          PROVE  Ordered(runs'[q]) /\ BuiltOK(runs'[q])
      <4>1. runs'[q].job = runs[q].job /\ runs'[q].built = runs[q].built
        BY <1>1, <2>5, <3>1, SupersededKeeps
      <4>. QED  BY <1>2, <4>1 DEF Ordered, BuiltOK
    <3>. QED  BY <2>4, <2>5, <2>7, <3>1
  <2>13. (\A q \in DOMAIN runs : Ordered(runs[q]) /\ BuiltOK(runs[q]))'
    BY <2>12 DEF Ordered, BuiltOK
  <2>. QED  BY <2>10, <2>11, <2>13 DEF TypeInv
<1>. QED  BY <1>5, <1>6, <1>7

(* The values the variables take; and no job is ahead of those it needs.      *)
THEOREM PipelineTypeInvariant == Spec => []TypeInv
<1>1. Init => TypeInv
  BY PipelineAssumptions DEF PipelineAssumptions, Init, TypeInv, TypeOK, Bounds, Untagged, Tagged
<1>2. TypeInv /\ [Next]_vars => TypeInv'
  <2>1. ASSUME TypeInv, UNCHANGED vars
        PROVE  TypeInv'
    <3>1. Tagged' = Tagged /\ UNCHANGED <<commits, runs>>
      BY <2>1 DEF vars, Tagged
    <3>2. TypeOK'
      BY <2>1, <3>1 DEF TypeInv, TypeOK, vars
    <3>3. Bounds' /\ (\A r \in DOMAIN runs : Ordered(runs[r]) /\ BuiltOK(runs[r]))'
      BY <2>1, <3>1 DEF TypeInv, Bounds, Ordered, BuiltOK
    <3>. QED  BY <3>2, <3>3 DEF TypeInv
  <2>. QED  BY <2>1, StepKeepsTypes, EventKeepsTypes DEF Next
<1>. QED  BY <1>1, <1>2, PTL DEF Spec

------------------------------------------------------------------------------
(* What is published *)

Files == testpypi \cup pypi

(* The job that makes the release has made it, if not yet its assets.         *)
Made(x) == x.job["release"] \in {"running", "ok"}

(* A leg has built the code that the run's tag names, under a name of it.     *)
BuiltTagged(x) ==
  \A l \in Leg : x.job[l] = "ok" =>
    /\ x.built[l].commit = tags[x.tag].commit
    /\ x.built[l].version \in NamesOf(tags[x.tag].commit)

TestPassed(x) == x.job["test"] = "ok" => Seen(x) \in passed

(* The run that made the release of a version has built every file of it.     *)
Owns(x) ==
  Made(x) =>
    /\ x.tag \in releases
    /\ Sole(x.tag) => \A f \in Files : f.version = x.tag => f.build = x.built[LegOf[f.wheel]]

(* What its uploads have sent, or send, is there.                             *)
Rehearses(x) ==
  /\ x.job["test-pypi"] = "running" => \A w \in x.sent : FileOf(x, w) \in testpypi
  /\ x.job["test-pypi"] = "ok" => \A w \in Wheel : FileOf(x, w) \in testpypi

Publishes(x) ==
  /\ x.job["pypi"] = "running" => \A w \in x.sent : FileOf(x, w) \in pypi
  /\ x.job["pypi"] = "ok" => \A w \in Wheel : FileOf(x, w) \in pypi

RunInv(x) == BuiltTagged(x) /\ TestPassed(x) /\ Owns(x) /\ Rehearses(x) /\ Publishes(x)

(* A release is made once: no two runs own one version.                       *)
OneOwner ==
  \A q, r \in DOMAIN runs : Made(runs[q]) /\ Made(runs[r]) /\ runs[q].tag = runs[r].tag => q = r

FilesReleased ==
  \A f \in Files : f.version \in Tagged /\ (Sole(f.version) => f.version \in releases)

(* PyPI only gets what Test PyPI has taken: a file there is, byte for byte,   *)
(* one on Test PyPI.  If no re-run gave its commit a second tag, all the      *)
(* other wheels of the version are there too, and it has a GitHub release.    *)
RehearsedFirst ==
  \A f \in pypi :
    /\ f \in testpypi
    /\ Sole(f.version) =>
         /\ \A w \in Wheel : \E g \in testpypi : g.version = f.version /\ g.wheel = w
         /\ f.version \in releases

PublishInv ==
  /\ \A r \in DOMAIN runs : RunInv(runs[r])
  /\ OneOwner /\ FilesReleased
  /\ TestedTogether /\ CodeIsTagged /\ RehearsedFirst

(* What only grows in a step.                                                 *)
Grows ==
  /\ Tagged \subseteq Tagged' /\ \A v \in Tagged : tags'[v] = tags[v]
  /\ passed \subseteq passed' /\ releases \subseteq releases'
  /\ testpypi \subseteq testpypi' /\ pypi \subseteq pypi'

(* A tag that is the only one of its commit was so before.                    *)
LEMMA SoleBefore ==
  ASSUME Grows, NEW v \in Tagged, Sole(v)'
  PROVE  Sole(v)
BY DEF Grows, Sole

(* A run that does no more than lose jobs stays as it should be, as long as   *)
(* what there is only grows, and by no file of a version that the run owns.   *)
LEMMA RunStays ==
  ASSUME NEW x \in Run, NEW y \in Run, RunInv(x), Ordered(x), Grows,
         \A j \in Job : y.job[j] = "ok" => x.job[j] = "ok", Made(y) => Made(x),
         y.tag = x.tag, y.built = x.built,
         \A j \in {"test-pypi", "pypi"} : y.job[j] = "running" =>
           y.sent = {} \/ (x.job[j] = "running" /\ y.sent = x.sent),
         x.job["tag"] = "ok" => x.tag \in Tagged,
         \A f \in Files' \ Files : Made(x) /\ Sole(x.tag)' => f.version # x.tag
  PROVE  RunInv(y)'
<1>. USE NeedsAre
<1>1. \A l \in Leg : y.job[l] = "ok" => x.job[l] = "ok" /\ x.tag \in Tagged
  BY DEF Ordered
<1>2. BuiltTagged(y)'
  <2>1. \A c : NamesOf(c) \subseteq NamesOf(c)'
    BY DEF NamesOf, Grows
  <2>2. ASSUME NEW l \in Leg, y.job[l] = "ok"
        PROVE  /\ y.built[l].commit = tags'[y.tag].commit
               /\ y.built[l].version \in NamesOf(tags[y.tag].commit)
               /\ tags'[y.tag] = tags[y.tag]
    BY <1>1, <2>2 DEF RunInv, BuiltTagged, Grows
  <2>3. ASSUME NEW l \in Leg, y.job[l] = "ok"
        PROVE  y.built[l].version \in NamesOf(tags[y.tag].commit)'
    BY <2>2, <2>3 DEF NamesOf, Grows
  <2>. QED  BY <2>2, <2>3 DEF BuiltTagged
<1>3. TestPassed(y)'
  BY DEF RunInv, TestPassed, Seen, Grows
<1>4. Owns(y)'
  <2>1. ASSUME Made(y)
        PROVE  Made(x) /\ x.tag \in Tagged /\ x.tag \in releases
    BY <2>1 DEF Ordered, Made, RunInv, Owns
  <2>2. ASSUME Made(y), Sole(y.tag)', NEW f \in Files', f.version = y.tag
        PROVE  f.build = y.built[LegOf[f.wheel]]
    <3>1. Sole(x.tag)
      BY <2>1, <2>2, SoleBefore
    <3>2. f \in Files
      BY <2>1, <2>2
    <3>. QED  BY <2>1, <2>2, <3>1, <3>2 DEF RunInv, Owns
  <2>3. Made(y)' => Made(y)
    BY DEF Made
  <2>. QED  BY <2>1, <2>2, <2>3 DEF Owns, Grows
<1>5. Rehearses(y)' /\ Publishes(y)'
  BY DEF RunInv, Rehearses, Publishes, FileOf, Grows
<1>. QED  BY <1>2, <1>3, <1>4, <1>5 DEF RunInv

(* A step of run r leaves the others as they should be: a new file that is of *)
(* a commit's only tag is of the one that r owns.                             *)
LEMMA OthersStay ==
  ASSUME TypeInv, PublishInv, NEW r \in DOMAIN runs, NEW x \in Run, Moves(r, x), RunInv(x)',
         Grows,
         \A f \in Files' \ Files :
           Made(runs[r]) /\ (Sole(f.version)' => f.version = runs[r].tag),
         Made(x) => \/ Made(runs[r]) /\ x.tag = runs[r].tag
                    \/ x.tag \notin releases
  PROVE  (\A q \in DOMAIN runs : RunInv(runs[q]))' /\ OneOwner'
<1>1. /\ DOMAIN runs' = DOMAIN runs /\ runs'[r] = x
      /\ \A q \in DOMAIN runs \ {r} : runs'[q] = runs[q]
  BY MoveTypes DEF TypeInv, TypeOK
<1>2. ASSUME NEW q \in DOMAIN runs, q # r, NEW y \in Run, y = runs[q]
      PROVE  RunInv(y)'
  <2>1. RunInv(y) /\ Ordered(y) /\ (y.job["tag"] = "ok" => y.tag \in Tagged)
    BY <1>2 DEF PublishInv, TypeInv, TypeOK
  <2>2. \A f \in Files' \ Files : Made(y) /\ Sole(y.tag)' => f.version # y.tag
    BY <1>2 DEF PublishInv, OneOwner
  <2>. QED  BY <2>1, <2>2, RunStays
<1>3. \A q \in DOMAIN runs : runs[q] \in Run
  BY DEF TypeInv, TypeOK
<1>4. ASSUME NEW q \in DOMAIN runs'
      PROVE  RunInv(runs[q])'
  <2>1. PICK y \in Run : y = runs'[q]
    BY <1>1, <1>3
  <2>2. RunInv(y)'
    BY <1>1, <1>2, <2>1
  <2>. QED  BY <2>1, <2>2
            DEF RunInv, BuiltTagged, TestPassed, Owns, Made, Rehearses, Publishes, FileOf, Seen
<1>5. OneOwner'
  <2>1. \A q \in DOMAIN runs : Made(runs[q]) => runs[q].tag \in releases
    BY DEF PublishInv, RunInv, Owns
  <2>2. \A q \in DOMAIN runs : Made(runs[q])' <=> IF q = r THEN Made(x) ELSE Made(runs[q])
    BY <1>1 DEF Made
  <2>. QED  BY <1>1, <2>1, <2>2 DEF PublishInv, OneOwner
<1>. QED  BY <1>4, <1>5

(* What is published stays as it should be when nothing is added.             *)
LEMMA FilesStay ==
  ASSUME PublishInv, UNCHANGED <<testpypi, pypi>>, Grows
  PROVE  FilesReleased' /\ TestedTogether' /\ CodeIsTagged' /\ RehearsedFirst'
<1>0. \A f \in Files : /\ f.version \in Tagged
                       /\ Sole(f.version)' => Sole(f.version)
  BY SoleBefore DEF PublishInv, FilesReleased
<1>1. FilesReleased'
  BY <1>0 DEF Grows, PublishInv, FilesReleased, Files
<1>2. TestedTogether'
  <2>. SUFFICES ASSUME NEW v \in Tagged', Sole(v)', {f \in Files : f.version = v} # {}
                PROVE  \E set \in passed' : \A f \in {g \in Files : g.version = v} :
                         \/ LegOf[f.wheel] \in Tested /\ f.build = set.installed[LegOf[f.wheel]]
                         \/ LegOf[f.wheel] \notin Tested /\ f.build = set.left[LegOf[f.wheel]]
    BY DEF TestedTogether, Files
  <2>1. v \in Tagged /\ Sole(v)
    BY <1>0
  <2>. QED  BY <2>1 DEF Grows, PublishInv, TestedTogether, Files
<1>3. CodeIsTagged'
  BY <1>0 DEF Grows, PublishInv, Files, CodeIsTagged
<1>4. RehearsedFirst'
  BY <1>0 DEF Grows, PublishInv, RehearsedFirst, Files
<1>. QED  BY <1>1, <1>2, <1>3, <1>4

(* A step that publishes nothing: run r gets record x.                        *)
LEMMA QuietStep ==
  ASSUME TypeInv, PublishInv, NEW r \in DOMAIN runs, NEW x \in Run, Moves(r, x), RunInv(x)',
         Grows, UNCHANGED <<testpypi, pypi>>,
         Made(x) => \/ Made(runs[r]) /\ x.tag = runs[r].tag
                    \/ x.tag \notin releases
  PROVE  PublishInv'
<1>1. \A f \in Files' \ Files : Made(runs[r]) /\ (Sole(f.version)' => f.version = runs[r].tag)
  BY DEF Files
<1>2. (\A q \in DOMAIN runs : RunInv(runs[q]))' /\ OneOwner'
  BY <1>1, OthersStay
<1>. QED  BY <1>2, FilesStay DEF PublishInv

(* Steps that only lose jobs, or change the status.                           *)
LEMMA LosingStep ==
  ASSUME TypeInv, PublishInv, NEW r \in DOMAIN runs, NEW x \in Run, Moves(r, x),
         \A j \in Job : x.job[j] = "ok" => runs[r].job[j] = "ok", Made(x) => Made(runs[r]),
         x.tag = runs[r].tag, x.built = runs[r].built,
         \A j \in {"test-pypi", "pypi"} : x.job[j] = "running" =>
           x.sent = {} \/ (runs[r].job[j] = "running" /\ x.sent = runs[r].sent),
         UNCHANGED <<tags, passed, published>>
  PROVE  PublishInv'
<1>1. Grows /\ UNCHANGED <<testpypi, pypi>>
  BY DEF Grows, published, Tagged
<1>2. RunInv(x)'
  <2>1. /\ runs[r] \in Run /\ RunInv(runs[r]) /\ Ordered(runs[r])
        /\ runs[r].job["tag"] = "ok" => runs[r].tag \in Tagged
    BY DEF TypeInv, TypeOK, PublishInv
  <2>2. Files' \ Files = {}
    BY <1>1 DEF Files
  <2>. QED  BY <1>1, <2>1, <2>2, RunStays
<1>. QED  BY <1>1, <1>2, QuietStep

(* The steps of a run that build and publish nothing.                         *)
LEMMA PlainStepsKeep ==
  ASSUME TypeInv, PublishInv, NEW r \in DOMAIN runs,
         \/ Dequeue(r) \/ End(r) \/ Stop(r)
         \/ \E j \in Job : Start(r, j) \/ Fail(r, j)
  PROVE  PublishInv'
<1>0. runs[r] \in Run /\ TypeOK
  BY RunTypes
<1>1. ASSUME NEW status \in {"running", "ended"}, Moves(r, Now(r, status)),
             UNCHANGED <<tags, passed, published>>
      PROVE  PublishInv'
  <2>1. /\ Now(r, status) \in Run
        /\ Now(r, status).job = runs[r].job /\ Now(r, status).built = runs[r].built
        /\ Now(r, status).tag = runs[r].tag /\ Now(r, status).sent = runs[r].sent
    BY <1>0 DEF Run, Now
  <2>2. Made(Now(r, status)) => Made(runs[r])
    BY <2>1 DEF Made
  <2>. QED  BY <1>1, <2>1, <2>2, LosingStep
<1>2. CASE Dequeue(r) \/ End(r)
  BY <1>0, <1>1, <1>2, StepMoves DEF Dequeue, End, history
<1>3. CASE Stop(r)
  <2>1. Cut(r) \in Run /\ Moves(r, Cut(r))
    BY <1>0, <1>3, StepMoves DEF Run, Cut
  <2>2. /\ Cut(r).built = runs[r].built /\ Cut(r).tag = runs[r].tag
        /\ \A j \in Job : Cut(r).job[j] = "ok" => runs[r].job[j] = "ok"
        /\ \A j \in Job : Cut(r).job[j] # "running"
    BY <1>0 DEF Run, Cut
  <2>3. UNCHANGED <<tags, passed, published>>
    BY <1>3 DEF Stop, history
  <2>4. Made(Cut(r)) => Made(runs[r])
    BY <2>2, NeedsAre DEF Made
  <2>. QED  BY <2>1, <2>2, <2>3, <2>4, LosingStep, NeedsAre
<1>4. ASSUME NEW j \in Job, Fail(r, j)
      PROVE  PublishInv'
  <2>1. runs[r].job[j] # "ok" /\ Moves(r, Does(r, j, "failed"))
    BY <1>0, <1>4, StepMoves DEF Fail, CanStart, Uploading
  <2>2. /\ Does(r, j, "failed") \in Run /\ Does(r, j, "failed").tag = runs[r].tag
        /\ \A k \in Job : Does(r, j, "failed").job[k] =
                            IF k = j THEN "failed" ELSE runs[r].job[k]
        /\ Does(r, j, "failed").built = runs[r].built
        /\ Does(r, j, "failed").sent = runs[r].sent
    BY <2>1, DoesKeepsOrder
  <2>3. UNCHANGED <<tags, passed, published>>
    BY <1>4 DEF Fail, history
  <2>4. Made(Does(r, j, "failed")) => Made(runs[r])
    BY <2>2, NeedsAre DEF Made
  <2>. QED  BY <2>1, <2>2, <2>3, <2>4, LosingStep, NeedsAre
<1>5. ASSUME NEW j \in Job, Start(r, j)
      PROVE  PublishInv'
  <2>1. /\ runs[r].job[j] # "ok" /\ (\A n \in Needs[j] : runs[r].job[n] = "ok")
        /\ Moves(r, Sends(r, j)) /\ j # "release"
    BY <1>0, <1>5, StepMoves DEF Start, CanStart
  <2>2. /\ Does(r, j, "running") \in Run /\ Does(r, j, "running").tag = runs[r].tag
        /\ \A k \in Job : Does(r, j, "running").job[k] =
                            IF k = j THEN "running" ELSE runs[r].job[k]
        /\ Does(r, j, "running").built = runs[r].built
    BY <2>1, DoesKeepsOrder
  <2>3. /\ Sends(r, j) \in Run /\ Sends(r, j).job = Does(r, j, "running").job
        /\ Sends(r, j).tag = runs[r].tag /\ Sends(r, j).built = runs[r].built
        /\ Sends(r, j).sent = {}
    BY <2>2 DEF Sends, Run
  <2>4. UNCHANGED <<tags, passed, published>>
    BY <1>5 DEF Start, history
  <2>5. /\ \A k \in Job : Sends(r, j).job[k] = "ok" => runs[r].job[k] = "ok"
        /\ Made(Sends(r, j)) => Made(runs[r])
    BY <2>1, <2>2, <2>3, NeedsAre DEF Made
  <2>. QED  BY <2>1, <2>3, <2>4, <2>5, LosingStep
<1>. QED  BY <1>2, <1>3, <1>4, <1>5

(* Tagging: nothing was built yet.                                            *)
LEMMA TaggingKeeps ==
  ASSUME TypeInv, PublishInv, NEW r \in DOMAIN runs, KeepTag(r) \/ NewTag(r)
  PROVE  PublishInv'
<1>. USE NeedsAre
<1>0. /\ TypeOK /\ runs[r] \in Run /\ RunInv(runs[r]) /\ Ordered(runs[r])
      /\ runs[r].job["tag"] = "waiting"
  BY RunTypes DEF PublishInv, KeepTag, NewTag, CanStart
<1>1. PICK v \in Version : Moves(r, TaggedAs(r, v)) /\ Grows
  <2>1. CASE KeepTag(r)
    <3>1. Tagged # {}
      BY <2>1 DEF KeepTag, AtLatest, Latest
    <3>2. Latest \in Version
      BY <3>1, LatestIsHighest DEF Tagged
    <3>3. Grows
      BY <2>1 DEF KeepTag, Grows, history, published, Tagged
    <3>. QED  BY <1>0, <2>1, <3>2, <3>3, StepMoves
  <2>2. CASE NewTag(r)
    <3>1. PICK v \in Version \ Tagged : Moves(r, TaggedAs(r, v)) /\ Tags(r, v)
      BY <1>0, <2>2, StepMoves
    <3>2. tags \in [Version -> [commit : 0 .. MaxRuns, run : 0 .. MaxRuns,
                               attempt : 0 .. MaxReruns + 1]]
      BY <1>0 DEF TypeOK
    <3>3. Grows
      BY <2>2, <3>1, <3>2 DEF NewTag, Tags, Grows, history, published, Tagged
    <3>. QED  BY <3>1, <3>3
  <2>. QED  BY <2>1, <2>2
<1>2. /\ TaggedAs(r, v) \in Run
      /\ \A k \in Job \ {"tag"} : TaggedAs(r, v).job[k] = runs[r].job[k]
      /\ TaggedAs(r, v).built = runs[r].built
  <2>1. /\ Does(r, "tag", "ok") \in Run
        /\ \A k \in Job \ {"tag"} : Does(r, "tag", "ok").job[k] = runs[r].job[k]
        /\ Does(r, "tag", "ok").built = runs[r].built
    BY <1>0, DoesKeepsOrder
  <2>. QED  BY <2>1 DEF Run, TaggedAs
<1>3. /\ \A l \in Leg : runs[r].job[l] # "ok"
      /\ runs[r].job["test"] # "ok" /\ ~ Made(runs[r])
      /\ \A j \in {"test-pypi", "pypi"} : runs[r].job[j] \notin {"ok", "running"}
  <2>1. \A l \in Leg : runs[r].job[l] # "ok"
    BY <1>0 DEF Ordered
  <2>2. ~ Made(runs[r])
    BY <1>0 DEF Ordered, Made
  <2>3. runs[r].job["test-pypi"] \notin {"ok", "running"}
    BY <1>0, <2>2 DEF Ordered, Made
  <2>4. runs[r].job["pypi"] \notin {"ok", "running"}
    BY <1>0, <2>3 DEF Ordered
  <2>5. runs[r].job["test"] # "ok"
    BY <1>0, <2>1, PipelineAssumptions DEF Ordered, PipelineAssumptions
  <2>. QED  BY <2>1, <2>2, <2>3, <2>4, <2>5
<1>4. PICK x \in Run : x = TaggedAs(r, v)
  BY <1>2
<1>5. /\ \A l \in Leg : x.job[l] # "ok"
      /\ x.job["test"] # "ok" /\ ~ Made(x)
      /\ \A j \in {"test-pypi", "pypi"} : x.job[j] \notin {"ok", "running"}
  BY <1>2, <1>3, <1>4 DEF Made
<1>6. RunInv(x)'
  BY <1>5 DEF RunInv, BuiltTagged, TestPassed, Owns, Made, Rehearses, Publishes
<1>7. UNCHANGED <<testpypi, pypi>>
  BY DEF KeepTag, NewTag, published
<1>. QED  BY <1>1, <1>4, <1>5, <1>6, <1>7, QuietStep

(* Building: the tests have not passed yet.                                   *)
LEMMA BuildingKeeps ==
  ASSUME TypeInv, PublishInv, NEW r \in DOMAIN runs, NEW l \in Leg, BuildLeg(r, l)
  PROVE  PublishInv'
<1>. USE NeedsAre
<1>0. /\ TypeOK /\ runs[r] \in Run /\ RunInv(runs[r]) /\ Ordered(runs[r])
      /\ runs[r].job[l] = "waiting" /\ runs[r].job["tag"] = "ok"
  <2>1. TypeOK /\ runs[r] \in Run /\ RunInv(runs[r]) /\ Ordered(runs[r])
    BY RunTypes DEF PublishInv
  <2>2. runs[r].job[l] = "waiting" /\ Needs[l] = {"tag"}
        /\ \A n \in Needs[l] : runs[r].job[n] = "ok"
    BY DEF BuildLeg, CanStart
  <2>. QED  BY <2>1, <2>2
<1>1. PICK v \in NamesOf(tags[runs[r].tag].commit) : Moves(r, Built(r, l, v))
  BY <1>0, StepMoves
<1>2. /\ Does(r, l, "ok") \in Run /\ Does(r, l, "ok").tag = runs[r].tag
      /\ \A k \in Job \ {l} : Does(r, l, "ok").job[k] = runs[r].job[k]
      /\ Does(r, l, "ok").built = runs[r].built
  BY <1>0, DoesKeepsOrder
<1>3. Built(r, l, v) \in Run
  <2>1. TypeInv'
    BY StepKeepsTypes DEF Step
  <2>2. runs'[r] = Built(r, l, v) /\ DOMAIN runs' = DOMAIN runs
    BY <1>0, <1>1, LenProperties DEF TypeOK, Moves
  <2>. QED  BY <2>1, <2>2 DEF TypeInv, TypeOK
<1>4. /\ \A k \in Job \ {l} : Built(r, l, v).job[k] = runs[r].job[k]
      /\ Built(r, l, v).tag = runs[r].tag
      /\ Built(r, l, v).built[l].commit = tags[runs[r].tag].commit
      /\ Built(r, l, v).built[l].version = v
      /\ \A k \in Leg \ {l} : Built(r, l, v).built[k] = runs[r].built[k]
  BY <1>0, <1>2 DEF Built, Run
<1>5. /\ runs[r].job["test"] # "ok" /\ ~ Made(runs[r])
      /\ \A j \in {"test-pypi", "pypi"} : runs[r].job[j] \notin {"ok", "running"}
  <2>1. runs[r].job["test"] # "ok"
    BY <1>0 DEF Ordered
  <2>2. ~ Made(runs[r])
    BY <1>0, <2>1 DEF Ordered, Made
  <2>3. runs[r].job["test-pypi"] \notin {"ok", "running"}
    BY <1>0, <2>2 DEF Ordered, Made
  <2>4. runs[r].job["pypi"] \notin {"ok", "running"}
    BY <1>0, <2>3 DEF Ordered
  <2>. QED  BY <2>1, <2>2, <2>3, <2>4
<1>6. UNCHANGED <<tags, testpypi, pypi>> /\ Grows
  BY DEF BuildLeg, published, history, Grows, Tagged
<1>7. PICK x \in Run : x = Built(r, l, v)
  BY <1>3
<1>8. /\ x.job["test"] # "ok" /\ ~ Made(x)
      /\ \A j \in {"test-pypi", "pypi"} : x.job[j] \notin {"ok", "running"}
  BY <1>4, <1>5, <1>7 DEF Made
<1>9. BuiltTagged(x)'
  <2>1. BuiltTagged(x)
    BY <1>0, <1>4, <1>7 DEF RunInv, BuiltTagged
  <2>. QED  BY <1>6, <2>1 DEF BuiltTagged, NamesOf, Tagged
<1>10. RunInv(x)'
  BY <1>8, <1>9 DEF RunInv, TestPassed, Owns, Made, Rehearses, Publishes
<1>. QED  BY <1>1, <1>6, <1>7, <1>8, <1>10, QuietStep

(* The tests pass: what the job has seen is recorded.                         *)
LEMMA TestKeeps ==
  ASSUME TypeInv, PublishInv, NEW r \in DOMAIN runs, Test(r)
  PROVE  PublishInv'
<1>. USE NeedsAre
<1>0. /\ TypeOK /\ runs[r] \in Run /\ RunInv(runs[r])
      /\ runs[r].job["test"] # "ok" /\ \A n \in Needs["test"] : runs[r].job[n] = "ok"
  BY RunTypes DEF PublishInv, Test, CanStart
<1>1. Moves(r, Does(r, "test", "ok"))
  BY <1>0, StepMoves
<1>2. /\ Does(r, "test", "ok") \in Run /\ Does(r, "test", "ok").tag = runs[r].tag
      /\ \A k \in Job \ {"test"} : Does(r, "test", "ok").job[k] = runs[r].job[k]
      /\ Does(r, "test", "ok").built = runs[r].built
      /\ Does(r, "test", "ok").sent = runs[r].sent
  BY <1>0, DoesKeepsOrder
<1>3. PICK x \in Run : x = Does(r, "test", "ok")
  BY <1>2
<1>4. /\ UNCHANGED <<tags, releases, testpypi, pypi>> /\ passed' = passed \cup {Seen(runs[r])}
      /\ Grows
  BY DEF Test, published, Grows, Tagged
<1>5. BuiltTagged(x)' /\ TestPassed(x)'
  BY <1>0, <1>2, <1>3, <1>4 DEF RunInv, BuiltTagged, TestPassed, NamesOf, Tagged, Seen
<1>6. Owns(x)' /\ (Made(x) => Made(runs[r]))
  BY <1>0, <1>2, <1>3, <1>4 DEF RunInv, Owns, Made, Sole, Tagged, Files
<1>7. Rehearses(x)' /\ Publishes(x)'
  BY <1>0, <1>2, <1>3, <1>4 DEF RunInv, Rehearses, Publishes, FileOf
<1>8. RunInv(x)'
  BY <1>5, <1>6, <1>7 DEF RunInv
<1>. QED  BY <1>1, <1>2, <1>3, <1>4, <1>6, <1>8, QuietStep

(* The release is made: its tag had none, so no file is of it, unless its     *)
(* commit has another tag.                                                    *)
LEMMA ReleaseKeeps ==
  ASSUME TypeInv, PublishInv, NEW r \in DOMAIN runs, Release(r)
  PROVE  PublishInv'
<1>. USE NeedsAre
<1>0. /\ TypeOK /\ runs[r] \in Run /\ RunInv(runs[r])
      /\ runs[r].job["release"] # "ok" /\ \A n \in Needs["release"] : runs[r].job[n] = "ok"
  BY RunTypes DEF PublishInv, Release, CanStart
<1>1. Moves(r, Does(r, "release", "running"))
  BY <1>0, StepMoves
<1>2. /\ Does(r, "release", "running") \in Run
      /\ Does(r, "release", "running").tag = runs[r].tag
      /\ \A k \in Job \ {"release"} : Does(r, "release", "running").job[k] = runs[r].job[k]
      /\ Does(r, "release", "running").built = runs[r].built
      /\ Does(r, "release", "running").sent = runs[r].sent
  BY <1>0, DoesKeepsOrder
<1>3. PICK x \in Run : x = Does(r, "release", "running")
  BY <1>2
<1>4. /\ UNCHANGED <<tags, passed, testpypi, pypi>> /\ releases' = releases \cup {x.tag}
      /\ x.tag \notin releases /\ Grows
  BY <1>2, <1>3 DEF Release, history, Grows, Tagged
<1>5. BuiltTagged(x)' /\ TestPassed(x)'
  BY <1>0, <1>2, <1>3, <1>4 DEF RunInv, BuiltTagged, TestPassed, NamesOf, Tagged, Seen
<1>6. Owns(x)'
  <2>1. \A f \in Files : Sole(f.version) => f.version # x.tag
    BY <1>4 DEF PublishInv, FilesReleased
  <2>. QED  BY <1>4, <2>1 DEF Owns, Sole, Tagged, Files
<1>7. Rehearses(x)' /\ Publishes(x)'
  BY <1>0, <1>2, <1>3, <1>4 DEF RunInv, Rehearses, Publishes, FileOf
<1>8. RunInv(x)'
  BY <1>5, <1>6, <1>7 DEF RunInv
<1>. QED  BY <1>1, <1>3, <1>4, <1>8, QuietStep

(* The release has its assets, or an upload has sent all.                     *)
LEMMA UploadedKeeps ==
  ASSUME TypeInv, PublishInv, NEW r \in DOMAIN runs, NEW j \in Job, Uploaded(r, j)
  PROVE  PublishInv'
<1>. USE NeedsAre
<1>0. /\ TypeOK /\ runs[r] \in Run /\ RunInv(runs[r]) /\ Ordered(runs[r])
      /\ runs[r].job[j] = "running" /\ j \in Publishing
      /\ j # "release" => runs[r].sent = Wheel
  BY RunTypes DEF PublishInv, Uploaded, Uploading
<1>1. Moves(r, Does(r, j, "ok")) /\ \A n \in Needs[j] : runs[r].job[n] = "ok"
  BY <1>0, StepMoves DEF Ordered
<1>2. /\ Does(r, j, "ok") \in Run /\ Does(r, j, "ok").tag = runs[r].tag
      /\ \A k \in Job : Does(r, j, "ok").job[k] = IF k = j THEN "ok" ELSE runs[r].job[k]
      /\ Does(r, j, "ok").built = runs[r].built
      /\ Does(r, j, "ok").sent = runs[r].sent
  BY <1>0, <1>1, DoesKeepsOrder
<1>3. PICK x \in Run : x = Does(r, j, "ok")
  BY <1>2
<1>4. UNCHANGED <<tags, passed, releases, testpypi, pypi>> /\ Grows
  BY DEF Uploaded, published, history, Grows, Tagged
<1>5. BuiltTagged(x)' /\ TestPassed(x)'
  <2>1. j \notin Leg /\ j # "test"
    BY <1>0 DEF Publishing
  <2>2. /\ x.tag = runs[r].tag /\ x.built = runs[r].built
        /\ \A k \in Leg \cup {"test"} : x.job[k] = runs[r].job[k]
    BY <1>2, <1>3, <2>1
  <2>3. BuiltTagged(x)'
    BY <1>0, <1>4, <2>2 DEF RunInv, BuiltTagged, NamesOf, Tagged
  <2>4. TestPassed(x)'
    BY <1>0, <1>4, <2>2 DEF RunInv, TestPassed, Seen
  <2>. QED  BY <2>3, <2>4
<1>6. Owns(x)' /\ (Made(x) => Made(runs[r]))
  BY <1>0, <1>2, <1>3, <1>4 DEF RunInv, Owns, Made, Sole, Tagged, Files
<1>7. Rehearses(x)' /\ Publishes(x)'
  BY <1>0, <1>2, <1>3, <1>4 DEF RunInv, Rehearses, Publishes, FileOf
<1>8. RunInv(x)'
  BY <1>5, <1>6, <1>7 DEF RunInv
<1>. QED  BY <1>1, <1>2, <1>3, <1>4, <1>6, <1>8, QuietStep

(* What a run publishes: builds of the commit that its tag names; if the      *)
(* version of a file is the commit's only tag, it is the run's.               *)
LEMMA RunPublishes ==
  ASSUME TypeInv, PublishInv, NEW r \in DOMAIN runs, NEW j \in {"test-pypi", "pypi"},
         runs[r].job[j] = "running", NEW w \in Wheel
  PROVE  /\ FileOf(runs[r], w).version \in NamesOf(tags[runs[r].tag].commit)
         /\ FileOf(runs[r], w).version \in Tagged
         /\ FileOf(runs[r], w).build.commit = tags[FileOf(runs[r], w).version].commit
         /\ Sole(FileOf(runs[r], w).version) => FileOf(runs[r], w).version = runs[r].tag
         /\ FileOf(runs[r], w) \in File
         /\ runs[r].tag \in Tagged /\ runs[r].tag \in releases
         /\ Made(runs[r]) /\ Seen(runs[r]) \in passed
<1>. USE NeedsAre
<1>1. LegOf[w] \in Leg
  BY PipelineAssumptions DEF PipelineAssumptions
<1>2. /\ runs[r].tag \in Tagged /\ runs[r].job["release"] = "ok"
      /\ runs[r].job["test"] = "ok"
      /\ \A l \in Leg : runs[r].job[l] = "ok" /\ runs[r].built[l] \in Build
  BY Before
<1>3. RunInv(runs[r])
  BY DEF PublishInv
<1>4. /\ runs[r].built[LegOf[w]].version \in NamesOf(tags[runs[r].tag].commit)
      /\ runs[r].built[LegOf[w]].commit = tags[runs[r].tag].commit
      /\ runs[r].tag \in releases /\ Made(runs[r]) /\ Seen(runs[r]) \in passed
  BY <1>1, <1>2, <1>3 DEF RunInv, BuiltTagged, TestPassed, Owns, Made
<1>5. FileOf(runs[r], w) \in File
  BY <1>1, <1>2 DEF FileOf, File, Build
<1>. QED  BY <1>2, <1>4, <1>5 DEF FileOf, NamesOf, Sole

(* A file goes to an index: the run has its release, was tested, and is the   *)
(* only one of its version.                                                   *)
LEMMA UploadKeeps ==
  ASSUME TypeInv, PublishInv, NEW r \in DOMAIN runs, NEW w \in Wheel,
         UploadTestPypi(r, w) \/ UploadPypi(r, w)
  PROVE  PublishInv'
<1>. USE NeedsAre
<1>0. /\ TypeOK /\ runs[r] \in Run /\ RunInv(runs[r]) /\ Ordered(runs[r])
  BY RunTypes DEF PublishInv
<1>1. PICK file : file = FileOf(runs[r], w)
  OBVIOUS
<1>2. PICK j \in {"test-pypi", "pypi"} :
        /\ runs[r].job[j] = "running"
        /\ j = "test-pypi" => testpypi' = testpypi \cup {file} /\ pypi' = pypi
        /\ j = "pypi" => pypi' = pypi \cup {file} /\ testpypi' = testpypi
  BY <1>1 DEF UploadTestPypi, UploadPypi, Upload, Uploading
<1>3. /\ file.version \in NamesOf(tags[runs[r].tag].commit) /\ file.version \in Tagged
      /\ file.build.commit = tags[file.version].commit /\ file \in File
      /\ Sole(file.version) => file.version = runs[r].tag
      /\ runs[r].tag \in Tagged /\ runs[r].tag \in releases
      /\ Made(runs[r]) /\ Seen(runs[r]) \in passed
      /\ file.wheel = w /\ file.build = runs[r].built[LegOf[w]]
  BY <1>1, <1>2, RunPublishes DEF FileOf
<1>4. UNCHANGED <<tags, releases, passed>> /\ Grows /\ Files' = Files \cup {file}
  BY <1>2 DEF UploadTestPypi, UploadPypi, history, Grows, Tagged, Files
<1>5. /\ Sent(r, w) \in Run /\ Sent(r, w).job = runs[r].job
      /\ Sent(r, w).tag = runs[r].tag /\ Sent(r, w).built = runs[r].built
      /\ Sent(r, w).sent = runs[r].sent \cup {w} /\ Moves(r, Sent(r, w))
  BY <1>0, StepMoves DEF Sent, Run
<1>6. PICK x \in Run : x = Sent(r, w)
  BY <1>5
<1>7. Sole(file.version)' <=> Sole(file.version)
  BY <1>4 DEF Sole, Tagged
<1>8. RunInv(x)'
  <2>1. BuiltTagged(x)' /\ TestPassed(x)'
    BY <1>0, <1>4, <1>5, <1>6 DEF RunInv, BuiltTagged, TestPassed, NamesOf, Tagged, Seen
  <2>2. Owns(x)'
    <3>1. \A v : Sole(v)' <=> Sole(v)
      BY <1>4 DEF Sole, Tagged
    <3>2. Made(x) => Made(runs[r])
      BY <1>5, <1>6 DEF Made
    <3>. QED  BY <1>0, <1>3, <1>4, <1>5, <1>6, <3>1, <3>2 DEF RunInv, Owns, Made
  <2>3. \A u : FileOf(x, u) = FileOf(runs[r], u)
    BY <1>5, <1>6 DEF FileOf
  <2>4. x.sent = runs[r].sent \cup {w} /\ x.job = runs[r].job /\ FileOf(x, w) = file
    BY <1>1, <1>5, <1>6, <2>3
  <2>5. j = "pypi" => runs[r].job["test-pypi"] = "ok"
    BY <1>2, Before
  <2>6. j = "test-pypi" => runs[r].job["pypi"] \notin {"running", "ok"}
    BY <1>0, <1>2 DEF Ordered
  <2>7. Rehearses(x)'
    BY <1>0, <1>2, <1>4, <2>3, <2>4, <2>5 DEF RunInv, Rehearses, FileOf, Grows
  <2>8. Publishes(x)'
    BY <1>0, <1>2, <1>4, <2>3, <2>4, <2>6 DEF RunInv, Publishes, FileOf, Grows
  <2>. QED  BY <2>1, <2>2, <2>7, <2>8 DEF RunInv
<1>9. (\A q \in DOMAIN runs : RunInv(runs[q]))' /\ OneOwner'
  <2>1. \A f \in Files' \ Files :
          Made(runs[r]) /\ (Sole(f.version)' => f.version = runs[r].tag)
    BY <1>3, <1>4, <1>7
  <2>2. Made(x) => Made(runs[r]) /\ x.tag = runs[r].tag
    BY <1>5, <1>6 DEF Made
  <2>. QED  BY <1>4, <1>5, <1>6, <1>8, <2>1, <2>2, OthersStay
<1>10. FilesReleased'
  BY <1>3, <1>4, <1>7, SoleBefore DEF PublishInv, FilesReleased, Grows
<1>11. CodeIsTagged'
  BY <1>3, <1>4 DEF PublishInv, CodeIsTagged, Files
<1>12. TestedTogether'
  <2>. SUFFICES ASSUME NEW v \in Tagged, Sole(v), {f \in Files' : f.version = v} # {}
                PROVE  \E set \in passed : \A f \in {g \in Files' : g.version = v} :
                         \/ LegOf[f.wheel] \in Tested /\ f.build = set.installed[LegOf[f.wheel]]
                         \/ LegOf[f.wheel] \notin Tested /\ f.build = set.left[LegOf[f.wheel]]
    <3>1. Tagged' = Tagged /\ \A v : Sole(v)' <=> Sole(v)
      BY <1>4 DEF Sole, Tagged
    <3>. QED  BY <1>4, <3>1 DEF TestedTogether, Files
  <2>1. CASE v = file.version
    <3>1. v = runs[r].tag
      BY <1>3, <2>1
    <3>2. ASSUME NEW f \in Files', f.version = v
          PROVE  f.build = runs[r].built[LegOf[f.wheel]] /\ LegOf[f.wheel] \in Leg
      <4>1. f \in File
        BY <1>0, <1>3, <1>4 DEF TypeOK, Files
      <4>2. LegOf[f.wheel] \in Leg
        BY <4>1, PipelineAssumptions DEF PipelineAssumptions, File
      <4>. QED  BY <1>0, <1>3, <1>4, <3>1, <3>2, <4>2 DEF RunInv, Owns
    <3>3. \A l \in Leg : /\ l \in Tested => Seen(runs[r]).installed[l] = runs[r].built[l]
                         /\ l \notin Tested => Seen(runs[r]).left[l] = runs[r].built[l]
      BY DEF Seen
    <3>4. PICK set \in passed : set = Seen(runs[r])
      BY <1>3
    <3>5. \A f \in {g \in Files' : g.version = v} :
            \/ LegOf[f.wheel] \in Tested /\ f.build = set.installed[LegOf[f.wheel]]
            \/ LegOf[f.wheel] \notin Tested /\ f.build = set.left[LegOf[f.wheel]]
      BY <3>2, <3>3, <3>4
    <3>. QED  BY <3>5
  <2>2. CASE v # file.version
    <3>1. {f \in Files' : f.version = v} = {f \in Files : f.version = v}
      BY <1>4, <2>2
    <3>. QED  BY <3>1 DEF PublishInv, TestedTogether, Files
  <2>. QED  BY <2>1, <2>2
<1>13. RehearsedFirst'
  <2>1. ASSUME j = "pypi"
        PROVE  /\ file \in testpypi
               /\ Sole(file.version) =>
                    \A u \in Wheel : \E g \in testpypi : g.version = file.version /\ g.wheel = u
    <3>1. runs[r].job["test-pypi"] = "ok"
      BY <1>2, <2>1, Before
    <3>2. \A u \in Wheel : FileOf(runs[r], u) \in testpypi
      BY <1>0, <3>1 DEF RunInv, Rehearses
    <3>3. ASSUME Sole(file.version), NEW u \in Wheel
          PROVE  \E g \in testpypi : g.version = file.version /\ g.wheel = u
      <4>1. FileOf(runs[r], u).version \in NamesOf(tags[runs[r].tag].commit)
        BY <1>2, RunPublishes
      <4>2. FileOf(runs[r], u).version = file.version
        BY <1>3, <3>3, <4>1 DEF NamesOf, Sole
      <4>. QED  BY <3>2, <4>2 DEF FileOf
    <3>. QED  BY <1>1, <3>2, <3>3
  <2>2. \A v : Sole(v)' <=> Sole(v)
    BY <1>4 DEF Sole, Tagged
  <2>. QED  BY <1>2, <1>3, <1>4, <2>1, <2>2 DEF PublishInv, RehearsedFirst, Grows
<1>. QED  BY <1>9, <1>10, <1>11, <1>12, <1>13 DEF PublishInv

(* An event takes jobs from no run but the one that is run again.             *)
LEMMA EventKeeps ==
  ASSUME TypeInv, PublishInv,
         \/ \E v \in Asked : Push(v)
         \/ Schedule
         \/ \E r \in DOMAIN runs : \E keep \in SUBSET Job : Rerun(r, keep)
  PROVE  PublishInv'
<1>. USE NeedsAre
<1>0. /\ TypeOK /\ Bounds /\ Len(commits) \in Nat
      /\ \A q \in DOMAIN runs : runs[q] \in Run /\ RunInv(runs[q]) /\ Ordered(runs[q])
      /\ \A q \in DOMAIN runs : runs[q].job["tag"] = "ok" => runs[q].tag \in Tagged
  <2>1. \A q \in DOMAIN runs : RunInv(runs[q])
    BY DEF PublishInv
  <2>2. Bounds /\ commits \in Seq(Asked)
    BY DEF TypeInv, TypeOK
  <2>. QED  BY <2>1, <2>2, RunTypes, LenProperties DEF TypeInv
<1>1. Grows /\ UNCHANGED <<tags, published, passed>>
  BY DEF Push, Schedule, Rerun, published, Grows, Tagged
<1>2. ASSUME NEW q \in DOMAIN runs, NEW y \in Run, y.tag = runs[q].tag, y.built = runs[q].built,
             \A j \in Job : y.job[j] = "ok" => runs[q].job[j] = "ok",
             Made(y) => Made(runs[q]),
             \A j \in {"test-pypi", "pypi"} : y.job[j] = "running" =>
               runs[q].job[j] = "running" /\ y.sent = runs[q].sent
      PROVE  RunInv(y)'
  <2>1. Files' \ Files = {}
    BY <1>1 DEF published, Files
  <2>. QED  BY <1>0, <1>1, <1>2, <2>1, RunStays DEF Grows
<1>3. ASSUME NEW q \in DOMAIN runs, NEW r
      PROVE  /\ Superseded(r, q) \in Run
             /\ Superseded(r, q).job = runs[q].job /\ Superseded(r, q).tag = runs[q].tag
             /\ Superseded(r, q).built = runs[q].built /\ Superseded(r, q).sent = runs[q].sent
  BY <1>0, SupersededKeeps
<1>4. \A q \in DOMAIN runs' :
        \/ \A j \in Job : runs'[q].job[j] = "waiting"
        \/ /\ q \in DOMAIN runs /\ runs'[q] \in Run
           /\ runs'[q].tag = runs[q].tag /\ runs'[q].built = runs[q].built
           /\ \A j \in Job : runs'[q].job[j] = "ok" => runs[q].job[j] = "ok"
           /\ Made(runs'[q]) => Made(runs[q])
           /\ \A j \in {"test-pypi", "pypi"} : runs'[q].job[j] = "running" =>
                runs[q].job[j] = "running" /\ runs'[q].sent = runs[q].sent
  <2>1. CASE (\E v \in Asked : Push(v)) \/ Schedule
    <3>1. PICK event \in {"push", "schedule"}, c \in 1 .. MaxRuns :
            runs' = Fresh(event, c) /\ Len(runs) < MaxRuns
      <4>1. Len(commits) + 1 <= MaxRuns \/ Len(runs) >= MaxRuns
        BY <1>0, LenProperties, PipelineAssumptions DEF Bounds, TypeOK, PipelineAssumptions
      <4>2. Len(runs) < MaxRuns /\ (Len(runs) \in Nat) /\ MaxRuns \in Nat
        BY <1>0, <2>1, LenProperties, PipelineAssumptions
           DEF Push, Schedule, TypeOK, PipelineAssumptions
      <4>3. \/ runs' = Fresh("push", Len(commits) + 1)
            \/ runs' = Fresh("schedule", Len(commits)) /\ Len(commits) > 0
        BY <2>1 DEF Push, Schedule
      <4>. QED  BY <1>0, <4>1, <4>2, <4>3
    <3>2. /\ DOMAIN runs' = DOMAIN runs \cup {Len(runs) + 1}
          /\ \A q \in DOMAIN runs : runs'[q] = Superseded(Len(runs) + 1, q)
          /\ \A j \in Job : runs'[Len(runs) + 1].job[j] = "waiting"
      BY <3>1, EventAdds
    <3>. QED  BY <1>3, <3>2 DEF Made
  <2>2. ASSUME NEW r \in DOMAIN runs, NEW keep \in SUBSET Job, Rerun(r, keep),
               NEW q \in DOMAIN runs'
        PROVE  /\ q \in DOMAIN runs /\ runs'[q] \in Run
               /\ runs'[q].tag = runs[q].tag /\ runs'[q].built = runs[q].built
               /\ \A j \in Job : runs'[q].job[j] = "ok" => runs[q].job[j] = "ok"
               /\ Made(runs'[q]) => Made(runs[q])
               /\ \A j \in {"test-pypi", "pypi"} : runs'[q].job[j] = "running" =>
                    runs[q].job[j] = "running" /\ runs'[q].sent = runs[q].sent
    <3>0. q \in DOMAIN runs /\ runs'[q] \in Run
      <4>1. TypeInv'
        BY <2>2, EventKeepsTypes
      <4>2. DOMAIN runs' = DOMAIN runs
        BY <2>2 DEF Rerun
      <4>3. \A p \in DOMAIN runs' : runs'[p] \in Run
        BY <4>1 DEF TypeInv, TypeOK
      <4>. QED  BY <2>2, <4>2, <4>3
    <3>1. CASE q # r
      <4>1. runs'[q] = Superseded(r, q)
        BY <2>2, <3>0, <3>1 DEF Rerun
      <4>. QED  BY <1>3, <3>0, <4>1 DEF Made
    <3>2. CASE q = r
      <4>1. runs'[q] = [runs[r] EXCEPT
                          !.status = Entry(r), !.attempt = reruns + 2,
                          !.job = [j \in Job |-> IF j \in keep THEN "ok" ELSE "waiting"]]
        BY <2>2, <3>0, <3>2 DEF Rerun
      <4>2. /\ runs'[q].tag = runs[q].tag /\ runs'[q].built = runs[q].built
            /\ \A j \in Job : runs'[q].job[j] = IF j \in keep THEN "ok" ELSE "waiting"
        BY <1>0, <3>2, <4>1 DEF Run
      <4>3. \A j \in keep : runs[r].job[j] = "ok"
        BY <2>2 DEF Rerun
      <4>. QED  BY <3>0, <3>2, <4>2, <4>3 DEF Made
    <3>. QED  BY <3>1, <3>2
  <2>. QED  BY <2>1, <2>2
<1>5. ASSUME NEW q \in DOMAIN runs'
      PROVE  RunInv(runs[q])'
  <2>1. CASE \A j \in Job : runs'[q].job[j] = "waiting"
    BY <2>1 DEF RunInv, BuiltTagged, TestPassed, Owns, Made, Rehearses, Publishes
  <2>2. CASE ~ \A j \in Job : runs'[q].job[j] = "waiting"
    <3>1. PICK y : y = runs'[q]
      OBVIOUS
    <3>2. RunInv(y)'
      BY <1>2, <1>4, <2>2, <3>1
    <3>. QED  BY <3>1, <3>2
              DEF RunInv, BuiltTagged, TestPassed, Owns, Made, Rehearses, Publishes, FileOf, Seen
  <2>. QED  BY <2>1, <2>2
<1>6. OneOwner'
  BY <1>4 DEF PublishInv, OneOwner, Made
<1>. QED  BY <1>1, <1>5, <1>6, FilesStay DEF PublishInv, published

(* PublishInv is an invariant.                                                *)
THEOREM PublishInvariant == Spec => []PublishInv
<1>1. Init => PublishInv
  BY DEF Init, PublishInv, OneOwner, FilesReleased, TestedTogether, CodeIsTagged,
         RehearsedFirst, Files
<1>2. TypeInv /\ PublishInv /\ [Next]_vars => PublishInv'
  <2>1. ASSUME TypeInv, PublishInv, NEW r \in DOMAIN runs, Step(r)
        PROVE  PublishInv'
    BY <2>1, PlainStepsKeep, TaggingKeeps, BuildingKeeps, TestKeeps, ReleaseKeeps,
       UploadedKeeps, UploadKeeps
       DEF Step
  <2>2. ASSUME PublishInv, UNCHANGED vars
        PROVE  PublishInv'
    <3>1. /\ UNCHANGED <<runs, tags, releases, testpypi, pypi, passed>>
          /\ Grows
      BY <2>2 DEF vars, Grows, Tagged
    <3>2. \A v : Sole(v)' <=> Sole(v)
      BY <3>1 DEF Sole, Tagged
    <3>3. (\A r \in DOMAIN runs : RunInv(runs[r]))'
      <4>1. (\A r \in DOMAIN runs : BuiltTagged(runs[r]) /\ TestPassed(runs[r]))'
        BY <2>2, <3>1 DEF PublishInv, RunInv, BuiltTagged, TestPassed, NamesOf, Tagged, Seen
      <4>2. (\A r \in DOMAIN runs : Owns(runs[r]))'
        BY <2>2, <3>1, <3>2 DEF PublishInv, RunInv, Owns, Made, Files
      <4>3. (\A r \in DOMAIN runs : Rehearses(runs[r]) /\ Publishes(runs[r]))'
        BY <2>2, <3>1 DEF PublishInv, RunInv, Rehearses, Publishes, FileOf
      <4>. QED  BY <4>1, <4>2, <4>3 DEF RunInv
    <3>4. OneOwner'
      BY <2>2, <3>1 DEF PublishInv, OneOwner, Made
    <3>. QED  BY <2>2, <3>1, <3>3, <3>4, FilesStay DEF PublishInv
  <2>. QED  BY <2>1, <2>2, EventKeeps DEF Next
<1>. QED  BY <1>1, <1>2, PipelineTypeInvariant, PTL DEF Spec

(* The files of a version are the artifacts of one build that was tested.     *)
THEOREM PublishesWhatWasTested == Spec => []TestedTogether
<1>1. PublishInv => TestedTogether
  BY DEF PublishInv
<1>. QED  BY <1>1, PublishInvariant, PTL

(* They hold the code that the version tags.                                  *)
THEOREM PublishesTaggedCode == Spec => []CodeIsTagged
<1>1. PublishInv => CodeIsTagged
  BY DEF PublishInv
<1>. QED  BY <1>1, PublishInvariant, PTL

(* PyPI gets what Test PyPI has whole.                                        *)
THEOREM PublishesAfterRehearsal == Spec => []RehearsedFirst
<1>1. PublishInv => RehearsedFirst
  BY DEF PublishInv
<1>. QED  BY <1>1, PublishInvariant, PTL

------------------------------------------------------------------------------
(* Pushes *)

(* No job of a run that has ended goes on, or could start.                    *)
Done(x) ==
  \A j \in Job :
    /\ x.job[j] # "running"
    /\ ~ (x.job[j] = "waiting" /\ (\A n \in Needs[j] : x.job[n] = "ok")
          /\ (j \in Publishing => x.event = "push"))

(* A run is stopped by a later event only, which takes its turn.              *)
TurnInv ==
  \A r \in DOMAIN runs \ lost :
    runs[r].status # "cancelling" /\ (runs[r].status = "ended" => Done(runs[r]))

(* A step of run r: it ends when nothing is left, or stops after an event.    *)
LEMMA StepKeepsTurn ==
  ASSUME TypeInv, TurnInv, NEW r \in DOMAIN runs, Step(r)
  PROVE  TurnInv'
<1>0. TypeOK /\ runs \in Seq(Run) /\ runs[r] \in Run
  BY RunTypes DEF TypeOK
<1>1. UNCHANGED lost
  BY DEF Step, Dequeue, Stop, End, KeepTag, NewTag, Test, Release, BuildLeg, Start, Fail,
         Uploaded, UploadTestPypi, UploadPypi, history
<1>2. ASSUME NEW x, Moves(r, x),
             r \in lost \/ (x.status # "cancelling" /\ (x.status = "ended" => Done(x)))
      PROVE  TurnInv'
  <2>1. /\ DOMAIN runs' = DOMAIN runs /\ runs'[r] = x
        /\ \A q \in DOMAIN runs \ {r} : runs'[q] = runs[q]
    BY <1>0, <1>2 DEF Moves
  <2>2. \A q \in DOMAIN runs' \ lost :
          runs'[q].status # "cancelling" /\ (runs'[q].status = "ended" => Done(runs'[q]))
    BY <1>2, <2>1 DEF TurnInv
  <2>. QED  BY <1>1, <2>2 DEF TurnInv, Done
<1>3. ASSUME NEW x, Moves(r, x), x.status = runs[r].status,
             runs[r].status \in {"running", "cancelling"}
      PROVE  TurnInv'
  BY <1>2, <1>3 DEF TurnInv
<1>4. ASSUME NEW j \in Job, NEW s
      PROVE  /\ Does(r, j, s).status = runs[r].status
             /\ Sends(r, j).status = runs[r].status
  BY <1>0 DEF Run, Does, Sends
<1>5. /\ \A v : TaggedAs(r, v).status = runs[r].status
      /\ \A l, v : Built(r, l, v).status = runs[r].status
      /\ \A w : Sent(r, w).status = runs[r].status
  BY <1>0 DEF Run, TaggedAs, Built, Sent, Does
<1>6. /\ Now(r, "running").status = "running"
      /\ Now(r, "ended").job = runs[r].job /\ Now(r, "ended").event = runs[r].event
      /\ Now(r, "ended").status = "ended"
  BY <1>0 DEF Run, Now
<1>7. CASE Dequeue(r)
  BY <1>0, <1>2, <1>6, <1>7, StepMoves
<1>8. CASE End(r)
  <2>1. Done(Now(r, "ended"))
    BY <1>6, <1>8 DEF End, CanStart, Done
  <2>. QED  BY <1>0, <1>2, <1>6, <1>8, <2>1, StepMoves
<1>9. CASE Stop(r)
  <2>1. r \in lost
    BY <1>9 DEF Stop, TurnInv
  <2>. QED  BY <1>0, <1>2, <1>9, <2>1, StepMoves
<1>10. CASE KeepTag(r) \/ NewTag(r) \/ Test(r) \/ Release(r)
  <2>1. runs[r].status = "running"
    BY <1>10 DEF KeepTag, NewTag, Test, Release, CanStart
  <2>2. PICK x : Moves(r, x) /\ x.status = runs[r].status
    BY <1>0, <1>4, <1>5, <1>10, StepMoves, NeedsAre
  <2>. QED  BY <1>3, <2>1, <2>2
<1>11. ASSUME NEW l \in Leg, BuildLeg(r, l)
       PROVE  TurnInv'
  <2>1. runs[r].status = "running"
    BY <1>11 DEF BuildLeg, CanStart
  <2>2. PICK v : Moves(r, Built(r, l, v))
    BY <1>0, <1>11, StepMoves
  <2>. QED  BY <1>3, <1>5, <2>1, <2>2
<1>12. ASSUME NEW j \in Job, Start(r, j) \/ Fail(r, j) \/ Uploaded(r, j)
       PROVE  TurnInv'
  <2>1. runs[r].status \in {"running", "cancelling"}
    BY <1>12 DEF Start, Fail, Uploaded, CanStart, Uploading
  <2>2. PICK x : Moves(r, x) /\ x.status = runs[r].status
    BY <1>0, <1>4, <1>12, StepMoves
  <2>. QED  BY <1>3, <2>1, <2>2
<1>13. ASSUME NEW w \in Wheel, UploadTestPypi(r, w) \/ UploadPypi(r, w)
       PROVE  TurnInv'
  <2>1. runs[r].status \in {"running", "cancelling"}
    BY <1>13 DEF UploadTestPypi, UploadPypi, Upload, Uploading
  <2>. QED  BY <1>0, <1>3, <1>5, <1>13, <2>1, StepMoves
<1>. QED  BY <1>7, <1>8, <1>9, <1>10, <1>11, <1>12, <1>13 DEF Step

(* An event: the runs that it tells to stop, or never lets start, are lost.   *)
LEMMA EventKeepsTurn ==
  ASSUME TypeInv, TurnInv,
         \/ \E v \in Asked : Push(v)
         \/ Schedule
         \/ \E r \in DOMAIN runs : \E keep \in SUBSET Job : Rerun(r, keep)
  PROVE  TurnInv'
<1>0. /\ TypeOK /\ Bounds /\ Len(runs) \in Nat /\ Len(commits) \in Nat /\ MaxRuns \in Nat
      /\ \A q \in DOMAIN runs : runs[q] \in Run
  <2>1. TypeOK /\ Bounds /\ commits \in Seq(Asked) /\ runs \in Seq(Run)
    BY DEF TypeInv, TypeOK
  <2>. QED  BY <2>1, LenProperties, RunTypes, PipelineAssumptions DEF PipelineAssumptions
<1>1. \A r : Entry(r) \in {"running", "pending"}
  BY DEF Entry
<1>2. ASSUME NEW q \in DOMAIN runs' \ lost',
             \/ runs'[q].status \in {"running", "pending"}
             \/ q \in DOMAIN runs /\ q \notin lost /\ runs'[q] = runs[q]
      PROVE  runs'[q].status # "cancelling" /\ (runs'[q].status = "ended" => Done(runs'[q]))
  BY <1>2 DEF TurnInv
<1>3. ASSUME NEW event \in {"push", "schedule"}, NEW c \in 1 .. MaxRuns,
             runs' = Fresh(event, c), Len(runs) < MaxRuns,
             lost' = lost \cup Replaced(Len(runs) + 1), NEW q \in DOMAIN runs' \ lost'
      PROVE  \/ runs'[q].status \in {"running", "pending"}
             \/ q \in DOMAIN runs /\ q \notin lost /\ runs'[q] = runs[q]
  BY <1>1, <1>3, EventAdds DEF Replaced
<1>4. ASSUME NEW r \in DOMAIN runs, NEW keep \in SUBSET Job, Rerun(r, keep),
             NEW q \in DOMAIN runs' \ lost'
      PROVE  \/ runs'[q].status \in {"running", "pending"}
             \/ q \in DOMAIN runs /\ q \notin lost /\ runs'[q] = runs[q]
  <2>1. CASE q = r
    <3>1. runs'[r] = [runs[r] EXCEPT
                        !.status = Entry(r), !.attempt = reruns + 2,
                        !.job = [j \in Job |-> IF j \in keep THEN "ok" ELSE "waiting"]]
      BY <1>4 DEF Rerun
    <3>2. runs'[r].status = Entry(r)
      BY <1>0, <3>1 DEF Run
    <3>. QED  BY <1>1, <2>1, <3>2
  <2>2. CASE q # r
    <3>1. /\ q \in DOMAIN runs /\ runs'[q] = Superseded(r, q)
          /\ q \notin lost /\ q \notin Replaced(r)
      BY <1>4, <2>2 DEF Rerun
    <3>. QED  BY <3>1 DEF Replaced
  <2>. QED  BY <2>1, <2>2
<1>5. ASSUME NEW v \in Asked, Push(v), NEW q \in DOMAIN runs' \ lost'
      PROVE  \/ runs'[q].status \in {"running", "pending"}
             \/ q \in DOMAIN runs /\ q \notin lost /\ runs'[q] = runs[q]
  <2>1. Len(commits) + 1 \in 1 .. MaxRuns
    BY <1>0, <1>5 DEF Push, Bounds
  <2>2. runs' = Fresh("push", Len(commits) + 1) /\ Len(runs) < MaxRuns
        /\ lost' = lost \cup Replaced(Len(runs) + 1)
    BY <1>5 DEF Push
  <2>. QED  BY <1>3, <1>5, <2>1, <2>2
<1>6. ASSUME Schedule, NEW q \in DOMAIN runs' \ lost'
      PROVE  \/ runs'[q].status \in {"running", "pending"}
             \/ q \in DOMAIN runs /\ q \notin lost /\ runs'[q] = runs[q]
  <2>1. Len(commits) \in 1 .. MaxRuns
    BY <1>0, <1>6 DEF Schedule, Bounds
  <2>2. runs' = Fresh("schedule", Len(commits)) /\ Len(runs) < MaxRuns
        /\ lost' = lost \cup Replaced(Len(runs) + 1)
    BY <1>6 DEF Schedule
  <2>. QED  BY <1>3, <1>6, <2>1, <2>2
<1>7. \A q \in DOMAIN runs' \ lost' :
        runs'[q].status # "cancelling" /\ (runs'[q].status = "ended" => Done(runs'[q]))
  BY <1>2, <1>4, <1>5, <1>6
<1>. QED  BY <1>7 DEF TurnInv, Done

THEOREM TurnInvariant == Spec => []TurnInv
<1>1. Init => TurnInv
  BY DEF Init, TurnInv
<1>2. TypeInv /\ TurnInv /\ [Next]_vars => TurnInv'
  <2>1. ASSUME TurnInv, UNCHANGED vars
        PROVE  TurnInv'
    BY <2>1 DEF vars, TurnInv, Done
  <2>. QED  BY <2>1, StepKeepsTurn, EventKeepsTurn DEF Next
<1>. QED  BY <1>1, <1>2, PipelineTypeInvariant, PTL DEF Spec

(* A push is published, unless a job fails or a later event takes its turn.   *)
THEOREM PushesArePublished == Spec => []PushIsPublished
<1>. USE NeedsAre
<1>1. TypeInv /\ PublishInv /\ TurnInv => PushIsPublished
  <2>. SUFFICES ASSUME TypeInv, PublishInv, TurnInv, NEW r \in DOMAIN runs \ lost,
                       runs[r].event = "push", runs[r].status = "ended",
                       \A j \in Job : runs[r].job[j] # "failed"
                PROVE  /\ runs[r].tag \in releases
                       /\ \A w \in Wheel : FileOf(runs[r], w) \in testpypi \cap pypi
    BY DEF PushIsPublished
  <2>1. \A j \in Job : (\A n \in Needs[j] : runs[r].job[n] = "ok") => runs[r].job[j] = "ok"
    <3>1. runs[r] \in Run /\ Done(runs[r])
      BY RunTypes DEF TurnInv
    <3>2. \A j \in Job : runs[r].job[j] \in {"waiting", "running", "ok", "failed"}
      BY <3>1 DEF Run
    <3>. QED  BY <3>1, <3>2 DEF Done
  <2>2. \A l \in Leg : runs[r].job[l] = "ok"
    BY <2>1
  <2>3. runs[r].job["test"] = "ok"
    BY <2>1, <2>2
  <2>4. runs[r].job["release"] = "ok"
    BY <2>1, <2>3
  <2>5. runs[r].job["test-pypi"] = "ok"
    BY <2>1, <2>4
  <2>6. runs[r].job["pypi"] = "ok"
    BY <2>1, <2>5
  <2>7. RunInv(runs[r])
    BY DEF PublishInv
  <2>. QED  BY <2>4, <2>5, <2>6, <2>7 DEF RunInv, Owns, Made, Rehearses, Publishes
<1>. QED  BY <1>1, PipelineTypeInvariant, PublishInvariant, TurnInvariant, PTL

------------------------------------------------------------------------------
(* Versions and history *)

(* Only the run of the last event goes on at its first attempt: the event     *)
(* cancelled the others.  That run is of the newest commit.                   *)
OnlyNewest ==
  /\ \A r \in DOMAIN runs :
       runs[r].attempt = 1 /\ runs[r].status \in {"pending", "running"} => r = Len(runs)
  /\ Len(runs) > 0 => runs[Len(runs)].commit = Len(commits)

HistoryInv ==
  /\ OnlyNewest
  /\ \A v \in Tagged : tags[v].commit \in 1 .. Len(commits)
  /\ VersionsFollowHistory

(* A step of run r.                                                           *)
LEMMA StepKeepsNewest ==
  ASSUME TypeInv, OnlyNewest, NEW r \in DOMAIN runs, Step(r)
  PROVE  OnlyNewest'
<1>. USE NeedsAre
<1>0. TypeOK /\ runs[r] \in Run /\ DOMAIN runs = 1 .. Len(runs) /\ Len(runs) \in Nat
  BY RunTypes, LenProperties DEF TypeOK
<1>1. ASSUME NEW x, Moves(r, x), x.attempt = runs[r].attempt, x.commit = runs[r].commit,
             x.status \in {"pending", "running"} => runs[r].status \in {"pending", "running"},
             UNCHANGED commits
      PROVE  OnlyNewest'
  <2>1. /\ Len(runs') = Len(runs) /\ DOMAIN runs' = DOMAIN runs /\ runs'[r] = x
        /\ \A q \in DOMAIN runs \ {r} : runs'[q] = runs[q]
    BY <1>0, <1>1 DEF Moves, TypeOK
  <2>. QED  BY <1>0, <1>1, <2>1 DEF OnlyNewest
<1>2. UNCHANGED commits
  BY DEF Step, Dequeue, Stop, End, KeepTag, NewTag, Test, Release, BuildLeg, Start, Fail,
         Uploaded, UploadTestPypi, UploadPypi
<1>3. ASSUME NEW j \in Job, NEW s
      PROVE  /\ Does(r, j, s).attempt = runs[r].attempt /\ Does(r, j, s).commit = runs[r].commit
             /\ Does(r, j, s).status = runs[r].status
             /\ Sends(r, j).attempt = runs[r].attempt /\ Sends(r, j).commit = runs[r].commit
             /\ Sends(r, j).status = runs[r].status
  BY <1>0 DEF Run, Does, Sends
<1>4. /\ Cut(r).attempt = runs[r].attempt /\ Cut(r).commit = runs[r].commit
      /\ Cut(r).status = "ended"
      /\ \A s \in {"running", "ended"} :
           /\ Now(r, s).attempt = runs[r].attempt /\ Now(r, s).commit = runs[r].commit
           /\ Now(r, s).status = s
  BY <1>0 DEF Run, Cut, Now
<1>5. /\ \A v \in Version \cup {0} : /\ TaggedAs(r, v).attempt = runs[r].attempt
                                   /\ TaggedAs(r, v).commit = runs[r].commit
                                   /\ TaggedAs(r, v).status = runs[r].status
      /\ \A l \in Leg, v \in Version : /\ Built(r, l, v).attempt = runs[r].attempt
                                       /\ Built(r, l, v).commit = runs[r].commit
                                       /\ Built(r, l, v).status = runs[r].status
      /\ \A w \in Wheel : /\ Sent(r, w).attempt = runs[r].attempt
                         /\ Sent(r, w).commit = runs[r].commit
                         /\ Sent(r, w).status = runs[r].status
  BY <1>0 DEF Run, TaggedAs, Built, Sent, Does
<1>6. CASE Dequeue(r)
  <2>1. runs[r].status = "pending"
    BY <1>6 DEF Dequeue
  <2>. QED  BY <1>0, <1>1, <1>2, <1>4, <1>6, <2>1, StepMoves
<1>7. CASE End(r) \/ Stop(r)
  BY <1>0, <1>1, <1>2, <1>4, <1>7, StepMoves
<1>8. CASE KeepTag(r) \/ NewTag(r)
  <2>1. Latest \in Version \cup {0}
    BY LatestIsHighest DEF Latest, Tagged
  <2>. QED  BY <1>0, <1>1, <1>2, <1>5, <1>8, <2>1, StepMoves
<1>9. CASE Test(r) \/ Release(r)
  BY <1>0, <1>1, <1>2, <1>3, <1>9, StepMoves
<1>10. ASSUME NEW l \in Leg, BuildLeg(r, l)
       PROVE  OnlyNewest'
  <2>1. PICK v \in NamesOf(tags[runs[r].tag].commit) : Moves(r, Built(r, l, v))
    BY <1>0, <1>10, StepMoves
  <2>2. v \in Version
    BY DEF NamesOf, Tagged
  <2>. QED  BY <1>1, <1>2, <1>5, <2>1, <2>2
<1>11. ASSUME NEW j \in Job, Start(r, j) \/ Fail(r, j) \/ Uploaded(r, j)
       PROVE  OnlyNewest'
  <2>1. PICK x : /\ Moves(r, x) /\ x.attempt = runs[r].attempt /\ x.commit = runs[r].commit
                 /\ x.status = runs[r].status
    BY <1>0, <1>3, <1>11, StepMoves
  <2>. QED  BY <1>1, <1>2, <2>1
<1>12. ASSUME NEW w \in Wheel, UploadTestPypi(r, w) \/ UploadPypi(r, w)
       PROVE  OnlyNewest'
  BY <1>0, <1>1, <1>2, <1>5, <1>12, StepMoves
<1>. QED  BY <1>6, <1>7, <1>8, <1>9, <1>10, <1>11, <1>12 DEF Step

(* An event leaves its own run as the only one that goes on, or a re-run.     *)
LEMMA EventKeepsNewest ==
  ASSUME TypeInv, OnlyNewest,
         \/ \E v \in Asked : Push(v)
         \/ Schedule
         \/ \E r \in DOMAIN runs : \E keep \in SUBSET Job : Rerun(r, keep)
  PROVE  OnlyNewest' /\ Len(commits) <= Len(commits') /\ UNCHANGED tags
         /\ \A c \in 1 .. Len(commits) : commits'[c] = commits[c]
<1>0. /\ TypeOK /\ Bounds /\ DOMAIN runs = 1 .. Len(runs) /\ Len(runs) \in Nat
      /\ commits \in Seq(Asked) /\ Len(commits) \in Nat /\ MaxRuns \in Nat
  BY LenProperties, PipelineAssumptions DEF TypeInv, TypeOK, PipelineAssumptions
<1>1. ASSUME NEW event \in {"push", "schedule"}, NEW c \in 1 .. MaxRuns,
             runs' = Fresh(event, c), Len(runs) < MaxRuns, c = Len(commits')
      PROVE  OnlyNewest'
  <2>1. /\ Len(runs') = Len(runs) + 1 /\ DOMAIN runs' = DOMAIN runs \cup {Len(runs) + 1}
        /\ \A q \in DOMAIN runs : runs'[q] = Superseded(Len(runs) + 1, q)
        /\ runs'[Len(runs) + 1].commit = c
    BY <1>1, EventAdds
  <2>2. \A q \in DOMAIN runs : runs'[q].status \in {"cancelling", "ended"}
    BY <1>0, <2>1, SupersededKeeps
  <2>. QED  BY <1>1, <2>1, <2>2 DEF OnlyNewest
<1>2. ASSUME NEW v \in Asked, Push(v)
      PROVE  /\ OnlyNewest' /\ Len(commits) <= Len(commits') /\ UNCHANGED tags
             /\ \A c \in 1 .. Len(commits) : commits'[c] = commits[c]
  <2>1. /\ Len(commits') = Len(commits) + 1
        /\ \A c \in 1 .. Len(commits) : commits'[c] = commits[c]
    BY <1>0, <1>2, AppendProperties DEF Push
  <2>2. Len(commits) + 1 \in 1 .. MaxRuns
    BY <1>0, <1>2 DEF Push, Bounds
  <2>3. runs' = Fresh("push", Len(commits) + 1) /\ Len(runs) < MaxRuns /\ tags' = tags
    BY <1>2 DEF Push
  <2>. QED  BY <1>0, <1>1, <2>1, <2>2, <2>3
<1>3. CASE Schedule
  <2>1. Len(commits) \in 1 .. MaxRuns
    BY <1>0, <1>3 DEF Schedule, Bounds
  <2>2. /\ runs' = Fresh("schedule", Len(commits)) /\ Len(runs) < MaxRuns
        /\ tags' = tags /\ commits' = commits
    BY <1>3 DEF Schedule
  <2>. QED  BY <1>0, <1>1, <2>1, <2>2
<1>4. ASSUME NEW r \in DOMAIN runs, NEW keep \in SUBSET Job, Rerun(r, keep)
      PROVE  OnlyNewest' /\ UNCHANGED <<commits, tags>>
  <2>1. /\ UNCHANGED <<commits, tags>> /\ DOMAIN runs' = DOMAIN runs
        /\ \A q \in DOMAIN runs \ {r} : runs'[q] = Superseded(r, q)
    BY <1>4 DEF Rerun
  <2>2. runs'[r].attempt = reruns + 2 /\ runs'[r].commit = runs[r].commit
    <3>1. runs[r] \in Run
      BY <1>0 DEF TypeOK
    <3>2. runs'[r] = [runs[r] EXCEPT
                        !.status = Entry(r), !.attempt = reruns + 2,
                        !.job = [j \in Job |-> IF j \in keep THEN "ok" ELSE "waiting"]]
      BY <1>4 DEF Rerun
    <3>. QED  BY <3>1, <3>2 DEF Run
  <2>3. reruns \in Nat
    BY <1>0, PipelineAssumptions DEF TypeOK, PipelineAssumptions
  <2>4. Len(runs') = Len(runs)
    <3>1. runs' \in Seq(Run)
      <4>1. TypeInv'
        BY <1>4, EventKeepsTypes
      <4>. QED  BY <4>1 DEF TypeInv, TypeOK
    <3>. QED  BY <1>0, <2>1, <3>1, LenProperties
  <2>5. \A q \in DOMAIN runs \ {r} :
          runs'[q].status \in {"cancelling", "ended"} /\ runs'[q].commit = runs[q].commit
    BY <1>0, <2>1, SupersededKeeps
  <2>. QED  BY <1>0, <2>1, <2>2, <2>3, <2>4, <2>5 DEF OnlyNewest
<1>. QED  BY <1>0, <1>2, <1>3, <1>4

(* HistoryInv is an invariant: a tag at the first attempt is of the newest    *)
(* commit, and, unless the commit asked for it, higher than all others.       *)
THEOREM HistoryInvariant == Spec => []HistoryInv
<1>1. Init => HistoryInv
  BY DEF Init, HistoryInv, OnlyNewest, VersionsFollowHistory, Tagged
<1>2. TypeInv /\ HistoryInv /\ [Next]_vars => HistoryInv'
  <2>. SUFFICES ASSUME TypeInv, HistoryInv, [Next]_vars
                PROVE  HistoryInv'
    OBVIOUS
  <2>0. /\ TypeOK /\ Len(runs) \in Nat /\ DOMAIN runs = 1 .. Len(runs)
        /\ commits \in Seq(Asked) /\ Len(commits) \in Nat
        /\ tags \in [Version -> [commit : 0 .. MaxRuns, run : 0 .. MaxRuns,
                                attempt : 0 .. MaxReruns + 1]]
    BY LenProperties DEF TypeInv, TypeOK
  <2>. Version \subseteq Nat /\ Tagged \subseteq Version
    BY PipelineAssumptions DEF Version, Tagged, PipelineAssumptions
  <2>1. ASSUME UNCHANGED tags, OnlyNewest', Len(commits) <= Len(commits'), Len(commits') \in Nat,
               \A c \in 1 .. Len(commits) : commits'[c] = commits[c]
        PROVE  HistoryInv'
    <3>1. Tagged' = Tagged
      BY <2>1 DEF Tagged
    <3>2. \A v \in Tagged : commits'[tags[v].commit] = commits[tags[v].commit]
      BY <2>1 DEF HistoryInv
    <3>3. VersionsFollowHistory'
      BY <2>1, <3>1, <3>2 DEF HistoryInv, VersionsFollowHistory
    <3>4. \A v \in Tagged : tags[v].commit \in 1 .. Len(commits')
      BY <2>0, <2>1 DEF HistoryInv
    <3>. QED  BY <2>1, <3>1, <3>3, <3>4 DEF HistoryInv
  <2>2. ASSUME NEW r \in DOMAIN runs, NewTag(r)
        PROVE  HistoryInv'
    <3>1. PICK v \in Version \ Tagged : Tags(r, v)
      BY <2>0, <2>2, StepMoves
    <3>2. OnlyNewest' /\ UNCHANGED commits
      BY <2>2, StepKeepsNewest DEF Step, HistoryInv, NewTag
    <3>3. /\ tags'[v] = [commit |-> runs[r].commit, run |-> r, attempt |-> runs[r].attempt]
          /\ \A u \in Version \ {v} : tags'[u] = tags[u]
          /\ Tagged' \subseteq Tagged \cup {v}
      BY <2>0, <3>1 DEF Tags, Tagged
    <3>4. runs[r].commit \in 1 .. Len(commits)
      <4>1. runs[r] \in Run /\ runs[r].commit <= Len(commits)
        BY <2>0 DEF TypeInv, TypeOK, Bounds
      <4>. QED  BY <2>0, <4>1 DEF Run
    <3>5. runs[r].attempt = 1 => runs[r].commit = Len(commits)
      <4>1. runs[r].status = "running"
        BY <2>2 DEF NewTag, CanStart
      <4>. QED  BY <2>0, <4>1 DEF HistoryInv, OnlyNewest
    <3>6. commits[runs[r].commit] = 0 => \A u \in Tagged : u < v
      <4>1. commits[runs[r].commit] = 0 => v = Latest + 1
        BY <3>1 DEF Tags
      <4>2. \A u \in Tagged : Latest \in Tagged /\ u <= Latest
        BY LatestIsHighest
      <4>3. ASSUME NEW u \in Tagged, v = Latest + 1
            PROVE  u < v
        <5>1. u <= Latest /\ Latest \in Tagged
          BY <4>2
        <5>2. u \in Nat /\ Latest \in Nat
          BY <5>1
        <5>. QED  BY <4>3, <5>1, <5>2
      <4>. QED  BY <4>1, <4>3
    <3>7. ASSUME NEW u \in Tagged', NEW t \in Tagged', u < t,
                 tags'[u].attempt = 1, commits[tags'[u].commit] = 0,
                 tags'[t].attempt = 1, commits[tags'[t].commit] = 0
          PROVE  tags'[u].commit <= tags'[t].commit
      <4>1. CASE u # v /\ t # v
        BY <2>0, <3>3, <3>7, <4>1 DEF HistoryInv, VersionsFollowHistory
      <4>2. CASE t = v
        <5>1. u \in Tagged /\ u # v
          BY <3>3, <3>7, <4>2
        <5>2. tags'[u].commit \in 1 .. Len(commits)
          BY <3>3, <5>1 DEF HistoryInv
        <5>3. tags'[t].commit = Len(commits)
          BY <3>3, <3>5, <3>7, <4>2
        <5>. QED  BY <2>0, <5>2, <5>3
      <4>3. CASE u = v /\ t # v
        BY <2>0, <3>1, <3>3, <3>6, <3>7, <4>3
      <4>. QED  BY <4>1, <4>2, <4>3
    <3>8. VersionsFollowHistory'
      BY <3>2, <3>7 DEF VersionsFollowHistory
    <3>9. \A u \in Tagged' : tags'[u].commit \in 1 .. Len(commits)
      <4>1. ASSUME NEW u \in Tagged', u # v
            PROVE  tags'[u].commit \in 1 .. Len(commits)
        BY <3>3, <4>1 DEF HistoryInv
      <4>. QED  BY <3>3, <3>4, <4>1
    <3>. QED  BY <3>2, <3>8, <3>9 DEF HistoryInv
  <2>3. ASSUME NEW r \in DOMAIN runs, Step(r), ~ NewTag(r)
        PROVE  HistoryInv'
    <3>1. OnlyNewest'
      BY <2>3, StepKeepsNewest DEF HistoryInv
    <3>2. UNCHANGED <<commits, tags>>
      BY <2>3 DEF Step, Dequeue, Stop, End, KeepTag, Test, Release, BuildLeg, Start, Fail,
         Uploaded, UploadTestPypi, UploadPypi
    <3>. QED  BY <2>0, <2>1, <3>1, <3>2
  <2>4. CASE \/ \E v \in Asked : Push(v)
             \/ Schedule
             \/ \E r \in DOMAIN runs : \E keep \in SUBSET Job : Rerun(r, keep)
    <3>1. /\ OnlyNewest' /\ Len(commits) <= Len(commits') /\ UNCHANGED tags
          /\ \A c \in 1 .. Len(commits) : commits'[c] = commits[c]
      BY <2>4, EventKeepsNewest DEF HistoryInv
    <3>2. Len(commits') \in Nat
      <4>1. TypeInv'
        BY <2>4, EventKeepsTypes
      <4>. QED  BY <4>1, LenProperties DEF TypeInv, TypeOK
    <3>. QED  BY <2>1, <3>1, <3>2
  <2>5. CASE UNCHANGED vars
    BY <2>0, <2>1, <2>5 DEF vars, HistoryInv, OnlyNewest
  <2>. QED  BY <2>2, <2>3, <2>4, <2>5 DEF Next
<1>. QED  BY <1>1, <1>2, PipelineTypeInvariant, PTL DEF Spec

(* Default versions follow the history of master.                             *)
THEOREM VersionsAreInOrder == Spec => []VersionsFollowHistory
<1>1. HistoryInv => VersionsFollowHistory
  BY DEF HistoryInv
<1>. QED  BY <1>1, HistoryInvariant, PTL

(* The values the variables take.                                             *)
THEOREM PipelineTypeCorrect == Spec => []TypeOK
<1>1. TypeInv => TypeOK
  BY DEF TypeInv
<1>. QED  BY <1>1, PipelineTypeInvariant, PTL
------------------------------------------------------------------------------
(* The abstract specification *)

(* The commit of a version, as Publication sees it.                           *)
LEMMA CodeIs ==
  ASSUME TypeInv, HistoryInv
  PROVE  /\ \A v \in Version : v \in Tagged => tags[v].commit # 0
         /\ \A v \in Version \ Tagged : tags[v].commit = 0
<1>. QED  BY LenProperties DEF TypeInv, TypeOK, HistoryInv, Tagged, Untagged

(* What a run that is tested, or makes its release, has built.                *)
LEMMA BuiltOfTag ==
  ASSUME TypeInv, PublishInv, NEW r \in DOMAIN runs, NEW j \in {"test", "release"},
         CanStart(r, j)
  PROVE  /\ runs[r].tag \in Tagged /\ runs[r].tag \in Version
         /\ \A l \in Leg : runs[r].built[l].commit = tags[runs[r].tag].commit
<1>1. j \in Job \ {"tag"} /\ j \notin Leg /\ "tag" \in Job
  BY NeedsAre
<1>2. RunInv(runs[r])
  BY DEF PublishInv
<1>3. \A l \in Leg : runs[r].job[l] = "ok"
  BY <1>1, Before
<1>4. runs[r].tag \in Tagged
  <2>1. CASE j = "test"
    <3>1. Ordered(runs[r]) /\ \A l \in Leg : l \in Job /\ Needs[l] = {"tag"}
      BY NeedsAre DEF TypeInv
    <3>2. PICK l \in Leg : TRUE
      BY PipelineAssumptions DEF PipelineAssumptions
    <3>3. runs[r].job["tag"] = "ok"
      BY <1>3, <3>1, <3>2 DEF Ordered
    <3>. QED  BY <3>3, RunTypes
  <2>2. CASE j # "test"
    BY <1>1, <2>2, Before
  <2>. QED  BY <2>1, <2>2
<1>. QED  BY <1>2, <1>3, <1>4 DEF RunInv, BuiltTagged, Tagged

(* The version is its commit's only one, as Publication sees it.              *)
LEMMA SoleIs ==
  ASSUME TypeInv, HistoryInv, NEW v \in Tagged
  PROVE  Pub!Sole(v) <=> Sole(v)
<1>1. v \in Version /\ \A u \in Version : tags[u].commit = tags[v].commit => u \in Tagged
  BY CodeIs DEF Tagged
<1>2. Sole(v) <=> \A u \in Version : tags[u].commit = tags[v].commit => u = v
  BY <1>1 DEF Sole, Tagged
<1>. QED  BY <1>1, <1>2 DEF Pub!Sole

(* Tagging.                                                                   *)
LEMMA TagImplements ==
  ASSUME TypeInv, HistoryInv, NEW r \in DOMAIN runs, NewTag(r)
  PROVE  Pub!Next
<1>1. PICK v \in Version \ Tagged : Tags(r, v)
  BY StepMoves DEF TypeInv
<1>2. PICK c \in 1 .. MaxRuns : c = runs[r].commit
  <2>1. runs[r] \in Run
    BY RunTypes
  <2>. QED  BY <2>1 DEF Run
<1>3. tags \in [Version -> [commit : 0 .. MaxRuns, run : 0 .. MaxRuns,
                           attempt : 0 .. MaxReruns + 1]]
  BY DEF TypeInv, TypeOK
<1>4. tags[v].commit = 0
  BY CodeIs
<1>5. \A u \in Version : tags'[u].commit = IF u = v THEN c ELSE tags[u].commit
  BY <1>1, <1>2, <1>3 DEF Tags
<1>6. UNCHANGED <<passed, releases, testpypi, pypi>>
  BY DEF NewTag, published, history
<1>7. Pub!Tag(v, c)
  BY <1>4, <1>5, <1>6 DEF Pub!Tag
<1>. QED  BY <1>7 DEF Pub!Next

(* The tests, on some of what the legs have built from the tag of the run.    *)
LEMMA TestImplements ==
  ASSUME TypeInv, PublishInv, HistoryInv, NEW r \in DOMAIN runs, Test(r)
  PROVE  Pub!Next
<1>1. CanStart(r, "test")
  BY DEF Test
<1>2. /\ runs[r].tag \in Tagged /\ runs[r].tag \in Version
      /\ \A l \in Leg : runs[r].built[l].commit = tags[runs[r].tag].commit
  BY <1>1, BuiltOfTag
<1>3. tags[runs[r].tag].commit # 0
  BY <1>2, CodeIs
<1>4. PICK set : set = Seen(runs[r])
  OBVIOUS
<1>5. /\ \A l \in Tested : set.installed[l].commit = tags[runs[r].tag].commit
      /\ \A l \in Leg \ Tested : set.left[l].commit = tags[runs[r].tag].commit
  BY <1>2, <1>4, PipelineAssumptions DEF Seen, PipelineAssumptions
<1>6. UNCHANGED <<tags, releases, testpypi, pypi>> /\ passed' = passed \cup {set}
  BY <1>4 DEF Test, published
<1>7. Pub!Pass
  BY <1>2, <1>3, <1>5, <1>6 DEF Pub!Pass
<1>. QED  BY <1>7 DEF Pub!Next

(* The release.                                                               *)
LEMMA ReleaseImplements ==
  ASSUME TypeInv, PublishInv, HistoryInv, NEW r \in DOMAIN runs, Release(r)
  PROVE  Pub!Next
<1>1. runs[r].tag \in Tagged /\ runs[r].tag \in Version
  BY BuiltOfTag DEF Release
<1>2. tags[runs[r].tag].commit # 0
  BY <1>1, CodeIs
<1>3. UNCHANGED <<tags, passed, testpypi, pypi>>
  BY DEF Release, history
<1>4. Pub!Release(runs[r].tag)
  BY <1>1, <1>2, <1>3 DEF Pub!Release, Release
<1>. QED  BY <1>1, <1>4 DEF Pub!Next

(* A file goes to Test PyPI: if its version is the commit's only one, the run *)
(* owns it, so all files of it are of the artifacts that this run has tested. *)
LEMMA TestPypiImplements ==
  ASSUME TypeInv, PublishInv, HistoryInv, NEW r \in DOMAIN runs, NEW w \in Wheel,
         UploadTestPypi(r, w)
  PROVE  Pub!Next
<1>1. PICK file : file = FileOf(runs[r], w)
  OBVIOUS
<1>2. /\ runs[r].job["test-pypi"] = "running" /\ testpypi' = testpypi \cup {file}
      /\ \A f \in testpypi : ~ (f.version = file.version /\ f.wheel = file.wheel)
  BY <1>1 DEF UploadTestPypi, Upload, Uploading, Accepts
<1>3. /\ file.version \in Tagged /\ file.build.commit = tags[file.version].commit
      /\ Sole(file.version) => file.version = runs[r].tag
      /\ file \in File /\ runs[r].tag \in releases
      /\ Made(runs[r]) /\ Seen(runs[r]) \in passed
  BY <1>1, <1>2, RunPublishes
<1>4. file.wheel = w /\ file.build = runs[r].built[LegOf[w]]
  BY <1>1 DEF FileOf
<1>5. UNCHANGED <<tags, passed, releases, pypi>>
  BY DEF UploadTestPypi, history
<1>6. PICK v \in Version, build \in Build : v = file.version /\ build = file.build
  BY <1>3 DEF File
<1>7. file = [version |-> v, wheel |-> w, build |-> build]
  BY <1>3, <1>4, <1>6 DEF File
<1>8. tags[v].commit # 0 /\ (Pub!Sole(v) <=> Sole(v))
  BY <1>3, <1>6, CodeIs, SoleIs
<1>9. ASSUME Sole(v)
      PROVE  Pub!Together(Pub!Of(testpypi, v) \cup {file})
  <2>1. ASSUME NEW f \in Pub!Of(testpypi, v) \cup {file}
        PROVE  f.build = runs[r].built[LegOf[f.wheel]] /\ LegOf[f.wheel] \in Leg
    <3>1. f \in testpypi \cup {file} /\ f.version = v
      BY <1>6 DEF Pub!Of
    <3>2. f \in File
      BY <1>3, <3>1 DEF TypeInv, TypeOK
    <3>3. LegOf[f.wheel] \in Leg
      BY <3>2, PipelineAssumptions DEF PipelineAssumptions, File
    <3>4. RunInv(runs[r]) /\ v = runs[r].tag
      BY <1>3, <1>6, <1>9 DEF PublishInv
    <3>5. f \in testpypi => f.build = runs[r].built[LegOf[f.wheel]]
      BY <1>3, <1>9, <3>1, <3>4 DEF RunInv, Owns, Files
    <3>. QED  BY <1>4, <3>1, <3>3, <3>5
  <2>2. \A l \in Leg : /\ l \in Tested => Seen(runs[r]).installed[l] = runs[r].built[l]
                       /\ l \notin Tested => Seen(runs[r]).left[l] = runs[r].built[l]
    BY DEF Seen
  <2>3. PICK set \in passed : set = Seen(runs[r])
    BY <1>3
  <2>4. PICK files : files = Pub!Of(testpypi, v) \cup {file}
    OBVIOUS
  <2>5. \A f \in files :
          \/ LegOf[f.wheel] \in Tested /\ f.build = set.installed[LegOf[f.wheel]]
          \/ LegOf[f.wheel] \notin Tested /\ f.build = set.left[LegOf[f.wheel]]
    BY <2>1, <2>2, <2>3, <2>4
  <2>6. Pub!Together(files)
    BY <2>5 DEF Pub!Together
  <2>. QED  BY <2>4, <2>6
<1>10. Pub!Rehearse(v, w, build)
  <2>1. build.commit = tags[v].commit /\ \A f \in Pub!Of(testpypi, v) : f.wheel # w
    BY <1>2, <1>3, <1>4, <1>6 DEF Pub!Of
  <2>2. Sole(v) => v \in releases
    BY <1>3, <1>6
  <2>. QED  BY <1>2, <1>5, <1>7, <1>8, <1>9, <2>1, <2>2 DEF Pub!Rehearse
<1>. QED  BY <1>8, <1>10 DEF Pub!Next

(* A file goes to PyPI: the run has sent it to Test PyPI.                     *)
LEMMA PypiImplements ==
  ASSUME TypeInv, PublishInv, HistoryInv, NEW r \in DOMAIN runs, NEW w \in Wheel,
         UploadPypi(r, w)
  PROVE  Pub!Next
<1>1. PICK file : file = FileOf(runs[r], w)
  OBVIOUS
<1>2. /\ runs[r].job["pypi"] = "running" /\ pypi' = pypi \cup {file}
      /\ file \notin pypi
  BY <1>1 DEF UploadPypi, Upload, Uploading, Accepts
<1>3. file.version \in Tagged /\ (Sole(file.version) => file.version = runs[r].tag)
  BY <1>1, <1>2, RunPublishes
<1>4. \A u \in Wheel : FileOf(runs[r], u) \in testpypi
  <2>1. runs[r].job["test-pypi"] = "ok"
    BY <1>2, Before, NeedsAre
  <2>. QED  BY <2>1 DEF PublishInv, RunInv, Rehearses
<1>5. UNCHANGED <<tags, passed, releases, testpypi>>
  BY DEF UploadPypi, history
<1>6. Pub!Sole(file.version) <=> Sole(file.version)
  BY <1>3, SoleIs
<1>7. ASSUME Sole(file.version)
      PROVE  {g.wheel : g \in Pub!Of(testpypi, file.version)} = Wheel
  <2>1. ASSUME NEW u \in Wheel
        PROVE  \E g \in testpypi : g.version = file.version /\ g.wheel = u
    <3>1. FileOf(runs[r], u).version \in NamesOf(tags[runs[r].tag].commit)
      BY <1>2, RunPublishes
    <3>2. FileOf(runs[r], u).version = file.version
      BY <1>3, <1>7, <3>1 DEF NamesOf, Sole
    <3>. QED  BY <1>4, <3>2 DEF FileOf
  <2>2. testpypi \subseteq File
    BY DEF TypeInv, TypeOK
  <2>. QED  BY <2>1, <2>2 DEF Pub!Of, File
<1>8. Pub!Publish(file)
  BY <1>2, <1>5, <1>6, <1>7 DEF Pub!Publish
<1>9. file \in testpypi
  BY <1>1, <1>4
<1>. QED  BY <1>8, <1>9 DEF Pub!Next

(* Runs that overlap, are cut at any point and are run again publish, for any *)
(* number of them, as Publication says.                                       *)
THEOREM ImplementsPublication == Spec => PublicationSpec
<1>1. Init => Pub!Init
  BY DEF Init, Pub!Init, Untagged
<1>2. TypeInv /\ PublishInv /\ HistoryInv /\ [Next]_vars => [Pub!Next]_(Pub!vars)
  <2>. SUFFICES ASSUME TypeInv, PublishInv, HistoryInv, [Next]_vars
                PROVE  Pub!Next \/ UNCHANGED Pub!vars
    OBVIOUS
  <2>1. CASE UNCHANGED <<tags, passed, releases, testpypi, pypi>>
    BY <2>1 DEF Pub!vars
  <2>2. CASE UNCHANGED vars
    BY <2>1, <2>2 DEF vars
  <2>3. CASE \/ \E v \in Asked : Push(v)
             \/ Schedule
             \/ \E r \in DOMAIN runs : \E keep \in SUBSET Job : Rerun(r, keep)
    BY <2>1, <2>3 DEF Push, Schedule, Rerun, published
  <2>4. ASSUME NEW r \in DOMAIN runs, Step(r)
        PROVE  Pub!Next \/ UNCHANGED Pub!vars
    <3>1. CASE Dequeue(r) \/ Stop(r) \/ End(r) \/ KeepTag(r)
      BY <2>1, <3>1 DEF Dequeue, Stop, End, KeepTag, published, history
    <3>2. CASE \E l \in Leg : BuildLeg(r, l)
      BY <2>1, <3>2 DEF BuildLeg, published, history
    <3>3. CASE \E j \in Job : Start(r, j) \/ Fail(r, j) \/ Uploaded(r, j)
      BY <2>1, <3>3 DEF Start, Fail, Uploaded, published, history
    <3>. QED  BY <2>4, <3>1, <3>2, <3>3, TagImplements, TestImplements, ReleaseImplements,
                 TestPypiImplements, PypiImplements
              DEF Step
  <2>. QED  BY <2>2, <2>3, <2>4 DEF Next
<1>. QED  BY <1>1, <1>2, PipelineTypeInvariant, PublishInvariant, HistoryInvariant, PTL
          DEF Spec, PublicationSpec, Pub!Spec
==============================================================================
