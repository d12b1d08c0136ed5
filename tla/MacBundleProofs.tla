---------------------------- MODULE MacBundleProofs ----------------------------
(***************************************************************************)
(* Proofs about MacBundle, for any finite set of libraries, any version    *)
(* numbers in their names and any layout that delocate may leave.          *)
(***************************************************************************)
EXTENDS MacBundle, TLAPS, FiniteSetTheorems, WellFoundedInduction

------------------------------------------------------------------------------
(* What delocate bundles *)

(* The libraries found from the roots load nothing that was not found.        *)
LEMMA LoadedIsClosed ==
  ASSUME NEW lay \in Layouts, NEW roots \in SUBSET Macho
  PROVE  /\ \A f \in roots \cup Loaded(roots, lay) : lay[f].loads \subseteq Loaded(roots, lay)
         /\ roots \cap Dylib \subseteq Loaded(roots, lay)
<1>1. lay \in [Macho -> [loads : SUBSET Dylib, uses : SUBSET {Stem[d] : d \in Dylib}]]
  BY BundleAssumptions DEF BundleAssumptions
<1>2. ASSUME NEW f \in roots \cup Loaded(roots, lay), NEW d \in lay[f].loads
      PROVE  d \in Loaded(roots, lay)
  <2>1. f \in Macho
    BY DEF Loaded, Macho
  <2>2. d \in Dylib
    BY <1>1, <2>1
  <2>3. ASSUME NEW S \in SUBSET Macho, roots \subseteq S, \A g \in S : lay[g].loads \subseteq S
        PROVE  d \in S
    <3>1. f \in S
      BY <2>3 DEF Loaded
    <3>. QED  BY <2>3, <3>1
  <2>. QED  BY <2>2, <2>3 DEF Loaded
<1>. QED  BY <1>2 DEF Loaded

------------------------------------------------------------------------------
(* The copy that stays *)

(* Version depth, then the alphabet: a strict total order of the names.       *)
LEMMA BeforeIsOrder ==
  /\ \A f \in Dylib : ~ Before(f, f)
  /\ \A f, g \in Dylib : f # g => Before(f, g) \/ Before(g, f)
  /\ \A f, g, h \in Dylib : Before(f, g) /\ Before(g, h) => Before(f, h)
<1>1. \A f \in Dylib : Depth[f] \in Nat /\ Rank[f] \in Nat
  BY BundleAssumptions DEF BundleAssumptions
<1>2. \A f, g \in Dylib : f # g => Rank[f] # Rank[g]
  BY BundleAssumptions DEF BundleAssumptions
<1>. QED  BY <1>1, <1>2 DEF Before

(* Of any copies one comes after all others: the one with the fewest copies   *)
(* after it.                                                                  *)
LEMMA HasLastCopy ==
  ASSUME NEW S \in SUBSET Dylib, S # {}
  PROVE  \E g \in S : \A h \in S \ {g} : Before(h, g)
<1>. DEFINE After(g) == {h \in S : Before(g, h)}
            T == {Cardinality(After(g)) : g \in S}
            R == OpToRel(<, Nat)
<1>1. ASSUME NEW g \in S
      PROVE  IsFiniteSet(After(g)) /\ Cardinality(After(g)) \in Nat
  <2>1. IsFiniteSet(Dylib)
    BY BundleAssumptions DEF BundleAssumptions
  <2>2. IsFiniteSet(After(g))
    BY <2>1, FS_Subset
  <2>. QED  BY <2>2, FS_CardinalityType
<1>2. T \in SUBSET Nat /\ T # {}
  BY <1>1
<1>3. IsWellFoundedOn(R, Nat)
  BY NatLessThanWellFounded
<1>4. PICK x \in T : \A y \in T : <<y, x>> \notin R
  <2>. HIDE DEF T, R
  <2>. QED  BY <1>2, <1>3, WFMin
<1>5. \A m, n \in Nat : <<m, n>> \notin R => ~ (m < n)
  BY DEF OpToRel
<1>6. PICK g \in S : x = Cardinality(After(g))
  BY <1>4
<1>7. ASSUME NEW h \in S \ {g}, ~ Before(h, g)
      PROVE  FALSE
  <2>1. Before(g, h)
    BY <1>7, BeforeIsOrder
  <2>2. After(h) \subseteq After(g) /\ After(h) # After(g)
    BY <2>1, BeforeIsOrder
  <2>3. Cardinality(After(h)) < Cardinality(After(g))
    <3>. HIDE DEF After
    <3>. QED  BY <1>1, <2>2, FS_Subset
  <2>4. Cardinality(After(h)) \in T /\ <<Cardinality(After(h)), x>> \notin R
    BY <1>4
  <2>. HIDE DEF T, R, After
  <2>. QED  BY <1>1, <1>5, <1>6, <2>3, <2>4
<1>. QED  BY <1>7

(* The copy that takes the place of a library is in the bundle, and a copy.   *)
LEMMA KeepIsACopy ==
  ASSUME bundle \subseteq Dylib, NEW near, NEW d \in bundle
  PROVE  Keep(near, d) \in bundle /\ Stem[Keep(near, d)] = Stem[d]
<1>1. Copies(d) \in SUBSET Dylib /\ Copies(d) # {}
  BY DEF Copies
<1>2. PICK g \in Copies(d) : \A h \in Copies(d) \ {g} : Before(h, g)
  BY <1>1, HasLastCopy
<1>3. Keep(near, d) \in Copies(d)
  BY <1>2 DEF Keep, Copies
<1>. QED  BY <1>3 DEF Copies

------------------------------------------------------------------------------
(* Types *)

(* Load commands.                                                             *)
RefSet == [base : Dylib, form : Form]

(* The fields of a load command.                                              *)
LEMMA RefIs ==
  ASSUME NEW base, NEW form
  PROVE  /\ Ref(base, form).base = base /\ Ref(base, form).form = form
         /\ base \in Dylib /\ form \in Form => Ref(base, form) \in RefSet
  BY DEF Ref, RefSet

(* The step of the merging, for whatever was near and whatever went unread.   *)
LEMMA DedupeIs ==
  ASSUME Dedupe
  PROVE  \E near \in SUBSET Twice, blind \in Blind :
           /\ refs' = [f \in Macho |-> IF f \in Present \ blind THEN Renamed(near, f) ELSE refs[f]]
           /\ bundle' = {Keep(near, d) : d \in bundle}
           /\ missed' = missed \cup blind
<1>1. PICK near \in SUBSET Twice : \E blind \in IF near = {} THEN {{}} ELSE Blind :
        /\ refs' = [f \in Macho |-> IF f \in Present \ blind THEN Renamed(near, f) ELSE refs[f]]
        /\ bundle' = {Keep(near, d) : d \in bundle}
        /\ missed' = missed \cup blind
  BY DEF Dedupe
<1>2. (IF near = {} THEN {{}} ELSE Blind) \subseteq Blind
  BY BundleAssumptions DEF BundleAssumptions
<1>. QED  BY <1>1, <1>2

(* The values the variables take.                                             *)
THEOREM MacTypeCorrect == Spec => []TypeOK
<1>. USE DEF RefSet
<1>1. Init => TypeOK
  <2>. SUFFICES ASSUME Init
                PROVE  TypeOK
    OBVIOUS
  <2>1. PICK lay \in Layouts :
          /\ bundle \in {Loaded(Roots, lay), Loaded(Roots, lay) \ scripts}
          /\ refs = [f \in Macho |->
                       {Ref(b, IF f = Exe THEN "installed" ELSE "wheel") : b \in lay[f].loads}]
          /\ uses = [f \in Macho |-> lay[f].uses]
    BY DEF Init
  <2>2. lay \in [Macho -> [loads : SUBSET Dylib, uses : SUBSET {Stem[d] : d \in Dylib}]]
    BY BundleAssumptions DEF BundleAssumptions
  <2>3. bundle \subseteq Dylib
    BY <2>1 DEF Loaded
  <2>4. refs \in [Macho -> SUBSET RefSet]
    <3>1. ASSUME NEW f \in Macho, NEW b \in lay[f].loads
          PROVE  Ref(b, IF f = Exe THEN "installed" ELSE "wheel") \in RefSet
      BY <2>2, RefIs DEF Form
    <3>. QED  BY <2>1, <3>1
  <2>5. uses \in [Macho -> SUBSET {Stem[d] : d \in Dylib}]
    BY <2>1, <2>2
  <2>. QED  BY <2>3, <2>4, <2>5 DEF Init, TypeOK, Steps
<1>2. TypeOK /\ [Next]_vars => TypeOK'
  <2>. SUFFICES ASSUME TypeOK, [Next]_vars
                PROVE  TypeOK'
    OBVIOUS
  <2>. USE DEF TypeOK, Steps, Unnoticed
  <2>0. \A blind \in Blind : blind \subseteq Macho
    BY BundleAssumptions DEF BundleAssumptions
  <2>1. CASE MoveExe
    BY <2>1 DEF MoveExe
  <2>2. CASE MoveDylibs
    BY <2>2 DEF MoveDylibs
  <2>3. CASE FixNames
    <3>1. ASSUME NEW f \in Macho, NEW r \in RefSet
          PROVE  NewRef(f, r) \in RefSet
      BY RefIs DEF NewRef, Form
    <3>2. refs' \in [Macho -> SUBSET RefSet]
      BY <2>3, <3>1 DEF FixNames
    <3>3. python' \in {"bundle", "framework", "other", "bare"}
      BY <2>3 DEF FixNames, Bare
    <3>4. missed' \subseteq Macho
      BY <2>0, <2>3 DEF FixNames
    <3>. QED  BY <2>3, <3>2, <3>3, <3>4 DEF FixNames
  <2>4. CASE Dedupe
    <3>1. PICK near \in SUBSET Twice, blind \in Blind :
            /\ refs' = [f \in Macho |-> IF f \in Present \ blind THEN Renamed(near, f) ELSE refs[f]]
            /\ bundle' = {Keep(near, d) : d \in bundle}
            /\ missed' = missed \cup blind
      BY <2>4, DedupeIs
    <3>2. bundle' \subseteq Dylib
      BY <3>1, KeepIsACopy
    <3>3. ASSUME NEW f \in Macho
          PROVE  Renamed(near, f) \subseteq RefSet
      <4>1. ASSUME NEW r \in refs[f], r.base \in bundle
            PROVE  Ref(Keep(near, r.base), r.form) \in RefSet
        BY <4>1, KeepIsACopy, RefIs
      <4>. QED  BY <4>1 DEF Renamed
    <3>4. refs' \in [Macho -> SUBSET RefSet]
      BY <3>1, <3>3
    <3>5. missed' \subseteq Macho
      BY <2>0, <3>1
    <3>. QED  BY <2>4, <3>2, <3>4, <3>5 DEF Dedupe
  <2>5. CASE Neutralize
    <3>1. refs' \in [Macho -> SUBSET RefSet]
      BY <2>5 DEF Neutralize
    <3>2. uses' \in [Macho -> SUBSET {Stem[d] : d \in Dylib}]
      BY <2>5 DEF Neutralize
    <3>3. unseen' \subseteq Macho
      BY <2>0, <2>5 DEF Neutralize
    <3>. QED  BY <2>5, <3>1, <3>2, <3>3 DEF Neutralize
  <2>6. CASE Sign
    BY <2>0, <2>6 DEF Sign, Present, Macho
  <2>7. CASE Pack \/ Fail
    BY <2>7 DEF Pack, Fail
  <2>8. CASE UNCHANGED vars
    BY <2>8 DEF vars
  <2>. QED  BY <2>1, <2>2, <2>3, <2>4, <2>5, <2>6, <2>7, <2>8 DEF Next
<1>. QED  BY <1>1, <1>2, PTL DEF Spec

------------------------------------------------------------------------------
(* The invariant *)

(* Every binary of the wheel, staged libraries included.                      *)
Carried == Present \cup scripts

(* Those that were read whenever they had to be.                              *)
Read == Carried \ missed

(* What a binary loads by a name the script knows is in the wheel.            *)
Closed ==
  \A f \in Read : \A r \in refs[f] : r.base \in bundle \cup scripts

(* Step 2 is over with nothing left in its old place.                         *)
Moved ==
  /\ pc \notin {"move_exe", "failed"} => exeAt # "scripts"
  /\ pc \notin {"move_exe", "move_dylibs", "failed"} => scripts = {}

(* From step 3 on the load commands are those of the installed layout.        *)
Rewritten ==
  pc \notin {"move_exe", "move_dylibs", "names", "failed"} =>
    /\ Exe \in Read => python \in {"bare", "other"}
    /\ \A f \in Present \ missed : \A r \in refs[f] :
         r.form = IF f \in Dylib THEN "sibling" ELSE "installed"

(* Only step 3c empties libraries, and no import that nm showed is lost to it.*)
Imported ==
  /\ stubs # {} => pc \in {"sign", "pack", "done", "failed"}
  /\ \A f \in Read \ (Icu \cup unseen) :
       uses[f] \subseteq {Stem[r.base] : r \in {q \in refs[f] : q.base \notin stubs}}

Resigned == pc \in {"pack", "done"} => Present \ missed \subseteq signed

(* nm is asked in step 3c only.                                               *)
Unasked == pc \in {"move_exe", "move_dylibs", "names", "dedupe", "icu"} => unseen = {}

BundleInv == Closed /\ Moved /\ Rewritten /\ Imported /\ Resigned /\ Unasked

(* The extension and the program are no libraries.                            *)
LEMMA PresentIsMacho ==
  ASSUME TypeOK
  PROVE  /\ Present \subseteq Macho /\ Carried \subseteq Macho
         /\ Present \cap Dylib = bundle /\ Ext \notin Dylib /\ Exe \notin Dylib
  BY BundleAssumptions DEF BundleAssumptions, TypeOK, Present, Carried, Macho

(* What delocate leaves is closed, whether or not it bundled what was staged. *)
LEMMA InvInit == Init => BundleInv
<1>. SUFFICES ASSUME Init
              PROVE  BundleInv
  OBVIOUS
<1>1. PICK lay \in Layouts :
        /\ bundle \in {Loaded(Roots, lay), Loaded(Roots, lay) \ scripts}
        /\ refs = [f \in Macho |->
                     {Ref(b, IF f = Exe THEN "installed" ELSE "wheel") : b \in lay[f].loads}]
        /\ uses = [f \in Macho |-> lay[f].uses]
  BY DEF Init
<1>2. \A f \in Macho : lay[f].uses \subseteq {Stem[b] : b \in lay[f].loads}
  BY BundleAssumptions DEF BundleAssumptions
<1>. DEFINE found == Loaded(Roots, lay)
<1>3. scripts \subseteq Dylib /\ Roots \in SUBSET Macho
  BY DEF Init, Macho, Roots
<1>4. /\ \A f \in Roots \cup found : lay[f].loads \subseteq found
      /\ scripts \subseteq found
  BY <1>3, LoadedIsClosed DEF Roots
<1>5. Carried \subseteq Roots \cup found /\ bundle \cup scripts = found /\ Carried \subseteq Macho
  BY <1>1, <1>3, <1>4 DEF Carried, Present, Macho, Loaded, Roots
<1>6. ASSUME NEW f \in Carried
      PROVE  /\ \A r \in refs[f] : r.base \in lay[f].loads
             /\ \A b \in lay[f].loads : \E r \in refs[f] : r.base = b
             /\ uses[f] = lay[f].uses
  <2>1. /\ refs[f] = {Ref(b, IF f = Exe THEN "installed" ELSE "wheel") : b \in lay[f].loads}
        /\ uses[f] = lay[f].uses
    BY <1>1, <1>5
  <2>2. \A b : Ref(b, IF f = Exe THEN "installed" ELSE "wheel").base = b
    BY DEF Ref
  <2>. QED  BY <2>1, <2>2
<1>. HIDE DEF found
<1>7. Closed
  BY <1>4, <1>5, <1>6 DEF Closed, Read
<1>8. Imported
  <2>1. stubs = {}
    BY DEF Init
  <2>2. ASSUME NEW f \in Carried, NEW s \in uses[f]
        PROVE  s \in {Stem[r.base] : r \in {q \in refs[f] : q.base \notin stubs}}
    <3>1. f \in Macho
      BY <1>5
    <3>2. s \in {Stem[b] : b \in lay[f].loads}
      BY <1>2, <1>6, <3>1
    <3>3. PICK b \in lay[f].loads : s = Stem[b]
      BY <3>2
    <3>4. PICK r \in refs[f] : r.base = b
      BY <1>6
    <3>. QED  BY <2>1, <3>3, <3>4
  <2>. QED  BY <2>1, <2>2 DEF Imported, Read
<1>. QED  BY <1>7, <1>8 DEF Init, BundleInv, Moved, Rewritten, Resigned, Unasked

(* Step 2: what was staged joins the bundle.                                  *)
LEMMA MoveKeeps ==
  ASSUME TypeOK, BundleInv, MoveDylibs
  PROVE  BundleInv'
<1>1. Carried' = Carried /\ bundle' \cup scripts' = bundle \cup scripts /\ Read' = Read
  BY DEF MoveDylibs, Carried, Present, Read, Unnoticed
<1>2. Closed' /\ Imported'
  BY <1>1 DEF BundleInv, Closed, Imported, MoveDylibs, Unnoticed
<1>. QED  BY <1>2 DEF BundleInv, MoveDylibs, Moved, Rewritten, Resigned, Unasked, Unnoticed

(* Step 3 changes directories, never the library that is named.               *)
LEMMA NamesKeep ==
  ASSUME TypeOK, BundleInv, FixNames
  PROVE  BundleInv'
<1>1. scripts = {} /\ exeAt # "scripts" /\ stubs = {} /\ stubs' = {} /\ unseen' = unseen
  BY DEF BundleInv, Moved, Imported, FixNames
<1>2. Carried = Present /\ Carried' = Present /\ Present' = Present
  BY <1>1 DEF Carried, Present, FixNames
<1>3. PICK blind \in Blind :
        /\ refs' = [f \in Macho |->
                     IF f \in Present \ blind THEN {NewRef(f, r) : r \in refs[f]} ELSE refs[f]]
        /\ python' \in IF exeAt = "none" THEN {python}
                       ELSE {Bare(python)} \cup (IF Exe \in blind THEN {python} ELSE {})
        /\ missed' = missed \cup blind
  BY DEF FixNames
<1>4. Read' \subseteq Read /\ Read' \subseteq Present \ blind /\ Read \subseteq Present
  BY <1>2, <1>3 DEF Read
<1>5. ASSUME NEW f \in Read'
      PROVE  /\ refs'[f] = {NewRef(f, r) : r \in refs[f]} /\ uses'[f] = uses[f]
             /\ f \in Read /\ f \in Present
  BY <1>3, <1>4, PresentIsMacho DEF FixNames
<1>6. ASSUME NEW f \in Read', NEW r \in refs[f]
      PROVE  /\ r.base \in bundle /\ NewRef(f, r).base = r.base
             /\ NewRef(f, r).form = IF f \in Dylib THEN "sibling" ELSE "installed"
  BY <1>1, <1>5, RefIs DEF BundleInv, Closed, NewRef
<1>7. Closed'
  BY <1>5, <1>6 DEF Closed, FixNames
<1>8. Rewritten'
  <2>1. ASSUME NEW f \in Read', NEW r \in refs'[f]
        PROVE  r.form = IF f \in Dylib THEN "sibling" ELSE "installed"
    BY <1>5, <1>6
  <2>2. ASSUME Exe \in Read'
        PROVE  python' \in {"bare", "other"}
    <3>1. Exe \in Present /\ Exe \notin blind
      BY <1>4, <2>2
    <3>2. exeAt # "none"
      BY <3>1, PresentIsMacho, BundleAssumptions DEF Present, BundleAssumptions
    <3>. QED  BY <1>3, <3>1, <3>2 DEF Bare, TypeOK
  <2>3. (Present \ missed)' = Read'
    BY <1>2 DEF Read
  <2>. QED  BY <2>1, <2>2, <2>3 DEF Rewritten
<1>9. Imported'
  <2>1. ASSUME NEW f \in Read' \ (Icu \cup unseen'), NEW s \in uses'[f]
        PROVE  s \in {Stem[r.base] : r \in {q \in refs'[f] : q.base \notin stubs'}}
    <3>1. PICK r \in refs[f] : s = Stem[r.base]
      BY <1>1, <1>5 DEF BundleInv, Imported
    <3>2. NewRef(f, r) \in refs'[f] /\ NewRef(f, r).base = r.base
      BY <1>5, <1>6
    <3>. QED  BY <1>1, <3>1, <3>2
  <2>. QED  BY <1>1, <2>1 DEF Imported
<1>10. Moved' /\ Resigned' /\ Unasked'
  BY <1>1 DEF BundleInv, FixNames, Moved, Resigned, Unasked
<1>. QED  BY <1>7, <1>8, <1>9, <1>10 DEF BundleInv

(* Step 3b: who named a copy that goes names the one that stays.              *)
LEMMA DedupeKeeps ==
  ASSUME TypeOK, BundleInv, Dedupe
  PROVE  BundleInv'
<1>1. PICK near \in SUBSET Twice, blind \in Blind :
        /\ refs' = [f \in Macho |-> IF f \in Present \ blind THEN Renamed(near, f) ELSE refs[f]]
        /\ bundle' = {Keep(near, d) : d \in bundle}
        /\ missed' = missed \cup blind
  BY DedupeIs
<1>2. scripts = {} /\ scripts' = {} /\ stubs = {} /\ stubs' = {} /\ unseen' = unseen /\ python' = python
  BY DEF BundleInv, Moved, Imported, Dedupe
<1>3. bundle \subseteq Dylib /\ bundle' \subseteq bundle
  BY <1>1, KeepIsACopy DEF TypeOK
<1>4. Carried = Present /\ Carried' = Present' /\ Present' \subseteq Present
  BY <1>2, <1>3 DEF Carried, Present, Dedupe
<1>5. Read' \subseteq Read /\ Read' \subseteq Present \ blind
  BY <1>1, <1>4 DEF Read
<1>. DEFINE New(r) == Ref(Keep(near, r.base), r.form)
<1>6. ASSUME NEW f \in Read'
      PROVE  refs'[f] = {New(r) : r \in refs[f]} /\ uses'[f] = uses[f] /\ f \in Read
  <2>1. f \in Present \ blind /\ f \in Macho /\ f \in Read
    BY <1>5, PresentIsMacho
  <2>2. \A r \in refs[f] : r.base \in bundle
    BY <1>2, <2>1 DEF BundleInv, Closed
  <2>. QED  BY <1>1, <2>1, <2>2 DEF Renamed, Dedupe
<1>7. ASSUME NEW f \in Read', NEW r \in refs[f]
      PROVE  /\ New(r).base \in bundle' /\ Stem[New(r).base] = Stem[r.base]
             /\ New(r).form = IF f \in Dylib THEN "sibling" ELSE "installed"
  <2>1. r.base \in bundle
    BY <1>2, <1>6 DEF BundleInv, Closed
  <2>2. r.form = IF f \in Dylib THEN "sibling" ELSE "installed"
    BY <1>4, <1>6 DEF BundleInv, Rewritten, Dedupe, Read
  <2>. QED  BY <1>1, <1>3, <2>1, <2>2, KeepIsACopy, RefIs
<1>. HIDE DEF New
<1>8. Closed'
  BY <1>6, <1>7 DEF Closed
<1>9. Rewritten'
  <2>1. (Present \ missed)' = Read'
    BY <1>4 DEF Read
  <2>2. ASSUME Exe \in Read'
        PROVE  python' \in {"bare", "other"}
    BY <1>2, <1>5, <2>2 DEF BundleInv, Rewritten, Dedupe
  <2>. QED  BY <1>6, <1>7, <2>1, <2>2 DEF Rewritten
<1>10. Imported'
  <2>1. ASSUME NEW f \in Read' \ (Icu \cup unseen'), NEW s \in uses'[f]
        PROVE  s \in {Stem[r.base] : r \in {q \in refs'[f] : q.base \notin stubs'}}
    <3>1. PICK r \in refs[f] : s = Stem[r.base]
      BY <1>2, <1>6 DEF BundleInv, Imported
    <3>2. New(r) \in refs'[f] /\ Stem[New(r).base] = s
      BY <1>6, <1>7, <3>1
    <3>. QED  BY <1>2, <3>2
  <2>. QED  BY <1>2, <2>1 DEF Imported
<1>11. Moved' /\ Resigned' /\ Unasked'
  BY <1>2 DEF BundleInv, Dedupe, Moved, Resigned, Unasked
<1>. QED  BY <1>8, <1>9, <1>10, <1>11 DEF BundleInv

(* Step 3c: a library that somebody outside the family is seen to import from *)
(* is not emptied, whichever others are.                                      *)
LEMMA NeutralizeKeeps ==
  ASSUME TypeOK, BundleInv, Neutralize
  PROVE  BundleInv'
<1>1. scripts = {} /\ scripts' = {} /\ stubs = {} /\ missed' = missed /\ python' = python
  BY DEF BundleInv, Moved, Imported, Neutralize
<1>2. stubs' \subseteq (Icu \cap bundle) \ Unsafe(unseen')
  BY DEF Neutralize
<1>3. Carried = Present /\ Carried' = Present /\ Present' = Present /\ bundle' = bundle /\ Read' = Read
  BY <1>1 DEF Carried, Present, Neutralize, Read
<1>4. ASSUME NEW f \in Present
      PROVE  /\ refs'[f] \subseteq refs[f]
             /\ f \notin Icu => refs'[f] = refs[f] /\ uses'[f] = uses[f]
  BY <1>2, PresentIsMacho DEF Neutralize
<1>5. Read \subseteq Present
  BY <1>3 DEF Read
<1>6. Closed'
  BY <1>1, <1>3, <1>4, <1>5 DEF BundleInv, Closed
<1>7. Rewritten'
  BY <1>1, <1>3, <1>4 DEF BundleInv, Rewritten, Neutralize
<1>8. Imported'
  <2>0. unseen = {}
    BY DEF BundleInv, Unasked, Neutralize
  <2>1. ASSUME NEW f \in Read' \ (Icu \cup unseen'), NEW s \in uses'[f]
        PROVE  s \in {Stem[r.base] : r \in {q \in refs'[f] : q.base \notin stubs'}}
    <3>0. f \in Read \ Icu /\ f \in Present \ (Icu \cup unseen')
      BY <1>3, <1>5
    <3>1. PICK r \in refs[f] : s = Stem[r.base]
      BY <1>4, <2>0, <3>0 DEF BundleInv, Imported
    <3>2. r.base \notin stubs'
      <4>1. SUFFICES ASSUME r.base \in Icu \cap bundle
                     PROVE  r.base \in Unsafe(unseen')
        BY <1>2
      <4>2. Stem[r.base] \in uses[f]
        BY <1>4, <3>0, <3>1
      <4>. QED  BY <3>0, <4>1, <4>2 DEF Unsafe
    <3>. QED  BY <1>4, <3>0, <3>1, <3>2
  <2>. QED  BY <2>1 DEF Imported, Neutralize
<1>9. Moved' /\ Resigned' /\ Unasked'
  BY <1>1 DEF BundleInv, Neutralize, Moved, Resigned, Unasked
<1>. QED  BY <1>6, <1>7, <1>8, <1>9 DEF BundleInv

(* Every step leaves the wheel closed, its load commands in the layout that   *)
(* the script has reached, and every import with a library that has symbols,  *)
(* but for the binaries that went unread.                                     *)
THEOREM MacInvariant == Spec => []BundleInv
<1>1. TypeOK /\ BundleInv /\ [Next]_vars => BundleInv'
  <2>. SUFFICES ASSUME TypeOK, BundleInv, [Next]_vars
                PROVE  BundleInv'
    OBVIOUS
  <2>. USE DEF BundleInv, Closed, Moved, Rewritten, Imported, Resigned, Unasked, Carried, Read,
               Present, Unnoticed
  <2>1. CASE MoveExe
    BY <2>1 DEF MoveExe, TypeOK
  <2>2. CASE MoveDylibs \/ FixNames \/ Dedupe \/ Neutralize
    BY <2>2, MoveKeeps, NamesKeep, DedupeKeeps, NeutralizeKeeps
  <2>3. CASE Sign
    BY <2>3 DEF Sign
  <2>4. CASE Pack
    BY <2>4 DEF Pack
  <2>5. CASE Fail
    BY <2>5 DEF Fail, TypeOK
  <2>6. CASE UNCHANGED vars
    BY <2>6 DEF vars
  <2>. QED  BY <2>1, <2>2, <2>3, <2>4, <2>5, <2>6 DEF Next
<1>. QED  BY <1>1, InvInit, MacTypeCorrect, PTL DEF Spec

------------------------------------------------------------------------------
(* What a finished wheel has *)

(* Every load command of every binary leads to a bundled library, from where  *)
(* pip installs the binary, and every binary is signed, but for those that    *)
(* file or otool failed on.                                                   *)
THEOREM MacWheelLoads == Spec => []RefsResolve
<1>1. TypeOK /\ BundleInv => RefsResolve
  <2>. SUFFICES ASSUME TypeOK, BundleInv, pc = "done"
                PROVE  /\ exeAt # "scripts"
                       /\ Exe \in Present \ missed => python \in {"bare", "other"}
                       /\ \A f \in Present \ missed :
                            /\ f \in signed
                            /\ \A r \in refs[f] :
                                 /\ r.base \in bundle
                                 /\ r.form = IF f \in Dylib THEN "sibling" ELSE "installed"
    BY DEF RefsResolve
  <2>1. scripts = {} /\ exeAt # "scripts" /\ Present \ missed \subseteq Read
    BY DEF BundleInv, Moved, Read, Carried
  <2>2. \A f \in Present \ missed : \A r \in refs[f] : r.base \in bundle
    BY <2>1 DEF BundleInv, Closed
  <2>3. \A f \in Present \ missed : f \in signed
    BY DEF BundleInv, Resigned
  <2>. QED  BY <2>1, <2>2, <2>3 DEF BundleInv, Rewritten
<1>. QED  BY <1>1, MacTypeCorrect, MacInvariant, PTL

(* What a binary outside the ICU family is seen to import comes from a        *)
(* library with symbols that it loads.                                        *)
THEOREM MacImportsKept == Spec => []ImportsKept
<1>1. BundleInv => ImportsKept
  BY DEF BundleInv, Imported, Carried, Read, ImportsKept
<1>. QED  BY <1>1, MacInvariant, PTL
==============================================================================
