------------------------------ MODULE MCMacBundle ------------------------------
(* MacBundle with Boost.Regex and two ICU libraries, one of them in two       *)
(* copies of different version depth; any of them may be staged as well.      *)
EXTENDS MacBundle, TLC

MCDylib == {"regex", "uc.78", "uc.78.1", "i18n.78"}

MCStem == ("regex" :> "regex") @@ ("uc.78" :> "uc") @@ ("uc.78.1" :> "uc")
            @@ ("i18n.78" :> "i18n")

MCDepth == ("regex" :> 0) @@ ("uc.78" :> 1) @@ ("uc.78.1" :> 2) @@ ("i18n.78" :> 1)

MCRank == ("i18n.78" :> 1) @@ ("regex" :> 2) @@ ("uc.78.1" :> 3) @@ ("uc.78" :> 4)

(* A binary that loads L imports from some of the libraries in L.             *)
Links(L) == {[loads |-> L, uses |-> U] : U \in SUBSET {MCStem[b] : b \in L}}

MCLayouts ==
  {("ext" :> e) @@ ("exe" :> x) @@ ("regex" :> g) @@ ("i18n.78" :> i)
     @@ ("uc.78" :> [loads |-> {}, uses |-> {}]) @@ ("uc.78.1" :> [loads |-> {}, uses |-> {}])
     : e \in Links({"regex", "uc.78"}), x \in {[loads |-> {"regex"}, uses |-> {"regex"}]},
       g \in Links({"uc.78.1", "i18n.78"}),
       i \in Links({}) \cup Links({"uc.78"}) \cup Links({"uc.78.1"})}

(* One binary at most goes unread in one step.                                *)
MCBlind == {{}, {"ext"}, {"exe"}, {"regex"}}
==============================================================================
