----------------------------- MODULE MCProvenance -----------------------------
(* Provenance with three files of patches, the second of which is that of the *)
(* bindings.  "new" applies; "drift" has a bindings patch that is rejected,   *)
(* which the recipe does not notice; "last" one whose last patch is.          *)
EXTENDS Provenance

MCPatchSet == {"new", "drift", "last"}

MCRejected == [p \in MCPatchSet |-> IF p = "drift" THEN {2} ELSE IF p = "last" THEN {3} ELSE {}]

MCUpstream == {<<"callback", "typing.Any">>, <<"callbacks", "dict">>, <<"input_json", "json">>}

MCParameters == [p \in MCPatchSet |-> MCUpstream \cup {<<"read_restart", "str">>}]

MCRoot == <<"pypi", "itis-dakota">>

Wheel == [ref |-> MCRoot, name |-> "itis-dakota", purl |-> MCRoot]

Icu(file) == [ref |-> <<"rpm", "libicu", file>>, name |-> "libicu", purl |-> <<"rpm", "libicu">>]

(* Two libraries of one package; a wheel with nothing that auditwheel knows.  *)
MCBase ==
  {[components |-> <<Wheel, Icu("uc"), Icu("data")>>,
    deps |-> <<[ref |-> MCRoot, on |-> {Icu("uc").ref, Icu("data").ref}],
               [ref |-> Icu("uc").ref, on |-> {}], [ref |-> Icu("data").ref, on |-> {}]>>,
    tools |-> 1],
   [components |-> <<Wheel>>, deps |-> <<>>, tools |-> 0]}
==============================================================================
