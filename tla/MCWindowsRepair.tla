--------------------------- MODULE MCWindowsRepair ---------------------------
(* WindowsRepair on a wheel with one DLL staged in the scripts directory      *)
(* under a dashed name ("d", as libgcc_s_seh-1.dll is), delvewheel's mangled  *)
(* copy of it ("dm"), a vendored mangled DLL whose original is not shipped    *)
(* ("b", "bm"), a system DLL, a venv Python DLL and one that nobody provides. *)
EXTENDS WindowsRepair, TLC

MCName == {"d", "dm", "b", "bm", "sys", "py", "gone"}

MCFile == {"scripts/d", "libs/dm", "libs/bm"}

MCNameOf == ("scripts/d" :> "d") @@ ("libs/dm" :> "dm") @@ ("libs/bm" :> "bm")

MCBaseOf == ("scripts/d" :> "d") @@ ("libs/dm" :> "d") @@ ("libs/bm" :> "b")

MCRank == ("scripts/d" :> 1) @@ ("libs/bm" :> 2) @@ ("libs/dm" :> 3)

MCImportSets == {{}, {"d"}, {"b", "sys"}, {"dm", "bm"}, {"d", "py"}, {"b", "gone"}}
==============================================================================
