--------------------------- MODULE MCReleasePipeline ---------------------------
(* ReleasePipeline with two legs of one wheel each, of which the job `test`    *)
(* installs one, two events and one re-run: enough to tag a commit twice.     *)
EXTENDS ReleasePipeline, TLC

MCLegOf == ("cp313" :> "linux313") @@ ("cp314" :> "linux314")
==============================================================================
