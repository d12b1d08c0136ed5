----------------------------- MODULE MCLinuxRepair -----------------------------
(* LinuxRepair with HDF5, its high-level library, whose name begins with      *)
(* HDF5's, and one whose name goes on from the latter's with a dash;          *)
(* Boost.Regex with two ICU libraries, of which the expression for RECORD     *)
(* names one; Dakota's own library without a version; and an extension that   *)
(* may ask for ICU itself.                                                    *)
EXTENDS LinuxRepair, TLC

MCLib == {"hdf5", "hdf5_hl", "hdf5_hl-cpp", "regex", "icuuc", "icuio", "dakota_src", "libc"}

MCDashed == [l \in MCLib |-> IF l = "hdf5_hl" THEN {"hdf5_hl", "hdf5_hl-cpp"} ELSE {l}]

MCBegins == [l \in MCLib |-> IF l = "hdf5" THEN {"hdf5", "hdf5_hl", "hdf5_hl-cpp"} ELSE MCDashed[l]]

Listed == <<"dakota_src", "hdf5_hl-cpp", "hdf5_hl", "hdf5", "icuio", "icuuc", "regex", "libc">>

MCFirst == [S \in (SUBSET MCLib) \ {{}} |->
              Listed[CHOOSE i \in DOMAIN Listed :
                       Listed[i] \in S /\ \A j \in 1 .. i - 1 : Listed[j] \notin S]]

MCNeeds == [l \in MCLib |->
              CASE l = "libc"       -> {}
                [] l = "hdf5_hl"    -> {"hdf5", "libc"}
                [] l = "regex"      -> {"icuuc", "icuio", "libc"}
                [] l = "icuio"      -> {"icuuc", "libc"}
                [] l = "dakota_src" -> {"regex", "hdf5_hl", "libc"}
                [] OTHER            -> {"libc"}]

MCRootNeeds == {{"libc"}, {"hdf5", "hdf5_hl", "libc"}, {"dakota_src", "hdf5", "libc"},
                {"regex", "icuuc", "libc"}}

MCPkgDir == <<"dakota", "environment">>
==============================================================================
