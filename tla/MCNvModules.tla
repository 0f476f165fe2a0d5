----------------------------- MODULE MCNvModules -----------------------------
(* Three files and a module of the prelude; m, a and b may each be imported as  *)
(* "x" and as "./x", which is another spelling of the same stem.                *)
EXTENDS NvMerge

MCNameOf == [f \in File |-> f]
MCSpelling == {"m", "a", "b", "strings", "./a", "./b", "./m", "crypto", "gone"}
MCTarget == [s \in MCSpelling |->
  CASE s = "./a" -> "a" [] s = "./b" -> "b" [] s = "./m" -> "m"
    [] s = "crypto" -> Virtual [] s = "gone" -> Missing [] OTHER -> s]
MCStemOf == [s \in MCSpelling |->
  CASE s = "./a" -> "a" [] s = "./b" -> "b" [] s = "./m" -> "m" [] OTHER -> s]
MCImportLists ==
  {<<>>} \cup {<<s>> : s \in {"m", "a", "./a", "b", "./m", "gone"}}
         \cup {<<s, t>> : s \in {"./a", "b", "crypto", "strings"}, t \in {"a", "./b", "b", "gone"}}

(* The theorems' hypothesis holds of these files.                              *)
ASSUME StemsAreDistinct == DistinctStems

=============================================================================
