--------------------------- MODULE MCPythonBinding ---------------------------
(***************************************************************************)
(* Two threads, a handful of calls.  "b" is built in, "c" comes with       *)
(* core.dic, "u" with user.dic; the callers load "c" again and a word of   *)
(* their own, and each kind of dictionary once in a form that is refused.  *)
(***************************************************************************)
EXTENDS PythonBinding

MCWords == {"b", "c", "u", "n"}
MCBuiltIn == {"b"}
MCCoreWords == {"c"}
MCUserWords == {"u"}
MCSources == {"list", "empty"}
MCBinaries == {"compiled", "damaged"}
MCContent ==
  [d \in MCSources \cup MCBinaries |->
     CASE d = "list" -> {"n", "c"} [] d = "compiled" -> {"n"} [] OTHER -> {}]
MCBuilds ==
  { [mode |-> "normal", merge |-> FALSE, core |-> "loaded", user |-> "loaded"],
    [mode |-> "split", merge |-> TRUE, core |-> "skipped", user |-> "unavailable"] }
MCWarned == {"list"}
=============================================================================
