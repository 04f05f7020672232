---------------------------- MODULE MCWasmBinding ----------------------------
(***************************************************************************)
(* Three calls: two may share a runtime while the third joins late, asks   *)
(* for its own, only wants the version, or brings a precompiled module.    *)
(***************************************************************************)
EXTENDS WasmBinding

MCRequests ==
  { [key |-> "path", fresh |-> FALSE, what |-> "create"],
    [key |-> "path", fresh |-> TRUE, what |-> "create"],
    [key |-> "path", fresh |-> FALSE, what |-> "version"],
    [key |-> "precompiled", fresh |-> FALSE, what |-> "create"] }
=============================================================================
