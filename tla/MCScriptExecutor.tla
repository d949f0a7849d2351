--------------------------- MODULE MCScriptExecutor ---------------------------
(***************************************************************************)
(* Two images with a fragment of a transition between them.                *)
(***************************************************************************)
EXTENDS ScriptExecutor

TestEvents == <<"set", "fragment", "set">>

===============================================================================
