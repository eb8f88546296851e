---------------------------- MODULE MCDebugShell ----------------------------
(* DebugShell for TLC: commands print nothing, or a line that wraps or not.*)
EXTENDS DebugShell

SomeOutputs == {<<>>, <<"o", LF>>, <<"o", "_", "o", "o", LF>>}
=============================================================================
