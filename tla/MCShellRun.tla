----------------------------- MODULE MCShellRun -----------------------------
(* ShellRun with a budget of three ticks.                                     *)
EXTENDS ShellRun
=============================================================================
