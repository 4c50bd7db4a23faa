-------------------------- MODULE MC_PluginSession --------------------------
(***************************************************************************)
(* Instances of PluginSession for TLC.                                     *)
(***************************************************************************)
EXTENDS PluginSession

\* A plugin with hooks in every part of the lifecycle, one whose environment is
\* only undone by what it defers, one without a test scope of its own, and one
\* that implements nothing.
SomePlugins ==
  {{"provision_env", "setup_test", "run_test", "collect_diagnostics"} \cup TeardownHooks,
   {"validate", "seed", "setup_test", "verify", "teardown_test"},
   {"provision_env", "await_ready", "capture_baseline", "run_test", "teardown_env"},
   {}}

\* A plugin with both teardown hooks.
FullPlugin == {Hooks}
=============================================================================
