-------------------------- MODULE MCPreviewLifecycle --------------------------
(* A small instance of PreviewLifecycle for TLC: a feature build and a     *)
(* test run.                                                               *)
EXTENDS PreviewLifecycle

CONSTANTS build, test

BuildAndTest == {build, test}
OnlyTest     == {test}
=============================================================================
