---------------------------- MODULE MCOnboarding ----------------------------
(* Two devices fill the queue, so that a retry finds it full. The gateway of  *)
(* these runs serves the joiners' URLs, and their clocks agree with its own.  *)
EXTENDS Onboarding
=============================================================================
