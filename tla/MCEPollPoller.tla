---------------------------- MODULE MCEPollPoller ----------------------------
(****************************************************************************)
(* EPollPoller for TLC.                                                     *)
(****************************************************************************)
EXTENDS EPollPoller, TLC

Symmetry == Permutations(Channels) \cup Permutations(Fds) \cup Permutations(Users)
==============================================================================
