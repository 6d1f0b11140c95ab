----------------------------- MODULE MCEventLoop -----------------------------
(****************************************************************************)
(* EventLoop for TLC: the loop thread and the foreign threads are model     *)
(* values, the bounds are in the cfg files.                                 *)
(****************************************************************************)
EXTENDS EventLoop, TLC
==============================================================================
