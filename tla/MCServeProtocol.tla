--------------------------- MODULE MCServeProtocol ---------------------------
(***************************************************************************)
(* Instances of ServeProtocol for TLC: a few requests, interchangeable     *)
(* within the streaming ones.                                              *)
(***************************************************************************)
EXTENDS ServeProtocol, TLC

Interchangeable == Permutations(Streaming) \cup Permutations(Requests \ Streaming)
=============================================================================
