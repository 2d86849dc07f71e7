---------------------------- MODULE MCBufferPool ----------------------------
(* BufferPool for TLC: two frames for up to four pages, so that the pool   *)
(* fills, evicts, reuses deleted frames and runs out.                      *)
EXTENDS BufferPool
=============================================================================
