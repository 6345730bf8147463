---------------------------- MODULE MCGetBlocks ----------------------------
(* Model-checking instance of GetBlocks: requests over indexes 0..4 on a  *)
(* chain of up to 4 blocks, two blocks per request, 8-bit indexes.        *)
EXTENDS GetBlocks
=============================================================================
