---------------------------- MODULE MCBufferPool ----------------------------
(* Two clients and three blocks over two buffers: hits, evictions of clean *)
(* and dirty pages, a full pool, two pins by one client and by both.       *)
EXTENDS BufferPool, TLC

MCSymmetry == Permutations(Tx) \cup Permutations(Block)
=============================================================================
