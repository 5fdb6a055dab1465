------------------------- MODULE MCMemoryAccounting -------------------------
(* The instances of MCMemoryBackend with the accounting history added. *)
EXTENDS MCMemoryBackend, MemoryAccounting

=============================================================================
