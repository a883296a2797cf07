--------------------------- MODULE MCMemoryBackend ---------------------------
(***************************************************************************)
(* Small instances of MemoryBackend: two batches, and a pool that asks for *)
(* a refill as soon as it is empty.                                        *)
(***************************************************************************)
EXTENDS MemoryBackend

=============================================================================
