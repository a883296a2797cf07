----------------------------- MODULE MCPoolLock -----------------------------
(***************************************************************************)
(* Small instances of PoolLock: three workers, two of which may find the   *)
(* lock of a dead one expired, and a lock of four ticks that clocks see    *)
(* with two ticks of difference.                                           *)
(***************************************************************************)
EXTENDS PoolLock

=============================================================================
