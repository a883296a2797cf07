--------------------------- MODULE MCLinkLifecycle ---------------------------
(***************************************************************************)
(* Small instances of LinkLifecycle.  A year is one day long, and links    *)
(* are created and renewed for one day, so that a code can be linked,      *)
(* expired, recycled and linked again.                                     *)
(***************************************************************************)
EXTENDS LinkLifecycle

=============================================================================
