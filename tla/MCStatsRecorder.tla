--------------------------- MODULE MCStatsRecorder ---------------------------
(***************************************************************************)
(* Small instances of the recorder over its backends: two codes and a      *)
(* channel of one place, so that it is full after one hit, more hits than  *)
(* one flush merges, and a retention of one day, so that yesterday's table *)
(* is the last one a late query may still see.                             *)
(***************************************************************************)
EXTENDS StatsDays

=============================================================================
