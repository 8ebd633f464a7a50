--------------------------- MODULE MCScholarQueue ---------------------------
(* An instance of ScholarQueue for TLC: two phases are reported in any     *)
(* order, of which one is earlier than the other.                          *)
EXTENDS ScholarQueue

McReports == {"search", "retrieval"}
=============================================================================
