------------------------ MODULE MCCalendarProposals ------------------------
(* Constants of CalendarProposals for model checking.                      *)
EXTENDS CalendarProposals, TLC

MCSymmetry == Permutations(Sessions) \cup Permutations(Times)
=============================================================================
