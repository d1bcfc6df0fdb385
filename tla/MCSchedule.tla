------------------------------ MODULE MCSchedule ------------------------------
(* Schedule on a day of a few hours.                                         *)
EXTENDS Schedule
=============================================================================
