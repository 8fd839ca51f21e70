------------------------------ MODULE MCAlarm -------------------------------
(* A small instance of Alarm for TLC. *)
EXTENDS Alarm

=============================================================================
