---------------------------- MODULE MCAlarmSwitch ----------------------------
(***************************************************************************)
(* An instance of AlarmSwitch for TLC with a clock of four bits.           *)
(***************************************************************************)
EXTENDS AlarmSwitch
=============================================================================
