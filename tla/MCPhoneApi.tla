------------------------------- MODULE MCPhoneApi -------------------------------
(***************************************************************************)
(* Instances of PhoneApi for TLC.                                           *)
(***************************************************************************)
EXTENDS PhoneApi

CONSTANTS gateway, phone, self, n1, n2, n3, text, telemetry
=================================================================================
