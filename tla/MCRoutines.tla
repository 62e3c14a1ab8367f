----------------------------- MODULE MCRoutines -----------------------------
(* Small instances of Routines for TLC. *)
EXTENDS Routines

CONSTANTS a, b

Interval   == {1, 2, 3}
OnceLater  == {2}
AllKinds   == {Interval, OnceLater}
Twice      == {1, 2}
TwiceOnly  == {Twice}

AllEndings  == {"succeeded", "failed", "delivery_error", "provider_unavailable"}
SuccessOnly == {"succeeded"}
=============================================================================
