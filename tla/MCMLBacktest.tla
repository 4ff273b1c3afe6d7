---------------------------- MODULE MCMLBacktest ----------------------------
(* TLC values for MLBacktest: a cfg cannot write a negative number. *)
EXTENDS MLBacktest

WinOrLoseTen == {-10, 10}
==============================================================================
