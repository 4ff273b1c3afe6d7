---------------------------- MODULE MCExperiments ----------------------------
(* Two experiments, one behind the strict flag, and perhaps a file that is  *)
(* no result in the place of the other; the replay data are good, of too    *)
(* short a window, or bars that ticks do not back.                          *)
EXTENDS Experiments

MCSuite == <<"strict", "plain">>

Good == [label |-> "1s", execution |-> "1s", labelTicks |-> TRUE,
         executionTicks |-> TRUE, days |-> 7, folds |-> 2]

MCReplays == {Good, [Good EXCEPT !.days = 0], [Good EXCEPT !.labelTicks = FALSE]}
=============================================================================
