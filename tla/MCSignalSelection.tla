-------------------------- MODULE MCSignalSelection --------------------------
(* TLC values for SignalSelection: a cfg cannot write a record. *)
EXTENDS SignalSelection

Of(hold, score, group, side, notional, gates) ==
    [hold |-> hold, score |-> score, group |-> group, side |-> side,
     notional |-> notional, gates |-> gates]

SomeKinds ==
    {Of(1, 1, "range", "BUY", 3, "all"), Of(3, 2, "range", "BUY", 2, "all"),
     Of(3, 2, "trend", "SELL", 2, "all"), Of(3, 3, "trend", "BUY", 2, "score")}
==============================================================================
