--------------------------- MODULE MCModelServing ---------------------------
(* Two folds of a study: samples 8 to 11 choose the policies, and what is      *)
(* said of a sample is one of two things.                                      *)
EXTENDS ModelServing, TLC

Sample(side, regime, label, gain) ==
    [type |-> "dip", setup |-> "mean_reversion", side |-> side, regime |-> regime,
     label |-> label, gain |-> gain]
Win  == Sample("BUY", "unknown", 1, 1200)
Loss == Sample("BUY", "unknown", 0, -1200)
Late == [Sample("BUY", "unknown", 0, 120) EXCEPT !.setup = "pullback_reclaim"]
In(regime, sample) == [sample EXCEPT !.regime = regime]
Short(sample) == [sample EXCEPT !.side = "SELL"]

Plain == [frequency |-> "none", rate |-> 0, mode |-> "probability", metric |-> "sharpe",
          negativeEV |-> FALSE, typed |-> FALSE, calibrated |-> FALSE, empirical |-> FALSE,
          adaptive |-> TRUE, floored |-> FALSE, directed |-> FALSE, long |-> TRUE]

MCSettings ==
    {[Plain EXCEPT !.typed = TRUE, !.empirical = TRUE],
     [Plain EXCEPT !.frequency = "online", !.rate = 2, !.mode = "return_first", !.typed = TRUE,
                   !.floored = TRUE, !.directed = TRUE],
     [Plain EXCEPT !.frequency = "online", !.rate = 1, !.typed = TRUE, !.calibrated = TRUE,
                   !.long = FALSE],
     [Plain EXCEPT !.frequency = "strict", !.rate = 4, !.mode = "expected_utility",
                   !.metric = "net_pnl", !.floored = TRUE, !.empirical = TRUE],
     [Plain EXCEPT !.frequency = "strict", !.rate = 3, !.mode = "expected_value",
                   !.metric = "calmar", !.negativeEV = TRUE, !.floored = TRUE],
     [Plain EXCEPT !.frequency = "quota", !.rate = 3, !.mode = "predicted_return",
                   !.floored = TRUE, !.directed = TRUE]}

MCKinds ==
    [s \in MCSettings |->
        {[i \in 1..MaxEvents |->
            CASE i = 8 -> a [] i = 9 -> b [] i = 10 -> c [] i = 11 -> d
              [] i = 12 -> IF s.long THEN Win ELSE Short(Loss)
              [] i = 13 -> In("trend", Win)
              [] i \in {2, 4, 6, 14} -> Win
              [] OTHER -> Loss] :
            a \in {Win, Loss, In("trend", Win)}, b \in {Late, In("trend", Loss)},
            c \in {Win, In("trend", Loss)},
            d \in {Loss, IF s.long THEN In("trend", Win) ELSE Short(Win)}}]

\* Where the return counts it need not agree with the probability.
Said(s, likely, high) ==
    [p |-> IF likely THEN 3 ELSE 1,
     r |-> CASE s.mode \in {"return_first", "expected_utility"} -> IF high THEN 1000 ELSE 400
             [] s.mode = "predicted_return" -> IF high THEN 400 ELSE -200
             [] OTHER -> 0]

MCPredictions ==
    [s \in MCSettings |->
        {[i \in 1..MaxEvents |-> Said(s, f[i % 5], f[(i + 2) % 5])] : f \in [0..4 -> BOOLEAN]}]

MCLive ==
    [s \in MCSettings |->
        {[id |-> 0, type |-> "dip", setup |-> "mean_reversion", side |-> "BUY",
          regime |-> regime] @@ Said(s, likely, likely) :
            regime \in {"unknown", "trend"}, likely \in BOOLEAN}]

MCOverrides == {{}, {2}}
=============================================================================
