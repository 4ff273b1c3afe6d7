------------------------------ MODULE MCDataset ------------------------------
(* Bars of few shapes, at the places where a rule can tell them apart. *)
EXTENDS Dataset

Bar(high, low, close, volume) ==
    [open |-> 0, high |-> high, low |-> low, close |-> close, volume |-> volume]
flat  == Bar(10, -10, 0, 100)
up    == Bar(62, -2, 58, 130)
surge == Bar(165, 0, 160, 150)
down  == Bar(2, -75, -60, 130)
drop  == Bar(0, -185, -180, 150)
crash == Bar(0, -360, -350, 150)
sweep == Bar(30, -90, 20, 150)

\* The windows keep their order: two, three or five bars.
MCW == [n \in Windows |-> IF n < 168 THEN 2 ELSE IF n \in {168, 240} THEN 3 ELSE 5]

MCShapes ==
    [m \in CandidateModes |-> [i \in 1..(MaxBars + 1) |->
        IF i <= 3 \/ m = "dense_research" THEN {flat}
        ELSE CASE i = 4 -> {flat, drop}
               [] i = 5 -> {flat, up, down, drop}
               [] i \in 6..7 -> {flat, up, surge, down, sweep, drop, crash}
               [] OTHER -> {flat, down}]]

MCGaps == [m \in CandidateModes |-> IF m = "dense_research" THEN {0, Interval} ELSE {0}]

MCAsof == [m \in CandidateModes |->
              IF m = "dense_research" THEN {"signal", "entry"} ELSE {"signal"}]
=============================================================================
