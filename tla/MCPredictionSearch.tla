------------------------- MODULE MCPredictionSearch -------------------------
(* Node counts in every band of generateMaxNode but the missing one, and   *)
(* needs below, between and above the guesses made from them.              *)
EXTENDS PredictionSearch

MCRequested == {0, 1, 2, 3, 7, 60, 101, 300, 1001, 4005}
MCNeeds == 0..24 \cup {59, 60, 61, 119, 120, 121, 122, 200, 201, 202, 350, 999, 1001,
                       1002, 1300, 1301, 1302, 4005, 4006, 5606, 5607, 5700}
MCGap == 3001..3003
=============================================================================
