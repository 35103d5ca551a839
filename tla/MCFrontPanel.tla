--------------------------- MODULE MCFrontPanel ---------------------------
(* Values for model checking FrontPanel.  The ranges keep the order of the *)
(* real ones: SecondsPerMinute - 1 lies below PercentMax and twice that    *)
(* above it, as 59 < 99 < 118 do.                                          *)
EXTENDS FrontPanel, TLC

MCPresses == {{}, {0}, {1}, {2}, {3}, {4}, {5}, {0, 1}}

MCInitSetting == PERCENT_FOOD :> 1 @@ PERIOD_FOOD :> 1 @@ PERIOD_WATER :> 1
=============================================================================
