------------------------------ MODULE MCFeeder ------------------------------
(* Values for model checking SharedPanel: keys and commands by theme,      *)
(* because all of them at once, with a clock, are too many states for one  *)
(* run.                                                                    *)
EXTENDS SharedPanel, TLC

EditPresses   == {{}, {0}, {3}, {4}, {5}}
ClockPresses  == {{}, {1}, {3}}
RacePresses   == {{}, {0}, {3}}

EditCommands  == {<<"A", 0>>, <<"A", 9>>, <<"B", 1>>, <<"I", 0>>, <<"H", 0>>,
                  <<"E", 0>>}
ClockCommands == {<<"C", 1>>, <<"B", 0>>, <<"D", 0>>, <<"G", 0>>}
RaceCommands  == {<<"H", 0>>, <<"D", 0>>}

MCInitSetting == PERCENT_FOOD :> 2 @@ PERIOD_FOOD :> 1 @@ PERIOD_WATER :> 1
=============================================================================
