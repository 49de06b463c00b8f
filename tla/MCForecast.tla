----------------------------- MODULE MCForecast -----------------------------
(***************************************************************************)
(* Instances of Forecast for TLC.                                          *)
(***************************************************************************)
EXTENDS Forecast

\* The plant produces, and the counter may be reset on the way.
SomeIntervals ==
    [before : 0..2, reset : {FALSE}, after : {0}, days : 0..1]
    \union [before : 0..1, reset : {TRUE}, after : 0..1, days : 0..1]

SomePotentials == {0, 2, 3}
TooMuchOrNothing == {Percent(0), Percent(150)}

=============================================================================
