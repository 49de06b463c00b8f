---------------------------- MODULE MCHeadroom ----------------------------
(***************************************************************************)
(* Instances of Headroom for TLC.  One unit of power is 500 W.             *)
(***************************************************************************)
EXTENDS Headroom

AutoRow == [mode |-> "auto", adapt |-> TRUE, base |-> 5, min |-> 3, off |-> 1,
            ref |-> 2, nominal |-> 4, run |-> 6]

Weather(prod, house, draw, sun, remaining, metered, inverter) ==
    [prod |-> prod, house |-> house, draw |-> draw, sun |-> sun, remaining |-> remaining,
     metered |-> metered, inverter |-> inverter]

\* More than the threshold, between the two without and above with a forecast, and
\* with an inverter that falls silent.
Day == {Weather(7, 1, 6, TRUE, NULL, TRUE, TRUE), Weather(7, 2, 6, TRUE, 2, TRUE, TRUE),
        Weather(7, 2, 6, TRUE, NULL, TRUE, FALSE)}
Night == {Weather(0, 1, 2, FALSE, NULL, TRUE, TRUE)}
Blind == {Weather(7, 1, 6, TRUE, NULL, FALSE, TRUE)}

\* One window sees one switch: the median of two or three samples is clean.
ASSUME RobustAssumption == Robust

SunAndMoon == Day \union Night \union Blind

=============================================================================
