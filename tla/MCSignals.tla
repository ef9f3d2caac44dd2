------------------------------ MODULE MCSignals ------------------------------
EXTENDS Signals

\* Two exchanges: B's is closed on the third date.
TwoCalendars == [i \in Instruments |-> IF i = "A" THEN Sessions ELSE Sessions \ {3}]

\* A misses two sessions and has its last still to come.  The second, filled in
\* after the fifth, counts towards the history of the fifth, which its run does
\* not reach.  The third, filled in, moves the composite of the fourth: a row of
\* B rests on it that the run overlooks.
Stored == [i \in Instruments |-> IF i = "A" THEN {1, 4} ELSE {1, 2, 4, 5}]
Late == [i \in Instruments |-> IF i = "A" THEN {2, 3, 5} ELSE {2}]

\* A's first bar of the last session makes a label the strategy does not know.
UnknownLabel == {<<"A", 5, 1>>}
=============================================================================
