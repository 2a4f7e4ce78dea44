---------------------------- MODULE MCDetectors -----------------------------
EXTENDS Detectors

\* The tiers of tool_loops.py, scaled down with the window: the critical count of
\* the category "meta" is the size of the window there as well.
MCWorkTiers == [critical |-> [exact |-> 3, name |-> 4],
                warning  |-> [exact |-> 2, name |-> 3],
                info     |-> [exact |-> 2, name |-> 0]]
MCMetaTiers == [critical |-> [exact |-> 4, name |-> 0],
                warning  |-> [exact |-> 3, name |-> 0],
                info     |-> [exact |-> 2, name |-> 0]]
MCToolCalls == ({"search"} \X {"v", "w", "x", "y"}) \cup {<<"report", "x">>}
=============================================================================
