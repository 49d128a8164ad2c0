------------------------- MODULE MCMaintenanceWindow -------------------------
(* MaintenanceWindow for TLC: windows whose schedules differ in kind. *)
EXTENDS MaintenanceWindow

\* The ticks after which schedules repeat.
Period == 12

\* At these ticks of every period, to the end and far enough past it.
Of(starts, lasts) ==
    [starts |-> {s \in 0..(Horizon + 2 * Period) : s % Period \in starts}, lasts |-> lasts]

\* Short, adjoining it, adjoining itself, overlapping itself, and unreadable in
\* either half.
MCWindows ==
    {Of({7}, 4), Of({4}, 3), Of({2, 5}, 3), Of({0}, 14), Of({9}, Unparsable),
     [starts |-> Unparsable, lasts |-> 4]}

\* The same with "0 0 30 2 *", which parses and never fires.
WithNever == {Of({7}, 4), Of({}, 4)}
=============================================================================
