---------------------------- MODULE MCUsageGate -----------------------------
(* Small instances of UsageGate for TLC. *)
EXTENDS UsageGate

CONSTANTS s1, s2

Event(w, rejected, level, resetsAt) ==
    [window |-> w, rejected |-> rejected, level |-> level, resetsAt |-> resetsAt]
Reading(w, level, resetsAt) == [window |-> w, level |-> level, resetsAt |-> resetsAt]

\* A limit whose event names no window, one without a reset, the event that
\* ends a limit, and a reading of another window.
SomeEvents == {Event("none", TRUE, "none", 3), Event("five_hour", TRUE, "none", 0),
               Event("five_hour", FALSE, "low", 3)}
SomeReadings == {Reading("weekly", "high", 3)}
=============================================================================
