----------------------------- MODULE MCSlaClock -----------------------------
(* Small instances of the clock and its pages for TLC: a rule that pauses   *)
(* on both holds and a tighter one that pauses on none.                     *)
EXTENDS ClockPages

mcRules == {[responseMinutes |-> 1, resolutionMinutes |-> 2,
             pauseOnWaitingParts |-> TRUE, pauseOnRevisitRequired |-> TRUE],
            [responseMinutes |-> 1, resolutionMinutes |-> 1,
             pauseOnWaitingParts |-> FALSE, pauseOnRevisitRequired |-> FALSE]}
=============================================================================
