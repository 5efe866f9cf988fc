------------------------------ MODULE MCDpiEvents ------------------------------
(* The sources of a checked instance of DpiEvents.                              *)
EXTENDS DpiEvents

Source(t, s, o) == [tracked |-> t, shared |-> s, observes |-> o]

\* A tracked source, shared with the cycler or not, and a legacy one.
TrackedAndLegacy == {Source(TRUE, TRUE, TRUE), Source(TRUE, FALSE, FALSE),
                     Source(FALSE, FALSE, TRUE)}

OneShared == {Source(TRUE, TRUE, FALSE)}
================================================================================
