----------------------------- MODULE MatchCount -----------------------------
(***************************************************************************)
(* What one call of ApexEngine::execute_parallel promises its caller, with *)
(* no threads in sight: the call answers once.  It answers with the exact  *)
(* number of hits of the scan, or - when some of the scan's work was lost  *)
(* to a failed allocation - with some smaller number, or the process dies. *)
(***************************************************************************)
EXTENDS Naturals

VARIABLES
    hits,           \* the number of lanes the whole scan counts (an input)
    status,         \* "running", "returned" or "terminated"
    answer,         \* the value returned to the caller
    lost            \* TRUE once part of the work has been given up

mvars == <<hits, status, answer, lost>>

Init ==
    /\ hits \in Nat
    /\ status = "running"
    /\ answer = 0
    /\ lost = FALSE

LoseWork ==
    /\ status = "running"
    /\ lost' = TRUE
    /\ UNCHANGED <<hits, status, answer>>

Answer ==
    /\ status = "running"
    /\ status' = "returned"
    /\ IF lost THEN answer' \in 0 .. hits ELSE answer' = hits
    /\ UNCHANGED <<hits, lost>>

Terminate ==
    /\ status = "running"
    /\ status' = "terminated"
    /\ UNCHANGED <<hits, answer, lost>>

Next == LoseWork \/ Answer \/ Terminate

Spec == Init /\ [][Next]_mvars
=============================================================================
