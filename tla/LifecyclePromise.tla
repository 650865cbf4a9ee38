--------------------------- MODULE LifecyclePromise ---------------------------
(***************************************************************************)
(* What a corporate action lifecycle promises (the rules listed at         *)
(* atreides/corporate_actions/lifecycle.py:13-22), without requests, dates *)
(* or a journal: the milestones reached and the status they give.          *)
(***************************************************************************)
CONSTANT Elective       \* the event offers its holders an election
VARIABLES reached, status

Init == reached = {} /\ status = "open"

Reach(m) == m \notin reached /\ reached' = reached \cup {m}

FixEntitlement == status = "open" /\ Reach("entitlement_fixed") /\ UNCHANGED status

CloseElections ==
    status = "open" /\ Elective /\ Reach("elections_closed") /\ UNCHANGED status

Pay ==
    /\ status = "open"
    /\ "entitlement_fixed" \in reached
    /\ Elective => "elections_closed" \in reached
    /\ Reach("paid")
    /\ status' = "paid"

Cancel == status = "open" /\ Reach("cancelled") /\ status' = "cancelled"

Reverse == status = "paid" /\ Reach("reversed") /\ status' = "reversed"

Next == FixEntitlement \/ CloseElections \/ Pay \/ Cancel \/ Reverse

Spec == Init /\ [][Next]_<<reached, status>>
=============================================================================
