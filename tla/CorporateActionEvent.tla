------------------------- MODULE CorporateActionEvent -------------------------
(***************************************************************************)
(* One announced corporate action (atreides/corporate_actions/events.py)   *)
(* with the firm's policy of when its own deadline is.  A date is a number *)
(* of days; what the announcement does not state is None.                  *)
(***************************************************************************)
EXTENDS Integers, Sequences, FiniteSets

CONSTANTS Date, Option,
          Event     \* the announced event, with the firm's policy

None == -1

EventType ==
    [participation : {"mandatory", "voluntary", "mandatory_with_choice"},
     announcement : Date, election_deadline : Date \cup {None},
     protect_deadline : Date \cup {None}, options : SUBSET Option,
     default : Option \cup {None}, firm_lead_days : Nat \ {0}]

Elective == Event.participation # "mandatory"

\* What the event's own validators hold it to.
ASSUME EventAssumption ==
    /\ Event \in EventType
    /\ Elective = (Event.election_deadline # None)
    /\ Event.protect_deadline # None =>
          /\ Event.participation = "voluntary"
          /\ Event.protect_deadline >= Event.election_deadline
    /\ ~Elective => Event.options = {} /\ Event.default = None
    /\ Event.default \in Event.options \cup {None}
ASSUME DateAssumption == Date \subseteq Nat
=============================================================================
