----------------------- MODULE CorporateActionLifecycle -----------------------
(***************************************************************************)
(* atreides/corporate_actions/lifecycle.py: one event's lifecycle, every   *)
(* request made of it journaled with what it did, and the journal's replay *)
(* (rebuild).  A source is whose word a request is on, and stands for the  *)
(* provenance and the source identity.                                     *)
(***************************************************************************)
EXTENDS CorporateActionEvent

CONSTANTS Source,      \* the sources a request may come from
          MaxJournal   \* bound on the journal

Milestone == {"entitlement_fixed", "elections_closed", "paid", "cancelled", "reversed"}
Status == {"open", "paid", "cancelled", "reversed"}
RefusalOrder ==
    <<"ended", "before_announcement", "before_previous_milestone", "not_paid",
      "already_paid", "already_reached", "not_elective", "entitlement_not_fixed",
      "elections_open">>
RefusalReason == {RefusalOrder[i] : i \in 1..9}

TransitionRequest == [milestone : Milestone, effective_date : Date, source : Source]
NoDate == -1
LifecycleState == [status : Status, reached : Seq(Milestone),
                   last_effective_date : Date \cup {NoDate}]
TransitionEntry == [sequence : Nat, request : TransitionRequest,
                    refusal : RefusalReason \cup {"none"},
                    before : LifecycleState, after : LifecycleState]

VARIABLES state, journal

vars == <<state, journal>>

InitialState == [status |-> "open", reached |-> <<>>, last_effective_date |-> NoDate]
-----------------------------------------------------------------------------
Reached(s) == {s.reached[i] : i \in DOMAIN s.reached}

\* Mutant: payment does not wait for the entitlement.
RulesWithoutFixing(s, r) ==
    [ended |-> s.status \in {"cancelled", "reversed"},
     before_announcement |-> r.effective_date < Event.announcement,
     before_previous_milestone |-> r.effective_date < s.last_effective_date,
     not_paid |-> r.milestone = "reversed" /\ s.status # "paid",
     already_paid |-> r.milestone = "cancelled" /\ s.status = "paid",
     already_reached |-> r.milestone \in Reached(s),
     not_elective |-> r.milestone = "elections_closed" /\ ~Elective,
     entitlement_not_fixed |-> FALSE,
     elections_open |-> r.milestone = "paid" /\ Elective
                          /\ "elections_closed" \notin Reached(s)]

\* The rules of _refusal, by the reason each gives: which of them r breaks.
Rules(s, r) ==
    [ended |-> s.status \in {"cancelled", "reversed"},
     before_announcement |-> r.effective_date < Event.announcement,
     before_previous_milestone |-> r.effective_date < s.last_effective_date,
     not_paid |-> r.milestone = "reversed" /\ s.status # "paid",
     already_paid |-> r.milestone = "cancelled" /\ s.status = "paid",
     already_reached |-> r.milestone \notin {"cancelled", "reversed"}
                           /\ r.milestone \in Reached(s),
     not_elective |-> r.milestone = "elections_closed" /\ ~Elective,
     entitlement_not_fixed |-> r.milestone = "paid" /\ "entitlement_fixed" \notin Reached(s),
     elections_open |-> r.milestone = "paid" /\ Elective
                          /\ "elections_closed" \notin Reached(s)]

Breaks(s, r) == {reason \in RefusalReason : Rules(s, r)[reason]}

\* The reason reported is the first, in the order the code asks.
Refusal(s, r) ==
    IF Breaks(s, r) = {} THEN "none"
    ELSE RefusalOrder[CHOOSE i \in 1..9 :
            /\ RefusalOrder[i] \in Breaks(s, r)
            /\ \A j \in 1..(i - 1) : RefusalOrder[j] \notin Breaks(s, r)]

\* _STATUS_AFTER
StatusAfter(s, m) == IF m \in Status THEN m ELSE s.status

After(s, r) ==
    IF Breaks(s, r) # {} THEN s
    ELSE [status |-> StatusAfter(s, r.milestone),
          reached |-> Append(s.reached, r.milestone),
          last_effective_date |-> r.effective_date]

\* _step: the entry a request makes.
Step(s, sequence, r) ==
    [sequence |-> sequence, request |-> r, refusal |-> Refusal(s, r),
     before |-> s, after |-> After(s, r)]

\* The state that entry i of journal j starts from.
StateBefore(j, i) == IF i = 1 THEN InitialState ELSE j[i - 1].after

\* Mutant: replay does not look at the sequence numbers.
RebuildsUnnumbered(j) ==
    \A i \in DOMAIN j :
        j[i] = Step(StateBefore(j, i), j[i].sequence, j[i].request)

\* rebuild: each entry is what its request recomputes to, in its place.
Rebuilds(j) ==
    \A i \in DOMAIN j : j[i] = Step(StateBefore(j, i), i - 1, j[i].request)
-----------------------------------------------------------------------------
Init == state = InitialState /\ journal = <<>>

\* Lifecycle.request
Request(r) ==
    /\ Len(journal) < MaxJournal
    /\ LET entry == Step(state, Len(journal), r)
       IN  /\ state' = entry.after
           /\ journal' = Append(journal, entry)

Next == \E r \in TransitionRequest : Request(r)

Spec == Init /\ [][Next]_vars
-----------------------------------------------------------------------------
TypeOK ==
    /\ state \in LifecycleState
    /\ journal \in Seq(TransitionEntry)

\* The journal alone gives the state: replaying it is accepted and ends where
\* the lifecycle stands (lifecycle.py:31-35, rebuild).
JournalRebuilds ==
    /\ Rebuilds(journal)
    /\ state = StateBefore(journal, Len(journal) + 1)

\* Whatever was paid had its entitlement fixed and, on an elective event, its
\* elections closed, in the milestones recorded before it.
PaidInOrder ==
    \A i \in DOMAIN state.reached :
        state.reached[i] = "paid" =>
            LET earlier == {state.reached[k] : k \in 1..(i - 1)}
            IN  /\ "entitlement_fixed" \in earlier
                /\ Elective => "elections_closed" \in earlier

\* "After payment the only change is a reversal": no rule of the code asks
\* whether the event is paid before fixing an entitlement or closing elections;
\* it holds because payment needed both, and each is recorded once.
AfterPaymentOnlyReversal ==
    [][state.status = "paid" => state' = state \/ state'.status = "reversed"]_vars

Swapped(i, k) == [journal EXCEPT ![i] = journal[k], ![k] = journal[i]]
Without(i) == SubSeq(journal, 1, i - 1) \o SubSeq(journal, i + 1, Len(journal))

\* A journal reordered, or truncated in the middle, does not rebuild, nor does
\* one whose entry says another outcome than the one that happened
\* (lifecycle.py:33-35).  A journal rebuilds only if its prefixes do, so it is
\* enough to tamper with the newest entry of each.
TamperingShows ==
    LET last == Len(journal)
    IN  /\ \A i \in 1..(last - 1) : ~Rebuilds(Swapped(i, last))
        /\ last > 1 => ~Rebuilds(Without(last - 1))
        /\ \A reason \in RefusalReason \cup {"none"} :
              last > 0 /\ reason # journal[last].refusal =>
                  ~Rebuilds([journal EXCEPT ![last].refusal = reason])

\* The lifecycle implements what it promises.
Promise == INSTANCE LifecyclePromise
             WITH reached <- Reached(state), status <- state.status

Implements == Promise!Spec
=============================================================================
