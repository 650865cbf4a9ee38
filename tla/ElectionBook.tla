----------------------------- MODULE ElectionBook -----------------------------
(***************************************************************************)
(* atreides/corporate_actions/election.py: one event's elections.  Every   *)
(* submission is journaled as accepted, refused or a duplicate, and the    *)
(* book is its journal.  Defaults are assigned from the book and recorded  *)
(* (record.py, record_defaults).  The date a submission carries is the day *)
(* its sender says it was received, and the book has no clock of its own.  *)
(***************************************************************************)
EXTENDS CorporateActionEvent, FiniteSetsExt

CONSTANTS Id, Account,
          Submission,     \* the submissions that may be made
          Balance,        \* the eligible balances of the holdings given
          MaxJournal,     \* bound on the journal
          MaxAssigned     \* bound on the assignments recorded

Instruction == [type : {"instruction"}, id : Id, account : Account, option : Option,
                quantity : Nat \ {0}, received : Date, protect : BOOLEAN]
Cover == [type : {"protect_cover"}, id : Id, covers : Id, account : Account,
          quantity : Nat \ {0}, received : Date]

ASSUME SubmissionAssumption == Submission \subseteq Instruction \cup Cover
ASSUME BalanceAssumption ==
    DOMAIN Balance \subseteq Account /\ \A a \in DOMAIN Balance : Balance[a] \in Int
ASSUME BoundAssumption == MaxJournal \in Nat /\ MaxAssigned \in Nat

RefusalOrder ==
    <<"not_elective", "before_announcement", "unknown_protect", "late_cover", "over_cover",
      "late", "options_not_stated", "unknown_option", "protect_not_offered">>
ElectionRefusal == {RefusalOrder[i] : i \in 1..9} \cup {"conflicting_duplicate"}

\* duplicate_of is the position of the submission a duplicate repeats.
ElectionEntry == [submission : Submission, outcome : {"accepted", "refused", "duplicate"},
                  refusal : ElectionRefusal \cup {"none"}, duplicate_of : Nat]

VARIABLES journal,      \* the book
          assigned      \* the default assignments recorded

vars == <<journal, assigned>>
-----------------------------------------------------------------------------
FirmDeadline == Event.election_deadline - Event.firm_lead_days

\* Mutant: only what was accepted counts as a first use of an identifier.
FirstAccepted(j, id) ==
    {i \in DOMAIN j : j[i].outcome = "accepted" /\ j[i].submission.id = id}

\* _first: the position of the first use of an identifier, if any.
First(j, id) ==
    LET uses == {i \in DOMAIN j : j[i].outcome # "duplicate" /\ j[i].submission.id = id}
    IN  {i \in uses : \A k \in uses : i <= k}

Accepted(j, type) ==
    {j[i].submission : i \in {k \in DOMAIN j :
        j[k].outcome = "accepted" /\ j[k].submission.type = type}}

\* elected_quantity: identifiers are unique among the accepted, so the set of
\* accepted submissions loses nothing.
Elected(j, account) ==
    MapThenSumSet(LAMBDA s : s.quantity,
                  {s \in Accepted(j, "instruction") : s.account = account})

CoversOf(j, id) == {c \in Accepted(j, "protect_cover") : c.covers = id}

Uncovered(j, s) == s.quantity - MapThenSumSet(LAMBDA c : c.quantity, CoversOf(j, s.id))

\* The accepted protect instruction a cover names, if any.
Protected(j, c) ==
    {s \in Accepted(j, "instruction") : s.id = c.covers /\ s.protect /\ s.account = c.account}

\* Mutant: each cover is compared with the whole instruction.
BreaksWithoutBalance(j, s, reason) ==
    CASE reason = "not_elective" -> ~Elective
      [] reason = "before_announcement" -> s.received < Event.announcement
      [] reason = "unknown_protect" -> s.type = "protect_cover" /\ Protected(j, s) = {}
      [] reason = "late_cover" -> s.type = "protect_cover"
            /\ Event.protect_deadline # None /\ s.received > Event.protect_deadline
      [] reason = "over_cover" -> s.type = "protect_cover"
            /\ \E i \in Protected(j, s) : s.quantity > i.quantity
      [] reason = "late" -> s.type = "instruction" /\ s.received > FirmDeadline
      [] reason = "options_not_stated" -> s.type = "instruction" /\ Event.options = {}
      [] reason = "unknown_option" -> s.type = "instruction" /\ s.option \notin Event.options
      [] reason = "protect_not_offered" -> s.type = "instruction" /\ s.protect
            /\ (Event.participation # "voluntary" \/ Event.protect_deadline = None)

\* The rules of _refusal: whether s breaks the one named by reason.
Breaks(j, s, reason) ==
    CASE reason = "not_elective" -> ~Elective
      [] reason = "before_announcement" -> s.received < Event.announcement
      [] reason = "unknown_protect" -> s.type = "protect_cover" /\ Protected(j, s) = {}
      [] reason = "late_cover" -> s.type = "protect_cover"
            /\ Event.protect_deadline # None /\ s.received > Event.protect_deadline
      [] reason = "over_cover" -> s.type = "protect_cover"
            /\ \E i \in Protected(j, s) : s.quantity > Uncovered(j, i)
      [] reason = "late" -> s.type = "instruction" /\ s.received > FirmDeadline
      [] reason = "options_not_stated" -> s.type = "instruction" /\ Event.options = {}
      [] reason = "unknown_option" -> s.type = "instruction" /\ s.option \notin Event.options
      [] reason = "protect_not_offered" -> s.type = "instruction" /\ s.protect
            /\ (Event.participation # "voluntary" \/ Event.protect_deadline = None)

\* The first rule broken, in the order the code asks.
Refusal(j, s) ==
    LET broken == {i \in 1..9 : Breaks(j, s, RefusalOrder[i])}
    IN  IF broken = {} THEN "none"
        ELSE RefusalOrder[CHOOSE i \in broken : \A k \in broken : i <= k]

Outcome(s, refusal) ==
    [submission |-> s, outcome |-> IF refusal = "none" THEN "accepted" ELSE "refused",
     refusal |-> refusal, duplicate_of |-> 0]

\* submit: the entry a submission makes.
Entry(j, s) ==
    IF First(j, s.id) = {} THEN Outcome(s, Refusal(j, s))
    ELSE LET first == CHOOSE i \in First(j, s.id) : TRUE
         IN  IF j[first].submission = s
             THEN [submission |-> s, outcome |-> "duplicate", refusal |-> "none",
                   duplicate_of |-> first]
             ELSE Outcome(s, "conflicting_duplicate")

\* rebuild_elections: the entries are what their submissions recompute to.
Rebuilds(j) == \A i \in DOMAIN j : j[i] = Entry(SubSeq(j, 1, i - 1), j[i].submission)
-----------------------------------------------------------------------------
\* One account's default, or the reason it has none.
AccountDefault(j, a) ==
    LET elected == Elected(j, a)
    IN  IF a \notin DOMAIN Balance
        THEN [quantity |-> None, refusal |-> "instructed_without_position"]
        ELSE IF elected > Balance[a] THEN [quantity |-> None, refusal |-> "over_instructed"]
        ELSE [quantity |-> Balance[a] - elected, refusal |-> "none"]

\* assign_defaults past its early returns: what every account receives.
Assignment(j, as_of) ==
    [as_of |-> as_of, option |-> Event.default,
     accounts |-> [a \in DOMAIN Balance \cup {s.account : s \in Accepted(j, "instruction")}
                     |-> AccountDefault(j, a)]]
-----------------------------------------------------------------------------
Init == journal = <<>> /\ assigned = {}

Submit(s) ==
    /\ Len(journal) < MaxJournal
    /\ journal' = Append(journal, Entry(journal, s))
    /\ UNCHANGED assigned

\* assign_defaults and record_defaults; it refuses a mandatory event, a day not
\* past the firm's deadline, and an announcement that states no default.
AssignDefaults(as_of) ==
    /\ Cardinality(assigned) < MaxAssigned
    /\ Elective
    /\ as_of > FirmDeadline
    /\ Event.default # None
    /\ assigned' = assigned \cup {Assignment(journal, as_of)}
    /\ UNCHANGED journal

Next ==
    \/ \E s \in Submission : Submit(s)
    \/ \E as_of \in Date : AssignDefaults(as_of)

Spec == Init /\ [][Next]_vars
-----------------------------------------------------------------------------
AllAccepted == {i \in DOMAIN journal : journal[i].outcome = "accepted"}

\* A retry is safe: an identifier used once, accepted or refused, is accepted
\* never again, whatever has happened to the book since; and a duplicate repeats
\* an earlier use of it, word for word, that was not itself a duplicate.
RetrySafe ==
    /\ \A i, k \in DOMAIN journal :
          i < k /\ journal[i].submission.id = journal[k].submission.id
              => journal[k].outcome # "accepted"
    /\ \A i \in DOMAIN journal :
          journal[i].outcome = "duplicate" =>
              /\ journal[i].duplicate_of \in 1..(i - 1)
              /\ journal[journal[i].duplicate_of].submission = journal[i].submission
              /\ journal[journal[i].duplicate_of].outcome # "duplicate"

\* The covers accepted against a protect instruction never exceed it, however
\* many there are and in whatever order they came, so the uncovered protect
\* balance is never negative; and each was accepted after its instruction.
CoversFit ==
    /\ \A s \in Accepted(journal, "instruction") : Uncovered(journal, s) >= 0
    /\ \A i \in AllAccepted :
          journal[i].submission.type = "protect_cover" =>
              \E k \in AllAccepted :
                  /\ k < i
                  /\ journal[k].submission.type = "instruction"
                  /\ journal[k].submission.protect
                  /\ journal[k].submission.id = journal[i].submission.covers
                  /\ journal[k].submission.account = journal[i].submission.account

\* The journal alone gives the book, a cut short or a changed outcome does not.
JournalRebuilds ==
    /\ Rebuilds(journal)
    /\ \A i \in DOMAIN journal :
          journal[i].outcome = "accepted" =>
              ~Rebuilds([journal EXCEPT ![i].outcome = "refused"])

\* An assignment gives each account with a position what it did not elect then,
\* never a negative quantity, and nothing to an account with no position.
DefaultsFitBalances ==
    \A d \in assigned : \A a \in DOMAIN d.accounts :
        d.accounts[a].refusal = "none" =>
            /\ a \in DOMAIN Balance
            /\ d.accounts[a].quantity \in 0..Balance[a]
=============================================================================
