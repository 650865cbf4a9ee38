---------------------------- MODULE EquitiesBooks ----------------------------
(***************************************************************************)
(* atreides/books/ledger.py: the equities book of record.  Balanced        *)
(* entries are appended to a journal, at most one for each source event;   *)
(* the stock record is the sum of their lines, and it is verified against  *)
(* itself or against the locations a custodian reports, which raises       *)
(* breaks.  Lines of money are balanced like those of an issue and appear  *)
(* in no stock record: they are left out, and so are accounts, authority   *)
(* and dates, which the book keeps and never reads.                        *)
(***************************************************************************)
EXTENDS Integers, Sequences, FiniteSets, FiniteSetsExt, SequencesExt

CONSTANTS Issue, EntryId, SourceEvent,
          Draft,        \* the entries callers try to make
          Level,        \* the quantities a custodian reports
          MaxEntries    \* bound on the journal

NoEntry == "none"       \* reverses_entry_id is None
Line == [issue : Issue, side : {"ownership", "location"}, quantity : Int \ {0}]
EntryType == [id : EntryId, source : SourceEvent, reverses : EntryId \cup {NoEntry},
              lines : Seq(Line)]

ASSUME DraftAssumption == Draft \subseteq EntryType
ASSUME LevelAssumption == Level \subseteq Nat
ASSUME BoundAssumption == MaxEntries \in Nat
ASSUME NoEntryAssumption == NoEntry \notin EntryId

VARIABLES journal,      \* _entries; _by_source is the entry of each source in it
          breaks,       \* _breaks, each numbered when it was raised
          answer,       \* what the newest post returned
          verified      \* history: the difference each issue showed when last verified

bookVars == <<journal, breaks, answer, verified>>
-----------------------------------------------------------------------------
BothSides == {"ownership", "location"}

\* The signed total of an issue's lines on some sides of the record.
Total(lines, issue, sides) ==
    FoldLeft(LAMBDA sum, l : IF l.issue = issue /\ l.side \in sides
                             THEN sum + l.quantity ELSE sum, 0, lines)

\* _balanced_and_attributable: two lines or more, and each issue adds up to 0.
Balances(e) ==
    Len(e.lines) >= 2 /\ \A i \in Issue : Total(e.lines, i, BothSides) = 0

\* The entries that exist: a draft that does not balance is never built.
JournalEntry == {e \in Draft : Balances(e)}

Of(entries, source) == {k \in DOMAIN entries : entries[k].source = source}
Named(entries, id) == {k \in DOMAIN entries : entries[k].id = id}

\* What post answers for e, given the journal so far.
Outcome(entries, e) ==
    CASE Of(entries, e.source) # {} ->
            IF \E k \in Of(entries, e.source) : entries[k] = e THEN "duplicate" ELSE "conflict"
      [] e.reverses # NoEntry /\ Of(entries, e.source) = {}
                              /\ Named(entries, e.reverses) = {} -> "refused"
      [] OTHER -> "posted"

Journaled(entries, e) ==
    IF Outcome(entries, e) = "posted" THEN Append(entries, e) ELSE entries

\* quantities: the stock record, with the issues in the order they first appear.
LinesOf(entries) == FlattenSeq([k \in DOMAIN entries |-> entries[k].lines])
Issues(entries) ==
    FoldLeft(LAMBDA seen, l : IF l.issue \in Range(seen) THEN seen ELSE Append(seen, l.issue),
             <<>>, LinesOf(entries))
Ownership(i) == Total(LinesOf(journal), i, {"ownership"})
Location(i) == -Total(LinesOf(journal), i, {"location"})

\* The custodian's reports: a quantity for some of the issues, the others held
\* at nothing; or no report, and the book is compared with itself.
Itself == [kind |-> "itself"]
Observed == [kind : {"observed"}, held : UNION {[issues -> Level] : issues \in SUBSET Issue}]
Held(report, i) ==
    CASE report.kind = "itself" -> Location(i)
      [] report.kind = "observed" -> IF i \in DOMAIN report.held THEN report.held[i] ELSE 0
Difference(report, i) == Ownership(i) - Held(report, i)
-----------------------------------------------------------------------------
NoAnswer == [outcome |-> "none", asked |-> CHOOSE e \in Draft : TRUE]

BooksInit == journal = <<>> /\ breaks = {} /\ answer = NoAnswer /\ verified = <<>>

HasRoom(e) == Len(Journaled(journal, e)) <= MaxEntries

\* Mutant: the entry reversed is not looked for.
PostUnchecked(e) ==
    /\ Len(journal) < MaxEntries
    /\ journal' = IF Of(journal, e.source) = {} THEN Append(journal, e) ELSE journal
    /\ answer' = [outcome |-> Outcome(journal, e), asked |-> e]
    /\ UNCHANGED <<breaks, verified>>

\* Mutant: entries of one source are compared by their identifiers alone.
PostByName(e) ==
    /\ HasRoom(e)
    /\ journal' = Journaled(journal, e)
    /\ answer' = [outcome |-> IF \E k \in Of(journal, e.source) : journal[k].id = e.id
                              THEN "duplicate" ELSE Outcome(journal, e), asked |-> e]
    /\ UNCHANGED <<breaks, verified>>

\* post: appended, or answered from the entry already there; refused is the
\* ValueError raised for a reversal of an entry the journal does not have.
Post(e) ==
    /\ HasRoom(e)
    /\ journal' = Journaled(journal, e)
    /\ answer' = [outcome |-> Outcome(journal, e), asked |-> e]
    /\ UNCHANGED <<breaks, verified>>

\* The break of an issue, numbered after those known.
Break(known, report, i) ==
    [number |-> Cardinality(known) + 1, issue |-> i, ownership |-> Ownership(i),
     location |-> Held(report, i), difference |-> Difference(report, i)]

\* Mutant: a break once raised is left as it was.
CompareKeeping(known, report, i) ==
    IF Difference(report, i) = 0 \/ \E b \in known : b.issue = i
    THEN known ELSE known \cup {Break(known, report, i)}

\* One turn of the loop: a changed difference replaces the break of the issue
\* (removed, then raised anew), and a difference gone changes nothing.
Compare(known, report, i) ==
    LET others == {b \in known : b.issue # i}
    IN  IF \/ Difference(report, i) = 0
           \/ \E b \in known \ others : b.difference = Difference(report, i)
        THEN known ELSE others \cup {Break(others, report, i)}

\* verify_stock_record, issue by issue in the order of the record.
Verify(report) ==
    /\ breaks' = FoldLeft(LAMBDA known, i : Compare(known, report, i), breaks, Issues(journal))
    /\ verified' = [i \in Range(Issues(journal)) |-> Difference(report, i)]
    /\ UNCHANGED <<journal, answer>>

BooksNext ==
    \/ \E e \in JournalEntry : Post(e)
    \/ \E report \in Observed \cup {Itself} : Verify(report)

BooksSpec == BooksInit /\ [][BooksNext]_bookVars
-----------------------------------------------------------------------------
\* ledger.py:187: "serialized entries are the durable record".  Posting them in
\* order to a fresh book posts every one, so no source is in the journal twice
\* and every reversal comes after the entry it names, however calls arrived.
ReplayRebuilds ==
    \A k \in DOMAIN journal : Outcome(SubSeq(journal, 1, k - 1), journal[k]) = "posted"

\* A caller that lost an answer may post again and believe what it is told: the
\* entry is in the journal as given; or another of its source is; or neither is.
AnswersAreTrue ==
    LET e == answer.asked
        sameSource == {journal[k] : k \in Of(journal, e.source)}
    IN  CASE answer.outcome \in {"posted", "duplicate"} -> sameSource = {e}
          [] answer.outcome = "conflict" -> sameSource # {} /\ e \notin sameSource
          [] answer.outcome = "refused" -> sameSource = {} /\ Named(journal, e.reverses) = {}
          [] OTHER -> journal = <<>>

\* After any sequence of reports, each issue that differed when it was last
\* verified has exactly one break, of that difference.
DifferencesAreRaised ==
    \A i \in DOMAIN verified : verified[i] # 0 =>
        \E b \in breaks : b.difference = verified[i] /\ {c \in breaks : c.issue = i} = {b}
=============================================================================
