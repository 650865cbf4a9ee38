---------------------------- MODULE CorporateAction ----------------------------
(***************************************************************************)
(* One elective event as its records tell it                               *)
(* (atreides/corporate_actions/record.py): its lifecycle and its election  *)
(* book, which do not know of each other, and the records assembled from   *)
(* both.  A record is admissible, not written: whether the caller keeps it *)
(* is its own affair.  Elections are not reconciled with payments, so a    *)
(* behavior is of the elections of this event or of the payment of         *)
(* another one, and leaves the other part as it began.                     *)
(***************************************************************************)
EXTENDS ElectionBook, CorporateActionPayment

CONSTANTS Source, MaxRequests,
          MaxEntries,   \* bound on requests, submissions and assignments together
          MaxLost       \* bound on the records the caller does not keep

VARIABLES state, requests,  \* the lifecycle and its journal
          records,          \* the records the caller kept
          lost,             \* how many it did not
          part              \* which part of it this is

elections == <<state, requests, journal, assigned, records, lost>>
payment == <<event, holdings, moved>>

Lifecycle == INSTANCE CorporateActionLifecycle
               WITH MaxJournal <- MaxRequests, journal <- requests

Record(body, sequence, entry) == [body |-> body, sequence |-> sequence, entry |-> entry]

\* The caller keeps the record, or it never reaches the store.
KeptOrLost(record) ==
    \/ records' = records \cup {record} /\ UNCHANGED lost
    \/ lost < MaxLost /\ lost' = lost + 1 /\ UNCHANGED records

Bounded == Len(requests) + Len(journal) + Cardinality(assigned) < MaxEntries

RecordRequest(r) ==
    /\ Bounded
    /\ Lifecycle!Request(r)
    /\ KeptOrLost(Record("lifecycle_transition", Len(requests), requests'[Len(requests')]))
    /\ UNCHANGED <<journal, assigned>>

RecordSubmission(s) ==
    /\ Bounded
    /\ Submit(s)
    /\ KeptOrLost(Record("election", Len(journal), journal'[Len(journal')]))
    /\ UNCHANGED <<state, requests>>

RecordDefaults(as_of) ==
    /\ Bounded
    /\ AssignDefaults(as_of)
    /\ KeptOrLost(Record("default_assignment", 0, Assignment(journal, as_of)))
    /\ UNCHANGED <<state, requests>>

EventInit ==
    /\ part \in {"elections", "payment"}
    /\ Init /\ Lifecycle!Init /\ records = {} /\ lost = 0
    /\ PaymentInit
    /\ part = "elections" => event = CHOOSE e \in PaidEvent : TRUE
    /\ part = "elections" => holdings = CHOOSE hs \in Holding : HoldingsFit(event, hs)

ElectionsNext ==
    \/ \E r \in Lifecycle!TransitionRequest : RecordRequest(r)
    \/ \E s \in Submission : RecordSubmission(s)
    \/ \E as_of \in Date : RecordDefaults(as_of)

EventNext ==
    \/ part = "elections" /\ ElectionsNext /\ UNCHANGED <<part, payment>>
    \/ part = "payment" /\ PaymentNext /\ UNCHANGED <<part, elections>>

EventSpec == EventInit /\ [][EventNext]_<<part, elections, payment>>
-----------------------------------------------------------------------------
\* The records of one kind, sorted by sequence.
Sorted(body) ==
    LET kept == {r \in records : r.body = body}
        before(r) == {s \in kept : s.sequence < r.sequence}
    IN  [i \in 1..Cardinality(kept) |-> CHOOSE r \in kept : Cardinality(before(r)) = i - 1]

Entries(sorted) == [i \in DOMAIN sorted |-> sorted[i].entry]

\* Mutant: the rebuild does not look at the positions of the entries.
AnyOrder(sorted) == sorted # <<>>

\* A rebuild takes at least one record, each in the position it says it has.
InPlace(sorted) ==
    sorted # <<>> /\ \A i \in DOMAIN sorted : sorted[i].sequence = i - 1

\* rebuild_from_records
LifecycleRebuilds(sorted) == InPlace(sorted) /\ Lifecycle!Rebuilds(Entries(sorted))

\* rebuild_elections_from_records
ElectionsRebuild(sorted) == InPlace(sorted) /\ Rebuilds(Entries(sorted))

\* Whatever the caller kept, of both kinds, in whatever order: records that
\* rebuild tell a past of the event as it was, and never a book or a lifecycle
\* that was not; if none was lost, they tell all of it.
RecordsTellThePast ==
    LET lifecycle == Sorted("lifecycle_transition")
        entries == Sorted("election")
    IN  /\ LifecycleRebuilds(lifecycle) => IsPrefix(Entries(lifecycle), requests)
        /\ ElectionsRebuild(entries) => IsPrefix(Entries(entries), journal)
        /\ Len(lifecycle) = Len(requests) /\ requests # <<>> => LifecycleRebuilds(lifecycle)
        /\ Len(entries) = Len(journal) /\ journal # <<>> => ElectionsRebuild(entries)

\* Tampering with the lifecycle's journal shows (lifecycle.py:33-35).  It is a
\* matter of that journal alone, which is as good without elections and losses.
TamperingShows == journal = <<>> /\ lost = 0 => Lifecycle!TamperingShows

\* The lifecycle keeps its promise (lifecycle.py:13-22).
Implements == Lifecycle!Implements

\* A balance covers what is made of it: the covers accepted never exceed the
\* promise they cover, and a default is never more than the account holds and
\* did not elect (election.py).
BalancesCover == CoversFit /\ DefaultsFitBalances
=============================================================================
