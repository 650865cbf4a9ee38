------------------------ MODULE CorporateAction_proofs ------------------------
(***************************************************************************)
(* Theorems about CorporateAction and the two journals it is made of, for  *)
(* any event, dates, sources, submissions and balances.                    *)
(*                                                                         *)
(* The lifecycle: PaidInOrder, with the fact that a paid status has its    *)
(* milestone, is inductive; that nothing but a reversal follows a payment  *)
(* is a consequence the code states nowhere as a rule.  The elections:     *)
(* RetrySafe is inductive with the type, as every duplicate rests on a use *)
(* of its own identifier, so an identifier with no first use was never     *)
(* used, and with it that no cover exceeds what it covers.  The records:   *)
(* each holds the entry of its journal that it was made of, so the ones    *)
(* that are in place are a prefix of that journal.  The payment: what has  *)
(* no break has no reason for one, report by report and holder by holder.  *)
(***************************************************************************)
EXTENDS CorporateAction, Sums, SequenceTheorems

\* A status of paid or reversed has the payment among its milestones.
StatusHasPayment ==
    state.status \in {"paid", "reversed"} => "paid" \in Lifecycle!Reached(state)

\* A cancellation or a reversal among the milestones is the status.
EndIsStatus ==
    \A m \in {"cancelled", "reversed"} : m \in Lifecycle!Reached(state) => state.status = m

LifecycleInv ==
    /\ Lifecycle!TypeOK /\ Lifecycle!JournalRebuilds
    /\ Lifecycle!PaidInOrder /\ StatusHasPayment
-----------------------------------------------------------------------------
\* A request that is applied breaks none of the rules.
LEMMA NoRuleBroken ==
    ASSUME NEW s, NEW r, Lifecycle!Breaks(s, r) = {}
    PROVE  LET rules == Lifecycle!Rules(s, r)
           IN  /\ ~rules.ended /\ ~rules.not_paid /\ ~rules.already_paid
               /\ ~rules.already_reached /\ ~rules.not_elective
               /\ ~rules.entitlement_not_fixed /\ ~rules.elections_open
<1>1. {"ended", "not_paid", "already_paid", "already_reached", "not_elective",
       "entitlement_not_fixed", "elections_open"} \subseteq Lifecycle!RefusalReason
  BY DEF Lifecycle!RefusalReason, Lifecycle!RefusalOrder
<1> QED
  BY <1>1 DEF Lifecycle!Breaks

\* The reason reported is one the code names.
LEMMA LifecycleRefusalType ==
    ASSUME NEW s, NEW r
    PROVE  Lifecycle!Refusal(s, r) \in Lifecycle!RefusalReason \cup {"none"}
<1>1. CASE Lifecycle!Breaks(s, r) = {}
  BY <1>1 DEF Lifecycle!Refusal
<1>2. CASE Lifecycle!Breaks(s, r) # {}
  <2> DEFINE Broken(i) == Lifecycle!RefusalOrder[i] \in Lifecycle!Breaks(s, r)
  <2>1. PICK i \in 1..9 : Broken(i)
    BY <1>2 DEF Lifecycle!Breaks, Lifecycle!RefusalReason
  <2>2. \E k \in 1..9 : Broken(k) /\ \A j \in 1..(k - 1) : ~Broken(j)
    <3> HIDE DEF Broken
    <3> QED
      BY <2>1
  <2> QED
    BY <1>2, <2>2 DEF Lifecycle!Refusal, Lifecycle!RefusalReason
<1> QED
  BY <1>1, <1>2

\* A request leads from a lifecycle state to a lifecycle state.
LEMMA AfterType ==
    ASSUME NEW s \in Lifecycle!LifecycleState, NEW r \in Lifecycle!TransitionRequest
    PROVE  Lifecycle!After(s, r) \in Lifecycle!LifecycleState
  BY DEF Lifecycle!After, Lifecycle!LifecycleState, Lifecycle!TransitionRequest,
         Lifecycle!StatusAfter, Lifecycle!Status, Lifecycle!Milestone

LEMMA StepType ==
    ASSUME NEW s \in Lifecycle!LifecycleState, NEW n \in Nat,
           NEW r \in Lifecycle!TransitionRequest
    PROVE  Lifecycle!Step(s, n, r) \in Lifecycle!TransitionEntry
  BY AfterType, LifecycleRefusalType DEF Lifecycle!Step, Lifecycle!TransitionEntry

LEMMA LifecycleInitInv == Lifecycle!Init => LifecycleInv
<1> SUFFICES ASSUME Lifecycle!Init PROVE LifecycleInv
  OBVIOUS
<1>1. Lifecycle!InitialState \in Lifecycle!LifecycleState
  BY DEF Lifecycle!InitialState, Lifecycle!LifecycleState, Lifecycle!Status,
         Lifecycle!NoDate
<1> QED
  BY <1>1
  DEF Lifecycle!Init, LifecycleInv, Lifecycle!TypeOK, Lifecycle!JournalRebuilds,
      Lifecycle!Rebuilds, Lifecycle!StateBefore, Lifecycle!PaidInOrder,
      StatusHasPayment, Lifecycle!InitialState
-----------------------------------------------------------------------------
\* What one applied request adds to the milestones.
LEMMA AppliedRequest ==
    ASSUME LifecycleInv, NEW r \in Lifecycle!TransitionRequest,
           state' = Lifecycle!After(state, r),
           Lifecycle!Breaks(state, r) = {}
    PROVE  /\ state'.reached = Append(state.reached, r.milestone)
           /\ state'.status = Lifecycle!StatusAfter(state, r.milestone)
           /\ Len(state.reached) \in Nat
           /\ DOMAIN state.reached = 1..Len(state.reached)
           /\ DOMAIN state'.reached = 1..(Len(state.reached) + 1)
           /\ state'.reached[Len(state.reached) + 1] = r.milestone
           /\ \A i \in DOMAIN state.reached : state'.reached[i] = state.reached[i]
           /\ Lifecycle!Reached(state') = Lifecycle!Reached(state) \cup {r.milestone}
<1>1. /\ state'.reached = Append(state.reached, r.milestone)
      /\ state'.status = Lifecycle!StatusAfter(state, r.milestone)
  BY DEF Lifecycle!After
<1>2. /\ state.reached \in Seq(Lifecycle!Milestone)
      /\ r.milestone \in Lifecycle!Milestone
  BY DEF LifecycleInv, Lifecycle!TypeOK, Lifecycle!LifecycleState,
         Lifecycle!TransitionRequest
<1>3. /\ Len(state.reached) \in Nat
      /\ DOMAIN state.reached = 1..Len(state.reached)
      /\ DOMAIN state'.reached = 1..(Len(state.reached) + 1)
      /\ state'.reached[Len(state.reached) + 1] = r.milestone
      /\ \A i \in DOMAIN state.reached : state'.reached[i] = state.reached[i]
  BY <1>1, <1>2
<1>4. Lifecycle!Reached(state') = Lifecycle!Reached(state) \cup {r.milestone}
  BY <1>3 DEF Lifecycle!Reached
<1> QED
  BY <1>1, <1>3, <1>4

\* What a request does to each part of the invariant.
LEMMA RequestPaidInOrder ==
    ASSUME LifecycleInv, NEW r \in Lifecycle!TransitionRequest,
           state' = Lifecycle!After(state, r)
    PROVE  Lifecycle!PaidInOrder' /\ StatusHasPayment'
<1>1. CASE Lifecycle!Breaks(state, r) # {}
  BY <1>1 DEF Lifecycle!After, LifecycleInv, Lifecycle!PaidInOrder, StatusHasPayment
<1>2. CASE Lifecycle!Breaks(state, r) = {}
  <2> DEFINE n == Len(state.reached)
             Earlier(i) == {state.reached[k] : k \in 1..(i - 1)}
  <2>1. /\ n \in Nat
        /\ DOMAIN state.reached = 1..n
        /\ DOMAIN state'.reached = 1..(n + 1)
        /\ state'.reached[n + 1] = r.milestone
        /\ \A i \in 1..n : state'.reached[i] = state.reached[i]
        /\ Lifecycle!Reached(state') = Lifecycle!Reached(state) \cup {r.milestone}
        /\ state'.status = Lifecycle!StatusAfter(state, r.milestone)
    BY <1>2, AppliedRequest
  <2>2. \A i \in 1..(n + 1) : {state'.reached[k] : k \in 1..(i - 1)} = Earlier(i)
    <3> SUFFICES ASSUME NEW i \in 1..(n + 1)
                 PROVE  \A k \in 1..(i - 1) : state'.reached[k] = state.reached[k]
      BY Zenon
    <3>1. \A k \in 1..(i - 1) : k \in 1..n
      <4> HIDE DEF n
      <4> QED
        BY <2>1
    <3> QED
      BY <2>1, <3>1
  <2>3. Lifecycle!Reached(state) = Earlier(n + 1)
    BY <2>1 DEF Lifecycle!Reached
  <2>4. ASSUME r.milestone = "paid"
        PROVE  /\ "entitlement_fixed" \in Earlier(n + 1)
               /\ Lifecycle!Elective => "elections_closed" \in Earlier(n + 1)
    BY <1>2, <2>3, <2>4, NoRuleBroken DEF Lifecycle!Rules, Lifecycle!Elective
  <2>5. Lifecycle!PaidInOrder'
    <3> SUFFICES ASSUME NEW i \in 1..(n + 1), state'.reached[i] = "paid"
                 PROVE  /\ "entitlement_fixed" \in Earlier(i)
                        /\ Lifecycle!Elective => "elections_closed" \in Earlier(i)
      BY <2>1, <2>2 DEF Lifecycle!PaidInOrder
    <3>1. CASE i = n + 1
      BY <3>1, <2>1, <2>4
    <3>2. CASE i \in 1..n
      BY <3>2, <2>1 DEF LifecycleInv, Lifecycle!PaidInOrder
    <3>3. n \in Nat
      BY <2>1
    <3>4. i \in 1..n \/ i = n + 1
      <4> HIDE DEF n, Earlier
      <4> QED
        BY <3>3
    <3> QED
      BY <3>1, <3>2, <3>4
  <2>6. StatusHasPayment'
    BY <1>2, <2>1, NoRuleBroken DEF LifecycleInv, StatusHasPayment, Lifecycle!StatusAfter,
                                    Lifecycle!Status, Lifecycle!Rules
  <2> QED
    BY <2>5, <2>6
<1> QED
  BY <1>1, <1>2

LEMMA RequestJournal ==
    ASSUME LifecycleInv, NEW r \in Lifecycle!TransitionRequest, Lifecycle!Request(r)
    PROVE  Lifecycle!TypeOK' /\ Lifecycle!JournalRebuilds'
<1> DEFINE n == Len(requests)
           entry == Lifecycle!Step(state, n, r)
<1>1. /\ requests \in Seq(Lifecycle!TransitionEntry)
      /\ n \in Nat
      /\ state \in Lifecycle!LifecycleState
      /\ n < MaxRequests
      /\ requests' = Append(requests, entry)
      /\ state' = entry.after
  BY DEF LifecycleInv, Lifecycle!TypeOK, Lifecycle!Request
<1>2. entry \in Lifecycle!TransitionEntry
  BY <1>1, StepType
<1>3. /\ DOMAIN requests = 1..n
      /\ DOMAIN requests' = 1..(n + 1)
      /\ Len(requests') = n + 1
      /\ requests'[n + 1] = entry
      /\ \A i \in 1..n : requests'[i] = requests[i]
      /\ requests' \in Seq(Lifecycle!TransitionEntry)
  BY <1>1, <1>2
<1>4. Lifecycle!TypeOK'
  <2>1. entry.after \in Lifecycle!LifecycleState
    BY <1>2 DEF Lifecycle!TransitionEntry
  <2> QED
    BY <1>1, <1>3, <2>1 DEF Lifecycle!TypeOK
<1>5. \A i \in 1..(n + 1) :
        Lifecycle!StateBefore(requests', i) = Lifecycle!StateBefore(requests, i)
  BY <1>3 DEF Lifecycle!StateBefore
<1>6. Lifecycle!Rebuilds(requests')
  <2> SUFFICES ASSUME NEW i \in 1..(n + 1)
               PROVE  requests'[i] = Lifecycle!Step(Lifecycle!StateBefore(requests, i),
                   i - 1,
                                                    requests'[i].request)
    BY <1>3, <1>5 DEF Lifecycle!Rebuilds
  <2>1. CASE i \in 1..n
    BY <2>1, <1>3 DEF LifecycleInv, Lifecycle!JournalRebuilds, Lifecycle!Rebuilds
  <2>2. CASE i = n + 1
    <3>1. Lifecycle!StateBefore(requests, i) = state /\ i - 1 = n
      BY <2>2, <1>1 DEF LifecycleInv, Lifecycle!JournalRebuilds
    <3>2. requests'[i].request = r
      BY <2>2, <1>3 DEF Lifecycle!Step
    <3> QED
      BY <3>1, <3>2, <2>2, <1>3
  <2> QED
    BY <2>1, <2>2, <1>1
<1>7. state' = Lifecycle!StateBefore(requests', Len(requests') + 1)
  BY <1>1, <1>3 DEF Lifecycle!StateBefore
<1> QED
  BY <1>4, <1>6, <1>7 DEF Lifecycle!JournalRebuilds

LEMMA RequestState ==
    ASSUME NEW r, Lifecycle!Request(r)
    PROVE  state' = Lifecycle!After(state, r)
  BY DEF Lifecycle!Request, Lifecycle!Step

\* A paid event is past every milestone but its reversal.
LEMMA AfterPaid ==
    ASSUME LifecycleInv, NEW r \in Lifecycle!TransitionRequest,
           state' = Lifecycle!After(state, r),
           Lifecycle!Breaks(state, r) = {}, state.status = "paid"
    PROVE  state'.status = "reversed"
<1>1. r.milestone \in Lifecycle!Milestone
  BY DEF Lifecycle!TransitionRequest
<1>2. /\ "paid" \in Lifecycle!Reached(state)
      /\ "entitlement_fixed" \in Lifecycle!Reached(state)
      /\ Lifecycle!Elective => "elections_closed" \in Lifecycle!Reached(state)
  <2>1. PICK i \in DOMAIN state.reached : state.reached[i] = "paid"
    BY DEF LifecycleInv, StatusHasPayment, Lifecycle!Reached
  <2>2. DOMAIN state.reached = 1..Len(state.reached) /\ Len(state.reached) \in Nat
    BY DEF LifecycleInv, Lifecycle!TypeOK, Lifecycle!LifecycleState
  <2>3. {state.reached[k] : k \in 1..(i - 1)} \subseteq Lifecycle!Reached(state)
    BY <2>1, <2>2 DEF Lifecycle!Reached
  <2> QED
    BY <2>1, <2>3 DEF LifecycleInv, Lifecycle!PaidInOrder, Lifecycle!Reached
<1>3. r.milestone = "reversed"
  BY <1>1, <1>2, NoRuleBroken DEF Lifecycle!Rules, Lifecycle!Elective, Lifecycle!Milestone
<1> QED
  BY <1>3 DEF Lifecycle!After, Lifecycle!StatusAfter, Lifecycle!Status

\* LifecycleInv is inductive (lifecycle.py, request).
THEOREM LifecycleInvariance == Lifecycle!Spec => []LifecycleInv
<1>1. LifecycleInv /\ [Lifecycle!Next]_(Lifecycle!vars) => LifecycleInv'
  <2> SUFFICES ASSUME LifecycleInv, [Lifecycle!Next]_(Lifecycle!vars) PROVE LifecycleInv'
    OBVIOUS
  <2>1. CASE UNCHANGED Lifecycle!vars
    BY <2>1 DEF Lifecycle!vars, LifecycleInv, Lifecycle!TypeOK, Lifecycle!JournalRebuilds,
                Lifecycle!Rebuilds, Lifecycle!StateBefore, Lifecycle!PaidInOrder,
                StatusHasPayment, Lifecycle!Reached
  <2>2. CASE Lifecycle!Next
    <3>1. PICK r \in Lifecycle!TransitionRequest : Lifecycle!Request(r)
      BY <2>2 DEF Lifecycle!Next
    <3> QED
      BY <3>1, RequestState, RequestJournal, RequestPaidInOrder DEF LifecycleInv
  <2> QED
    BY <2>1, <2>2
<1> QED
  BY <1>1, LifecycleInitInv, PTL DEF Lifecycle!Spec
-----------------------------------------------------------------------------
\* The state is always one of the declared shape (lifecycle.py, LifecycleState).
THEOREM TypeCorrect == Lifecycle!Spec => []Lifecycle!TypeOK
<1>1. LifecycleInv => Lifecycle!TypeOK
  BY DEF LifecycleInv
<1> QED
  BY <1>1, LifecycleInvariance, PTL

\* Replaying the journal is accepted and ends where the lifecycle stands
\* (lifecycle.py, rebuild).
THEOREM JournalAlwaysRebuilds == Lifecycle!Spec => []Lifecycle!JournalRebuilds
<1>1. LifecycleInv => Lifecycle!JournalRebuilds
  BY DEF LifecycleInv
<1> QED
  BY <1>1, LifecycleInvariance, PTL

\* Nothing is paid before its entitlement is fixed and, on an elective event,
\* its elections closed (lifecycle.py, _refusal).
THEOREM PaymentWaits == Lifecycle!Spec => []Lifecycle!PaidInOrder
<1>1. LifecycleInv => Lifecycle!PaidInOrder
  BY DEF LifecycleInv
<1> QED
  BY <1>1, LifecycleInvariance, PTL

\* After payment the only change is a reversal (lifecycle.py:19).
THEOREM OnlyReversalAfterPayment == Lifecycle!Spec => Lifecycle!AfterPaymentOnlyReversal
<1>1. LifecycleInv /\ [Lifecycle!Next]_(Lifecycle!vars) =>
        [state.status = "paid" =>
            state' = state \/ state'.status = "reversed"]_(Lifecycle!vars)
  <2> SUFFICES ASSUME LifecycleInv, NEW r \in Lifecycle!TransitionRequest,
                      Lifecycle!Request(r), state.status = "paid", state' # state
               PROVE  state'.status = "reversed"
    BY DEF Lifecycle!Next
  <2>1. state' = Lifecycle!After(state, r) /\ Lifecycle!Breaks(state, r) = {}
    BY RequestState DEF Lifecycle!After
  <2> QED
    BY <2>1, AfterPaid
<1> QED
  BY <1>1, LifecycleInvariance, PTL DEF Lifecycle!Spec, Lifecycle!AfterPaymentOnlyReversal
-----------------------------------------------------------------------------
\* A cancellation or reversal, once reached, stays the status.
LEMMA EndInvariance == Lifecycle!Spec => []EndIsStatus
<1>1. Lifecycle!Init => EndIsStatus
  BY DEF Lifecycle!Init, Lifecycle!InitialState, EndIsStatus, Lifecycle!Reached
<1>2. LifecycleInv /\ EndIsStatus /\ [Lifecycle!Next]_(Lifecycle!vars) => EndIsStatus'
  <2> SUFFICES ASSUME LifecycleInv, EndIsStatus, [Lifecycle!Next]_(Lifecycle!vars)
               PROVE  EndIsStatus'
    OBVIOUS
  <2>1. CASE state' = state
    BY <2>1 DEF EndIsStatus
  <2>2. ASSUME NEW r \in Lifecycle!TransitionRequest, Lifecycle!Request(r), state' # state
        PROVE  EndIsStatus'
    <3>1. state' = Lifecycle!After(state, r) /\ Lifecycle!Breaks(state, r) = {}
      BY <2>2, RequestState DEF Lifecycle!After
    <3>2. /\ state'.status = Lifecycle!StatusAfter(state, r.milestone)
          /\ Lifecycle!Reached(state') = Lifecycle!Reached(state) \cup {r.milestone}
      BY <2>2, <3>1, AppliedRequest
    <3>3. {"cancelled", "reversed"} \cap Lifecycle!Reached(state) = {}
      BY <3>1, NoRuleBroken DEF EndIsStatus, Lifecycle!Rules
    <3> QED
      BY <3>2, <3>3 DEF EndIsStatus, Lifecycle!StatusAfter, Lifecycle!Status
  <2> QED
    BY <2>1, <2>2 DEF Lifecycle!Next, Lifecycle!vars
<1> QED
  BY <1>1, <1>2, LifecycleInvariance, PTL DEF Lifecycle!Spec

\* One applied request is one step of the promise.
LEMMA RequestPromise ==
    ASSUME LifecycleInv, EndIsStatus, NEW r \in Lifecycle!TransitionRequest,
           Lifecycle!Request(r), state' # state
    PROVE  Lifecycle!Promise!Next
<1>1. state' = Lifecycle!After(state, r) /\ Lifecycle!Breaks(state, r) = {}
  BY RequestState DEF Lifecycle!After
<1>2. /\ state'.status = Lifecycle!StatusAfter(state, r.milestone)
      /\ Lifecycle!Reached(state') = Lifecycle!Reached(state) \cup {r.milestone}
  BY <1>1, AppliedRequest
<1>3. {"cancelled", "reversed"} \cap Lifecycle!Reached(state) = {}
  BY <1>1, NoRuleBroken DEF EndIsStatus, Lifecycle!Rules
<1>4. state.status \in {"open", "paid"}
  BY <1>1, NoRuleBroken DEF Lifecycle!Rules, LifecycleInv, Lifecycle!TypeOK,
                            Lifecycle!LifecycleState, Lifecycle!Status
<1>5. state.status = "paid" => state'.status = "reversed"
  BY <1>1, AfterPaid
<1>6. r.milestone \in Lifecycle!Milestone
  BY DEF Lifecycle!TransitionRequest
<1>7. CASE r.milestone \in {"entitlement_fixed", "elections_closed"}
  <2>1. state'.status = state.status /\ r.milestone \notin Lifecycle!Reached(state)
    BY <1>1, <1>2, <1>7, NoRuleBroken DEF Lifecycle!StatusAfter, Lifecycle!Status,
                                          Lifecycle!Rules
  <2>2. state.status = "open"
    BY <1>4, <1>5, <2>1
  <2>3. r.milestone = "elections_closed" => Lifecycle!Elective
    BY <1>1, NoRuleBroken DEF Lifecycle!Rules, Lifecycle!Elective
  <2> QED
    BY <1>2, <1>7, <2>1, <2>2, <2>3
    DEF Lifecycle!Promise!Next, Lifecycle!Promise!FixEntitlement,
        Lifecycle!Promise!CloseElections, Lifecycle!Promise!Reach
<1>8. CASE r.milestone = "paid"
  <2>1. /\ r.milestone \notin Lifecycle!Reached(state)
        /\ "entitlement_fixed" \in Lifecycle!Reached(state)
        /\ Lifecycle!Elective => "elections_closed" \in Lifecycle!Reached(state)
    BY <1>1, <1>8, NoRuleBroken DEF Lifecycle!Rules, Lifecycle!Elective
  <2>2. state'.status = "paid" /\ state.status = "open"
    BY <1>2, <1>4, <1>5, <1>8 DEF Lifecycle!StatusAfter, Lifecycle!Status
  <2> QED
    BY <1>2, <1>8, <2>1, <2>2 DEF Lifecycle!Promise!Next, Lifecycle!Promise!Pay,
                                  Lifecycle!Promise!Reach
<1>9. CASE r.milestone \in {"cancelled", "reversed"}
  <2>1. state'.status = r.milestone
    BY <1>2, <1>9 DEF Lifecycle!StatusAfter, Lifecycle!Status
  <2>2. IF r.milestone = "cancelled" THEN state.status = "open" ELSE state.status = "paid"
    BY <1>1, <1>4, <1>9, NoRuleBroken DEF Lifecycle!Rules
  <2> QED
    BY <1>2, <1>3, <1>9, <2>1, <2>2
    DEF Lifecycle!Promise!Next, Lifecycle!Promise!Cancel, Lifecycle!Promise!Reverse,
        Lifecycle!Promise!Reach
<1> QED
  BY <1>6, <1>7, <1>8, <1>9 DEF Lifecycle!Milestone

\* The lifecycle implements the rules its module lists (lifecycle.py:13-22).
THEOREM LifecycleImplementsPromise == Lifecycle!Spec => Lifecycle!Implements
<1>1. Lifecycle!Init => Lifecycle!Promise!Init
  BY DEF Lifecycle!Init, Lifecycle!InitialState, Lifecycle!Promise!Init, Lifecycle!Reached
<1>2. LifecycleInv /\ EndIsStatus /\ [Lifecycle!Next]_(Lifecycle!vars)
        => [Lifecycle!Promise!Next]_<<Lifecycle!Reached(state), state.status>>
  <2> SUFFICES ASSUME LifecycleInv, EndIsStatus, [Lifecycle!Next]_(Lifecycle!vars),
                      state' # state
               PROVE  Lifecycle!Promise!Next
    BY DEF Lifecycle!vars
  <2> QED
    BY RequestPromise DEF Lifecycle!Next, Lifecycle!vars
<1> QED
  BY <1>1, <1>2, LifecycleInvariance, EndInvariance, PTL DEF Lifecycle!Spec,
      Lifecycle!Implements, Lifecycle!Promise!Spec
-----------------------------------------------------------------------------
\* The lifecycle of an event with its elections and records is a lifecycle.
LEMMA EventHasLifecycle == EventSpec => Lifecycle!Spec
<1>1. EventInit => Lifecycle!Init
  BY DEF EventInit
<1>2. [EventNext]_<<part, elections, payment>> => [Lifecycle!Next]_(Lifecycle!vars)
  BY DEF EventNext, ElectionsNext, RecordRequest, RecordSubmission, RecordDefaults,
         elections, Lifecycle!Next, Lifecycle!vars
<1> QED
  BY <1>1, <1>2, PTL DEF EventSpec, Lifecycle!Spec

\* Tampering with a journal that rebuilds shows: every entry says its place, and
\* what its request came to.
LEMMA RebuiltShowsTampering == LifecycleInv => Lifecycle!TamperingShows
<1> SUFFICES ASSUME LifecycleInv PROVE Lifecycle!TamperingShows
  OBVIOUS
<1> DEFINE last == Len(requests)
<1>1. /\ requests \in Seq(Lifecycle!TransitionEntry) /\ last \in Nat
      /\ DOMAIN requests = 1..last
      /\ Lifecycle!Rebuilds(requests)
  BY DEF LifecycleInv, Lifecycle!TypeOK, Lifecycle!JournalRebuilds
<1> HIDE DEF last
<1>2. \A j : Lifecycle!Rebuilds(j) => \A i \in DOMAIN j : j[i].sequence = i - 1
  <2> SUFFICES ASSUME NEW j, Lifecycle!Rebuilds(j), NEW i \in DOMAIN j
               PROVE  j[i].sequence = i - 1
    OBVIOUS
  <2>1. j[i] = Lifecycle!Step(Lifecycle!StateBefore(j, i), i - 1, j[i].request)
    BY DEF Lifecycle!Rebuilds
  <2> QED
    BY <2>1 DEF Lifecycle!Step
<1>3. ASSUME NEW i \in 1..(last - 1) PROVE ~Lifecycle!Rebuilds(Lifecycle!Swapped(i, last))
  <2> DEFINE j == Lifecycle!Swapped(i, last)
  <2>1. i \in DOMAIN requests /\ last \in DOMAIN requests /\ i # last
    BY <1>1
  <2>2. DOMAIN j = DOMAIN requests /\ j[i] = requests[last]
    BY <1>1, <2>1 DEF Lifecycle!Swapped
  <2>3. requests[last].sequence = last - 1
    BY <1>1, <1>2, <2>1
  <2> HIDE DEF j
  <2> QED
    BY <1>1, <1>2, <2>1, <2>2, <2>3 DEF j
<1>4. ASSUME last > 1 PROVE ~Lifecycle!Rebuilds(Lifecycle!Without(last - 1))
  <2> DEFINE a == SubSeq(requests, 1, last - 2)
             b == SubSeq(requests, last, last)
             j == a \o b
  <2>1. a \in Seq(Lifecycle!TransitionEntry) /\ Len(a) = last - 2
    BY <1>1, <1>4 DEF last
  <2>2. b \in Seq(Lifecycle!TransitionEntry) /\ Len(b) = 1 /\ b[1] = requests[last]
    BY <1>1, <1>4 DEF last
  <2> HIDE DEF a, b
  <2>3. last - 1 \in DOMAIN j /\ j[last - 1] = requests[last]
    <3>1. Len(j) = last - 1 /\ j \in Seq(Lifecycle!TransitionEntry)
      <4>1. Len(a \o b) = Len(a) + Len(b) /\ a \o b \in Seq(Lifecycle!TransitionEntry)
        BY <2>1, <2>2, ConcatProperties
      <4>2. last \in Int /\ (last - 2) + 1 = last - 1
        BY <1>1, <1>4
      <4> QED
        BY <2>1, <2>2, <4>1, <4>2
    <3>2. j[Len(a) + 1] = b[1]
      <4>1. Len(a) + 1 \in 1..(Len(a) + Len(b)) /\ Len(a) + 1 > Len(a)
        BY <1>1, <1>4, <2>1, <2>2
      <4>2. \A i \in 1..(Len(a) + Len(b)) :
              j[i] = IF i <= Len(a) THEN a[i] ELSE b[i - Len(a)]
        BY <2>1, <2>2, ConcatProperties
      <4>3. j[Len(a) + 1] = b[(Len(a) + 1) - Len(a)] /\ (Len(a) + 1) - Len(a) = 1
        <5> HIDE DEF j
        <5>1. Len(a) \in Nat /\ Len(b) \in Nat
          BY <1>1, <1>4, <2>1, <2>2
        <5> QED
          BY <4>1, <4>2, <5>1
      <4> QED
        BY <4>3
    <3> QED
      BY <1>1, <1>4, <2>1, <2>2, <3>1, <3>2
  <2>4. requests[last].sequence = last - 1
    BY <1>1, <1>2, <1>4
  <2>5. ~Lifecycle!Rebuilds(j)
    <3> HIDE DEF j
    <3> QED
      BY <1>1, <1>2, <1>4, <2>3, <2>4
  <2>6. Lifecycle!Without(last - 1) = j
    <3>1. (last - 1) - 1 = last - 2 /\ (last - 1) + 1 = last
      BY <1>1
    <3> QED
      BY <3>1 DEF Lifecycle!Without, a, b, last
  <2> QED
    BY <2>5, <2>6
<1>5. ASSUME NEW reason, last > 0, reason # requests[last].refusal
      PROVE  ~Lifecycle!Rebuilds([requests EXCEPT ![last].refusal = reason])
  <2> DEFINE j == [requests EXCEPT ![last].refusal = reason]
             step(q) == Lifecycle!Step(Lifecycle!StateBefore(q, last), last - 1,
                                       q[last].request)
  <2>1. last \in DOMAIN requests /\ requests[last] \in Lifecycle!TransitionEntry
    BY <1>1, <1>5
  <2>2. /\ DOMAIN j = DOMAIN requests
        /\ j[last].refusal = reason /\ j[last].request = requests[last].request
        /\ last # 1 => j[last - 1] = requests[last - 1]
    <3>2. j = [requests EXCEPT ![last] = [requests[last] EXCEPT !.refusal = reason]]
      BY <2>1
    <3>3. [requests[last] EXCEPT !.refusal = reason].refusal = reason
          /\ [requests[last] EXCEPT !.refusal = reason].request = requests[last].request
      BY <2>1 DEF Lifecycle!TransitionEntry
    <3> QED
      BY <1>1, <2>1, <3>2, <3>3
  <2> HIDE DEF j
  <2>3. Lifecycle!StateBefore(j, last) = Lifecycle!StateBefore(requests, last)
    BY <2>2 DEF Lifecycle!StateBefore
  <2>4. step(j) = step(requests)
    BY <2>2, <2>3
  <2>5. requests[last] = step(requests)
    BY <1>1, <2>1 DEF Lifecycle!Rebuilds
  <2>6. Lifecycle!Rebuilds(j) => j[last] = step(j)
    BY <2>1, <2>2 DEF Lifecycle!Rebuilds
  <2> QED
    BY <1>5, <2>2, <2>4, <2>5, <2>6 DEF j
<1> QED
  BY <1>3, <1>4, <1>5 DEF Lifecycle!TamperingShows, last

\* Tampering with the journal of a lifecycle shows (lifecycle.py:33-35).
THEOREM TamperingAlwaysShows == EventSpec => []TamperingShows
<1>1. LifecycleInv => TamperingShows
  BY RebuiltShowsTampering DEF TamperingShows
<1> QED
  BY <1>1, EventHasLifecycle, LifecycleInvariance, PTL

\* The lifecycle implements the rules its module lists (lifecycle.py:13-22).
THEOREM EventImplementsPromise == EventSpec => Implements
  BY EventHasLifecycle, LifecycleImplementsPromise, PTL DEF Implements

-----------------------------------------------------------------------------
Journal == Seq(ElectionEntry)

ElectionsInv == journal \in Journal /\ RetrySafe

Uses(j, id) == {i \in DOMAIN j : j[i].outcome # "duplicate" /\ j[i].submission.id = id}
-----------------------------------------------------------------------------
\* An identifier that was ever used has one first use.
LEMMA FirstUse ==
    ASSUME NEW j \in Journal, NEW id, Uses(j, id) # {}
    PROVE  First(j, id) # {} /\ First(j, id) \subseteq Uses(j, id)
<1>1. Uses(j, id) \in SUBSET Nat
  BY DEF Uses, Journal
<1>2. PICK x \in Uses(j, id) : \A y \in Uses(j, id) : x <= y
  BY <1>1, Least
<1> QED
  BY <1>2 DEF First, Uses

\* The reason for a refusal is one the workflow names.
LEMMA RefusalType ==
    ASSUME NEW j, NEW s
    PROVE  Refusal(j, s) \in ElectionRefusal \cup {"none"}
<1> DEFINE broken == {i \in 1..9 : Breaks(j, s, RefusalOrder[i])}
<1>1. CASE broken = {}
  BY <1>1 DEF Refusal
<1>2. CASE broken # {}
  <2>1. broken \in SUBSET Nat
    OBVIOUS
  <2>2. \E i \in broken : \A k \in broken : i <= k
    BY <1>2, <2>1, Least
  <2> DEFINE i == CHOOSE i \in broken : \A k \in broken : i <= k
  <2>3. i \in broken
    BY <2>2
  <2>4. i \in 1..9 /\ Refusal(j, s) = RefusalOrder[i]
    BY <1>2, <2>3 DEF Refusal
  <2> QED
    BY <2>4 DEF ElectionRefusal
<1> QED
  BY <1>1, <1>2

\* What submit journals: a spent identifier is refused or recognised.
LEMMA EntryFacts ==
    ASSUME NEW j \in Journal, NEW s \in Submission
    PROVE  /\ Entry(j, s) \in ElectionEntry
           /\ Entry(j, s).submission = s
           /\ Uses(j, s.id) # {} => Entry(j, s).outcome # "accepted"
           /\ Entry(j, s).outcome = "duplicate" =>
                 /\ Entry(j, s).duplicate_of \in Uses(j, s.id)
                 /\ j[Entry(j, s).duplicate_of].submission = s
<1> DEFINE first == CHOOSE i \in First(j, s.id) : TRUE
<1>1. ASSUME NEW x \in ElectionRefusal \cup {"none"}
      PROVE  Outcome(s, x) \in ElectionEntry /\ Outcome(s, x).submission = s
             /\ Outcome(s, x).outcome # "duplicate"
             /\ (x # "none" => Outcome(s, x).outcome = "refused")
  BY DEF Outcome, ElectionEntry
<1>2. CASE First(j, s.id) = {}
  <2>1. Uses(j, s.id) = {}
    BY <1>2, FirstUse
  <2>2. Entry(j, s) = Outcome(s, Refusal(j, s))
    BY <1>2 DEF Entry
  <2> QED
    BY <1>1, <2>1, <2>2, RefusalType
<1>3. CASE First(j, s.id) # {}
  <2>1. first \in Uses(j, s.id) /\ first \in Nat
    BY <1>3 DEF First, Uses, Journal
  <2>2. CASE j[first].submission = s
    <3>1. Entry(j, s) = [submission |-> s, outcome |-> "duplicate", refusal |-> "none",
                         duplicate_of |-> first]
      BY <1>3, <2>2 DEF Entry
    <3> QED
      BY <2>1, <2>2, <3>1 DEF ElectionEntry
  <2>3. CASE j[first].submission # s
    <3>1. Entry(j, s) = Outcome(s, "conflicting_duplicate")
      BY <1>3, <2>3 DEF Entry
    <3> QED
      BY <1>1, <3>1 DEF ElectionRefusal
  <2> QED
    BY <2>2, <2>3
<1> QED
  BY <1>2, <1>3

\* A submission keeps the invariant of the elections.
LEMMA SubmitInv ==
    ASSUME ElectionsInv, NEW s \in Submission, Submit(s)
    PROVE  ElectionsInv'
<1> DEFINE n == Len(journal)
           e == Entry(journal, s)
<1>1. journal \in Journal /\ journal' = Append(journal, e)
  BY DEF ElectionsInv, Submit
<1>2. e \in ElectionEntry
  BY <1>1, EntryFacts
<1>3. /\ n \in Nat
      /\ DOMAIN journal = 1..n
      /\ DOMAIN journal' = 1..(n + 1)
      /\ journal'[n + 1] = e
      /\ \A i \in 1..n : journal'[i] = journal[i]
      /\ journal' \in Journal
  BY <1>1, <1>2 DEF Journal
<1>4. ASSUME NEW i \in 1..n, journal[i].submission.id = s.id
      PROVE  Uses(journal, s.id) # {}
  <2>1. CASE journal[i].outcome # "duplicate"
    BY <1>3, <1>4, <2>1 DEF Uses
  <2>2. CASE journal[i].outcome = "duplicate"
    <3>1. /\ journal[i].duplicate_of \in 1..(i - 1)
          /\ journal[journal[i].duplicate_of].submission = journal[i].submission
          /\ journal[journal[i].duplicate_of].outcome # "duplicate"
      BY <1>3, <2>2 DEF ElectionsInv, RetrySafe
    <3> QED
      BY <1>3, <1>4, <3>1 DEF Uses
  <2> QED
    BY <2>1, <2>2
<1>5. \A i, k \in 1..(n + 1) :
          i < k /\ journal'[i].submission.id = journal'[k].submission.id
              => journal'[k].outcome # "accepted"
  <2> SUFFICES ASSUME NEW i \in 1..(n + 1), NEW k \in 1..(n + 1), i < k,
                      journal'[i].submission.id = journal'[k].submission.id
               PROVE  journal'[k].outcome # "accepted"
    OBVIOUS
  <2>1. CASE k \in 1..n
    <3>1. i \in 1..n
      BY <2>1, <1>3
    <3> QED
      BY <2>1, <3>1, <1>3 DEF ElectionsInv, RetrySafe
  <2>2. CASE k = n + 1
    <3>1. i \in 1..n
      BY <2>2, <1>3
    <3>2. journal[i].submission.id = s.id
      BY <2>2, <3>1, <1>1, <1>3, EntryFacts
    <3> QED
      BY <2>2, <3>1, <3>2, <1>1, <1>3, <1>4, EntryFacts
  <2> QED
    BY <2>1, <2>2, <1>3
<1>6. \A i \in 1..(n + 1) :
          journal'[i].outcome = "duplicate" =>
              /\ journal'[i].duplicate_of \in 1..(i - 1)
              /\ journal'[journal'[i].duplicate_of].submission = journal'[i].submission
              /\ journal'[journal'[i].duplicate_of].outcome # "duplicate"
  <2> SUFFICES ASSUME NEW i \in 1..(n + 1), journal'[i].outcome = "duplicate"
               PROVE  /\ journal'[i].duplicate_of \in 1..(i - 1)
                      /\ journal'[journal'[i].duplicate_of].submission
                           = journal'[i].submission
                      /\ journal'[journal'[i].duplicate_of].outcome # "duplicate"
    OBVIOUS
  <2>1. CASE i \in 1..n
    <3>1. /\ journal[i].duplicate_of \in 1..(i - 1)
          /\ journal[journal[i].duplicate_of].submission = journal[i].submission
          /\ journal[journal[i].duplicate_of].outcome # "duplicate"
      BY <2>1, <1>3 DEF ElectionsInv, RetrySafe
    <3>2. 1..(i - 1) \subseteq 1..n
      BY <2>1, <1>3
    <3> QED
      BY <2>1, <3>1, <3>2, <1>3
  <2>2. CASE i = n + 1
    <3>1. /\ e.duplicate_of \in Uses(journal, s.id)
          /\ journal[e.duplicate_of].submission = s
          /\ e.submission = s
      BY <2>2, <1>1, <1>3, EntryFacts
    <3>2. e.duplicate_of \in 1..n /\ journal[e.duplicate_of].outcome # "duplicate"
      BY <3>1, <1>3 DEF Uses
    <3> QED
      BY <2>2, <3>1, <3>2, <1>3
  <2> QED
    BY <2>1, <2>2, <1>3
<1> QED
  BY <1>3, <1>5, <1>6 DEF ElectionsInv, RetrySafe

\* ElectionsInv is inductive.
LEMMA ElectionsInvariance == EventSpec => []ElectionsInv
<1>1. EventInit => ElectionsInv
  BY DEF EventInit, Init, ElectionsInv, Journal, RetrySafe
<1>2. ElectionsInv /\ [EventNext]_<<part, elections, payment>> => ElectionsInv'
  <2> SUFFICES ASSUME ElectionsInv, [EventNext]_<<part, elections, payment>>
               PROVE  ElectionsInv'
    OBVIOUS
  <2>1. CASE journal' = journal
    BY <2>1 DEF ElectionsInv, RetrySafe
  <2>2. CASE \E s \in Submission : Submit(s)
    BY <2>2, SubmitInv
  <2> QED
    BY <2>1, <2>2 DEF EventNext, ElectionsNext, RecordRequest, RecordSubmission,
                      RecordDefaults, AssignDefaults, elections
<1> QED
  BY <1>1, <1>2, PTL DEF EventSpec

\* An identifier used once is spent, and a duplicate repeats what it names
\* (election.py, submit): what makes a retry safe.
THEOREM RetryIsSafe == EventSpec => []RetrySafe
<1>1. ElectionsInv => RetrySafe
  BY DEF ElectionsInv
<1> QED
  BY <1>1, ElectionsInvariance, PTL
-----------------------------------------------------------------------------
\* What was accepted is finite, of its type, and the submission of an entry.
LEMMA AcceptedFacts ==
    ASSUME NEW j \in Journal, NEW type
    PROVE  /\ IsFiniteSet(Accepted(j, type))
           /\ \A s \in Accepted(j, type) :
                 /\ s.type = type /\ s \in Submission /\ s.quantity \in Nat \ {0}
                 /\ \E i \in DOMAIN j : j[i].outcome = "accepted" /\ j[i].submission = s
<1> DEFINE K == {k \in DOMAIN j : j[k].outcome = "accepted" /\ j[k].submission.type = type}
           A == Accepted(j, type)
           f == [k \in K |-> j[k].submission]
<1>1. IsFiniteSet(K)
  <2>1. DOMAIN j = 1..Len(j) /\ Len(j) \in Int
    BY DEF Journal
  <2>2. IsFiniteSet(DOMAIN j)
    BY <2>1, FS_Interval
  <2> QED
    BY <2>2, FS_Subset
<1>2. f \in Surjection(K, A)
  BY DEF Surjection, Accepted
<1>3. IsFiniteSet(A)
  BY <1>1, <1>2, FS_Surjection
<1>4. \A s \in A : /\ s.type = type /\ s \in Submission
                   /\ \E i \in DOMAIN j : j[i].outcome = "accepted" /\ j[i].submission = s
  <2>1. \A k \in DOMAIN j : j[k] \in ElectionEntry
    BY DEF Journal
  <2>2. \A k \in DOMAIN j : j[k].submission \in Submission
    BY <2>1 DEF ElectionEntry
  <2> QED
    BY <2>2 DEF Accepted
<1>5. \A s \in Submission : s.quantity \in Nat \ {0}
  BY SubmissionAssumption DEF Instruction, Cover
<1> QED
  BY <1>3, <1>4, <1>5

\* An entry adds its submission to what is accepted, or nothing.
LEMMA AcceptedAfter ==
    ASSUME NEW j \in Journal, NEW e \in ElectionEntry, NEW type
    PROVE  Accepted(Append(j, e), type) =
             IF e.outcome = "accepted" /\ e.submission.type = type
               THEN Accepted(j, type) \cup {e.submission} ELSE Accepted(j, type)
<1> DEFINE n == Len(j)
           l == Append(j, e)
<1>1. /\ n \in Nat /\ DOMAIN j = 1..n /\ DOMAIN l = 1..(n + 1)
      /\ l[n + 1] = e /\ \A i \in 1..n : l[i] = j[i]
  BY DEF Journal
<1>2. 1..(n + 1) = (1..n) \cup {n + 1}
  BY <1>1
<1> HIDE DEF n, l
<1>3. DOMAIN l = DOMAIN j \cup {n + 1} /\ \A i \in DOMAIN j : l[i] = j[i]
  BY <1>1, <1>2
<1>4. Accepted(l, type) = IF e.outcome = "accepted" /\ e.submission.type = type
                            THEN Accepted(j, type) \cup {e.submission} ELSE Accepted(j, type)
  BY <1>1, <1>3 DEF Accepted
<1> QED
  BY <1>4 DEF l

\* Identifiers are unique among the accepted, of either type.
LEMMA AcceptedOnce ==
    ASSUME ElectionsInv, NEW t1, NEW t2,
           NEW s \in Accepted(journal, t1), NEW t \in Accepted(journal, t2), s.id = t.id
    PROVE  s = t
<1>1. journal \in Journal
  BY DEF ElectionsInv
<1>2. PICK i \in DOMAIN journal : journal[i].outcome = "accepted" /\ journal[i].submission = s
  BY <1>1, AcceptedFacts
<1>3. PICK k \in DOMAIN journal : journal[k].outcome = "accepted" /\ journal[k].submission = t
  BY <1>1, AcceptedFacts
<1>4. ~(i < k) /\ ~(k < i)
  BY <1>2, <1>3 DEF ElectionsInv, RetrySafe
<1>5. i \in Nat /\ k \in Nat
  BY <1>1 DEF Journal
<1> QED
  BY <1>2, <1>3, <1>4, <1>5

\* What a submission covers, as a sum.
Covered(C) == Sum(Quantities(C), C)

LEMMA UncoveredIs ==
    ASSUME NEW j \in Journal, NEW s
    PROVE  /\ IsFiniteSet(CoversOf(j, s.id))
           /\ \A c \in CoversOf(j, s.id) : c.quantity \in Nat
           /\ Uncovered(j, s) = s.quantity - Covered(CoversOf(j, s.id))
           /\ Covered(CoversOf(j, s.id)) \in Nat
<1> DEFINE C == CoversOf(j, s.id)
<1>1. C \subseteq Accepted(j, "protect_cover")
  BY DEF CoversOf
<1>2. IsFiniteSet(C) /\ \A c \in C : c.quantity \in Nat
  BY <1>1, AcceptedFacts, FS_Subset
<1>3. Uncovered(j, s) = s.quantity - MapThenSumSet(LAMBDA c : c.quantity, C)
  BY DEF Uncovered
<1> HIDE DEF C
<1>4. \A c \in C : c.quantity \in Int /\ Quantities(C)[c] \in Nat
  BY <1>2 DEF Quantities
<1>5. MapThenSumSet(LAMBDA c : c.quantity, C) = Covered(C)
  BY <1>2, <1>4, QuantitySum DEF Covered
<1>6. Covered(C) \in Nat
  BY <1>2, <1>4, SumNat DEF Covered
<1> QED
  BY <1>2, <1>3, <1>5, <1>6 DEF C

\* One more cover.
LEMMA CoveredAfter ==
    ASSUME NEW C, IsFiniteSet(C), \A c \in C : c.quantity \in Nat,
           NEW s, s \notin C, s.quantity \in Nat
    PROVE  Covered(C \cup {s}) = s.quantity + Covered(C)
<1> DEFINE D == C \cup {s}
           g == Quantities(D)
           h == Quantities(C)
<1>1. /\ g[s] = s.quantity /\ g[s] \in Int
      /\ \A c \in C : g[c] \in Int /\ h[c] \in Int /\ g[c] = h[c]
  BY DEF Quantities
<1> HIDE DEF g, h
<1>2. Sum(g, D) = g[s] + Sum(g, C)
  BY <1>1, SumInsert
<1>3. Sum(g, C) = Sum(h, C)
  BY <1>1, SumCongruence
<1> QED
  BY <1>1, <1>2, <1>3 DEF Covered, g, h

\* Without a reason to refuse, no rule is broken.
LEMMA NoReason ==
    ASSUME NEW j, NEW s, Refusal(j, s) = "none"
    PROVE  ~Breaks(j, s, "unknown_protect") /\ ~Breaks(j, s, "over_cover")
<1> DEFINE broken == {i \in 1..9 : Breaks(j, s, RefusalOrder[i])}
<1>1. broken = {}
  <2> SUFFICES ASSUME broken # {} PROVE FALSE
    OBVIOUS
  <2>1. \E i \in broken : \A k \in broken : i <= k
    BY Least
  <2> DEFINE i == CHOOSE i \in broken : \A k \in broken : i <= k
  <2>2. i \in 1..9 /\ Refusal(j, s) = RefusalOrder[i]
    BY <2>1 DEF Refusal
  <2> HIDE DEF i
  <2>3. \A k \in 1..9 : RefusalOrder[k] # "none"
    BY DEF RefusalOrder
  <2> QED
    BY <2>2, <2>3
<1>2. ~Breaks(j, s, RefusalOrder[3]) /\ ~Breaks(j, s, RefusalOrder[5])
  BY <1>1
<1>3. RefusalOrder[3] = "unknown_protect" /\ RefusalOrder[5] = "over_cover"
  BY DEF RefusalOrder
<1> QED
  BY <1>2, <1>3

\* A submission that is accepted is new, and broke no rule.
LEMMA AcceptedIsNew ==
    ASSUME NEW j \in Journal, NEW s \in Submission, Entry(j, s).outcome = "accepted"
    PROVE  /\ Refusal(j, s) = "none"
           /\ \A i \in DOMAIN j : j[i].outcome = "accepted" => j[i].submission.id # s.id
<1>1. Uses(j, s.id) = {}
  BY EntryFacts
<1>2. First(j, s.id) = {}
  BY <1>1 DEF First, Uses
<1>3. Entry(j, s) = Outcome(s, Refusal(j, s))
  BY <1>2 DEF Entry
<1> QED
  BY <1>1, <1>3 DEF Outcome, Uses

-----------------------------------------------------------------------------
\* An accepted submission keeps the covers within what they cover.
LEMMA AcceptedCoversFit ==
    ASSUME ElectionsInv, CoversFit, NEW s \in Submission, Submit(s),
           Entry(journal, s).outcome = "accepted"
    PROVE  CoversFit'
<1> DEFINE e == Entry(journal, s)
           n == Len(journal)
<1>1. /\ journal \in Journal /\ journal' = Append(journal, e)
      /\ e \in ElectionEntry /\ e.submission = s /\ e.outcome = "accepted"
  BY EntryFacts DEF ElectionsInv, Submit
<1>2. /\ n \in Nat /\ DOMAIN journal = 1..n /\ DOMAIN journal' = 1..(n + 1)
      /\ journal'[n + 1] = e
      /\ \A i \in 1..n : journal'[i] = journal[i]
  BY <1>1 DEF Journal
<1>3. Refusal(journal, s) = "none"
  BY <1>1, AcceptedIsNew
<1>4. \A i \in DOMAIN journal : journal[i].outcome = "accepted" => journal[i].submission.id # s.id
  BY <1>1, AcceptedIsNew
<1>5. \A type : Accepted(journal', type) = IF s.type = type THEN Accepted(journal, type) \cup {s}
                                                            ELSE Accepted(journal, type)
  BY <1>1, AcceptedAfter
<1>6. journal' \in Journal
  BY SubmitInv DEF ElectionsInv
<1>7. s.quantity \in Nat \ {0} /\ s.type \in {"instruction", "protect_cover"}
  BY SubmissionAssumption DEF Instruction, Cover
<1>8. \A type : s \notin Accepted(journal, type)
  BY <1>1, <1>4, AcceptedFacts
<1> HIDE DEF e, n
\* An instruction that is accepted has no covers yet.
<1>9. CASE s.type = "instruction"
  <2>1. /\ Accepted(journal', "instruction") = Accepted(journal, "instruction") \cup {s}
        /\ Accepted(journal', "protect_cover") = Accepted(journal, "protect_cover")
    BY <1>5, <1>9
  <2>2. \A id : CoversOf(journal', id) = CoversOf(journal, id)
    BY <2>1 DEF CoversOf
  <2>3. CoversOf(journal, s.id) = {}
    <3> SUFFICES ASSUME NEW c \in CoversOf(journal, s.id) PROVE FALSE
      OBVIOUS
    <3>1. c \in Accepted(journal, "protect_cover") /\ c.covers = s.id
      BY DEF CoversOf
    <3>2. PICK i \in DOMAIN journal : journal[i].outcome = "accepted" /\ journal[i].submission = c
      BY <1>1, <3>1, AcceptedFacts
    <3>3. c.type = "protect_cover"
      BY <1>1, <3>1, AcceptedFacts
    <3>4. PICK k \in AllAccepted : journal[k].submission.id = c.covers
      BY <3>2, <3>3 DEF CoversFit, AllAccepted
    <3> QED
      BY <1>4, <3>1, <3>4 DEF AllAccepted
  <2>4. ASSUME NEW t \in Accepted(journal', "instruction")
        PROVE  Uncovered(journal', t) >= 0
    <3>1. Uncovered(journal', t) = t.quantity - Covered(CoversOf(journal, t.id))
      BY <1>6, <2>2, UncoveredIs
    <3>2. CASE t \in Accepted(journal, "instruction")
      <4>1. Uncovered(journal, t) = t.quantity - Covered(CoversOf(journal, t.id))
        BY <1>1, UncoveredIs
      <4> QED
        BY <3>1, <3>2, <4>1 DEF CoversFit
    <3>3. CASE t = s
      <4>1. Covered({}) = 0
        BY FS_EmptySet, SumType DEF Covered
      <4>2. Covered(CoversOf(journal, t.id)) = 0
        BY <2>3, <3>3, <4>1, Zenon
      <4>3. t.quantity \in Nat
        BY <1>7, <3>3
      <4> QED
        BY <3>1, <4>2, <4>3
    <3> QED
      BY <2>1, <3>2, <3>3
  <2>5. ASSUME NEW i \in AllAccepted', journal'[i].submission.type = "protect_cover"
        PROVE  i \in AllAccepted /\ journal'[i] = journal[i]
    BY <1>1, <1>2, <1>9, <2>5 DEF AllAccepted
  <2>6. \A k \in AllAccepted : k \in AllAccepted' /\ journal'[k] = journal[k]
    BY <1>2 DEF AllAccepted
  <2> QED
    BY <2>4, <2>5, <2>6 DEF CoversFit
\* A cover that is accepted leaves something, or nothing, of its instruction.
<1>10. CASE s.type = "protect_cover"
  <2>1. /\ Accepted(journal', "instruction") = Accepted(journal, "instruction")
        /\ Accepted(journal', "protect_cover") = Accepted(journal, "protect_cover") \cup {s}
    BY <1>5, <1>10
  <2>2. ~Breaks(journal, s, "unknown_protect") /\ ~Breaks(journal, s, "over_cover")
    BY <1>3, NoReason
  <2>3. Protected(journal, s) # {} /\ \A t \in Protected(journal, s) :
                                          ~(s.quantity > Uncovered(journal, t))
    BY <1>10, <2>2 DEF Breaks
  <2>4. PICK p \in Protected(journal, s) : ~(s.quantity > Uncovered(journal, p))
    BY <2>3
  <2>5. /\ p \in Accepted(journal, "instruction") /\ p.id = s.covers
        /\ p.protect /\ p.account = s.account
    BY DEF Protected
  <2>6. ASSUME NEW t \in Accepted(journal, "instruction")
        PROVE  Uncovered(journal', t) >= 0
    <3> DEFINE C == CoversOf(journal, t.id)
               D == CoversOf(journal', t.id)
    <3>1. /\ IsFiniteSet(C) /\ (\A c \in C : c.quantity \in Nat) /\ Covered(C) \in Nat
          /\ Uncovered(journal, t) = t.quantity - Covered(C)
      BY <1>1, UncoveredIs
    <3>2. Uncovered(journal', t) = t.quantity - Covered(D)
      BY <1>6, UncoveredIs
    <3>3. t.quantity \in Nat /\ Uncovered(journal, t) >= 0
      BY <1>1, AcceptedFacts DEF CoversFit
    <3>4. CASE t.id # s.covers
      <4>1. D = C
        BY <2>1, <3>4 DEF CoversOf
      <4> QED
        BY <3>1, <3>2, <3>3, <4>1
    <3>5. CASE t.id = s.covers
      <4>1. t = p
        BY <2>5, <3>5, AcceptedOnce
      <4>2. D = C \cup {s} /\ s \notin C
        BY <1>8, <2>1, <3>5 DEF CoversOf
      <4> HIDE DEF C, D
      <4>3. Covered(D) = s.quantity + Covered(C)
        BY <1>7, <3>1, <4>2, CoveredAfter
      <4>4. ~(s.quantity > t.quantity - Covered(C))
        BY <2>4, <3>1, <4>1
      <4> QED
        BY <1>7, <3>1, <3>2, <3>3, <4>3, <4>4
    <3> QED
      BY <3>4, <3>5
  <2>7. PICK m \in DOMAIN journal : journal[m].outcome = "accepted" /\ journal[m].submission = p
    BY <1>1, <2>5, AcceptedFacts
  <2>8. p.type = "instruction"
    BY <1>1, <2>5, AcceptedFacts
  <2>9. \A k \in AllAccepted : k \in AllAccepted' /\ journal'[k] = journal[k] /\ k \in 1..n
    BY <1>2 DEF AllAccepted
  <2>10. ASSUME NEW i \in AllAccepted', journal'[i].submission.type = "protect_cover"
         PROVE  \E k \in AllAccepted' :
                  /\ k < i
                  /\ journal'[k].submission.type = "instruction"
                  /\ journal'[k].submission.protect
                  /\ journal'[k].submission.id = journal'[i].submission.covers
                  /\ journal'[k].submission.account = journal'[i].submission.account
    <3>1. CASE i \in 1..n
      <4>1. i \in AllAccepted /\ journal'[i] = journal[i]
        BY <1>2, <3>1 DEF AllAccepted
      <4> QED
        BY <2>9, <2>10, <4>1 DEF CoversFit
    <3>2. CASE i = n + 1
      <4>1. journal'[i].submission = s
        BY <1>1, <1>2, <3>2
      <4>2. m \in AllAccepted /\ m < i
        BY <1>2, <2>7, <3>2 DEF AllAccepted
      <4> QED
        BY <2>5, <2>7, <2>8, <2>9, <4>1, <4>2
    <3> QED
      BY <1>2, <3>1, <3>2 DEF AllAccepted
  <2> QED
    BY <2>1, <2>6, <2>10 DEF CoversFit
<1> QED
  BY <1>7, <1>9, <1>10

\* What is not accepted changes nothing that was.
LEMMA OtherCoversFit ==
    ASSUME ElectionsInv, CoversFit, NEW s \in Submission, Submit(s),
           Entry(journal, s).outcome # "accepted"
    PROVE  CoversFit'
<1> DEFINE e == Entry(journal, s)
           n == Len(journal)
<1>1. /\ journal \in Journal /\ journal' = Append(journal, e)
      /\ e \in ElectionEntry /\ e.outcome # "accepted"
  BY EntryFacts DEF ElectionsInv, Submit
<1>2. /\ n \in Nat /\ DOMAIN journal = 1..n /\ DOMAIN journal' = 1..(n + 1)
      /\ journal'[n + 1] = e
      /\ \A i \in 1..n : journal'[i] = journal[i]
  BY <1>1 DEF Journal
<1>3. \A type : Accepted(journal', type) = Accepted(journal, type)
  BY <1>1, AcceptedAfter
<1>4. \A t : Uncovered(journal', t) = Uncovered(journal, t)
  BY <1>3 DEF Uncovered, CoversOf
<1> HIDE DEF e, n
<1>5. AllAccepted' = AllAccepted /\ \A i \in AllAccepted : journal'[i] = journal[i]
  BY <1>1, <1>2 DEF AllAccepted
<1> QED
  BY <1>3, <1>4, <1>5 DEF CoversFit

\* A default is what the balance leaves.
LEMMA DefaultsFit ==
    ASSUME ElectionsInv, NEW as_of, NEW a \in DOMAIN Assignment(journal, as_of).accounts,
           Assignment(journal, as_of).accounts[a].refusal = "none"
    PROVE  /\ a \in DOMAIN Balance
           /\ Assignment(journal, as_of).accounts[a].quantity \in 0..Balance[a]
<1>1. journal \in Journal
  BY DEF ElectionsInv
<1> DEFINE S == {s \in Accepted(journal, "instruction") : s.account = a}
           elected == Elected(journal, a)
<1>2. elected \in Nat
  <2>1. IsFiniteSet(S) /\ \A s \in S : s.quantity \in Nat
    BY <1>1, AcceptedFacts, FS_Subset
  <2>2. elected = MapThenSumSet(LAMBDA s : s.quantity, S)
    BY DEF Elected
  <2> HIDE DEF S, elected
  <2>3. \A s \in S : s.quantity \in Int /\ Quantities(S)[s] \in Nat
    BY <2>1 DEF Quantities
  <2> QED
    BY <2>1, <2>2, <2>3, QuantitySum, SumNat
<1> HIDE DEF elected
<1>3. Assignment(journal, as_of).accounts[a] = AccountDefault(journal, a)
  BY DEF Assignment
<1>4. AccountDefault(journal, a) =
        IF a \notin DOMAIN Balance
          THEN [quantity |-> None, refusal |-> "instructed_without_position"]
        ELSE IF elected > Balance[a] THEN [quantity |-> None, refusal |-> "over_instructed"]
        ELSE [quantity |-> Balance[a] - elected, refusal |-> "none"]
  BY DEF AccountDefault, elected
<1>5. a \in DOMAIN Balance /\ ~(elected > Balance[a])
      /\ AccountDefault(journal, a).quantity = Balance[a] - elected
  BY <1>3, <1>4
<1>6. Balance[a] \in Int
  BY <1>5, BalanceAssumption
<1> QED
  BY <1>2, <1>3, <1>5, <1>6

\* A balance covers what is made of it (election.py, _refusal, assign_defaults):
\* in whatever order they come and however often they are sent again, the covers
\* accepted never exceed the promise they cover, and a default is never more than
\* the account holds and did not elect.
THEOREM BalancesAlwaysCover == EventSpec => []BalancesCover
<1>1. EventInit => BalancesCover
  BY DEF EventInit, Init, BalancesCover, CoversFit, DefaultsFitBalances, Accepted, AllAccepted
<1>2. ElectionsInv /\ BalancesCover /\ [EventNext]_<<part, elections, payment>> => BalancesCover'
  <2> SUFFICES ASSUME ElectionsInv, BalancesCover, [EventNext]_<<part, elections, payment>>
               PROVE  BalancesCover'
    OBVIOUS
  <2>1. CASE UNCHANGED <<journal, assigned>>
    BY <2>1 DEF BalancesCover, CoversFit, DefaultsFitBalances, AllAccepted
  <2>2. CASE \E s \in Submission : Submit(s)
    <3>1. CoversFit'
      BY <2>2, AcceptedCoversFit, OtherCoversFit DEF BalancesCover
    <3>2. DefaultsFitBalances'
      BY <2>2 DEF BalancesCover, DefaultsFitBalances, Submit
    <3> QED
      BY <3>1, <3>2 DEF BalancesCover
  <2>3. CASE \E as_of \in Date : AssignDefaults(as_of)
    <3>1. CoversFit'
      BY <2>3 DEF BalancesCover, CoversFit, AllAccepted, AssignDefaults
    <3>2. DefaultsFitBalances'
      <4>1. PICK as_of : assigned' = assigned \cup {Assignment(journal, as_of)}
        BY <2>3 DEF AssignDefaults
      <4> QED
        BY <4>1, DefaultsFit DEF BalancesCover, DefaultsFitBalances
    <3> QED
      BY <3>1, <3>2 DEF BalancesCover
  <2> QED
    BY <2>1, <2>2, <2>3 DEF EventNext, ElectionsNext, RecordRequest, RecordSubmission,
                            RecordDefaults, elections
<1> QED
  BY <1>1, <1>2, ElectionsInvariance, PTL DEF EventSpec
-----------------------------------------------------------------------------
\* Records of one kind are ordered by their sequence numbers.
Numbered(K) ==
    /\ IsFiniteSet(K)
    /\ \A r \in K : r.sequence \in Nat
    /\ \A r, s \in K : r.sequence = s.sequence => r = s

Below(K, r) == {s \in K : s.sequence < r.sequence}

LEMMA LastRecord ==
    ASSUME NEW K, Numbered(K), K # {}
    PROVE  \E r \in K : \A s \in K : s.sequence <= r.sequence
<1> DEFINE Bad == {T \in SUBSET K : T # {} /\ ~\E r \in T : \A s \in T : s.sequence <= r.sequence}
<1> SUFFICES ASSUME Bad # {} PROVE FALSE
  OBVIOUS
<1>1. Bad \subseteq FiniteSubsetsOf(K) /\ IsFiniteSet(K)
  <2>1. IsFiniteSet(K)
    BY DEF Numbered
  <2> QED
    BY <2>1, FS_FiniteSubsetsOfFinite, Zenon
<1>2. PICK T \in Bad : \A U \in Bad : ~(<<U, T>> \in StrictSubsetOrdering(K))
  BY <1>1, FS_StrictSubsetOrderingWellFounded, WFMin
<1>3. PICK x \in T : TRUE
  OBVIOUS
<1> DEFINE U == T \ {x}
<1>4. <<U, T>> \in StrictSubsetOrdering(K)
  BY <1>3 DEF StrictSubsetOrdering
<1>5. U \notin Bad
  BY <1>2, <1>4
<1>6. CASE U = {}
  <2>1. x.sequence \in Nat /\ T = {x}
    BY <1>3, <1>6 DEF Numbered
  <2> QED
    BY <2>1
<1>7. CASE U # {}
  <2>1. PICK m \in U : \A y \in U : y.sequence <= m.sequence
    BY <1>5, <1>7
  <2>2. m.sequence \in Nat /\ x.sequence \in Nat /\ \A y \in T : y.sequence \in Nat
    BY <1>3 DEF Numbered
  <2>3. CASE x.sequence <= m.sequence
    <3>1. \A y \in T : y.sequence <= m.sequence
      BY <2>1, <2>3
    <3> QED
      BY <2>1, <3>1
  <2>4. CASE m.sequence < x.sequence
    <3>1. \A y \in T : y.sequence <= x.sequence
      BY <2>1, <2>2, <2>4
    <3> QED
      BY <1>3, <3>1
  <2> QED
    BY <2>2, <2>3, <2>4
<1> QED
  BY <1>6, <1>7

\* Some record has any given number of records below it.
HasRanks(K) == \A k \in 0..(Cardinality(K) - 1) : \E r \in K : Cardinality(Below(K, r)) = k

\* Records of distinct numbers have every rank below their count.
LEMMA EveryRank == ASSUME NEW K, Numbered(K) PROVE HasRanks(K)
<1> DEFINE Bad == {T \in SUBSET K : ~HasRanks(T)}
<1> SUFFICES ASSUME Bad # {} PROVE FALSE
  OBVIOUS
<1>1. Bad \subseteq FiniteSubsetsOf(K) /\ IsFiniteSet(K)
  <2>1. IsFiniteSet(K)
    BY DEF Numbered
  <2> QED
    BY <2>1, FS_FiniteSubsetsOfFinite, Zenon
<1>2. PICK T \in Bad : \A U \in Bad : ~(<<U, T>> \in StrictSubsetOrdering(K))
  BY <1>1, FS_StrictSubsetOrderingWellFounded, WFMin
<1>3. Numbered(T) /\ T \subseteq K
  BY <1>1, FS_Subset DEF Numbered
<1>4. T # {}
  <2> SUFFICES ASSUME T = {} PROVE FALSE
    OBVIOUS
  <2>1. Cardinality(T) = 0
    BY FS_EmptySet
  <2> QED
    BY <1>2, <2>1 DEF HasRanks
<1>5. PICK m \in T : \A s \in T : s.sequence <= m.sequence
  BY <1>3, <1>4, LastRecord
<1> DEFINE U == T \ {m}
           n == Cardinality(U)
<1>6. n \in Nat /\ Cardinality(T) = n + 1
  <2>1. IsFiniteSet(U) /\ n = Cardinality(T) - 1 /\ IsFiniteSet(T)
    BY <1>3, <1>5, FS_RemoveElement DEF Numbered
  <2>2. n \in Nat /\ Cardinality(T) \in Nat
    BY <2>1, FS_CardinalityType
  <2> QED
    BY <2>1, <2>2
<1>7. HasRanks(U)
  <2>1. <<U, T>> \in StrictSubsetOrdering(K)
    BY <1>3, <1>5 DEF StrictSubsetOrdering
  <2> QED
    BY <1>2, <1>3, <2>1
<1>8. Below(T, m) = U
  <2>1. \A s \in T : s # m => s.sequence < m.sequence
    BY <1>3, <1>5 DEF Numbered
  <2>2. ~(m.sequence < m.sequence)
    BY <1>3, <1>5 DEF Numbered
  <2> QED
    BY <2>1, <2>2 DEF Below
<1>9. \A r \in U : Below(T, r) = Below(U, r)
  <2> SUFFICES ASSUME NEW r \in U PROVE ~(m.sequence < r.sequence)
    BY DEF Below
  <2>1. r.sequence \in Nat /\ m.sequence \in Nat /\ r.sequence <= m.sequence
    BY <1>3, <1>5 DEF Numbered
  <2> QED
    BY <2>1
<1>10. ASSUME NEW k \in 0..((n + 1) - 1)
       PROVE  \E r \in T : Cardinality(Below(T, r)) = k
  <2>1. CASE k = n
    BY <1>5, <1>8, <2>1
  <2>2. CASE k \in 0..(n - 1)
    <3>1. PICK r \in U : Cardinality(Below(U, r)) = k
      BY <1>7, <2>2 DEF HasRanks
    <3> QED
      BY <1>9, <3>1
  <2>3. k = n \/ k \in 0..(n - 1)
    <3> HIDE DEF n
    <3> QED
      BY <1>6
  <2> QED
    BY <2>1, <2>2, <2>3
<1>11. HasRanks(T)
  BY <1>6, <1>10 DEF HasRanks
<1> QED
  BY <1>2, <1>11

\* Where no sequence number is missing, a record's number is its rank.
LEMMA FullRank ==
    ASSUME NEW K, Numbered(K), \A r \in K : r.sequence < Cardinality(K), NEW r \in K
    PROVE  Cardinality(Below(K, r)) = r.sequence
<1> DEFINE n == Cardinality(K)
           f == [s \in K |-> s.sequence]
           g == [s \in Below(K, r) |-> s.sequence]
           q == r.sequence
<1>1. n \in Nat /\ IsFiniteSet(K) /\ q \in Nat /\ q < n
  BY FS_CardinalityType DEF Numbered
<1>2. f \in Injection(K, 0..(n - 1))
  <2>1. \A s \in K : s.sequence \in 0..(n - 1)
    <3>1. \A s \in K : s.sequence \in Nat /\ s.sequence < n
      BY DEF Numbered
    <3> HIDE DEF n
    <3> QED
      BY <1>1, <3>1
  <2> HIDE DEF n
  <2>2. f \in [K -> 0..(n - 1)]
    BY <2>1
  <2>3. \A s, t \in K : f[s] = f[t] => s = t
    BY DEF Numbered
  <2> HIDE DEF f
  <2> QED
    BY <2>2, <2>3 DEF Injection, IsInjective
<1>3. IsFiniteSet(0..(n - 1)) /\ Cardinality(0..(n - 1)) = n
  <2> HIDE DEF n
  <2>1. 0 \in Int /\ n - 1 \in Int
    BY <1>1
  <2>2. IsFiniteSet(0..(n - 1)) /\ Cardinality(0..(n - 1)) = IF 0 > n - 1
                                                         THEN 0 ELSE (n - 1) - 0 + 1
    BY <2>1, FS_Interval
  <2> QED
    BY <1>1, <2>2
<1>4. \A k \in 0..(n - 1) : \E s \in K : f[s] = k
  <2>1. f \in Surjection(K, 0..(n - 1))
    BY <1>2, <1>3, FS_Injection
  <2> QED
    BY <2>1 DEF Surjection
<1> HIDE DEF n
<1>5. g \in Injection(Below(K, r), 0..(q - 1))
  <2>1. \A s \in Below(K, r) : s \in K /\ s.sequence \in 0..(q - 1)
    BY <1>1 DEF Below, Numbered
  <2>2. g \in [Below(K, r) -> 0..(q - 1)]
    BY <2>1
  <2>3. \A s, t \in Below(K, r) : g[s] = g[t] => s = t
    BY <2>1 DEF Numbered
  <2> HIDE DEF g
  <2> QED
    BY <2>2, <2>3 DEF Injection, IsInjective
<1>6. g \in Surjection(Below(K, r), 0..(q - 1))
  <2>1. ASSUME NEW k \in 0..(q - 1) PROVE \E s \in Below(K, r) : g[s] = k
    <3>1. k \in 0..(n - 1) /\ k < q
      BY <1>1
    <3>2. PICK s \in K : f[s] = k
      BY <1>4, <3>1
    <3>3. s \in Below(K, r) /\ s.sequence = k
      BY <3>1, <3>2 DEF Below
    <3> QED
      BY <3>3
  <2>2. g \in [Below(K, r) -> 0..(q - 1)]
    BY <1>5 DEF Injection
  <2> HIDE DEF g
  <2> QED
    BY <2>1, <2>2 DEF Surjection
<1>7. IsFiniteSet(0..(q - 1)) /\ Cardinality(0..(q - 1)) = q
  <2>1. 0 \in Int /\ q - 1 \in Int
    BY <1>1
  <2>2. IsFiniteSet(0..(q - 1)) /\ Cardinality(0..(q - 1)) = IF 0 > q - 1
                                                         THEN 0 ELSE (q - 1) - 0 + 1
    BY <2>1, FS_Interval
  <2> QED
    BY <1>1, <2>2
<1> QED
  BY <1>5, <1>6, <1>7, FS_Injection
-----------------------------------------------------------------------------
Kept(body) == {r \in records : r.body = body}

\* A record is of the entry of journal j that it says it is.
RecordOf(r, j) == r.sequence < Len(j) /\ r.entry = j[r.sequence + 1]

RecordsInv ==
    /\ IsFiniteSet(records)
    /\ \A r \in records :
          /\ r = Record(r.body, r.sequence, r.entry)
          /\ r.sequence \in Nat
          /\ r.body = "lifecycle_transition" => RecordOf(r, requests)
          /\ r.body = "election" => RecordOf(r, journal)

\* The records of a journal, in place, are a prefix of it; if there are as many
\* as entries, they are the journal.
LEMMA RecordsTell ==
    ASSUME NEW body, NEW S, NEW j \in Seq(S), Numbered(Kept(body)),
           \A r \in Kept(body) : RecordOf(r, j)
    PROVE  LET sorted == Sorted(body)
           IN  /\ InPlace(sorted) => IsPrefix(Entries(sorted), j)
               /\ Len(sorted) = Len(j) /\ j # <<>> => InPlace(sorted) /\ Entries(sorted) = j
<1> DEFINE K == Kept(body)
           n == Cardinality(K)
           sorted == Sorted(body)
           told == Entries(sorted)
<1>1. n \in Nat
  BY FS_CardinalityType DEF Numbered
<1>2. DOMAIN sorted = 1..n /\ Len(sorted) = n
  <2>1. DOMAIN sorted = 1..n
    BY DEF Sorted, Kept
  <2> QED
    BY <1>1, <2>1
<1>3. ASSUME NEW i \in 1..n
      PROVE  sorted[i] \in K /\ Cardinality(Below(K, sorted[i])) = i - 1
  <2>1. i - 1 \in 0..(n - 1)
    <3> HIDE DEF n
    <3> QED
      BY <1>1
  <2>2. \E r \in K : Cardinality(Below(K, r)) = i - 1
    BY <2>1, EveryRank DEF HasRanks
  <2>3. sorted[i] = CHOOSE r \in K : Cardinality(Below(K, r)) = i - 1
    BY DEF Sorted, Kept, Below
  <2> HIDE DEF sorted, K
  <2> QED
    BY <2>2, <2>3
<1>4. DOMAIN told = 1..n /\ \A i \in 1..n : told[i] = sorted[i].entry
  BY <1>2 DEF Entries
<1>5. Len(j) \in Nat /\ \A i \in 1..Len(j) : j[i] \in S
  OBVIOUS
<1>6. ASSUME InPlace(sorted) PROVE n <= Len(j) /\ \A i \in 1..n : told[i] = j[i]
  <2>1. \A i \in 1..n : sorted[i].sequence = i - 1
    BY <1>2, <1>6 DEF InPlace
  <2>2. \A i \in 1..n : i - 1 < Len(j) /\ told[i] = j[(i - 1) + 1]
    BY <1>3, <1>4, <2>1 DEF RecordOf
  <2> HIDE DEF n, told
  <2>3. n <= Len(j)
    <3>1. CASE n = 0
      BY <1>5, <3>1
    <3>2. CASE n > 0
      <4>1. n \in 1..n
        BY <1>1, <3>2
      <4> QED
        BY <1>1, <1>5, <2>2, <4>1
    <3> QED
      BY <1>1, <3>1, <3>2
  <2>4. \A i \in 1..n : (i - 1) + 1 = i
    BY <1>1
  <2> QED
    BY <2>2, <2>3, <2>4
<1>7. ASSUME n <= Len(j), \A i \in 1..n : told[i] = j[i]
      PROVE  told \in Seq(S) /\ Len(told) = n
  <2>1. \A i \in 1..n : told[i] \in S
    <3> HIDE DEF n, told
    <3> QED
      BY <1>1, <1>5, <1>7
  <2>2. told \in [1..n -> S]
    <3>1. told = [i \in 1..n |-> told[i]]
      BY <1>2 DEF Entries
    <3> HIDE DEF told, n
    <3> QED
      BY <2>1, <3>1
  <2> HIDE DEF told, n
  <2> QED
    BY <1>1, <2>2
<1>8. ASSUME InPlace(sorted) PROVE IsPrefix(told, j)
  <2>1. n <= Len(j) /\ \A i \in 1..n : told[i] = j[i]
    BY <1>6, <1>8
  <2>2. told \in Seq(S) /\ Len(told) = n
    BY <1>7, <2>1
  <2> HIDE DEF told, n, sorted
  <2> DEFINE a == SubSeq(told, 1, n)
             b == SubSeq(j, 1, n)
  <2>3. /\ a \in Seq(S) /\ Len(a) = n /\ b \in Seq(S) /\ Len(b) = n
        /\ \A i \in 1..n : a[i] = told[i] /\ b[i] = j[i]
    BY <1>1, <1>5, <2>1, <2>2
  <2> HIDE DEF a, b
  <2>4. a = b
    BY <2>1, <2>3, SeqEqual
  <2> QED
    BY <2>1, <2>2, <2>4 DEF IsPrefix, a, b
<1>9. ASSUME n = Len(j), j # <<>> PROVE InPlace(sorted) /\ told = j
  <2>1. \A r \in K : Cardinality(Below(K, r)) = r.sequence
    BY <1>9, FullRank DEF RecordOf
  <2>2. \A i \in 1..n : sorted[i].sequence = i - 1
    BY <1>3, <2>1
  <2>3. n > 0
    <3> HIDE DEF n
    <3> QED
      BY <1>1, <1>9
  <2>4. sorted # <<>>
    <3> HIDE DEF sorted, n
    <3> QED
      BY <1>2, <2>3
  <2>5. InPlace(sorted)
    BY <1>2, <2>2, <2>4 DEF InPlace
  <2>6. \A i \in 1..n : told[i] = j[i]
    BY <1>6, <2>5
  <2>7. told \in Seq(S) /\ Len(told) = n
    BY <1>1, <1>7, <1>9, <2>6
  <2> HIDE DEF told, n, sorted
  <2>8. told = j
    BY <1>9, <2>6, <2>7, SeqEqual
  <2> QED
    BY <2>5, <2>8
<1> QED
  BY <1>2, <1>8, <1>9

\* The journal of the elections rebuilds.
LEMMA SubmitRebuilds ==
    ASSUME ElectionsInv, Rebuilds(journal), NEW s \in Submission, Submit(s)
    PROVE  Rebuilds(journal')
<1> DEFINE n == Len(journal)
           e == Entry(journal, s)
<1>1. journal \in Seq(ElectionEntry) /\ journal' = Append(journal, e)
  BY DEF ElectionsInv, Journal, Submit
<1>2. e \in ElectionEntry /\ e.submission = s
  BY <1>1, EntryFacts DEF Journal
<1> HIDE DEF e
<1>3. /\ n \in Nat /\ DOMAIN journal = 1..n /\ DOMAIN journal' = 1..(n + 1)
      /\ journal'[n + 1] = e /\ \A i \in 1..n : journal'[i] = journal[i]
      /\ journal' \in Seq(ElectionEntry) /\ Len(journal') = n + 1
  BY <1>1, <1>2
<1>4. ASSUME NEW i \in 1..(n + 1) PROVE SubSeq(journal', 1, i - 1) = SubSeq(journal, 1, i - 1)
  <2> HIDE DEF n
  <2> DEFINE a == SubSeq(journal', 1, i - 1)
             b == SubSeq(journal, 1, i - 1)
  <2>1. i - 1 \in Nat /\ i - 1 <= n
    BY <1>3
  <2>2. /\ a \in Seq(ElectionEntry) /\ Len(a) = i - 1
        /\ b \in Seq(ElectionEntry) /\ Len(b) = i - 1
        /\ \A k \in 1..(i - 1) : a[k] = journal'[k] /\ b[k] = journal[k]
    BY <1>1, <1>3, <2>1 DEF n
  <2>3. \A k \in 1..(i - 1) : a[k] = b[k]
    <3>1. \A k \in 1..(i - 1) : k \in 1..n
      BY <1>3, <2>1
    <3> QED
      BY <1>3, <2>2, <3>1
  <2> HIDE DEF a, b
  <2> QED
    BY <2>2, <2>3, SeqEqual DEF a, b
<1>5. SubSeq(journal, 1, n) = journal
  <2> DEFINE b == SubSeq(journal, 1, n)
  <2>1. b \in Seq(ElectionEntry) /\ Len(b) = n /\ \A k \in 1..n : b[k] = journal[k]
    BY <1>1
  <2> HIDE DEF b
  <2>2. b = journal
    BY <1>1, <2>1, SeqEqual
  <2> QED
    BY <2>2 DEF b
<1>6. ASSUME NEW i \in 1..(n + 1)
      PROVE  journal'[i] = Entry(SubSeq(journal', 1, i - 1), journal'[i].submission)
  <2>1. CASE i \in 1..n
    BY <1>3, <1>4, <2>1 DEF Rebuilds
  <2>2. CASE i = n + 1
    <3>1. SubSeq(journal', 1, i - 1) = journal
      BY <1>3, <1>4, <1>5, <2>2
    <3> QED
      BY <1>2, <1>3, <2>2, <3>1 DEF e
  <2>3. i \in 1..n \/ i = n + 1
    <3> HIDE DEF n
    <3> QED
      BY <1>3
  <2> QED
    BY <2>1, <2>2, <2>3
<1> QED
  BY <1>3, <1>6 DEF Rebuilds

Books == LifecycleInv /\ ElectionsInv /\ Rebuilds(journal) /\ RecordsInv

\* A record that is kept is of the entry that was just journaled.
LEMMA KeptInv ==
    ASSUME RecordsInv, NEW r, KeptOrLost(r), Len(requests) \in Nat, Len(journal) \in Nat,
           \A i \in 1..Len(requests) : requests'[i] = requests[i],
           Len(requests) <= Len(requests'), Len(requests') \in Nat,
           \A i \in 1..Len(journal) : journal'[i] = journal[i],
           Len(journal) <= Len(journal'), Len(journal') \in Nat,
           r = Record(r.body, r.sequence, r.entry), r.sequence \in Nat,
           r.body = "lifecycle_transition" => RecordOf(r, requests'),
           r.body = "election" => RecordOf(r, journal')
    PROVE  RecordsInv'
<1>1. records' \subseteq records \cup {r} /\ IsFiniteSet(records \cup {r})
  BY FS_AddElement DEF KeptOrLost, RecordsInv
<1>2. IsFiniteSet(records')
  BY <1>1, FS_Subset
<1>3. ASSUME NEW q \in records'
      PROVE  /\ q = Record(q.body, q.sequence, q.entry)
             /\ q.sequence \in Nat
             /\ q.body = "lifecycle_transition" => RecordOf(q, requests')
             /\ q.body = "election" => RecordOf(q, journal')
  <2>1. CASE q = r
    BY <2>1
  <2>2. CASE q \in records
    <3>1. q = Record(q.body, q.sequence, q.entry) /\ q.sequence \in Nat
      BY <2>2 DEF RecordsInv
    <3>2. ASSUME q.body = "lifecycle_transition" PROVE RecordOf(q, requests')
      <4>1. q.sequence < Len(requests) /\ q.entry = requests[q.sequence + 1]
        BY <2>2, <3>2 DEF RecordsInv, RecordOf
      <4>2. q.sequence + 1 \in 1..Len(requests)
        BY <3>1, <4>1
      <4> QED
        BY <3>1, <4>1, <4>2 DEF RecordOf
    <3>3. ASSUME q.body = "election" PROVE RecordOf(q, journal')
      <4>1. q.sequence < Len(journal) /\ q.entry = journal[q.sequence + 1]
        BY <2>2, <3>3 DEF RecordsInv, RecordOf
      <4>2. q.sequence + 1 \in 1..Len(journal)
        BY <3>1, <4>1
      <4> QED
        BY <3>1, <4>1, <4>2 DEF RecordOf
    <3> QED
      BY <3>1, <3>2, <3>3
  <2> QED
    BY <1>1, <2>1, <2>2
<1> QED
  BY <1>2, <1>3 DEF RecordsInv, RecordOf

LEMMA RecordRequestInv ==
    ASSUME Books, NEW q \in Lifecycle!TransitionRequest, RecordRequest(q)
    PROVE  RecordsInv'
<1> DEFINE n == Len(requests)
           entry == Lifecycle!Step(state, n, q)
           r == Record("lifecycle_transition", n, requests'[Len(requests')])
<1>1. /\ KeptOrLost(r) /\ requests' = Append(requests, entry) /\ journal' = journal
  BY DEF RecordRequest, Lifecycle!Request
<1>2. requests \in Seq(Lifecycle!TransitionEntry) /\ journal \in Seq(ElectionEntry)
  BY DEF Books, LifecycleInv, Lifecycle!TypeOK, ElectionsInv, Journal
<1> HIDE DEF entry
<1>3. /\ n \in Nat /\ Len(requests') = n + 1 /\ Len(journal) \in Nat
      /\ \A i \in 1..n : requests'[i] = requests[i]
  BY <1>1, <1>2
<1>4. r.body = "lifecycle_transition" /\ r.sequence = n /\ r.entry = requests'[n + 1]
  BY <1>3 DEF Record
<1>5. r = Record(r.body, r.sequence, r.entry)
  BY DEF Record
<1> HIDE DEF r
<1>6. RecordOf(r, requests')
  BY <1>3, <1>4 DEF RecordOf
<1>7. RecordsInv /\ n <= Len(requests') /\ Len(requests') \in Nat /\ Len(journal) <= Len(journal')
      /\ Len(journal') \in Nat /\ r.sequence \in Nat /\ r.body # "election"
  BY <1>1, <1>3, <1>4 DEF Books
<1> QED
  BY <1>1, <1>3, <1>4, <1>5, <1>6, <1>7, KeptInv

LEMMA RecordSubmissionInv ==
    ASSUME Books, NEW s \in Submission, RecordSubmission(s)
    PROVE  RecordsInv'
<1> DEFINE n == Len(journal)
           entry == Entry(journal, s)
           r == Record("election", n, journal'[Len(journal')])
<1>1. KeptOrLost(r) /\ journal' = Append(journal, entry) /\ requests' = requests
  BY DEF RecordSubmission, Submit
<1>2. requests \in Seq(Lifecycle!TransitionEntry) /\ journal \in Seq(ElectionEntry)
  BY DEF Books, LifecycleInv, Lifecycle!TypeOK, ElectionsInv, Journal
<1> HIDE DEF entry
<1>3. /\ n \in Nat /\ Len(journal') = n + 1 /\ Len(requests) \in Nat
      /\ \A i \in 1..n : journal'[i] = journal[i]
  BY <1>1, <1>2
<1>4. r.body = "election" /\ r.sequence = n /\ r.entry = journal'[n + 1]
  BY <1>3 DEF Record
<1>5. r = Record(r.body, r.sequence, r.entry)
  BY DEF Record
<1> HIDE DEF r
<1>6. RecordOf(r, journal')
  BY <1>3, <1>4 DEF RecordOf
<1>7. RecordsInv /\ Len(requests) <= Len(requests') /\ Len(requests') \in Nat
      /\ n <= Len(journal') /\ Len(journal') \in Nat /\ r.sequence \in Nat
      /\ r.body # "lifecycle_transition"
  BY <1>1, <1>3, <1>4 DEF Books
<1> QED
  BY <1>1, <1>3, <1>4, <1>5, <1>6, <1>7, KeptInv

LEMMA RecordDefaultsInv ==
    ASSUME Books, NEW as_of, RecordDefaults(as_of)
    PROVE  RecordsInv'
<1> DEFINE r == Record("default_assignment", 0, Assignment(journal, as_of))
<1>1. KeptOrLost(r) /\ journal' = journal /\ requests' = requests
  BY DEF RecordDefaults, AssignDefaults
<1>2. requests \in Seq(Lifecycle!TransitionEntry) /\ journal \in Seq(ElectionEntry)
  BY DEF Books, LifecycleInv, Lifecycle!TypeOK, ElectionsInv, Journal
<1>3. /\ r = Record(r.body, r.sequence, r.entry) /\ r.sequence \in Nat
      /\ r.body # "election" /\ r.body # "lifecycle_transition"
  BY DEF Record
<1> HIDE DEF r
<1>4. /\ Len(requests) \in Nat /\ Len(requests') \in Nat /\ Len(requests) <= Len(requests')
      /\ Len(journal) \in Nat /\ Len(journal') \in Nat /\ Len(journal) <= Len(journal')
  BY <1>1, <1>2
<1>5. RecordsInv
  BY DEF Books
<1> QED
  BY <1>1, <1>3, <1>4, <1>5, KeptInv

\* RecordsInv is inductive with the rebuilding of the elections' journal.
LEMMA RecordsInvariance == EventSpec => [](Rebuilds(journal) /\ RecordsInv)
<1>1. EventInit => Rebuilds(journal) /\ RecordsInv
  BY FS_EmptySet DEF EventInit, Init, Rebuilds, RecordsInv
<1>2. Books /\ [EventNext]_<<part, elections, payment>> => (Rebuilds(journal) /\ RecordsInv)'
  <2> SUFFICES ASSUME Books, [EventNext]_<<part, elections, payment>>
               PROVE  Rebuilds(journal') /\ RecordsInv'
    BY DEF Rebuilds
  <2>1. ASSUME NEW q \in Lifecycle!TransitionRequest, RecordRequest(q)
        PROVE  Rebuilds(journal') /\ RecordsInv'
    BY <2>1, RecordRequestInv DEF RecordRequest, Books
  <2>2. ASSUME NEW s \in Submission, RecordSubmission(s)
        PROVE  Rebuilds(journal') /\ RecordsInv'
    BY <2>2, RecordSubmissionInv, SubmitRebuilds DEF RecordSubmission, Books
  <2>3. ASSUME NEW as_of \in Date, RecordDefaults(as_of)
        PROVE  Rebuilds(journal') /\ RecordsInv'
    BY <2>3, RecordDefaultsInv DEF RecordDefaults, AssignDefaults, Books
  <2>4. CASE UNCHANGED elections
    BY <2>4 DEF elections, Books, RecordsInv
  <2> QED
    BY <2>1, <2>2, <2>3, <2>4 DEF EventNext, ElectionsNext
<1> QED
  BY <1>1, <1>2, EventHasLifecycle, LifecycleInvariance, ElectionsInvariance, PTL
  DEF EventSpec, Books

\* Records that rebuild tell a past of the event as it was, and all of it if
\* none was lost (record.py, rebuild_from_records, rebuild_elections_from_records).
THEOREM RecordsAlwaysTellThePast == EventSpec => []RecordsTellThePast
<1>1. Books => RecordsTellThePast
  <2> SUFFICES ASSUME Books PROVE RecordsTellThePast
    OBVIOUS
  <2> DEFINE lifecycle == Sorted("lifecycle_transition")
             entries == Sorted("election")
  <2>1. \A body \in {"lifecycle_transition", "election"} : Numbered(Kept(body))
    <3> SUFFICES ASSUME NEW body \in {"lifecycle_transition", "election"}
                 PROVE  Numbered(Kept(body))
      OBVIOUS
    <3>1. IsFiniteSet(Kept(body))
      BY FS_Subset DEF Books, RecordsInv, Kept
    <3>2. \A r \in Kept(body) : /\ r.sequence \in Nat /\ r.body = body
                                /\ r = Record(body, r.sequence, r.entry)
                                /\ \/ RecordOf(r, requests) /\ body = "lifecycle_transition"
                                   \/ RecordOf(r, journal) /\ body = "election"
      BY DEF Books, RecordsInv, Kept
    <3>3. \A r, s \in Kept(body) : r.sequence = s.sequence => r.entry = s.entry
      BY <3>2 DEF RecordOf
    <3>4. \A r, s \in Kept(body) : r.sequence = s.sequence => r = s
      BY <3>2, <3>3, Zenon
    <3> QED
      BY <3>1, <3>2, <3>4 DEF Numbered
  <2>2. /\ requests \in Seq(Lifecycle!TransitionEntry) /\ journal \in Seq(ElectionEntry)
        /\ Lifecycle!Rebuilds(requests) /\ Rebuilds(journal)
    BY DEF Books, LifecycleInv, Lifecycle!TypeOK, Lifecycle!JournalRebuilds, ElectionsInv, Journal
  <2>3. /\ \A r \in Kept("lifecycle_transition") : RecordOf(r, requests)
        /\ \A r \in Kept("election") : RecordOf(r, journal)
    BY DEF Books, RecordsInv, Kept
  <2>4. /\ InPlace(lifecycle) => IsPrefix(Entries(lifecycle), requests)
        /\ Len(lifecycle) = Len(requests) /\ requests # <<>> =>
             InPlace(lifecycle) /\ Entries(lifecycle) = requests
    BY <2>1, <2>2, <2>3, RecordsTell
  <2>5. /\ InPlace(entries) => IsPrefix(Entries(entries), journal)
        /\ Len(entries) = Len(journal) /\ journal # <<>> =>
             InPlace(entries) /\ Entries(entries) = journal
    BY <2>1, <2>2, <2>3, RecordsTell
  <2> HIDE DEF lifecycle, entries
  <2>6. /\ LifecycleRebuilds(lifecycle) => IsPrefix(Entries(lifecycle), requests)
        /\ ElectionsRebuild(entries) => IsPrefix(Entries(entries), journal)
        /\ Len(lifecycle) = Len(requests) /\ requests # <<>> => LifecycleRebuilds(lifecycle)
        /\ Len(entries) = Len(journal) /\ journal # <<>> => ElectionsRebuild(entries)
    BY <2>2, <2>4, <2>5 DEF LifecycleRebuilds, ElectionsRebuild
  <2> QED
    BY <2>6 DEF RecordsTellThePast, lifecycle, entries
<1> QED
  BY <1>1, EventHasLifecycle, LifecycleInvariance, ElectionsInvariance, RecordsInvariance, PTL
  DEF Books
-----------------------------------------------------------------------------
\* The payment.  Where no report is of an account, nothing was confirmed.
LEMMA NothingConfirmed ==
    ASSUME NEW reports, NEW account, Of(reports, account) = {}
    PROVE  Confirmed(reports, account) = 0
<1> DEFINE S == Of(reports, account)
           G == CHOOSE H : H = [s \in SUBSET S |-> IF s = {} THEN 0
                   ELSE LET x == CHOOSE x \in s : TRUE
                        IN  reports[x].quantity + H[s \ {x}]]
           F == [s \in SUBSET S |-> 0]
<1>1. S = {}
  OBVIOUS
<1>2. Confirmed(reports, account) = G[S]
  BY Zenon DEF Confirmed, MapThenSumSet, MapThenFoldSet
<1> HIDE DEF S
<1>3. F = [s \in SUBSET S |-> IF s = {} THEN 0
              ELSE LET x == CHOOSE x \in s : TRUE IN reports[x].quantity + F[s \ {x}]]
  <2>1. \A s \in SUBSET S : s = {}
    BY <1>1
  <2> QED
    BY <2>1
<1>4. G = [s \in SUBSET S |-> IF s = {} THEN 0
              ELSE LET x == CHOOSE x \in s : TRUE IN reports[x].quantity + G[s \ {x}]]
  BY <1>3, Zenon
<1> HIDE DEF G
<1>5. G[S] = 0
  BY <1>1, <1>4
<1> QED
  BY <1>2, <1>5

\* An event of which nothing is unstated has a factor of whole numbers.
LEMMA FactorType ==
    ASSUME NEW e \in PaidEvent, Factor(e) # Unstated
    PROVE  Factor(e).d \in Int
<1>1. \A term \in Term : e.terms[term] \in Int \cup {Unstated}
  BY PaidEventAssumption
<1>2. e.type \in ComputedEventTypes /\ \A term \in Needs(e.type) : e.terms[term] # Unstated
  BY DEF Factor
<1>3. CASE e.type = "REINVESTMENT"
  <2>1. "price" \in Needs(e.type) /\ "price" \in Term
    BY <1>3 DEF Needs, Redeems, Distributes, Term
  <2>2. Factor(e) = Ratio(e.terms.cash, e.terms.price)
    BY <1>2, <1>3 DEF Factor
  <2>3. e.terms.price \in Int
    BY <1>1, <1>2, <2>1
  <2> QED
    BY <2>2, <2>3 DEF Ratio
<1>4. CASE e.type = "SPLIT"
  <2>1. "old" \in Needs(e.type) /\ "old" \in Term
    BY <1>4 DEF Needs, Redeems, Distributes, Term
  <2>2. Factor(e) = Ratio(e.terms.new - e.terms.old, e.terms.old)
    BY <1>2, <1>4 DEF Factor
  <2>3. e.terms.old \in Int
    BY <1>1, <1>2, <2>1
  <2> QED
    BY <2>2, <2>3 DEF Ratio
<1>5. CASE e.type \notin {"REINVESTMENT", "SPLIT"}
  <2>1. Factor(e) = Ratio(e.terms[CHOOSE term \in Needs(e.type) : TRUE], 1)
    BY <1>2, <1>5 DEF Factor
  <2> QED
    BY <2>1 DEF Ratio
<1> QED
  BY <1>3, <1>4, <1>5

\* What PASS says of the event, of each holder and of each report.
LEMMA PassBreaksNothing ==
    ASSUME NEW e, NEW holders, NEW reports,
           Grade(ReconcileBreaks(e, holders, reports)) = "PASS"
    PROVE  /\ Factor(e) # Unstated
           /\ \A holder \in holders : HolderBreaks(e, holder, reports) = {}
           /\ \A i \in DOMAIN reports :
                 \E holder \in holders : holder.account = reports[i].account
<1>1. ReconcileBreaks(e, holders, reports) = {}
  BY DEF Grade
<1>2. Stopped(e) = {} /\ AccountBreaks(e, holders, reports) = {}
  BY <1>1 DEF ReconcileBreaks
<1>3. Factor(e) # Unstated
  BY <1>2 DEF Stopped
<1> DEFINE broken == UNION {HolderBreaks(e, holder, reports) : holder \in holders}
           strangers == {r.account : r \in Range(reports)} \ {h.account : h \in holders}
           moves == {code \in {"unexpected_movement"} : strangers # {}}
<1>4. broken = {} /\ moves = {}
  <2>1. AccountBreaks(e, holders, reports) = broken \cup moves
    BY Zenon DEF AccountBreaks
  <2> HIDE DEF broken, moves
  <2> QED
    BY <1>2, <2>1
<1>5. strangers = {}
  <2> HIDE DEF strangers
  <2> QED
    BY <1>4, Zenon
<1>6. \A i \in DOMAIN reports : reports[i] \in Range(reports)
  BY DEF Range
<1>7. \A holder \in holders : HolderBreaks(e, holder, reports) = {}
  BY <1>4, Zenon
<1> QED
  BY <1>3, <1>5, <1>6, <1>7

\* A holder without a break was owed a number, and got it in credits of it.
LEMMA UnbrokenHolder ==
    ASSUME NEW e, NEW holder, NEW reports, HolderBreaks(e, holder, reports) = {}
    PROVE  /\ holder.quantity # Unstated
           /\ Told(reports, holder.account) = {} => holder.quantity = 0
           /\ Told(reports, holder.account) # {} =>
                Confirmed(reports, holder.account) * Factor(e).d = holder.quantity
           /\ \A r \in Told(reports, holder.account) : MovementConditions(e, r) = {}
<1> DEFINE told == Told(reports, holder.account)
           structural == UNION {MovementConditions(e, r) : r \in told}
           differs == /\ structural = {}
                      /\ Confirmed(reports, holder.account) * Factor(e).d # holder.quantity
           other == OtherBalance(Factor(e), holder, reports)
           shown == UNION {DepositoryConditions(r) : r \in told}
           another == {code \in {"confirmed_against_other_balance"} : differs /\ other}
           unclear == {code \in {"unclassifiable"} : differs /\ ~other}
<1>1. HolderBreaks(e, holder, reports) =
        IF holder.quantity = Unstated THEN {"entitlement_not_computed"}
        ELSE IF told = {} THEN {code \in {"missing_confirmation"} : holder.quantity # 0}
        ELSE structural \cup shown \cup another \cup unclear
  BY Zenon DEF HolderBreaks
<1>2. another = {} /\ unclear = {} => ~differs
  <2> HIDE DEF differs, other
  <2> QED
    BY Zenon
<1> HIDE DEF differs, structural, shown, another, unclear
<1>3. holder.quantity # Unstated
  BY <1>1
<1>4. told = {} => holder.quantity = 0
  BY <1>1, <1>3
<1>5. told # {} => structural = {} /\ another = {} /\ unclear = {}
  BY <1>1, <1>3
<1>6. \A r \in told : MovementConditions(e, r) = {}
  BY <1>5 DEF structural
<1>7. told # {} => Confirmed(reports, holder.account) * Factor(e).d = holder.quantity
  BY <1>2, <1>5, Zenon DEF differs
<1> QED
  BY <1>3, <1>4, <1>6, <1>7

\* A holder has a number only if nothing stands in the way of it.
LEMMA EntitledHolder ==
    ASSUME NEW factor, NEW unit, NEW h, h.eligible \in Int,
           HolderEntitlement(factor, unit, h).quantity # Unstated
    PROVE  /\ h.eligible = h.settled /\ h.eligible >= 0
           /\ HolderEntitlement(factor, unit, h).quantity = factor.n * h.eligible
<1>1. Unavailable(factor, unit, h) = {}
  BY DEF HolderEntitlement
<1>2. ~(h.eligible < 0) /\ h.eligible = h.settled
  BY <1>1 DEF Unavailable
<1> QED
  BY <1>1, <1>2 DEF HolderEntitlement, Attributable

LEMMA PassIsPaid ==
    ASSUME event \in PaidEvent, holdings \in Holding
    PROVE  MatchedIsPaid
<1> DEFINE holders == Holders(event, holdings)
           factor == Factor(event)
           unit == Unit(event.type)
<1> SUFFICES ASSUME Grade(ReconcileBreaks(event, holders, moved)) = "PASS"
             PROVE  /\ \A r \in Range(moved) :
                         /\ \E h \in holdings : h.account = r.account
                         /\ r.direction = "credit"
                         /\ r.asset = IF unit = "cash" THEN event.currency ELSE event.security
                    /\ \A h \in holdings :
                         /\ h.eligible = h.settled /\ h.eligible >= 0
                         /\ Confirmed(moved, h.account) * factor.d = factor.n * h.eligible
  BY DEF MatchedIsPaid
<1>1. /\ factor # Unstated
      /\ \A holder \in holders : HolderBreaks(event, holder, moved) = {}
      /\ \A i \in DOMAIN moved : \E holder \in holders : holder.account = moved[i].account
  BY PassBreaksNothing
<1>2. holders = {HolderEntitlement(factor, unit, h) : h \in holdings}
  BY <1>1 DEF Holders
<1>3. factor.d \in Int
  BY <1>1, FactorType
<1>4. \A h \in holdings : HolderEntitlement(factor, unit, h).account = h.account
  BY DEF HolderEntitlement
<1>5. unit \in {"cash", "shares"}
  BY DEF Unit
<1> HIDE DEF holders, factor, unit
<1>6. ASSUME NEW r \in Range(moved)
      PROVE  /\ \E h \in holdings : h.account = r.account
             /\ r.direction = "credit"
             /\ r.asset = IF unit = "cash" THEN event.currency ELSE event.security
  <2>1. PICK i \in DOMAIN moved : r = moved[i]
    BY DEF Range
  <2>2. PICK holder \in holders : holder.account = r.account
    BY <1>1, <2>1
  <2>3. r \in Told(moved, holder.account)
    BY <2>1, <2>2 DEF Told, Of
  <2>4. MovementConditions(event, r) = {}
    BY <1>1, <2>3, UnbrokenHolder
  <2>5. /\ r.direction = "credit" /\ r.unit = unit
        /\ ~(r.unit = "cash" /\ unit = "cash" /\ r.asset # event.currency)
        /\ ~(r.unit = "shares" /\ unit = "shares" /\ r.asset # event.security)
    BY <2>4 DEF MovementConditions, unit
  <2> QED
    BY <1>2, <1>4, <1>5, <2>2, <2>5
<1>7. ASSUME NEW h \in holdings
      PROVE  /\ h.eligible = h.settled /\ h.eligible >= 0
             /\ Confirmed(moved, h.account) * factor.d = factor.n * h.eligible
  <2> DEFINE holder == HolderEntitlement(factor, unit, h)
  <2>1. holder \in holders /\ holder.account = h.account
    BY <1>2, <1>4
  <2> HIDE DEF holder
  <2>2. /\ holder.quantity # Unstated
        /\ Told(moved, h.account) = {} => holder.quantity = 0
        /\ Told(moved, h.account) # {} =>
             Confirmed(moved, h.account) * factor.d = holder.quantity
    BY <1>1, <2>1, UnbrokenHolder DEF factor
  <2>3. h.eligible \in Int
    BY HoldingAssumption
  <2>4. /\ h.eligible = h.settled /\ h.eligible >= 0
        /\ holder.quantity = factor.n * h.eligible
    BY <2>2, <2>3, EntitledHolder DEF holder
  <2>5. CASE Told(moved, h.account) = {}
    <3>1. Of(moved, h.account) = {}
      BY <2>5 DEF Told
    <3>2. Confirmed(moved, h.account) = 0
      BY <3>1, NothingConfirmed
    <3>3. 0 * factor.d = 0
      BY <1>3
    <3> QED
      BY <2>2, <2>4, <2>5, <3>2, <3>3
  <2> QED
    BY <2>2, <2>4, <2>5
<1> QED
  BY <1>6, <1>7

\* Whatever the depository reports, in whatever parts: what reconciles as PASS
\* was paid to the holders, in full, in what the event pays, and to nobody else
\* (reconciliation.py, _account and reconcile).
THEOREM MatchedIsAlwaysPaid == EventSpec => []MatchedIsPaid
<1> DEFINE Given == event \in PaidEvent /\ holdings \in Holding
<1>1. EventInit => Given
  BY DEF EventInit, PaymentInit
<1>2. Given /\ [EventNext]_<<part, elections, payment>> => Given'
  BY DEF EventNext, PaymentNext, ReadMovement, payment
<1>3. Given => MatchedIsPaid
  BY PassIsPaid
<1> QED
  BY <1>1, <1>2, <1>3, PTL DEF EventSpec
=============================================================================
