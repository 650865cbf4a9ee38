------------------------ MODULE CorporateActionPayment ------------------------
(***************************************************************************)
(* What an event owes its holders (corporate_actions/entitlement.py), what *)
(* the depository says it moved (movement.py), and the comparison of the   *)
(* two (reconciliation.py).  Reports come in one by one; entitlement and   *)
(* comparison are pure and are made of whatever the caller hands over.     *)
(*                                                                         *)
(* An exact fraction is a pair [n, d]; what a term, a balance or an        *)
(* entitlement does not state is Unstated.                                 *)
(***************************************************************************)
EXTENDS Integers, Sequences, SequencesExt

CONSTANTS
  Unstated,
  PaidEvent,   \* [id, type, elective, security, currency, terms]
  Holding,     \* the holdings at the record date, sets of holder positions
  Movement,    \* the reports the depository may send
  MaxMoved

Term == {"interest", "redemption", "cash", "stock", "new", "old", "price"}
ASSUME PaidEventAssumption ==
  \A e \in PaidEvent : e.terms \in [Term -> Int \cup {Unstated}]
ASSUME HoldingAssumption == \A hs \in Holding : \A h \in hs : h.eligible \in Int

VARIABLES
  event,       \* the event examined
  holdings,    \* the positions its entitlements are computed from
  moved        \* the reports that came in, in order

-----------------------------------------------------------------------------
(* entitlement.py.  A position is [account, security, eligible, settled,   *)
(* delivering, receiving, basis].                                          *)

Redeems == {"FINAL_MATURITY", "PARTIAL_REDEMPTION", "FULL_CALL", "REDEMPTION_LOTTERY"}
Distributes == {"CASH_DIVIDEND", "CAPITAL_GAINS_DISTRIBUTION", "CAPITAL_DISTRIBUTION"}
InShares == {"STOCK_DIVIDEND", "SPLIT", "REINVESTMENT"}
FixedIncome == {"INTEREST_PAYMENT"} \cup Redeems
ComputedEventTypes == FixedIncome \cup Distributes \cup InShares

Unit(type) == IF type \in InShares THEN "shares" ELSE "cash"

(* The terms an entitlement of each type is made of. *)
Needs(type) ==
  CASE type = "INTEREST_PAYMENT" -> {"interest"}
    [] type \in Redeems -> {"redemption"}
    [] type \in Distributes -> {"cash"}
    [] type = "STOCK_DIVIDEND" -> {"stock"}
    [] type = "SPLIT" -> {"new", "old"}
    [] type = "REINVESTMENT" -> {"cash", "price"}

Ratio(n, d) == [n |-> n, d |-> d]

(* _factor: what one unit of the position is owed. *)
Factor(e) ==
  LET terms == e.terms
  IN  IF e.type \notin ComputedEventTypes THEN Unstated
      ELSE IF \E term \in Needs(e.type) : terms[term] = Unstated THEN Unstated
      ELSE IF e.type = "REINVESTMENT"
        THEN IF terms.price = 0 THEN Unstated ELSE Ratio(terms.cash, terms.price)
      ELSE IF e.type = "SPLIT"
        THEN IF terms.new <= terms.old THEN Unstated
             ELSE Ratio(terms.new - terms.old, terms.old)
      ELSE Ratio(terms[CHOOSE term \in Needs(e.type) : TRUE], 1)

(* What is attributable to a holder, in units of 1 / factor.d. *)
Attributable(factor, h) == factor.n * h.eligible

(* _holder: why a holder gets no number. *)
Unavailable(factor, unit, h) ==
  {reason \in {"short_position"} : h.eligible < 0}
  \cup {reason \in {"record_date_divergence"} : h.eligible # h.settled}
  \cup {reason \in {"pending_delivery_or_receipt"} : h.delivering # 0 \/ h.receiving # 0}
  \cup {reason \in {"fractional_shares"} :
          unit = "shares" /\ Attributable(factor, h) % factor.d # 0}

HolderEntitlement(factor, unit, h) ==
  [account |-> h.account, eligible |-> h.eligible,
   quantity |-> IF Unavailable(factor, unit, h) # {} THEN Unstated
                ELSE Attributable(factor, h)]

(* compute_entitlements() raises for holdings that are not of this event.  *)
HoldingsFit(e, hs) ==
  /\ \A g, h \in hs : g.account = h.account => g = h
  /\ \A h \in hs :
       /\ h.security = e.security
       /\ e.type \in FixedIncome => h.basis = "face_amount"

Holders(e, hs) ==
  IF Factor(e) = Unstated THEN {}
  ELSE {HolderEntitlement(Factor(e), Unit(e.type), h) : h \in hs}

-----------------------------------------------------------------------------
(* movement.py.  A report is of a stage and an event, governed by one;     *)
(* `announced`: it states participation and the default option; `confirms` *)
(* is the balance it was calculated on; `fails` what it says of balances.  *)

FitsItsStage(report) ==
  /\ report.governs = report.event
  /\ report.announced = (report.stage = "preliminary_advice")
  /\ (report.confirms # Unstated) = (report.stage = "confirmation")

ReadMovement(report) ==
  /\ Len(moved) < MaxMoved
  /\ FitsItsStage(report)
  /\ moved' = Append(moved, report)
  /\ UNCHANGED <<event, holdings>>

-----------------------------------------------------------------------------
(* reconciliation.py                                                       *)

Indeterminate == {"elective_event", "entitlement_not_computed", "unclassifiable"}

(* _depository_conditions: fail_to_deliver, fail_to_receive and            *)
(* eligible_settled_divergence as the report shows them.                   *)
DepositoryConditions(report) == report.fails

(* _movement_conditions *)
MovementConditions(e, report) ==
  {code \in {"debit_not_credit"} : report.direction # "credit"}
  \cup {code \in {"wrong_movement_type"} : report.unit # Unit(e.type)}
  \cup {code \in {"currency_mismatch"} :
          report.unit = "cash" /\ Unit(e.type) = "cash" /\ report.asset # e.currency}
  \cup {code \in {"security_mismatch"} :
          report.unit = "shares" /\ Unit(e.type) = "shares" /\ report.asset # e.security}

(* The reports for one account: their places, what they tell, their sum.   *)
Of(reports, account) == {i \in DOMAIN reports : reports[i].account = account}
Told(reports, account) == {reports[i] : i \in Of(reports, account)}
Confirmed(reports, account) ==
  MapThenSumSet(LAMBDA i : reports[i].quantity, Of(reports, account))

(* The quantity is the factor times another balance, the same in each.     *)
OtherBalance(factor, holder, reports) ==
  LET told == Told(reports, holder.account)
  IN  \E other \in {r.confirms : r \in told} :
        /\ \A r \in told : r.confirms = other
        /\ other # holder.eligible
        /\ Confirmed(reports, holder.account) * factor.d = factor.n * other

(* What the reports for one holder break.  A holder's quantity is in units *)
(* of 1 / factor.d, a report's in whole ones.                              *)
HolderBreaks(e, holder, reports) ==
  LET factor == Factor(e)
      told == Told(reports, holder.account)
      structural == UNION {MovementConditions(e, r) : r \in told}
      differs == /\ structural = {}
                 /\ Confirmed(reports, holder.account) * factor.d # holder.quantity
      other == OtherBalance(factor, holder, reports)
  IN  IF holder.quantity = Unstated THEN {"entitlement_not_computed"}
      ELSE IF told = {}
        THEN {code \in {"missing_confirmation"} : holder.quantity # 0}
      ELSE structural
           \cup (UNION {DepositoryConditions(r) : r \in told})
           \cup {code \in {"confirmed_against_other_balance"} : differs /\ other}
           \cup {code \in {"unclassifiable"} : differs /\ ~other}

(* Mutant: only the holders' accounts are looked at. *)
AccountBreaksOfHolders(e, holders, reports) ==
  UNION {HolderBreaks(e, holder, reports) : holder \in holders}

AccountBreaks(e, holders, reports) ==
  (UNION {HolderBreaks(e, holder, reports) : holder \in holders})
  \cup {code \in {"unexpected_movement"} :
          {r.account : r \in Range(reports)} \ {h.account : h \in holders} # {}}

Stopped(e) ==
  {code \in {"elective_event"} : e.elective}
  \cup {code \in {"entitlement_not_computed"} : Factor(e) = Unstated}

(* reconcile() raises for a report of another event or another stage.      *)
ReportsFit(e, reports) ==
  \A r \in Range(reports) : r.event = e.id /\ r.stage = "confirmation"

(* The codes decide: matched is to have none.                              *)
ReconcileBreaks(e, holders, reports) ==
  IF Stopped(e) # {} THEN Stopped(e) ELSE AccountBreaks(e, holders, reports)

Grade(codes) ==
  IF codes \cap Indeterminate # {} THEN "INDETERMINATE"
  ELSE IF codes # {} THEN "HOLD" ELSE "PASS"

-----------------------------------------------------------------------------
PaymentInit ==
  /\ event \in PaidEvent
  /\ holdings \in {hs \in Holding : HoldingsFit(event, hs)}
  /\ moved = << >>

PaymentNext == \E report \in Movement : ReadMovement(report)

(* Matched is paid: what reconciles as PASS moved to every holder, as a    *)
(* credit of what the event pays in, the event's factor of the position he *)
(* was eligible for, which settled as it stood and was not short; and      *)
(* moved nothing to anybody else, in however many reports                  *)
(* (reconciliation.py:205-246, 286-292).                                   *)
MatchedIsPaid ==
  /\ ReportsFit(event, moved)
  /\ Grade(ReconcileBreaks(event, Holders(event, holdings), moved)) = "PASS"
  => /\ \A r \in Range(moved) :
          /\ \E h \in holdings : h.account = r.account
          /\ r.direction = "credit"
          /\ r.asset = IF Unit(event.type) = "cash" THEN event.currency ELSE event.security
     /\ \A h \in holdings :
          /\ h.eligible = h.settled /\ h.eligible >= 0
          /\ Confirmed(moved, h.account) * Factor(event).d = Factor(event).n * h.eligible
=============================================================================
