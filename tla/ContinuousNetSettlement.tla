---------------------- MODULE ContinuousNetSettlement ----------------------
(***************************************************************************)
(* Continuous net settlement (rails/cns.py): the trades of a member in a   *)
(* security become one net position, the venue reports what it allocated   *)
(* to it, and what stays open is a fail that ages towards a close-out      *)
(* deadline.  Nothing is inferred: silence, a report that contradicts the  *)
(* position and rules nobody read are said to be so.                       *)
(***************************************************************************)
EXTENDS Deadlines

Sign(x) == IF x > 0 THEN 1 ELSE IF x < 0 THEN -1 ELSE 0
Size(x) == IF x < 0 THEN -x ELSE x

---------------------------------------------------------------------------
\* A market [id, regime, deadline, dateRule, message, cycle, published, provenance].

ProcessingDateRules ==
  {"fixed_cycle_from_trade_date", "session_closure_message", "not_assessed"}
CloseOutRegimes == {"mandatory_deadline", "none_published", "not_assessed"}

MarketValid(m) ==
  LET assessed == m.regime # "not_assessed"
  IN  /\ m.regime \in CloseOutRegimes /\ m.dateRule \in ProcessingDateRules
      /\ assessed => m.provenance
      /\ ~assessed => m.deadline = None /\ m.cycle = None /\ m.dateRule = "not_assessed"
      /\ (m.regime = "mandatory_deadline") = (m.deadline # None)
      /\ (m.dateRule = "session_closure_message") = m.message
absent_market_profile(id) ==
  [id |-> id, regime |-> "not_assessed", deadline |-> None, dateRule |-> "not_assessed",
   message |-> FALSE, cycle |-> None, published |-> FALSE, provenance |-> FALSE]

---------------------------------------------------------------------------
\* Netting.

\* One position [issue, quantity, market, assigned] per issue traded.
\* trades is a set of [issue, quantity, id].
net_positions(trades, market, assigned, novated) ==
  IF ~novated THEN {}
  ELSE {[issue |-> i, market |-> market, assigned |-> assigned,
         quantity |-> MapThenSumSet(LAMBDA t : t.quantity, {t \in trades : t.issue = i})] :
        i \in {t.issue : t \in trades}}

---------------------------------------------------------------------------
\* Settling one position on a report [quantity, cash], either of which may be
\* None, or NotFinite where the venue sent no number.

CONSTANT NotFinite

Contradictions == {"market_profile_mismatch", "allocation_not_finite",
                   "allocation_wrong_sign", "allocation_exceeds_position"}
\* A fail that stays open: what is still to move, since when.
Fails == [quantity : Int, cash : Int, settles : Int, aged : Nat]
ASSUME NoneIsApart == None \notin Int /\ None \notin Contradictions /\ None \notin Fails
ASSUME NotFiniteIsNoNumber == NotFinite \notin Int

Result(disposition, report, residual, breaches) ==
  [disposition |-> disposition, quantity |-> report.quantity, cash |-> report.cash,
   residual |-> residual, breaks |-> breaches]
Nothing == [quantity |-> 0, cash |-> 0]
Indeterminate(breaches) == Result("indeterminate", Nothing, None, breaches)

\* Mutant: an allocation of more than the position is taken.
ExcessUnchecked(position, m, report) ==
  IF position.market # m.id THEN "market_profile_mismatch"
  ELSE IF NotFinite \in {report.quantity, report.cash} THEN "allocation_not_finite"
  ELSE IF report.quantity = None THEN None
  ELSE IF Sign(position.quantity) * Sign(report.quantity) = -1 THEN "allocation_wrong_sign"
  ELSE None
\* The first thing in the report that cannot be true, or None.
Contradiction(position, m, report) ==
  IF position.market # m.id THEN "market_profile_mismatch"
  ELSE IF NotFinite \in {report.quantity, report.cash} THEN "allocation_not_finite"
  ELSE IF report.quantity = None THEN None
  ELSE IF Sign(position.quantity) * Sign(report.quantity) = -1 THEN "allocation_wrong_sign"
  ELSE IF position.quantity # 0 /\ Size(report.quantity) > Size(position.quantity)
         THEN "allocation_exceeds_position"
  ELSE None

UnestablishedDate(position, m) ==
  If(m.dateRule = "session_closure_message" /\ position.assigned = None,
     "processing_date_not_established")

\* What is wrong with a fail as long as it is open; action is what a corporate
\* action did to it.
OpenFailBreaks(m, residual, action) ==
  If(m.regime = "not_assessed", "close_out_deadline_unreadable")
  \cup If(m.deadline # None /\ residual.aged > m.deadline, "close_out_deadline_passed")
  \cup If(action.acrossRecordDate, "eligible_settled_divergence")
  \cup If(action.ratio /\ ~action.restated, "quantity_not_restated")

\* On a position that nets to nothing a movement of shares is a break; the result
\* is then FLAT but not complete.
Flat(report, breaks) ==
  Result("flat", report, None,
         breaks \cup If(report.quantity # 0, "allocation_against_flat_position"))

Failed(position, cash, residual, breaks) ==
  LET receives == position.quantity > 0 \/ (position.quantity = 0 /\ cash > 0)
  IN  IF receives THEN Result("failed_to_receive", Nothing, residual,
                              breaks \cup {"fail_to_receive"})
                  ELSE Result("failed_to_deliver", Nothing, residual,
                              breaks \cup {"fail_to_deliver"})

Residual(position, cash, report, settles, today) ==
  [quantity |-> position.quantity - report.quantity, cash |-> cash - report.cash,
   settles |-> settles, aged |-> BusinessDaysAfter(settles, today)]

settle_net_position(position, m, cash, report, settles, today, action) ==
  LET date == UnestablishedDate(position, m)
      wrong == Contradiction(position, m, report)
      residual == Residual(position, cash, report, settles, today)
      open == date \cup OpenFailBreaks(m, residual, action)
  IN  IF wrong # None THEN Indeterminate(date \cup {wrong})
      ELSE IF None \in {report.quantity, report.cash}
        THEN Indeterminate(date \cup {"outcome_not_reported"})
      ELSE IF position.quantity = 0 /\ cash = 0 THEN Flat(report, date)
      ELSE IF report = [quantity |-> position.quantity, cash |-> cash]
        THEN Result("settled_in_full", report, None, date)
      ELSE IF report # Nothing
        THEN Result("partial_allocation", report, residual,
                    open \cup If(~m.published, "partial_with_unexplained_allocation"))
      ELSE Failed(position, cash, residual, open)

completed(result) ==
  /\ "allocation_against_flat_position" \notin result.breaks
  /\ result.disposition \in {"settled_in_full", "flat"}

=============================================================================
