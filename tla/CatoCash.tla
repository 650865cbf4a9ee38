------------------------------ MODULE CatoCash ------------------------------
(***************************************************************************)
(* The cash gate (rails/cato_cash): whether a cash leg may proceed, and on *)
(* which rail; and before it the projected funding position of an          *)
(* obligation (rails/funding_state, rails/determination, rails/finality).  *)
(* Everything here is a function of its arguments.                         *)
(*                                                                         *)
(* A cash flow is [offset, amount, label, committed, certain]: an amount   *)
(* expected at an offset from now.  Labels are numbers and order the flows *)
(* of one offset.  Inputs are [opening, obligation, finality, settles,     *)
(* closes, flows, cap, required, posted, outcome]; closes and cap may be   *)
(* None, and a finality class or an outcome may be a text that names no    *)
(* member.                                                                 *)
(*                                                                         *)
(* An operation is [notional, material, lvps, linked, resolvable,          *)
(* tokenized, inHours, outcome, counterparty, perimeter]; linked and       *)
(* counterparty may be None, and outcome, linked and perimeter texts that  *)
(* name no member.  A rail's state is [status, cutoff, cap, age],*)
(* any of the last three None.  Stress is in hundredths, or NotFinite.     *)
(***************************************************************************)
EXTENDS Integers, Sequences, FiniteSets, FiniteSetsExt

CONSTANT None

FinalityClass == {"GROSS_FINAL", "DEFERRED_NET", "LEDGER_FINAL",
                  "CORRESPONDENT_DEPENDENT", "DETERMINATION_DEPENDENT"}
DeterminationOutcome ==
  {"not_applicable", "awaiting_determination", "qualified_bounded",
   "qualified_unbounded", "qualification_unknown", "unqualified"}
RevocationForm == {"not_assessed", "none_disclosed",
                   "liquidation_at_administered_price",
                   "cancellation_and_return_of_funds"}

\* A venue's profile [form, window, provenance] that the code accepts.
ProfileValid(profile) ==
  /\ profile.form # "not_assessed" => profile.provenance
  /\ profile.form = "not_assessed" => profile.window = None
  /\ profile.window # None => profile.window > 0

\* The answer of the first test that holds, of tests in the order of the code.
FirstOf(tests) == tests[Min({i \in DOMAIN tests : tests[i][1]})][2]

\* How far the venue's determination of an outcome qualifies the settlement.
classify_determination(profile, contingent, determined, elapsed) ==
  FirstOf(<< <<~contingent, "not_applicable">>,
             <<~determined, "awaiting_determination">>,
             <<profile.form = "not_assessed", "qualification_unknown">>,
             <<profile.form # "cancellation_and_return_of_funds", "unqualified">>,
             <<profile.window = None, "qualified_unbounded">>,
             <<elapsed = None, "qualified_bounded">>,
             <<elapsed # None /\ profile.window # None
               /\ elapsed >= profile.window, "unqualified">>,
             <<TRUE, "qualified_bounded">> >>)

obligation_finality_class(outcome) ==
  IF outcome \in {"not_applicable", "unqualified"} THEN None
  ELSE "DETERMINATION_DEPENDENT"

Recognised(in) == /\ in.finality \in FinalityClass
                  /\ in.outcome \in DeterminationOutcome
ClearingFundSufficient(in) == in.posted >= in.required

Total(flows) == MapThenSumSet(LAMBDA f : f.amount, flows)
Committed(flows) == {f \in flows : f.committed}

\* _position_at
PositionAt(in, offset, committedOnly) ==
  in.opening + Total({f \in in.flows : /\ f.offset <= offset
                                       /\ f.committed \/ ~committedOnly})
AtSettlement(in) == PositionAt(in, in.settles, TRUE)

\* The flows the cap is measured over.  One after the close is left out, but
\* for an outflow whose time is not certain: that one counts at the close.
Timed(in) ==
  LET committed == Committed(in.flows)
      inside == {f \in committed : in.closes = None \/ f.offset <= in.closes}
      late   == {f \in committed \ inside : ~f.certain /\ f.amount < 0}
  IN  inside \cup {[f EXCEPT !.offset = in.closes] : f \in late}
Before(f, g) == \/ f.offset < g.offset
                \/ f.offset = g.offset /\ f.label <= g.label

\* _cap_trough: the deepest running position, and the position just after the
\* obligation is paid.
CapTrough(in) ==
  LET timed == Timed(in)
      running == {in.opening + Total({g \in timed : Before(g, f)}) : f \in timed}
  IN  Min({in.opening, AtSettlement(in) - in.obligation} \cup running)

Headroom(in) == IF in.cap = None THEN 0 ELSE in.cap + Min({CapTrough(in), 0})
Shortfall(in) == Max({0, in.obligation - AtSettlement(in)})

\* _first_funded_offset, of the offsets at which the position can change.
FundedOffsets(in) ==
  {o \in {f.offset : f \in Committed(in.flows)} \cup {in.settles} :
     /\ o >= in.settles
     /\ in.closes = None \/ o <= in.closes
     /\ PositionAt(in, o, TRUE) >= in.obligation}
FirstFundedOffset(in) ==
  IF FundedOffsets(in) = {} THEN None ELSE Min(FundedOffsets(in))

\* build_funded: money that settles and may be called back is funded, qualified.
Funded(in) ==
  IF in.outcome \in {"qualified_bounded", "qualified_unbounded",
                     "qualification_unknown"}
  THEN "funded_qualified" ELSE "funded"
AtFinality(in) ==
  IF in.closes = None THEN AtSettlement(in) ELSE PositionAt(in, in.closes, TRUE)

\* The refusals that come before any reading of the position.
Refusal(in) ==
  FirstOf(<< <<~Recognised(in), "indeterminate">>,
             <<in.finality = "DETERMINATION_DEPENDENT", "indeterminate">>,
             <<~ClearingFundSufficient(in), "clearing_fund_deficient">>,
             <<in.cap # None /\ Headroom(in) < 0, "cap_breach">>,
             <<in.outcome = "awaiting_determination", "indeterminate">>,
             <<in.finality = "CORRESPONDENT_DEPENDENT", "indeterminate">>,
             <<TRUE, None>> >>)

\* project_funding
Disposition(in) ==
  IF Refusal(in) # None THEN Refusal(in)
  ELSE IF Shortfall(in) = 0 THEN Funded(in)
  ELSE CASE in.finality = "DEFERRED_NET" ->
              IF AtFinality(in) >= in.obligation THEN Funded(in) ELSE "will_fail"
         [] in.finality = "LEDGER_FINAL" -> "will_fail"
         [] in.finality = "GROSS_FINAL" ->
              IF FirstFundedOffset(in) # None THEN "will_queue" ELSE "will_fail"

\* Mutant: a refusal is lost on its way to the gate.
RefusalLost(in) ==
  [position |-> AtSettlement(in), obligation |-> in.obligation,
   headroom |-> Headroom(in), clearing |-> ClearingFundSufficient(in),
   assertable |-> TRUE]

\* What the gate is given of it (to_gate_input).
ToGateInput(in) ==
  [position |-> AtSettlement(in), obligation |-> in.obligation,
   headroom |-> Headroom(in), clearing |-> ClearingFundSufficient(in),
   assertable |-> Disposition(in) # "indeterminate"]

---------------------------------------------------------------------------
CONSTANT NotFinite

OFR_ESCALATE_THRESHOLD == 100
OFR_HOLD_THRESHOLD == 50
OFR_STRESS_PREFERENCE_THRESHOLD == 25

RAIL_FINALITY ==
  [fedwire |-> "GROSS_FINAL", fednow |-> "GROSS_FINAL", chips |-> "DEFERRED_NET",
   nss_dtc_nscc |-> "DEFERRED_NET", ficc_gsd_funds_only |-> "DEFERRED_NET",
   tokenized_deposit |-> "LEDGER_FINAL", regulated_stablecoin |-> "LEDGER_FINAL",
   correspondent |-> "CORRESPONDENT_DEPENDENT", ports_wholesale |-> "LEDGER_FINAL"]
CashRail == DOMAIN RAIL_FINALITY
SettlementPerimeter == {"NOT_ASSESSED", "ON_US", "OFF_US"}

\* The names of the rails in the order of their text.
ByName == <<"chips", "correspondent", "fednow", "fedwire", "ficc_gsd_funds_only",
            "nss_dtc_nscc", "ports_wholesale", "regulated_stablecoin",
            "tokenized_deposit">>

Usable(state) == /\ state.status = "available"
                 /\ state.cutoff = None \/ state.cutoff > 0
Carries(state, op) == state.cap = None \/ op.notional <= state.cap
LedgerFinal(rail) == RAIL_FINALITY[rail] = "LEDGER_FINAL"

\* A ledger is open round the clock only inside one institution's book.
continuously_available(ledgerFinal, perimeter) == ledgerFinal => perimeter = "ON_US"
Serviceable(rail, rails, op) ==
  /\ rail \in DOMAIN rails
  /\ Usable(rails[rail])
  /\ Carries(rails[rail], op)
  /\ op.inHours \/ continuously_available(LedgerFinal(rail), op.perimeter)

\* Mutant: the placeholder for a rail that does not exist yet is taken at its word.
LinkedRailShut(rails, op) == ~Serviceable(op.linked, rails, op)

\* _linked_rail_blocker: the placeholder carries nothing, whatever its status.
LinkedRailBlocked(rails, op) ==
  \/ op.linked = "ports_wholesale"
  \/ ~Serviceable(op.linked, rails, op)

\* _prefer: the first of some rails that is open and carries the notional.
Prefer(candidates, rails, op) ==
  FirstOf([i \in DOMAIN candidates |->
            <<candidates[i] \in DOMAIN rails /\ Usable(rails[candidates[i]])
              /\ Carries(rails[candidates[i]], op), candidates[i]>>]
          \o << <<TRUE, None>> >>)
GrossFinal == <<"fedwire", "fednow">>

\* The rail of last resort: any other one, by name.
AnyServiceable(rails, op) ==
  FirstOf([i \in DOMAIN ByName |->
            <<ByName[i] # "ports_wholesale" /\ Serviceable(ByName[i], rails, op),
              ByName[i]>>]
          \o << <<TRUE, None>> >>)

\* _recommend_rail.  A linked rail is the only one that operation has.
RecommendRail(rails, op, stress) ==
  LET prefer(candidates) == Prefer(candidates, rails, op)
      tries(when, rail) == <<when /\ rail # None, rail>>
  IN  IF op.linked # None
      THEN IF LinkedRailBlocked(rails, op) THEN None ELSE op.linked
      ELSE FirstOf(<<
             tries(stress >= OFR_STRESS_PREFERENCE_THRESHOLD, prefer(GrossFinal)),
             tries(op.lvps, prefer(GrossFinal)),
             tries(~op.inHours, prefer(<<"fednow">>)),
             tries(op.tokenized, prefer(<<"tokenized_deposit">>)),
             tries(TRUE, prefer(<<"fedwire">>)),
             <<TRUE, AnyServiceable(rails, op)>> >>)

\* A bound in force makes an unknown age stale.
Stale(age, maximum) == maximum # None /\ (age = None \/ age > maximum)
FreshnessHold(op, rails, age, policy) ==
  policy # None /\
    \/ Stale(age, policy.stress)
    \/ \E rail \in DOMAIN rails : Stale(rails[rail].age, policy.rail)
    \/ op.counterparty # None /\ Stale(op.counterparty.age, policy.counterparty)
OperationRecognised(op) ==
  /\ op.outcome \in DeterminationOutcome
  /\ op.perimeter \in SettlementPerimeter
  /\ op.linked # None => op.linked \in CashRail

Standing(op) ==
  IF op.counterparty = None THEN "not_supplied" ELSE op.counterparty.standing
CounterpartyValid(cp) ==
  /\ cp.standing # "not_assessed" => cp.provenance
  /\ cp.standing = "not_assessed" => cp.age = None
  /\ cp.age # None => cp.age >= 0

\* Check 6, for an operation whose rail is not fixed by its depository.
NoRailOpen(rails, op) ==
  /\ op.linked = None
  /\ \A rail \in DOMAIN rails \ {"ports_wholesale"} : ~Serviceable(rail, rails, op)
PerimeterWouldTell(rails, op) ==
  /\ op.perimeter = "NOT_ASSESSED"
  /\ ~op.inHours
  /\ \E rail \in DOMAIN rails \ {"ports_wholesale"} :
       LedgerFinal(rail) /\ Usable(rails[rail]) /\ Carries(rails[rail], op)

Hold(reason) == [decision |-> "HOLD", reason |-> reason]
Escalate(reason) == [decision |-> "ESCALATE", reason |-> reason]
Cleared == [decision |-> "PROCEED", reason |-> "CLEARED"]

\* What is read before any number is compared with a band.
InputChecks(op, rails, stress, age, policy, halted) ==
  << <<halted, Hold("HALT_ACTIVE")>>,
     <<~OperationRecognised(op), Hold("INPUT_UNRECOGNISED")>>,
     <<stress = NotFinite, Hold("STRESS_READING_UNUSABLE")>>,
     <<FreshnessHold(op, rails, age, policy), Hold("MARKET_DATA_STALE")>> >>
Above(stress, band) == stress # NotFinite /\ stress > band

CounterpartyChecks(op) ==
  << <<Standing(op) = "not_assessed", Hold("COUNTERPARTY_UNASSESSED")>>,
     <<Standing(op) = "under_review", Escalate("COUNTERPARTY_UNDER_REVIEW")>>,
     <<Standing(op) \in {"suspended", "defaulted"},
       Hold("COUNTERPARTY_NOT_IN_GOOD_STANDING")>> >>

IsFunded(funding) == funding.position >= funding.obligation
FundingChecks(funding) ==
  << <<~funding.assertable, Hold("FUNDING_INDETERMINATE")>>,
     <<~IsFunded(funding), Hold("UNFUNDED_AT_SETTLEMENT_INSTANT")>>,
     <<funding.headroom < 0 \/ ~funding.clearing, Hold("RISK_CONTROL_BREACH")>> >>

FinalityChecks(op, rails) ==
  << <<NoRailOpen(rails, op) /\ PerimeterWouldTell(rails, op),
       Hold("SETTLEMENT_PERIMETER_UNASSESSED")>>,
     <<NoRailOpen(rails, op), Hold("NO_RAIL_IN_WINDOW")>>,
     <<~op.resolvable, Hold("UNRESOLVABLE_FINALITY")>>,
     <<op.outcome = "awaiting_determination", Hold("DETERMINATION_PENDING")>>,
     <<op.outcome = "qualification_unknown", Hold("UNASSESSED_REVOCATION_AUTHORITY")>> >>

\* evaluate: the first check that stops the leg, or a rail to send it on.
evaluate(op, funding, rails, stress, age, policy, halted) ==
  LET rail    == IF stress = NotFinite THEN None ELSE RecommendRail(rails, op, stress)
      verdict == FirstOf(
        InputChecks(op, rails, stress, age, policy, halted)
        \o << <<Above(stress, OFR_ESCALATE_THRESHOLD), Escalate("SYSTEMIC_STRESS_ESCALATE")>>,
              <<op.material, Hold("MATERIAL_MAGNITUDE_QUORUM_UNAVAILABLE")>> >>
        \o CounterpartyChecks(op)
        \o FundingChecks(funding)
        \o << <<Above(stress, OFR_HOLD_THRESHOLD), Hold("BROAD_STRESS_HOLD")>> >>
        \o FinalityChecks(op, rails)
        \o << <<rail = None, Hold("NO_RAIL_IN_WINDOW")>>, <<TRUE, Cleared>> >>)
  IN  [decision |-> verdict.decision, reason |-> verdict.reason,
       rail |-> IF verdict.decision = "PROCEED" THEN rail ELSE None,
       finality |-> IF verdict.decision = "PROCEED" THEN RAIL_FINALITY[rail] ELSE None,
       qualified |-> IF verdict.reason \in {"HALT_ACTIVE", "INPUT_UNRECOGNISED"}
                     THEN None ELSE obligation_finality_class(op.outcome)]
absent_gate_decision == [decision |-> "HOLD", reason |-> "GATE_UNAVAILABLE", rail |-> None,
                         finality |-> None, qualified |-> None]
=============================================================================
