----------------------------- MODULE MCCashLeg -----------------------------
EXTENDS CashLeg, TLC

CONSTANTS MCMaxRecords

\* Paths: the rails of one currency, one with no large-value dimension, and one
\* path of each other dimension.
MCTables ==
  SelectSeq(T!default_routing_tables,
    LAMBDA p : p.id \in {"ach", "fedwire", "correspondent_usd_new_york", "cls_pvp_g10",
                         "dtcc_us_direct", "fed_srf", "mmf_prime_fnav"})
MCThresholds ==
  [fiat_settlement_material |-> [USD |-> 3], large_value_payment_finality |-> [USD |-> 3],
   fx_bundled_settlement |-> [EUR |-> 2]]
MCSanctioned == {"SY"}

\* Accounts ----------------------------------------------------------------
Flow(o, a, l, c, k) ==
  [offset |-> o, amount |-> a, label |-> l, committed |-> c, certain |-> k]
FlowUniverse == {Flow(0, -1, 1, TRUE, TRUE), Flow(1, 2, 2, TRUE, TRUE),
                 Flow(1, 2, 3, FALSE, TRUE), Flow(2, 1, 4, TRUE, TRUE),
                 Flow(2, -2, 5, TRUE, TRUE), Flow(4, -1, 6, TRUE, FALSE)}
Account(o, f, c, fl, cap, posted, out) ==
  [opening |-> o, obligation |-> 2, finality |-> f, settles |-> 1, closes |-> c,
   flows |-> fl, cap |-> cap, required |-> 1, posted |-> posted, outcome |-> out]
GoodAccount == Account(3, "GROSS_FINAL", 3, {}, None, 1, "not_applicable")
\* What a venue's profile makes of an outcome it determines, or does not.
Profiles == {p \in [form : RevocationForm, window : {None, 2}, provenance : BOOLEAN] : ProfileValid(p)}
Outcomes ==
  {classify_determination(p, contingent, determined, elapsed) :
     p \in Profiles, contingent \in BOOLEAN, determined \in BOOLEAN, elapsed \in {None, 1, 2}}
Accounts ==
  {Account(o, f, c, fl, cap, 1, "not_applicable") :
     o \in {1, 3}, f \in FinalityClass, c \in {None, 3},
     fl \in SUBSET FlowUniverse, cap \in {None, 1}}
  \cup {Account(o, f, 3, {}, None, posted, out) :
     o \in {1, 3}, f \in FinalityClass \cup {"misspelt"}, posted \in {0, 1},
     out \in Outcomes \cup {"misspelt"}}

\* Operations --------------------------------------------------------------
Op == [notional |-> 2, material |-> FALSE, lvps |-> FALSE, linked |-> None,
       resolvable |-> TRUE, tokenized |-> FALSE, inHours |-> TRUE,
       outcome |-> "not_applicable", counterparty |-> None, perimeter |-> "NOT_ASSESSED"]
Open(cap) == [status |-> "available", cutoff |-> None, cap |-> cap, age |-> 1]
Shut == [status |-> "available", cutoff |-> 0, cap |-> None, age |-> 1]
Closed == [status |-> "closed", cutoff |-> 1, cap |-> None, age |-> None]
States == {Open(None), Open(1), Shut}
Ports == [ports_wholesale |-> Open(None)]
RailSets ==
  {[fedwire |-> a, fednow |-> b, tokenized_deposit |-> c] @@ d :
     a, b, c \in States, d \in {Ports, [chips |-> Open(2), correspondent |-> Closed]}}
GoodRails == [fedwire |-> Open(None), fednow |-> Open(2)]

\* Requests ----------------------------------------------------------------
Evidence == [now |-> 2, kyc |-> 2, kyb |-> 2, needsKyb |-> TRUE, ofac |-> <<FALSE>>,
             sanctions |-> <<FALSE>>, correspondents |-> <<>>, needsBics |-> {}]
Request == [operation |-> "op", surface |-> None, failureMode |-> "UR_R", amount |-> 1,
            jurisdictions |-> {"US"}, evidence |-> Evidence]
Attest(d) == [bic |-> "AAAAUS33", expires |-> d]
Evidences ==
  {Evidence, [Evidence EXCEPT !.kyc = 1], [Evidence EXCEPT !.kyc = None],
   [Evidence EXCEPT !.kyb = 1], [Evidence EXCEPT !.kyb = None, !.needsKyb = FALSE],
   [Evidence EXCEPT !.ofac = <<>>], [Evidence EXCEPT !.ofac = <<FALSE, TRUE>>],
   [Evidence EXCEPT !.sanctions = <<TRUE>>]}
  \cup {[Evidence EXCEPT !.needsBics = {"AAAAUS33"}, !.correspondents = c] :
          c \in {<<>>, <<Attest(2)>>, <<Attest(2), Attest(1)>>, <<Attest(1), Attest(2)>>}}
Requests ==
  {[Request EXCEPT !.evidence = e, !.jurisdictions = j] :
     e \in Evidences, j \in {None, {"US"}, {"US", "SY"}}}
  \cup {[Request EXCEPT !.surface = s, !.amount = a, !.failureMode = m] :
     s \in {None, "depository_membership", "issuer_side"}, a \in {None, 2, 3},
     m \in {"UR_R", "UR_F"}}
Ask0(d, c, j) == [dimension |-> d, currency |-> c, pair |-> None, jurisdiction |-> j,
                  finality |-> None, facility |-> None]
Questions ==
  {Ask0(d, c, j) : d \in {"rail_routing", "lvps", "correspondent"},
                   c \in {"USD", "EUR"}, j \in {None, "US"}}
  \cup {[Ask0("rail_routing", "USD", None) EXCEPT !.finality = "rtgs_final"],
        [Ask0("fx_leg", "EUR", None) EXCEPT !.pair = "EUR/USD"],
        Ask0("depository", None, "US"), Ask0("depository", None, "BR"),
        [Ask0("fed", None, None) EXCEPT !.facility = "fed_srf"],
        [Ask0("fed", None, None) EXCEPT !.facility = "fedwire"],
        Ask0("sweep", "USD", None)}

\* Situations: each part varied in full with the others held at their base.
Base == [account |-> GoodAccount, op |-> Op, obligation |-> "this", rails |-> GoodRails,
         stress |-> 0, age |-> 1, policy |-> None, request |-> Request,
         question |-> Ask0("rail_routing", "USD", None)]
OfAccounts == {[Base EXCEPT !.account = a] : a \in Accounts}
OfRails ==
  {[Base EXCEPT !.rails = r, !.stress = s,
      !.op = [Op EXCEPT !.inHours = h, !.perimeter = p, !.tokenized = t,
                        !.linked = l]] :
     r \in RailSets, s \in {0, 30}, h \in BOOLEAN,
     p \in {"NOT_ASSESSED", "ON_US", "OFF_US"}, t \in BOOLEAN,
     l \in {None, "tokenized_deposit", "ports_wholesale"}}
Party(s, a) == [standing |-> s, provenance |-> TRUE, age |-> a]
Policy(s, r, c) == [stress |-> s, rail |-> r, counterparty |-> c]
OfChecks ==
  {[Base EXCEPT !.stress = s, !.age = a, !.policy = p,
      !.op = [Op EXCEPT !.counterparty = c, !.lvps = m, !.resolvable = r, !.outcome = o]] :
     s \in {0, 60, 110, NotFinite}, a \in {None, 2}, p \in {None, Policy(1, None, None),
       Policy(2, 1, 1), Policy(None, None, None)},
     c \in {None, Party("not_assessed", None), Party("in_good_standing", 1),
            Party("under_review", 2), Party("suspended", 1), Party("defaulted", 1)},
     m \in BOOLEAN, r \in BOOLEAN, o \in {"not_applicable", "qualification_unknown"}}
  \cup {[Base EXCEPT !.op.material = TRUE], [Base EXCEPT !.op.outcome = "misspelt"],
        [Base EXCEPT !.op.perimeter = "misspelt"], [Base EXCEPT !.op.linked = "misspelt"],
        [Base EXCEPT !.op.outcome = "awaiting_determination"]}
OfRequests == {[Base EXCEPT !.request = r, !.question = q] : r \in Requests, q \in Questions}

MCLater ==
  {Base, [Base EXCEPT !.obligation = None],
   [Base EXCEPT !.obligation = "that", !.account.opening = 0,
                !.question = Ask0("lvps", "USD", "US")]}
MCSituations == OfAccounts \cup OfRails \cup OfChecks \cup OfRequests \cup MCLater

=============================================================================
