--------------------------- MODULE PathSelection ----------------------------
(***************************************************************************)
(* The fiat operations specialist (agents/tier2): eligibility, the table   *)
(* of approved paths, and one path selection.  A function of a request and *)
(* of the agent's tables; only the order of its guards is state-like.      *)
(*                                                                         *)
(* A request is [operation, surface, failureMode, amount, jurisdictions,   *)
(* evidence, gate, halted]: the surface the operation was classified under *)
(* when it was built (None for none), the jurisdictions of its attribution *)
(* (None where there is no attribution), and a gate decision with the      *)
(* obligation it names (None where there is none).  A question is          *)
(* [dimension, currency, pair, jurisdiction, finality, facility].          *)
(***************************************************************************)
EXTENDS ApprovedPaths, Integers, FiniteSetsExt

CONSTANTS Tables,       \* the approved paths, in order
          Thresholds,   \* surface -> currency -> the amount that is material
          Sanctioned    \* jurisdictions under sanctions, or next to them

GATE_REQUIRED_DIMENSIONS == {"rail_routing", "fx_leg", "lvps"}
OWNED_SURFACES ==
  {"fiat_settlement_material", "correspondent_banking_integrity",
   "large_value_payment_finality", "fx_bundled_settlement", "depository_membership"}

---------------------------------------------------------------------------
\* Approved paths: what a lookup finds is a set of places in the tables, the
\* first of which is taken.
Having(Test(_)) == {i \in DOMAIN Tables : Test(Tables[i])}
find_path(id) == Having(LAMBDA p : p.id = id)
is_approved(id, dimension) ==
  Having(LAMBDA p : p.id = id /\ dimension \in p.dimensions) # {}
Serves(p, q) == q.jurisdiction = None \/ q.jurisdiction \in p.jurisdictions
find_rail_paths(q) ==
  Having(LAMBDA p : /\ p.dimensions \cap RAIL_DIMENSIONS # {}
                    /\ q.currency \in p.currencies
                    /\ Serves(p, q)
                    /\ q.finality = None \/ p.finality = q.finality)
find_correspondent_paths(q) ==
  Having(LAMBDA p : /\ "correspondent" \in p.dimensions
                    /\ q.currency \in p.currencies
                    /\ Serves(p, q))
find_fx_pvp_paths(q) ==
  Having(LAMBDA p : "fx_leg" \in p.dimensions /\ q.pair \in p.pairs)
find_depository_paths(q) ==
  Having(LAMBDA p : "depository" \in p.dimensions /\ q.jurisdiction \in p.jurisdictions)
fed_facility(q) == IF is_approved(q.facility, "fed") THEN find_path(q.facility) ELSE {}
find_cash_sweep_paths(q) ==
  Having(LAMBDA p : "sweep" \in p.dimensions /\ q.currency \in p.currencies)
find_lvps_paths(q) ==
  find_rail_paths(q) \cap Having(LAMBDA p : "lvps" \in p.dimensions)

---------------------------------------------------------------------------
\* Eligibility (eligibility.py).  Evidence is [now, kyc, kyb, needsKyb, ofac,
\* sanctions, correspondents, needsBics]: the day each document expires (None
\* where it is missing), for each screening whether it matched, attestations in
\* order, and the correspondents one is needed for.
InForce(expires, now) == expires # None /\ expires >= now
verify_kyc(e) == InForce(e.kyc, e.now)
verify_kyb(e) == e.needsKyb => InForce(e.kyb, e.now)
Screened(screenings) == screenings # <<>> /\ ~\E i \in DOMAIN screenings : screenings[i]
verify_ofac(e) == Screened(e.ofac)
verify_sanctions(e) == Screened(e.sanctions)
\* The last attestation of a correspondent is the one that counts.
Attested(e, bic) ==
  LET its == {i \in DOMAIN e.correspondents : e.correspondents[i].bic = bic}
  IN  its # {} /\ InForce(e.correspondents[Max(its)].expires, e.now)
verify_correspondents(e) == \A bic \in e.needsBics : Attested(e, bic)
Checks(e) == [kyc |-> verify_kyc(e), kyb |-> verify_kyb(e), ofac |-> verify_ofac(e),
              sanctions |-> verify_sanctions(e), correspondents |-> verify_correspondents(e)]
FailedChecks(e) == {kind \in DOMAIN Checks(e) : ~Checks(e)[kind]}
verify_eligibility(e) == FailedChecks(e) = {}

---------------------------------------------------------------------------
\* Materiality (_check_material_magnitude): the surface a request falls under.
IsMaterial(surface, currency, amount) ==
  /\ amount # None
  /\ currency \in DOMAIN Thresholds[surface]
  /\ amount >= Thresholds[surface][currency]
SurfaceOf == [rail_routing |-> "fiat_settlement_material",
              lvps |-> "large_value_payment_finality", fx_leg |-> "fx_bundled_settlement"]
IsSanctionedAdjacent(request) ==
  request.jurisdictions # None /\ request.jurisdictions \cap Sanctioned # {}
MaterialSurface(request, q) ==
  CASE request.surface # None -> request.surface
    [] request.surface = None /\ IsSanctionedAdjacent(request) -> "fiat_settlement_material"
    [] OTHER -> IF /\ q.dimension \in DOMAIN SurfaceOf
                   /\ IsMaterial(SurfaceOf[q.dimension], q.currency, request.amount)
                THEN SurfaceOf[q.dimension] ELSE None

\* Mutant: a PROCEED is taken whatever it governs.
GateIsSilent(request, q) ==
  /\ q.dimension \in GATE_REQUIRED_DIMENSIONS
  /\ request.gate = None \/ request.gate.decision # "PROCEED"

\* The cash gate's answer, where the dimension needs one.
GateStops(request, q) ==
  /\ q.dimension \in GATE_REQUIRED_DIMENSIONS
  /\ \/ request.gate = None
     \/ request.gate.decision # "PROCEED"
     \/ request.gate.obligation = None

---------------------------------------------------------------------------
FirstPath(candidates) == IF candidates = {} THEN None ELSE Tables[Min(candidates)].id

Output(kind, request, q, path, guardrail, tier) ==
  [kind |-> kind, operation |-> request.operation, dimension |-> q.dimension,
   path |-> path, guardrail |-> guardrail, cascade |-> None, tier |-> tier,
   verification |-> None]
EscalationRequired(request, q, guardrail, tier) ==
  Output("escalation", request, q, None, guardrail, tier)
\* The package for the quorum is built whatever its eligibility is, and says so.
OperationPackage(request, q, candidates) ==
  [Output("quorum", request, q, FirstPath(candidates), None, "QUORUM")
     EXCEPT !.verification = FailedChecks(request.evidence)]
\* A surface the agent does not own, and a failure mode it may not route, are
\* refused by the model of the output, and the call raises.
QuorumAuthorityRequired(request, q, surface, candidates) ==
  IF surface \in OWNED_SURFACES
  THEN OperationPackage(request, q, candidates)
  ELSE Output("raised", request, q, None, None, None)
RoutingDecision(request, q, candidates) ==
  IF request.failureMode = "UR_F"
  THEN Output("raised", request, q, None, None, None)
  ELSE Output("routing", request, q, FirstPath(candidates), None, None)

HaltEscalation(request, q) ==
  EscalationRequired(request, q, "no_settlement_without_lineage", "T0")
GateEscalation(request, q) ==
  EscalationRequired(request, q, "no_settlement_without_lineage", "T1")
EligibilityEscalation(request, q) ==
  [EscalationRequired(request, q, "eligibility_before_routing", "T1")
     EXCEPT !.verification = FailedChecks(request.evidence)]
AttributionEscalation(request, q) ==
  EscalationRequired(request, q, "jurisdictional_attribution", "T2")
ApprovedPathsEscalation(request, q) ==
  EscalationRequired(request, q, "approved_paths_only", "T1")
\* An outside instruction that conflicts with a guardrail.
DoctrineOverCodeEscalation(request, q, cascade) ==
  [EscalationRequired(request, q, "doctrine_over_code", "T2") EXCEPT !.cascade = cascade]

\* The order of guards that every selection shares.
Selection(request, q, candidates) ==
  LET surface == MaterialSurface(request, q)
  IN  IF request.halted THEN HaltEscalation(request, q)
      ELSE IF surface # None
           THEN QuorumAuthorityRequired(request, q, surface, candidates)
      ELSE IF ~verify_eligibility(request.evidence) THEN EligibilityEscalation(request, q)
      ELSE IF request.jurisdictions = None THEN AttributionEscalation(request, q)
      ELSE IF GateStops(request, q) THEN GateEscalation(request, q)
      ELSE IF candidates = {} THEN ApprovedPathsEscalation(request, q)
      ELSE RoutingDecision(request, q, candidates)

select_multi_currency_rail_routing(r, q) == Selection(r, q, find_rail_paths(q))
select_correspondent_banking_coordination(r, q) ==
  Selection(r, q, find_correspondent_paths(q))
select_cross_border_fx_leg(r, q) == Selection(r, q, find_fx_pvp_paths(q))
select_depository_vs_sub_custodian(r, q) == Selection(r, q, find_depository_paths(q))
select_large_value_payment_system(r, q) == Selection(r, q, find_lvps_paths(q))
select_fed_related_operation(r, q) == Selection(r, q, fed_facility(q))
select_cash_sweep_and_short_term_investment(r, q) ==
  Selection(r, q, find_cash_sweep_paths(q))
Select(r, q) ==
  CASE q.dimension = "rail_routing"  -> select_multi_currency_rail_routing(r, q)
    [] q.dimension = "correspondent" -> select_correspondent_banking_coordination(r, q)
    [] q.dimension = "fx_leg"        -> select_cross_border_fx_leg(r, q)
    [] q.dimension = "depository"    -> select_depository_vs_sub_custodian(r, q)
    [] q.dimension = "lvps"          -> select_large_value_payment_system(r, q)
    [] q.dimension = "fed"           -> select_fed_related_operation(r, q)
    [] q.dimension = "sweep"         -> select_cash_sweep_and_short_term_investment(r, q)
=============================================================================
