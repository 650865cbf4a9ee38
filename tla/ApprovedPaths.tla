--------------------------- MODULE ApprovedPaths ----------------------------
(***************************************************************************)
(* The table of approved paths (agents/tier2/routing_tables.py).  A path   *)
(* is [id, dimensions, currencies, jurisdictions, finality, bic, pairs].   *)
(***************************************************************************)
EXTENDS Sequences

CONSTANT None

PathSelectionDimension ==
  {"rail_routing", "correspondent", "fx_leg", "depository", "lvps", "fed", "sweep"}
RAIL_DIMENSIONS == {"rail_routing", "lvps"}

PathValid(p) ==
  /\ p.dimensions # {} /\ p.dimensions \subseteq PathSelectionDimension
  /\ p.dimensions \cap RAIL_DIMENSIONS # {} => p.finality # None
  /\ "correspondent" \in p.dimensions => p.bic # None
  /\ p.pairs # {} => "fx_leg" \in p.dimensions
TablesValid(paths) ==
  /\ \A i \in DOMAIN paths : PathValid(paths[i])
  /\ \A i, j \in DOMAIN paths : paths[i].id = paths[j].id => i = j

\* default_routing_tables: of each path its dimensions, currencies, jurisdictions
\* and finality.  Text that only tells countries apart is shortened.
Rail(id, dims, curs, jurs, finality) ==
  [id |-> id, dimensions |-> dims, currencies |-> curs, jurisdictions |-> jurs,
   finality |-> finality, bic |-> None, pairs |-> {}]
Plain(id, dim, curs, jurs) == Rail(id, {dim}, curs, jurs, None)
Correspondent(id, cur, bic) ==
  [Plain(id, "correspondent", {cur}, {}) EXCEPT !.bic = bic]
Fed(id) == Plain(id, "fed", {"USD"}, {"US"})
Sweep(id) == Plain(id, "sweep", {"USD"}, {})
Both == RAIL_DIMENSIONS
default_routing_tables ==
  << Rail("fedwire", Both, {"USD"}, {"US"}, "rtgs_final"),
     Rail("chips", Both, {"USD"}, {"US"}, "net_final_eod"),
     Rail("ach", {"rail_routing"}, {"USD"}, {"US"}, "batch_final"),
     Rail("target2", Both, {"EUR"}, {"DE", "FR"}, "rtgs_final"),
     Rail("chaps", Both, {"GBP"}, {"GB"}, "rtgs_final"),
     Rail("zengin", {"rail_routing"}, {"JPY"}, {"JP"}, "net_final_eod"),
     Rail("swift_mt202_global", Both, {"USD", "EUR", "GBP", "JPY"}, {},
          "correspondent_dependent"),
     Correspondent("correspondent_usd_new_york", "USD", "AAAAUS33"),
     Correspondent("correspondent_eur_frankfurt", "EUR", "BBBBDEFF"),
     Correspondent("correspondent_gbp_london", "GBP", "CCCCGB2L"),
     [Rail("cls_pvp_g10", {"fx_leg"}, {}, {}, "atomic_pvp")
        EXCEPT !.pairs = {"EUR/USD", "GBP/USD", "EUR/GBP"}],
     Plain("dtcc_us_direct", "depository", {}, {"US"}),
     Plain("euroclear_be_direct", "depository", {}, {"BE", "DE", "FR"}),
     Plain("sub_custodian_emerging_markets", "depository", {}, {"BR", "MX"}),
     Fed("fed_discount_window"), Fed("fed_srf"), Fed("fed_rrp"), Fed("fed_master_account"),
     Sweep("mmf_government_cnav"), Sweep("mmf_prime_fnav"),
     Sweep("bank_deposit_sweep"), Sweep("tri_party_repo_bny") >>
=============================================================================
