----------------------------- MODULE MCFirmDay -----------------------------
EXTENDS FirmDay

MCMonthStarts == <<0, 5, 8>>
MCProfiles ==
  {[fails |-> <<1, 2>>, deficit |-> [day |-> 1, issue |-> "i1", loan |-> 1]],
   [fails |-> <<1, 3>>, deficit |-> None]}
MCHolidays == {2}

\* Reports: every small position, under a market that is read, one that is not and
\* one that fixes dates by message, on every small allocation and on none.
Market(regime, deadline, rule) ==
  [FirmMarket EXCEPT !.regime = regime, !.deadline = deadline, !.dateRule = rule,
     !.message = (rule = "session_closure_message"), !.published = (rule # "not_assessed")]
Markets == {FirmMarket, absent_market_profile("NSCC"),
            Market("none_published", None, "session_closure_message"),
            [Market("mandatory_deadline", 1, "fixed_cycle_from_trade_date") EXCEPT !.id = "XNYS"]}
MCReports ==
  [position : [issue : {"i1"}, market : {"NSCC", "XNYS"}, assigned : {None, 1}, quantity : {-2, 0, 1}],
   market : Markets, cash : {-4, 0, 4},
   report : [quantity : {None, NotFinite, -2, 0, 1, 2}, cash : {None, NotFinite, 0, 4}],
   settles : {1}, today : {1, 8}, action : [acrossRecordDate : {FALSE}, ratio : BOOLEAN, restated : {FALSE}]]
ASSUME \A m \in Markets : MarketValid(m)
=============================================================================
