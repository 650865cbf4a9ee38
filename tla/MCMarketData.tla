---------------------------- MODULE MCMarketData ----------------------------
(* Two processes; a yield curve published twice, the first time with a gap   *)
(* that a narrower window leaves out, the second time with a day of which    *)
(* the calendar knows nothing.                                               *)
EXTENDS MarketData, TLC

CONSTANTS p, q

MCProcs    == {p, q}
MCVersions == {1}
MCContents == 1..2
MCWindows  == {<<1, 2>>, <<1, 4>>, <<1, 5>>}
MCSymmetry == Permutations(MCProcs)
MCCalendar == <<"business", "business", "closed", "business", "unknown">>
MCCatalog  == [yield |-> [class |-> "B", notice |-> "notice"]]
MCSourceOf == <<"yield", "yield">>
Observed(d, v) == [day |-> d, metric |-> "two years", value |-> v, names |-> FALSE]
MCDocuments ==
  <<[kind |-> "treasury", observations |-> <<Observed(1, 4), Observed(2, Blank), Observed(4, 4)>>],
    [kind |-> "treasury", observations |-> <<Observed(1, 4), Observed(2, 5), Observed(4, 5), Observed(5, 5)>>]>>
=============================================================================
