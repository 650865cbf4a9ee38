--------------------------- MODULE MCProtectionDay ---------------------------
(* Instances of ProtectionDay for TLC: two business days, 30 and 31 days after *)
(* an old fail; amounts whose percentages are whole, except free credits.      *)
EXTENDS ProtectionDay

MCHolidays == {2}
MCMonthStarts == <<0, 3, 5, 9, 90>>
MCCredits == {"item_01", "item_04"}
MCDebits  == {"item_10", "item_11", "item_12"}

Row(id, value) ==
  [id |-> id, kind |-> "COUNT", value |-> value, figure |-> [number |-> value, unit |-> "count"],
   valid |-> TRUE, source |-> "act", pinned |-> 1, quoted |-> TRUE, compliance |-> None,
   complianceQuoted |-> FALSE]
Kind(kind, id) == [Row(id, 0) EXCEPT !.kind = kind, !.figure = None]
Years(id, n) == [Row(id, 12 * n) EXCEPT !.kind = "MONTHS", !.figure = [number |-> n, unit |-> "years"]]
Source(loaded, label) == [loaded |-> loaded, hash |-> 1, label |-> label]
Sources == [act |-> Source(TRUE, "RULE"), faq |-> Source(TRUE, "INTERPRETATION"), gone |-> Source(FALSE, "RULE")]
Rows ==
  <<Row("daily_threshold", 500), Row("exit_notice", 2), Row("voluntary_notice", 1),
   Row("no_note_e3", 0), Row("note_e3", 1), Row("daily_reduction", 2), Row("weekly_reduction", 3),
   Row("weekly_basis", 1), Row("pab_monthly", 1), Row("clean_weekly", 6),
   Row("monthly_ai_ceiling", 8), Row("monthly_funds_ceiling", 400), Row("monthly_factor", 105),
   Row("affiliated_excluded", 1), Row("bank_equity_cap", 50), Row("pab_from_customer", 1),
   Row("government_offset", 50), Row("equity_rate", 15), Row("equity_lesser_threshold", 25),
   Row("equity_excess_rate", 15), Row("alternative_floor", 100), Row("alternative_percent", 2),
   Years("first_year_months", 1), Row("ai_ceiling", 15), Row("ai_ceiling_first_year", 8),
   Row("ai_warning", 1200), Row("alternative_warning", 5), Row("minimum_warning", 120),
   Row("leverage_warning", 2500), Row("carrying", 250),
   Row("band1", 0), Row("upper1", 3), Row("band2", 10),
   Row("loan_return_days", 5), Row("lien_release_days", 2), Row("fail_to_receive_age", 30),
   Row("distribution_receivable_age", 45), Row("short_allocation_age", 30),
   Row("excess_margin_threshold", 140),
   Row("initial", 50), Row("payment_period", 4), Row("long_maintenance", 25),
   Row("short_low_percent", 100), Row("short_low_share", 2), Row("short_percent", 30),
   Row("short_share", 5),
   Kind("EXHIBIT_A", "item_01"), Kind("EXHIBIT_A", "item_04"), Kind("EXHIBIT_A", "item_10"),
   Kind("EXHIBIT_A", "item_11"), Kind("EXHIBIT_A", "item_12"), Kind("CONTROL", "control.c1"),
   Kind("CONTROL", "control.c5"), Kind("NONCONTROL", "noncontrol.d1"),
   Kind("NONCONTROL", "noncontrol.d2"), Kind("NONCONTROL", "noncontrol.d4")>>
\* Of the rows appended, one repeats an id, and the others do not hold.
Full ==
  load_rule_table(Rows \o <<Row("carrying", 0), [Row("spare", 1) EXCEPT !.pinned = 2],
                            [Row("unquoted", 1) EXCEPT !.compliance = "faq"],
                            [Row("price", 1) EXCEPT !.figure.unit = "usd"]>>, Sources)
Lacking(id, row) ==
  load_rule_table([k \in DOMAIN Rows |-> IF Rows[k].id = id THEN row ELSE Rows[k]], Sources)
MCBands == <<[category |-> "low", sub |-> "a", rate |-> "band1", upper |-> "upper1"],
             [category |-> "low", sub |-> "b", rate |-> "band2", upper |-> "upper1"]>>

---------------------------------------------------------------------------
\* What is booked: purchases on cash and on margin, a deposit, and shares lent,
\* failing and borrowed.

Own(account, type, n)  == [account |-> account, type |-> type, side |-> "ownership",
                           issue |-> "x", amount |-> n, fact |-> None]
Lies(type, n) == [Own("street", type, n) EXCEPT !.side = "location"]
Money(account, type, n) == [Own(account, type, n) EXCEPT !.side = "money", !.issue = None]
Fact(activity, settles, price) == [activity |-> activity, settles |-> settles, price |-> price]
Stating(line, fact) == [line EXCEPT !.fact = fact]
Booking(id, lines) == [id |-> id, lines |-> lines]
MCBookings ==
  {Booking("cash", {Money("b", "CUSTOMER_CASH", 301)}),
   Booking("buy", {Own("a", "CUSTOMER_CASH", 2), Lies("DTC", -2), Money("a", "CUSTOMER_CASH", -200)}),
   Booking("margin", {Own("m", "CUSTOMER_MARGIN", 3), Lies("DTC", -3), Money("m", "CUSTOMER_MARGIN", -100)}),
   Booking("sell", {Own("b", "CUSTOMER_CASH", -1), Lies("DTC", 1), Money("b", "CUSTOMER_CASH", 100)}),
   Booking("loan", {Lies("DTC", 4), Lies("STOCK_LOANED", -4)}),
   Booking("deliver", {Lies("DTC", 1), Stating(Lies("FAIL_TO_DELIVER", -1), Fact("CUSTOMER", 7, 100))}),
   Booking("receive", {Own("p", "PAB", 2), Stating(Lies("FAIL_TO_RECEIVE", -2), Fact("PAB", 7, 50))}),
   Booking("borrow", {Stating(Own("lender", "STOCK_BORROWED", 1), Fact("CUSTOMER", 36, 100)),
                      Own("firm", "FIRM_PROPRIETARY", -1)})}
Line(entry, l) == l @@ [entry |-> entry, effective |-> 36]
Inventory == {Line("opening", Own("firm", "FIRM_PROPRIETARY", 2)), Line("opening", Lies("DTC", -2))}

Firm == [part |-> "protect", table |-> Full, prices |-> [i \in {"x"} |-> 100], worth |-> 1000,
         history |-> 100, equity |-> 10000, forward |-> FALSE, opening |-> Inventory,
         items |-> None]
MCDraws ==
  {None, [customer |-> "ON_TIME", pab |-> "ON_TIME"], [customer |-> "SHORT", pab |-> "ON_TIME"],
   [customer |-> "LATE", pab |-> "ON_TIME"], [customer |-> "ON_TIME", pab |-> "LATE"],
   [customer |-> "ON_TIME", pab |-> "SHORT"]}

---------------------------------------------------------------------------
\* Reviews: a passing input of each engine, one part at a time made worse.

Reserve ==
  [accounts |-> "customer", as_of |-> 36, standard |-> "alternative", mode |-> "weekly",
   lines |-> [id \in MCCredits \cup MCDebits |-> 200], average |-> 100, effective |-> 30,
   previously |-> FALSE, exit |-> None, voluntary |-> None, indebtedness |-> 100,
   netCapital |-> 100, funds |-> 100, carries |-> FALSE, proprietary |-> FALSE,
   lastRequired |-> TRUE, clean |-> 6, cash |-> {}, securities |-> 0, excess |-> None,
   excessAsOf |-> None]
Bank(amount, affiliated, equity) ==
  [bank |-> "b", amount |-> amount, affiliated |-> affiliated, equity |-> equity]
Owing(in) == [in EXCEPT !.lines = [id \in DOMAIN in.lines |-> IF id \in MCCredits THEN 400 ELSE 100]]
ReserveInputs ==
  LET bases == {Reserve, Owing(Reserve), [Owing(Reserve) EXCEPT !.securities = 600],
                [Reserve EXCEPT !.accounts = "pab"],
                [Owing(Reserve) EXCEPT !.accounts = "pab", !.excess = 700, !.excessAsOf = 36],
                [Owing(Reserve) EXCEPT !.accounts = "pab", !.excess = 700, !.excessAsOf = 35],
                [Reserve EXCEPT !.standard = "aggregate_indebtedness"]}
      of(in) == {in, [in EXCEPT !.mode = "monthly"], [in EXCEPT !.mode = "monthly", !.clean = 5],
                 [in EXCEPT !.mode = "monthly", !.carries = TRUE], [in EXCEPT !.mode = "monthly", !.funds = 500],
                 [in EXCEPT !.mode = "daily", !.voluntary = 34], [in EXCEPT !.average = 500],
                 [in EXCEPT !.average = 500, !.mode = "daily"], [in EXCEPT !.previously = TRUE],
                 [in EXCEPT !.previously = TRUE, !.exit = 35], [in EXCEPT !.previously = TRUE, !.exit = 33],
                 [in EXCEPT !.average = None], [in EXCEPT !.lines["item_10"] = None],
                 [in EXCEPT !.cash = {Bank(500, FALSE, 1000), Bank(100, TRUE, None)}],
                 [in EXCEPT !.cash = {Bank(500, FALSE, None)}]}
  IN  UNION {of(in) : in \in bases}

Capital ==
  [worth |-> 1000, additions |-> {[id |-> "a", amount |-> 100]}, deductions |-> {[id |-> "d", amount |-> 50]},
   positions |-> {}, election |-> "issue", a3 |-> FALSE, a4 |-> FALSE, a5 |-> FALSE,
   standard |-> "alternative", category |-> "carrying", indebtedness |-> 1500, months |-> 20,
   debits |-> 1000, monthly |-> FALSE, loaned |-> 0, borrowed |-> 100]
Holds(class, long, short, months) ==
  [issue |-> "x", class |-> class, long |-> long, short |-> short, months |-> months]
CapitalReviews ==
  LET bases == {Capital, [Capital EXCEPT !.standard = "aggregate_indebtedness"],
                [Capital EXCEPT !.worth = 250]}
      bonds == {Holds("government", 1000, 0, 1), Holds("government", 0, 500, 6)}
      of(in) == {in, [in EXCEPT !.worth = 100], [in EXCEPT !.debits = 30000], [in EXCEPT !.indebtedness = 15000],
                 [in EXCEPT !.months = 6, !.indebtedness = 9000], [in EXCEPT !.monthly = TRUE, !.loaned = None],
                 [in EXCEPT !.loaned = 30000], [in EXCEPT !.category = "other"],
                 [in EXCEPT !.positions = {Holds("equity", 1000, 400, None)}],
                 [in EXCEPT !.positions = bonds], [in EXCEPT !.positions = bonds, !.election = "category"],
                 [in EXCEPT !.positions = bonds, !.a4 = TRUE],
                 [in EXCEPT !.positions = {Holds("government", 100, 0, None)}],
                 [in EXCEPT !.positions = {Holds("option", 100, 0, None)}]}
  IN  UNION {of(in) : in \in bases}

Lot(location, quantity, age, loaned) ==
  [location |-> location, quantity |-> quantity, age |-> age, loaned |-> loaned]
IssueOf(paid, excess, total, holdings) ==
  [issue |-> "x", fullyPaid |-> paid, excessMargin |-> excess, books |-> total, holdings |-> holdings]
ControlReviews ==
  {{IssueOf(paid, excess, total, {Lot("control.c1", 2, None, None)} \cup other)} :
     paid \in {1, None}, excess \in {0, 2, None}, total \in {2, 3, None},
     other \in {{}, {Lot("noncontrol.d1", 1, None, TRUE)}, {Lot("noncontrol.d1", 1, None, FALSE)},
                {Lot("noncontrol.d1", 1, None, None)}, {Lot("noncontrol.d2", 1, 31, None)},
                {Lot("noncontrol.d4", 1, None, None)}, {Lot("UNMAPPED_LOCATION", 1, None, None)}}}
  \cup {{}}

FigureOf(name, value) == [name |-> name, group |-> "reserve", value |-> value]
Vendor(name, value, asOf) == [name |-> name, value |-> value, asOf |-> asOf]
Challenged == <<FigureOf("requirement", 100), FigureOf("eligible", 100)>>
ChallengeReviews ==
  {[figures |-> f, rules |-> {}, asOf |-> 36, vendorAsOf |-> 36, vendor |-> v, tolerance |-> t] :
     f \in {Challenged, reserve_figures(Reserve, compute_reserve(Reserve, Full), MCCredits)},
     t \in {None, 0, 5},
     v \in {<<>>, <<Vendor("requirement", 103, None), Vendor("eligible", 97, None)>>,
            <<Vendor("requirement", 100, None), Vendor("eligible", 100, 35)>>,
            <<Vendor("requirement", 90, None), Vendor("eligible", 110, None)>>,
            <<Vendor("requirement", 100, None), Vendor("eligible", 90, 35)>>,
            <<Vendor("requirement", 90, None), Vendor("requirement", 100, None),
              Vendor("eligible", 100, None), Vendor("other", 1, None)>>}}

Of(engine, inputs, tables) == [engine : {engine}, in : inputs, table : tables]
MCReviews ==
  Of("reserve", ReserveInputs, {Full, Lacking("weekly_reduction", [Row("weekly_reduction", 3) EXCEPT !.value = 2])})
  \cup Of("capital", CapitalReviews, {Full, Lacking("minimum_warning", [Row("minimum_warning", 120) EXCEPT !.compliance = "gone"])})
  \cup Of("control", ControlReviews, {Full}) \cup Of("challenge", ChallengeReviews, {Full})

---------------------------------------------------------------------------
\* Deadlines.

Within(unit, value) == [unit |-> unit, value |-> value]
MCDeadlineRules ==
  [LONG |-> Within("SETTLEMENT_DAYS", 2), MARKET_MAKING |-> Within("CALENDAR_DAYS", 4),
   WEEKLY |-> Within("BUSINESS_DAYS", 2), opening_offset |-> Within("CLOCK_TIME", 1),
   minimum_spacing |-> Within("MONTHS", 1), maximum_spacing |-> Within("MONTHS", 2),
   difference_recording |-> Within("BUSINESS_DAYS", 7),
   validation |-> Within("BUSINESS_DAYS", 1), completion |-> Within("BUSINESS_DAYS", 2)]
MCWatched ==
  {[fail |-> [trade |-> 0, settles |-> 1, origin |-> o],
    computation |-> [basis |-> b, at |-> 0],
    count |-> [prior |-> p, date |-> None],
    transfer |-> [instructed |-> 1, validated |-> None],
    source |-> s] :
      <<o, b, p, s>> \in {<<"LONG", "WEEKLY", {0, 1}, [from |-> 0, until |-> 20]>>,
                          <<"MARKET_MAKING", None, {}, [from |-> 0, until |-> 5]>>,
                          <<"DEEMED_OWNED", "VOLUNTARY_DAILY", {1}, None>>}}
---------------------------------------------------------------------------
MCProfiles ==
  {Firm, [Firm EXCEPT !.history = 600, !.forward = TRUE],
   [Firm EXCEPT !.equity = 400], [Firm EXCEPT !.equity = None, !.history = None],
   [Firm EXCEPT !.worth = 380, !.prices["x"] = 4, !.table = Lacking("excess_margin_threshold", [Row("x", 140) EXCEPT !.source = "faq"])],
   [Firm EXCEPT !.worth = 330, !.table = Lacking("pab_from_customer", [Row("x", 1) EXCEPT !.quoted = FALSE])],
   [Firm EXCEPT !.part = "review"]}
  \cup {[Firm EXCEPT !.part = "watch", !.items = w] : w \in MCWatched}
=============================================================================
