-------------------------- MODULE ProtectionInputs --------------------------
(***************************************************************************)
(* What the books say to the customer-protection engines                   *)
(* (books/projections.py, margin/engine.py): the cash and positions of     *)
(* every customer, their margin, the lines of Exhibit A the books know,    *)
(* the firm's positions, and where each issue lies.                        *)
(*                                                                         *)
(* Lines are [entry, account, type, side, issue, amount, effective, fact]; *)
(* the fact of a fail or a borrow is [activity, settles, price].           *)
(***************************************************************************)
EXTENDS RuleTable

CONSTANTS Issues, Holidays, LoadedUntil, MonthStarts, HoursPerDay,
          HouseRate,  \* the firm's own maintenance rate
          CallDays    \* business days to meet a maintenance call

Calendar == INSTANCE Deadlines

Total(lines) == SumOf([l \in lines |-> l.amount])
Worth(quantities, prices) == SumOf([i \in Issues |-> quantities[i] * prices[i]])
Positive(quantities) == [i \in Issues |-> Larger(quantities[i], 0)]
Negative(quantities) == [i \in Issues |-> Larger(-quantities[i], 0)]
Magnitude(x) == IF x < 0 THEN -x ELSE x
UpTo(x, y) == -((-x) \div y)  \* x / y, rounded up

---------------------------------------------------------------------------
\* The customers.

CustomerTypes == {"CUSTOMER_CASH", "CUSTOMER_MARGIN"}
Customers(lines) == {l \in lines : l.type \in CustomerTypes}
MarginAccount(lines, a) ==
  LET of == {l \in Customers(lines) : l.account = a}
  IN  [id |-> a, cash |-> Total({l \in of : l.side = "money"}),
       held |-> [i \in Issues |-> Total({l \in of : l.side = "ownership" /\ l.issue = i})]]
project_margin_accounts(lines) ==
  {MarginAccount(lines, a) : a \in {l.account : l \in Customers(lines)}}

---------------------------------------------------------------------------
\* Margin: what an account must be worth for what it holds, and the calls if it is
\* not.  new is what of it was traded today.

MarginRules == {"initial", "payment_period", "long_maintenance", "short_low_percent",
                "short_low_share", "short_percent", "short_share"}
LowPriced(i, prices) == prices[i] < 5
ShortMaintenance(i, shares, prices, table) ==
  LET low == LowPriced(i, prices)
      percent == Value(table, IF low THEN "short_low_percent" ELSE "short_percent")
      share == Value(table, IF low THEN "short_low_share" ELSE "short_share")
  IN  Larger(Percent(percent, shares * prices[i]), shares * share)
Call(test, kind, amount, due) == When(test, [kind |-> kind, amount |-> amount, due |-> due])

MarginResult(base, initial, maintenance, house, today, table) ==
  LET due(days) == Calendar!AddBusinessDays(today, days)
      deficiency == Larger(maintenance, house) - base.equity
  IN  [id |-> base.id, long |-> base.long, debit |-> base.debit, equity |-> base.equity,
       disposition |-> IF deficiency > 0 THEN "HOLD" ELSE "PASS",
       calls |-> Call(initial > Larger(base.equity, 0), "REG_T",
                      initial - Larger(base.equity, 0), due(Value(table, "payment_period")))
                 \cup Call(base.equity < maintenance, "MAINTENANCE",
                           maintenance - base.equity, due(CallDays))
                 \cup Call(house > maintenance /\ base.equity < house, "HOUSE",
                           house - base.equity, None),
       proceeds |-> IF deficiency > 0 THEN Smaller(base.long, deficiency) ELSE 0]
MarginOf(account, new, long, short, prices, today, table) ==
  LET held == account.held
      base == [id |-> account.id, long |-> long, debit |-> Larger(-account.cash, 0),
               equity |-> long + account.cash - short]
      fresh == [i \in Issues |-> IF i \in new THEN Magnitude(held[i]) ELSE 0]
  IN  IF Unloaded(table, MarginRules) # {}
        THEN [id |-> base.id, long |-> long, debit |-> base.debit, equity |-> base.equity,
              disposition |-> "INDETERMINATE", calls |-> {}, proceeds |-> 0]
        ELSE MarginResult(base, Percent(Value(table, "initial"), Worth(fresh, prices)),
               Percent(Value(table, "long_maintenance"), long)
                 + SumOf([i \in {j \in Issues : held[j] < 0} |->
                            ShortMaintenance(i, -held[i], prices, table)]),
               Percent(HouseRate, long + short), today, table)
compute_margin(account, new, prices, today, table) ==
  MarginOf(account, new, Worth(Positive(account.held), prices),
           Worth(Negative(account.held), prices), prices, today, table)

---------------------------------------------------------------------------
\* The lines of Exhibit A.

SpecialRule == [t \in {"FAIL_TO_RECEIVE", "STOCK_BORROWED", "FAIL_TO_DELIVER"} |->
                  CASE t = "FAIL_TO_RECEIVE" -> "item_04"
                    [] t = "STOCK_BORROWED" -> "item_11"
                    [] t = "FAIL_TO_DELIVER" -> "item_12"]
FactValid(fact, today) == Calendar!IsBusinessDay(fact.settles) /\ fact.settles <= today

\* An old fail to deliver does not count; an old fail to receive counts for what
\* the issue is worth now, if that is more.
Old(l, today) == today - l.fact.settles > 30
Counts(l, activity, today) ==
  /\ l.issue # None /\ l.type \in DOMAIN SpecialRule
  /\ l.fact.activity = activity
  /\ ~(l.type = "FAIL_TO_DELIVER" /\ Old(l, today))
Contract(l, today, prices) ==
  Magnitude(l.amount) * IF l.type = "FAIL_TO_RECEIVE" /\ Old(l, today)
                          THEN Larger(prices[l.issue], l.fact.price) ELSE l.fact.price
SpecialLines(lines, activity, today, prices) ==
  LET counted == {l \in lines : Counts(l, activity, today)}
  IN  [id \in {SpecialRule[l.type] : l \in counted} |->
         SumOf([l \in {m \in counted : SpecialRule[m.type] = id} |->
                  Contract(l, today, prices)])]

---------------------------------------------------------------------------
\* Where an issue lies, in absolute terms for each place.

LocationRule == [t \in {"DTC", "BANK_CONTROL", "FAIL_TO_DELIVER", "FAIL_TO_RECEIVE",
                        "STOCK_LOANED", "IN_TRANSFER"} |->
                   CASE t = "DTC" -> "control.c1"
                     [] t = "BANK_CONTROL" -> "control.c5"
                     [] t = "STOCK_LOANED" -> "noncontrol.d1"
                     [] t = "IN_TRANSFER" -> "noncontrol.d4"
                     [] OTHER -> "noncontrol.d2"]
RuleOfLocation(t) == IF t \in DOMAIN LocationRule THEN LocationRule[t] ELSE "UNMAPPED_LOCATION"
Holdings(lines, issue) ==
  LET located == {l \in lines : l.side = "location" /\ l.issue = issue}
      at(rule) == Total({l \in located : RuleOfLocation(l.type) = rule})
  IN  {[location |-> rule, quantity |-> Magnitude(at(rule)), age |-> None, loaned |-> None] :
         rule \in {r \in {RuleOfLocation(l.type) : l \in located} : at(r) # 0}}
Ownership(lines) == {l \in lines : l.side = "ownership" /\ l.issue # None}
Owned(lines, issue) == Total({l \in Ownership(lines) : l.issue = issue})

\* Mutant: the shares free of the lien are rounded down.
RoundedDown(quantity, margin, threshold) ==
  IF margin.long <= 0 THEN 0
  ELSE (quantity * Larger(margin.long - Percent(threshold, margin.debit), 0)) \div margin.long
\* What is free of the lien for a margin debit, pro rata and rounded up.
ExcessMargin(quantity, margin, threshold) ==
  LET excess == Larger(margin.long - Percent(threshold, margin.debit), 0)
  IN  IF margin.long <= 0 THEN 0 ELSE Smaller(quantity, UpTo(quantity * excess, margin.long))
Requirement(lines, issue, accounts, margins, threshold) ==
  LET long == {a \in accounts : a.held[issue] > 0}
      of(a) == {m \in margins : m.id = a.id}
      paid == {a \in long : \E m \in of(a) : m.debit = 0}
      lent == long \ paid
  IN  [issue |-> issue, books |-> Owned(lines, issue), holdings |-> Holdings(lines, issue),
       fullyPaid |-> SumOf([a \in paid |-> a.held[issue]]),
       excessMargin |->
         IF lent = {} THEN 0
         ELSE IF threshold = None \/ \E a \in lent : of(a) = {} THEN None
         ELSE SumOf([a \in lent |->
                       ExcessMargin(a.held[issue], CHOOSE m \in of(a) : TRUE, threshold)])]

\* What the books say of the lines asked for, of the accounts and of the facts.
ExhibitLines(ids, own, special) ==
  [id \in ids |-> IF id \in DOMAIN own THEN own[id]
                 ELSE IF id \in DOMAIN special THEN special[id] ELSE None]
Projection(lines, ids, accounts, today, prices, worth, margins, threshold) ==
  LET issues == {l.issue : l \in Ownership(lines)}
      debits == SumOf([a \in accounts |-> Larger(-a.cash, 0)])
      credits == SumOf([a \in accounts |-> Larger(a.cash, 0)])
  IN  [reserve |-> ExhibitLines(ids, [item_01 |-> credits, item_10 |-> debits],
                                SpecialLines(lines, "CUSTOMER", today, prices)),
       pab |-> ExhibitLines(ids, << >>, SpecialLines(lines, "PAB", today, prices)),
       capital |-> [worth |-> worth, debits |-> debits,
                    positions |-> {[issue |-> i, class |-> "equity", months |-> None,
                                    long |-> Larger(Owned(lines, i), 0) * prices[i],
                                    short |-> Larger(-Owned(lines, i), 0) * prices[i]] : i \in issues}],
       issues |-> {Requirement(lines, i, accounts, margins, threshold) : i \in issues},
       margins |-> margins]
project_customer_protection(lines, ids, today, prices, worth, margins, threshold) ==
  Projection(lines, ids, project_margin_accounts(lines), today, prices, worth, margins, threshold)

reserve_bank_balance(lines, type, through) ==
  Total({l \in lines : l.type = type /\ l.side = "money" /\ l.effective <= through})

---------------------------------------------------------------------------
\* What net capital and possession or control require, derived from the books a
\* second time and without the engines (simulator/protection_oracle.py): equities
\* and the alternative standard only.  Every day of the firm compares the two.
CustomerLine(l) == l.type \in {"CUSTOMER_CASH", "CUSTOMER_MARGIN"}
Tally(lines) == SumOf([l \in lines |-> l.amount])

read_books(lines) ==
  LET customers == {l.account : l \in {m \in lines : CustomerLine(m)}}
      of(side, issue) == {l \in lines : l.side = side /\ l.issue = issue}
  IN  [cash |-> [a \in customers |->
         Tally({l \in lines : CustomerLine(l) /\ l.account = a /\ l.side = "money"})],
       held |-> [a \in customers |-> [i \in Issues |->
         Tally({l \in of("ownership", i) : CustomerLine(l) /\ l.account = a})]],
       owned |-> [i \in Issues |-> Tally(of("ownership", i))],
       control |-> [i \in Issues |->
         LET net == Tally({l \in of("location", i) : l.type \in {"DTC", "BANK_CONTROL"}})
         IN  Larger(net, -net)]]

\* What of an account has to be under control, per issue.
AccountRequires(view, a, prices, threshold) ==
  LET long == {i \in Issues : view.held[a][i] > 0}
      debit == Larger(-view.cash[a], 0)
      value == SumOf([i \in long |-> view.held[a][i] * prices[i]])
      excess == Larger(value - Percent(threshold, debit), 0)
  IN  [i \in Issues |->
         IF i \notin long THEN 0
         ELSE IF debit = 0 THEN view.held[a][i]
         ELSE Smaller(view.held[a][i], -((-(view.held[a][i] * excess)) \div value))]
required_control(lines, prices, table) ==
  LET view == read_books(lines)
      requires(i) ==
        SumOf([a \in DOMAIN view.cash |->
                 AccountRequires(view, a, prices, Value(table, "excess_margin_threshold"))[i]])
  IN  IF ~Loaded(table, "excess_margin_threshold") THEN "UNDERIVABLE"
      ELSE IF \E i \in Issues : requires(i) > view.control[i] THEN "HOLD"
      ELSE "PASS"

CapitalRules == {"equity_rate", "equity_lesser_threshold", "equity_excess_rate",
                 "alternative_floor", "alternative_percent", "carrying",
                 "alternative_warning", "minimum_warning"}
required_net_capital(lines, prices, worth, table) ==
  LET view == read_books(lines)
      rule(id) == Value(table, id)
      \* An issue is long or short, never both: nothing exceeds the lesser threshold.
      haircut(i) == Percent(rule("equity_rate"), Larger(view.owned[i], -view.owned[i]) * prices[i])
      capital == worth - SumOf([i \in Issues |-> haircut(i)])
      debits == SumOf([a \in DOMAIN view.cash |-> Larger(-view.cash[a], 0)])
      ratio == Larger(rule("alternative_floor"), Percent(rule("alternative_percent"), debits))
  IN  IF Unloaded(table, CapitalRules) # {} THEN "UNDERIVABLE"
      ELSE IF \/ capital < rule("carrying")
              \/ capital < ratio
              \/ capital < Percent(rule("alternative_warning"), debits)
              \/ capital < Percent(rule("minimum_warning"), Larger(ratio, rule("carrying")))
        THEN "HOLD" ELSE "PASS"
=============================================================================
