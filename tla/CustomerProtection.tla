------------------------- MODULE CustomerProtection -------------------------
(***************************************************************************)
(* The two engines of Rule 15c3-3 and the one of Rule 15c3-1, on the       *)
(* numbers of RuleTable.                                                   *)
(*                                                                         *)
(* The reserve formula (customer_protection/reserve.py): credits less      *)
(* reduced debits give what must be on deposit for customers, or for the   *)
(* proprietary accounts of broker-dealers (PAB), which the customers'      *)
(* excess debits of the same date relieve.                                 *)
(*                                                                         *)
(* Possession or control (customer_protection/control.py): the securities  *)
(* customers own in full must lie where the rule says the firm controls    *)
(* them, and what lies elsewhere has to be acted on.  An issue is          *)
(* [issue, fullyPaid, excessMargin, books, holdings]; a holding            *)
(* [location, quantity, age, loaned].                                      *)
(***************************************************************************)
EXTENDS RuleTable

CONSTANTS EXHIBIT_A_CREDITS, EXHIBIT_A_DEBITS, ITEM_10

Customer(in) == in.accounts = "customer"
Supplied(lines, id) == IF id \in DOMAIN lines THEN lines[id] ELSE None

---------------------------------------------------------------------------
\* The lines of Exhibit A.

Modeled == EXHIBIT_A_CREDITS \cup EXHIBIT_A_DEBITS
ASSUME ExhibitAssumption == IsFiniteSet(Modeled) /\ ITEM_10 \in EXHIBIT_A_DEBITS

SideTotal(ids, lines, table) ==
  IF \A id \in ids : Loaded(table, id) /\ Supplied(lines, id) # None
    THEN SumOf([id \in ids |-> lines[id]])
    ELSE None
ReadLines(lines, table) ==
  Found([credits |-> SideTotal(EXHIBIT_A_CREDITS, lines, table),
         debits  |-> SideTotal(EXHIBIT_A_DEBITS, lines, table)],
        Unloaded(table, Modeled) \cup (table.exhibit \ Modeled) \cup (DOMAIN lines \ Modeled),
        {id \in Modeled : Supplied(lines, id) = None},
        {})

---------------------------------------------------------------------------
\* Whether the firm must compute daily.

OverThreshold(in, table) ==
  IF in.effective = None
    THEN Found(None, {}, {"daily_requirement_effective_date"}, {})
    ELSE Found(in.as_of >= in.effective, {}, {}, {})
UnderThreshold(in, table) ==
  IF in.previously = None THEN Found(None, {}, {"previously_daily_required"}, {})
  ELSE IF ~in.previously \/ in.exit = None THEN Found(in.previously, {}, {}, {})
  ELSE IF ~Loaded(table, "exit_notice") THEN Found(None, {"exit_notice"}, {}, {})
  ELSE Found(in.as_of < in.exit + Value(table, "exit_notice"), {}, {}, {})
DailyRequired(in, table) ==
  LET threshold == Value(table, "daily_threshold")
      unloaded  == Unloaded(table, {"daily_threshold"})
      required  == IF in.average >= threshold THEN OverThreshold(in, table)
                                             ELSE UnderThreshold(in, table)
  IN  IF in.average = None \/ threshold = None
        THEN Found(None, unloaded, When(in.average = None, "average_total_credits"), {})
        ELSE [required EXCEPT !.breaches =
                When(required.value = TRUE /\ in.mode # "daily", "not_daily")]

---------------------------------------------------------------------------
\* What debits are reduced by.

VoluntaryDaily(in, table) ==
  Found(/\ Loaded(table, "voluntary_notice") /\ in.voluntary # None
        /\ in.as_of >= in.voluntary + Value(table, "voluntary_notice"),
        Unloaded(table, {"voluntary_notice"}), {}, {})

ByRate(rule, amount, table) ==
  Found(IF amount = None \/ ~Loaded(table, rule) THEN None
        ELSE Percent(Value(table, rule), amount),
        Unloaded(table, {rule}), {}, {})

\* On the alternative standard all debits are reduced, by less when the
\* computation is daily by requirement or by a notice given in time; on the other
\* one item 10 is.  PAB debits never are.
Reduction(in, table, debits, daily) ==
  IF ~Customer(in)
    THEN Found(IF Loaded(table, "no_note_e3") THEN 0 ELSE None,
               Unloaded(table, {"no_note_e3"}), {}, {})
  ELSE IF in.standard = "aggregate_indebtedness"
    THEN ByRate("note_e3", Supplied(in.lines, ITEM_10), table)
  ELSE LET asked == in.mode = "daily" /\ daily # TRUE
           voluntary == VoluntaryDaily(in, table)
           reduced == ByRate(IF in.mode = "daily" /\ (daily = TRUE \/ voluntary.value)
                               THEN "daily_reduction" ELSE "weekly_reduction", debits, table)
           monthly == in.mode = "monthly"
       IN  Found(reduced.value,
                 reduced.rules \cup (IF asked THEN voluntary.rules ELSE {})
                   \cup (IF monthly THEN Unloaded(table, {"weekly_basis"}) ELSE {}),
                 {}, When(monthly /\ Loaded(table, "weekly_basis"), "not_weekly"))

---------------------------------------------------------------------------
\* Computing monthly is for some firms only, and customers' deposits are then
\* larger.

PabMonthly(in, table) ==
  IF ~Loaded(table, "pab_monthly") THEN Found(None, {"pab_monthly"}, {}, {})
  ELSE LET recovering == in.lastRequired = TRUE
           required == Value(table, "clean_weekly")
       IN  Found(100,
             IF recovering THEN Unloaded(table, {"clean_weekly"}) ELSE {},
             {x \in {"carries", "proprietary", "lastRequired"} : in[x] = None}
               \cup When(recovering /\ in.clean = None, "clean_weekly_computations"),
             When(TRUE \in {in.carries, in.proprietary}, "pab_monthly_unavailable")
               \cup When(recovering /\ Known({in.clean, required}) /\ in.clean < required,
                         "pab_monthly_recovery"))
CustomerMonthly(in, table) ==
  LET rules == {"monthly_ai_ceiling", "monthly_funds_ceiling", "monthly_factor"}
      evidence == {"indebtedness", "netCapital", "funds"}
      known == \A x \in evidence : in[x] # None
  IN  Found(Value(table, "monthly_factor"), Unloaded(table, rules),
            {x \in evidence : in[x] = None},
            When(/\ known /\ Loaded(table, "monthly_ai_ceiling")
                 /\ Loaded(table, "monthly_funds_ceiling")
                 /\ \/ in.indebtedness > Value(table, "monthly_ai_ceiling") * in.netCapital
                    \/ in.funds > Value(table, "monthly_funds_ceiling"),
                 "monthly_unavailable"))
DepositFactor(in, table) ==
  IF in.mode # "monthly" THEN Found(100, {}, {}, {})
  ELSE IF Customer(in) THEN CustomerMonthly(in, table)
  ELSE PabMonthly(in, table)

---------------------------------------------------------------------------
\* What counts of the deposits [bank, amount, affiliated, equity]: nothing at an
\* affiliated bank, and elsewhere no more than a share of the bank's equity.

Counted(d, table) ==
  IF d.affiliated THEN IF Loaded(table, "affiliated_excluded") THEN 0 ELSE None
  ELSE IF d.equity = None \/ ~Loaded(table, "bank_equity_cap") THEN None
  ELSE Smaller(d.amount, Percent(Value(table, "bank_equity_cap"), d.equity))
Good(counted, securities) ==
  IF securities = None \/ \E d \in DOMAIN counted : counted[d] = None THEN None
  ELSE securities + SumOf(counted)
Eligible(cash, securities, table) ==
  Found(Good([d \in cash |-> Counted(d, table)], securities),
        (IF cash = {} THEN {} ELSE Unloaded(table, {"bank_equity_cap"}))
          \cup (IF \E d \in cash : d.affiliated
                  THEN Unloaded(table, {"affiliated_excluded"}) ELSE {}),
        When(\E d \in cash : ~d.affiliated /\ d.equity = None, "bank_equity_capital")
          \cup When(securities = None, "qualified_securities_deposit"),
        {})

---------------------------------------------------------------------------
\* A customer computation relieves the PAB requirement of the same date only.

with_customer_excess_debits(pab, customer) ==
  [pab EXCEPT !.excess = customer.excessDebits, !.excessAsOf = customer.as_of]
\* Mutant: the relief is taken whatever its date.
AnyDateRelief(in, table, requirement) ==
  IF Customer(in) \/ in.excess = None THEN Found(0, {}, {}, {})
  ELSE Found(IF requirement = None THEN None ELSE Smaller(requirement, in.excess), {}, {}, {})
Relief(in, table, requirement) ==
  IF Customer(in) \/ in.excess = None \/ in.excessAsOf # in.as_of THEN Found(0, {}, {}, {})
  ELSE Found(IF Loaded(table, "pab_from_customer") /\ requirement # None
               THEN Smaller(requirement, in.excess) ELSE None,
             Unloaded(table, {"pab_from_customer"}), {}, {})

Less(x, y) == IF Known({x, y}) THEN x - y ELSE None

\* The computation, from what reading each part found.
ReserveResult(in, found, excess, requirement, relief, on) ==
  LET after == Less(requirement, relief.value)
      short == Less(after, on.value)
      parts == found \o <<relief, on, Found(None, {}, {}, When(short # None /\ short > 0, "short"))>>
  IN  [accounts |-> in.accounts, as_of |-> in.as_of, disposition |-> Disposed(parts),
       credits |-> found[1].value.credits, debits |-> found[1].value.debits,
       reduction |-> found[3].value,
       requirement |-> requirement, after |-> after, eligible |-> on.value,
       shortfall |-> IF short = None THEN None ELSE Larger(short, 0),
       excessDebits |-> IF excess = None THEN None ELSE Larger(-excess, 0),
       relief |-> relief.value]
AfterRelief(in, table, found, excess, requirement) ==
  ReserveResult(in, found, excess, requirement, Relief(in, table, requirement),
                Eligible(in.cash, in.securities, table))
WithExcess(in, table, found, excess, factor) ==
  AfterRelief(in, table, found, excess,
              IF Known({excess, factor}) THEN Percent(factor, Larger(excess, 0)) ELSE None)
Reduced(in, table, lines, daily, reduced, factor) ==
  WithExcess(in, table, <<lines, daily, reduced, factor>>,
             Less(lines.value.credits, Less(lines.value.debits, reduced.value)), factor.value)
WithLines(in, table, lines, daily) ==
  Reduced(in, table, lines, daily, Reduction(in, table, lines.value.debits, daily.value),
          DepositFactor(in, table))
compute_reserve(in, table) ==
  WithLines(in, table, ReadLines(in.lines, table), DailyRequired(in, table))

-----------------------------------------------------------------------------
\* Possession or control.

LIEN_OR_LOAN == "noncontrol.d1"
AGED == [x \in {"noncontrol.d2", "noncontrol.d3", "noncontrol.d4"} |->
           CASE x = "noncontrol.d2" -> "fail_to_receive_age"
             [] x = "noncontrol.d3" -> "distribution_receivable_age"
             [] x = "noncontrol.d4" -> "short_allocation_age"]

\* What a holding outside control calls for: [required, deadline].
Action(h, table) ==
  IF h.location = LIEN_OR_LOAN
    THEN LET rule == IF h.loaned = TRUE THEN "loan_return_days" ELSE "lien_release_days"
         IN  Found([required |-> TRUE,
                    deadline |-> IF h.loaned = None THEN None ELSE Value(table, rule)],
                   IF h.loaned = None THEN {} ELSE Unloaded(table, {rule}),
                   When(h.loaned = None, "loaned"), {})
  ELSE IF h.location \notin DOMAIN AGED
    THEN Found([required |-> None, deadline |-> None], {h.location}, {}, {})
  ELSE LET threshold == Value(table, AGED[h.location])
       IN  Found([required |-> IF None \in {threshold, h.age} THEN None ELSE h.age > threshold,
                  deadline |-> None],
                 Unloaded(table, {AGED[h.location]}), When(h.age = None, "age_days"), {})

Quantity(holdings) == SumOf([h \in holdings |-> h.quantity])
Held(issue, locations) == Quantity({h \in issue.holdings : h.location \in locations})
Everywhere(issue) == {h.location : h \in issue.holdings}
Unnamed(issue, table) == Everywhere(issue) \ (table.control \cup table.noncontrol)

Required(issue) ==
  IF None \in {issue.fullyPaid, issue.excessMargin} THEN None
  ELSE issue.fullyPaid + issue.excessMargin
Short(issue, table) ==
  IF Required(issue) = None THEN None
  ELSE Larger(Required(issue) - Held(issue, table.control), 0)

\* Only a shortfall calls for actions, one for each holding outside control.
CheckIssue(issue, table) ==
  LET short   == Short(issue, table)
      isShort == short # None /\ short > 0
      acted   == IF isShort THEN {h \in issue.holdings : h.location \in table.noncontrol} ELSE {}
      actions == {Action(h, table) : h \in acted}
  IN  Found(short,
            Unnamed(issue, table) \cup UNION {a.rules : a \in actions},
            {x \in {"fullyPaid", "excessMargin", "books"} : issue[x] = None}
              \cup UNION {a.inputs : a \in actions},
            When(/\ issue.books # None
                 /\ Held(issue, Everywhere(issue)) # issue.books, "not_conserved")
              \cup When(isShort, "not_in_control"))

check_possession_or_control(issues, table) ==
  LET checked == SetToSeq({CheckIssue(i, table) : i \in issues})
      all == checked \o <<Found(None, When(table.control = {}, "no_control_location"),
                                When(issues = {}, "issues"), {})>>
  IN  [disposition |-> Disposed(all), breaches |-> AllBreaches(all)]

---------------------------------------------------------------------------
\* Net capital (customer_protection/net_capital.py): net worth with its
\* adjustments, less haircuts on what the firm holds, against the larger of a
\* minimum and a ratio, with the early warnings above it.

CONSTANTS GOVERNMENT_BANDS  \* a sequence of [category, sub, rate, upper]: the names of
                            \* the rules that give a band its rate and its upper months

AllKnown(s) == \A x \in s : x # None

\* additions and deductions are sets of [id, amount].
Amount(s) == SumOf([a \in s |-> a.amount])
Adjusted(worth, additions, deductions) ==
  LET adjustments == additions \cup deductions
      known == worth # None /\ \A a \in adjustments : a.amount # None
  IN  Found(IF known THEN worth + Amount(additions) - Amount(deductions) ELSE None,
            {},
            When(worth = None, "net_worth")
              \cup When(\E a \in adjustments : a.amount = None, "adjustment"),
            {})

---------------------------------------------------------------------------
\* Haircuts.  A position is [issue, class, long, short, months].

Bands == DOMAIN GOVERNMENT_BANDS
BandRules == {GOVERNMENT_BANDS[b].rate : b \in Bands}
             \cup {GOVERNMENT_BANDS[b].upper : b \in Bands \ {Len(GOVERNMENT_BANDS)}}

\* The last band has no upper limit.  rule is what the table says of each rule.
BandOf(p, rule) ==
  LET within == {b \in Bands \ {Len(GOVERNMENT_BANDS)} :
                   p.months < rule[GOVERNMENT_BANDS[b].upper]}
  IN  IF within = {} THEN Len(GOVERNMENT_BANDS) ELSE Min(within)

\* Longs and shorts net within a band; across the bands of a category they offset
\* at a price, or do not where the firm so elects.
BandNet(b, positions, rule) ==
  SumOf([p \in {q \in positions : BandOf(q, rule) = b} |-> p.long - p.short])
Deductions(category, sign, positions, rule) ==
  SumOf([b \in {c \in Bands : GOVERNMENT_BANDS[c].category = category} |->
           Percent(rule[GOVERNMENT_BANDS[b].rate],
                   Larger(sign * BandNet(b, positions, rule), 0))])
CategoryHaircut(category, election, positions, rule) ==
  LET long  == Deductions(category, 1, positions, rule)
      short == Deductions(category, -1, positions, rule)
  IN  IF election = "category"
        THEN Larger(long, short) - Smaller(long, short)
               + Percent(rule["government_offset"], Smaller(long, short))
        ELSE long + short
AllCategories(election, positions, rule) ==
  SumOf([c \in {GOVERNMENT_BANDS[b].category : b \in Bands} |->
           CategoryHaircut(c, election, positions, rule)])
\* Three provisions the engine does not model: each has to be ruled out.
Provisions == {"a3", "a4", "a5"}
GovernmentHaircut(in, positions, table) ==
  LET needs == BandRules \cup When(in.election = "category", "government_offset")
      undated == \E p \in positions : p.months = None
      rulesOk == Unloaded(table, needs) = {}
      ruledOut == \A v \in Provisions : in[v] = FALSE
  IN  IF positions = {} THEN Found(0, {}, {}, {})
      ELSE Found(IF ruledOut /\ rulesOk /\ ~undated
                   THEN AllCategories(in.election, positions, Values(table, needs))
                   ELSE None,
                 Unloaded(table, needs) \cup {v \in Provisions : in[v] = TRUE},
                 {v \in Provisions : in[v] = None}
                   \cup When(rulesOk /\ undated, "months_to_maturity"),
                 {})

EquityRules == {"equity_rate", "equity_lesser_threshold", "equity_excess_rate"}
EquityDeduction(p, rule) ==
  LET greater == Larger(p.long, p.short)
      excess == Larger(Smaller(p.long, p.short)
                         - Percent(rule["equity_lesser_threshold"], greater), 0)
  IN  Percent(rule["equity_rate"], greater) + Percent(rule["equity_excess_rate"], excess)
EquityDeductions(positions, rule) ==
  SumOf([p \in positions |-> EquityDeduction(p, rule)])
EquityHaircut(positions, table) ==
  IF positions = {} THEN Found(0, {}, {}, {})
  ELSE Found(IF Unloaded(table, EquityRules) = {}
               THEN EquityDeductions(positions, Values(table, EquityRules)) ELSE None,
             Unloaded(table, EquityRules), {}, {})

OfClass(class, positions) == {p \in positions : p.class = class}
AssetClasses == {"government", "equity"}
HaircutsOf(unknown, government, equity) ==
  Found(IF unknown = {} /\ AllKnown({government.value, equity.value})
          THEN government.value + equity.value ELSE None,
        government.rules \cup equity.rules \cup unknown, government.inputs, {})
Haircuts(in, table) ==
  HaircutsOf({p.class : p \in in.positions} \ AssetClasses,
             GovernmentHaircut(in, OfClass("government", in.positions), table),
             EquityHaircut(OfClass("equity", in.positions), table))

---------------------------------------------------------------------------
\* The requirement.

Alternative(in) == in.standard = "alternative"

\* Aggregate indebtedness over the multiple, or a share of debits and no less than
\* a floor.
RatioRequirement(in, table) ==
  IF Alternative(in)
    THEN LET rules == {"alternative_floor", "alternative_percent"}
         IN  Found(IF in.debits = None \/ Unloaded(table, rules) # {} THEN None
                   ELSE Larger(Value(table, "alternative_floor"),
                               Percent(Value(table, "alternative_percent"), in.debits)),
                   Unloaded(table, rules), When(in.debits = None, "aggregate_debit_items"), {})
  ELSE LET timed == in.months # None /\ Loaded(table, "first_year_months")
           first == in.months < Value(table, "first_year_months")
           rule  == IF first THEN "ai_ceiling_first_year" ELSE "ai_ceiling"
       IN  Found(IF timed /\ Loaded(table, rule) /\ in.indebtedness # None
                   THEN in.indebtedness \div Value(table, rule) ELSE None,
                 Unloaded(table, {"first_year_months"} \cup (IF timed THEN {rule} ELSE {})),
                 When(in.indebtedness = None, "aggregate_indebtedness")
                   \cup When(in.months = None, "months_in_business"),
                 {})
Ceiling(in, table) ==
  IF Alternative(in) \/ in.months = None \/ ~Loaded(table, "first_year_months") THEN None
  ELSE IF in.months < Value(table, "first_year_months")
    THEN Value(table, "ai_ceiling_first_year") ELSE Value(table, "ai_ceiling")

---------------------------------------------------------------------------
\* Early warnings: a measure on the wrong side of a threshold, where both are known.

Warned(name, measure, threshold, low) ==
  When(/\ AllKnown({measure, threshold})
       /\ IF low THEN measure < threshold ELSE measure > threshold, name)
Times(rule, amount, table) ==
  IF amount = None \/ ~Loaded(table, rule) THEN None ELSE Percent(Value(table, rule), amount)

LendingActivity == {"loaned", "borrowed"}
EarlyWarnings(in, table, capital, tentative, minimum) ==
  LET standard == IF Alternative(in) THEN "alternative_warning" ELSE "ai_warning"
      lending == in.monthly # TRUE
  IN  Found(None,
        Unloaded(table, {standard, "minimum_warning"} \cup When(lending, "leverage_warning")),
        When(in.monthly = None, "reports_lending_activity_monthly")
          \cup {a \in LendingActivity : lending /\ in[a] = None},
        (IF Alternative(in)
           THEN Warned(standard, capital, Times(standard, in.debits, table), TRUE)
           ELSE Warned(standard, in.indebtedness, Times(standard, capital, table), FALSE))
          \cup Warned("minimum_warning", capital, Times("minimum_warning", minimum, table), TRUE)
          \cup {a \in LendingActivity :
                  lending /\ Warned(a, in[a], Times("leverage_warning", tentative, table), FALSE) # {}})

CapitalBreaches(in, table, capital, activity, ratio) ==
  When(AllKnown({capital, activity}) /\ capital < activity, "below_minimum")
  \cup When(/\ ~Alternative(in)
            /\ AllKnown({capital, in.indebtedness, Ceiling(in, table)})
            /\ in.indebtedness > Ceiling(in, table) * capital, "above_ai_ceiling")
  \cup When(Alternative(in) /\ AllKnown({capital, ratio}) /\ capital < ratio, "below_alternative")

NetCapitalResult(in, table, found, capital, minimum, tentative, ratio) ==
  LET parts == found \o
        <<EarlyWarnings(in, table, capital, tentative, minimum),
          Found(None, Unloaded(table, {in.category}), {},
                CapitalBreaches(in, table, capital, Value(table, in.category), ratio))>>
  IN  [disposition |-> Disposed(parts), capital |-> capital, minimum |-> minimum]
WithHaircuts(in, table, tentative, haircuts, ratio) ==
  NetCapitalResult(in, table, <<tentative, haircuts, ratio>>,
    IF AllKnown({tentative.value, haircuts.value}) THEN tentative.value - haircuts.value ELSE None,
    IF AllKnown({ratio.value, Value(table, in.category)})
      THEN Larger(ratio.value, Value(table, in.category)) ELSE None,
    tentative.value, ratio.value)
compute_net_capital(in, table) ==
  WithHaircuts(in, table, Adjusted(in.worth, in.additions, in.deductions),
               Haircuts(in, table), RatioRequirement(in, table))
=============================================================================
