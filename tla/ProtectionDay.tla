---------------------------- MODULE ProtectionDay ----------------------------
(***************************************************************************)
(* The customer protections of the simulated firm, business day after      *)
(* business day (simulator/firm.py, _protections; simulator/estate.py,     *)
(* _post_reserve_deposits): the books are booked, projected and assessed;  *)
(* the reserve deposits the computation calls for are made, late or short  *)
(* or not at all, and the reserve is computed again from what is in the    *)
(* bank by the deadline; what each engine says is compared with what the   *)
(* books require.                                                          *)
(*                                                                         *)
(* Two more parts of the run have the same clock and no other state in     *)
(* common: the engines asked by another caller with inputs of its own, and *)
(* the deadline assessments of one fail, count, transfer and computation.  *)
(***************************************************************************)
EXTENDS CustomerProtection, ProtectionInputs

CONSTANTS Bookings,    \* what can be booked: [id, lines]
          MaxBooked,   \* bound on the bookings of a run
          Profiles,    \* [part, table, prices, worth, history, equity, forward, opening,
                       \*  items]: part is "protect", "review" or "watch"
          Draws,       \* what becomes of a day's deposits: [customer, pab] or None
          ShortShare,  \* the percentage a short deposit lacks
          Cent,        \* a cent, in the unit of amounts
          StartDate, RunDays,
          Reviews,     \* what another caller asks: [engine, in, table]
          Open, DeadlineRules, LastInstant

\* What another caller asks of an engine is of the engine's shape.
IsRecord(r, fields) == r = [f \in DOMAIN r |-> r[f]] /\ fields \subseteq DOMAIN r
ReserveFields ==
  {"accounts", "as_of", "standard", "mode", "lines", "average", "effective", "previously", "exit",
   "voluntary", "indebtedness", "netCapital", "funds", "carries", "proprietary", "lastRequired",
   "clean", "cash", "securities", "excess", "excessAsOf"}
CapitalFields ==
  {"worth", "additions", "deductions", "positions", "election", "a3", "a4", "a5", "standard",
   "category", "indebtedness", "months", "debits", "monthly", "loaned", "borrowed"}
IssueFields == {"fullyPaid", "excessMargin", "books", "holdings"}
ChallengeFields == {"figures", "rules", "asOf", "vendorAsOf", "vendor", "tolerance"}
ASSUME ReviewsAssumption ==
  \A r \in Reviews :
    \/ r.engine = "reserve" /\ IsRecord(r.in, ReserveFields) /\ IsRecord(r.in.lines, {})
    \/ r.engine = "capital" /\ IsRecord(r.in, CapitalFields)
    \/ r.engine = "control" /\ IsFiniteSet(r.in) /\ \A i \in r.in : IsRecord(i, IssueFields)
    \/ r.engine = "challenge" /\ IsRecord(r.in, ChallengeFields)

\* Figures are numbers, as far as they are known, and None is neither one nor an answer.
Figure == Int \cup {None}
TableTyped(table) == \A id \in DOMAIN table.value : table.value[id] \in Int
ASSUME NoneIsNoNumber == None \notin Int /\ None \notin BOOLEAN

\* What is booked states its amount, and the price of a fail or a borrow; a firm that
\* is protected has rules, prices and books.
LineTyped(l) ==
  /\ l.amount \in Int /\ l.issue \in Issues \cup {None}
  /\ l.issue # None /\ l.type \in DOMAIN SpecialRule => l.fact.price \in Int
LinesTyped(lines) == IsFiniteSet(lines) /\ \A l \in lines : LineTyped(l)
FirmTyped(p) ==
  /\ TableTyped(p.table) /\ p.prices \in [Issues -> Int]
  /\ p.history \in Figure /\ p.equity \in Figure
  /\ LinesTyped(p.opening)
ASSUME BooksAssumption ==
  /\ IsFiniteSet(Issues) /\ ShortShare \in Int /\ Cent \in Nat \ {0}
  /\ \A b \in Bookings : LinesTyped(b.lines)
  /\ \A p \in Profiles : p.part = "protect" => FirmTyped(p)

\* Only deposits move the reserve bank, a firm that is protected has loaded the rules
\* they are judged by, and what a short deposit lacks shows in the unit of amounts.
RulesLoaded(table) ==
  /\ table.exhibit \subseteq Modeled
  /\ {"daily_threshold", "bank_equity_cap"} \subseteq DOMAIN table.value
  /\ table.value.daily_threshold = 500 /\ table.value.bank_equity_cap \in Nat
ASSUME DepositsAssumption ==
  /\ ShortShare * Cent >= 100
  /\ \A b \in Bookings : \A l \in b.lines : l.account # "reserve bank"
  /\ \A p \in Profiles :
       p.part = "protect" =>
         /\ RulesLoaded(p.table) /\ p.equity \in Nat \cup {None}
         /\ \A l \in p.opening :
              l.account # "reserve bank" /\ l.effective \in Int /\ l.effective <= StartDate

\* The calendar is loaded for the days of the run, and the deposits made on them.
RunDates ==
  {StartDate} \cup {Calendar!AddBusinessDays(d, 1) : d \in StartDate..(StartDate + RunDays - 1)}
ASSUME CalendarCoversTheRun ==
  /\ StartDate \in Int /\ RunDays \in Nat
  /\ \A d \in StartDate..(StartDate + RunDays - 1) : Calendar!AddBusinessDays(d, 1) # None
  /\ \A d \in RunDates, n \in 1..3 : Calendar!AddBusinessDays(d, n) # None

\* What is watched is watched at instants the run comes to, and the calendar reaches
\* every deadline of it.
WatchedDates == 0..Calendar!DateOf(LastInstant)
Reaches(rule) ==
  rule.unit \in {"BUSINESS_DAYS", "SETTLEMENT_DAYS"} =>
    \A d \in WatchedDates : Calendar!AddBusinessDays(d, rule.value) # None
ASSUME DeadlinesAssumption ==
  /\ HoursPerDay \in Nat \ {0} /\ LoadedUntil \in Int
  /\ Open \in Int /\ LastInstant \in Nat
  /\ \A r \in DOMAIN DeadlineRules : DeadlineRules[r].value \in Int /\ Reaches(DeadlineRules[r])
WatchedItems(w) ==
  /\ IsRecord(w, {"fail", "computation", "count", "transfer", "source"})
  /\ IsRecord(w.count, {"prior", "date"}) /\ IsRecord(w.transfer, {"instructed", "validated"})
  /\ w.fail.trade \in WatchedDates /\ w.fail.settles \in WatchedDates
  /\ w.computation.at \in 0..LastInstant /\ w.transfer.instructed \in 0..LastInstant
  /\ w.transfer.validated \in (0..LastInstant) \cup {None}
  /\ w.count.date \in WatchedDates \cup {None}
  /\ w.count.prior # {} =>
       \A r \in {"minimum_spacing", "maximum_spacing"} \cap DOMAIN DeadlineRules :
         Calendar!AddMonths(Max(w.count.prior), DeadlineRules[r].value) \in Int
ASSUME WatchAssumption == \A p \in Profiles : p.part = "watch" => WatchedItems(p.items)

VARIABLES profile,  \* the firm's
          today,
          step,     \* "book" or "protected"
          books,    \* the lines of the journal
          held,     \* what the day's protections say
          before,   \* an earlier day's computation for customers
          restated, \* the PAB computation again, relieved by before
          asked,    \* what another caller asked, and was told
          at,       \* the instant the deadlines are assessed
          items     \* what is watched
vars == <<profile, today, step, books, held, before, restated, asked, at, items>>


Init ==
  /\ profile \in Profiles
  /\ today = StartDate /\ step = "book"
  /\ books = profile.opening
  /\ held = None /\ before = None /\ restated = None /\ asked = None
  /\ at = 0 /\ items = profile.items

---------------------------------------------------------------------------
\* An entry is posted once.

Posted(id) == \E l \in books : l.entry = id
Dated(b) == {[entry |-> b.id, account |-> l.account, type |-> l.type, side |-> l.side,
              issue |-> l.issue, amount |-> l.amount, effective |-> today, fact |-> l.fact] :
               l \in b.lines}
Booked == {b \in Bookings : Posted(b.id)}
Book ==
  /\ profile.part = "protect" /\ step = "book"
  /\ Cardinality(Booked) < MaxBooked
  /\ \E b \in Bookings \ Booked :
       /\ \A l \in b.lines : l.fact # None => FactValid(l.fact, today)
       /\ books' = books \cup Dated(b)
  /\ UNCHANGED <<profile, today, step, held, before, restated, asked, at, items>>

---------------------------------------------------------------------------
\* The computation, before and after the deposits.

Threshold(table) == Value(table, "excess_margin_threshold")
Margins(lines) ==
  {compute_margin(a, {}, profile.prices, today, profile.table) : a \in project_margin_accounts(lines)}
Projected ==
  project_customer_protection(books, Modeled, today, profile.prices, profile.worth,
                              Margins(books), Threshold(profile.table))

\* What the books do not know counts as nothing.
_complete_reserve_inputs(accounts, lines) ==
  LET average == profile.history
      daily == average # None /\ average >= 500
  IN  [accounts |-> accounts, as_of |-> today, standard |-> "alternative",
       lines |-> [id \in Modeled |-> IF lines[id] = None THEN 0 ELSE lines[id]],
       average |-> average, effective |-> IF daily THEN today ELSE None,
       mode |-> IF daily THEN "daily" ELSE "weekly",
       previously |-> FALSE, exit |-> None, voluntary |-> None,
       indebtedness |-> None, netCapital |-> None, funds |-> None,
       carries |-> None, proprietary |-> None, lastRequired |-> None, clean |-> None,
       cash |-> {}, securities |-> 0, excess |-> None, excessAsOf |-> None]
Inputs(projected) ==
  [customer |-> _complete_reserve_inputs("customer", projected.reserve),
   pab |-> _complete_reserve_inputs("pab", projected.pab)]
Relieved(pab, customer) ==
  compute_reserve(with_customer_excess_debits(pab, customer), profile.table)
Both(customer, pab) == [customer |-> customer, pab |-> Relieved(pab, customer)]
Computed(inputs) == Both(compute_reserve(inputs.customer, profile.table), inputs.pab)

\* A deposit: how it came out, how much it moves, and when.
Ceiling2(x) == Cent * UpTo(x, Cent)
Floor2(x)   == Cent * (x \div Cent)
Deposit(outcome, amount, date) ==
  IF amount = 0 /\ outcome = "WITHDRAWAL_TO_REQUIREMENT"
    THEN [outcome |-> "NO_DEPOSIT_NEEDED", amount |-> 0, date |-> None]
    ELSE [outcome |-> outcome, amount |-> amount, date |-> date]
DepositOf(needed, draw, deadline) ==
  IF needed = None THEN Deposit("NOT_COMPUTED", 0, None)
  ELSE IF draw = None
    THEN Deposit(IF needed > 0 THEN "NOT_DECLARED_IN_PACK" ELSE "NO_DEPOSIT_NEEDED", 0, None)
  ELSE CASE needed < 0 -> Deposit("WITHDRAWAL_TO_REQUIREMENT", Ceiling2(needed), deadline)
         [] needed = 0 -> Deposit("NO_DEPOSIT_NEEDED", 0, None)
         [] needed > 0 /\ draw = "SHORT" ->
              Deposit("SHORT", Floor2(needed - Percent(ShortShare, needed)), deadline)
         [] needed > 0 /\ draw = "LATE" ->
              Deposit("LATE", Ceiling2(needed), Calendar!AddBusinessDays(deadline, 1))
         [] needed > 0 /\ draw = "ON_TIME" -> Deposit("ON_TIME", Ceiling2(needed), deadline)

Banks == [customer |-> "RESERVE_BANK_CUSTOMER", pab |-> "RESERVE_BANK_PAB"]
Accounts == DOMAIN Banks
ASSUME DrawsAssumption ==
  \A draw \in Draws : draw = None \/ draw \in [Accounts -> {"ON_TIME", "SHORT", "LATE"}]

\* Every entry is balanced: of an issue as much lies somewhere as is owned, at places
\* that the rules know.  A firm that is protected has loaded the rules that say so, and
\* its opening inventory.
SecuritiesOf(lines, i) == {l \in lines : l.side \in {"ownership", "location"} /\ l.issue = i}
Balanced(lines) ==
  /\ \A i \in Issues : Total(SecuritiesOf(lines, i)) = 0
  /\ \A l \in lines : /\ l.side = "location" => l.type \in DOMAIN LocationRule
                      /\ l.type \in {Banks[k] : k \in Accounts} => l.side = "money"
PlacesLoaded(table) ==
  /\ {"control.c1", "control.c5"} \subseteq table.control
  /\ {"noncontrol.d1", "noncontrol.d2", "noncontrol.d4"} \subseteq table.noncontrol
  /\ table.control \cap table.noncontrol = {}
  /\ {"fail_to_receive_age", "short_allocation_age", "leverage_warning"} \subseteq DOMAIN table.value
  /\ \A id \in DOMAIN table.value : table.value[id] \in Nat
ASSUME InventoryAssumption ==
  /\ None \notin Issues
  /\ \A b \in Bookings :
       /\ Balanced(b.lines)
       /\ \A l \in b.lines : l = [account |-> l.account, type |-> l.type, side |-> l.side,
                                 issue |-> l.issue, amount |-> l.amount, fact |-> l.fact]
  /\ \A p \in Profiles :
       p.part = "protect" =>
         /\ PlacesLoaded(p.table) /\ p.worth \in Int /\ \A i \in Issues : p.prices[i] > 0
         /\ Balanced(p.opening) /\ \E l \in p.opening : l.side = "ownership" /\ l.issue \in Issues

BankLine(entry, k, amount, effective) ==
  [entry |-> entry, account |-> "reserve bank", type |-> Banks[k], side |-> "money",
   issue |-> None, amount |-> amount, effective |-> effective, fact |-> None]
Opening(k) == reserve_bank_balance(books, Banks[k], LoadedUntil)

\* The books of a firm that brings its balances forward begin the day with one
\* line for each; the other's keep what was posted.
BroughtForward ==
  IF ~profile.forward THEN books
  ELSE {l \in books : \A k \in Accounts : l.type # Banks[k]}
       \cup {BankLine(<<"forward", k, today>>, k, Opening(k), today) :
               k \in {j \in Accounts : Opening(j) # 0}}
InBank(in, cash) ==
  IF cash = 0 THEN in
  ELSE [in EXCEPT !.cash = {[bank |-> "reserve bank", amount |-> cash, affiliated |-> FALSE,
                             equity |-> profile.equity]}]
\* Mutant: what is in the bank counts whenever it got there.
CountedWhenever(in, lines, k, deadline) ==
  InBank(in, reserve_bank_balance(lines, Banks[k], LoadedUntil))
counted(in, lines, k, deadline) == InBank(in, reserve_bank_balance(lines, Banks[k], deadline))

\* The firm's capital: it reports no lending activity.
CapitalInputs(projected) ==
  [worth |-> projected.capital.worth, debits |-> projected.capital.debits,
   positions |-> projected.capital.positions,
   additions |-> {}, deductions |-> {}, election |-> "issue", a3 |-> None, a4 |-> None,
   a5 |-> None, standard |-> "alternative", category |-> "carrying", indebtedness |-> None,
   months |-> None, monthly |-> FALSE, loaned |-> 0, borrowed |-> 0]

DepositsOf(sized, draw, deadline) ==
  [k \in Accounts |-> DepositOf(Less(sized[k].after, Opening(k)),
                                IF draw = None THEN None ELSE draw[k], deadline)]
Made(deposits) ==
  {BankLine(<<deposits[k].outcome, k, today>>, k, deposits[k].amount, deposits[k].date) :
     k \in {j \in Accounts : deposits[j].amount # 0}}
CountedBy(deadline, inputs, lines) ==
  [k \in Accounts |-> counted(inputs[k], lines, k, deadline)]

\* The deposits are posted and the computation made again.
Post(projected, inputs, deposits, deadline, lines) ==
  /\ books' = lines
  /\ held' = LET computed == Computed(CountedBy(deadline, inputs, lines)) IN
       [customer |-> computed.customer, pab |-> computed.pab,
        deposits |-> deposits, deadline |-> deadline, margins |-> projected.margins,
        capital |-> compute_net_capital(CapitalInputs(projected), profile.table),
        control |-> check_possession_or_control(projected.issues, profile.table)]
Settle(projected, inputs, deposits, deadline) ==
  Post(projected, inputs, deposits, deadline, BroughtForward \cup Made(deposits))
ProtectAs(draw, projected, inputs, deadline) ==
  Settle(projected, inputs, DepositsOf(Computed(inputs), draw, deadline), deadline)
ProtectFrom(projected, deadline) ==
  \E draw \in Draws : ProtectAs(draw, projected, Inputs(projected), deadline)

Protect ==
  /\ profile.part = "protect" /\ step = "book"
  /\ ProtectFrom(Projected, Calendar!AddBusinessDays(today, 2))
  /\ step' = "protected"
  /\ UNCHANGED <<profile, today, before, restated, asked, at, items>>

\* The PAB computation of the day again, given the customers' of an earlier one.
Restate ==
  /\ step = "protected" /\ before # None /\ restated = None
  /\ restated' = Relieved(CountedBy(held.deadline, Inputs(Projected), books).pab, before)
  /\ UNCHANGED <<profile, today, step, books, held, before, asked, at, items>>

NextDay ==
  /\ step = "protected" /\ today < StartDate + RunDays
  /\ today' = Calendar!AddBusinessDays(today, 1)
  /\ step' = "book"
  /\ before' \in {held.customer, before} /\ held' = None /\ restated' = None
  /\ UNCHANGED <<profile, books, asked, at, items>>

---------------------------------------------------------------------------
\* Another caller asks an engine.

Answer(engine, in, table) ==
  CASE engine = "reserve"   -> compute_reserve(in, table).disposition
    [] engine = "capital"   -> compute_net_capital(in, table).disposition
    [] engine = "control"   -> check_possession_or_control(in, table).disposition
    [] engine = "challenge" -> challenge(in.figures, in.rules, in.asOf, in.vendorAsOf, in.vendor,
                                         in.tolerance).disposition
Review ==
  /\ profile.part = "review" /\ asked = None
  /\ \E r \in Reviews : asked' = [of |-> r, disposition |-> Answer(r.engine, r.in, r.table)]
  /\ UNCHANGED <<profile, today, step, books, held, before, restated, at, items>>

---------------------------------------------------------------------------
\* The deadlines, assessed at any instant of what is watched; a count is made and
\* a transfer validated at one.

Watching == profile.part = "watch"
Assessments ==
  [fail |-> Calendar!assess_rule_204(items.fail, at, TRUE, Open, DeadlineRules),
   computation |-> Calendar!assess_reserve_deposit(items.computation, at, TRUE, Open, DeadlineRules),
   count |-> Calendar!assess_security_count(items.count, at, TRUE, DeadlineRules),
   transfer |-> Calendar!assess_acats(items.transfer, at, TRUE, DeadlineRules, items.source)]

Wait ==
  /\ Watching /\ at < LastInstant
  /\ at' = at + 1
  /\ UNCHANGED <<profile, today, step, books, held, before, restated, asked, items>>
CountSecurities ==
  /\ Watching /\ items.count.date = None
  /\ items' = [items EXCEPT !.count.date = Calendar!DateOf(at)]
  /\ UNCHANGED <<profile, today, step, books, held, before, restated, asked, at>>
Validate ==
  /\ Watching /\ items.transfer.validated = None
  /\ items' = [items EXCEPT !.transfer.validated = at]
  /\ UNCHANGED <<profile, today, step, books, held, before, restated, asked, at>>

Next == Book \/ Protect \/ Restate \/ NextDay \/ Review \/ Wait \/ CountSecurities \/ Validate
Spec == Init /\ [][Next]_vars

---------------------------------------------------------------------------
\* The reserve passes exactly when what reached the bank by the deadline, as far as
\* the bank is good for it, covers what the computation requires; a deposit that
\* came late, short or not at all is a hold (compute_reserve,
\* _post_reserve_deposits; DEPOSIT_BREACH_OUTCOMES of the firm's I6).
DepositsAreJudged ==
  step = "protected" =>
    \A k \in Accounts :
      LET r    == held[k]
          bank == reserve_bank_balance(books, Banks[k], held.deadline)
          good == IF profile.equity = None THEN 0
                  ELSE Smaller(bank, Percent(Value(profile.table, "bank_equity_cap"), profile.equity))
          known == /\ r.after # None /\ profile.history # None
                   /\ profile.equity # None \/ bank = 0
      IN  /\ r.disposition = "PASS" => known /\ good >= r.after
          /\ known /\ good >= r.after => r.disposition = "PASS"
          /\ held.deposits[k].outcome \in {"SHORT", "LATE", "NOT_DECLARED_IN_PACK"} =>
               r.disposition # "PASS"
          /\ known /\ bank = good /\ r.disposition # "PASS" =>
               held.deposits[k].outcome \in {"SHORT", "LATE", "NOT_DECLARED_IN_PACK"}

\* Customers and PAB never lean on the same excess: when both computations pass,
\* what is in both banks covers what is owed to both, also when the PAB one was
\* given another day's customers (with_customer_excess_debits).
TogetherCovered ==
  step = "protected" =>
    \A pab \in {held.pab, restated} \ {None} :
      held.customer.disposition = "PASS" /\ pab.disposition = "PASS" =>
        held.customer.eligible + pab.eligible
          >= held.customer.requirement - held.customer.excessDebits
               + pab.requirement - pab.excessDebits

\* The books are of the shape the firm's are: of every issue it owns what lies
\* somewhere, and its control locations lie on one side.
FirmShaped ==
  \A i \in Issues :
    LET lies(types) == Total({l \in books : l.side = "location" /\ l.issue = i /\ l.type \in types})
    IN  \A t \in DOMAIN LocationRule : lies({t}) <= 0

\* Net capital and control come out as the books require, though each is derived
\* twice and by code that shares nothing (the firm's I6, FIX-11).
EnginesAgree ==
  step = "protected" /\ FirmShaped =>
    /\ required_net_capital(books, profile.prices, profile.worth, profile.table)
         \in {"UNDERIVABLE", held.capital.disposition}
    /\ required_control(books, profile.prices, profile.table)
         \in {"UNDERIVABLE", held.control.disposition}

\* Knowing less never turns a hold into a pass: not without a rule, and not without
\* a figure (decide; "a missing rule is never a default").
Without(table, id) ==
  [value |-> [r \in DOMAIN table.value \ {id} |-> table.value[r]],
   exhibit |-> table.exhibit \ {id}, control |-> table.control \ {id},
   noncontrol |-> table.noncontrol \ {id}]
Figures == {"average", "effective", "previously", "indebtedness", "netCapital", "funds", "carries",
            "proprietary", "lastRequired", "clean", "securities", "worth", "debits", "months",
            "monthly", "loaned", "borrowed", "a3", "a4", "a5", "tolerance"}
Unknown(engine, in) ==
  CASE engine = "control" -> {{[i EXCEPT !.books = None] : i \in in},
                              {[i EXCEPT !.fullyPaid = None] : i \in in}}
    [] engine = "reserve" -> {[in EXCEPT ![f] = None] : f \in Figures \cap DOMAIN in}
                             \cup {[in EXCEPT !.lines[id] = None] : id \in DOMAIN in.lines}
    [] OTHER -> {[in EXCEPT ![f] = None] : f \in Figures \cap DOMAIN in}
IgnoranceNeverPasses ==
  asked # None /\ asked.disposition # "PASS" =>
    LET r == asked.of
    IN  /\ \A id \in DOMAIN r.table.value :
             id \notin r.table.exhibit \ Modeled =>
               Answer(r.engine, r.in, Without(r.table, id)) # "PASS"
        /\ \A in \in Unknown(r.engine, r.in) : Answer(r.engine, in, r.table) # "PASS"

\* What missed its deadline does not pass afterwards, whatever is done about it
\* (assess_acats, assess_security_count, assess_rule_204, assess_reserve_deposit).
LateStaysLate ==
  [][Watching => \A k \in DOMAIN Assessments :
       Assessments[k].breaches # {} => Assessments'[k].disposition # "PASS"]_vars
=============================================================================
