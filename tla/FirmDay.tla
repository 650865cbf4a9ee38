------------------------------ MODULE FirmDay ------------------------------
(***************************************************************************)
(* The firm as simulator/firm.py runs it, one business day after another:  *)
(* executions are drawn, allocated and booked per issue and side; shares   *)
(* are borrowed against the fails carried in, and lent and recalled where  *)
(* a control deficit is declared; the day's trades and the carried fails   *)
(* are netted and settled; what stays open is carried; the close checks    *)
(* the books against what was traded.                                      *)
(*                                                                         *)
(* The customers of one side are one account, the price of an issue is one *)
(* per day, and money is in units in which allocations are whole.          *)
(***************************************************************************)
EXTENDS ContinuousNetSettlement, Functions, TLC

CONSTANTS Issues, Prices,
          MaxShares,      \* bound: shares of one batch
          MaxBatches,     \* bound: batches of one day
          MaxBooked,      \* bound: batches of the run
          StartDate, RunDays,
          Opening,        \* the firm's inventory per issue
          Profiles,       \* [fails, deficit]: the share that fails, as <<numerator,
                          \* denominator>>, and the declared [day, issue, loan] or None
          Reports         \* what another caller asks the clearing rules
ASSUME FirmAssumption ==
  /\ IsFiniteSet(Issues) /\ Prices \subseteq Int /\ MaxShares \in Nat
  /\ StartDate \in Nat /\ RunDays \in Nat /\ Opening \in Int
ASSUME ProfilesAssumption ==
  \A p \in Profiles : /\ p.fails[1] \in Nat /\ p.fails[2] \in Nat \ {0}
                      /\ p.fails[1] <= p.fails[2]
                      /\ p.deficit # None => p.deficit.loan \in Int
\* The calendar knows every day of the run and the day after it.
ASSUME CalendarCoversTheRun ==
  \A k \in 1..RunDays :
    LET today == AddBusinessDays(StartDate - 1, k)
    IN  today # None /\ AddBusinessDays(today, 1) # None
ASSUME ReportsAssumption ==
  \A r \in Reports :
    /\ r.position.quantity \in Int /\ r.cash \in Int
    /\ r.report \in [quantity : Int \cup {None, NotFinite}, cash : Int \cup {None, NotFinite}]

VARIABLES profile,  \* the firm's
          n,        \* the day of the run
          step,     \* how far the day is
          books,    \* the journal: a set of entries
          trades,   \* today's batches [issue, side, quantity]
          prices,   \* today's price of each issue executed
          carried,  \* the fails carried into the day, per issue
          settled,  \* today's result per issue
          asked,    \* what another caller asked last, and was told
          traded, allocated, \* per issue, since the run began
          since     \* per issue failing: the settlement date it first failed on
vars == <<profile, n, step, books, trades, prices, carried, settled, asked, traded, allocated, since>>

Today == AddBusinessDays(StartDate - 1, n + 1)

FirmMarket == [id |-> "NSCC", regime |-> "mandatory_deadline", deadline |-> 3,
               dateRule |-> "not_assessed", message |-> FALSE, cycle |-> 1,
               published |-> TRUE, provenance |-> TRUE]
NoAction == [acrossRecordDate |-> FALSE, ratio |-> FALSE, restated |-> FALSE]

---------------------------------------------------------------------------
\* The journal.  An entry is posted once per event; its lines follow from its kind.

Entry(kind, day, issue, side, quantity, money) ==
  [event |-> <<kind, day, issue, side>>, quantity |-> quantity, money |-> money]
Post(entry, journal) ==
  IF \E e \in journal : e.event = entry.event THEN journal ELSE journal \cup {entry}
PostAll(entries, journal) ==
  journal \cup {e \in entries : Post(e, journal) # journal}

Line(account, record, amount) == [account |-> account, record |-> record, amount |-> amount]
Lines(e) ==
  CASE e.event[1] = "cns" ->
         {Line("customers", "ownership", e.quantity), Line("customers", "money", e.money),
          Line("DTC", "location", -e.quantity), Line("clearing", "money", -e.money)}
    [] e.event[1] = "opening" ->
         {Line("firm", "ownership", e.quantity), Line("DTC", "location", -e.quantity)}
    [] e.event[1] = "borrow" ->
         {Line("borrowed", "ownership", e.quantity), Line("firm", "ownership", -e.quantity)}
    [] e.event[1] \in {"loan", "recall"} ->
         {Line("DTC", "location", e.quantity), Line("loaned", "location", -e.quantity)}

Moved(e, record, accounts) ==
  MapThenSumSet(LAMBDA l : l.amount, {l \in Lines(e) : l.record = record /\ l.account \in accounts})
Amount(entries, issue, record, accounts) ==
  MapThenSumSet(LAMBDA e : Moved(e, record, accounts), {e \in entries : e.event[3] = issue})
Owners == {"customers", "firm", "borrowed"}
Locations == {"DTC", "loaned"}
Balances(journal) ==
  [positions |-> [a \in Owners |-> [i \in Issues |-> Amount(journal, i, "ownership", {a})]],
   cash |-> [i \in Issues |-> Amount(journal, i, "money", {"customers"})]]

SeedInventory == {Entry("opening", StartDate, i, "firm", Opening, 0) : i \in Issues}

Init ==
  /\ profile \in Profiles
  /\ n = 0 /\ step = "trade"
  /\ books = SeedInventory
  /\ trades = {} /\ prices = <<>> /\ carried = <<>> /\ settled = <<>> /\ asked = None
  /\ traded = [i \in Issues |-> 0] /\ allocated = [i \in Issues |-> 0] /\ since = <<>>

---------------------------------------------------------------------------
\* The executions of the day: batches per issue and side, and a price for every
\* issue with an execution, also one whose executions were all refused.

Sign2(side) == IF side = "BUY" THEN 1 ELSE -1
Signed(t) == Sign2(t.side) * t.quantity
Batches == [issue : Issues, side : {"BUY", "SELL", "SHORT"}, quantity : 1..MaxShares]
Draws ==
  {b \in UNION {kSubset(k, Batches) : k \in 0..MaxBatches} :
     \A s, t \in b : s.issue = t.issue /\ s.side = t.side => s = t}

\* Mutant: a sale is booked as if it were a purchase.
UnsignedEntry(t, p) ==
  Entry("cns", Today, t.issue, t.side, t.quantity, -t.quantity * p[t.issue])
BatchEntry(t, p) ==
  Entry("cns", Today, t.issue, t.side, Signed(t), -Signed(t) * p[t.issue])

Trade ==
  /\ n < RunDays /\ step = "trade"
  /\ \E b \in Draws, extra \in SUBSET Issues :
       \E p \in [{t.issue : t \in b} \cup extra -> Prices] :
         /\ Cardinality({e \in books : e.event[1] = "cns"}) + Cardinality(b) <= MaxBooked
         /\ trades' = b /\ prices' = p
         /\ books' = PostAll({BatchEntry(t, p) : t \in b}, books)
         /\ traded' = [i \in Issues |->
              traded[i] + MapThenSumSet(Signed, {t \in b : t.issue = i})]
  /\ step' = "borrow"
  /\ asked' = None
  /\ UNCHANGED <<profile, n, carried, settled, allocated, since>>

---------------------------------------------------------------------------
\* Shares borrowed against every fail carried in, and the declared loan.

Borrows == {Entry("borrow", Today, i, "firm", Size(carried[i].quantity), 0) :
              i \in {j \in DOMAIN carried : carried[j].quantity # 0}}
Loaned(i) == Amount(books, i, "location", {"loaned"})
Loans ==
  IF profile.deficit = None THEN {}
  ELSE LET i == profile.deficit.issue
       IN  CASE n = profile.deficit.day ->
                  {Entry("loan", Today, i, "firm", profile.deficit.loan, 0)}
             [] n = profile.deficit.day + 1 /\ Loaned(i) # 0 ->
                  {Entry("recall", Today, i, "firm", Loaned(i), 0)}
             [] OTHER -> {}

Borrow ==
  /\ step = "borrow"
  /\ books' = PostAll(Borrows \cup Loans, books)
  /\ step' = "settle"
  /\ UNCHANGED <<profile, n, trades, prices, carried, settled, asked, traded, allocated, since>>

---------------------------------------------------------------------------
\* The clearing cycle.

\* Decimal.quantize: to the nearest whole, ties to the even one.
Round(x, d) ==
  LET q == Size(x) \div d
      r == 2 * (Size(x) % d)
      up == r > d \/ (r = d /\ q % 2 = 1)
  IN  Sign(x) * (IF up THEN q + 1 ELSE q)
Kept(x) == Round(x * (profile.fails[2] - profile.fails[1]), profile.fails[2])

CnsTrades ==
  {[issue |-> i, quantity |-> carried[i].quantity, id |-> "carried"] : i \in DOMAIN carried}
  \cup {[issue |-> t.issue, quantity |-> Signed(t), id |-> t.side] : t \in trades}
Positions == net_positions(CnsTrades, FirmMarket.id, None, TRUE)

\* The mark of a position: today's price, or what the carried fail was worth.
Unpriced(p) == p.issue \notin DOMAIN prices
Cash(p) == IF Unpriced(p)
             THEN Round(p.quantity * Size(carried[p.issue].cash), Size(carried[p.issue].quantity))
             ELSE p.quantity * prices[p.issue]
\* Mutant: a fail carried into the day starts to age again.
RestartedDate(i) == AddBusinessDays(Today, 1)
SettlementDate(i) ==
  IF i \in DOMAIN carried THEN carried[i].settles ELSE AddBusinessDays(Today, 1)
Settlement(p) ==
  settle_net_position(p, FirmMarket, Cash(p), [quantity |-> Kept(p.quantity), cash |-> Kept(Cash(p))],
                      SettlementDate(p.issue), Today, NoAction)

Settle ==
  LET results == [i \in {p.issue : p \in Positions} |->
                    Settlement(CHOOSE p \in Positions : p.issue = i)]
      failing == {i \in DOMAIN results : results[i].residual # None}
  IN  /\ step = "settle"
      /\ \A p \in Positions : Unpriced(p) => carried[p.issue].quantity # 0
      /\ settled' = results
      /\ allocated' = [i \in Issues |->
           allocated[i] + IF i \in DOMAIN results THEN results[i].quantity ELSE 0]
      /\ since' = [i \in failing |->
           IF i \in DOMAIN since THEN since[i] ELSE results[i].residual.settles]
      /\ step' = "close"
      /\ UNCHANGED <<profile, n, books, trades, prices, carried, asked, traded>>

\* The mark of a fail that carries cash and no shares, in an issue nobody traded,
\* divides by zero: the run ends.
Stop ==
  /\ step = "settle"
  /\ \E p \in Positions : Unpriced(p) /\ carried[p.issue].quantity = 0
  /\ step' = "stopped"
  /\ UNCHANGED <<profile, n, books, trades, prices, carried, settled, asked, traded, allocated, since>>

\* Mutant: only what failed entirely is carried.
WholeFails ==
  [i \in {j \in DOMAIN settled : settled[j].residual # None /\ settled[j].quantity = 0} |->
     settled[i].residual]
\* What the next day starts with.
NextFails ==
  [i \in {j \in DOMAIN settled : settled[j].residual # None} |-> settled[i].residual]

Close ==
  /\ step = "close"
  /\ carried' = NextFails
  /\ n' = n + 1 /\ step' = "trade"
  /\ trades' = {} /\ prices' = <<>> /\ settled' = <<>>
  /\ UNCHANGED <<profile, books, asked, traded, allocated, since>>

\* Another caller of the clearing rules, with a report of its own.
Report ==
  /\ n = 0 /\ step = "trade" /\ asked = None
  /\ \E r \in Reports :
       asked' = [of |-> r, result |-> settle_net_position(r.position, r.market, r.cash, r.report,
                                                           r.settles, r.today, r.action)]
  /\ UNCHANGED <<profile, n, step, books, trades, prices, carried, settled, traded, allocated, since>>

Next == Trade \/ Borrow \/ Settle \/ Stop \/ Close \/ Report
Spec == Init /\ [][Next]_vars

---------------------------------------------------------------------------
\* What the close checks (FirmDay.invariants), from the books and from the trades.

Executed(i) == MapThenSumSet(Signed, {t \in trades : t.issue = i})
Paid(i) == MapThenSumSet(LAMBDA t : -Signed(t) * prices[t.issue], {t \in trades : t.issue = i})
Borrowed(i) == IF i \in DOMAIN carried THEN Size(carried[i].quantity) ELSE 0

\* What the day's allocations and borrows come to, taken from the trades and the
\* fails and not from the books.
Activity ==
  [positions |-> [a \in Owners |-> [i \in Issues |->
                    CASE a = "customers" -> Executed(i)
                      [] a = "borrowed" -> Borrowed(i)
                      [] a = "firm" -> -Borrowed(i)]],
   cash |-> [i \in Issues |-> Paid(i)]]
RollForward(opening, activity) ==
  [positions |-> [a \in Owners |-> [i \in Issues |->
                    opening.positions[a][i] + activity.positions[a][i]]],
   cash |-> [i \in Issues |-> opening.cash[i] + activity.cash[i]]]
TodaysEntries == {e \in books : e.event[2] = Today /\ e.event[1] # "opening"}
BookedToday(record) ==
  [i \in Issues |-> Amount({e \in TodaysEntries : e.event[1] = "cns"}, i, record, {"customers"})]
I1 == /\ BookedToday("ownership") = [i \in Issues |-> Executed(i)]
      /\ BookedToday("money") = [i \in Issues |-> Paid(i)]
I3 == \A i \in Issues :
        Amount(books, i, "ownership", Owners) + Amount(books, i, "location", Locations) = 0
I5 == /\ {p.issue : p \in Positions} = DOMAIN settled
      /\ \A i \in DOMAIN settled : settled[i].residual # None =>
           settled[i].residual.quantity # None /\ settled[i].residual.cash # None
I11 == Balances(books) = RollForward(Balances(books \ TodaysEntries), Activity)
I12 == PostAll(books, books) = books

---------------------------------------------------------------------------
\* At every close the books hold what was traded, ownership and location agree,
\* the fails are all carried and the openings roll forward (run_firm's I1, I3, I5,
\* I11, I12).
DayCloses == step = "close" => I1 /\ I3 /\ I5 /\ I11 /\ I12

\* No share is lost or counted twice between two nettings: what was traded since
\* the run began is what was allocated and what is open (net_positions,
\* settle_net_position, the carry of run_firm).
SharesConserved ==
  \A i \in Issues :
    LET open == CASE step = "close" /\ i \in DOMAIN settled ->
                       IF settled[i].residual = None THEN 0 ELSE settled[i].residual.quantity
                  [] step # "close" /\ i \in DOMAIN carried -> carried[i].quantity
                  [] OTHER -> 0
        netted == IF step \in {"borrow", "settle", "stopped"} THEN Executed(i) ELSE 0
    IN  traded[i] = allocated[i] + open + netted

\* A fail ages from the day it should first have settled, through every partial
\* allocation and every day's netting, and is flagged once the market's deadline
\* is behind it (SecuritiesBreakCode.CLOSE_OUT_DEADLINE_PASSED).
OverdueIsFlagged ==
  step = "close" =>
    \A i \in DOMAIN since :
      BusinessDaysAfter(since[i], Today) > FirmMarket.deadline =>
        "close_out_deadline_passed" \in settled[i].breaks

\* Only a report that accounts for the position settles it, and only one that
\* moves nothing fails it: silence and contradictions are neither
\* (settle_net_position, "the framework does not infer settlement from silence").
\* What is settled and what then stays open make up the position, so neither a
\* movement the other way nor one of more than the position counts.
SettledIsReported ==
  asked # None =>
    LET r == asked.of
        d == asked.result.disposition
    IN  /\ d = "settled_in_full" =>
             r.report = [quantity |-> r.position.quantity, cash |-> r.cash]
        /\ d \in {"failed_to_receive", "failed_to_deliver"} => r.report = Nothing
        /\ d \in {"settled_in_full", "partial_allocation"} /\ r.position.quantity # 0 =>
             /\ r.position.market = r.market.id
             /\ Size(r.report.quantity) + Size(r.position.quantity - r.report.quantity)
                  = Size(r.position.quantity)
        /\ d = "indeterminate" => asked.result.residual = None /\ ~completed(asked.result)
        /\ asked.result.residual # None /\ r.market.regime = "not_assessed" =>
             "close_out_deadline_unreadable" \in asked.result.breaks
=============================================================================
