--------------------------- MODULE FirmDay_proofs ---------------------------
(***************************************************************************)
(* Theorems about the firm's day, for any issues, prices, batches,         *)
(* profiles and days the calendar knows.                                   *)
(***************************************************************************)
EXTENDS FirmDay, Sums

-----------------------------------------------------------------------------
\* What settling one position comes to.

\* The breaks of a fail, and whether a report says anything.
Open(position, m, cash, report, settles, today, action) ==
    UnestablishedDate(position, m)
      \cup OpenFailBreaks(m, Residual(position, cash, report, settles, today), action)
Stated(report) == report.quantity # None /\ report.cash # None

\* Which of its results settle_net_position gives.
Outcome(r, p, m, cash, report, settles, today, action) ==
    \/ r.disposition = "indeterminate" /\ r.residual = None /\ r.quantity = 0
         /\ (Contradiction(p, m, report) # None \/ ~Stated(report))
    \/ /\ Contradiction(p, m, report) = None /\ Stated(report)
       /\ \/ /\ p.quantity = 0 /\ cash = 0
             /\ r = Flat(report, UnestablishedDate(p, m))
          \/ /\ report = [quantity |-> p.quantity, cash |-> cash]
             /\ r = Result("settled_in_full", report, None, UnestablishedDate(p, m))
          \/ /\ report # Nothing
             /\ r = Result("partial_allocation", report,
                           Residual(p, cash, report, settles, today),
                           Open(p, m, cash, report, settles, today, action)
                             \cup If(~m.published, "partial_with_unexplained_allocation"))
          \/ /\ report = Nothing
             /\ r = Failed(p, cash, Residual(p, cash, report, settles, today),
                           Open(p, m, cash, report, settles, today, action))

LEMMA Cases ==
    ASSUME NEW p, NEW m, NEW cash, NEW report, NEW settles, NEW today, NEW action,
           NEW r, r = settle_net_position(p, m, cash, report, settles, today, action)
    PROVE  Outcome(r, p, m, cash, report, settles, today, action)
<1> USE DEF Outcome
<1> DEFINE date == UnestablishedDate(p, m)
           wrong == Contradiction(p, m, report)
           residual == Residual(p, cash, report, settles, today)
           open == date \cup OpenFailBreaks(m, residual, action)
<1>1. r = IF wrong # None THEN Indeterminate(date \cup {wrong})
          ELSE IF None \in {report.quantity, report.cash}
            THEN Indeterminate(date \cup {"outcome_not_reported"})
          ELSE IF p.quantity = 0 /\ cash = 0 THEN Flat(report, date)
          ELSE IF report = [quantity |-> p.quantity, cash |-> cash]
            THEN Result("settled_in_full", report, None, date)
          ELSE IF report # Nothing
            THEN Result("partial_allocation", report, residual,
                        open \cup If(~m.published, "partial_with_unexplained_allocation"))
          ELSE Failed(p, cash, residual, open)
  BY DEF settle_net_position
<1>2. \A b : /\ Indeterminate(b).disposition = "indeterminate"
             /\ Indeterminate(b).residual = None /\ Indeterminate(b).quantity = 0
  BY DEF Indeterminate, Result, Nothing
<1>3. open = Open(p, m, cash, report, settles, today, action)
  BY DEF Open
<1> HIDE DEF date, wrong, residual, open
<1>4. None \in {report.quantity, report.cash} <=> ~Stated(report)
  BY DEF Stated
<1>5. CASE wrong # None
  BY <1>1, <1>2, <1>5 DEF wrong
<1>6. CASE wrong = None /\ ~Stated(report)
  BY <1>1, <1>2, <1>4, <1>6 DEF wrong
<1>7. CASE wrong = None /\ Stated(report)
  <2>1. r = IF p.quantity = 0 /\ cash = 0 THEN Flat(report, date)
            ELSE IF report = [quantity |-> p.quantity, cash |-> cash]
              THEN Result("settled_in_full", report, None, date)
            ELSE IF report # Nothing
              THEN Result("partial_allocation", report, residual,
                          open \cup If(~m.published, "partial_with_unexplained_allocation"))
            ELSE Failed(p, cash, residual, open)
    BY <1>1, <1>4, <1>7, Zenon
  <2>2. CASE p.quantity = 0 /\ cash = 0
    BY <2>1, <2>2, <1>7 DEF wrong, date
  <2>3. CASE ~(p.quantity = 0 /\ cash = 0) /\ report = [quantity |-> p.quantity, cash |-> cash]
    BY <2>1, <2>3, <1>7 DEF wrong, date
  <2>4. CASE /\ ~(p.quantity = 0 /\ cash = 0) /\ report # [quantity |-> p.quantity, cash |-> cash]
             /\ report # Nothing
    <3>1. r = Result("partial_allocation", report, residual,
                     open \cup If(~m.published, "partial_with_unexplained_allocation"))
      BY <2>1, <2>4, Zenon
    <3> QED
      BY <3>1, <2>4, <1>3, <1>7, Zenon DEF wrong, residual
  <2>5. CASE /\ ~(p.quantity = 0 /\ cash = 0) /\ report # [quantity |-> p.quantity, cash |-> cash]
             /\ report = Nothing
    <3>1. r = Failed(p, cash, residual, open)
      BY <2>1, <2>5, Zenon
    <3> QED
      BY <3>1, <2>5, <1>3, <1>7, Zenon DEF wrong, residual
  <2> QED
    BY <2>2, <2>3, <2>4, <2>5
<1> QED
  BY <1>5, <1>6, <1>7

\* A report that is not contradicted is of this market and moves no more than the
\* position has.
LEMMA Uncontradicted ==
    ASSUME NEW p, NEW m, NEW report, p.quantity \in Int,
           report.quantity \in Int \cup {None, NotFinite},
           Contradiction(p, m, report) = None
    PROVE  /\ p.market = m.id
           /\ NotFinite \notin {report.quantity, report.cash}
           /\ report.quantity \in Int =>
                /\ Sign(p.quantity) * Sign(report.quantity) # -1
                /\ p.quantity # 0 => Size(report.quantity) <= Size(p.quantity)
<1>1. /\ None # "market_profile_mismatch" /\ None # "allocation_not_finite"
      /\ None # "allocation_wrong_sign" /\ None # "allocation_exceeds_position"
      /\ None \notin Int
  BY NoneIsApart DEF Contradictions
<1>2. p.market = m.id /\ NotFinite \notin {report.quantity, report.cash}
  BY <1>1 DEF Contradiction
<1>3. ASSUME report.quantity \in Int
      PROVE  /\ Sign(p.quantity) * Sign(report.quantity) # -1
             /\ p.quantity # 0 => Size(report.quantity) <= Size(p.quantity)
  <2>1. report.quantity # None
    BY <1>1, <1>3
  <2>2. Sign(p.quantity) * Sign(report.quantity) # -1
    BY <1>1, <1>2, <2>1 DEF Contradiction
  <2>3. ~(p.quantity # 0 /\ Size(report.quantity) > Size(p.quantity))
    BY <1>1, <1>2, <2>1, <2>2 DEF Contradiction
  <2>4. Size(p.quantity) \in Int /\ Size(report.quantity) \in Int
    BY <1>3 DEF Size
  <2> QED
    BY <2>2, <2>3, <2>4
<1> QED
  BY <1>2, <1>3

\* What the rules told another caller.
Told(r) == settle_net_position(r.position, r.market, r.cash, r.report, r.settles, r.today, r.action)
AskedInv == asked # None => asked.of \in Reports /\ asked.result = Told(asked.of)

\* What it may say of that report.
ToldOf(r, t) ==
    /\ t.disposition = "settled_in_full" =>
         r.report = [quantity |-> r.position.quantity, cash |-> r.cash]
    /\ t.disposition \in {"failed_to_receive", "failed_to_deliver"} => r.report = Nothing
    /\ t.disposition \in {"settled_in_full", "partial_allocation"} /\ r.position.quantity # 0 =>
         /\ r.position.market = r.market.id
         /\ Size(r.report.quantity) + Size(r.position.quantity - r.report.quantity)
              = Size(r.position.quantity)
    /\ t.disposition = "indeterminate" => t.residual = None /\ ~completed(t)
    /\ t.residual # None /\ r.market.regime = "not_assessed" =>
         "close_out_deadline_unreadable" \in t.breaks

LEMMA ToldIsReported ==
    ASSUME NEW r \in Reports, NEW t, t = Told(r)
    PROVE  ToldOf(r, t)
<1> USE DEF ToldOf
<1> DEFINE p == r.position
           m == r.market
           residual == Residual(p, r.cash, r.report, r.settles, r.today)
           open == Open(p, m, r.cash, r.report, r.settles, r.today, r.action)
           unexplained == If(~m.published, "partial_with_unexplained_allocation")
           date == UnestablishedDate(p, m)
<1>1. /\ p.quantity \in Int /\ r.cash \in Int
      /\ r.report \in [quantity : Int \cup {None, NotFinite}, cash : Int \cup {None, NotFinite}]
  BY ReportsAssumption
<1>2. m.regime = "not_assessed" => "close_out_deadline_unreadable" \in open
  BY DEF Open, OpenFailBreaks, If
<1>3. ~completed(t) <=> \/ "allocation_against_flat_position" \in t.breaks
                        \/ t.disposition \notin {"settled_in_full", "flat"}
  BY DEF completed
<1>4. \/ t.disposition = "indeterminate" /\ t.residual = None
      \/ /\ Contradiction(p, m, r.report) = None /\ Stated(r.report)
         /\ \/ t = Flat(r.report, date)
            \/ /\ r.report = [quantity |-> p.quantity, cash |-> r.cash]
               /\ t = Result("settled_in_full", r.report, None, date)
            \/ t = Result("partial_allocation", r.report, residual, open \cup unexplained)
            \/ /\ r.report = Nothing
               /\ t = Failed(p, r.cash, residual, open)
  <2>1. t = settle_net_position(p, m, r.cash, r.report, r.settles, r.today, r.action)
    BY DEF Told
  <2>2. Outcome(t, p, m, r.cash, r.report, r.settles, r.today, r.action)
    BY <2>1, Cases
  <2> QED
    BY <2>2, Zenon DEF Outcome
<1> HIDE DEF residual, open, unexplained, date
<1>5. CASE t.disposition = "indeterminate" /\ t.residual = None
  BY <1>3, <1>5
<1>6. CASE Contradiction(p, m, r.report) = None /\ Stated(r.report) /\ t = Flat(r.report, date)
  BY <1>6 DEF Flat, Result
<1>7. CASE Contradiction(p, m, r.report) = None /\ Stated(r.report)
  <2>1. r.report.quantity \in Int /\ p.market = m.id
    BY <1>1, <1>7, Uncontradicted DEF Stated
  <2>2. p.quantity # 0 =>
          Size(r.report.quantity) + Size(p.quantity - r.report.quantity) = Size(p.quantity)
    BY <1>1, <1>7, <2>1, Uncontradicted DEF Size, Sign
  <2>3. CASE /\ r.report = [quantity |-> p.quantity, cash |-> r.cash]
             /\ t = Result("settled_in_full", r.report, None, date)
    BY <2>1, <2>2, <2>3 DEF Result
  <2>4. CASE t = Result("partial_allocation", r.report, residual, open \cup unexplained)
    <3>1. t.disposition = "partial_allocation" /\ t.breaks = open \cup unexplained
      BY <2>4 DEF Result
    <3> QED
      BY <3>1, <1>2, <2>1, <2>2
  <2>5. CASE r.report = Nothing /\ t = Failed(p, r.cash, residual, open)
    <3>1. t.disposition \in {"failed_to_receive", "failed_to_deliver"} /\ open \subseteq t.breaks
      BY <2>5 DEF Failed, Result
    <3> QED
      BY <3>1, <1>2, <2>5
  <2> QED
    BY <1>4, <1>5, <1>6, <1>7, <2>3, <2>4, <2>5
<1> QED
  BY <1>4, <1>5, <1>7

\* What the rules say of a report is what it says: only one that accounts for the
\* position settles it, only one that moves nothing fails it, and one that says
\* nothing or contradicts the position leaves it open (settle_net_position).
THEOREM SettledIsAlwaysReported == Spec => []SettledIsReported
<1>1. Init => AskedInv
  BY DEF Init, AskedInv
<1>2. AskedInv /\ [Next]_vars => AskedInv'
  <2> SUFFICES ASSUME AskedInv, [Next]_vars PROVE AskedInv'
    OBVIOUS
  <2>1. CASE Report
    <3>1. PICK r \in Reports : asked' = [of |-> r, result |-> Told(r)]
      BY <2>1 DEF Report, Told
    <3> QED
      BY <3>1 DEF AskedInv, Told
  <2>2. CASE Trade
    BY <2>2 DEF Trade, AskedInv
  <2>3. CASE UNCHANGED asked
    BY <2>3 DEF AskedInv, Told
  <2> QED
    BY <2>1, <2>2, <2>3 DEF Next, vars, Borrow, Settle, Stop, Close
<1>3. AskedInv => SettledIsReported
  <2> SUFFICES ASSUME asked # None, asked.of \in Reports, asked.result = Told(asked.of)
                PROVE  SettledIsReported
    BY DEF AskedInv, SettledIsReported
  <2> DEFINE r == asked.of
             t == asked.result
  <2>1. r \in Reports /\ t = Told(r)
    OBVIOUS
  <2> HIDE DEF r, t
  <2>2. ToldOf(r, t)
    BY <2>1, ToldIsReported
  <2> QED
    BY <2>2 DEF ToldOf, SettledIsReported, r, t
<1> QED
  BY <1>1, <1>2, <1>3, PTL DEF Spec

-----------------------------------------------------------------------------
\* What the clearing cycle of a day leaves.
PositionOf(i) == CHOOSE p \in Positions : p.issue = i
Results == [i \in {p.issue : p \in Positions} |-> Settlement(PositionOf(i))]
Failing(results) == {i \in DOMAIN results : results[i].residual # None}

LEMMA SettleIs ==
    ASSUME Settle
    PROVE  /\ step = "settle" /\ step' = "close"
           /\ \A p \in Positions : Unpriced(p) => carried[p.issue].quantity # 0
           /\ settled' = Results
           /\ allocated' = [i \in Issues |->
                allocated[i] + IF i \in DOMAIN Results THEN Results[i].quantity ELSE 0]
           /\ since' = [i \in Failing(Results) |->
                IF i \in DOMAIN since THEN since[i] ELSE Results[i].residual.settles]
           /\ UNCHANGED <<profile, n, books, trades, prices, carried, asked, traded>>
  BY Zenon DEF Settle, Results, PositionOf, Failing

LEMMA PositionOfIssue ==
    ASSUME NEW i \in DOMAIN Results
    PROVE  /\ PositionOf(i) \in Positions /\ PositionOf(i).issue = i
           /\ Results[i] = Settlement(PositionOf(i))
<1>1. \E p \in Positions : p.issue = i
  BY DEF Results
<1>2. PositionOf(i) \in Positions /\ PositionOf(i).issue = i
  BY <1>1, Zenon DEF PositionOf
<1>3. Results[i] = Settlement(PositionOf(i))
  BY DEF Results
<1> QED
  BY <1>2, <1>3

\* A fail is dated when its position was, and flagged when that is too long ago.
LEMMA FailIsDated ==
    ASSUME NEW i \in Failing(Results)
    PROVE  /\ Results[i].residual.settles = SettlementDate(i)
           /\ BusinessDaysAfter(SettlementDate(i), Today) > FirmMarket.deadline =>
                "close_out_deadline_passed" \in Results[i].breaks
<1> DEFINE p == PositionOf(i)
           r == Results[i]
           report == [quantity |-> Kept(p.quantity), cash |-> Kept(Cash(p))]
           residual == Residual(p, Cash(p), report, SettlementDate(i), Today)
           open == Open(p, FirmMarket, Cash(p), report, SettlementDate(i), Today, NoAction)
           unexplained == If(~FirmMarket.published, "partial_with_unexplained_allocation")
           date == UnestablishedDate(p, FirmMarket)
<1>1. i \in DOMAIN Results /\ r.residual # None
  BY DEF Failing
<1>2. r = Settlement(p) /\ p.issue = i
  BY <1>1, PositionOfIssue
<1>3. r = settle_net_position(p, FirmMarket, Cash(p), report, SettlementDate(i), Today, NoAction)
  BY <1>2 DEF Settlement
<1>4. Outcome(r, p, FirmMarket, Cash(p), report, SettlementDate(i), Today, NoAction)
  BY <1>3, Cases
<1>5. \/ r.residual = None
      \/ r = Flat(report, date)
      \/ r = Result("settled_in_full", report, None, date)
      \/ r = Result("partial_allocation", report, residual, open \cup unexplained)
      \/ r = Failed(p, Cash(p), residual, open)
  BY <1>4, Zenon DEF Outcome
<1>6. /\ residual.settles = SettlementDate(i)
      /\ residual.aged = BusinessDaysAfter(SettlementDate(i), Today)
  BY DEF Residual
<1>7. residual.aged > FirmMarket.deadline => "close_out_deadline_passed" \in open
  <2>1. FirmMarket.deadline # None
    BY NoneIsApart DEF FirmMarket
  <2> HIDE DEF residual
  <2>2. open = UnestablishedDate(p, FirmMarket) \cup OpenFailBreaks(FirmMarket, residual, NoAction)
    BY DEF Open, residual
  <2> HIDE DEF open
  <2> QED
    BY <2>1, <2>2 DEF OpenFailBreaks, If
<1> HIDE DEF r, p, residual, open, unexplained, date, report
<1>8. r.residual = residual /\ open \subseteq r.breaks
  BY <1>1, <1>5 DEF Flat, Result, Failed, r
<1> QED
  BY <1>6, <1>7, <1>8 DEF r

-----------------------------------------------------------------------------
\* Since when every fail is one: the date it is carried with, from the day it
\* first failed on, whatever was allocated or netted into it since.
AgesOf(fails) == DOMAIN since = DOMAIN fails /\ \A i \in DOMAIN since : since[i] = fails[i].settles
Flagged ==
    \A i \in DOMAIN since :
        BusinessDaysAfter(since[i], Today) > FirmMarket.deadline =>
          "close_out_deadline_passed" \in settled[i].breaks
AgeInv == IF step = "close" THEN AgesOf(NextFails) /\ Flagged ELSE AgesOf(carried)

LEMMA NextFailsAre ==
    /\ DOMAIN NextFails = Failing(settled)
    /\ \A i \in Failing(settled) : NextFails[i] = settled[i].residual
  BY DEF NextFails, Failing

LEMMA SettleAges ==
    ASSUME AgeInv, Settle
    PROVE  AgeInv'
<1>1. step = "settle" /\ step' = "close" /\ settled' = Results /\ n' = n
  BY SettleIs
<1>2. since' = [i \in Failing(Results) |->
                 IF i \in DOMAIN since THEN since[i] ELSE Results[i].residual.settles]
  BY SettleIs
<1>3. AgesOf(carried)
  BY <1>1 DEF AgeInv
<1>4. ASSUME NEW i \in Failing(Results)
      PROVE  since'[i] = Results[i].residual.settles /\ since'[i] = SettlementDate(i)
  <2>1. Results[i].residual.settles = SettlementDate(i)
    BY FailIsDated
  <2>2. i \in DOMAIN since => since[i] = SettlementDate(i)
    BY <1>3 DEF AgesOf, SettlementDate
  <2> QED
    BY <1>2, <2>1, <2>2
<1>5. Today' = Today
  BY <1>1 DEF Today
<1>6. DOMAIN since' = Failing(Results)
  BY <1>2
<1>7. Flagged'
  <2>1. ASSUME NEW i \in Failing(Results),
               BusinessDaysAfter(since'[i], Today) > FirmMarket.deadline
        PROVE  "close_out_deadline_passed" \in Results[i].breaks
    BY <1>4, <2>1, FailIsDated
  <2>2. \A i \in DOMAIN since' :
          BusinessDaysAfter(since'[i], Today') > FirmMarket.deadline =>
            "close_out_deadline_passed" \in settled'[i].breaks
    BY <1>1, <1>5, <1>6, <2>1
  <2> QED
    BY <2>2 DEF Flagged, BusinessDaysAfter, BusinessDays, IsBusinessDay, FirmMarket
<1>8. AgesOf(NextFails)'
  <2>1. DOMAIN NextFails' = Failing(Results)
        /\ \A i \in Failing(Results) : NextFails'[i] = Results[i].residual
    BY <1>1 DEF NextFails, Failing
  <2> QED
    BY <1>4, <1>6, <2>1 DEF AgesOf
<1> QED
  BY <1>1, <1>7, <1>8 DEF AgeInv

\* A fail ages from the day it should first have settled, through every partial
\* allocation and every day's netting, and is flagged once the market's deadline
\* is behind it (SecuritiesBreakCode.CLOSE_OUT_DEADLINE_PASSED).
THEOREM OverdueIsAlwaysFlagged == Spec => []OverdueIsFlagged
<1>1. Init => AgeInv
  BY DEF Init, AgeInv, AgesOf
<1>2. AgeInv /\ [Next]_vars => AgeInv'
  <2> SUFFICES ASSUME AgeInv, [Next]_vars PROVE AgeInv'
    OBVIOUS
  <2>1. CASE Settle
    BY <2>1, SettleAges
  <2>2. CASE Close
    BY <2>2 DEF Close, AgeInv, AgesOf
  <2>3. CASE UNCHANGED <<since, carried>> /\ step # "close" /\ step' # "close"
    BY <2>3 DEF AgeInv, AgesOf
  <2>4. CASE UNCHANGED vars
    BY <2>4 DEF vars, AgeInv, AgesOf, NextFails, Flagged, Today
  <2> QED
    BY <2>1, <2>2, <2>3, <2>4 DEF Next, Trade, Borrow, Stop, Report
<1>3. AgeInv => OverdueIsFlagged
  BY DEF AgeInv, Flagged, OverdueIsFlagged
<1> QED
  BY <1>1, <1>2, <1>3, PTL DEF Spec

-----------------------------------------------------------------------------
\* Rounding.

\* A division by any number, as the provers take it.
LEMMA Remains ==
    ASSUME NEW a \in Nat, NEW d \in Nat \ {0}, NEW q \in Nat, q = a \div d, NEW m \in Nat, m = a % d
    PROVE  a = d * q + m
  OBVIOUS

LEMMA Products ==
    ASSUME NEW a \in Nat, NEW k \in Nat, NEW d \in Nat \ {0}, k <= d
    PROVE  a * k \in Nat /\ a * k <= a * d
<1>1. a * (d - k) >= 0
  OBVIOUS
<1>2. a * (d - k) = a * d - a * k
  OBVIOUS
<1> QED
  BY <1>1, <1>2

LEMMA Quotients ==
    ASSUME NEW a \in Nat, NEW q \in Nat, NEW m \in Nat, NEW d \in Nat \ {0}, d * q + m <= d * a
    PROVE  q <= a /\ (q = a => m = 0)
<1>1. ASSUME q > a PROVE FALSE
  <2>1. d * (q - a) > 0
    BY <1>1
  <2>2. d * (q - a) = d * q - d * a
    OBVIOUS
  <2> QED
    BY <2>1, <2>2
<1> QED
  BY <1>1

\* What is kept of x, k of d parts rounded to the nearest whole: no more than x,
\* and not of the other sign.
LEMMA RoundFacts ==
    ASSUME NEW x \in Int, NEW a \in Nat, NEW k \in Nat, NEW d \in Nat \ {0}, k <= d, a = Size(x)
    PROVE  LET y == x * k IN
           /\ Round(y, d) \in Int
           /\ Size(Round(y, d)) <= a
           /\ Sign(x) * Sign(Round(y, d)) # -1
<1> DEFINE y == x * k
           s == a * k
           q == s \div d
           m == s % d
           up == 2 * m > d \/ (2 * m = d /\ q % 2 = 1)
           w == IF up THEN q + 1 ELSE q
<1>1. y \in Int /\ Size(y) = s
  BY DEF Size
<1>2. s \in Nat /\ s <= d * a
  BY Products
<1> HIDE DEF s, y
<1>3. q \in Nat /\ q = s \div d
  BY <1>2
<1>4. m \in 0..(d - 1) /\ m = s % d
  BY <1>2
<1> HIDE DEF q, m
<1>5. s = d * q + m
  BY <1>2, <1>3, <1>4, Remains
<1>6. q <= a /\ (q = a => m = 0)
  BY <1>2, <1>5, <1>3, <1>4, Quotients
<1>7. w \in Nat /\ w <= a
  BY <1>6, <1>3, <1>4
<1>8. Round(y, d) = Sign(y) * w
  BY <1>1, Zenon DEF Round, q, m
<1> HIDE DEF w
<1>9. Sign(y) \in {0, Sign(x)}
  BY DEF y, Sign
<1>10. Sign(y) \in {-1, 0, 1} /\ Sign(x) \in {-1, 0, 1}
  BY DEF Sign
<1>11. Size(Round(y, d)) <= a /\ Round(y, d) \in Int
  BY <1>7, <1>8, <1>10 DEF Size
<1>12. Sign(x) * Sign(Sign(y) * w) # -1
  BY <1>7, <1>9, <1>10 DEF Sign
<1> QED
  BY <1>8, <1>11, <1>12 DEF y

LEMMA RoundType ==
    ASSUME NEW x \in Int, NEW d \in Nat \ {0}
    PROVE  Round(x, d) \in Int
<1> DEFINE s == Size(x)
           q == s \div d
<1>1. s \in Nat
  BY DEF Size
<1> HIDE DEF s
<1>2. q \in Nat
  BY <1>1
<1> HIDE DEF q
<1>3. Round(x, d) \in {Sign(x) * (q + 1), Sign(x) * q}
  BY Zenon DEF Round, q, s
<1> QED
  BY <1>2, <1>3 DEF Sign

-----------------------------------------------------------------------------
\* The calendar.
LEMMA DayReached ==
    ASSUME NEW start \in Int, NEW days, AddBusinessDays(start, days) # None
    PROVE  /\ AddBusinessDays(start, days) \in start..LoadedUntil
           /\ Cardinality(BusinessDays(start + 1, AddBusinessDays(start, days))) = days
<1> DEFINE reached == {d \in start..LoadedUntil : Cardinality(BusinessDays(start + 1, d)) = days}
<1>1. AddBusinessDays(start, days) = IF reached = {} THEN None ELSE Min(reached)
  BY DEF AddBusinessDays
<1>2. LoadedUntil \in Int
  BY CalendarIsLoaded
<1>3. reached \in SUBSET Int /\ \A d \in reached : start <= d
  BY <1>2
<1>4. \A d \in reached : d \in start..LoadedUntil /\ Cardinality(BusinessDays(start + 1, d)) = days
  OBVIOUS
<1> HIDE DEF reached
<1>5. Min(reached) \in reached
  BY <1>1, <1>3, MinFrom
<1> QED
  BY <1>1, <1>4, <1>5

LEMMA AgeType ==
    ASSUME NEW start \in Int, NEW close \in Int
    PROVE  BusinessDaysAfter(start, close) \in Nat
<1>1. IsFiniteSet((start + 1)..close)
  BY FS_Interval
<1>2. BusinessDays(start + 1, close) \in SUBSET ((start + 1)..close)
  BY DEF BusinessDays
<1>3. IsFiniteSet(BusinessDays(start + 1, close))
  BY <1>1, <1>2, FS_Subset
<1> QED
  BY <1>3, FS_CardinalityType DEF BusinessDaysAfter

-----------------------------------------------------------------------------
\* What the variables hold.
AreBatches(b) ==
    /\ b \subseteq Batches /\ IsFiniteSet(b)
    /\ \A t, u \in b : t.issue = u.issue /\ t.side = u.side => t = u
IsOutcome(r) == r.quantity \in Int /\ (r.residual # None => r.residual \in Fails)

FirmTypes ==
    /\ profile \in Profiles
    /\ n \in Nat /\ (step # "trade" => n < RunDays)
    /\ AreBatches(trades)
    /\ \A i \in DOMAIN prices : prices[i] \in Int
    /\ \A t \in trades : t.issue \in DOMAIN prices
    /\ \A i \in DOMAIN carried : carried[i] \in Fails
    /\ step = "close" => \A i \in DOMAIN settled : IsOutcome(settled[i])
    /\ traded \in [Issues -> Int] /\ allocated \in [Issues -> Int]

LEMMA BatchesAreFinite == IsFiniteSet(Batches)
<1> DEFINE Sides == {"BUY", "SELL", "SHORT"}
           P == (Issues \X Sides) \X (1..MaxShares)
           f == [x \in P |-> [issue |-> x[1][1], side |-> x[1][2], quantity |-> x[2]]]
<1>1. IsFiniteSet(P)
  <2>1. IsFiniteSet(Sides)
    <3>1. IsFiniteSet({"BUY"})
      BY FS_Singleton
    <3>2. IsFiniteSet({"BUY"} \cup {"SELL"})
      BY <3>1, FS_AddElement
    <3>3. IsFiniteSet(({"BUY"} \cup {"SELL"}) \cup {"SHORT"})
      BY <3>2, FS_AddElement
    <3>4. Sides = ({"BUY"} \cup {"SELL"}) \cup {"SHORT"}
      OBVIOUS
    <3> QED
      BY <3>3, <3>4, Zenon
  <2>2. IsFiniteSet(1..MaxShares)
    BY FS_Interval, FirmAssumption
  <2>3. IsFiniteSet(Issues \X Sides)
    BY <2>1, FirmAssumption, FS_Product
  <2> QED
    BY <2>2, <2>3, FS_Product
<1>2. f \in Surjection(P, Batches)
  <2>1. f \in [P -> Batches]
    BY DEF Batches
  <2>2. ASSUME NEW t \in Batches PROVE \E x \in P : f[x] = t
    <3>1. <<<<t.issue, t.side>>, t.quantity>> \in P
      BY DEF Batches
    <3>2. f[<<<<t.issue, t.side>>, t.quantity>>] = [issue |-> t.issue, side |-> t.side, quantity |-> t.quantity]
      BY <3>1
    <3>3. t = [issue |-> t.issue, side |-> t.side, quantity |-> t.quantity]
      BY DEF Batches
    <3> QED
      BY <3>1, <3>2, <3>3
  <2> QED
    BY <2>1, <2>2 DEF Surjection
<1> QED
  BY <1>1, <1>2, FS_Surjection

LEMMA DrawsAreBatches == ASSUME NEW b \in Draws PROVE AreBatches(b)
<1>1. b \in SUBSET Batches
  BY DEF Draws, kSubset
<1>2. \A t, u \in b : t.issue = u.issue /\ t.side = u.side => t = u
  BY DEF Draws
<1> QED
  BY <1>1, <1>2, BatchesAreFinite, FS_Subset DEF AreBatches

\* The batches of one issue, and what they come to.
TradesOf(i) == {t \in trades : t.issue = i}
SignedOf(S) == [t \in S |-> Signed(t)]

LEMMA SignedType ==
    ASSUME NEW t \in Batches
    PROVE  Signed(t) \in Int
  BY DEF Signed, Sign2, Batches

LEMMA SignedSum ==
    ASSUME NEW S, IsFiniteSet(S), S \subseteq Batches
    PROVE  MapThenSumSet(Signed, S) = Sum(SignedOf(S), S)
<1> DEFINE g == SignedOf(S)
           G == CHOOSE H : H = [s \in SUBSET S |-> IF s = {} THEN 0
                   ELSE LET x == CHOOSE x \in s : TRUE IN Signed(x) + H[s \ {x}]]
<1>1. \A x \in S : g[x] = Signed(x) /\ g[x] \in Int
  BY SignedType DEF SignedOf
<1> HIDE DEF g
<1>2. PICK F : SumEquation(F, S, g) /\ Sum(g, S) = F[S]
  BY <1>1, SumIsSolution
<1>3. \A s \in SUBSET S : s # {} => g[Pick(s)] = Signed(Pick(s))
  BY <1>1, PickIn
<1>4. F = [s \in SUBSET S |-> IF s = {} THEN 0
              ELSE LET x == CHOOSE x \in s : TRUE IN Signed(x) + F[s \ {x}]]
  BY <1>2, <1>3 DEF SumEquation, Pick
<1>5. G = [s \in SUBSET S |-> IF s = {} THEN 0
              ELSE LET x == CHOOSE x \in s : TRUE IN Signed(x) + G[s \ {x}]]
  BY <1>4, Zenon
<1> HIDE DEF G
<1>6. SumEquation(G, S, g)
  BY <1>3, <1>5 DEF SumEquation, Pick
<1>7. G[S] = F[S]
  BY <1>2, <1>6, EquationsAgree
<1>8. MapThenSumSet(Signed, S) = G[S]
  BY Zenon DEF G, MapThenSumSet, MapThenFoldSet
<1> QED
  BY <1>2, <1>7, <1>8 DEF g

LEMMA SignedSumType ==
    ASSUME NEW b, AreBatches(b), NEW i
    PROVE  MapThenSumSet(Signed, {t \in b : t.issue = i}) \in Int
<1> DEFINE S == {t \in b : t.issue = i}
<1>1. S \in SUBSET b /\ S \subseteq Batches /\ IsFiniteSet(S)
  BY FS_Subset DEF AreBatches
<1> HIDE DEF S
<1>2. \A t \in S : SignedOf(S)[t] \in Int
  BY <1>1, SignedType DEF SignedOf
<1> QED
  BY <1>1, <1>2, SignedSum, SumType DEF S

-----------------------------------------------------------------------------
\* A position is what was carried in and what was traded.
CarriedOf(i) == IF i \in DOMAIN carried THEN carried[i].quantity ELSE 0
NettedOf(i) == MapThenSumSet(Signed, TradesOf(i))
AsTrade(t) == [issue |-> t.issue, quantity |-> Signed(t), id |-> t.side]
AsCarried(i) == [issue |-> i, quantity |-> carried[i].quantity, id |-> "carried"]

LEMMA CnsTradesOf ==
    ASSUME NEW i
    PROVE  {t \in CnsTrades : t.issue = i} =
             (IF i \in DOMAIN carried THEN {AsCarried(i)} ELSE {})
               \cup {AsTrade(t) : t \in TradesOf(i)}
  BY DEF CnsTrades, TradesOf, AsTrade, AsCarried

LEMMA PositionIs ==
    ASSUME NEW i \in DOMAIN Results
    PROVE  /\ PositionOf(i).quantity =
                MapThenSumSet(LAMBDA t : t.quantity, {t \in CnsTrades : t.issue = i})
           /\ PositionOf(i).market = FirmMarket.id
           /\ i \in DOMAIN carried \/ \E t \in trades : t.issue = i
<1>1. Positions = {[issue |-> j, market |-> FirmMarket.id, assigned |-> None,
                    quantity |-> MapThenSumSet(LAMBDA t : t.quantity,
                                               {t \in CnsTrades : t.issue = j})] :
                   j \in {t.issue : t \in CnsTrades}}
  BY Zenon DEF Positions, net_positions
<1>2. PositionOf(i) \in Positions /\ PositionOf(i).issue = i
  BY PositionOfIssue
<1>3. PICK j \in {t.issue : t \in CnsTrades} :
        PositionOf(i) = [issue |-> j, market |-> FirmMarket.id, assigned |-> None,
                         quantity |-> MapThenSumSet(LAMBDA t : t.quantity,
                                                    {t \in CnsTrades : t.issue = j})]
  BY <1>1, <1>2, Zenon
<1> DEFINE q == MapThenSumSet(LAMBDA t : t.quantity, {t \in CnsTrades : t.issue = j})
<1>4. PositionOf(i) = [issue |-> j, market |-> FirmMarket.id, assigned |-> None, quantity |-> q]
  BY <1>3, Zenon DEF q
<1> HIDE DEF q
<1>5. j = i /\ PositionOf(i).quantity = q /\ PositionOf(i).market = FirmMarket.id
  BY <1>2, <1>4
<1>6. i \in DOMAIN carried \/ \E t \in trades : t.issue = i
  BY <1>5 DEF CnsTrades
<1> QED
  BY <1>5, <1>6, Zenon DEF q

LEMMA ResultsAreFor == DOMAIN Results = {t.issue : t \in CnsTrades}
<1> DEFINE q(j) == MapThenSumSet(LAMBDA t : t.quantity, {t \in CnsTrades : t.issue = j})
<1>1. Positions = {[issue |-> j, market |-> FirmMarket.id, assigned |-> None, quantity |-> q(j)] :
                   j \in {t.issue : t \in CnsTrades}}
  BY Zenon DEF Positions, net_positions
<1> HIDE DEF q
<1> DEFINE I == {t.issue : t \in CnsTrades}
           P(j) == [issue |-> j, market |-> FirmMarket.id, assigned |-> None, quantity |-> q(j)]
<1>2. Positions = {P(j) : j \in I} /\ \A j \in I : P(j).issue = j
  BY <1>1
<1> HIDE DEF P, I
<1>3. {p.issue : p \in Positions} = I
  BY <1>2
<1> QED
  BY <1>3 DEF Results, I

LEMMA QuantityIs ==
    ASSUME AreBatches(trades), NEW i, CarriedOf(i) \in Int
    PROVE  MapThenSumSet(LAMBDA t : t.quantity, {t \in CnsTrades : t.issue = i})
             = CarriedOf(i) + NettedOf(i)
<1> DEFINE T == {t \in CnsTrades : t.issue = i}
           C == IF i \in DOMAIN carried THEN {AsCarried(i)} ELSE {}
           O == TradesOf(i)
           f == [t \in O |-> AsTrade(t)]
           M == {f[t] : t \in O}
           g == Quantities(T)
           h == SignedOf(O)
<1>1. O \subseteq Batches /\ IsFiniteSet(O)
  <2>1. O \in SUBSET trades
    BY DEF TradesOf
  <2> QED
    BY <2>1, FS_Subset DEF AreBatches
<1>2. \A t \in O : h[t] = Signed(t) /\ h[t] \in Int
  BY <1>1, SignedType DEF SignedOf
<1>3. NettedOf(i) = Sum(h, O)
  BY <1>1, SignedSum DEF NettedOf
<1>4. \A t \in O : f[t] = AsTrade(t)
  OBVIOUS
<1>5. T = C \cup M
  <2>1. M = {AsTrade(t) : t \in O}
    BY <1>4
  <2> QED
    BY <2>1, CnsTradesOf
<1>6. ASSUME NEW t \in O
      PROVE  f[t] \in T /\ f[t].quantity = Signed(t) /\ f[t] # AsCarried(i)
  <2>1. t.side # "carried"
    BY <1>1 DEF Batches
  <2> QED
    BY <1>5, <2>1 DEF AsTrade, AsCarried
<1>7. \A t, u \in O : f[t] = f[u] => t = u
  <2> SUFFICES ASSUME NEW t \in O, NEW u \in O, AsTrade(t) = AsTrade(u) PROVE t = u
    BY <1>4
  <2>1. t.issue = u.issue /\ t.side = u.side
    BY DEF AsTrade
  <2> QED
    BY <2>1 DEF AreBatches, TradesOf
<1>8. \A x \in C : x = AsCarried(i) /\ x.quantity = CarriedOf(i)
  BY DEF AsCarried, CarriedOf
<1>9. C \cap M = {}
  BY <1>6, <1>8
<1>10. \A x \in T : x.quantity \in Int
  BY <1>2, <1>5, <1>6, <1>8
<1>11. IsFiniteSet(M)
  <2> HIDE DEF f, O
  <2> QED
    BY <1>1, ImageIsFinite
<1>12. IsFiniteSet(C)
  BY FS_EmptySet, FS_Singleton
<1>13. \A x \in T : g[x] = x.quantity
  BY DEF Quantities
<1> HIDE DEF T, C, M, f, g, h, O
<1>14. IsFiniteSet(T)
  BY <1>5, <1>11, <1>12, FS_Union
<1>15. MapThenSumSet(LAMBDA t : t.quantity, T) = Sum(g, T)
  BY <1>10, <1>14, QuantitySum DEF g
<1>16. Sum(g, C \cup M) = Sum(g, C) + Sum(g, M)
  <2>1. \A x \in C \cup M : g[x] \in Int
    BY <1>5, <1>10, <1>13
  <2> QED
    BY <2>1, <1>9, <1>11, <1>12, SumDisjoint
<1>17. Sum(g, M) = Sum(h, O)
  <2>1. \A t \in O : g[f[t]] = h[t]
    BY <1>2, <1>6, <1>13
  <2> QED
    BY <2>1, <1>1, <1>2, <1>7, SumImage DEF M
<1>18. Sum(g, C) = CarriedOf(i)
  <2>0. IsFiniteSet({}) /\ Sum(g, {}) = 0
    BY FS_EmptySet, SumType
  <2>1. CASE i \notin DOMAIN carried
    <3>1. C = {} /\ CarriedOf(i) = 0
      BY <2>1 DEF C, CarriedOf
    <3> QED
      BY <2>0, <3>1
  <2>2. CASE i \in DOMAIN carried
    <3>1. C = {} \cup {AsCarried(i)} /\ AsCarried(i) \in C
      BY <2>2 DEF C
    <3>2. g[AsCarried(i)] = CarriedOf(i)
      BY <1>5, <1>8, <1>13, <3>1
    <3>3. Sum(g, {} \cup {AsCarried(i)}) = g[AsCarried(i)] + Sum(g, {})
      BY <2>0, <3>2, SumInsert
    <3> QED
      BY <2>0, <3>1, <3>2, <3>3
  <2> QED
    BY <2>1, <2>2
<1> QED
  BY <1>3, <1>5, <1>15, <1>16, <1>17, <1>18, Zenon DEF T

-----------------------------------------------------------------------------
\* What settling a position allocates and leaves open is the position.
LEMMA KeptFacts ==
    ASSUME profile \in Profiles, NEW x \in Int
    PROVE  /\ Kept(x) \in Int /\ Size(Kept(x)) <= Size(x)
           /\ Sign(x) * Sign(Kept(x)) # -1
           /\ x = 0 => Kept(x) = 0
<1> DEFINE d == profile.fails[2]
           k == d - profile.fails[1]
           a == Size(x)
<1>1. d \in Nat \ {0} /\ k \in Nat /\ k <= d
  BY ProfilesAssumption
<1>2. Kept(x) = Round(x * k, d)
  BY DEF Kept
<1> HIDE DEF d, k
<1>3. a \in Nat /\ a = Size(x)
  BY DEF Size
<1> HIDE DEF a
<1>4. /\ Round(x * k, d) \in Int /\ Size(Round(x * k, d)) <= a
      /\ Sign(x) * Sign(Round(x * k, d)) # -1
  BY <1>1, <1>3, RoundFacts
<1>5. x = 0 => Kept(x) = 0
  BY <1>2, <1>3, <1>4 DEF Size
<1> QED
  BY <1>2, <1>3, <1>4, <1>5

LEMMA TodayType == ASSUME n \in Nat, n < RunDays PROVE Today \in Int /\ AddBusinessDays(Today, 1) \in Int
<1> DEFINE k == n + 1
<1>1. k \in 1..RunDays /\ StartDate - 1 \in Int /\ LoadedUntil \in Int
  BY FirmAssumption, CalendarIsLoaded
<1>2. Today = AddBusinessDays(StartDate - 1, k)
  BY DEF Today
<1> HIDE DEF k
<1>3. Today # None /\ AddBusinessDays(Today, 1) # None
  BY <1>1, <1>2, CalendarCoversTheRun
<1>4. Today \in Int
  BY <1>1, <1>2, <1>3, DayReached
<1> QED
  BY <1>1, <1>3, <1>4, DayReached

CycleMayRun ==
    /\ FirmTypes /\ step # "trade"
    /\ \A p \in Positions : Unpriced(p) => carried[p.issue].quantity # 0

LEMMA PositionTypes ==
    ASSUME CycleMayRun, NEW i \in DOMAIN Results
    PROVE  /\ PositionOf(i).quantity = CarriedOf(i) + NettedOf(i)
           /\ PositionOf(i).quantity \in Int /\ Cash(PositionOf(i)) \in Int
           /\ SettlementDate(i) \in Int /\ Today \in Int
<1> DEFINE p == PositionOf(i)
<1>1. CarriedOf(i) \in Int /\ (i \in DOMAIN carried => carried[i] \in Fails)
  BY DEF CycleMayRun, FirmTypes, CarriedOf, Fails
<1>2. AreBatches(trades)
  BY DEF CycleMayRun, FirmTypes
<1>3. p.quantity = CarriedOf(i) + NettedOf(i)
  BY <1>1, <1>2, PositionIs, QuantityIs, Zenon
<1>4. NettedOf(i) \in Int
  BY <1>2, SignedSumType DEF NettedOf, TradesOf
<1>5. p \in Positions /\ p.issue = i
  BY PositionOfIssue
<1> HIDE DEF p
<1>6. Cash(p) \in Int
  <2>1. CASE Unpriced(p)
    <3>1. i \in DOMAIN carried
      BY <1>5, <2>1, PositionIs DEF CycleMayRun, FirmTypes, Unpriced
    <3>2. carried[i].quantity \in Int /\ carried[i].cash \in Int /\ carried[i].quantity # 0
      BY <1>1, <1>5, <2>1, <3>1 DEF CycleMayRun, Fails
    <3>3. Size(carried[i].quantity) \in Nat \ {0} /\ Size(carried[i].cash) \in Int
      BY <3>2 DEF Size
    <3>4. p.quantity * Size(carried[i].cash) \in Int
      BY <1>1, <1>3, <1>4, <3>3
    <3>5. Round(p.quantity * Size(carried[i].cash), Size(carried[i].quantity)) \in Int
      BY <3>3, <3>4, RoundType
    <3> QED
      BY <1>5, <2>1, <3>5, Zenon DEF Cash
  <2>2. CASE ~Unpriced(p)
    <3>1. prices[i] \in Int
      BY <1>5, <2>2 DEF Unpriced, CycleMayRun, FirmTypes
    <3> QED
      BY <1>1, <1>3, <1>4, <1>5, <2>2, <3>1 DEF Cash
  <2> QED
    BY <2>1, <2>2
<1>7. n \in Nat /\ n < RunDays
  BY DEF CycleMayRun, FirmTypes
<1>8. Today \in Int /\ AddBusinessDays(Today, 1) \in Int
  BY <1>7, TodayType
<1>9. SettlementDate(i) \in Int
  BY <1>1, <1>8 DEF SettlementDate, Fails
<1> QED
  BY <1>1, <1>3, <1>4, <1>6, <1>8, <1>9 DEF p

LeftOf(r) == IF r.residual = None THEN 0 ELSE r.residual.quantity

LEMMA AllocatedAndOpen ==
    ASSUME CycleMayRun, NEW i \in DOMAIN Results
    PROVE  /\ IsOutcome(Results[i]) /\ LeftOf(Results[i]) \in Int
           /\ Results[i].quantity + LeftOf(Results[i]) = CarriedOf(i) + NettedOf(i)
<1> DEFINE p == PositionOf(i)
           m == FirmMarket
           c == Cash(p)
           report == [quantity |-> Kept(p.quantity), cash |-> Kept(c)]
           residual == Residual(p, c, report, SettlementDate(i), Today)
           open == Open(p, m, c, report, SettlementDate(i), Today, NoAction)
           unexplained == If(~m.published, "partial_with_unexplained_allocation")
           date == UnestablishedDate(p, m)
           r == Results[i]
<1>1. /\ p.quantity \in Int /\ c \in Int /\ SettlementDate(i) \in Int /\ Today \in Int
      /\ p.quantity = CarriedOf(i) + NettedOf(i)
  BY PositionTypes
<1>2. p.issue = i /\ r = Settlement(p) /\ p.market = m.id
  BY PositionOfIssue, PositionIs
<1>3. r = settle_net_position(p, m, c, report, SettlementDate(i), Today, NoAction)
  BY <1>2 DEF Settlement
<1> HIDE DEF p, c, r, m
<1>4. /\ Kept(p.quantity) \in Int /\ Size(Kept(p.quantity)) <= Size(p.quantity)
      /\ Sign(p.quantity) * Sign(Kept(p.quantity)) # -1
      /\ p.quantity = 0 => Kept(p.quantity) = 0
      /\ Kept(c) \in Int
  BY <1>1, KeptFacts DEF CycleMayRun, FirmTypes
<1>5. report.quantity = Kept(p.quantity) /\ report.cash = Kept(c)
  OBVIOUS
<1>6. /\ residual.quantity = p.quantity - report.quantity /\ residual \in Fails
  <2>1. BusinessDaysAfter(SettlementDate(i), Today) \in Nat
    BY <1>1, AgeType
  <2> QED
    BY <1>1, <1>4, <2>1 DEF Residual, Fails
<1>7. Contradiction(p, m, report) = None /\ Stated(report)
  <2> HIDE DEF report
  <2>1. None \notin Int /\ NotFinite \notin Int
    BY NoneIsApart, NotFiniteIsNoNumber
  <2>2. ~(Size(report.quantity) > Size(p.quantity))
    <3>1. Size(report.quantity) \in Int /\ Size(p.quantity) \in Int
      BY <1>1, <1>4, <1>5 DEF Size
    <3> QED
      BY <1>4, <1>5, <3>1
  <2>3. NotFinite \notin {report.quantity, report.cash} /\ report.quantity # None /\ report.cash # None
    BY <1>4, <1>5, <2>1
  <2>4. Sign(p.quantity) * Sign(report.quantity) # -1
    BY <1>4, <1>5
  <2> QED
    BY <1>2, <2>2, <2>3, <2>4, Zenon DEF Contradiction, Stated
<1>8. Outcome(r, p, m, c, report, SettlementDate(i), Today, NoAction)
  BY <1>3, Cases
<1> HIDE DEF residual, open, unexplained, date, report
<1>9. \/ p.quantity = 0 /\ c = 0 /\ r = Flat(report, date)
      \/ /\ report = [quantity |-> p.quantity, cash |-> c]
         /\ r = Result("settled_in_full", report, None, date)
      \/ r = Result("partial_allocation", report, residual, open \cup unexplained)
      \/ report = Nothing /\ r = Failed(p, c, residual, open)
  BY <1>7, <1>8, Zenon DEF Outcome, residual, open, unexplained, date
<1>10. residual # None
  BY <1>6, NoneIsApart
<1>11. residual.quantity \in Int
  BY <1>6 DEF Fails
<1>12. CASE p.quantity = 0 /\ c = 0 /\ r = Flat(report, date)
  <2>1. r.quantity = report.quantity /\ r.residual = None
    BY <1>12 DEF Flat, Result
  <2> QED
    BY <1>1, <1>4, <1>5, <1>12, <2>1 DEF IsOutcome, LeftOf, r
<1>13. CASE /\ report = [quantity |-> p.quantity, cash |-> c]
            /\ r = Result("settled_in_full", report, None, date)
  <2>1. r.quantity = p.quantity /\ r.residual = None
    BY <1>13 DEF Result
  <2> QED
    BY <1>1, <2>1 DEF IsOutcome, LeftOf, r
<1>14. CASE r = Result("partial_allocation", report, residual, open \cup unexplained)
  <2>1. r.quantity = report.quantity /\ r.residual = residual
    BY <1>14 DEF Result
  <2> QED
    BY <1>1, <1>4, <1>5, <1>6, <1>10, <1>11, <2>1 DEF IsOutcome, LeftOf, r
<1>15. CASE report = Nothing /\ r = Failed(p, c, residual, open)
  <2>1. r.quantity = 0 /\ report.quantity = 0 /\ r.residual = residual
    BY <1>15 DEF Failed, Result, Nothing
  <2> QED
    BY <1>1, <1>6, <1>10, <1>11, <2>1 DEF IsOutcome, LeftOf, r
<1> QED
  BY <1>9, <1>12, <1>13, <1>14, <1>15

-----------------------------------------------------------------------------
\* The invariant: the types, and no share lost.
FirmInv == FirmTypes /\ SharesConserved

OpenOf(i) ==
    CASE step = "close" /\ i \in DOMAIN settled ->
           IF settled[i].residual = None THEN 0 ELSE settled[i].residual.quantity
      [] step # "close" /\ i \in DOMAIN carried -> carried[i].quantity
      [] OTHER -> 0
Accounted(i) ==
    traded[i] = allocated[i] + OpenOf(i)
                  + IF step \in {"borrow", "settle", "stopped"} THEN NettedOf(i) ELSE 0

LEMMA SharesAre == SharesConserved <=> \A i \in Issues : Accounted(i)
  BY Zenon DEF SharesConserved, Accounted, OpenOf, Executed, NettedOf, TradesOf

LEMMA OpenIs ==
    ASSUME NEW i
    PROVE  /\ step # "close" => OpenOf(i) = CarriedOf(i)
           /\ step = "close" => OpenOf(i) = IF i \in DOMAIN settled THEN LeftOf(settled[i]) ELSE 0
  BY DEF OpenOf, CarriedOf, LeftOf

LEMMA TradeInv ==
    ASSUME FirmInv, Trade
    PROVE  FirmInv'
<1>1. PICK b \in Draws, extra \in SUBSET Issues :
        \E p \in [{t.issue : t \in b} \cup extra -> Prices] :
          /\ trades' = b /\ prices' = p
          /\ traded' = [i \in Issues |->
               traded[i] + MapThenSumSet(Signed, {t \in b : t.issue = i})]
  BY DEF Trade
<1>2. AreBatches(b) /\ trades' = b
  BY <1>1, DrawsAreBatches
<1>3. /\ n < RunDays /\ step = "trade" /\ step' = "borrow"
      /\ UNCHANGED <<profile, n, carried, allocated>>
  BY DEF Trade
<1>4. /\ \A i \in DOMAIN prices' : prices'[i] \in Int
      /\ \A t \in trades' : t.issue \in DOMAIN prices'
  BY <1>1, FirmAssumption
<1>5. \A i : MapThenSumSet(Signed, {t \in b : t.issue = i}) \in Int
  BY <1>2, SignedSumType
<1>6. traded' \in [Issues -> Int]
  <2> DEFINE D(i) == MapThenSumSet(Signed, {t \in b : t.issue = i})
  <2>1. traded' = [i \in Issues |-> traded[i] + D(i)]
    BY <1>1, Zenon
  <2>2. \A i : D(i) \in Int
    BY <1>5, Zenon
  <2> HIDE DEF D
  <2>3. traded \in [Issues -> Int]
    BY DEF FirmInv, FirmTypes
  <2> QED
    BY <2>1, <2>2, <2>3
<1>7. AreBatches(trades)'
  BY <1>2 DEF AreBatches
<1>8. FirmTypes'
  BY <1>3, <1>4, <1>6, <1>7 DEF FirmInv, FirmTypes
<1>9. ASSUME NEW i \in Issues PROVE Accounted(i)'
  <2>1. Accounted(i) /\ CarriedOf(i) \in Int /\ traded[i] \in Int /\ allocated[i] \in Int
    BY SharesAre DEF FirmInv, FirmTypes, CarriedOf, Fails
  <2>2. traded[i] = allocated[i] + CarriedOf(i)
    BY <1>3, <2>1, OpenIs DEF Accounted
  <2>3. NettedOf(i)' = MapThenSumSet(Signed, {t \in b : t.issue = i})
    BY <1>2, Zenon DEF NettedOf, TradesOf
  <2>4. traded'[i] = traded[i] + MapThenSumSet(Signed, {t \in b : t.issue = i})
    BY <1>1
  <2>5. OpenOf(i)' = CarriedOf(i) /\ allocated'[i] = allocated[i]
    BY <1>3 DEF OpenOf, CarriedOf
  <2>6. traded'[i] = allocated'[i] + OpenOf(i)' + NettedOf(i)'
    BY <1>5, <2>1, <2>2, <2>3, <2>4, <2>5
  <2> QED
    BY <1>3, <2>6 DEF Accounted
<1> QED
  BY <1>8, <1>9, SharesAre DEF FirmInv, SharesConserved, Accounted, OpenOf, Executed, NettedOf, TradesOf

LEMMA SettleInv ==
    ASSUME FirmInv, Settle
    PROVE  FirmInv'
<1>1. /\ step = "settle" /\ step' = "close"
      /\ \A p \in Positions : Unpriced(p) => carried[p.issue].quantity # 0
      /\ settled' = Results
      /\ allocated' = [i \in Issues |->
           allocated[i] + IF i \in DOMAIN Results THEN Results[i].quantity ELSE 0]
      /\ UNCHANGED <<profile, n, trades, prices, carried, traded>>
  BY SettleIs
<1>2. CycleMayRun
  BY <1>1 DEF CycleMayRun, FirmInv
<1>3. \A i \in DOMAIN Results :
        /\ IsOutcome(Results[i]) /\ LeftOf(Results[i]) \in Int /\ Results[i].quantity \in Int
        /\ Results[i].quantity + LeftOf(Results[i]) = CarriedOf(i) + NettedOf(i)
  BY <1>2, AllocatedAndOpen DEF IsOutcome
<1>4. allocated' \in [Issues -> Int]
  BY <1>1, <1>3 DEF FirmInv, FirmTypes
<1>5. AreBatches(trades)'
  BY <1>1 DEF AreBatches, FirmInv, FirmTypes
<1>6. FirmTypes'
  BY <1>1, <1>3, <1>4, <1>5 DEF FirmInv, FirmTypes, IsOutcome
<1>7. ASSUME NEW i \in Issues
      PROVE  traded'[i] = allocated'[i] + OpenOf(i)' + 0
  <2>1. Accounted(i) /\ CarriedOf(i) \in Int /\ traded[i] \in Int /\ allocated[i] \in Int
    BY SharesAre DEF FirmInv, FirmTypes, CarriedOf, Fails
  <2>2. NettedOf(i) \in Int
    BY SignedSumType DEF FirmInv, FirmTypes, NettedOf, TradesOf
  <2>3. traded[i] = allocated[i] + CarriedOf(i) + NettedOf(i)
    BY <1>1, <2>1, OpenIs DEF Accounted
  <2>4. OpenOf(i)' = IF i \in DOMAIN Results THEN LeftOf(Results[i]) ELSE 0
    BY <1>1 DEF OpenOf, LeftOf
  <2>5. CASE i \in DOMAIN Results
    BY <1>1, <1>3, <2>1, <2>2, <2>3, <2>4, <2>5
  <2>6. CASE i \notin DOMAIN Results
    <3>1. i \notin {t.issue : t \in CnsTrades}
      BY <2>6, ResultsAreFor
    <3>2. i \notin DOMAIN carried /\ TradesOf(i) = {}
      <4>1. {t \in CnsTrades : t.issue = i} = {}
        BY <3>1
      <4>2. /\ (IF i \in DOMAIN carried THEN {AsCarried(i)} ELSE {}) = {}
            /\ {AsTrade(t) : t \in TradesOf(i)} = {}
        BY <4>1, CnsTradesOf
      <4>3. i \notin DOMAIN carried
        BY <4>2
      <4>4. \A t \in TradesOf(i) : AsTrade(t) \in {AsTrade(u) : u \in TradesOf(i)}
        OBVIOUS
      <4> QED
        BY <4>2, <4>3, <4>4
    <3>3. CarriedOf(i) = 0
      BY <3>2 DEF CarriedOf
    <3>4. NettedOf(i) = 0
      <4>1. IsFiniteSet({}) /\ {} \subseteq Batches /\ \A g : Sum(g, {}) = 0
        BY FS_EmptySet, SumType
      <4>2. MapThenSumSet(Signed, {}) = 0
        BY <4>1, SignedSum
      <4> QED
        BY <3>2, <4>2 DEF NettedOf
    <3> QED
      BY <1>1, <2>1, <2>3, <2>4, <2>6, <3>3, <3>4
  <2> QED
    BY <2>5, <2>6
<1>8. \A i \in Issues : Accounted(i)'
  BY <1>1, <1>7 DEF Accounted
<1> QED
  BY <1>6, <1>8, SharesAre DEF FirmInv, SharesConserved, Accounted, OpenOf, Executed, NettedOf, TradesOf

LEMMA CloseInv ==
    ASSUME FirmInv, Close
    PROVE  FirmInv'
<1>1. /\ step = "close" /\ step' = "trade" /\ carried' = NextFails /\ n' = n + 1
      /\ trades' = {} /\ prices' = <<>>
      /\ UNCHANGED <<profile, traded, allocated>>
  BY DEF Close
<1>2. \A i \in DOMAIN settled : IsOutcome(settled[i])
  BY <1>1 DEF FirmInv, FirmTypes
<1>3. \A i \in DOMAIN carried' : carried'[i] \in Fails
  BY <1>1, <1>2, NextFailsAre DEF Failing, IsOutcome
<1>4. AreBatches({})
  BY FS_EmptySet DEF AreBatches
<1>5. FirmTypes'
  BY <1>1, <1>3, <1>4 DEF FirmInv, FirmTypes, AreBatches
<1>6. ASSUME NEW i \in Issues PROVE traded'[i] = allocated'[i] + OpenOf(i)' + 0
  <2>1. Accounted(i)
    BY SharesAre DEF FirmInv
  <2>2. traded[i] = allocated[i] + OpenOf(i) + 0
    BY <1>1, <2>1 DEF Accounted
  <2>3. OpenOf(i)' = IF i \in DOMAIN NextFails THEN NextFails[i].quantity ELSE 0
    BY <1>1 DEF OpenOf
  <2>4. OpenOf(i) = IF i \in DOMAIN settled THEN LeftOf(settled[i]) ELSE 0
    BY <1>1, OpenIs
  <2>5. OpenOf(i)' = OpenOf(i)
    BY <2>3, <2>4, NextFailsAre DEF Failing, LeftOf
  <2> QED
    BY <1>1, <2>2, <2>5
<1>7. \A i \in Issues : Accounted(i)'
  BY <1>1, <1>6 DEF Accounted
<1> QED
  BY <1>5, <1>7, SharesAre DEF FirmInv, SharesConserved, Accounted, OpenOf, Executed, NettedOf, TradesOf

\* A step that neither trades, settles nor closes: the day's stage is all it moves.
LEMMA StageInv ==
    ASSUME FirmInv, UNCHANGED <<profile, n, trades, prices, carried, settled, traded, allocated>>,
           \/ step' = step
           \/ step \in {"borrow", "settle"} /\ step' \in {"settle", "stopped"}
    PROVE  FirmInv'
<1>1. AreBatches(trades)'
  BY DEF AreBatches, FirmInv, FirmTypes
<1>2. FirmTypes'
  BY <1>1 DEF FirmInv, FirmTypes
<1>3. ASSUME NEW i \in Issues PROVE Accounted(i)'
  <2>1. Accounted(i)
    BY SharesAre DEF FirmInv
  <2>2. NettedOf(i)' = NettedOf(i)
    BY Zenon DEF NettedOf, TradesOf
  <2>3. OpenOf(i)' = OpenOf(i)
    BY DEF OpenOf
  <2> QED
    BY <2>1, <2>2, <2>3 DEF Accounted
<1> QED
  BY <1>2, <1>3, SharesAre DEF FirmInv, SharesConserved, Accounted, OpenOf, Executed, NettedOf, TradesOf

LEMMA FirmInvInit == Init => FirmInv
<1> SUFFICES ASSUME Init PROVE FirmInv
  OBVIOUS
<1>1. /\ profile \in Profiles /\ n = 0 /\ step = "trade" /\ trades = {} /\ prices = <<>>
      /\ carried = <<>> /\ traded = [i \in Issues |-> 0] /\ allocated = [i \in Issues |-> 0]
  BY DEF Init
<1>2. AreBatches({})
  BY FS_EmptySet DEF AreBatches
<1>3. FirmTypes
  BY <1>1, <1>2 DEF FirmTypes
<1>4. \A i \in Issues : Accounted(i)
  BY <1>1 DEF Accounted, OpenOf
<1> QED
  BY <1>3, <1>4, SharesAre DEF FirmInv

LEMMA FirmInvStep == FirmInv /\ [Next]_vars => FirmInv'
<1> SUFFICES ASSUME FirmInv, [Next]_vars PROVE FirmInv'
  OBVIOUS
<1>1. CASE UNCHANGED vars
  BY <1>1, StageInv DEF vars
<1>2. CASE Trade
  BY <1>2, TradeInv
<1>3. CASE Borrow
  BY <1>3, StageInv DEF Borrow
<1>4. CASE Settle
  BY <1>4, SettleInv
<1>5. CASE Stop
  BY <1>5, StageInv DEF Stop
<1>6. CASE Close
  BY <1>6, CloseInv
<1>7. CASE Report
  BY <1>7, StageInv DEF Report
<1> QED
  BY <1>1, <1>2, <1>3, <1>4, <1>5, <1>6, <1>7 DEF Next

\* No share is lost or counted twice between two nettings: what was traded since
\* the run began is what was allocated and what is open (net_positions,
\* settle_net_position, the carry of run_firm).
THEOREM SharesAlwaysConserved == Spec => []SharesConserved
<1>1. FirmInv => SharesConserved
  BY DEF FirmInv
<1> QED
  BY <1>1, FirmInvInit, FirmInvStep, PTL DEF Spec


-----------------------------------------------------------------------------
\* What an entry moves: of each record, on some accounts.
Kinds == {"cns", "opening", "borrow", "loan", "recall"}
IsEntry(e) == e.event[1] \in Kinds /\ e.quantity \in Int /\ e.money \in Int
LinesOf(e, record, accounts) == {l \in Lines(e) : l.record = record /\ l.account \in accounts}

LEMMA NoLine == MapThenSumSet(LAMBDA l : l.amount, {}) = 0
<1>1. IsFiniteSet({}) /\ Sum(Amounts({}), {}) = 0
  BY FS_EmptySet, SumType
<1> QED
  BY <1>1, AmountSum

LEMMA OneLine ==
    ASSUME NEW x, x.amount \in Int
    PROVE  MapThenSumSet(LAMBDA l : l.amount, {x}) = x.amount
<1> DEFINE S == {x}
<1>1. IsFiniteSet(S) /\ \A l \in S : l.amount \in Int
  BY FS_Singleton
<1>2. Amounts(S)[x] = x.amount
  BY DEF Amounts
<1>3. Sum(Amounts(S), {x}) = x.amount
  BY <1>2, SumOne
<1> HIDE DEF S
<1>4. MapThenSumSet(LAMBDA l : l.amount, S) = Sum(Amounts(S), S)
  BY <1>1, AmountSum
<1> QED
  BY <1>3, <1>4 DEF S

LEMMA TwoLines ==
    ASSUME NEW x, NEW y, x # y, x.amount \in Int, y.amount \in Int
    PROVE  MapThenSumSet(LAMBDA l : l.amount, {x, y}) = x.amount + y.amount
<1> DEFINE S == {x, y}
<1>1. IsFiniteSet(S) /\ \A l \in S : l.amount \in Int
  <2>1. IsFiniteSet({x}) /\ IsFiniteSet({x} \cup {y}) /\ S = {x} \cup {y}
    BY FS_Singleton, FS_AddElement
  <2> QED
    BY <2>1
<1>2. Amounts(S)[x] = x.amount /\ Amounts(S)[y] = y.amount
  BY DEF Amounts
<1> HIDE DEF S
<1>3. Sum(Amounts(S), {x, y}) = x.amount + y.amount
  <2> DEFINE g == Amounts(S)
  <2>1. g[x] \in Int /\ g[y] \in Int /\ g[x] = x.amount /\ g[y] = y.amount
    BY <1>2
  <2> HIDE DEF g
  <2>2. Sum(g, {x, y}) = g[x] + g[y]
    BY <2>1, SumTwo
  <2> QED
    BY <2>1, <2>2 DEF g
<1>4. MapThenSumSet(LAMBDA l : l.amount, S) = Sum(Amounts(S), S)
  BY <1>1, AmountSum
<1> QED
  BY <1>3, <1>4 DEF S

LEMMA MovedIsOf ==
    ASSUME NEW e, NEW record, NEW accounts
    PROVE  Moved(e, record, accounts)
             = MapThenSumSet(LAMBDA l : l.amount, LinesOf(e, record, accounts))
  BY Zenon DEF Moved, LinesOf

\* No line of e is of that record and those accounts, or one is, or two are.
LEMMA MovedNone ==
    ASSUME NEW e, NEW record, NEW accounts, LinesOf(e, record, accounts) = {}
    PROVE  Moved(e, record, accounts) = 0
  BY MovedIsOf, NoLine, Zenon

LEMMA MovedOne ==
    ASSUME NEW e, NEW record, NEW accounts, NEW x, LinesOf(e, record, accounts) = {x}, x.amount \in Int
    PROVE  Moved(e, record, accounts) = x.amount
  BY MovedIsOf, OneLine, Zenon

LEMMA MovedTwo ==
    ASSUME NEW e, NEW record, NEW accounts, NEW x, NEW y, x # y,
           LinesOf(e, record, accounts) = {x, y}, x.amount \in Int, y.amount \in Int
    PROVE  Moved(e, record, accounts) = x.amount + y.amount
  BY MovedIsOf, TwoLines, Zenon

\* Shares change owner as a whole: what a batch, an opening or a borrow moves.
MovedTo(e, a) ==
    CASE e.event[1] = "cns" /\ a = "customers" -> e.quantity
      [] e.event[1] = "opening" /\ a = "firm" -> e.quantity
      [] e.event[1] = "borrow" /\ a = "borrowed" -> e.quantity
      [] e.event[1] = "borrow" /\ a = "firm" -> -e.quantity
      [] OTHER -> 0

LEMMA LinesAre ==
    ASSUME NEW e
    PROVE  /\ e.event[1] = "cns" => Lines(e) =
                {Line("customers", "ownership", e.quantity), Line("customers", "money", e.money),
                 Line("DTC", "location", -e.quantity), Line("clearing", "money", -e.money)}
           /\ e.event[1] = "opening" => Lines(e) =
                {Line("firm", "ownership", e.quantity), Line("DTC", "location", -e.quantity)}
           /\ e.event[1] = "borrow" => Lines(e) =
                {Line("borrowed", "ownership", e.quantity), Line("firm", "ownership", -e.quantity)}
           /\ e.event[1] \in {"loan", "recall"} => Lines(e) =
                {Line("DTC", "location", e.quantity), Line("loaned", "location", -e.quantity)}
  BY DEF Lines

LEMMA LineIs ==
    ASSUME NEW a, NEW r, NEW q
    PROVE  Line(a, r, q).account = a /\ Line(a, r, q).record = r /\ Line(a, r, q).amount = q
  BY DEF Line

LEMMA OwnershipMoved ==
    ASSUME NEW e, IsEntry(e), NEW a \in Owners
    PROVE  Moved(e, "ownership", {a}) = MovedTo(e, a) /\ MovedTo(e, a) \in Int
<1> DEFINE L == LinesOf(e, "ownership", {a})
           q == e.quantity
<1>1. q \in Int /\ -q \in Int /\ e.event[1] \in Kinds
  BY DEF IsEntry
<1>2. CASE e.event[1] = "cns"
  <2>1. CASE a = "customers"
    <3>1. L = {Line("customers", "ownership", q)}
      BY <1>2, <2>1, LinesAre, LineIs DEF LinesOf
    <3> QED
      BY <1>1, <1>2, <2>1, <3>1, MovedOne, LineIs DEF MovedTo
  <2>2. CASE a # "customers"
    <3>1. L = {}
      BY <1>2, <2>2, LinesAre, LineIs DEF LinesOf, Owners
    <3> QED
      BY <1>2, <2>2, <3>1, MovedNone DEF MovedTo
  <2> QED
    BY <2>1, <2>2
<1>3. CASE e.event[1] = "opening"
  <2>1. CASE a = "firm"
    <3>1. L = {Line("firm", "ownership", q)}
      BY <1>3, <2>1, LinesAre, LineIs DEF LinesOf
    <3> QED
      BY <1>1, <1>3, <2>1, <3>1, MovedOne, LineIs DEF MovedTo
  <2>2. CASE a # "firm"
    <3>1. L = {}
      BY <1>3, <2>2, LinesAre, LineIs DEF LinesOf, Owners
    <3> QED
      BY <1>3, <2>2, <3>1, MovedNone DEF MovedTo
  <2> QED
    BY <2>1, <2>2
<1>4. CASE e.event[1] = "borrow"
  <2>1. CASE a = "borrowed"
    <3>1. L = {Line("borrowed", "ownership", q)}
      BY <1>4, <2>1, LinesAre, LineIs DEF LinesOf
    <3> QED
      BY <1>1, <1>4, <2>1, <3>1, MovedOne, LineIs DEF MovedTo
  <2>2. CASE a = "firm"
    <3>1. L = {Line("firm", "ownership", -q)}
      BY <1>4, <2>2, LinesAre, LineIs DEF LinesOf
    <3> QED
      BY <1>1, <1>4, <2>2, <3>1, MovedOne, LineIs DEF MovedTo
  <2>3. CASE a = "customers"
    <3>1. L = {}
      BY <1>4, <2>3, LinesAre, LineIs DEF LinesOf
    <3> QED
      BY <1>4, <2>3, <3>1, MovedNone DEF MovedTo
  <2> QED
    BY <2>1, <2>2, <2>3 DEF Owners
<1>5. CASE e.event[1] \in {"loan", "recall"}
  <2>1. L = {}
    BY <1>5, LinesAre, LineIs DEF LinesOf
  <2> QED
    BY <1>5, <2>1, MovedNone DEF MovedTo
<1> QED
  BY <1>1, <1>2, <1>3, <1>4, <1>5 DEF Kinds

LEMMA MoneyMoved ==
    ASSUME NEW e, IsEntry(e)
    PROVE  Moved(e, "money", {"customers"}) = IF e.event[1] = "cns" THEN e.money ELSE 0
<1> DEFINE L == LinesOf(e, "money", {"customers"})
<1>1. e.money \in Int /\ e.event[1] \in Kinds
  BY DEF IsEntry
<1>2. CASE e.event[1] = "cns"
  <2>1. L = {Line("customers", "money", e.money)}
    BY <1>2, LinesAre, LineIs DEF LinesOf
  <2> QED
    BY <1>1, <1>2, <2>1, MovedOne, LineIs
<1>3. CASE e.event[1] # "cns"
  <2>1. L = {}
    BY <1>1, <1>3, LinesAre, LineIs DEF LinesOf, Kinds
  <2> QED
    BY <1>3, <2>1, MovedNone
<1> QED
  BY <1>2, <1>3

\* What is owned is somewhere: an entry moves as much of one as of the other.
LEMMA OwnedIsLocated ==
    ASSUME NEW e, IsEntry(e)
    PROVE  /\ Moved(e, "ownership", Owners) \in Int /\ Moved(e, "location", Locations) \in Int
           /\ Moved(e, "ownership", Owners) + Moved(e, "location", Locations) = 0
<1> DEFINE O == LinesOf(e, "ownership", Owners)
           L == LinesOf(e, "location", Locations)
           q == e.quantity
<1>1. q \in Int /\ -q \in Int /\ e.event[1] \in Kinds
  BY DEF IsEntry
<1>2. CASE e.event[1] = "cns"
  <2>1. O = {Line("customers", "ownership", q)} /\ L = {Line("DTC", "location", -q)}
    BY <1>2, LinesAre, LineIs DEF LinesOf, Owners, Locations
  <2>2. Moved(e, "ownership", Owners) = q /\ Moved(e, "location", Locations) = -q
    BY <1>1, <2>1, MovedOne, LineIs
  <2> QED
    BY <1>1, <2>2
<1>3. CASE e.event[1] = "opening"
  <2>1. O = {Line("firm", "ownership", q)} /\ L = {Line("DTC", "location", -q)}
    BY <1>3, LinesAre, LineIs DEF LinesOf, Owners, Locations
  <2>2. Moved(e, "ownership", Owners) = q /\ Moved(e, "location", Locations) = -q
    BY <1>1, <2>1, MovedOne, LineIs
  <2> QED
    BY <1>1, <2>2
<1>4. CASE e.event[1] = "borrow"
  <2>1. O = {Line("borrowed", "ownership", q), Line("firm", "ownership", -q)} /\ L = {}
    BY <1>4, LinesAre, LineIs DEF LinesOf, Owners, Locations
  <2>2. Line("borrowed", "ownership", q) # Line("firm", "ownership", -q)
    BY LineIs
  <2>3. Moved(e, "ownership", Owners) = q + (-q) /\ Moved(e, "location", Locations) = 0
    BY <1>1, <2>1, <2>2, MovedTwo, MovedNone, LineIs
  <2> QED
    BY <1>1, <2>3
<1>5. CASE e.event[1] \in {"loan", "recall"}
  <2>1. O = {} /\ L = {Line("DTC", "location", q), Line("loaned", "location", -q)}
    BY <1>5, LinesAre, LineIs DEF LinesOf, Owners, Locations
  <2>2. Line("DTC", "location", q) # Line("loaned", "location", -q)
    BY LineIs
  <2>3. Moved(e, "ownership", Owners) = 0 /\ Moved(e, "location", Locations) = q + (-q)
    BY <1>1, <2>1, <2>2, MovedTwo, MovedNone, LineIs
  <2> QED
    BY <1>1, <2>3
<1> QED
  BY <1>1, <1>2, <1>3, <1>4, <1>5 DEF Kinds

LEMMA LoanMoved ==
    ASSUME NEW e, IsEntry(e)
    PROVE  Moved(e, "location", {"loaned"}) \in Int
<1> DEFINE L == LinesOf(e, "location", {"loaned"})
<1>1. -e.quantity \in Int /\ e.event[1] \in Kinds
  BY DEF IsEntry
<1>2. CASE e.event[1] \in {"loan", "recall"}
  <2>1. L = {Line("loaned", "location", -e.quantity)}
    BY <1>2, LinesAre, LineIs DEF LinesOf
  <2> QED
    BY <1>1, <2>1, MovedOne, LineIs
<1>3. CASE e.event[1] \notin {"loan", "recall"}
  <2>1. L = {}
    BY <1>1, <1>3, LinesAre, LineIs DEF LinesOf, Kinds
  <2> QED
    BY <2>1, MovedNone
<1> QED
  BY <1>2, <1>3

-----------------------------------------------------------------------------
\* Amounts, as sums over entries.
MovedIn(S, record, accounts) == [e \in S |-> Moved(e, record, accounts)]
Whole(S, record, accounts) == \A e \in S : Moved(e, record, accounts) \in Int
OfIssue(S, i) == {e \in S : e.event[3] = i}

LEMMA MovedSum ==
    ASSUME NEW S, IsFiniteSet(S), NEW record, NEW accounts, Whole(S, record, accounts)
    PROVE  MapThenSumSet(LAMBDA e : Moved(e, record, accounts), S)
             = Sum(MovedIn(S, record, accounts), S)
<1> DEFINE g == MovedIn(S, record, accounts)
           v(x) == Moved(x, record, accounts)
           G == CHOOSE H : H = [s \in SUBSET S |-> IF s = {} THEN 0
                   ELSE LET x == CHOOSE x \in s : TRUE IN v(x) + H[s \ {x}]]
<1>1. \A x \in S : g[x] = v(x) /\ g[x] \in Int
  BY DEF MovedIn, Whole
<1> HIDE DEF g
<1>2. PICK F : SumEquation(F, S, g) /\ Sum(g, S) = F[S]
  BY <1>1, SumIsSolution
<1>8. MapThenSumSet(LAMBDA e : Moved(e, record, accounts), S) = G[S]
  BY Zenon DEF G, MapThenSumSet, MapThenFoldSet
<1> HIDE DEF v
<1>3. \A s \in SUBSET S : s # {} => g[Pick(s)] = v(Pick(s))
  BY <1>1, PickIn
<1>4. F = [s \in SUBSET S |-> IF s = {} THEN 0
              ELSE LET x == CHOOSE x \in s : TRUE IN v(x) + F[s \ {x}]]
  BY <1>2, <1>3 DEF SumEquation, Pick
<1>5. G = [s \in SUBSET S |-> IF s = {} THEN 0
              ELSE LET x == CHOOSE x \in s : TRUE IN v(x) + G[s \ {x}]]
  BY <1>4, Zenon
<1> HIDE DEF G
<1>6. SumEquation(G, S, g)
  BY <1>3, <1>5 DEF SumEquation, Pick
<1>7. G[S] = F[S]
  BY <1>2, <1>6, EquationsAgree
<1> QED
  BY <1>2, <1>7, <1>8 DEF g

LEMMA AmountIs ==
    ASSUME NEW S, IsFiniteSet(S), NEW i, NEW record, NEW accounts, Whole(S, record, accounts)
    PROVE  /\ Amount(S, i, record, accounts)
                = Sum(MovedIn(S, record, accounts), OfIssue(S, i))
           /\ Amount(S, i, record, accounts) \in Int
<1> DEFINE T == OfIssue(S, i)
           g == MovedIn(S, record, accounts)
           h == MovedIn(T, record, accounts)
<1>1. T \in SUBSET S /\ IsFiniteSet(T)
  BY FS_Subset DEF OfIssue
<1>2. Whole(T, record, accounts)
  BY <1>1 DEF Whole
<1>3. Amount(S, i, record, accounts) = MapThenSumSet(LAMBDA e : Moved(e, record, accounts), T)
  BY Zenon DEF Amount, OfIssue
<1> HIDE DEF T
<1>4. Amount(S, i, record, accounts) = Sum(h, T)
  BY <1>1, <1>2, <1>3, MovedSum
<1>5. \A e \in T : h[e] \in Int /\ h[e] = g[e]
  BY <1>1, <1>2 DEF MovedIn, Whole
<1> HIDE DEF g, h
<1>6. Sum(h, T) = Sum(g, T) /\ Sum(h, T) \in Int
  BY <1>1, <1>5, SumCongruence, SumType
<1> QED
  BY <1>4, <1>6 DEF T, g

\* An amount of what some entries and some others move.
LEMMA AmountOfBoth ==
    ASSUME NEW S, IsFiniteSet(S), NEW T \in SUBSET S, NEW i, NEW record, NEW accounts,
           Whole(S, record, accounts)
    PROVE  Amount(S, i, record, accounts)
             = Amount(S \ T, i, record, accounts) + Amount(T, i, record, accounts)
<1> DEFINE R == S \ T
           g == MovedIn(S, record, accounts)
           gR == MovedIn(R, record, accounts)
           gT == MovedIn(T, record, accounts)
           iR == OfIssue(R, i)
           iT == OfIssue(T, i)
<1>1. IsFiniteSet(R) /\ IsFiniteSet(T) /\ Whole(R, record, accounts) /\ Whole(T, record, accounts)
  BY FS_Subset DEF Whole
<1>2. /\ iR \in SUBSET R /\ iT \in SUBSET T /\ iR \cap iT = {} /\ OfIssue(S, i) = iR \cup iT
      /\ IsFiniteSet(iR) /\ IsFiniteSet(iT)
  <2>1. iR \in SUBSET R /\ iT \in SUBSET T /\ iR \cap iT = {} /\ OfIssue(S, i) = iR \cup iT
    BY DEF OfIssue
  <2> QED
    BY <1>1, <2>1, FS_Subset
<1>3. /\ \A e \in R : g[e] = gR[e] /\ g[e] \in Int
      /\ \A e \in T : g[e] = gT[e] /\ g[e] \in Int
  BY DEF MovedIn, Whole
<1>4. /\ Amount(S, i, record, accounts) = Sum(g, OfIssue(S, i))
      /\ Amount(R, i, record, accounts) = Sum(gR, iR)
      /\ Amount(T, i, record, accounts) = Sum(gT, iT)
  BY <1>1, AmountIs
<1> HIDE DEF R, g, gR, gT, iR, iT
<1>5. Sum(g, iR \cup iT) = Sum(g, iR) + Sum(g, iT)
  <2>1. \A e \in iR \cup iT : g[e] \in Int
    BY <1>2, <1>3
  <2> QED
    BY <1>2, <2>1, SumDisjoint
<1>6. Sum(g, iR) = Sum(gR, iR) /\ Sum(g, iT) = Sum(gT, iT)
  <2>1. /\ \A e \in iR : g[e] \in Int /\ g[e] = gR[e]
        /\ \A e \in iT : g[e] \in Int /\ g[e] = gT[e]
    BY <1>2, <1>3
  <2> QED
    BY <1>2, <2>1, SumCongruence
<1>7. Sum(g, OfIssue(S, i)) = Sum(g, iR \cup iT)
  BY <1>2, Zenon
<1> QED
  BY <1>4, <1>5, <1>6, <1>7 DEF R

\* Only the entries that move something count.
LEMMA AmountOfMovers ==
    ASSUME NEW S, IsFiniteSet(S), NEW i, NEW record, NEW accounts, Whole(S, record, accounts),
           NEW T \in SUBSET OfIssue(S, i),
           \A e \in OfIssue(S, i) \ T : Moved(e, record, accounts) = 0
    PROVE  Amount(S, i, record, accounts) = Sum(MovedIn(S, record, accounts), T)
<1> DEFINE U == OfIssue(S, i)
           g == MovedIn(S, record, accounts)
<1>1. U \in SUBSET S /\ IsFiniteSet(U)
  BY FS_Subset DEF OfIssue
<1>2. \A e \in U : g[e] = Moved(e, record, accounts) /\ g[e] \in Int
  BY <1>1 DEF MovedIn, Whole
<1>3. T \in SUBSET U /\ \A e \in U \ T : Moved(e, record, accounts) = 0
  OBVIOUS
<1>4. Amount(S, i, record, accounts) = Sum(g, U)
  BY AmountIs
<1> HIDE DEF U, g
<1>5. Sum(g, U) = Sum(g, T)
  BY <1>1, <1>2, <1>3, SumRelevant
<1> QED
  BY <1>4, <1>5 DEF g

-----------------------------------------------------------------------------
\* What the books hold, and of which day.
DayOf(k) == AddBusinessDays(StartDate - 1, k + 1)
BookedAs(kind) == {e \in books : e.event[1] = kind /\ e.event[2] = Today}
Dated ==
    \A e \in books : e.event[1] # "opening" =>
        \E k \in 0..n : e.event[2] = DayOf(k) /\ (step = "trade" => k < n)

BooksInv ==
    /\ IsFiniteSet(books) /\ \A e \in books : IsEntry(e)
    /\ Dated
    /\ DOMAIN carried \subseteq Issues
    /\ step = "close" => DOMAIN settled \subseteq Issues /\ {p.issue : p \in Positions} = DOMAIN settled
    /\ step # "trade" => BookedAs("cns") = {BatchEntry(t, prices) : t \in trades}
    /\ step = "borrow" => BookedAs("borrow") = {}
    /\ step \in {"settle", "close", "stopped"} => BookedAs("borrow") = Borrows

\* No two days of the run are one.
LEMMA DaysDiffer ==
    ASSUME NEW j \in Nat, NEW k \in Nat, j < RunDays, k < RunDays, DayOf(j) = DayOf(k)
    PROVE  j = k
<1>1. ASSUME NEW m \in Nat, m < RunDays
      PROVE  Cardinality(BusinessDays(StartDate - 1 + 1, DayOf(m))) = m + 1
  <2> DEFINE d == m + 1
  <2>1. d \in 1..RunDays /\ StartDate - 1 \in Int
    BY <1>1, FirmAssumption
  <2>2. DayOf(m) = AddBusinessDays(StartDate - 1, d)
    BY DEF DayOf
  <2>3. AddBusinessDays(StartDate - 1, d) # None
    BY <2>1, CalendarCoversTheRun
  <2> HIDE DEF d
  <2>4. Cardinality(BusinessDays(StartDate - 1 + 1, DayOf(m))) = d
    BY <2>1, <2>2, <2>3, DayReached
  <2> QED
    BY <2>4 DEF d
<1>2. j + 1 = k + 1
  BY <1>1
<1> QED
  BY <1>2

LEMMA TodayIs == Today = DayOf(n)
  BY DEF Today, DayOf

\* What is posted: every entry of an event that is not in the journal.
LEMMA PostAllIs ==
    ASSUME NEW entries, NEW journal
    PROVE  PostAll(entries, journal)
             = journal \cup {e \in entries : \A f \in journal : f.event # e.event}
<1>1. ASSUME NEW e PROVE Post(e, journal) # journal <=> \A f \in journal : f.event # e.event
  <2>1. CASE \E f \in journal : f.event = e.event
    BY <2>1 DEF Post
  <2>2. CASE ~\E f \in journal : f.event = e.event
    <3>1. Post(e, journal) = journal \cup {e} /\ e \notin journal
      BY <2>2 DEF Post
    <3>2. journal \cup {e} # journal
      BY <3>1
    <3> QED
      BY <2>2, <3>1, <3>2
  <2> QED
    BY <2>1, <2>2
<1>2. {e \in entries : Post(e, journal) # journal}
        = {e \in entries : \A f \in journal : f.event # e.event}
  BY <1>1
<1> QED
  BY <1>2, Zenon DEF PostAll

LEMMA PostedAgain == \A journal : PostAll(journal, journal) = journal
<1> TAKE journal
<1>1. {e \in journal : \A f \in journal : f.event # e.event} = {}
  OBVIOUS
<1>2. PostAll(journal, journal)
        = journal \cup {e \in journal : \A f \in journal : f.event # e.event}
  BY PostAllIs
<1> QED
  BY <1>1, <1>2

LEMMA EntryIs ==
    ASSUME NEW kind \in Kinds, NEW day, NEW i, NEW side, NEW q \in Int, NEW m \in Int
    PROVE  LET e == Entry(kind, day, i, side, q, m) IN
           /\ IsEntry(e) /\ e.quantity = q /\ e.money = m
           /\ e.event = <<kind, day, i, side>>
           /\ e.event[1] = kind /\ e.event[2] = day /\ e.event[3] = i /\ e.event[4] = side
  BY DEF Entry, IsEntry

LEMMA BooksInit == Init => BooksInv
<1> SUFFICES ASSUME Init PROVE BooksInv
  OBVIOUS
<1>1. books = SeedInventory /\ carried = <<>> /\ step = "trade"
  BY DEF Init
<1>2. \A e \in books : IsEntry(e) /\ e.event[1] = "opening"
  <2> SUFFICES ASSUME NEW i \in Issues
               PROVE  LET e == Entry("opening", StartDate, i, "firm", Opening, 0) IN
                      IsEntry(e) /\ e.event[1] = "opening"
    BY <1>1 DEF SeedInventory
  <2>1. "opening" \in Kinds /\ Opening \in Int /\ 0 \in Int
    BY FirmAssumption DEF Kinds
  <2> QED
    BY <2>1, EntryIs
<1>3. IsFiniteSet(books)
  <2> DEFINE f == [i \in Issues |-> Entry("opening", StartDate, i, "firm", Opening, 0)]
  <2>1. books = {f[i] : i \in Issues}
    BY <1>1 DEF SeedInventory
  <2> HIDE DEF f
  <2> QED
    BY <2>1, ImageIsFinite, FirmAssumption
<1> QED
  BY <1>1, <1>2, <1>3 DEF BooksInv, Dated

LEMMA TradeBooks ==
    ASSUME FirmInv, BooksInv, Trade
    PROVE  BooksInv'
<1>1. PICK b \in Draws, extra \in SUBSET Issues :
        \E p \in [{t.issue : t \in b} \cup extra -> Prices] :
          /\ trades' = b /\ prices' = p
          /\ books' = PostAll({BatchEntry(t, p) : t \in b}, books)
  BY DEF Trade
<1>2. PICK p \in [{t.issue : t \in b} \cup extra -> Prices] :
          /\ trades' = b /\ prices' = p
          /\ books' = PostAll({BatchEntry(t, p) : t \in b}, books)
  BY <1>1
<1>3. n < RunDays /\ step = "trade" /\ step' = "borrow" /\ n' = n /\ carried' = carried /\ n \in Nat
  BY DEF Trade, FirmInv, FirmTypes
<1>4. b \subseteq Batches /\ IsFiniteSet(b)
  BY DrawsAreBatches DEF AreBatches
<1> DEFINE f == [t \in b |-> BatchEntry(t, p)]
           E == {f[t] : t \in b}
<1>5. ASSUME NEW t \in b
      PROVE  /\ IsEntry(f[t]) /\ f[t].event[1] = "cns" /\ f[t].event[2] = Today
             /\ f[t] = BatchEntry(t, p)
  <2>1. Signed(t) \in Int /\ p[t.issue] \in Int
    BY <1>4, SignedType, FirmAssumption
  <2>2. -Signed(t) * p[t.issue] \in Int /\ "cns" \in Kinds
    BY <2>1 DEF Kinds
  <2> QED
    BY <2>1, <2>2, EntryIs DEF BatchEntry
<1>6. E = {BatchEntry(t, p) : t \in b}
  OBVIOUS
<1>7. IsFiniteSet(E)
  <2> HIDE DEF f
  <2> QED
    BY <1>4, ImageIsFinite
<1>8. \A e \in E : IsEntry(e) /\ e.event[1] = "cns" /\ e.event[2] = Today
  BY <1>5
<1> HIDE DEF E, f
<1>9. \A e \in books : e.event[1] # "opening" => e.event[2] # Today
  <2> SUFFICES ASSUME NEW e \in books, e.event[1] # "opening", e.event[2] = Today PROVE FALSE
    OBVIOUS
  <2>1. PICK k \in 0..n : e.event[2] = DayOf(k) /\ k < n
    BY <1>3 DEF BooksInv, Dated
  <2>2. k \in Nat /\ k < RunDays /\ RunDays \in Nat
    BY <1>3, <2>1, FirmAssumption
  <2>3. DayOf(k) = DayOf(n)
    BY <2>1, TodayIs
  <2> QED
    BY <1>3, <2>1, <2>2, <2>3, DaysDiffer
<1>10. books' = books \cup E
  <2>1. books' = books \cup {e \in E : \A g \in books : g.event # e.event}
    BY <1>2, <1>6, PostAllIs
  <2>2. \A e \in E : \A g \in books : g.event # e.event
    BY <1>8, <1>9
  <2> QED
    BY <2>1, <2>2
<1>11. Today' = Today
  BY <1>3 DEF Today
<1>12. IsFiniteSet(books') /\ \A e \in books' : IsEntry(e)
  <2>1. IsFiniteSet(books \cup E)
    BY <1>7, FS_Union DEF BooksInv
  <2> QED
    BY <1>8, <1>10, <2>1 DEF BooksInv
<1>13. \A e \in books' : e.event[1] # "opening" => \E k \in 0..n' : e.event[2] = DayOf(k)
  <2> SUFFICES ASSUME NEW e \in books', e.event[1] # "opening"
               PROVE  \E k \in 0..n : e.event[2] = DayOf(k)
    BY <1>3
  <2>1. CASE e \in books
    BY <2>1 DEF BooksInv, Dated
  <2>2. CASE e \in E
    <3>1. e.event[2] = DayOf(n) /\ n \in 0..n
      BY <1>3, <1>8, <2>2, TodayIs
    <3> QED
      BY <3>1
  <2> QED
    BY <1>10, <2>1, <2>2
<1>14. Dated'
  BY <1>3, <1>13 DEF Dated, DayOf
<1>15. BookedAs("cns")' = {BatchEntry(t, prices) : t \in trades}'
  <2>1. {e \in books' : e.event[1] = "cns" /\ e.event[2] = Today} = E
    BY <1>8, <1>9, <1>10
  <2>2. {BatchEntry(t, prices) : t \in trades}' = {BatchEntry(t, p) : t \in b}
    BY <1>2, <1>11, Zenon DEF BatchEntry
  <2>3. BookedAs("cns")' = {e \in books' : e.event[1] = "cns" /\ e.event[2] = Today}
    BY <1>11, Zenon DEF BookedAs
  <2> QED
    BY <1>6, <2>1, <2>2, <2>3, Zenon
<1>16. BookedAs("borrow")' = {}
  <2>1. {e \in books' : e.event[1] = "borrow" /\ e.event[2] = Today} = {}
    BY <1>8, <1>9, <1>10
  <2>2. BookedAs("borrow")' = {e \in books' : e.event[1] = "borrow" /\ e.event[2] = Today}
    BY <1>11, Zenon DEF BookedAs
  <2> QED
    BY <2>1, <2>2
<1>17. DOMAIN carried' \subseteq Issues
  BY <1>3 DEF BooksInv
<1> QED
  BY <1>3, <1>12, <1>14, <1>15, <1>16, <1>17 DEF BooksInv

LEMMA LoanedType == ASSUME BooksInv, NEW i PROVE Loaned(i) \in Int
<1>1. IsFiniteSet(books) /\ Whole(books, "location", {"loaned"})
  BY LoanMoved DEF BooksInv, Whole
<1> QED
  BY <1>1, AmountIs DEF Loaned

LEMMA LoansAre ==
    ASSUME FirmInv, BooksInv
    PROVE  /\ IsFiniteSet(Loans)
           /\ \A e \in Loans : IsEntry(e) /\ e.event[1] \in {"loan", "recall"} /\ e.event[2] = Today
<1>1. CASE Loans = {}
  BY <1>1, FS_EmptySet
<1>2. CASE Loans # {}
  <2> DEFINE i == profile.deficit.issue
  <2>1. profile.deficit # None /\ profile \in Profiles
    BY <1>2 DEF Loans, FirmInv, FirmTypes
  <2>2. profile.deficit.loan \in Int /\ Loaned(i) \in Int
    BY <2>1, LoanedType, ProfilesAssumption
  <2>3. \/ Loans = {Entry("loan", Today, i, "firm", profile.deficit.loan, 0)}
        \/ Loans = {Entry("recall", Today, i, "firm", Loaned(i), 0)}
    BY <1>2, <2>1 DEF Loans
  <2> HIDE DEF i
  <2>4. PICK kind \in {"loan", "recall"}, q \in Int : Loans = {Entry(kind, Today, i, "firm", q, 0)}
    BY <2>2, <2>3
  <2> DEFINE e == Entry(kind, Today, i, "firm", q, 0)
  <2>5. IsEntry(e) /\ e.event[1] = kind /\ e.event[2] = Today
    <3>1. kind \in Kinds /\ 0 \in Int
      BY DEF Kinds
    <3> QED
      BY <3>1, EntryIs
  <2> HIDE DEF e
  <2> QED
    BY <2>4, <2>5, FS_Singleton DEF e
<1> QED
  BY <1>1, <1>2

LEMMA BorrowsAre ==
    ASSUME FirmInv, BooksInv
    PROVE  /\ IsFiniteSet(Borrows)
           /\ \A e \in Borrows : IsEntry(e) /\ e.event[1] = "borrow" /\ e.event[2] = Today
<1> DEFINE J == {j \in DOMAIN carried : carried[j].quantity # 0}
           f == [i \in J |-> Entry("borrow", Today, i, "firm", Size(carried[i].quantity), 0)]
<1>1. IsFiniteSet(J)
  <2>1. J \in SUBSET Issues
    BY DEF BooksInv
  <2> QED
    BY <2>1, FS_Subset, FirmAssumption
<1>2. Borrows = {f[i] : i \in J}
  BY DEF Borrows
<1>3. ASSUME NEW i \in J
      PROVE  IsEntry(f[i]) /\ f[i].event[1] = "borrow" /\ f[i].event[2] = Today
  <2>1. carried[i].quantity \in Int
    BY DEF FirmInv, FirmTypes, Fails
  <2>2. Size(carried[i].quantity) \in Int /\ 0 \in Int /\ "borrow" \in Kinds
    BY <2>1 DEF Size, Kinds
  <2> QED
    BY <2>2, EntryIs
<1> HIDE DEF J, f
<1> QED
  BY <1>1, <1>2, <1>3, ImageIsFinite

LEMMA BorrowBooks ==
    ASSUME FirmInv, BooksInv, Borrow
    PROVE  BooksInv'
<1>1. /\ step = "borrow" /\ step' = "settle" /\ books' = PostAll(Borrows \cup Loans, books)
      /\ UNCHANGED <<n, trades, prices, carried>>
  BY DEF Borrow
<1>2. n \in Nat
  BY DEF FirmInv, FirmTypes
<1> DEFINE E == Borrows \cup Loans
           N == {e \in E : \A f \in books : f.event # e.event}
<1>3. /\ IsFiniteSet(E)
      /\ \A e \in E : /\ IsEntry(e) /\ e.event[2] = Today
                      /\ e.event[1] \in {"borrow", "loan", "recall"}
                      /\ e.event[1] = "borrow" <=> e \in Borrows
  <2>1. IsFiniteSet(E)
    BY BorrowsAre, LoansAre, FS_Union
  <2> QED
    BY <2>1, BorrowsAre, LoansAre
<1>4. books' = books \cup N
  BY <1>1, PostAllIs, Zenon
<1>5. \A e \in N : e \in E
  OBVIOUS
<1>6. Borrows \subseteq N
  <2> SUFFICES ASSUME NEW e \in Borrows, NEW f \in books, f.event = e.event PROVE FALSE
    OBVIOUS
  <2>1. e.event[1] = "borrow" /\ e.event[2] = Today
    BY BorrowsAre
  <2>2. f \in BookedAs("borrow")
    BY <2>1 DEF BookedAs
  <2> QED
    BY <1>1, <2>2 DEF BooksInv
<1>7. IsFiniteSet(N)
  BY <1>3, <1>5, FS_Subset
<1> HIDE DEF N, E
<1>8. Today' = Today
  BY <1>1 DEF Today
<1>9. IsFiniteSet(books') /\ \A e \in books' : IsEntry(e)
  <2>1. IsFiniteSet(books \cup N)
    BY <1>7, FS_Union DEF BooksInv
  <2> QED
    BY <1>3, <1>4, <1>5, <2>1 DEF BooksInv
<1>10. Dated'
  <2> SUFFICES ASSUME NEW e \in books', e.event[1] # "opening"
               PROVE  \E k \in 0..n : e.event[2] = DayOf(k)
    BY <1>1 DEF Dated, DayOf
  <2>1. CASE e \in books
    BY <2>1 DEF BooksInv, Dated
  <2>2. CASE e \in N
    <3>1. e.event[2] = DayOf(n) /\ n \in 0..n
      BY <1>2, <1>3, <1>5, <2>2, TodayIs
    <3> QED
      BY <3>1
  <2> QED
    BY <1>4, <2>1, <2>2
<1>11. \A kind : BookedAs(kind)' = {e \in books' : e.event[1] = kind /\ e.event[2] = Today}
  BY <1>8, Zenon DEF BookedAs
<1>12. BookedAs("cns")' = BookedAs("cns")
  <2>1. {e \in books' : e.event[1] = "cns" /\ e.event[2] = Today} = BookedAs("cns")
    BY <1>3, <1>4, <1>5 DEF BookedAs
  <2> QED
    BY <1>11, <2>1
<1>13. BookedAs("borrow")' = Borrows
  <2>1. {e \in books : e.event[1] = "borrow" /\ e.event[2] = Today} = {}
    BY <1>1 DEF BooksInv, BookedAs
  <2>2. {e \in books' : e.event[1] = "borrow" /\ e.event[2] = Today} = Borrows
    BY <1>3, <1>4, <1>5, <1>6, <2>1, BorrowsAre
  <2> QED
    BY <1>11, <2>2
<1>14. Borrows' = Borrows
  BY <1>1, <1>8, Zenon DEF Borrows
<1>15. {BatchEntry(t, prices) : t \in trades}' = {BatchEntry(t, prices) : t \in trades}
  BY <1>1, <1>8, Zenon DEF BatchEntry
<1>16. BookedAs("cns") = {BatchEntry(t, prices) : t \in trades} /\ DOMAIN carried' \subseteq Issues
  BY <1>1 DEF BooksInv
<1>17. BookedAs("cns")' = {BatchEntry(t, prices) : t \in trades}'
  BY <1>12, <1>15, <1>16, Zenon
<1>18. BookedAs("borrow")' = Borrows'
  BY <1>13, <1>14, Zenon
<1> QED
  BY <1>1, <1>9, <1>10, <1>16, <1>17, <1>18 DEF BooksInv

\* A step that leaves the books and what they are compared with.
LEMMA BooksKept ==
    ASSUME BooksInv, UNCHANGED <<n, books, trades, prices, carried>>,
           \/ step' = step /\ settled' = settled
           \/ step = "settle" /\ step' = "stopped"
           \/ /\ step = "settle" /\ step' = "close"
              /\ DOMAIN settled' \subseteq Issues /\ {p.issue : p \in Positions} = DOMAIN settled'
    PROVE  BooksInv'
<1>1. Today' = Today
  BY DEF Today
<1>2. Borrows' = Borrows /\ \A kind : BookedAs(kind)' = BookedAs(kind)
  BY <1>1, Zenon DEF Borrows, BookedAs
<1>3. {BatchEntry(t, prices) : t \in trades}' = {BatchEntry(t, prices) : t \in trades}
  BY <1>1, Zenon DEF BatchEntry
<1>4. {p.issue : p \in Positions}' = {p.issue : p \in Positions}
  BY Zenon DEF Positions, CnsTrades
<1>5. Dated'
  BY DEF BooksInv, Dated, DayOf
<1>6. /\ step' # "trade" => BookedAs("cns")' = {BatchEntry(t, prices) : t \in trades}'
      /\ step' = "borrow" => BookedAs("borrow")' = {}
      /\ step' \in {"settle", "close", "stopped"} => BookedAs("borrow")' = Borrows'
  BY <1>2, <1>3 DEF BooksInv
<1>7. step' = "close" => /\ DOMAIN settled' \subseteq Issues
                         /\ {p.issue : p \in Positions}' = DOMAIN settled'
  BY <1>4 DEF BooksInv
<1> QED
  BY <1>5, <1>6, <1>7 DEF BooksInv, IsEntry

LEMMA SettleBooks ==
    ASSUME FirmInv, BooksInv, Settle
    PROVE  BooksInv'
<1>1. step = "settle" /\ step' = "close" /\ settled' = Results
      /\ UNCHANGED <<n, books, trades, prices, carried>>
  BY SettleIs
<1>2. DOMAIN Results = {p.issue : p \in Positions}
  BY DEF Results
<1>3. DOMAIN Results \subseteq Issues
  <2> SUFFICES ASSUME NEW t \in CnsTrades PROVE t.issue \in Issues
    BY ResultsAreFor
  <2>1. t.issue \in DOMAIN carried \/ \E u \in trades : t.issue = u.issue
    BY DEF CnsTrades
  <2> QED
    BY <2>1 DEF BooksInv, FirmInv, FirmTypes, AreBatches, Batches
<1> QED
  BY <1>1, <1>2, <1>3, BooksKept

LEMMA CloseBooks ==
    ASSUME FirmInv, BooksInv, Close
    PROVE  BooksInv'
<1>1. step = "close" /\ step' = "trade" /\ carried' = NextFails /\ n' = n + 1 /\ books' = books
  BY DEF Close
<1>2. n \in Nat
  BY DEF FirmInv, FirmTypes
<1>3. Dated'
  <2> SUFFICES ASSUME NEW e \in books, e.event[1] # "opening"
               PROVE  \E k \in 0..(n + 1) : e.event[2] = DayOf(k) /\ k < n + 1
    BY <1>1 DEF Dated, DayOf
  <2>1. PICK k \in 0..n : e.event[2] = DayOf(k)
    BY DEF BooksInv, Dated
  <2>2. k \in 0..(n + 1) /\ k < n + 1
    BY <1>2
  <2> QED
    BY <2>1, <2>2
<1>4. DOMAIN carried' \subseteq Issues
  BY <1>1, NextFailsAre DEF BooksInv, Failing
<1> QED
  BY <1>1, <1>3, <1>4 DEF BooksInv, IsEntry

LEMMA BooksStep == FirmInv /\ BooksInv /\ [Next]_vars => BooksInv'
<1> SUFFICES ASSUME FirmInv, BooksInv, [Next]_vars PROVE BooksInv'
  OBVIOUS
<1>1. CASE UNCHANGED vars
  BY <1>1, BooksKept DEF vars
<1>2. CASE Trade
  BY <1>2, TradeBooks
<1>3. CASE Borrow
  BY <1>3, BorrowBooks
<1>4. CASE Settle
  BY <1>4, SettleBooks
<1>5. CASE Stop
  BY <1>5, BooksKept DEF Stop
<1>6. CASE Close
  BY <1>6, CloseBooks
<1>7. CASE Report
  BY <1>7, BooksKept DEF Report
<1> QED
  BY <1>1, <1>2, <1>3, <1>4, <1>5, <1>6, <1>7 DEF Next

-----------------------------------------------------------------------------
\* What the day's entries come to.
PaidOf(S) == [t \in S |-> -Signed(t) * prices[t.issue]]

LEMMA PaidType ==
    ASSUME FirmTypes, NEW t \in trades
    PROVE  /\ t \in Batches /\ Signed(t) \in Int
           /\ -Signed(t) * prices[t.issue] \in Int
<1>1. t \in Batches /\ prices[t.issue] \in Int
  BY DEF FirmTypes, AreBatches
<1>2. Signed(t) \in Int
  BY <1>1, SignedType
<1> QED
  BY <1>1, <1>2

LEMMA PaidSum ==
    ASSUME FirmTypes, NEW i
    PROVE  Paid(i) = Sum(PaidOf(TradesOf(i)), TradesOf(i))
<1> DEFINE S == TradesOf(i)
           g == PaidOf(S)
           v(x) == -Signed(x) * prices[x.issue]
           G == CHOOSE H : H = [s \in SUBSET S |-> IF s = {} THEN 0
                   ELSE LET x == CHOOSE x \in s : TRUE IN v(x) + H[s \ {x}]]
<1>1. S \in SUBSET trades /\ IsFiniteSet(S)
  BY FS_Subset DEF TradesOf, FirmTypes, AreBatches
<1>2. \A x \in S : g[x] = v(x) /\ g[x] \in Int
  BY <1>1, PaidType DEF PaidOf
<1>3. Paid(i) = G[S]
  BY Zenon DEF G, Paid, TradesOf, MapThenSumSet, MapThenFoldSet
<1> HIDE DEF g, v, S
<1>4. PICK F : SumEquation(F, S, g) /\ Sum(g, S) = F[S]
  BY <1>1, <1>2, SumIsSolution
<1>5. \A s \in SUBSET S : s # {} => g[Pick(s)] = v(Pick(s))
  BY <1>2, PickIn
<1>6. F = [s \in SUBSET S |-> IF s = {} THEN 0
              ELSE LET x == CHOOSE x \in s : TRUE IN v(x) + F[s \ {x}]]
  BY <1>4, <1>5 DEF SumEquation, Pick
<1>7. G = [s \in SUBSET S |-> IF s = {} THEN 0
              ELSE LET x == CHOOSE x \in s : TRUE IN v(x) + G[s \ {x}]]
  BY <1>6, Zenon
<1> HIDE DEF G
<1>8. SumEquation(G, S, g)
  BY <1>5, <1>7 DEF SumEquation, Pick
<1>9. G[S] = F[S]
  BY <1>1, <1>4, <1>8, EquationsAgree
<1> QED
  BY <1>3, <1>4, <1>9 DEF g, S

\* The entries of the day's batches in one issue.
BatchEntriesOf(i) == {BatchEntry(t, prices) : t \in TradesOf(i)}

LEMMA BatchEntriesAre ==
    ASSUME FirmTypes, NEW i, NEW t \in TradesOf(i)
    PROVE  /\ IsEntry(BatchEntry(t, prices)) /\ BatchEntry(t, prices).event[1] = "cns"
           /\ BatchEntry(t, prices).event[2] = Today /\ BatchEntry(t, prices).event[3] = i
           /\ BatchEntry(t, prices).event[4] = t.side
           /\ BatchEntry(t, prices).quantity = Signed(t)
           /\ BatchEntry(t, prices).money = -Signed(t) * prices[t.issue]
<1>1. t \in trades /\ t.issue = i
  BY DEF TradesOf
<1>2. Signed(t) \in Int /\ -Signed(t) * prices[t.issue] \in Int /\ "cns" \in Kinds
  BY <1>1, PaidType DEF Kinds
<1> QED
  BY <1>1, <1>2, EntryIs DEF BatchEntry

\* Entries whose batches are the day's batches move what was executed and paid.
LEMMA BatchesMove ==
    ASSUME FirmTypes, NEW i, NEW S, IsFiniteSet(S), \A e \in S : IsEntry(e),
           {e \in OfIssue(S, i) : e.event[1] = "cns"} = BatchEntriesOf(i)
    PROVE  /\ Amount(S, i, "ownership", {"customers"}) = Executed(i)
           /\ Amount(S, i, "money", {"customers"}) = Paid(i)
<1> DEFINE T == BatchEntriesOf(i)
           O == TradesOf(i)
           f == [t \in O |-> BatchEntry(t, prices)]
           gq == MovedIn(S, "ownership", {"customers"})
           gm == MovedIn(S, "money", {"customers"})
           hq == SignedOf(O)
           hm == PaidOf(O)
<1>1. T \in SUBSET OfIssue(S, i) /\ OfIssue(S, i) \in SUBSET S /\ T = {f[t] : t \in O}
  BY DEF OfIssue, BatchEntriesOf
<1>2. O \in SUBSET trades /\ IsFiniteSet(O) /\ O \subseteq Batches
  BY FS_Subset DEF TradesOf, FirmTypes, AreBatches
<1>3. \A e \in S : /\ Moved(e, "ownership", {"customers"}) = IF e.event[1] = "cns" THEN e.quantity ELSE 0
                   /\ Moved(e, "money", {"customers"}) = IF e.event[1] = "cns" THEN e.money ELSE 0
                   /\ e.quantity \in Int /\ e.money \in Int
  <2> SUFFICES ASSUME NEW e \in S
               PROVE  /\ Moved(e, "ownership", {"customers"}) = IF e.event[1] = "cns" THEN e.quantity ELSE 0
                      /\ Moved(e, "money", {"customers"}) = IF e.event[1] = "cns" THEN e.money ELSE 0
                      /\ e.quantity \in Int /\ e.money \in Int
    OBVIOUS
  <2>1. IsEntry(e) /\ "customers" \in Owners
    BY DEF Owners
  <2>2. Moved(e, "ownership", {"customers"}) = MovedTo(e, "customers")
    BY <2>1, OwnershipMoved
  <2>3. MovedTo(e, "customers") = IF e.event[1] = "cns" THEN e.quantity ELSE 0
    BY DEF MovedTo
  <2> QED
    BY <2>1, <2>2, <2>3, MoneyMoved DEF IsEntry
<1>4. Whole(S, "ownership", {"customers"}) /\ Whole(S, "money", {"customers"})
  BY <1>3 DEF Whole
<1>5. \A e \in OfIssue(S, i) \ T : /\ Moved(e, "ownership", {"customers"}) = 0
                                  /\ Moved(e, "money", {"customers"}) = 0
  BY <1>1, <1>3
<1>6. ASSUME NEW t \in O
      PROVE  /\ f[t] = BatchEntry(t, prices) /\ f[t] \in S /\ f[t].event[4] = t.side
             /\ gq[f[t]] = hq[t] /\ hq[t] \in Int
             /\ gm[f[t]] = hm[t] /\ hm[t] \in Int
  <2>1. f[t] = BatchEntry(t, prices) /\ f[t] \in S
    BY <1>1
  <2>2. /\ f[t].event[1] = "cns" /\ f[t].event[4] = t.side
        /\ f[t].quantity = Signed(t) /\ f[t].money = -Signed(t) * prices[t.issue]
    BY <2>1, BatchEntriesAre
  <2>3. gq[f[t]] = f[t].quantity /\ gm[f[t]] = f[t].money
    BY <1>3, <2>1, <2>2 DEF MovedIn
  <2>4. hq[t] = Signed(t) /\ hm[t] = -Signed(t) * prices[t.issue]
    BY DEF SignedOf, PaidOf
  <2>5. t \in trades
    BY <1>2
  <2> HIDE DEF f, gq, gm, hq, hm
  <2> QED
    BY <2>1, <2>2, <2>3, <2>4, <2>5, PaidType
<1>7. \A t, u \in O : f[t] = f[u] => t = u
  <2> SUFFICES ASSUME NEW t \in O, NEW u \in O, f[t] = f[u] PROVE t = u
    OBVIOUS
  <2>1. t.side = u.side
    BY <1>6
  <2>2. t.issue = u.issue /\ t \in trades /\ u \in trades
    BY DEF TradesOf
  <2> QED
    BY <2>1, <2>2 DEF FirmTypes, AreBatches
<1>8. Amount(S, i, "ownership", {"customers"}) = Sum(gq, T)
  BY <1>1, <1>4, <1>5, AmountOfMovers
<1>9. Amount(S, i, "money", {"customers"}) = Sum(gm, T)
  BY <1>1, <1>4, <1>5, AmountOfMovers
<1>10. Executed(i) = Sum(hq, O)
  BY <1>2, SignedSum DEF Executed, TradesOf
<1>11. Paid(i) = Sum(hm, O)
  BY PaidSum
<1> HIDE DEF gq, gm, hq, hm, f, T, O
<1>12. Sum(gq, T) = Sum(hq, O)
  BY <1>1, <1>2, <1>6, <1>7, SumImage
<1>13. Sum(gm, T) = Sum(hm, O)
  BY <1>1, <1>2, <1>6, <1>7, SumImage
<1> QED
  BY <1>8, <1>9, <1>10, <1>11, <1>12, <1>13

LEMMA BorrowsMove ==
    ASSUME FirmInv, BooksInv, NEW i, NEW S, IsFiniteSet(S), \A e \in S : IsEntry(e),
           \A e \in S : e.event[1] # "opening",
           {e \in S : e.event[1] = "borrow"} = Borrows
    PROVE  /\ Amount(S, i, "ownership", {"borrowed"}) = Borrowed(i)
           /\ Amount(S, i, "ownership", {"firm"}) = -Borrowed(i)
<1> DEFINE x == Entry("borrow", Today, i, "firm", Size(carried[i].quantity), 0)
           lent == i \in DOMAIN carried /\ carried[i].quantity # 0
           T == {e \in OfIssue(S, i) : e.event[1] = "borrow"}
           gb == MovedIn(S, "ownership", {"borrowed"})
           gf == MovedIn(S, "ownership", {"firm"})
<1>1. i \in DOMAIN carried => carried[i].quantity \in Int
  BY DEF FirmInv, FirmTypes, Fails
<1>2. T \in SUBSET OfIssue(S, i) /\ OfIssue(S, i) \in SUBSET S
  BY DEF OfIssue
<1>3. \A e \in S : /\ Moved(e, "ownership", {"borrowed"}) = IF e.event[1] = "borrow" THEN e.quantity ELSE 0
                   /\ Moved(e, "ownership", {"firm"}) = IF e.event[1] = "borrow" THEN -e.quantity ELSE 0
                   /\ e.quantity \in Int
  <2> SUFFICES ASSUME NEW e \in S
               PROVE  /\ Moved(e, "ownership", {"borrowed"}) = IF e.event[1] = "borrow" THEN e.quantity ELSE 0
                      /\ Moved(e, "ownership", {"firm"}) = IF e.event[1] = "borrow" THEN -e.quantity ELSE 0
                      /\ e.quantity \in Int
    OBVIOUS
  <2>1. IsEntry(e) /\ "borrowed" \in Owners /\ "firm" \in Owners /\ e.event[1] # "opening"
    BY DEF Owners
  <2>2. /\ Moved(e, "ownership", {"borrowed"}) = MovedTo(e, "borrowed")
        /\ Moved(e, "ownership", {"firm"}) = MovedTo(e, "firm")
    BY <2>1, OwnershipMoved
  <2>3. /\ MovedTo(e, "borrowed") = IF e.event[1] = "borrow" THEN e.quantity ELSE 0
        /\ MovedTo(e, "firm") = IF e.event[1] = "borrow" THEN -e.quantity ELSE 0
    BY <2>1 DEF MovedTo
  <2> QED
    BY <2>1, <2>2, <2>3 DEF IsEntry
<1>4. Whole(S, "ownership", {"borrowed"}) /\ Whole(S, "ownership", {"firm"})
  BY <1>3 DEF Whole
<1>5. \A e \in OfIssue(S, i) \ T : /\ Moved(e, "ownership", {"borrowed"}) = 0
                                  /\ Moved(e, "ownership", {"firm"}) = 0
  BY <1>2, <1>3
<1>6. Amount(S, i, "ownership", {"borrowed"}) = Sum(gb, T)
  BY <1>2, <1>4, <1>5, AmountOfMovers
<1>7. Amount(S, i, "ownership", {"firm"}) = Sum(gf, T)
  BY <1>2, <1>4, <1>5, AmountOfMovers
<1>8. T = {e \in Borrows : e.event[3] = i}
  BY DEF OfIssue
<1>9. ASSUME NEW e \in Borrows, e.event[3] = i
      PROVE  lent /\ e = x
  <2>1. PICK j \in DOMAIN carried : carried[j].quantity # 0
                /\ e = Entry("borrow", Today, j, "firm", Size(carried[j].quantity), 0)
    BY DEF Borrows
  <2>2. e.event[3] = j
    BY <2>1 DEF Entry
  <2> QED
    BY <1>9, <2>1, <2>2
<1>10. lent => x \in Borrows
  BY DEF Borrows
<1>11. lent => IsEntry(x) /\ x.event[1] = "borrow" /\ x.event[3] = i
                /\ x.quantity = Size(carried[i].quantity)
  <2> SUFFICES ASSUME lent PROVE IsEntry(x) /\ x.event[1] = "borrow" /\ x.event[3] = i
                                   /\ x.quantity = Size(carried[i].quantity)
    OBVIOUS
  <2>1. Size(carried[i].quantity) \in Int /\ 0 \in Int /\ "borrow" \in Kinds
    BY <1>1 DEF Size, Kinds
  <2> QED
    BY <2>1, EntryIs
<1>12. \A e \in S : gb[e] = Moved(e, "ownership", {"borrowed"}) /\ gf[e] = Moved(e, "ownership", {"firm"})
  BY DEF MovedIn
<1> HIDE DEF gb, gf, T, x
<1>13. CASE lent
  <2>1. T = {x}
    BY <1>8, <1>9, <1>10, <1>11, <1>13
  <2>2. x \in S /\ x.event[1] = "borrow" /\ x.quantity \in Int
    BY <1>10, <1>11, <1>13 DEF IsEntry
  <2>3. gb[x] = x.quantity /\ gf[x] = -x.quantity /\ gb[x] \in Int /\ gf[x] \in Int
    BY <1>3, <1>12, <2>2
  <2>4. Sum(gb, {x}) = gb[x] /\ Sum(gf, {x}) = gf[x]
    BY <2>3, SumOne
  <2>5. Borrowed(i) = x.quantity
    BY <1>11, <1>13 DEF Borrowed
  <2> QED
    BY <1>6, <1>7, <2>1, <2>3, <2>4, <2>5
<1>14. CASE ~lent
  <2>1. T = {}
    BY <1>8, <1>9, <1>14
  <2>2. Sum(gb, {}) = 0 /\ Sum(gf, {}) = 0
    BY FS_EmptySet, SumType
  <2>3. Borrowed(i) = 0
    BY <1>14 DEF Borrowed, Size
  <2> QED
    BY <1>6, <1>7, <2>1, <2>2, <2>3
<1> QED
  BY <1>13, <1>14

-----------------------------------------------------------------------------
\* The close.
AtClose == FirmInv /\ BooksInv /\ step = "close"

LEMMA TodaysAre ==
    ASSUME AtClose
    PROVE  /\ IsFiniteSet(books) /\ TodaysEntries \in SUBSET books /\ IsFiniteSet(TodaysEntries)
           /\ \A e \in books : IsEntry(e)
           /\ \A e \in TodaysEntries : e.event[1] # "opening"
           /\ {e \in TodaysEntries : e.event[1] = "borrow"} = Borrows
           /\ \A i : {e \in OfIssue(TodaysEntries, i) : e.event[1] = "cns"} = BatchEntriesOf(i)
<1>1. /\ IsFiniteSet(books) /\ (\A e \in books : IsEntry(e))
      /\ BookedAs("cns") = {BatchEntry(t, prices) : t \in trades} /\ BookedAs("borrow") = Borrows
  BY DEF AtClose, BooksInv
<1>2. TodaysEntries \in SUBSET books /\ IsFiniteSet(TodaysEntries)
  <2>1. TodaysEntries \in SUBSET books
    BY DEF TodaysEntries
  <2> QED
    BY <1>1, <2>1, FS_Subset
<1>3. \A e \in TodaysEntries : e.event[1] # "opening"
  BY DEF TodaysEntries
<1>4. {e \in TodaysEntries : e.event[1] = "borrow"} = Borrows
  <2>1. {e \in TodaysEntries : e.event[1] = "borrow"} = BookedAs("borrow")
    BY DEF TodaysEntries, BookedAs
  <2> QED
    BY <1>1, <2>1
<1>5. ASSUME NEW i
      PROVE  {e \in OfIssue(TodaysEntries, i) : e.event[1] = "cns"} = BatchEntriesOf(i)
  <2>1. {e \in OfIssue(TodaysEntries, i) : e.event[1] = "cns"} = {e \in BookedAs("cns") : e.event[3] = i}
    BY DEF TodaysEntries, BookedAs, OfIssue
  <2>2. \A t : BatchEntry(t, prices).event[3] = t.issue
    BY DEF BatchEntry, Entry
  <2>3. {e \in BookedAs("cns") : e.event[3] = i} = BatchEntriesOf(i)
    BY <1>1, <2>2 DEF BatchEntriesOf, TradesOf
  <2> QED
    BY <2>1, <2>3
<1> QED
  BY <1>1, <1>2, <1>3, <1>4, <1>5

LEMMA ClosesWithI1 == ASSUME AtClose PROVE I1
<1> DEFINE S == {e \in TodaysEntries : e.event[1] = "cns"}
<1>1. IsFiniteSet(S) /\ \A e \in S : IsEntry(e)
  <2>1. S \in SUBSET TodaysEntries
    OBVIOUS
  <2> QED
    BY <2>1, TodaysAre, FS_Subset
<1>2. \A i : {e \in OfIssue(S, i) : e.event[1] = "cns"} = BatchEntriesOf(i)
  <2> SUFFICES ASSUME NEW i PROVE {e \in OfIssue(S, i) : e.event[1] = "cns"} = BatchEntriesOf(i)
    OBVIOUS
  <2>1. {e \in OfIssue(S, i) : e.event[1] = "cns"}
          = {e \in OfIssue(TodaysEntries, i) : e.event[1] = "cns"}
    BY DEF OfIssue
  <2> QED
    BY <2>1, TodaysAre
<1>3. FirmTypes
  BY DEF AtClose, FirmInv
<1>4. \A r : BookedToday(r) = [i \in Issues |-> Amount(S, i, r, {"customers"})]
  BY Zenon DEF BookedToday
<1> HIDE DEF S
<1>5. \A i : /\ Amount(S, i, "ownership", {"customers"}) = Executed(i)
             /\ Amount(S, i, "money", {"customers"}) = Paid(i)
  BY <1>1, <1>2, <1>3, BatchesMove
<1>6. BookedToday("ownership") = [i \in Issues |-> Executed(i)]
  <2> DEFINE A(i) == Amount(S, i, "ownership", {"customers"})
  <2>1. BookedToday("ownership") = [i \in Issues |-> A(i)] /\ \A i : A(i) = Executed(i)
    BY <1>4, <1>5
  <2> HIDE DEF A
  <2> QED
    BY <2>1
<1>7. BookedToday("money") = [i \in Issues |-> Paid(i)]
  <2> DEFINE A(i) == Amount(S, i, "money", {"customers"})
  <2>1. BookedToday("money") = [i \in Issues |-> A(i)] /\ \A i : A(i) = Paid(i)
    BY <1>4, <1>5
  <2> HIDE DEF A
  <2> QED
    BY <2>1
<1> QED
  BY <1>6, <1>7 DEF I1

LEMMA ClosesWithI3 == ASSUME AtClose PROVE I3
<1> SUFFICES ASSUME NEW i \in Issues
             PROVE  Amount(books, i, "ownership", Owners) + Amount(books, i, "location", Locations) = 0
  BY DEF I3
<1> DEFINE S == OfIssue(books, i)
           g == MovedIn(books, "ownership", Owners)
           h == MovedIn(books, "location", Locations)
           k == [e \in books |-> 0]
<1>1. IsFiniteSet(books) /\ S \in SUBSET books /\ IsFiniteSet(S)
  <2>1. S \in SUBSET books
    BY DEF OfIssue
  <2> QED
    BY <2>1, TodaysAre, FS_Subset
<1>2. \A e \in books : /\ Moved(e, "ownership", Owners) \in Int /\ Moved(e, "location", Locations) \in Int
                       /\ Moved(e, "ownership", Owners) + Moved(e, "location", Locations) = 0
  BY TodaysAre, OwnedIsLocated
<1>3. Whole(books, "ownership", Owners) /\ Whole(books, "location", Locations)
  BY <1>2 DEF Whole
<1>4. \A e \in S : g[e] \in Int /\ h[e] \in Int /\ k[e] = g[e] + h[e] /\ k[e] = 0
  BY <1>1, <1>2 DEF MovedIn
<1>5. /\ Amount(books, i, "ownership", Owners) = Sum(g, S)
      /\ Amount(books, i, "location", Locations) = Sum(h, S)
  BY <1>1, <1>3, AmountIs
<1> HIDE DEF S, g, h, k
<1>6. Sum(k, S) = Sum(g, S) + Sum(h, S)
  BY <1>1, <1>4, SumAdd
<1>7. Sum(k, S) = 0
  BY <1>1, <1>4, SumZero
<1> QED
  BY <1>5, <1>6, <1>7

LEMMA ClosesWithI5 == ASSUME AtClose PROVE I5
<1>1. {p.issue : p \in Positions} = DOMAIN settled
  BY DEF AtClose, BooksInv
<1>2. ASSUME NEW i \in DOMAIN settled, settled[i].residual # None
      PROVE  settled[i].residual.quantity # None /\ settled[i].residual.cash # None
  BY <1>2, NoneIsApart DEF AtClose, FirmInv, FirmTypes, IsOutcome, Fails
<1> QED
  BY <1>1, <1>2 DEF I5

LEMMA ClosesWithI11 == ASSUME AtClose PROVE I11
<1> DEFINE before == books \ TodaysEntries
           activity(a, i) == CASE a = "customers" -> Executed(i)
                               [] a = "borrowed" -> Borrowed(i)
                               [] a = "firm" -> -Borrowed(i)
<1>1. FirmTypes /\ FirmInv /\ BooksInv
  BY DEF AtClose, FirmInv
<1>2. \A e \in TodaysEntries : IsEntry(e)
  BY TodaysAre
<1>3. ASSUME NEW i, NEW a \in Owners
      PROVE  Amount(books, i, "ownership", {a}) = Amount(before, i, "ownership", {a}) + activity(a, i)
  <2>1. Whole(books, "ownership", {a})
    BY <1>3, TodaysAre, OwnershipMoved DEF Whole
  <2>2. Amount(books, i, "ownership", {a})
          = Amount(before, i, "ownership", {a}) + Amount(TodaysEntries, i, "ownership", {a})
    BY <2>1, TodaysAre, AmountOfBoth
  <2>3. Amount(TodaysEntries, i, "ownership", {"customers"}) = Executed(i)
    BY <1>1, <1>2, TodaysAre, BatchesMove
  <2>4. /\ Amount(TodaysEntries, i, "ownership", {"borrowed"}) = Borrowed(i)
        /\ Amount(TodaysEntries, i, "ownership", {"firm"}) = -Borrowed(i)
    BY <1>1, <1>2, TodaysAre, BorrowsMove
  <2>5. Amount(TodaysEntries, i, "ownership", {a}) = activity(a, i)
    BY <1>3, <2>3, <2>4 DEF Owners
  <2> QED
    BY <2>2, <2>5
<1>4. ASSUME NEW i
      PROVE  Amount(books, i, "money", {"customers"}) = Amount(before, i, "money", {"customers"}) + Paid(i)
  <2>1. Whole(books, "money", {"customers"})
    BY TodaysAre, MoneyMoved DEF Whole, IsEntry
  <2>2. Amount(books, i, "money", {"customers"})
          = Amount(before, i, "money", {"customers"}) + Amount(TodaysEntries, i, "money", {"customers"})
    BY <2>1, TodaysAre, AmountOfBoth
  <2>3. Amount(TodaysEntries, i, "money", {"customers"}) = Paid(i)
    BY <1>1, <1>2, TodaysAre, BatchesMove
  <2> QED
    BY <2>2, <2>3
<1> DEFINE Q(a, i) == Amount(books, i, "ownership", {a})
           P(a, i) == Amount(before, i, "ownership", {a})
           M(i) == Amount(books, i, "money", {"customers"})
           K(i) == Amount(before, i, "money", {"customers"})
<1>5. Balances(books) = [positions |-> [a \in Owners |-> [i \in Issues |-> Q(a, i)]],
                         cash |-> [i \in Issues |-> M(i)]]
  BY Zenon DEF Balances
<1>6. Balances(before) = [positions |-> [a \in Owners |-> [i \in Issues |-> P(a, i)]],
                          cash |-> [i \in Issues |-> K(i)]]
  BY Zenon DEF Balances
<1>7. Activity = [positions |-> [a \in Owners |-> [i \in Issues |-> activity(a, i)]],
                  cash |-> [i \in Issues |-> Paid(i)]]
  BY Zenon DEF Activity
<1>8. \A a \in Owners, i \in Issues : Q(a, i) = P(a, i) + activity(a, i)
  BY <1>3
<1>9. \A i \in Issues : M(i) = K(i) + Paid(i)
  BY <1>4
<1>10. I11 <=> Balances(books) = RollForward(Balances(before), Activity)
  BY Zenon DEF I11
<1> HIDE DEF Q, P, M, K, activity, before
<1>11. /\ \A a \in Owners, i \in Issues :
             /\ Balances(before).positions[a][i] = P(a, i) /\ Activity.positions[a][i] = activity(a, i)
       /\ \A i \in Issues : Balances(before).cash[i] = K(i) /\ Activity.cash[i] = Paid(i)
  BY <1>6, <1>7
<1>12. [a \in Owners |-> [i \in Issues |-> Q(a, i)]]
         = [a \in Owners |-> [i \in Issues |->
              Balances(before).positions[a][i] + Activity.positions[a][i]]]
  BY <1>8, <1>11
<1>13. [i \in Issues |-> M(i)] = [i \in Issues |-> Balances(before).cash[i] + Activity.cash[i]]
  BY <1>9, <1>11
<1>14. Balances(books) = RollForward(Balances(before), Activity)
  BY <1>5, <1>12, <1>13, Zenon DEF RollForward
<1> QED
  BY <1>10, <1>14

\* At every close the books hold what was traded, ownership and location agree,
\* the fails are all carried and the openings roll forward (run_firm's I1, I3, I5,
\* I11, I12).
THEOREM DayAlwaysCloses == Spec => []DayCloses
<1>1. Init => FirmInv /\ BooksInv
  BY FirmInvInit, BooksInit
<1>2. FirmInv /\ BooksInv /\ [Next]_vars => (FirmInv /\ BooksInv)'
  BY FirmInvStep, BooksStep
<1>3. FirmInv /\ BooksInv => DayCloses
  <2> SUFFICES ASSUME FirmInv, BooksInv, step = "close" PROVE I1 /\ I3 /\ I5 /\ I11 /\ I12
    BY DEF DayCloses
  <2>1. AtClose
    BY DEF AtClose
  <2> QED
    BY <2>1, ClosesWithI1, ClosesWithI3, ClosesWithI5, ClosesWithI11, PostedAgain DEF I12
<1> QED
  BY <1>1, <1>2, <1>3, PTL DEF Spec
=============================================================================
