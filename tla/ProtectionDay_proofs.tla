------------------------ MODULE ProtectionDay_proofs ------------------------
(***************************************************************************)
(* Proofs about the customer protections of ProtectionDay.                 *)
(*                                                                         *)
(* Knowing less never makes an engine pass: each part of an assessment     *)
(* that a missing rule or figure could change says that it is missing, so  *)
(* a part that has nothing to say is the part of one who knows more.       *)
(***************************************************************************)
EXTENDS ProtectionDay, Sums, SequenceTheorems, TLAPS

-----------------------------------------------------------------------------
\* A disposition.
Clean(part) == part.rules = {} /\ part.inputs = {} /\ part.breaches = {}

LEMMA PassIsClean ==
    ASSUME NEW parts
    PROVE  Disposed(parts) = "PASS" <=> \A k \in DOMAIN parts : Clean(parts[k])
<1>1. Disposed(parts) = "PASS" <=>
        AllRules(parts) = {} /\ AllInputs(parts) = {} /\ AllBreaches(parts) = {}
  BY DEF Disposed, decide
<1>2. AllRules(parts) = {} <=> \A k \in DOMAIN parts : parts[k].rules = {}
  BY DEF AllRules
<1>3. AllInputs(parts) = {} <=> \A k \in DOMAIN parts : parts[k].inputs = {}
  BY DEF AllInputs
<1>4. AllBreaches(parts) = {} <=> \A k \in DOMAIN parts : parts[k].breaches = {}
  BY DEF AllBreaches
<1> QED
  BY <1>1, <1>2, <1>3, <1>4 DEF Clean

\* Parts read first, and parts read after them.
LEMMA BothClean ==
    ASSUME NEW V, NEW p \in Seq(V), NEW q \in Seq(V)
    PROVE  Disposed(p \o q) = "PASS" <=>
             (\A k \in DOMAIN p : Clean(p[k])) /\ (\A k \in DOMAIN q : Clean(q[k]))
<1> DEFINE s == p \o q
<1>1. Len(p) \in Nat /\ Len(q) \in Nat /\ DOMAIN p = 1..Len(p) /\ DOMAIN q = 1..Len(q)
  OBVIOUS
<1>2. /\ DOMAIN s = 1..(Len(p) + Len(q))
      /\ \A k \in 1..(Len(p) + Len(q)) : s[k] = IF k <= Len(p) THEN p[k] ELSE q[k - Len(p)]
  BY ConcatProperties
<1> HIDE DEF s
<1>3. \A k \in DOMAIN p : k \in DOMAIN s /\ s[k] = p[k]
  BY <1>1, <1>2
<1>4. \A k \in DOMAIN q : k + Len(p) \in DOMAIN s /\ s[k + Len(p)] = q[k]
  BY <1>1, <1>2
<1>5. \A k \in DOMAIN s : \/ k \in DOMAIN p /\ s[k] = p[k]
                          \/ k - Len(p) \in DOMAIN q /\ s[k] = q[k - Len(p)]
  BY <1>1, <1>2
<1>6. Disposed(s) = "PASS" <=> \A k \in DOMAIN s : Clean(s[k])
  BY PassIsClean
<1> QED
  BY <1>3, <1>4, <1>5, <1>6 DEF s

LEMMA FoundParts ==
    ASSUME NEW v, NEW r, NEW i, NEW b
    PROVE  /\ Found(v, r, i, b).value = v
           /\ Clean(Found(v, r, i, b)) <=> r = {} /\ i = {} /\ b = {}
  BY DEF Found, Clean

-----------------------------------------------------------------------------
\* Of two tables the poorer, and of two inputs the blanker.  None is known by
\* nobody; what the poorer table knows the richer one knows too.
Poorer(t, u) ==
    /\ DOMAIN t.value \subseteq DOMAIN u.value
    /\ \A id \in DOMAIN t.value : t.value[id] = u.value[id]
    /\ t.exhibit \ Modeled = {} => u.exhibit \ Modeled = {}
Blanker(in, full, fields) == \A f \in fields : in[f] \in {full[f], None}

LEMMA PoorerLoads ==
    ASSUME NEW t, NEW u, Poorer(t, u), NEW ids, Unloaded(t, ids) = {}
    PROVE  /\ Unloaded(u, ids) = {}
           /\ Values(t, ids) = Values(u, ids)
           /\ \A id \in ids : Loaded(t, id) /\ Loaded(u, id) /\ Value(t, id) = Value(u, id)
<1>1. \A id \in ids : Loaded(t, id) /\ Loaded(u, id) /\ Value(t, id) = Value(u, id)
  BY DEF Poorer, Unloaded, Loaded, Value
<1>2. Unloaded(u, ids) = {}
  BY <1>1 DEF Unloaded, Loaded
<1>3. Values(t, ids) = Values(u, ids)
  BY <1>1 DEF Values
<1> QED
  BY <1>1, <1>2, <1>3

-----------------------------------------------------------------------------
\* The reserve computation, part by part.
LinesOf(in, t)  == ReadLines(in.lines, t)
DailyOf(in, t)  == DailyRequired(in, t)
ReducedOf(in, t) == Reduction(in, t, LinesOf(in, t).value.debits, DailyOf(in, t).value)
FactorOf(in, t) == DepositFactor(in, t)
ExcessOf(in, t) ==
    Less(LinesOf(in, t).value.credits, Less(LinesOf(in, t).value.debits, ReducedOf(in, t).value))
RequirementOf(in, t) ==
    IF Known({ExcessOf(in, t), FactorOf(in, t).value})
      THEN Percent(FactorOf(in, t).value, Larger(ExcessOf(in, t), 0)) ELSE None
ReliefOf(in, t) == Relief(in, t, RequirementOf(in, t))
BankOf(in, t)   == Eligible(in.cash, in.securities, t)
AfterOf(in, t)  == Less(RequirementOf(in, t), ReliefOf(in, t).value)
ShortOf(in, t)  == Less(AfterOf(in, t), BankOf(in, t).value)
ShortPart(in, t) ==
    Found(None, {}, {}, When(ShortOf(in, t) # None /\ ShortOf(in, t) > 0, "short"))

LEMMA ReserveUnfolds ==
    ASSUME NEW in, NEW t
    PROVE  compute_reserve(in, t) =
             [accounts |-> in.accounts, as_of |-> in.as_of,
              disposition |-> Disposed(<<LinesOf(in, t), DailyOf(in, t), ReducedOf(in, t), FactorOf(in, t)>>
                                       \o <<ReliefOf(in, t), BankOf(in, t), ShortPart(in, t)>>),
              credits |-> LinesOf(in, t).value.credits, debits |-> LinesOf(in, t).value.debits,
              reduction |-> ReducedOf(in, t).value,
              requirement |-> RequirementOf(in, t), after |-> AfterOf(in, t),
              eligible |-> BankOf(in, t).value,
              shortfall |-> IF ShortOf(in, t) = None THEN None ELSE Larger(ShortOf(in, t), 0),
              excessDebits |-> IF ExcessOf(in, t) = None THEN None ELSE Larger(-ExcessOf(in, t), 0),
              relief |-> ReliefOf(in, t).value]
  BY Zenon DEF compute_reserve, WithLines, Reduced, WithExcess, AfterRelief, ReserveResult, LinesOf,
         DailyOf, ReducedOf, FactorOf, ExcessOf, RequirementOf, ReliefOf, BankOf, AfterOf, ShortOf,
         ShortPart

LEMMA ReservePasses ==
    ASSUME NEW in, NEW t
    PROVE  compute_reserve(in, t).disposition = "PASS" <=>
             /\ Clean(LinesOf(in, t)) /\ Clean(DailyOf(in, t)) /\ Clean(ReducedOf(in, t))
             /\ Clean(FactorOf(in, t)) /\ Clean(ReliefOf(in, t)) /\ Clean(BankOf(in, t))
             /\ Clean(ShortPart(in, t))
<1> DEFINE a == LinesOf(in, t)
           b == DailyOf(in, t)
           c == ReducedOf(in, t)
           d == FactorOf(in, t)
           e == ReliefOf(in, t)
           f == BankOf(in, t)
           g == ShortPart(in, t)
<1>1. compute_reserve(in, t).disposition = Disposed(<<a, b, c, d>> \o <<e, f, g>>)
  BY ReserveUnfolds
<1> HIDE DEF a, b, c, d, e, f, g
<1>2. <<a, b, c, d>> \in Seq({a, b, c, d, e, f, g}) /\ <<e, f, g>> \in Seq({a, b, c, d, e, f, g})
  OBVIOUS
<1>3. Disposed(<<a, b, c, d>> \o <<e, f, g>>) = "PASS" <=>
        /\ \A k \in DOMAIN <<a, b, c, d>> : Clean(<<a, b, c, d>>[k])
        /\ \A k \in DOMAIN <<e, f, g>> : Clean(<<e, f, g>>[k])
  BY <1>2, BothClean
<1>4. (\A k \in DOMAIN <<a, b, c, d>> : Clean(<<a, b, c, d>>[k])) <=>
        Clean(a) /\ Clean(b) /\ Clean(c) /\ Clean(d)
  <2>1. DOMAIN <<a, b, c, d>> = {1, 2, 3, 4}
    OBVIOUS
  <2> QED
    BY <2>1
<1>5. (\A k \in DOMAIN <<e, f, g>> : Clean(<<e, f, g>>[k])) <=> Clean(e) /\ Clean(f) /\ Clean(g)
  <2>1. DOMAIN <<e, f, g>> = {1, 2, 3}
    OBVIOUS
  <2> QED
    BY <2>1
<1> QED
  BY <1>1, <1>3, <1>4, <1>5 DEF a, b, c, d, e, f, g

\* The inputs of a reserve computation, with some figures and lines left out.
BlankFigures == {"average", "effective", "previously", "indebtedness", "netCapital", "funds",
                 "carries", "proprietary", "lastRequired", "clean", "securities"}
ReserveGiven == {"accounts", "as_of", "standard", "mode", "exit", "voluntary", "cash", "excess",
                 "excessAsOf"}
BlankLines(lines, full) ==
    /\ lines = [id \in DOMAIN full |-> lines[id]]
    /\ full = [id \in DOMAIN full |-> full[id]]
    /\ \A id \in DOMAIN full : lines[id] \in {full[id], None}
BlankReserve(in, full) ==
    /\ Blanker(in, full, BlankFigures)
    /\ \A f \in ReserveGiven : in[f] = full[f]
    /\ BlankLines(in.lines, full.lines)

LEMMA LinesRead ==
    ASSUME NEW in, NEW full, BlankReserve(in, full), NEW t, NEW u, Poorer(t, u),
           Clean(LinesOf(in, t))
    PROVE  /\ in.lines = full.lines
           /\ LinesOf(in, t) = LinesOf(full, u)
           /\ in.lines[ITEM_10] # None /\ Loaded(t, ITEM_10)
<1> DEFINE l == in.lines
           m == full.lines
<1>1. /\ Unloaded(t, Modeled) = {} /\ t.exhibit \ Modeled = {} /\ DOMAIN l \ Modeled = {}
      /\ \A id \in Modeled : Supplied(l, id) # None
  <2>1. LinesOf(in, t) = ReadLines(l, t)
    BY DEF LinesOf
  <2> HIDE DEF l
  <2> QED
    BY <2>1 DEF ReadLines, Clean, Found
<1>2. BlankLines(l, m)
  BY DEF BlankReserve
<1> HIDE DEF l, m
<1>3. l = m
  BY <1>1, <1>2 DEF BlankLines, Supplied
<1>4. Unloaded(u, Modeled) = {} /\ \A id \in Modeled : Loaded(t, id) /\ Loaded(u, id)
  BY <1>1, PoorerLoads
<1>5. \A ids \in {EXHIBIT_A_CREDITS, EXHIBIT_A_DEBITS} : SideTotal(ids, l, t) = SideTotal(ids, l, u)
  <2>1. \A id \in EXHIBIT_A_CREDITS : Loaded(t, id) /\ Loaded(u, id)
    BY <1>4 DEF Modeled
  <2>2. \A id \in EXHIBIT_A_DEBITS : Loaded(t, id) /\ Loaded(u, id)
    BY <1>4 DEF Modeled
  <2>3. SideTotal(EXHIBIT_A_CREDITS, l, t) = SideTotal(EXHIBIT_A_CREDITS, l, u)
    BY <2>1, Zenon DEF SideTotal
  <2>4. SideTotal(EXHIBIT_A_DEBITS, l, t) = SideTotal(EXHIBIT_A_DEBITS, l, u)
    BY <2>2, Zenon DEF SideTotal
  <2> QED
    BY <2>3, <2>4
<1>6. u.exhibit \ Modeled = {}
  BY <1>1 DEF Poorer
<1>7. ReadLines(l, t) = ReadLines(l, u)
  BY <1>1, <1>4, <1>5, <1>6 DEF ReadLines
<1>8. ITEM_10 \in Modeled
  BY ExhibitAssumption DEF Modeled
<1> QED
  BY <1>1, <1>3, <1>4, <1>7, <1>8 DEF l, m, LinesOf, Supplied

LEMMA DailyRead ==
    ASSUME NEW in, NEW full, BlankReserve(in, full), NEW t, NEW u, Poorer(t, u),
           Clean(DailyOf(in, t))
    PROVE  DailyOf(in, t) = DailyOf(full, u)
<1>1. /\ in.average \in {full.average, None} /\ in.effective \in {full.effective, None}
      /\ in.previously \in {full.previously, None}
      /\ in.exit = full.exit /\ in.as_of = full.as_of /\ in.mode = full.mode
  BY DEF BlankReserve, Blanker, BlankFigures, ReserveGiven
<1>2. in.average # None /\ Unloaded(t, {"daily_threshold"}) = {}
  BY DEF DailyOf, DailyRequired, Clean, Found, When, Unloaded, Value, Loaded
<1>3. in.average = full.average /\ Value(u, "daily_threshold") = Value(t, "daily_threshold")
  BY <1>1, <1>2, PoorerLoads
<1>4. Unloaded(u, {"daily_threshold"}) = {}
  BY <1>2, PoorerLoads
<1>5. CASE Value(t, "daily_threshold") = None
  BY <1>1, <1>2, <1>3, <1>4, <1>5 DEF DailyOf, DailyRequired
<1>6. CASE /\ Value(t, "daily_threshold") # None
           /\ in.average >= Value(t, "daily_threshold")
  <2>1. DailyOf(in, t) = [OverThreshold(in, t) EXCEPT !.breaches =
                            When(OverThreshold(in, t).value = TRUE /\ in.mode # "daily", "not_daily")]
    BY <1>2, <1>6 DEF DailyOf, DailyRequired
  <2>2. in.effective # None
    BY <2>1 DEF OverThreshold, Found, Clean
  <2>3. OverThreshold(in, t) = OverThreshold(full, u)
    BY <1>1, <2>2 DEF OverThreshold
  <2> QED
    BY <1>1, <1>2, <1>3, <1>6, <2>1, <2>3 DEF DailyOf, DailyRequired
<1>7. CASE /\ Value(t, "daily_threshold") # None
           /\ ~(in.average >= Value(t, "daily_threshold"))
  <2>1. DailyOf(in, t) = [UnderThreshold(in, t) EXCEPT !.breaches =
                            When(UnderThreshold(in, t).value = TRUE /\ in.mode # "daily", "not_daily")]
    BY <1>2, <1>7 DEF DailyOf, DailyRequired
  <2>2. in.previously # None
    BY <2>1 DEF UnderThreshold, Found, Clean
  <2>3. in.previously /\ in.exit # None => Unloaded(t, {"exit_notice"}) = {}
    BY <2>1, <2>2 DEF UnderThreshold, Found, Clean, Unloaded, Loaded
  <2>4. in.previously /\ in.exit # None =>
          Loaded(t, "exit_notice") /\ Loaded(u, "exit_notice") /\ Value(t, "exit_notice") = Value(u, "exit_notice")
    BY <2>3, PoorerLoads
  <2>5. UnderThreshold(in, t) = UnderThreshold(full, u)
    BY <1>1, <2>2, <2>4 DEF UnderThreshold
  <2> QED
    BY <1>1, <1>2, <1>3, <1>7, <2>1, <2>5 DEF DailyOf, DailyRequired
<1> QED
  BY <1>5, <1>6, <1>7

LEMMA RateRead ==
    ASSUME NEW rule, NEW amount, NEW t, NEW u, Poorer(t, u), Unloaded(t, {rule}) = {}
    PROVE  ByRate(rule, amount, t) = ByRate(rule, amount, u)
  BY PoorerLoads DEF ByRate

\* What the alternative standard reduces debits by.
Voluntary(in, t, daily) == in.mode = "daily" /\ (daily = TRUE \/ VoluntaryDaily(in, t).value)
AlternativeRate(in, t, daily) ==
    IF Voluntary(in, t, daily) THEN "daily_reduction" ELSE "weekly_reduction"
Noticed(in, t, daily) ==
    IF in.mode = "daily" /\ daily # TRUE THEN Unloaded(t, {"voluntary_notice"}) ELSE {}
Weekly(in, t) == IF in.mode = "monthly" THEN Unloaded(t, {"weekly_basis"}) ELSE {}

LEMMA AlternativeReduction ==
    ASSUME NEW in, NEW t, NEW debits, NEW daily, Customer(in), in.standard # "aggregate_indebtedness"
    PROVE  Reduction(in, t, debits, daily) =
             Found(ByRate(AlternativeRate(in, t, daily), debits, t).value,
                   (Unloaded(t, {AlternativeRate(in, t, daily)}) \cup Noticed(in, t, daily)) \cup Weekly(in, t),
                   {}, When(in.mode = "monthly" /\ Loaded(t, "weekly_basis"), "not_weekly"))
<1> DEFINE rate == AlternativeRate(in, t, daily)
           reduced == ByRate(rate, debits, t)
<1>1. Reduction(in, t, debits, daily) =
        Found(reduced.value, (reduced.rules \cup Noticed(in, t, daily)) \cup Weekly(in, t), {},
              When(in.mode = "monthly" /\ Loaded(t, "weekly_basis"), "not_weekly"))
  <2>1. VoluntaryDaily(in, t).rules = Unloaded(t, {"voluntary_notice"})
    BY DEF VoluntaryDaily, Found
  <2> QED
    BY <2>1 DEF Reduction, AlternativeRate, Voluntary, Noticed, Weekly
<1>2. reduced.rules = Unloaded(t, {rate})
  BY DEF ByRate, Found
<1> QED
  BY <1>1, <1>2

LEMMA ReducedRead ==
    ASSUME NEW in, NEW full, BlankReserve(in, full), NEW t, NEW u, Poorer(t, u),
           in.lines = full.lines, NEW debits, NEW daily, Clean(Reduction(in, t, debits, daily))
    PROVE  Reduction(in, t, debits, daily) = Reduction(full, u, debits, daily)
<1>1. /\ in.accounts = full.accounts /\ in.standard = full.standard /\ in.mode = full.mode
      /\ in.voluntary = full.voluntary /\ in.as_of = full.as_of
  BY DEF BlankReserve, ReserveGiven
<1>2. Customer(in) <=> Customer(full)
  BY <1>1 DEF Customer
<1>3. CASE ~Customer(in)
  <2>1. Unloaded(t, {"no_note_e3"}) = {}
    BY <1>3 DEF Reduction, Clean, Found
  <2>2. Unloaded(u, {"no_note_e3"}) = {} /\ Loaded(t, "no_note_e3") /\ Loaded(u, "no_note_e3")
    BY <2>1, PoorerLoads
  <2> QED
    BY <1>2, <1>3, <2>1, <2>2 DEF Reduction
<1>4. CASE Customer(in) /\ in.standard = "aggregate_indebtedness"
  <2>1. Reduction(in, t, debits, daily) = ByRate("note_e3", Supplied(in.lines, ITEM_10), t)
    BY <1>4 DEF Reduction
  <2>2. Reduction(full, u, debits, daily) = ByRate("note_e3", Supplied(in.lines, ITEM_10), u)
    BY <1>1, <1>2, <1>4 DEF Reduction
  <2>3. Unloaded(t, {"note_e3"}) = {}
    BY <2>1 DEF ByRate, Clean, Found
  <2> QED
    BY <2>1, <2>2, <2>3, RateRead
<1>5. CASE Customer(in) /\ in.standard # "aggregate_indebtedness"
  <2> DEFINE rate == AlternativeRate(in, t, daily)
             found == Found(ByRate(rate, debits, t).value,
                            (Unloaded(t, {rate}) \cup Noticed(in, t, daily)) \cup Weekly(in, t),
                            {}, When(in.mode = "monthly" /\ Loaded(t, "weekly_basis"), "not_weekly"))
  <2>1. Reduction(in, t, debits, daily) = found
    BY <1>5, AlternativeReduction
  <2>2. Unloaded(t, {rate}) = {} /\ Noticed(in, t, daily) = {} /\ Weekly(in, t) = {}
    <3>1. Clean(found)
      BY <2>1
    <3> HIDE DEF rate
    <3> QED
      BY <3>1 DEF Clean, Found
  <2>3. in.mode = "daily" /\ daily # TRUE =>
          /\ Unloaded(u, {"voluntary_notice"}) = {}
          /\ VoluntaryDaily(in, t).value = VoluntaryDaily(full, u).value
    <3> SUFFICES ASSUME in.mode = "daily", daily # TRUE
                 PROVE  /\ Unloaded(u, {"voluntary_notice"}) = {}
                        /\ VoluntaryDaily(in, t).value = VoluntaryDaily(full, u).value
      OBVIOUS
    <3>1. Unloaded(t, {"voluntary_notice"}) = {}
      BY <2>2 DEF Noticed
    <3>2. /\ Unloaded(u, {"voluntary_notice"}) = {}
          /\ Loaded(t, "voluntary_notice") /\ Loaded(u, "voluntary_notice")
          /\ Value(t, "voluntary_notice") = Value(u, "voluntary_notice")
      BY <3>1, PoorerLoads
    <3> QED
      BY <1>1, <3>2 DEF VoluntaryDaily, Found
  <2>4. rate = AlternativeRate(full, u, daily) /\ Noticed(full, u, daily) = {}
    BY <1>1, <2>3 DEF AlternativeRate, Voluntary, Noticed
  <2>5. in.mode = "monthly" => Loaded(t, "weekly_basis") /\ Loaded(u, "weekly_basis")
    <3>1. in.mode = "monthly" => Unloaded(t, {"weekly_basis"}) = {}
      BY <2>2 DEF Weekly
    <3> QED
      BY <3>1, PoorerLoads
  <2>6. Weekly(full, u) = {}
    BY <1>1, <2>5 DEF Weekly, Unloaded, Loaded
  <2>7. Unloaded(u, {rate}) = {} /\ ByRate(rate, debits, t) = ByRate(rate, debits, u)
    BY <2>2, PoorerLoads, RateRead
  <2>8. Reduction(full, u, debits, daily) =
          Found(ByRate(rate, debits, u).value,
                (Unloaded(u, {rate}) \cup Noticed(full, u, daily)) \cup Weekly(full, u),
                {}, When(full.mode = "monthly" /\ Loaded(u, "weekly_basis"), "not_weekly"))
    <3> DEFINE other == AlternativeRate(full, u, daily)
    <3>1. Customer(full) /\ full.standard # "aggregate_indebtedness"
      BY <1>1, <1>2, <1>5
    <3>2. Reduction(full, u, debits, daily) =
            Found(ByRate(other, debits, u).value,
                  (Unloaded(u, {other}) \cup Noticed(full, u, daily)) \cup Weekly(full, u),
                  {}, When(full.mode = "monthly" /\ Loaded(u, "weekly_basis"), "not_weekly"))
      BY <3>1, AlternativeReduction
    <3>3. other = rate
      BY <2>4
    <3> HIDE DEF rate, other
    <3> QED
      BY <3>2, <3>3
  <2> HIDE DEF rate
  <2>9. (in.mode = "monthly" /\ Loaded(t, "weekly_basis")) <=> (full.mode = "monthly" /\ Loaded(u, "weekly_basis"))
    BY <1>1, <2>5
  <2>10. When(in.mode = "monthly" /\ Loaded(t, "weekly_basis"), "not_weekly")
           = When(full.mode = "monthly" /\ Loaded(u, "weekly_basis"), "not_weekly")
    BY <2>9 DEF When
  <2> QED
    BY <2>1, <2>2, <2>4, <2>6, <2>7, <2>8, <2>10
<1> QED
  BY <1>3, <1>4, <1>5

LEMMA FactorRead ==
    ASSUME NEW in, NEW full, BlankReserve(in, full), NEW t, NEW u, Poorer(t, u), Clean(FactorOf(in, t))
    PROVE  FactorOf(in, t) = FactorOf(full, u)
<1>1. /\ in.accounts = full.accounts /\ in.mode = full.mode
      /\ \A f \in {"carries", "proprietary", "lastRequired", "clean", "indebtedness", "netCapital", "funds"} :
           in[f] \in {full[f], None}
  BY DEF BlankReserve, ReserveGiven, Blanker, BlankFigures
<1>2. Customer(in) <=> Customer(full)
  BY <1>1 DEF Customer
<1>3. CASE in.mode # "monthly"
  BY <1>1, <1>3 DEF FactorOf, DepositFactor
<1>4. CASE in.mode = "monthly" /\ Customer(in)
  <2> DEFINE rules == {"monthly_ai_ceiling", "monthly_funds_ceiling", "monthly_factor"}
             evidence == {"indebtedness", "netCapital", "funds"}
  <2>1. FactorOf(in, t) = CustomerMonthly(in, t) /\ FactorOf(full, u) = CustomerMonthly(full, u)
    BY <1>1, <1>2, <1>4 DEF FactorOf, DepositFactor
  <2>2. Unloaded(t, rules) = {} /\ \A x \in evidence : in[x] # None
    BY <2>1 DEF CustomerMonthly, Clean, Found
  <2>3. \A x \in evidence : in[x] = full[x]
    BY <1>1, <2>2
  <2>4. Unloaded(u, rules) = {}
        /\ \A id \in rules : Loaded(t, id) /\ Loaded(u, id) /\ Value(t, id) = Value(u, id)
    BY <2>2, PoorerLoads
  <2>5. CustomerMonthly(in, t) = CustomerMonthly(full, u)
    BY <2>2, <2>3, <2>4 DEF CustomerMonthly
  <2> QED
    BY <2>1, <2>5
<1>5. CASE in.mode = "monthly" /\ ~Customer(in)
  <2>1. FactorOf(in, t) = PabMonthly(in, t) /\ FactorOf(full, u) = PabMonthly(full, u)
    BY <1>1, <1>2, <1>5 DEF FactorOf, DepositFactor
  <2>2. Loaded(t, "pab_monthly")
    BY <2>1 DEF PabMonthly, Clean, Found
  <2>3. Loaded(u, "pab_monthly")
    BY <2>2 DEF Poorer, Loaded
  <2>4. in.carries # None /\ in.proprietary # None /\ in.lastRequired # None
    BY <2>1, <2>2 DEF PabMonthly, Clean, Found
  <2>5. in.carries = full.carries /\ in.proprietary = full.proprietary /\ in.lastRequired = full.lastRequired
    BY <1>1, <2>4
  <2>6. in.lastRequired = TRUE => Unloaded(t, {"clean_weekly"}) = {} /\ in.clean # None
    BY <2>1, <2>2 DEF PabMonthly, Clean, Found, When
  <2>7. in.lastRequired = TRUE =>
          /\ Unloaded(u, {"clean_weekly"}) = {} /\ Value(t, "clean_weekly") = Value(u, "clean_weekly")
          /\ in.clean = full.clean
    BY <1>1, <2>6, PoorerLoads
  <2>8. PabMonthly(in, t) = PabMonthly(full, u)
    <3>1. CASE in.lastRequired = TRUE
      BY <2>2, <2>3, <2>5, <2>6, <2>7, <3>1 DEF PabMonthly
    <3>2. CASE in.lastRequired # TRUE
      BY <2>2, <2>3, <2>5, <3>2 DEF PabMonthly, When
    <3> QED
      BY <3>1, <3>2
  <2> QED
    BY <2>1, <2>8
<1> QED
  BY <1>3, <1>4, <1>5

LEMMA ReliefRead ==
    ASSUME NEW in, NEW full, BlankReserve(in, full), NEW t, NEW u, Poorer(t, u),
           NEW requirement, Clean(Relief(in, t, requirement))
    PROVE  Relief(in, t, requirement) = Relief(full, u, requirement)
<1>1. /\ in.accounts = full.accounts /\ in.excess = full.excess
      /\ in.excessAsOf = full.excessAsOf /\ in.as_of = full.as_of
  BY DEF BlankReserve, ReserveGiven
<1>2. CASE Customer(in) \/ in.excess = None \/ in.excessAsOf # in.as_of
  BY <1>1, <1>2 DEF Relief, Customer
<1>3. CASE ~(Customer(in) \/ in.excess = None \/ in.excessAsOf # in.as_of)
  <2>1. Unloaded(t, {"pab_from_customer"}) = {}
    BY <1>3 DEF Relief, Clean, Found
  <2>2. Unloaded(u, {"pab_from_customer"}) = {}
        /\ Loaded(t, "pab_from_customer") /\ Loaded(u, "pab_from_customer")
    BY <2>1, PoorerLoads
  <2> QED
    BY <1>1, <1>3, <2>1, <2>2 DEF Relief, Customer
<1> QED
  BY <1>2, <1>3

LEMMA BankRead ==
    ASSUME NEW in, NEW full, BlankReserve(in, full), NEW t, NEW u, Poorer(t, u), Clean(BankOf(in, t))
    PROVE  BankOf(in, t) = BankOf(full, u)
<1> DEFINE cash == in.cash
           securities == in.securities
           poorer == [d \in cash |-> Counted(d, t)]
           richer == [d \in cash |-> Counted(d, u)]
<1>1. full.cash = cash /\ securities \in {full.securities, None}
  BY DEF BlankReserve, ReserveGiven, Blanker, BlankFigures
<1>2. BankOf(in, t) = Eligible(cash, securities, t) /\ BankOf(full, u) = Eligible(cash, full.securities, u)
  BY <1>1 DEF BankOf
<1> HIDE DEF cash, securities
<1>3. /\ cash # {} => Unloaded(t, {"bank_equity_cap"}) = {}
      /\ (\E d \in cash : d.affiliated) => Unloaded(t, {"affiliated_excluded"}) = {}
      /\ securities # None
  BY <1>2 DEF Eligible, Clean, Found, When
<1>4. cash # {} => /\ Unloaded(u, {"bank_equity_cap"}) = {}
                   /\ Loaded(t, "bank_equity_cap") /\ Loaded(u, "bank_equity_cap")
                   /\ Value(t, "bank_equity_cap") = Value(u, "bank_equity_cap")
  BY <1>3, PoorerLoads
<1>5. (\E d \in cash : d.affiliated) =>
        /\ Unloaded(u, {"affiliated_excluded"}) = {}
        /\ Loaded(t, "affiliated_excluded") /\ Loaded(u, "affiliated_excluded")
  BY <1>3, PoorerLoads
<1>6. \A d \in cash : Counted(d, t) = Counted(d, u)
  BY <1>4, <1>5 DEF Counted
<1>7. poorer = richer
  BY <1>6
<1>8. securities = full.securities
  BY <1>1, <1>3
<1>9. (IF cash = {} THEN {} ELSE Unloaded(t, {"bank_equity_cap"}))
        = (IF cash = {} THEN {} ELSE Unloaded(u, {"bank_equity_cap"}))
  BY <1>3, <1>4
<1>10. (IF \E d \in cash : d.affiliated THEN Unloaded(t, {"affiliated_excluded"}) ELSE {})
         = (IF \E d \in cash : d.affiliated THEN Unloaded(u, {"affiliated_excluded"}) ELSE {})
  BY <1>3, <1>5
<1>11. Eligible(cash, securities, t) = Eligible(cash, securities, u)
  BY <1>7, <1>9, <1>10, Zenon DEF Eligible
<1> QED
  BY <1>2, <1>8, <1>11

\* A reserve computation that passes for one who knows less passes.
LEMMA ReserveKnowsMore ==
    ASSUME NEW in, NEW full, BlankReserve(in, full), NEW t, NEW u, Poorer(t, u),
           compute_reserve(in, t).disposition = "PASS"
    PROVE  compute_reserve(full, u).disposition = "PASS"
<1>1. /\ Clean(LinesOf(in, t)) /\ Clean(DailyOf(in, t)) /\ Clean(ReducedOf(in, t))
      /\ Clean(FactorOf(in, t)) /\ Clean(ReliefOf(in, t)) /\ Clean(BankOf(in, t))
      /\ Clean(ShortPart(in, t))
  BY ReservePasses
<1>2. in.lines = full.lines /\ LinesOf(in, t) = LinesOf(full, u)
  BY <1>1, LinesRead
<1>3. DailyOf(in, t) = DailyOf(full, u)
  BY <1>1, DailyRead
<1>4. ReducedOf(in, t) = ReducedOf(full, u)
  <2> DEFINE debits == LinesOf(in, t).value.debits
             daily == DailyOf(in, t).value
  <2>1. ReducedOf(in, t) = Reduction(in, t, debits, daily)
    BY DEF ReducedOf
  <2>2. ReducedOf(full, u) = Reduction(full, u, debits, daily)
    BY <1>2, <1>3 DEF ReducedOf
  <2> HIDE DEF debits, daily
  <2> QED
    BY <1>1, <1>2, <2>1, <2>2, ReducedRead
<1>5. FactorOf(in, t) = FactorOf(full, u)
  BY <1>1, FactorRead
<1>6. ExcessOf(in, t) = ExcessOf(full, u)
  BY <1>2, <1>4 DEF ExcessOf
<1>7. RequirementOf(in, t) = RequirementOf(full, u)
  BY <1>5, <1>6, Zenon DEF RequirementOf
<1>8. ReliefOf(in, t) = ReliefOf(full, u)
  <2> DEFINE requirement == RequirementOf(in, t)
  <2>1. ReliefOf(in, t) = Relief(in, t, requirement) /\ ReliefOf(full, u) = Relief(full, u, requirement)
    BY <1>7 DEF ReliefOf
  <2> HIDE DEF requirement
  <2> QED
    BY <1>1, <2>1, ReliefRead
<1>9. BankOf(in, t) = BankOf(full, u)
  BY <1>1, BankRead
<1>10. ShortOf(in, t) = ShortOf(full, u)
  BY <1>7, <1>8, <1>9, Zenon DEF ShortOf, AfterOf
<1>11. ShortPart(in, t) = ShortPart(full, u)
  BY <1>10, Zenon DEF ShortPart
<1> QED
  BY <1>1, <1>2, <1>3, <1>4, <1>5, <1>8, <1>9, <1>11, ReservePasses

-----------------------------------------------------------------------------
\* Net capital, part by part.
AdjustedOf(in)    == Adjusted(in.worth, in.additions, in.deductions)
HaircutOf(in, t)  == Haircuts(in, t)
RatioOf(in, t)    == RatioRequirement(in, t)
CapitalOf(in, t)  ==
    IF AllKnown({AdjustedOf(in).value, HaircutOf(in, t).value})
      THEN AdjustedOf(in).value - HaircutOf(in, t).value ELSE None
MinimumOf(in, t)  ==
    IF AllKnown({RatioOf(in, t).value, Value(t, in.category)})
      THEN Larger(RatioOf(in, t).value, Value(t, in.category)) ELSE None
WarningsOf(in, t) ==
    EarlyWarnings(in, t, CapitalOf(in, t), AdjustedOf(in).value, MinimumOf(in, t))
BreachOf(in, t)   ==
    Found(None, Unloaded(t, {in.category}), {},
          CapitalBreaches(in, t, CapitalOf(in, t), Value(t, in.category), RatioOf(in, t).value))

LEMMA CapitalPasses ==
    ASSUME NEW in, NEW t
    PROVE  compute_net_capital(in, t).disposition = "PASS" <=>
             /\ Clean(AdjustedOf(in)) /\ Clean(HaircutOf(in, t)) /\ Clean(RatioOf(in, t))
             /\ Clean(WarningsOf(in, t)) /\ Clean(BreachOf(in, t))
<1> DEFINE a == AdjustedOf(in)
           b == HaircutOf(in, t)
           c == RatioOf(in, t)
           d == WarningsOf(in, t)
           e == BreachOf(in, t)
<1>1. compute_net_capital(in, t) =
        [disposition |-> Disposed(<<a, b, c>> \o <<d, e>>), capital |-> CapitalOf(in, t),
         minimum |-> MinimumOf(in, t)]
  BY Zenon DEF compute_net_capital, WithHaircuts, NetCapitalResult, AdjustedOf, HaircutOf, RatioOf,
         CapitalOf, MinimumOf, WarningsOf, BreachOf
<1> HIDE DEF a, b, c, d, e
<1>2. compute_net_capital(in, t).disposition = Disposed(<<a, b, c>> \o <<d, e>>)
  BY <1>1
<1>3. <<a, b, c>> \in Seq({a, b, c, d, e}) /\ <<d, e>> \in Seq({a, b, c, d, e})
  OBVIOUS
<1>4. Disposed(<<a, b, c>> \o <<d, e>>) = "PASS" <=>
        /\ \A k \in DOMAIN <<a, b, c>> : Clean(<<a, b, c>>[k])
        /\ \A k \in DOMAIN <<d, e>> : Clean(<<d, e>>[k])
  BY <1>3, BothClean
<1>5. (\A k \in DOMAIN <<a, b, c>> : Clean(<<a, b, c>>[k])) <=> Clean(a) /\ Clean(b) /\ Clean(c)
  <2>1. DOMAIN <<a, b, c>> = {1, 2, 3}
    OBVIOUS
  <2> QED
    BY <2>1
<1>6. (\A k \in DOMAIN <<d, e>> : Clean(<<d, e>>[k])) <=> Clean(d) /\ Clean(e)
  <2>1. DOMAIN <<d, e>> = {1, 2}
    OBVIOUS
  <2> QED
    BY <2>1
<1> QED
  BY <1>2, <1>4, <1>5, <1>6 DEF a, b, c, d, e

CapitalFigures == {"worth", "debits", "months", "monthly", "loaned", "borrowed", "a3", "a4", "a5",
                   "indebtedness"}
CapitalGiven == {"additions", "deductions", "positions", "election", "standard", "category"}
BlankCapital(in, full) ==
    /\ Blanker(in, full, CapitalFigures)
    /\ \A f \in CapitalGiven : in[f] = full[f]

LEMMA AdjustedRead ==
    ASSUME NEW in, NEW full, BlankCapital(in, full), Clean(AdjustedOf(in))
    PROVE  AdjustedOf(in) = AdjustedOf(full)
<1>1. /\ in.worth \in {full.worth, None}
      /\ in.additions = full.additions /\ in.deductions = full.deductions
  BY DEF BlankCapital, Blanker, CapitalFigures, CapitalGiven
<1>2. in.worth # None
  <2> DEFINE w == in.worth
             a == in.additions
             d == in.deductions
  <2>1. Clean(Adjusted(w, a, d))
    BY DEF AdjustedOf
  <2> HIDE DEF w, a, d
  <2>2. w # None
    BY <2>1 DEF Adjusted, Clean, Found, When
  <2> QED
    BY <2>2 DEF w
<1> QED
  BY <1>1, <1>2, Zenon DEF AdjustedOf

LEMMA GovernmentRead ==
    ASSUME NEW in, NEW full, BlankCapital(in, full), NEW t, NEW u, Poorer(t, u), NEW positions,
           Clean(GovernmentHaircut(in, positions, t))
    PROVE  GovernmentHaircut(in, positions, t) = GovernmentHaircut(full, positions, u)
<1> DEFINE needs == BandRules \cup When(in.election = "category", "government_offset")
<1>1. in.election = full.election /\ \A v \in Provisions : in[v] \in {full[v], None}
  BY DEF BlankCapital, Blanker, CapitalFigures, CapitalGiven, Provisions
<1>2. CASE positions = {}
  BY <1>2 DEF GovernmentHaircut
<1>3. CASE positions # {}
  <2>1. Unloaded(t, needs) = {} /\ \A v \in Provisions : in[v] # None
    BY <1>3 DEF GovernmentHaircut, Clean, Found
  <2>2. \A v \in Provisions : in[v] = full[v]
    BY <1>1, <2>1
  <2>3. Unloaded(u, needs) = {} /\ Values(t, needs) = Values(u, needs)
    BY <2>1, PoorerLoads
  <2>4. /\ {v \in Provisions : in[v] = TRUE} = {v \in Provisions : full[v] = TRUE}
        /\ {v \in Provisions : in[v] = None} = {v \in Provisions : full[v] = None}
        /\ (\A v \in Provisions : in[v] = FALSE) <=> (\A v \in Provisions : full[v] = FALSE)
    BY <2>2
  <2>5. needs = BandRules \cup When(full.election = "category", "government_offset")
    BY <1>1
  <2> HIDE DEF needs
  <2>6. GovernmentHaircut(in, positions, t) =
          Found(IF /\ \A v \in Provisions : in[v] = FALSE
                   /\ Unloaded(t, needs) = {} /\ ~(\E p \in positions : p.months = None)
                  THEN AllCategories(in.election, positions, Values(t, needs)) ELSE None,
                Unloaded(t, needs) \cup {v \in Provisions : in[v] = TRUE},
                {v \in Provisions : in[v] = None}
                  \cup When(Unloaded(t, needs) = {} /\ \E p \in positions : p.months = None,
                            "months_to_maturity"),
                {})
    BY <1>3, Zenon DEF GovernmentHaircut, needs
  <2>7. GovernmentHaircut(full, positions, u) =
          Found(IF /\ \A v \in Provisions : full[v] = FALSE
                   /\ Unloaded(u, needs) = {} /\ ~(\E p \in positions : p.months = None)
                  THEN AllCategories(full.election, positions, Values(u, needs)) ELSE None,
                Unloaded(u, needs) \cup {v \in Provisions : full[v] = TRUE},
                {v \in Provisions : full[v] = None}
                  \cup When(Unloaded(u, needs) = {} /\ \E p \in positions : p.months = None,
                            "months_to_maturity"),
                {})
    <3>1. When(full.election = "category", "government_offset")
            = When(in.election = "category", "government_offset")
      BY <1>1
    <3> QED
      BY <1>3, <3>1, Zenon DEF GovernmentHaircut, needs
  <2> QED
    BY <1>1, <2>1, <2>3, <2>4, <2>6, <2>7
<1> QED
  BY <1>2, <1>3

LEMMA EquityRead ==
    ASSUME NEW t, NEW u, Poorer(t, u), NEW positions, Clean(EquityHaircut(positions, t))
    PROVE  EquityHaircut(positions, t) = EquityHaircut(positions, u)
<1>1. CASE positions = {}
  BY <1>1 DEF EquityHaircut
<1>2. CASE positions # {}
  <2>1. Unloaded(t, EquityRules) = {}
    BY <1>2 DEF EquityHaircut, Clean, Found
  <2>2. Unloaded(u, EquityRules) = {} /\ Values(t, EquityRules) = Values(u, EquityRules)
    BY <2>1, PoorerLoads
  <2> QED
    BY <1>2, <2>1, <2>2 DEF EquityHaircut
<1> QED
  BY <1>1, <1>2

LEMMA HaircutRead ==
    ASSUME NEW in, NEW full, BlankCapital(in, full), NEW t, NEW u, Poorer(t, u), Clean(HaircutOf(in, t))
    PROVE  HaircutOf(in, t) = HaircutOf(full, u)
<1> DEFINE unknown == {p.class : p \in in.positions} \ AssetClasses
           bonds == OfClass("government", in.positions)
           shares == OfClass("equity", in.positions)
           government == GovernmentHaircut(in, bonds, t)
           equity == EquityHaircut(shares, t)
<1>1. in.positions = full.positions
  BY DEF BlankCapital, CapitalGiven
<1>2. HaircutOf(in, t) = HaircutsOf(unknown, government, equity)
  BY Zenon DEF HaircutOf, Haircuts
<1>3. HaircutOf(full, u) =
        HaircutsOf(unknown, GovernmentHaircut(full, bonds, u), EquityHaircut(shares, u))
  BY <1>1, Zenon DEF HaircutOf, Haircuts
<1> HIDE DEF unknown, bonds, shares
<1>4. government.rules = {} /\ government.inputs = {} /\ equity.rules = {}
  BY <1>2 DEF HaircutsOf, Clean, Found
<1>5. government.breaches = {}
  BY DEF GovernmentHaircut, Found
<1>6. equity.inputs = {} /\ equity.breaches = {}
  BY DEF EquityHaircut, Found
<1>7. government = GovernmentHaircut(full, bonds, u)
  BY <1>4, <1>5, GovernmentRead DEF Clean
<1>8. equity = EquityHaircut(shares, u)
  BY <1>4, <1>6, EquityRead DEF Clean
<1> QED
  BY <1>2, <1>3, <1>7, <1>8

LEMMA RatioRead ==
    ASSUME NEW in, NEW full, BlankCapital(in, full), NEW t, NEW u, Poorer(t, u), Clean(RatioOf(in, t))
    PROVE  /\ RatioOf(in, t) = RatioOf(full, u)
           /\ Alternative(in) => in.debits = full.debits
           /\ ~Alternative(in) => in.indebtedness = full.indebtedness
           /\ Ceiling(in, t) = Ceiling(full, u)
<1>1. /\ in.debits \in {full.debits, None} /\ in.months \in {full.months, None}
      /\ in.indebtedness \in {full.indebtedness, None}
      /\ in.standard = full.standard
  BY DEF BlankCapital, Blanker, CapitalFigures, CapitalGiven
<1>2. Alternative(in) <=> Alternative(full)
  BY <1>1 DEF Alternative
<1>3. CASE Alternative(in)
  <2> DEFINE rules == {"alternative_floor", "alternative_percent"}
  <2>1. in.debits # None /\ Unloaded(t, rules) = {}
    BY <1>3 DEF RatioOf, RatioRequirement, Clean, Found, When
  <2>2. /\ Unloaded(u, rules) = {}
        /\ \A id \in rules : Loaded(t, id) /\ Loaded(u, id) /\ Value(t, id) = Value(u, id)
    BY <2>1, PoorerLoads
  <2>3. in.debits = full.debits
    BY <1>1, <2>1
  <2>4. RatioOf(in, t) = RatioOf(full, u)
    BY <1>2, <1>3, <2>1, <2>2, <2>3 DEF RatioOf, RatioRequirement
  <2>5. Ceiling(in, t) = Ceiling(full, u)
    BY <1>2, <1>3 DEF Ceiling
  <2> QED
    BY <1>3, <2>3, <2>4, <2>5
<1>4. CASE ~Alternative(in)
  <2> DEFINE first == in.months < Value(t, "first_year_months")
             rule == IF first THEN "ai_ceiling_first_year" ELSE "ai_ceiling"
  <2>1. in.indebtedness # None /\ in.months # None /\ Unloaded(t, {"first_year_months"}) = {}
    BY <1>4 DEF RatioOf, RatioRequirement, Clean, Found, When, Unloaded
  <2>2. in.indebtedness = full.indebtedness /\ in.months = full.months
    BY <1>1, <2>1
  <2>3. /\ Loaded(t, "first_year_months") /\ Loaded(u, "first_year_months")
        /\ Value(t, "first_year_months") = Value(u, "first_year_months")
    BY <2>1, PoorerLoads
  <2>4. RatioOf(in, t) =
          Found(IF Loaded(t, rule) /\ in.indebtedness # None
                  THEN in.indebtedness \div Value(t, rule) ELSE None,
                Unloaded(t, {"first_year_months"} \cup {rule}),
                When(in.indebtedness = None, "aggregate_indebtedness")
                  \cup When(in.months = None, "months_in_business"), {})
    BY <1>4, <2>1, <2>3 DEF RatioOf, RatioRequirement
  <2>5. RatioOf(full, u) =
          Found(IF Loaded(u, rule) /\ in.indebtedness # None
                  THEN in.indebtedness \div Value(u, rule) ELSE None,
                Unloaded(u, {"first_year_months"} \cup {rule}),
                When(in.indebtedness = None, "aggregate_indebtedness")
                  \cup When(in.months = None, "months_in_business"), {})
    BY <1>2, <1>4, <2>1, <2>2, <2>3 DEF RatioOf, RatioRequirement
  <2>6. Unloaded(t, {"first_year_months"} \cup {rule}) = {}
    <3> HIDE DEF rule
    <3> QED
      BY <2>4 DEF Clean, Found
  <2>7. /\ Unloaded(u, {"first_year_months"} \cup {rule}) = {}
        /\ Loaded(t, rule) /\ Loaded(u, rule) /\ Value(t, rule) = Value(u, rule)
    <3> HIDE DEF rule
    <3> QED
      BY <2>6, PoorerLoads
  <2>8. RatioOf(in, t) = RatioOf(full, u)
    <3> DEFINE quotient(v) == in.indebtedness \div v
    <3>1. RatioOf(in, t) =
            Found(IF Loaded(t, rule) /\ in.indebtedness # None THEN quotient(Value(t, rule)) ELSE None,
                  Unloaded(t, {"first_year_months"} \cup {rule}),
                  When(in.indebtedness = None, "aggregate_indebtedness")
                    \cup When(in.months = None, "months_in_business"), {})
      BY <2>4, Zenon
    <3>2. RatioOf(full, u) =
            Found(IF Loaded(u, rule) /\ in.indebtedness # None THEN quotient(Value(u, rule)) ELSE None,
                  Unloaded(u, {"first_year_months"} \cup {rule}),
                  When(in.indebtedness = None, "aggregate_indebtedness")
                    \cup When(in.months = None, "months_in_business"), {})
      BY <2>5, Zenon
    <3> HIDE DEF rule, quotient
    <3> QED
      BY <2>1, <2>6, <2>7, <3>1, <3>2
  <2>9. Ceiling(in, t) = Value(t, rule)
    BY <1>4, <2>1, <2>3 DEF Ceiling
  <2>10. Ceiling(full, u) = Value(u, rule)
    BY <1>2, <1>4, <2>1, <2>2, <2>3 DEF Ceiling
  <2> QED
    BY <1>4, <2>2, <2>7, <2>8, <2>9, <2>10
<1> QED
  BY <1>3, <1>4

LEMMA WarningsRead ==
    ASSUME NEW in, NEW full, BlankCapital(in, full), NEW t, NEW u, Poorer(t, u),
           Alternative(in) => in.debits = full.debits,
           ~Alternative(in) => in.indebtedness = full.indebtedness,
           NEW capital, NEW tentative, NEW minimum,
           Clean(EarlyWarnings(in, t, capital, tentative, minimum))
    PROVE  EarlyWarnings(in, t, capital, tentative, minimum)
             = EarlyWarnings(full, u, capital, tentative, minimum)
<1> DEFINE standard == IF Alternative(in) THEN "alternative_warning" ELSE "ai_warning"
           lending == in.monthly # TRUE
           needs == {standard, "minimum_warning"} \cup When(lending, "leverage_warning")
<1>1. /\ in.monthly \in {full.monthly, None} /\ in.standard = full.standard
      /\ \A a \in LendingActivity : in[a] \in {full[a], None}
  BY DEF BlankCapital, Blanker, CapitalFigures, CapitalGiven, LendingActivity
<1>2. Alternative(in) <=> Alternative(full)
  BY <1>1 DEF Alternative
<1>3. /\ Unloaded(t, needs) = {} /\ in.monthly # None
      /\ \A a \in LendingActivity : ~(lending /\ in[a] = None)
  <2> DEFINE found == EarlyWarnings(in, t, capital, tentative, minimum)
  <2>1. found.rules = Unloaded(t, needs)
    BY DEF EarlyWarnings, Found
  <2>2. found.inputs = When(in.monthly = None, "reports_lending_activity_monthly")
                         \cup {a \in LendingActivity : lending /\ in[a] = None}
    BY DEF EarlyWarnings, Found
  <2> HIDE DEF found
  <2> QED
    BY <2>1, <2>2 DEF Clean, When, found
<1>4. in.monthly = full.monthly
  BY <1>1, <1>3
<1>5. /\ Unloaded(u, needs) = {} /\ \A id \in needs : Loaded(t, id) /\ Loaded(u, id) /\ Value(t, id) = Value(u, id)
  <2> HIDE DEF needs
  <2> QED
    BY <1>3, PoorerLoads
<1>6. standard \in needs /\ "minimum_warning" \in needs /\ (lending => "leverage_warning" \in needs)
  BY DEF When
<1>7. \A amount : /\ Times(standard, amount, t) = Times(standard, amount, u)
                  /\ Times("minimum_warning", amount, t) = Times("minimum_warning", amount, u)
                  /\ lending => Times("leverage_warning", amount, t) = Times("leverage_warning", amount, u)
  <2> HIDE DEF needs, standard, lending
  <2> QED
    BY <1>5, <1>6, Zenon DEF Times
<1>8. /\ {a \in LendingActivity : lending /\ in[a] = None} = {a \in LendingActivity : lending /\ full[a] = None}
      /\ {a \in LendingActivity :
             lending /\ Warned(a, in[a], Times("leverage_warning", tentative, t), FALSE) # {}}
           = {a \in LendingActivity :
                lending /\ Warned(a, full[a], Times("leverage_warning", tentative, u), FALSE) # {}}
  <2>1. lending => \A a \in LendingActivity : in[a] = full[a]
    BY <1>1, <1>3
  <2> HIDE DEF lending
  <2> QED
    BY <1>7, <2>1
<1>9. (IF Alternative(in)
         THEN Warned(standard, capital, Times(standard, in.debits, t), TRUE)
         ELSE Warned(standard, in.indebtedness, Times(standard, capital, t), FALSE))
      = (IF Alternative(in)
           THEN Warned(standard, capital, Times(standard, full.debits, u), TRUE)
           ELSE Warned(standard, full.indebtedness, Times(standard, capital, u), FALSE))
  <2> HIDE DEF standard
  <2> QED
    BY <1>7
<1>10. EarlyWarnings(in, t, capital, tentative, minimum) =
        Found(None, Unloaded(t, needs),
          When(in.monthly = None, "reports_lending_activity_monthly")
            \cup {a \in LendingActivity : lending /\ in[a] = None},
          ((IF Alternative(in)
             THEN Warned(standard, capital, Times(standard, in.debits, t), TRUE)
             ELSE Warned(standard, in.indebtedness, Times(standard, capital, t), FALSE))
            \cup Warned("minimum_warning", capital, Times("minimum_warning", minimum, t), TRUE))
            \cup {a \in LendingActivity :
                    lending /\ Warned(a, in[a], Times("leverage_warning", tentative, t), FALSE) # {}})
  BY Zenon DEF EarlyWarnings, needs, standard, lending
<1>11. EarlyWarnings(full, u, capital, tentative, minimum) =
        Found(None, Unloaded(u, needs),
          When(in.monthly = None, "reports_lending_activity_monthly")
            \cup {a \in LendingActivity : lending /\ full[a] = None},
          ((IF Alternative(in)
             THEN Warned(standard, capital, Times(standard, full.debits, u), TRUE)
             ELSE Warned(standard, full.indebtedness, Times(standard, capital, u), FALSE))
            \cup Warned("minimum_warning", capital, Times("minimum_warning", minimum, u), TRUE))
            \cup {a \in LendingActivity :
                    lending /\ Warned(a, full[a], Times("leverage_warning", tentative, u), FALSE) # {}})
  <2> DEFINE other == IF Alternative(full) THEN "alternative_warning" ELSE "ai_warning"
             fullLending == full.monthly # TRUE
             fullNeeds == {other, "minimum_warning"} \cup When(fullLending, "leverage_warning")
  <2>1. EarlyWarnings(full, u, capital, tentative, minimum) =
          Found(None, Unloaded(u, fullNeeds),
            When(full.monthly = None, "reports_lending_activity_monthly")
              \cup {a \in LendingActivity : fullLending /\ full[a] = None},
            ((IF Alternative(full)
               THEN Warned(other, capital, Times(other, full.debits, u), TRUE)
               ELSE Warned(other, full.indebtedness, Times(other, capital, u), FALSE))
              \cup Warned("minimum_warning", capital, Times("minimum_warning", minimum, u), TRUE))
              \cup {a \in LendingActivity :
                      fullLending /\ Warned(a, full[a], Times("leverage_warning", tentative, u), FALSE) # {}})
    BY Zenon DEF EarlyWarnings
  <2>2. other = standard /\ (fullLending <=> lending)
    BY <1>2, <1>4
  <2>3. fullNeeds = needs
    BY <1>4, <2>2
  <2>4. /\ {a \in LendingActivity : fullLending /\ full[a] = None}
             = {a \in LendingActivity : lending /\ full[a] = None}
        /\ {a \in LendingActivity :
               fullLending /\ Warned(a, full[a], Times("leverage_warning", tentative, u), FALSE) # {}}
             = {a \in LendingActivity :
                 lending /\ Warned(a, full[a], Times("leverage_warning", tentative, u), FALSE) # {}}
    BY <2>2, Zenon
  <2> HIDE DEF other, fullLending, fullNeeds, standard, lending, needs
  <2> QED
    BY <1>2, <1>4, <2>1, <2>2, <2>3, <2>4
<1> HIDE DEF needs, standard, lending
<1> QED
  BY <1>3, <1>5, <1>7, <1>8, <1>9, <1>10, <1>11

\* Net capital that passes for one who knows less passes.
LEMMA CapitalKnowsMore ==
    ASSUME NEW in, NEW full, BlankCapital(in, full), NEW t, NEW u, Poorer(t, u),
           compute_net_capital(in, t).disposition = "PASS"
    PROVE  compute_net_capital(full, u).disposition = "PASS"
<1>1. /\ Clean(AdjustedOf(in)) /\ Clean(HaircutOf(in, t)) /\ Clean(RatioOf(in, t))
      /\ Clean(WarningsOf(in, t)) /\ Clean(BreachOf(in, t))
  BY CapitalPasses
<1>2. AdjustedOf(in) = AdjustedOf(full)
  BY <1>1, AdjustedRead
<1>3. HaircutOf(in, t) = HaircutOf(full, u)
  BY <1>1, HaircutRead
<1>4. /\ RatioOf(in, t) = RatioOf(full, u) /\ Ceiling(in, t) = Ceiling(full, u)
      /\ Alternative(in) => in.debits = full.debits
      /\ ~Alternative(in) => in.indebtedness = full.indebtedness
  BY <1>1, RatioRead
<1>5. CapitalOf(in, t) = CapitalOf(full, u)
  BY <1>2, <1>3, Zenon DEF CapitalOf
<1>6. in.category = full.category /\ (Alternative(in) <=> Alternative(full))
  BY DEF BlankCapital, CapitalGiven, Alternative
<1>7. Unloaded(t, {in.category}) = {}
  <2> DEFINE category == in.category
             breaches == CapitalBreaches(in, t, CapitalOf(in, t), Value(t, in.category), RatioOf(in, t).value)
  <2>1. BreachOf(in, t) = Found(None, Unloaded(t, {category}), {}, breaches)
    BY DEF BreachOf
  <2> HIDE DEF category, breaches
  <2>2. Unloaded(t, {category}) = {}
    BY <1>1, <2>1 DEF Clean, Found
  <2> QED
    BY <2>2 DEF category
<1>8. Unloaded(u, {in.category}) = {} /\ Value(t, in.category) = Value(u, in.category)
  BY <1>7, PoorerLoads
<1>9. MinimumOf(in, t) = MinimumOf(full, u)
  BY <1>4, <1>6, <1>8, Zenon DEF MinimumOf
<1>10. WarningsOf(in, t) = WarningsOf(full, u)
  <2> DEFINE capital == CapitalOf(in, t)
             tentative == AdjustedOf(in).value
             minimum == MinimumOf(in, t)
  <2>1. WarningsOf(in, t) = EarlyWarnings(in, t, capital, tentative, minimum)
    BY DEF WarningsOf
  <2>2. WarningsOf(full, u) = EarlyWarnings(full, u, capital, tentative, minimum)
    BY <1>2, <1>5, <1>9 DEF WarningsOf
  <2> HIDE DEF capital, tentative, minimum
  <2> QED
    BY <1>1, <1>4, <2>1, <2>2, WarningsRead
<1>11. BreachOf(in, t) = BreachOf(full, u)
  <2> DEFINE capital == CapitalOf(in, t)
             activity == Value(t, in.category)
             ratio == RatioOf(in, t).value
  <2>1. BreachOf(in, t) = Found(None, {}, {}, CapitalBreaches(in, t, capital, activity, ratio))
    BY <1>7 DEF BreachOf
  <2>2. BreachOf(full, u) = Found(None, {}, {}, CapitalBreaches(full, u, capital, activity, ratio))
    BY <1>4, <1>5, <1>6, <1>8 DEF BreachOf
  <2> HIDE DEF capital, activity, ratio
  <2>3. CapitalBreaches(in, t, capital, activity, ratio) = CapitalBreaches(full, u, capital, activity, ratio)
    <3>1. CASE Alternative(in)
      BY <1>6, <3>1 DEF CapitalBreaches
    <3>2. CASE ~Alternative(in)
      <4> DEFINE ceiling == Ceiling(in, t)
                 owed == in.indebtedness
      <4>1. Ceiling(full, u) = ceiling /\ full.indebtedness = owed
        BY <1>4, <3>2
      <4> HIDE DEF ceiling, owed
      <4> QED
        BY <1>6, <3>2, <4>1, Zenon DEF CapitalBreaches, ceiling, owed
    <3> QED
      BY <3>1, <3>2
  <2> QED
    BY <2>1, <2>2, <2>3
<1> QED
  BY <1>1, <1>2, <1>3, <1>4, <1>10, <1>11, CapitalPasses

-----------------------------------------------------------------------------
\* Possession or control.

\* A finite set, in some order.
LEMMA Ordered ==
    ASSUME NEW S, IsFiniteSet(S)
    PROVE  /\ SetToSeq(S) \in Seq(S)
           /\ \A k \in DOMAIN SetToSeq(S) : SetToSeq(S)[k] \in S
           /\ \A x \in S : \E k \in DOMAIN SetToSeq(S) : SetToSeq(S)[k] = x
<1> DEFINE n == Cardinality(S)
           s == SetToSeq(S)
<1>1. n \in Nat /\ ExistsBijection(1..n, S)
  BY FS_CardinalityType
<1> HIDE DEF n
<1>2. \E f \in [1..n -> S] : IsInjective(f)
  <2>1. PICK f \in Bijection(1..n, S) : TRUE
    BY <1>1 DEF ExistsBijection
  <2> QED
    BY <2>1 DEF Bijection, Injection
<1>3. s = CHOOSE f \in [1..n -> S] : IsInjective(f)
  BY DEF SetToSeq, n
<1> HIDE DEF s
<1>4. s \in [1..n -> S] /\ IsInjective(s)
  BY <1>2, <1>3, Zenon
<1>5. s \in Injection(1..n, S)
  BY <1>4 DEF Injection
<1>6. Cardinality(1..n) = n
  BY <1>1, FS_Interval
<1>7. s \in Surjection(1..n, S)
  BY <1>5, <1>6, FS_Injection DEF n
<1>8. DOMAIN s = 1..n /\ \A x \in S : \E k \in 1..n : s[k] = x
  BY <1>4, <1>7 DEF Surjection
<1>9. s \in Seq(S)
  BY <1>1, <1>4
<1> QED
  BY <1>4, <1>8, <1>9 DEF s

AllChecked(issues, t) == {CheckIssue(i, t) : i \in issues}
NoControl(issues, t) ==
    Found(None, When(t.control = {}, "no_control_location"), When(issues = {}, "issues"), {})

LEMMA ControlPasses ==
    ASSUME NEW issues, IsFiniteSet(issues), NEW t
    PROVE  check_possession_or_control(issues, t).disposition = "PASS" <=>
             /\ \A i \in issues : Clean(CheckIssue(i, t))
             /\ t.control # {} /\ issues # {}
<1> DEFINE S == AllChecked(issues, t)
           s == SetToSeq(S)
           z == NoControl(issues, t)
           V == S \cup {z}
<1>1. IsFiniteSet(S)
  <2> DEFINE f == [i \in issues |-> CheckIssue(i, t)]
  <2>1. IsFiniteSet({f[i] : i \in issues})
    <3> HIDE DEF f
    <3> QED
      BY ImageIsFinite
  <2>2. {f[i] : i \in issues} = S
    BY DEF AllChecked
  <2> QED
    BY <2>1, <2>2
<1>2. check_possession_or_control(issues, t).disposition = Disposed(s \o <<z>>)
  BY DEF check_possession_or_control, AllChecked, NoControl
<1>3. \A x : x \in S <=> \E i \in issues : x = CheckIssue(i, t)
  BY DEF AllChecked
<1>4. Clean(z) <=> t.control # {} /\ issues # {}
  BY DEF NoControl, Clean, Found, When
<1> HIDE DEF S, z
<1>5. /\ s \in Seq(S) /\ \A k \in DOMAIN s : s[k] \in S
      /\ \A x \in S : \E k \in DOMAIN s : s[k] = x
  BY <1>1, Ordered
<1> HIDE DEF s
<1>6. s \in Seq(V) /\ <<z>> \in Seq(V)
  BY <1>5
<1>7. Disposed(s \o <<z>>) = "PASS" <=>
        /\ \A k \in DOMAIN s : Clean(s[k])
        /\ \A k \in DOMAIN <<z>> : Clean(<<z>>[k])
  BY <1>6, BothClean
<1>8. (\A k \in DOMAIN <<z>> : Clean(<<z>>[k])) <=> Clean(z)
  OBVIOUS
<1>9. (\A k \in DOMAIN s : Clean(s[k])) <=> \A i \in issues : Clean(CheckIssue(i, t))
  BY <1>3, <1>5
<1> QED
  BY <1>2, <1>4, <1>7, <1>8, <1>9

\* Of two tables the one that names fewer places, and of two issues the one with
\* fewer figures.
PoorerPlaces(t, u) ==
    /\ t.control \subseteq u.control
    /\ \A l \in t.control \cup t.noncontrol :
         (l \in t.control <=> l \in u.control) /\ (l \in t.noncontrol <=> l \in u.noncontrol)
BlankIssue(i, full) ==
    /\ i.holdings = full.holdings
    /\ \A f \in {"fullyPaid", "excessMargin", "books"} : i[f] \in {full[f], None}

LEMMA IssueRead ==
    ASSUME NEW i, NEW j, BlankIssue(i, j), NEW t, NEW u, PoorerPlaces(t, u), Clean(CheckIssue(i, t))
    PROVE  Clean(CheckIssue(j, u))
<1> DEFINE short == Short(i, t)
           isShort == short # None /\ short > 0
           H == i.holdings
<1>1. /\ Unnamed(i, t) = {}
      /\ \A f \in {"fullyPaid", "excessMargin", "books"} : i[f] # None
      /\ ~(i.books # None /\ Held(i, Everywhere(i)) # i.books)
      /\ ~isShort
  <2> DEFINE acted == IF isShort THEN {h \in i.holdings : h.location \in t.noncontrol} ELSE {}
             actions == {Action(h, t) : h \in acted}
  <2>1. CheckIssue(i, t) =
          Found(short,
                Unnamed(i, t) \cup UNION {a.rules : a \in actions},
                {f \in {"fullyPaid", "excessMargin", "books"} : i[f] = None}
                  \cup UNION {a.inputs : a \in actions},
                When(i.books # None /\ Held(i, Everywhere(i)) # i.books, "not_conserved")
                  \cup When(isShort, "not_in_control"))
    BY Zenon DEF CheckIssue
  <2> HIDE DEF short, actions
  <2> QED
    BY <2>1 DEF Clean, Found, When
<1>2. /\ j.fullyPaid = i.fullyPaid /\ j.excessMargin = i.excessMargin /\ j.books = i.books
      /\ j.holdings = H
      /\ i.fullyPaid # None /\ i.excessMargin # None /\ i.books # None
  BY <1>1 DEF BlankIssue
<1>3. Everywhere(j) = Everywhere(i)
  BY <1>2 DEF Everywhere
<1>4. \A h \in H : h.location \in t.control \cup t.noncontrol
  BY <1>1 DEF Unnamed, Everywhere
<1>5. Unnamed(j, u) = {}
  BY <1>3, <1>4 DEF Unnamed, Everywhere, PoorerPlaces
<1>6. {h \in H : h.location \in t.control} = {h \in H : h.location \in u.control}
  BY <1>4 DEF PoorerPlaces
<1>7. Held(j, u.control) = Held(i, t.control)
  BY <1>2, <1>6 DEF Held
<1>8. Held(j, Everywhere(j)) = Held(i, Everywhere(i))
  <2>1. {h \in i.holdings : h.location \in Everywhere(i)} = {h \in j.holdings : h.location \in Everywhere(j)}
    BY <1>2, <1>3
  <2> QED
    BY <2>1 DEF Held
<1>9. Required(j) = Required(i)
  BY <1>2, Zenon DEF Required
<1>10. Short(j, u) = short
  BY <1>7, <1>9, Zenon DEF Short
<1> HIDE DEF short
<1>11. CheckIssue(j, u) =
         Found(Short(j, u),
               Unnamed(j, u) \cup UNION {a.rules : a \in {Action(h, u) : h \in {}}},
               {f \in {"fullyPaid", "excessMargin", "books"} : j[f] = None}
                 \cup UNION {a.inputs : a \in {Action(h, u) : h \in {}}},
               When(j.books # None /\ Held(j, Everywhere(j)) # j.books, "not_conserved")
                 \cup When(isShort, "not_in_control"))
  <2>1. (Short(j, u) # None /\ Short(j, u) > 0) <=> isShort
    BY <1>10
  <2>2. (IF Short(j, u) # None /\ Short(j, u) > 0
           THEN {h \in j.holdings : h.location \in u.noncontrol} ELSE {}) = {}
    BY <1>1, <2>1
  <2>3. When(Short(j, u) # None /\ Short(j, u) > 0, "not_in_control") = When(isShort, "not_in_control")
    BY <2>1 DEF When
  <2> QED
    BY <2>2, <2>3, Zenon DEF CheckIssue
<1>12. {f \in {"fullyPaid", "excessMargin", "books"} : j[f] = None} = {}
  BY <1>2
<1>13. /\ When(j.books # None /\ Held(j, Everywhere(j)) # j.books, "not_conserved") = {}
       /\ When(isShort, "not_in_control") = {}
  BY <1>1, <1>2, <1>8 DEF When
<1>14. /\ UNION {a.rules : a \in {Action(h, u) : h \in {}}} = {}
       /\ UNION {a.inputs : a \in {Action(h, u) : h \in {}}} = {}
  OBVIOUS
<1> QED
  BY <1>5, <1>11, <1>12, <1>13, <1>14 DEF Clean, Found

\* Control that passes for one who knows less passes.
LEMMA ControlKnowsMore ==
    ASSUME NEW in, NEW full, IsFiniteSet(in), IsFiniteSet(full),
           \A j \in full : \E i \in in : BlankIssue(i, j), in # {} => full # {},
           NEW t, NEW u, PoorerPlaces(t, u),
           check_possession_or_control(in, t).disposition = "PASS"
    PROVE  check_possession_or_control(full, u).disposition = "PASS"
<1>1. /\ \A i \in in : Clean(CheckIssue(i, t))
      /\ t.control # {} /\ in # {}
  BY ControlPasses
<1>2. ASSUME NEW j \in full PROVE Clean(CheckIssue(j, u))
  <2>1. PICK i \in in : BlankIssue(i, j)
    OBVIOUS
  <2> QED
    BY <1>1, <2>1, IssueRead
<1>3. u.control # {}
  BY <1>1 DEF PoorerPlaces
<1> QED
  BY <1>1, <1>2, <1>3, ControlPasses


-----------------------------------------------------------------------------
\* The calendar, and the days of instants.
DayOf(instant) == Calendar!DateOf(instant)

LEMMA DayGrows ==
    ASSUME NEW x \in Nat, NEW y \in Nat, x <= y
    PROVE  DayOf(x) \in Nat /\ DayOf(y) \in Nat /\ DayOf(x) <= DayOf(y)
<1> DEFINE h == HoursPerDay
           p == x \div h
           q == y \div h
           m == x % h
           n == y % h
<1>1. h \in Nat \ {0}
  BY DeadlinesAssumption
<1>2. DayOf(x) = p /\ DayOf(y) = q
  BY DEF DayOf, Calendar!DateOf
<1> HIDE DEF h
<1>3. p \in Nat /\ q \in Nat /\ m \in 0..(h - 1) /\ n \in 0..(h - 1)
  BY <1>1
<1>4. x = h * p + m /\ y = h * q + n
  BY <1>1
<1> HIDE DEF p, q, m, n
<1>5. ASSUME q < p PROVE FALSE
  <2>1. h * (p - (q + 1)) >= 0
    BY <1>1, <1>3, <1>5
  <2>2. h * (p - (q + 1)) = h * p - (h * q + h)
    BY <1>1, <1>3
  <2>3. h * p \in Int /\ h * q \in Int
    BY <1>1, <1>3
  <2> QED
    BY <1>3, <1>4, <2>1, <2>2, <2>3, <1>1
<1> QED
  BY <1>2, <1>3, <1>5

LEMMA CalendarCounts ==
    \A S : /\ Calendar!Cardinality(S) = Cardinality(S)
           /\ Calendar!Min(S) = Min(S) /\ Calendar!Max(S) = Max(S)
<1>1. \A S : Calendar!Cardinality(S) = Cardinality(S)
  BY Zenon DEF Calendar!Cardinality, Cardinality
<1>2. \A S : Calendar!Min(S) = Min(S)
  BY Zenon DEF Calendar!Min, Min
<1>3. \A S : Calendar!Max(S) = Max(S)
  BY Zenon DEF Calendar!Max, Max
<1> QED
  BY <1>1, <1>2, <1>3

LEMMA DayReached ==
    ASSUME NEW start \in Int, NEW days, Calendar!AddBusinessDays(start, days) # None
    PROVE  /\ Calendar!AddBusinessDays(start, days) \in start..LoadedUntil
           /\ Cardinality(Calendar!BusinessDays(start + 1, Calendar!AddBusinessDays(start, days))) = days
<1> DEFINE reached == {d \in start..LoadedUntil :
                         Cardinality(Calendar!BusinessDays(start + 1, d)) = days}
<1>1. Calendar!AddBusinessDays(start, days) = IF reached = {} THEN None ELSE Calendar!Min(reached)
  BY CalendarCounts, Zenon DEF Calendar!AddBusinessDays
<1>2. Calendar!Min(reached) = Min(reached)
  BY CalendarCounts, Zenon
<1>3. LoadedUntil \in Int
  BY DeadlinesAssumption
<1>4. reached \in SUBSET Int /\ \A d \in reached : start <= d
  BY <1>3
<1>5. \A d \in reached : /\ d \in start..LoadedUntil
                         /\ Cardinality(Calendar!BusinessDays(start + 1, d)) = days
  OBVIOUS
<1> HIDE DEF reached
<1>6. Min(reached) \in reached
  BY <1>1, <1>4, MinFrom
<1> QED
  BY <1>1, <1>2, <1>5, <1>6

LEMMA WatchedDay ==
    ASSUME NEW x \in 0..LastInstant
    PROVE  DayOf(x) \in WatchedDates
<1>1. LastInstant \in Nat
  BY DeadlinesAssumption
<1>2. DayOf(x) \in Nat /\ DayOf(LastInstant) \in Nat /\ DayOf(x) <= DayOf(LastInstant)
  BY <1>1, DayGrows
<1> QED
  BY <1>2 DEF WatchedDates, DayOf

LEMMA WatchedDue ==
    ASSUME NEW d \in WatchedDates, NEW r \in DOMAIN DeadlineRules,
           DeadlineRules[r].unit \in {"BUSINESS_DAYS", "SETTLEMENT_DAYS"}
    PROVE  Calendar!AddBusinessDays(d, DeadlineRules[r].value) \in Int
<1> DEFINE value == DeadlineRules[r].value
<1>1. d \in Int /\ LoadedUntil \in Int
  <2>1. LastInstant \in Nat /\ LoadedUntil \in Int
    BY DeadlinesAssumption
  <2>2. Calendar!DateOf(LastInstant) \in Nat
    BY <2>1, DayGrows DEF DayOf
  <2> QED
    BY <2>1, <2>2 DEF WatchedDates
<1>2. Calendar!AddBusinessDays(d, value) # None
  BY DeadlinesAssumption DEF Reaches
<1> HIDE DEF value
<1>3. Calendar!AddBusinessDays(d, value) \in d..LoadedUntil
  BY <1>1, <1>2, DayReached
<1> QED
  BY <1>1, <1>3 DEF value

-----------------------------------------------------------------------------
\* The four assessments, of one item at two instants.
LEMMA BreachesOf ==
    ASSUME NEW due, NEW breaches
    PROVE  /\ Calendar!Assessment(due, {}, {}, breaches).breaches = breaches
           /\ breaches # {} => Calendar!Assessment(due, {}, {}, breaches).disposition # "PASS"
  BY DEF Calendar!Assessment

LEMMA FailStaysLate ==
    ASSUME NEW fail, fail.trade \in WatchedDates, fail.settles \in WatchedDates,
           NEW x \in 0..LastInstant, NEW y \in 0..LastInstant, x <= y,
           Calendar!assess_rule_204(fail, x, TRUE, Open, DeadlineRules).breaches # {}
    PROVE  Calendar!assess_rule_204(fail, y, TRUE, Open, DeadlineRules).disposition # "PASS"
<1> DEFINE rule == DeadlineRules[fail.origin]
           due == IF rule.unit = "SETTLEMENT_DAYS"
                    THEN Calendar!AddBusinessDays(fail.settles, rule.value)
                    ELSE fail.trade + rule.value
           limit == Calendar!At(due, Open)
<1>1. /\ fail.origin # None /\ fail.origin \in Calendar!Origins /\ fail.origin \in DOMAIN DeadlineRules
      /\ Open # None /\ rule.unit \in {"SETTLEMENT_DAYS", "CALENDAR_DAYS"}
  BY DEF Calendar!assess_rule_204, Calendar!NoInput, Calendar!NoRule, Calendar!Assessment
<1>2. /\ Calendar!assess_rule_204(fail, x, TRUE, Open, DeadlineRules) =
              Calendar!Assessment(limit, {}, {}, Calendar!If(x > limit, "close_out_overdue"))
      /\ Calendar!assess_rule_204(fail, y, TRUE, Open, DeadlineRules) =
              Calendar!Assessment(limit, {}, {}, Calendar!If(y > limit, "close_out_overdue"))
  BY <1>1 DEF Calendar!assess_rule_204
<1>3. due \in Int
  <2>1. rule.value \in Int /\ fail.trade \in Int
    <3>1. rule.value \in Int
      BY <1>1, DeadlinesAssumption
    <3>2. LastInstant \in 0..LastInstant /\ LastInstant \in Nat
      BY DeadlinesAssumption
    <3>3. Calendar!DateOf(LastInstant) \in Nat
      BY <3>2, DayGrows DEF DayOf
    <3> QED
      BY <3>1, <3>3 DEF WatchedDates
  <2>2. rule.unit = "SETTLEMENT_DAYS" => Calendar!AddBusinessDays(fail.settles, rule.value) \in Int
    BY <1>1, WatchedDue
  <2> QED
    BY <2>1, <2>2
<1>4. limit \in Int
  <2>1. HoursPerDay \in Int /\ Open \in Int
    BY DeadlinesAssumption
  <2> HIDE DEF due
  <2> QED
    BY <1>3, <2>1 DEF Calendar!At
<1> HIDE DEF limit
<1>5. x \in Int /\ y \in Int
  BY DeadlinesAssumption
<1>6. x > limit
  <2>1. Calendar!If(x > limit, "close_out_overdue") # {}
    BY <1>2, BreachesOf
  <2> QED
    BY <2>1 DEF Calendar!If
<1>7. y > limit
  BY <1>4, <1>5, <1>6
<1>8. Calendar!If(y > limit, "close_out_overdue") # {}
  BY <1>7 DEF Calendar!If
<1>9. Calendar!Assessment(limit, {}, {}, Calendar!If(y > limit, "close_out_overdue")).disposition
        # "PASS"
  BY <1>8, BreachesOf
<1> QED
  BY <1>2, <1>9, Zenon


LEMMA DepositStaysLate ==
    ASSUME NEW computation, computation.at \in 0..LastInstant,
           NEW x \in 0..LastInstant, NEW y \in 0..LastInstant, x <= y,
           Calendar!assess_reserve_deposit(computation, x, TRUE, Open, DeadlineRules).breaches # {}
    PROVE  Calendar!assess_reserve_deposit(computation, y, TRUE, Open, DeadlineRules).disposition
             # "PASS"
<1> DEFINE b == computation.basis
           date == Calendar!AddBusinessDays(Calendar!DateOf(computation.at), DeadlineRules[b].value)
           due == Calendar!At(date, Open) + DeadlineRules.opening_offset.value
<1>1. /\ b # None /\ b \in Calendar!Bases /\ {b, "opening_offset"} \ DOMAIN DeadlineRules = {}
      /\ Open # None /\ DeadlineRules[b].unit = "BUSINESS_DAYS"
      /\ DeadlineRules.opening_offset.unit = "CLOCK_TIME"
  BY DEF Calendar!assess_reserve_deposit, Calendar!NoInput, Calendar!NoRule, Calendar!Assessment
<1>2. /\ Calendar!assess_reserve_deposit(computation, x, TRUE, Open, DeadlineRules) =
              Calendar!Assessment(due, {}, {}, Calendar!If(x > due, "reserve_deposit_overdue"))
      /\ Calendar!assess_reserve_deposit(computation, y, TRUE, Open, DeadlineRules) =
              Calendar!Assessment(due, {}, {}, Calendar!If(y > due, "reserve_deposit_overdue"))
  BY <1>1 DEF Calendar!assess_reserve_deposit
<1>3. date \in Int
  <2>1. DayOf(computation.at) \in WatchedDates /\ b \in DOMAIN DeadlineRules
    BY <1>1, WatchedDay
  <2> QED
    BY <1>1, <2>1, WatchedDue DEF DayOf
<1>4. due \in Int
  <2>1. HoursPerDay \in Int /\ Open \in Int /\ DeadlineRules["opening_offset"].value \in Int
    BY <1>1, DeadlinesAssumption
  <2> HIDE DEF date
  <2> QED
    BY <1>3, <2>1 DEF Calendar!At
<1> HIDE DEF due
<1>5. x \in Int /\ y \in Int
  BY DeadlinesAssumption
<1>6. x > due
  <2>1. Calendar!If(x > due, "reserve_deposit_overdue") # {}
    BY <1>2, BreachesOf
  <2> QED
    BY <2>1 DEF Calendar!If
<1>7. y > due
  BY <1>4, <1>5, <1>6
<1>8. Calendar!If(y > due, "reserve_deposit_overdue") # {}
  BY <1>7 DEF Calendar!If
<1>9. Calendar!Assessment(due, {}, {}, Calendar!If(y > due, "reserve_deposit_overdue")).disposition
        # "PASS"
  BY <1>8, BreachesOf
<1> QED
  BY <1>2, <1>9, Zenon

\* Counted late, a count stays late; made on the day it is looked at, it is no sooner.
CountBreaches(count, x, earliest, latest) ==
  Calendar!If(count.date # None /\ count.date < earliest, "count_too_soon")
  \cup Calendar!If(count.date # None /\ count.date > latest, "count_too_late")
  \cup Calendar!If(~(count.date # None) /\ Calendar!DateOf(x) > latest, "count_overdue")
CountedLater(count, later, x) ==
  /\ later.prior = count.prior
  /\ later.date = count.date \/ (count.date = None /\ later.date = DayOf(x))

LEMMA CountStaysLate ==
    ASSUME NEW count, NEW later, NEW x \in 0..LastInstant, NEW y \in 0..LastInstant, x <= y,
           CountedLater(count, later, y),
           count.prior # {} =>
             \A r \in {"minimum_spacing", "maximum_spacing"} \cap DOMAIN DeadlineRules :
               Calendar!AddMonths(Max(count.prior), DeadlineRules[r].value) \in Int,
           Calendar!assess_security_count(count, x, TRUE, DeadlineRules).breaches # {}
    PROVE  Calendar!assess_security_count(later, y, TRUE, DeadlineRules).disposition # "PASS"
<1> DEFINE spacing == {"minimum_spacing", "maximum_spacing"}
           last == Calendar!Max(count.prior)
           earliest == Calendar!AddMonths(last, DeadlineRules.minimum_spacing.value)
           latest == Calendar!AddMonths(last, DeadlineRules.maximum_spacing.value)
<1>1. /\ (spacing \cup {"difference_recording"}) \ DOMAIN DeadlineRules = {}
      /\ count.prior # {}
      /\ ~ \E s \in spacing : DeadlineRules[s].unit # "MONTHS"
      /\ DeadlineRules.difference_recording.unit = "BUSINESS_DAYS"
  BY DEF Calendar!assess_security_count, Calendar!NoInput, Calendar!NoRule, Calendar!Assessment
<1>2. Calendar!assess_security_count(count, x, TRUE, DeadlineRules) =
        Calendar!Assessment(None, {}, {}, CountBreaches(count, x, earliest, latest))
  BY <1>1 DEF Calendar!assess_security_count, CountBreaches
<1>3. Calendar!assess_security_count(later, y, TRUE, DeadlineRules) =
        Calendar!Assessment(None, {}, {}, CountBreaches(later, y, earliest, latest))
  BY <1>1 DEF Calendar!assess_security_count, CountBreaches, CountedLater
<1>4. latest \in Int
  <2>1. "maximum_spacing" \in {"minimum_spacing", "maximum_spacing"} \cap DOMAIN DeadlineRules
    BY <1>1
  <2>2. Calendar!AddMonths(Max(count.prior), DeadlineRules["maximum_spacing"].value) \in Int
    BY <1>1, <2>1
  <2> QED
    BY <2>2, CalendarCounts, Zenon
<1>5. DayOf(x) \in Int /\ DayOf(y) \in Int /\ DayOf(x) <= DayOf(y)
  BY DayGrows, DeadlinesAssumption
<1> HIDE DEF earliest, latest
<1>6. CountBreaches(count, x, earliest, latest) # {}
  BY <1>2, BreachesOf
<1>7. CountBreaches(later, y, earliest, latest) # {}
  <2>1. CASE count.date # None
    BY <1>6, <2>1 DEF CountBreaches, CountedLater, Calendar!If
  <2>2. CASE count.date = None
    <3>1. DayOf(x) > latest
      BY <1>6, <2>2 DEF CountBreaches, Calendar!If, DayOf
    <3>2. DayOf(y) > latest
      BY <1>4, <1>5, <3>1
    <3> QED
      BY <2>2, <3>2 DEF CountBreaches, CountedLater, Calendar!If, DayOf
  <2> QED
    BY <2>1, <2>2
<1>8. Calendar!Assessment(None, {}, {}, CountBreaches(later, y, earliest, latest)).disposition # "PASS"
  BY <1>7, BreachesOf
<1> QED
  BY <1>3, <1>8, Zenon

\* Validated late, a transfer stays late.
ValidatedLater(transfer, later, x) ==
  /\ later.instructed = transfer.instructed
  /\ \/ later.validated = transfer.validated
     \/ transfer.validated = None /\ later.validated = x

LEMMA TransferStaysLate ==
    ASSUME NEW transfer, NEW later, NEW source,
           NEW x \in 0..LastInstant, NEW y \in 0..LastInstant, x <= y,
           ValidatedLater(transfer, later, y), transfer.instructed \in 0..LastInstant,
           transfer.validated \in (0..LastInstant) \cup {None},
           Calendar!assess_acats(transfer, x, TRUE, DeadlineRules, source).breaches # {}
    PROVE  Calendar!assess_acats(later, y, TRUE, DeadlineRules, source).disposition # "PASS"
<1> DEFINE rules == {"validation", "completion"}
           validation == Calendar!AddBusinessDays(Calendar!DateOf(transfer.instructed),
                                                  DeadlineRules.validation.value)
           completion(z) == Calendar!AddBusinessDays(Calendar!DateOf(z),
                                                     DeadlineRules.completion.value)
<1>1. /\ rules \ DOMAIN DeadlineRules = {}
      /\ ~ \E r \in rules : DeadlineRules[r].unit # "BUSINESS_DAYS"
      /\ Calendar!assess_acats(transfer, x, TRUE, DeadlineRules, source) =
           Calendar!Assessment(None, {}, {},
             Calendar!TransferBreaches(transfer, Calendar!DateOf(x), DeadlineRules))
  BY DEF Calendar!assess_acats, Calendar!NoInput, Calendar!NoRule, Calendar!Assessment
<1>2. \/ Calendar!assess_acats(later, y, TRUE, DeadlineRules, source) =
            Calendar!NoRule("current_acats_version")
      \/ Calendar!assess_acats(later, y, TRUE, DeadlineRules, source) =
           Calendar!Assessment(None, {}, {},
             Calendar!TransferBreaches(later, Calendar!DateOf(y), DeadlineRules))
  BY <1>1 DEF Calendar!assess_acats
<1>3. validation \in Int
  <2>1. DayOf(transfer.instructed) \in WatchedDates /\ "validation" \in DOMAIN DeadlineRules
    BY <1>1, WatchedDay
  <2> QED
    BY <1>1, <2>1, WatchedDue DEF DayOf
<1>4. transfer.validated # None => completion(transfer.validated) \in Int
  <2> HAVE transfer.validated # None
  <2>1. DayOf(transfer.validated) \in WatchedDates /\ "completion" \in DOMAIN DeadlineRules
    BY <1>1, WatchedDay
  <2> QED
    BY <1>1, <2>1, WatchedDue DEF DayOf
<1>5. DayOf(x) \in Int /\ DayOf(y) \in Int /\ DayOf(x) <= DayOf(y)
  BY DayGrows, DeadlinesAssumption
<1>6. Calendar!TransferBreaches(transfer, Calendar!DateOf(x), DeadlineRules) # {}
  <2>1. Calendar!Assessment(None, {}, {},
          Calendar!TransferBreaches(transfer, Calendar!DateOf(x), DeadlineRules)).breaches =
        Calendar!TransferBreaches(transfer, Calendar!DateOf(x), DeadlineRules)
    BY BreachesOf, Zenon
  <2> QED
    BY <1>1, <2>1, Zenon
<1>7. \A t, d : t.instructed = transfer.instructed =>
        Calendar!TransferBreaches(t, d, DeadlineRules) =
           Calendar!If(~(t.validated # None) /\ d > validation, "validation_overdue")
           \cup Calendar!If(t.validated # None /\ DayOf(t.validated) > validation,
                            "validation_late")
           \cup Calendar!If(t.validated # None /\ d > completion(t.validated),
                            "completion_overdue")
  BY Zenon DEF Calendar!TransferBreaches, DayOf
<1> HIDE DEF validation, completion
<1>8. /\ Calendar!TransferBreaches(transfer, DayOf(x), DeadlineRules) =
            Calendar!If(~(transfer.validated # None) /\ DayOf(x) > validation, "validation_overdue")
            \cup Calendar!If(transfer.validated # None /\ DayOf(transfer.validated) > validation,
                             "validation_late")
            \cup Calendar!If(transfer.validated # None /\ DayOf(x) > completion(transfer.validated),
                             "completion_overdue")
       /\ Calendar!TransferBreaches(later, DayOf(y), DeadlineRules) =
            Calendar!If(~(later.validated # None) /\ DayOf(y) > validation, "validation_overdue")
            \cup Calendar!If(later.validated # None /\ DayOf(later.validated) > validation,
                             "validation_late")
            \cup Calendar!If(later.validated # None /\ DayOf(y) > completion(later.validated),
                             "completion_overdue")
  <2>1. later.instructed = transfer.instructed
    BY DEF ValidatedLater
  <2> QED
    BY <1>7, <2>1, Zenon
<1>9. Calendar!TransferBreaches(later, DayOf(y), DeadlineRules) # {}
  <2>1. CASE transfer.validated # None
    <3>1. \/ DayOf(transfer.validated) > validation
          \/ DayOf(x) > completion(transfer.validated)
      BY <1>6, <1>8, <2>1 DEF Calendar!If, DayOf
    <3>2. \/ DayOf(transfer.validated) > validation
          \/ DayOf(y) > completion(transfer.validated)
      BY <1>4, <1>5, <2>1, <3>1
    <3>3. later.validated = transfer.validated
      BY <2>1 DEF ValidatedLater
    <3> QED
      BY <1>8, <2>1, <3>2, <3>3 DEF Calendar!If
  <2>2. CASE transfer.validated = None
    <3>1. DayOf(x) > validation
      BY <1>6, <1>8, <2>2 DEF Calendar!If, DayOf
    <3>2. DayOf(y) > validation
      BY <1>3, <1>5, <3>1
    <3>3. later.validated = None \/ later.validated = y
      BY <2>2 DEF ValidatedLater
    <3> QED
      BY <1>8, <3>2, <3>3 DEF Calendar!If
  <2> QED
    BY <2>1, <2>2
<1>10. /\ Calendar!Assessment(None, {}, {},
          Calendar!TransferBreaches(later, Calendar!DateOf(y), DeadlineRules)).disposition # "PASS"
      /\ Calendar!NoRule("current_acats_version").disposition # "PASS"
  <2>1. Calendar!NoRule("current_acats_version").disposition # "PASS"
    BY DEF Calendar!NoRule, Calendar!Assessment
  <2>2. Calendar!TransferBreaches(later, Calendar!DateOf(y), DeadlineRules) # {}
    BY <1>9 DEF DayOf
  <2> QED
    BY <2>1, <2>2, BreachesOf
<1> QED
  BY <1>2, <1>10, Zenon

-----------------------------------------------------------------------------
\* What is watched, as the days go by: only a count is made, and a transfer validated.
AssessedOf(w, x) ==
  [fail |-> Calendar!assess_rule_204(w.fail, x, TRUE, Open, DeadlineRules),
   computation |-> Calendar!assess_reserve_deposit(w.computation, x, TRUE, Open, DeadlineRules),
   count |-> Calendar!assess_security_count(w.count, x, TRUE, DeadlineRules),
   transfer |-> Calendar!assess_acats(w.transfer, x, TRUE, DeadlineRules, w.source)]
LateNotPassing(before_, after_) ==
  \A k \in DOMAIN before_ : before_[k].breaches # {} => after_[k].disposition # "PASS"
WatchedLater(w, later, x) ==
  /\ later.fail = w.fail /\ later.computation = w.computation /\ later.source = w.source
  /\ CountedLater(w.count, later.count, x) /\ ValidatedLater(w.transfer, later.transfer, x)

LEMMA AllStayLate ==
    ASSUME NEW w, WatchedItems(w), NEW later, NEW x \in 0..LastInstant, NEW y \in 0..LastInstant,
           x <= y, WatchedLater(w, later, y)
    PROVE  LateNotPassing(AssessedOf(w, x), AssessedOf(later, y))
<1>1. /\ w.fail.trade \in WatchedDates /\ w.fail.settles \in WatchedDates
      /\ w.computation.at \in 0..LastInstant /\ w.transfer.instructed \in 0..LastInstant
      /\ w.transfer.validated \in (0..LastInstant) \cup {None}
      /\ w.count.prior # {} =>
           \A r \in {"minimum_spacing", "maximum_spacing"} \cap DOMAIN DeadlineRules :
             Calendar!AddMonths(Max(w.count.prior), DeadlineRules[r].value) \in Int
  BY DEF WatchedItems
<1>2. /\ later.fail = w.fail /\ later.computation = w.computation /\ later.source = w.source
      /\ CountedLater(w.count, later.count, y) /\ ValidatedLater(w.transfer, later.transfer, y)
  BY DEF WatchedLater
<1>3. AssessedOf(w, x).fail.breaches # {} => AssessedOf(later, y).fail.disposition # "PASS"
  BY <1>1, <1>2, FailStaysLate DEF AssessedOf
<1>4. AssessedOf(w, x).computation.breaches # {} =>
        AssessedOf(later, y).computation.disposition # "PASS"
  BY <1>1, <1>2, DepositStaysLate DEF AssessedOf
<1>5. AssessedOf(w, x).count.breaches # {} => AssessedOf(later, y).count.disposition # "PASS"
  BY <1>1, <1>2, CountStaysLate DEF AssessedOf
<1>6. AssessedOf(w, x).transfer.breaches # {} => AssessedOf(later, y).transfer.disposition # "PASS"
  BY <1>1, <1>2, TransferStaysLate DEF AssessedOf
<1>7. DOMAIN AssessedOf(w, x) = {"fail", "computation", "count", "transfer"}
  BY DEF AssessedOf
<1> QED
  BY <1>3, <1>4, <1>5, <1>6, <1>7 DEF LateNotPassing

WatchedInv ==
  /\ profile \in Profiles /\ at \in 0..LastInstant
  /\ Watching => WatchedItems(items)

LEMMA CountMade ==
    ASSUME NEW w, WatchedItems(w), NEW x \in 0..LastInstant, w.count.date = None
    PROVE  LET later == [w EXCEPT !.count.date = Calendar!DateOf(x)]
           IN  WatchedItems(later) /\ WatchedLater(w, later, x)
<1> DEFINE later == [w EXCEPT !.count.date = Calendar!DateOf(x)]
<1>1. /\ IsRecord(w, {"fail", "computation", "count", "transfer", "source"})
      /\ IsRecord(w.count, {"prior", "date"})
  BY DEF WatchedItems
<1>2. /\ w = [f \in DOMAIN w |-> w[f]]
      /\ {"fail", "computation", "count", "transfer", "source"} \subseteq DOMAIN w
      /\ w.count = [f \in DOMAIN w.count |-> w.count[f]] /\ {"prior", "date"} \subseteq DOMAIN w.count
  BY <1>1 DEF IsRecord
<1>3. /\ later.fail = w.fail /\ later.computation = w.computation /\ later.source = w.source
      /\ later.transfer = w.transfer
      /\ later.count = [w.count EXCEPT !.date = Calendar!DateOf(x)]
      /\ DOMAIN later = DOMAIN w /\ later = [f \in DOMAIN later |-> later[f]]
  BY <1>2
<1>4. /\ later.count.prior = w.count.prior /\ later.count.date = Calendar!DateOf(x)
      /\ DOMAIN later.count = DOMAIN w.count
      /\ later.count = [f \in DOMAIN later.count |-> later.count[f]]
  BY <1>2, <1>3
<1> HIDE DEF later
<1>5. Calendar!DateOf(x) \in WatchedDates
  BY WatchedDay DEF DayOf
<1>6. IsRecord(later, {"fail", "computation", "count", "transfer", "source"})
  BY <1>2, <1>3 DEF IsRecord
<1>7. IsRecord(later.count, {"prior", "date"})
  BY <1>2, <1>4 DEF IsRecord
<1>8. WatchedItems(later)
  BY <1>3, <1>4, <1>5, <1>6, <1>7 DEF WatchedItems
<1>9. WatchedLater(w, later, x)
  BY <1>3, <1>4 DEF WatchedLater, CountedLater, ValidatedLater, DayOf
<1> QED
  BY <1>8, <1>9 DEF later

LEMMA TransferValidated ==
    ASSUME NEW w, WatchedItems(w), NEW x \in 0..LastInstant, w.transfer.validated = None
    PROVE  LET later == [w EXCEPT !.transfer.validated = x]
           IN  WatchedItems(later) /\ WatchedLater(w, later, x)
<1> DEFINE later == [w EXCEPT !.transfer.validated = x]
<1>1. /\ IsRecord(w, {"fail", "computation", "count", "transfer", "source"})
      /\ IsRecord(w.transfer, {"instructed", "validated"})
  BY DEF WatchedItems
<1>2. /\ w = [f \in DOMAIN w |-> w[f]]
      /\ {"fail", "computation", "count", "transfer", "source"} \subseteq DOMAIN w
      /\ w.transfer = [f \in DOMAIN w.transfer |-> w.transfer[f]]
      /\ {"instructed", "validated"} \subseteq DOMAIN w.transfer
  BY <1>1 DEF IsRecord
<1>3. /\ later.fail = w.fail /\ later.computation = w.computation /\ later.source = w.source
      /\ later.count = w.count
      /\ later.transfer = [w.transfer EXCEPT !.validated = x]
      /\ DOMAIN later = DOMAIN w /\ later = [f \in DOMAIN later |-> later[f]]
  BY <1>2
<1>4. /\ later.transfer.instructed = w.transfer.instructed /\ later.transfer.validated = x
      /\ DOMAIN later.transfer = DOMAIN w.transfer
      /\ later.transfer = [f \in DOMAIN later.transfer |-> later.transfer[f]]
  BY <1>2, <1>3
<1> HIDE DEF later
<1>5. IsRecord(later, {"fail", "computation", "count", "transfer", "source"})
  BY <1>2, <1>3 DEF IsRecord
<1>6. IsRecord(later.transfer, {"instructed", "validated"})
  BY <1>2, <1>4 DEF IsRecord
<1>7. WatchedItems(later)
  BY <1>3, <1>4, <1>5, <1>6 DEF WatchedItems
<1>8. WatchedLater(w, later, x)
  BY <1>3, <1>4 DEF WatchedLater, CountedLater, ValidatedLater
<1> QED
  BY <1>7, <1>8 DEF later

LEMMA WatchedStep ==
    ASSUME WatchedInv, [Next]_vars
    PROVE  WatchedInv' /\ (Watching => /\ at <= at' /\ at' \in 0..LastInstant
                                       /\ WatchedLater(items, items', at'))
<1> USE DEF WatchedInv
<1>1. at \in 0..LastInstant /\ LastInstant \in Nat /\ at \in Int
  BY DeadlinesAssumption
<1>2. WatchedLater(items, items, at) /\ WatchedLater(items, items, at + 1)
  BY DEF WatchedLater, CountedLater, ValidatedLater
<1>3. CASE UNCHANGED <<profile, at, items>>
  BY <1>1, <1>2, <1>3 DEF Watching
<1>4. CASE Wait
  <2>1. /\ Watching /\ at < LastInstant /\ at' = at + 1 /\ items' = items /\ profile' = profile
    BY <1>4 DEF Wait
  <2>2. at' \in 0..LastInstant /\ at <= at'
    BY <1>1, <2>1
  <2> QED
    BY <1>2, <2>1, <2>2 DEF Watching
<1>5. CASE CountSecurities
  <2>1. /\ Watching /\ items.count.date = None /\ profile' = profile /\ at' = at
        /\ items' = [items EXCEPT !.count.date = Calendar!DateOf(at)]
    BY <1>5 DEF CountSecurities
  <2>2. WatchedItems(items') /\ WatchedLater(items, items', at)
    BY <1>1, <2>1, CountMade
  <2> QED
    BY <1>1, <2>1, <2>2 DEF Watching
<1>6. CASE Validate
  <2>1. /\ Watching /\ items.transfer.validated = None /\ profile' = profile /\ at' = at
        /\ items' = [items EXCEPT !.transfer.validated = at]
    BY <1>6 DEF Validate
  <2>2. WatchedItems(items') /\ WatchedLater(items, items', at)
    BY <1>1, <2>1, TransferValidated
  <2> QED
    BY <1>1, <2>1, <2>2 DEF Watching
<1>7. CASE Book \/ Protect \/ Restate \/ NextDay \/ Review \/ UNCHANGED vars
  BY <1>3, <1>7 DEF Book, Protect, Restate, NextDay, Review, vars
<1> QED
  BY <1>4, <1>5, <1>6, <1>7 DEF Next

\* What is watched is watched at instants the run comes to, and at dates the
\* calendar reaches, throughout (Wait, CountSecurities, Validate).
LEMMA WatchedAlways == Spec => []WatchedInv
<1>1. Init => WatchedInv
  BY WatchAssumption, DeadlinesAssumption DEF Init, WatchedInv, Watching
<1>2. WatchedInv /\ [Next]_vars => WatchedInv'
  BY WatchedStep
<1> QED
  BY <1>1, <1>2, PTL DEF Spec

\* What missed its deadline does not pass afterwards, whatever is done about it:
\* closing out, depositing, counting and validating late is still late (assess_acats,
\* assess_security_count, assess_rule_204, assess_reserve_deposit).
THEOREM LateIsForGood == Spec => LateStaysLate
<1>1. WatchedInv /\ [Next]_vars =>
        (Watching => \A k \in DOMAIN Assessments :
           Assessments[k].breaches # {} => Assessments'[k].disposition # "PASS")
  <2> SUFFICES ASSUME WatchedInv, [Next]_vars, Watching
               PROVE  LateNotPassing(Assessments, Assessments')
    BY DEF LateNotPassing
  <2>1. /\ at \in 0..LastInstant /\ at' \in 0..LastInstant /\ at <= at'
        /\ WatchedItems(items) /\ WatchedLater(items, items', at')
    BY WatchedStep DEF WatchedInv
  <2>2. Assessments = AssessedOf(items, at) /\ Assessments' = AssessedOf(items', at')
    BY DEF Assessments, AssessedOf
  <2>3. LateNotPassing(AssessedOf(items, at), AssessedOf(items', at'))
    BY <2>1, AllStayLate
  <2> QED
    BY <2>2, <2>3
<1> QED
  BY <1>1, WatchedAlways, PTL DEF Spec, LateStaysLate

-----------------------------------------------------------------------------
\* Sums, and the figures of a reserve computation.
LEMMA SumOfIs == \A f : SumOf(f) = Sum(f, DOMAIN f)
  BY DEF SumOf, Sum

LEMMA SumOfType ==
    ASSUME NEW S, IsFiniteSet(S), NEW f, DOMAIN f = S, \A x \in S : f[x] \in Int
    PROVE  SumOf(f) \in Int
  BY SumOfIs, SumType

LEMMA PercentType == \A r, a \in Int : Percent(r, a) \in Int
<1> SUFFICES ASSUME NEW r \in Int, NEW a \in Int PROVE Percent(r, a) \in Int
  OBVIOUS
<1> DEFINE p == r * a
<1>1. p \in Int
  OBVIOUS
<1>2. Percent(r, a) = p \div 100
  BY DEF Percent
<1> HIDE DEF p
<1> QED
  BY <1>1, <1>2

LEMMA LessType ==
    ASSUME NEW x \in Figure, NEW y \in Figure
    PROVE  /\ Less(x, y) \in Figure
           /\ Less(x, y) # None <=> x # None /\ y # None
           /\ Less(x, y) # None => x \in Int /\ y \in Int /\ Less(x, y) = x - y
  BY NoneIsNoNumber DEF Less, Known, Figure

\* Supplied figures of a computation are numbers.
ReserveTyped(in) ==
    /\ \A id \in DOMAIN in.lines : in.lines[id] \in Figure
    /\ IsFiniteSet(in.cash) /\ \A d \in in.cash : d.amount \in Int /\ d.equity \in Figure
    /\ in.securities \in Figure /\ in.excess \in Figure

LEMMA ValueType ==
    ASSUME NEW t, TableTyped(t), NEW id
    PROVE  Value(t, id) \in Figure /\ (Loaded(t, id) => Value(t, id) \in Int)
  BY DEF TableTyped, Value, Loaded, Figure

LEMMA SideType ==
    ASSUME NEW lines, \A id \in DOMAIN lines : lines[id] \in Figure, NEW t,
           NEW ids \in SUBSET Modeled
    PROVE  /\ SideTotal(ids, lines, t) \in Figure
           /\ SideTotal(ids, lines, t) # None <=>
                \A id \in ids : Loaded(t, id) /\ Supplied(lines, id) # None
<1> DEFINE known == \A id \in ids : Loaded(t, id) /\ Supplied(lines, id) # None
           g == [id \in ids |-> lines[id]]
<1>1. IsFiniteSet(ids)
  BY ExhibitAssumption, FS_Subset
<1>2. SideTotal(ids, lines, t) = IF known THEN SumOf(g) ELSE None
  BY DEF SideTotal
<1>3. ASSUME known PROVE SumOf(g) \in Int
  <2>1. \A id \in ids : lines[id] \in Int
    BY <1>3 DEF Supplied, Figure
  <2>2. DOMAIN g = ids /\ \A id \in ids : g[id] \in Int
    BY <2>1
  <2> HIDE DEF g
  <2> QED
    BY <1>1, <2>2, SumOfType
<1> HIDE DEF g
<1> QED
  BY <1>2, <1>3, NoneIsNoNumber DEF Figure

LEMMA LinesType ==
    ASSUME NEW in, ReserveTyped(in), NEW t
    PROVE  LET l == LinesOf(in, t).value
           IN  /\ l.credits \in Figure /\ l.debits \in Figure
               /\ Clean(LinesOf(in, t)) => l.credits # None /\ l.debits # None
               /\ l.credits # None /\ l.debits # None =>
                    \A id \in Modeled : Loaded(t, id) /\ Supplied(in.lines, id) # None
<1> DEFINE lines == in.lines
           c == SideTotal(EXHIBIT_A_CREDITS, lines, t)
           d == SideTotal(EXHIBIT_A_DEBITS, lines, t)
<1>1. LinesOf(in, t).value.credits = c /\ LinesOf(in, t).value.debits = d
  BY DEF LinesOf, ReadLines, Found
<1>2. EXHIBIT_A_CREDITS \in SUBSET Modeled /\ EXHIBIT_A_DEBITS \in SUBSET Modeled
  BY DEF Modeled
<1>3. \A id \in DOMAIN lines : lines[id] \in Figure
  BY DEF ReserveTyped
<1>4. Clean(LinesOf(in, t)) => \A id \in Modeled : Loaded(t, id) /\ Supplied(lines, id) # None
  BY DEF LinesOf, ReadLines, Found, Clean, Unloaded, Loaded
<1> HIDE DEF lines
<1>5. /\ c \in Figure
      /\ c # None <=> \A id \in EXHIBIT_A_CREDITS : Loaded(t, id) /\ Supplied(lines, id) # None
  BY <1>2, <1>3, SideType
<1>6. /\ d \in Figure
      /\ d # None <=> \A id \in EXHIBIT_A_DEBITS : Loaded(t, id) /\ Supplied(lines, id) # None
  BY <1>2, <1>3, SideType
<1> HIDE DEF c, d
<1> QED
  BY <1>1, <1>4, <1>5, <1>6 DEF Modeled, lines

LEMMA ByRateType ==
    ASSUME NEW t, TableTyped(t), NEW amount \in Figure, NEW rule
    PROVE  /\ ByRate(rule, amount, t).value \in Figure
           /\ ByRate(rule, amount, t).value # None <=> amount # None /\ Loaded(t, rule)
           /\ ByRate(rule, amount, t).rules = {} <=> Loaded(t, rule)
<1>1. /\ ByRate(rule, amount, t).value =
           IF amount = None \/ ~Loaded(t, rule) THEN None ELSE Percent(Value(t, rule), amount)
      /\ ByRate(rule, amount, t).rules = Unloaded(t, {rule})
  BY DEF ByRate, Found
<1>2. amount # None /\ Loaded(t, rule) => Percent(Value(t, rule), amount) \in Int
  BY ValueType, PercentType DEF Figure
<1>3. Unloaded(t, {rule}) = {} <=> Loaded(t, rule)
  BY DEF Unloaded, Loaded
<1> QED
  BY <1>1, <1>2, <1>3, NoneIsNoNumber DEF Figure

LEMMA ReducedType ==
    ASSUME NEW in, ReserveTyped(in), NEW t, TableTyped(t)
    PROVE  /\ ReducedOf(in, t).value \in Figure
           /\ Clean(LinesOf(in, t)) /\ Clean(ReducedOf(in, t)) => ReducedOf(in, t).value # None
<1> DEFINE debits == LinesOf(in, t).value.debits
           daily == DailyOf(in, t).value
           item == Supplied(in.lines, ITEM_10)
           chosen == IF in.mode = "daily" /\ (daily = TRUE \/ VoluntaryDaily(in, t).value)
                       THEN "daily_reduction" ELSE "weekly_reduction"
           rated == ByRate(chosen, debits, t)
           noted == ByRate("note_e3", item, t)
<1>1. ReducedOf(in, t) = Reduction(in, t, debits, daily)
  BY DEF ReducedOf
<1>2. debits \in Figure /\ (Clean(LinesOf(in, t)) => debits # None)
  BY LinesType
<1>3. item \in Figure /\ (Clean(LinesOf(in, t)) => item # None)
  <2>1. ITEM_10 \in Modeled
    BY ExhibitAssumption DEF Modeled
  <2>2. Clean(LinesOf(in, t)) => Supplied(in.lines, ITEM_10) # None
    BY <2>1 DEF LinesOf, ReadLines, Found, Clean
  <2>3. Supplied(in.lines, ITEM_10) \in Figure
    BY DEF Supplied, ReserveTyped, Figure
  <2> QED
    BY <2>2, <2>3
<1> HIDE DEF debits, daily, item
<1>4. /\ rated.value \in Figure
      /\ rated.value # None <=> debits # None /\ Loaded(t, chosen)
      /\ rated.rules = {} <=> Loaded(t, chosen)
  <2> HIDE DEF chosen
  <2> QED
    BY <1>2, ByRateType
<1>5. /\ noted.value \in Figure
      /\ noted.value # None <=> item # None /\ Loaded(t, "note_e3")
      /\ noted.rules = {} <=> Loaded(t, "note_e3")
  BY <1>3, ByRateType
<1> HIDE DEF rated, noted
<1>6. CASE ~Customer(in)
  <2>1. /\ Reduction(in, t, debits, daily).value = IF Loaded(t, "no_note_e3") THEN 0 ELSE None
        /\ Reduction(in, t, debits, daily).rules = Unloaded(t, {"no_note_e3"})
    BY <1>6 DEF Reduction, Found
  <2>2. Clean(ReducedOf(in, t)) => Loaded(t, "no_note_e3")
    BY <1>1, <2>1 DEF Clean, Unloaded, Loaded
  <2> QED
    BY <1>1, <2>1, <2>2, NoneIsNoNumber DEF Figure
<1>7. CASE Customer(in) /\ in.standard = "aggregate_indebtedness"
  <2>1. Reduction(in, t, debits, daily) = noted
    BY <1>7 DEF Reduction, noted, item
  <2> QED
    BY <1>1, <1>3, <1>5, <2>1 DEF Clean
<1>8. CASE Customer(in) /\ in.standard # "aggregate_indebtedness"
  <2>1. /\ Reduction(in, t, debits, daily).value = rated.value
        /\ rated.rules \subseteq Reduction(in, t, debits, daily).rules
    BY <1>8 DEF Reduction, Found, rated, chosen
  <2>2. Clean(ReducedOf(in, t)) => rated.rules = {}
    BY <1>1, <2>1 DEF Clean
  <2> QED
    BY <1>1, <1>2, <1>4, <2>1, <2>2
<1> QED
  BY <1>6, <1>7, <1>8

LEMMA FactorType ==
    ASSUME NEW in, NEW t, TableTyped(t)
    PROVE  /\ FactorOf(in, t).value \in Figure
           /\ Clean(FactorOf(in, t)) => FactorOf(in, t).value # None
<1>1. FactorOf(in, t) \in {Found(100, {}, {}, {}), CustomerMonthly(in, t), PabMonthly(in, t)}
  BY DEF FactorOf, DepositFactor
<1>2. /\ CustomerMonthly(in, t).value = Value(t, "monthly_factor")
      /\ Clean(CustomerMonthly(in, t)) => Loaded(t, "monthly_factor")
  BY DEF CustomerMonthly, Found, Clean, Unloaded, Loaded
<1>3. PabMonthly(in, t).value \in {None, 100} /\ (Clean(PabMonthly(in, t)) => PabMonthly(in, t).value = 100)
  BY DEF PabMonthly, Found, Clean
<1>4. Found(100, {}, {}, {}).value = 100
  BY DEF Found
<1> QED
  BY <1>1, <1>2, <1>3, <1>4, ValueType, NoneIsNoNumber DEF Figure

LEMMA ExcessType ==
    ASSUME NEW in, ReserveTyped(in), NEW t, TableTyped(t)
    PROVE  LET l == LinesOf(in, t).value IN
           /\ ExcessOf(in, t) \in Figure
           /\ ExcessOf(in, t) # None <=>
                l.credits # None /\ l.debits # None /\ ReducedOf(in, t).value # None
<1> DEFINE c == LinesOf(in, t).value.credits
           d == LinesOf(in, t).value.debits
           r == ReducedOf(in, t).value
<1>1. c \in Figure /\ d \in Figure /\ r \in Figure
  BY LinesType, ReducedType
<1>2. ExcessOf(in, t) = Less(c, Less(d, r))
  BY DEF ExcessOf
<1> HIDE DEF c, d, r
<1>3. Less(d, r) \in Figure /\ (Less(d, r) # None <=> d # None /\ r # None)
  BY <1>1, LessType
<1>4. Less(c, Less(d, r)) \in Figure /\ (Less(c, Less(d, r)) # None <=> c # None /\ Less(d, r) # None)
  BY <1>1, <1>3, LessType
<1> QED
  BY <1>2, <1>3, <1>4 DEF c, d, r

LEMMA RequirementType ==
    ASSUME NEW in, ReserveTyped(in), NEW t, TableTyped(t)
    PROVE  /\ RequirementOf(in, t) \in Figure
           /\ RequirementOf(in, t) # None <=> ExcessOf(in, t) # None /\ FactorOf(in, t).value # None
<1> DEFINE e == ExcessOf(in, t)
           f == FactorOf(in, t).value
<1>1. e \in Figure /\ f \in Figure
  BY ExcessType, FactorType
<1>2. RequirementOf(in, t) = IF Known({e, f}) THEN Percent(f, Larger(e, 0)) ELSE None
  BY DEF RequirementOf
<1> HIDE DEF e, f
<1>3. e # None /\ f # None => Percent(f, Larger(e, 0)) \in Int
  <2>1. e \in Int => Larger(e, 0) \in Int
    BY DEF Larger
  <2> QED
    BY <1>1, <2>1, PercentType DEF Figure
<1> QED
  BY <1>2, <1>3, NoneIsNoNumber DEF Known, Figure, e, f

LEMMA ReliefType ==
    ASSUME NEW in, ReserveTyped(in), NEW t, TableTyped(t)
    PROVE  LET given == ~Customer(in) /\ in.excess # None /\ in.excessAsOf = in.as_of
               relief == ReliefOf(in, t).value
           IN  /\ relief \in Figure
               /\ ~given => relief = 0
               /\ given /\ relief # None => RequirementOf(in, t) # None /\ relief <= in.excess
               /\ RequirementOf(in, t) # None /\ Clean(ReliefOf(in, t)) => relief # None
               /\ relief # None => Clean(ReliefOf(in, t))
<1> DEFINE q == RequirementOf(in, t)
           given == ~Customer(in) /\ in.excess # None /\ in.excessAsOf = in.as_of
<1>1. q \in Figure /\ in.excess \in Figure
  BY RequirementType DEF ReserveTyped
<1>2. ReliefOf(in, t) = Relief(in, t, q)
  BY DEF ReliefOf
<1> HIDE DEF q
<1>3. CASE ~given
  <2>1. Relief(in, t, q) = Found(0, {}, {}, {})
    BY <1>3 DEF Relief
  <2>2. Relief(in, t, q).value = 0 /\ Clean(Relief(in, t, q))
    BY <2>1 DEF Found, Clean
  <2> QED
    BY <1>2, <1>3, <2>2, NoneIsNoNumber DEF Figure
<1>4. CASE given
  <2>1. /\ Relief(in, t, q).value =
             IF Loaded(t, "pab_from_customer") /\ q # None THEN Smaller(q, in.excess) ELSE None
        /\ Relief(in, t, q).rules = Unloaded(t, {"pab_from_customer"})
        /\ Relief(in, t, q).inputs = {} /\ Relief(in, t, q).breaches = {}
    BY <1>4 DEF Relief, Found
  <2>2. Unloaded(t, {"pab_from_customer"}) = {} <=> Loaded(t, "pab_from_customer")
    BY DEF Unloaded, Loaded
  <2>3. q # None => Smaller(q, in.excess) \in Int /\ Smaller(q, in.excess) <= in.excess
    BY <1>1, <1>4 DEF Smaller, Figure
  <2> QED
    BY <1>2, <1>4, <2>1, <2>2, <2>3, NoneIsNoNumber DEF Figure, Clean, q
<1> QED
  BY <1>3, <1>4

\* What of a deposit counts, and of all of them.
LEMMA CountedType ==
    ASSUME NEW d, d.amount \in Int, d.equity \in Figure, NEW t, TableTyped(t)
    PROVE  /\ Counted(d, t) \in Figure
           /\ d.affiliated /\ Loaded(t, "affiliated_excluded") => Counted(d, t) # None
           /\ ~d.affiliated /\ d.equity # None /\ Loaded(t, "bank_equity_cap") =>
                Counted(d, t) # None
<1> DEFINE p == Percent(Value(t, "bank_equity_cap"), d.equity)
           known == d.equity # None /\ Loaded(t, "bank_equity_cap")
<1>1. known => p \in Int
  BY ValueType, PercentType DEF Figure
<1>2. Counted(d, t) = IF d.affiliated THEN IF Loaded(t, "affiliated_excluded") THEN 0 ELSE None
                      ELSE IF known THEN Smaller(d.amount, p) ELSE None
  BY DEF Counted
<1> HIDE DEF p
<1>3. known => Smaller(d.amount, p) \in Int
  BY <1>1 DEF Smaller
<1> QED
  BY <1>2, <1>3, NoneIsNoNumber DEF Figure

LEMMA GoodType ==
    ASSUME NEW good, IsFiniteSet(DOMAIN good), \A d \in DOMAIN good : good[d] \in Figure,
           NEW securities \in Figure
    PROVE  /\ Good(good, securities) \in Figure
           /\ Good(good, securities) # None <=>
                securities # None /\ \A d \in DOMAIN good : good[d] # None
<1> DEFINE known == securities # None /\ \A d \in DOMAIN good : good[d] # None
           sum == SumOf(good)
<1>1. Good(good, securities) = IF known THEN securities + sum ELSE None
  BY DEF Good
<1>2. known => sum \in Int
  <2> HAVE known
  <2>1. \A d \in DOMAIN good : good[d] \in Int
    BY DEF Figure
  <2> QED
    BY <2>1, SumOfType
<1> HIDE DEF sum
<1>3. known => securities + sum \in Int
  BY <1>2 DEF Figure
<1> QED
  BY <1>1, <1>3, NoneIsNoNumber DEF Figure

LEMMA BankType ==
    ASSUME NEW in, ReserveTyped(in), NEW t, TableTyped(t)
    PROVE  /\ BankOf(in, t).value \in Figure
           /\ Clean(BankOf(in, t)) => BankOf(in, t).value # None
<1> DEFINE cash == in.cash
           good == [d \in cash |-> Counted(d, t)]
<1>1. /\ BankOf(in, t).value = Good(good, in.securities)
      /\ BankOf(in, t).rules =
           (IF cash = {} THEN {} ELSE Unloaded(t, {"bank_equity_cap"}))
           \cup (IF \E d \in cash : d.affiliated THEN Unloaded(t, {"affiliated_excluded"}) ELSE {})
      /\ BankOf(in, t).inputs =
           When(\E d \in cash : ~d.affiliated /\ d.equity = None, "bank_equity_capital")
           \cup When(in.securities = None, "qualified_securities_deposit")
  BY DEF BankOf, Eligible, Found
<1>2. /\ IsFiniteSet(cash) /\ in.securities \in Figure
      /\ \A d \in cash : d.amount \in Int /\ d.equity \in Figure
  BY DEF ReserveTyped
<1>3. Clean(BankOf(in, t)) =>
        /\ in.securities # None
        /\ \A d \in cash : \/ d.affiliated /\ Loaded(t, "affiliated_excluded")
                           \/ ~d.affiliated /\ d.equity # None /\ Loaded(t, "bank_equity_cap")
  <2> HAVE Clean(BankOf(in, t))
  <2>1. BankOf(in, t).rules = {} /\ BankOf(in, t).inputs = {}
    BY DEF Clean
  <2> HIDE DEF cash
  <2>2. in.securities # None /\ ~ \E d \in cash : ~d.affiliated /\ d.equity = None
    BY <1>1, <2>1 DEF When
  <2>3. \A d \in cash : Loaded(t, "bank_equity_cap") /\ (d.affiliated => Loaded(t, "affiliated_excluded"))
    BY <1>1, <2>1 DEF Unloaded, Loaded
  <2> QED
    BY <2>2, <2>3
<1>4. \A d \in cash : /\ Counted(d, t) \in Figure
                      /\ \/ d.affiliated /\ Loaded(t, "affiliated_excluded")
                         \/ ~d.affiliated /\ d.equity # None /\ Loaded(t, "bank_equity_cap")
                         => Counted(d, t) # None
  BY <1>2, CountedType
<1> HIDE DEF cash
<1>5. /\ DOMAIN good = cash
      /\ \A d \in cash : good[d] = Counted(d, t)
  OBVIOUS
<1> HIDE DEF good
<1>6. /\ Good(good, in.securities) \in Figure
      /\ Good(good, in.securities) # None <=>
           in.securities # None /\ \A d \in DOMAIN good : good[d] # None
  BY <1>2, <1>4, <1>5, GoodType
<1> QED
  BY <1>1, <1>3, <1>4, <1>5, <1>6

\* A computation that passes leaves nothing uncovered but what the other one relieves.
Covering(r, relief) ==
    r.disposition = "PASS" =>
      /\ r.eligible \in Int /\ r.requirement \in Int /\ r.excessDebits \in Nat
      /\ r.eligible >= r.requirement - relief

LEMMA ReserveCovers ==
    ASSUME NEW in, ReserveTyped(in), NEW t, TableTyped(t)
    PROVE  LET r == compute_reserve(in, t)
               given == ~Customer(in) /\ in.excess # None /\ in.excessAsOf = in.as_of
           IN  /\ Covering(r, IF given THEN in.excess ELSE 0)
               /\ r.excessDebits \in Nat \cup {None} /\ r.as_of = in.as_of
<1> DEFINE r == compute_reserve(in, t)
           given == ~Customer(in) /\ in.excess # None /\ in.excessAsOf = in.as_of
           x == ExcessOf(in, t)
           q == RequirementOf(in, t)
           relief == ReliefOf(in, t).value
           after == AfterOf(in, t)
           bank == BankOf(in, t).value
           short == ShortOf(in, t)
<1>1. /\ r.excessDebits = (IF x = None THEN None ELSE Larger(-x, 0))
      /\ r.requirement = q /\ r.eligible = bank /\ r.as_of = in.as_of
  BY ReserveUnfolds
<1>2. after = Less(q, relief) /\ short = Less(after, bank)
  BY DEF AfterOf, ShortOf
<1>3. /\ x \in Figure /\ q \in Figure /\ relief \in Figure /\ bank \in Figure
      /\ q # None => x # None
      /\ ~given => relief = 0
      /\ given /\ relief # None => relief <= in.excess
  BY ExcessType, RequirementType, ReliefType, BankType
<1>4. r.disposition = "PASS" =>
        q # None /\ relief # None /\ bank # None /\ ~(short # None /\ short > 0)
  <2> HAVE r.disposition = "PASS"
  <2>1. /\ Clean(LinesOf(in, t)) /\ Clean(ReducedOf(in, t)) /\ Clean(FactorOf(in, t))
        /\ Clean(ReliefOf(in, t)) /\ Clean(BankOf(in, t)) /\ Clean(ShortPart(in, t))
    BY ReservePasses
  <2>2. x # None
    BY <2>1, LinesType, ReducedType, ExcessType
  <2>3. q # None
    BY <2>1, <2>2, FactorType, RequirementType
  <2>4. relief # None
    BY <2>1, <2>3, ReliefType
  <2>5. bank # None
    BY <2>1, BankType
  <2>6. ~(short # None /\ short > 0)
    BY <2>1 DEF ShortPart, Clean, Found, When
  <2> QED
    BY <2>3, <2>4, <2>5, <2>6
<1>5. given => in.excess \in Int
  BY DEF ReserveTyped, Figure
<1> HIDE DEF r, given, x, q, relief, after, bank, short
<1>6. x # None => Larger(-x, 0) \in Nat
  BY <1>3 DEF Larger, Figure
<1>7. ASSUME r.disposition = "PASS" PROVE bank >= q - (IF given THEN in.excess ELSE 0)
  <2>1. q \in Int /\ relief \in Int /\ bank \in Int
    BY <1>3, <1>4, <1>7 DEF Figure
  <2>2. after = q - relief
    BY <1>2, <1>3, <1>4, <1>7, <2>1, NoneIsNoNumber DEF Less, Known
  <2>3. short = (q - relief) - bank
    BY <1>2, <2>1, <2>2, NoneIsNoNumber DEF Less, Known
  <2>4. (q - relief) - bank <= 0
    BY <1>4, <1>7, <2>1, <2>3, NoneIsNoNumber
  <2>5. relief <= IF given THEN in.excess ELSE 0
    BY <1>3, <1>4, <1>7, <2>1
  <2> QED
    BY <1>5, <2>1, <2>4, <2>5
<1>8. r.excessDebits \in Nat \cup {None} /\ (x # None => r.excessDebits \in Nat)
  BY <1>1, <1>6
<1>9. Covering(r, IF given THEN in.excess ELSE 0)
  <2> SUFFICES ASSUME r.disposition = "PASS"
               PROVE  /\ r.eligible \in Int /\ r.requirement \in Int /\ r.excessDebits \in Nat
                      /\ r.eligible >= r.requirement - (IF given THEN in.excess ELSE 0)
    BY DEF Covering
  <2> QED
    BY <1>1, <1>3, <1>4, <1>7, <1>8 DEF Figure
<1> QED
  BY <1>1, <1>8, <1>9 DEF r, given

-----------------------------------------------------------------------------
\* What the books say is numbers.
LEMMA TotalType ==
    ASSUME NEW lines, LinesTyped(lines), NEW part \in SUBSET lines
    PROVE  Total(part) \in Int
<1> DEFINE g == [l \in part |-> l.amount]
<1>1. IsFiniteSet(part) /\ \A l \in part : l.amount \in Int
  BY FS_Subset DEF LinesTyped, LineTyped
<1>2. Total(part) = SumOf(g)
  BY DEF Total
<1>3. DOMAIN g = part /\ \A l \in part : g[l] \in Int
  BY <1>1
<1> HIDE DEF g
<1> QED
  BY <1>1, <1>2, <1>3, SumOfType

LEMMA AccountsType ==
    ASSUME NEW lines, LinesTyped(lines)
    PROVE  /\ IsFiniteSet(project_margin_accounts(lines))
           /\ \A a \in project_margin_accounts(lines) : a.cash \in Int
<1> DEFINE own == Customers(lines)
           f == [l \in own |-> l.account]
           names == {f[l] : l \in own}
           g == [a \in names |-> MarginAccount(lines, a)]
<1>1. IsFiniteSet(own) /\ own \subseteq lines
  BY FS_Subset DEF LinesTyped, Customers
<1>2. names = {l.account : l \in own}
  OBVIOUS
<1>3. project_margin_accounts(lines) = {g[a] : a \in names}
  <2>1. \A a \in names : g[a] = MarginAccount(lines, a)
    OBVIOUS
  <2>2. project_margin_accounts(lines) = {MarginAccount(lines, a) : a \in names}
    BY <1>2 DEF project_margin_accounts
  <2> HIDE DEF names, g
  <2> QED
    BY <2>1, <2>2
<1> HIDE DEF own, f
<1>4. IsFiniteSet(names)
  BY <1>1, ImageIsFinite
<1> HIDE DEF names
<1>5. \A a : MarginAccount(lines, a).cash \in Int
  <2> TAKE a
  <2> DEFINE part == {l \in {m \in Customers(lines) : m.account = a} : l.side = "money"}
  <2>1. MarginAccount(lines, a).cash = Total(part)
    BY DEF MarginAccount
  <2>2. part \subseteq lines
    BY DEF Customers
  <2> HIDE DEF part
  <2> QED
    BY <2>1, <2>2, TotalType
<1>6. \A a \in names : g[a].cash \in Int
  BY <1>5
<1> HIDE DEF g
<1>7. IsFiniteSet({g[a] : a \in names})
  BY <1>4, ImageIsFinite
<1> QED
  BY <1>3, <1>6, <1>7

LEMMA CashType ==
    ASSUME NEW accounts, IsFiniteSet(accounts), \A a \in accounts : a.cash \in Int
    PROVE  /\ SumOf([a \in accounts |-> Larger(a.cash, 0)]) \in Int
           /\ SumOf([a \in accounts |-> Larger(-a.cash, 0)]) \in Int
<1> DEFINE g == [a \in accounts |-> Larger(a.cash, 0)]
           h == [a \in accounts |-> Larger(-a.cash, 0)]
<1>1. \A a \in accounts : Larger(a.cash, 0) \in Int /\ Larger(-a.cash, 0) \in Int
  BY DEF Larger
<1>2. /\ DOMAIN g = accounts /\ \A a \in accounts : g[a] \in Int
      /\ DOMAIN h = accounts /\ \A a \in accounts : h[a] \in Int
  BY <1>1
<1> HIDE DEF g, h
<1>3. SumOf(g) \in Int /\ SumOf(h) \in Int
  BY <1>2, SumOfType
<1> QED
  BY <1>3 DEF g, h

LEMMA ContractType ==
    ASSUME NEW l, LineTyped(l), NEW prices \in [Issues -> Int], NEW d,
           l.issue # None, l.type \in DOMAIN SpecialRule
    PROVE  Contract(l, d, prices) \in Int
<1> DEFINE m == Magnitude(l.amount)
           price == IF l.type = "FAIL_TO_RECEIVE" /\ Old(l, d)
                      THEN Larger(prices[l.issue], l.fact.price) ELSE l.fact.price
<1>1. l.amount \in Int /\ l.fact.price \in Int /\ prices[l.issue] \in Int
  BY DEF LineTyped
<1>2. m \in Int /\ price \in Int
  BY <1>1 DEF Magnitude, Larger
<1>3. Contract(l, d, prices) = m * price
  BY DEF Contract
<1> HIDE DEF m, price
<1> QED
  BY <1>2, <1>3

LEMMA SpecialType ==
    ASSUME NEW lines, LinesTyped(lines), NEW prices \in [Issues -> Int], NEW d, NEW activity
    PROVE  LET s == SpecialLines(lines, activity, d, prices)
           IN  \A id \in DOMAIN s : s[id] \in Int
<1> DEFINE some == {l \in lines : Counts(l, activity, d)}
           of(id) == {m \in some : SpecialRule[m.type] = id}
           g(id) == [l \in of(id) |-> Contract(l, d, prices)]
           s == [id \in {SpecialRule[l.type] : l \in some} |-> SumOf(g(id))]
<1>1. \A id : SumOf(g(id)) \in Int
  <2> TAKE id
  <2>1. IsFiniteSet(of(id))
    BY FS_Subset DEF LinesTyped
  <2>2. \A l \in of(id) : Contract(l, d, prices) \in Int
    BY ContractType DEF Counts, LinesTyped
  <2>3. DOMAIN g(id) = of(id) /\ \A l \in of(id) : g(id)[l] \in Int
    BY <2>2
  <2> HIDE DEF of, g
  <2> QED
    BY <2>1, <2>3, SumOfType
<1>2. SpecialLines(lines, activity, d, prices) = s
  BY DEF SpecialLines
<1> HIDE DEF g
<1>3. \A id \in DOMAIN s : s[id] \in Int
  BY <1>1
<1> QED
  BY <1>2, <1>3

LEMMA ExhibitType ==
    ASSUME NEW ids, NEW own, NEW special,
           \A id \in DOMAIN own : own[id] \in Int, \A id \in DOMAIN special : special[id] \in Int
    PROVE  LET lines == ExhibitLines(ids, own, special)
           IN  DOMAIN lines = ids /\ \A id \in ids : lines[id] \in Figure
  BY DEF ExhibitLines, Figure

LEMMA ProjectionType ==
    ASSUME NEW lines, LinesTyped(lines), NEW prices \in [Issues -> Int], NEW d, NEW worth,
           NEW margins, NEW threshold
    PROVE  LET p == project_customer_protection(lines, Modeled, d, prices, worth, margins, threshold)
           IN  /\ DOMAIN p.reserve = Modeled /\ \A id \in Modeled : p.reserve[id] \in Figure
               /\ DOMAIN p.pab = Modeled /\ \A id \in Modeled : p.pab[id] \in Figure
<1> DEFINE accounts == project_margin_accounts(lines)
           debits == SumOf([a \in accounts |-> Larger(-a.cash, 0)])
           credits == SumOf([a \in accounts |-> Larger(a.cash, 0)])
           own == [item_01 |-> credits, item_10 |-> debits]
           customer == SpecialLines(lines, "CUSTOMER", d, prices)
           pab == SpecialLines(lines, "PAB", d, prices)
           p == project_customer_protection(lines, Modeled, d, prices, worth, margins, threshold)
<1>1. p.reserve = ExhibitLines(Modeled, own, customer) /\ p.pab = ExhibitLines(Modeled, << >>, pab)
  BY DEF project_customer_protection, Projection
<1>2. debits \in Int /\ credits \in Int
  BY AccountsType, CashType
<1>3. /\ \A id \in DOMAIN customer : customer[id] \in Int
      /\ \A id \in DOMAIN pab : pab[id] \in Int
  BY SpecialType
<1> HIDE DEF debits, credits
<1>4. \A id \in DOMAIN own : own[id] \in Int
  BY <1>2
<1> HIDE DEF own, customer, pab, p
<1>5. \A id \in DOMAIN << >> : << >>[id] \in Int
  OBVIOUS
<1> QED
  BY <1>1, <1>3, <1>4, <1>5, ExhibitType DEF p

-----------------------------------------------------------------------------
\* The days of the run.
LEMMA DayAdvances ==
    ASSUME NEW start \in Int, NEW days \in Nat \ {0}, Calendar!AddBusinessDays(start, days) # None
    PROVE  Calendar!AddBusinessDays(start, days) \in Int /\ Calendar!AddBusinessDays(start, days) > start
<1> DEFINE x == Calendar!AddBusinessDays(start, days)
<1>1. /\ x \in start..LoadedUntil
      /\ Cardinality(Calendar!BusinessDays(start + 1, x)) = days
  BY DayReached
<1> HIDE DEF x
<1>2. x \in Int /\ x >= start
  BY <1>1, DeadlinesAssumption
<1>3. x # start
  <2> SUFFICES ASSUME x = start PROVE FALSE
    OBVIOUS
  <2>1. Calendar!BusinessDays(start + 1, x) = {}
    BY DEF Calendar!BusinessDays
  <2> QED
    BY <1>1, <2>1, FS_EmptySet
<1> QED
  BY <1>2, <1>3 DEF x

LEMMA DatesAreNumbers == RunDates \subseteq Int
<1>1. \A d \in StartDate..(StartDate + RunDays - 1) :
        d \in Int /\ Calendar!AddBusinessDays(d, 1) \in Int
  BY DayAdvances, CalendarCoversTheRun
<1> QED
  BY <1>1, CalendarCoversTheRun DEF RunDates

-----------------------------------------------------------------------------
\* The inputs of a firm's computations.
Daily == profile.history # None /\ profile.history >= 500
FirmInput(in, accounts) ==
    /\ IsRecord(in, ReserveFields)
    /\ in.accounts = accounts /\ in.as_of = today /\ in.standard = "alternative"
    /\ in.mode = (IF Daily THEN "daily" ELSE "weekly")
    /\ DOMAIN in.lines = Modeled /\ \A id \in Modeled : in.lines[id] \in Int
    /\ in.average = profile.history /\ in.effective = (IF Daily THEN today ELSE None)
    /\ in.previously = FALSE /\ in.securities = 0
    /\ IsFiniteSet(in.cash) /\ \A d \in in.cash : d.amount \in Int /\ d.equity \in Figure
    /\ in.excess \in Figure

LEMMA FirmInputTyped ==
    ASSUME NEW in, NEW accounts, FirmInput(in, accounts)
    PROVE  ReserveTyped(in)
  BY DEF FirmInput, ReserveTyped, Figure

LEMMA CompleteInput ==
    ASSUME NEW accounts, NEW lines, DOMAIN lines = Modeled, \A id \in Modeled : lines[id] \in Figure
    PROVE  LET in == _complete_reserve_inputs(accounts, lines)
           IN  FirmInput(in, accounts) /\ in.cash = {} /\ in.excess = None
<1> DEFINE in == _complete_reserve_inputs(accounts, lines)
           given == [id \in Modeled |-> IF lines[id] = None THEN 0 ELSE lines[id]]
<1>1. DOMAIN given = Modeled /\ \A id \in Modeled : given[id] \in Int
  BY DEF Figure
<1>2. /\ in.accounts = accounts /\ in.as_of = today /\ in.standard = "alternative"
      /\ in.mode = (IF Daily THEN "daily" ELSE "weekly") /\ in.lines = given
      /\ in.average = profile.history /\ in.effective = (IF Daily THEN today ELSE None)
      /\ in.previously = FALSE /\ in.securities = 0 /\ in.cash = {} /\ in.excess = None
  BY DEF _complete_reserve_inputs, Daily
<1>3. IsRecord(in, ReserveFields)
  <2>1. in = [f \in DOMAIN in |-> in[f]]
    BY DEF _complete_reserve_inputs
  <2>2. ReserveFields \subseteq DOMAIN in
    BY DEF _complete_reserve_inputs, ReserveFields
  <2> QED
    BY <2>1, <2>2, Zenon DEF IsRecord
<1> HIDE DEF in, given
<1> QED
  BY <1>1, <1>2, <1>3, FS_EmptySet DEF FirmInput, Figure, in

LEMMA RelievedInput ==
    ASSUME NEW pab, FirmInput(pab, "pab"), NEW customer, customer.excessDebits \in Figure
    PROVE  LET in == with_customer_excess_debits(pab, customer)
           IN  /\ FirmInput(in, "pab")
               /\ in.excess = customer.excessDebits /\ in.excessAsOf = customer.as_of
               /\ in.cash = pab.cash
<1> DEFINE in == with_customer_excess_debits(pab, customer)
           changed == {"excess", "excessAsOf"}
<1>1. IsRecord(pab, ReserveFields)
  BY DEF FirmInput
<1>2. pab = [f \in DOMAIN pab |-> pab[f]] /\ ReserveFields \subseteq DOMAIN pab
  BY <1>1 DEF IsRecord
<1>3. /\ in = [f \in DOMAIN in |-> in[f]] /\ DOMAIN in = DOMAIN pab
      /\ in.excess = customer.excessDebits /\ in.excessAsOf = customer.as_of
      /\ \A f \in DOMAIN pab \ changed : in[f] = pab[f]
  BY <1>2 DEF with_customer_excess_debits, ReserveFields
<1> HIDE DEF in
<1>4. IsRecord(in, ReserveFields)
  BY <1>2, <1>3 DEF IsRecord
<1>5. \A f \in ReserveFields \ changed : in[f] = pab[f]
  BY <1>2, <1>3
<1>6. /\ in.accounts = pab.accounts /\ in.as_of = pab.as_of /\ in.standard = pab.standard
      /\ in.mode = pab.mode /\ in.lines = pab.lines /\ in.average = pab.average
      /\ in.effective = pab.effective /\ in.previously = pab.previously
      /\ in.securities = pab.securities /\ in.cash = pab.cash
  BY <1>5 DEF ReserveFields
<1> QED
  BY <1>3, <1>4, <1>6 DEF FirmInput, in

LEMMA BankedInput ==
    ASSUME profile.equity \in Figure,
           NEW in, NEW accounts, FirmInput(in, accounts), in.cash = {}, NEW cash \in Int
    PROVE  LET banked == InBank(in, cash)
           IN  /\ FirmInput(banked, accounts)
               /\ banked.excess = in.excess /\ banked.lines = in.lines
               /\ banked.cash = IF cash = 0 THEN {}
                                ELSE {[bank |-> "reserve bank", amount |-> cash, affiliated |-> FALSE,
                                       equity |-> profile.equity]}
<1> DEFINE banked == InBank(in, cash)
           deposit == [bank |-> "reserve bank", amount |-> cash, affiliated |-> FALSE,
                       equity |-> profile.equity]
           deposits == {deposit}
<1>1. CASE cash = 0
  BY <1>1 DEF InBank
<1>2. CASE cash # 0
  <2>1. in = [f \in DOMAIN in |-> in[f]] /\ ReserveFields \subseteq DOMAIN in
    BY DEF FirmInput, IsRecord
  <2>2. banked = [in EXCEPT !.cash = deposits]
    BY <1>2 DEF InBank
  <2>3. \A d \in deposits : d.amount \in Int /\ d.equity \in Figure
    <3>1. deposit.amount = cash /\ deposit.equity = profile.equity
      OBVIOUS
    <3> HIDE DEF deposit
    <3> QED
      BY <3>1
  <2>4. IsFiniteSet(deposits)
    BY FS_Singleton
  <2> HIDE DEF banked, deposits
  <2>5. /\ banked = [f \in DOMAIN banked |-> banked[f]] /\ DOMAIN banked = DOMAIN in
        /\ banked.cash = deposits /\ \A f \in DOMAIN in \ {"cash"} : banked[f] = in[f]
    BY <2>1, <2>2 DEF ReserveFields
  <2>6. IsRecord(banked, ReserveFields)
    BY <2>1, <2>5 DEF IsRecord
  <2>7. \A f \in ReserveFields \ {"cash"} : banked[f] = in[f]
    BY <2>1, <2>5
  <2>8. /\ banked.accounts = in.accounts /\ banked.as_of = in.as_of
        /\ banked.standard = in.standard /\ banked.mode = in.mode /\ banked.lines = in.lines
        /\ banked.average = in.average /\ banked.effective = in.effective
        /\ banked.previously = in.previously /\ banked.securities = in.securities
        /\ banked.excess = in.excess
    BY <2>7 DEF ReserveFields
  <2>9. FirmInput(banked, accounts)
    BY <2>3, <2>4, <2>5, <2>6, <2>8 DEF FirmInput
  <2> QED
    BY <1>2, <2>5, <2>8, <2>9 DEF banked, deposits, deposit
<1> QED
  BY <1>1, <1>2

-----------------------------------------------------------------------------
\* The firm of a run, its books and what it computes.
FirmInv ==
    /\ profile \in Profiles /\ today \in RunDates /\ step \in {"book", "protected"}
    /\ profile.part = "protect" => LinesTyped(books)
    /\ step = "protected" => profile.part = "protect"

LEMMA FirmFacts ==
    ASSUME FirmInv, profile.part = "protect"
    PROVE  /\ TableTyped(profile.table) /\ profile.prices \in [Issues -> Int]
           /\ profile.history \in Figure /\ profile.equity \in Figure /\ LinesTyped(books)
           /\ today \in Int
           /\ \A n \in 1..3 : /\ Calendar!AddBusinessDays(today, n) \in Int
                              /\ Calendar!AddBusinessDays(today, n) > today
<1>1. FirmTyped(profile)
  BY BooksAssumption DEF FirmInv
<1>2. today \in Int
  BY DatesAreNumbers DEF FirmInv
<1>3. \A n \in 1..3 : n \in Nat \ {0} /\ Calendar!AddBusinessDays(today, n) # None
  BY CalendarCoversTheRun DEF FirmInv
<1>4. \A n \in 1..3 : /\ Calendar!AddBusinessDays(today, n) \in Int
                      /\ Calendar!AddBusinessDays(today, n) > today
  BY <1>2, <1>3, DayAdvances
<1> QED
  BY <1>1, <1>2, <1>4 DEF FirmTyped, FirmInv

LEMMA InputsGiven ==
    ASSUME FirmInv, profile.part = "protect"
    PROVE  /\ FirmInput(Inputs(Projected).customer, "customer")
           /\ Inputs(Projected).customer.cash = {} /\ Inputs(Projected).customer.excess = None
           /\ FirmInput(Inputs(Projected).pab, "pab")
           /\ Inputs(Projected).pab.cash = {} /\ Inputs(Projected).pab.excess = None
<1> DEFINE p == Projected
<1>1. profile.prices \in [Issues -> Int] /\ LinesTyped(books)
  BY FirmFacts
<1>2. /\ DOMAIN p.reserve = Modeled /\ \A id \in Modeled : p.reserve[id] \in Figure
      /\ DOMAIN p.pab = Modeled /\ \A id \in Modeled : p.pab[id] \in Figure
  BY <1>1, ProjectionType DEF Projected
<1>3. /\ Inputs(p).customer = _complete_reserve_inputs("customer", p.reserve)
      /\ Inputs(p).pab = _complete_reserve_inputs("pab", p.pab)
  BY DEF Inputs
<1> HIDE DEF p
<1> QED
  BY <1>2, <1>3, CompleteInput DEF p

\* A balance of a reserve bank is a number.
LEMMA BalanceType ==
    ASSUME NEW lines, LinesTyped(lines), NEW type, NEW through
    PROVE  reserve_bank_balance(lines, type, through) \in Int
  BY TotalType DEF reserve_bank_balance

LEMMA AccountsAre == Accounts = {"customer", "pab"}
  BY DEF Accounts, Banks

\* The inputs with what is in the bank.
LEMMA CountedGiven ==
    ASSUME FirmInv, profile.part = "protect", NEW lines, LinesTyped(lines), NEW deadline,
           NEW inputs, FirmInput(inputs.customer, "customer"), FirmInput(inputs.pab, "pab"),
           inputs.customer.cash = {}, inputs.pab.cash = {}
    PROVE  LET by == CountedBy(deadline, inputs, lines)
           IN  FirmInput(by.customer, "customer") /\ FirmInput(by.pab, "pab")
<1> DEFINE by == CountedBy(deadline, inputs, lines)
           b(k) == reserve_bank_balance(lines, Banks[k], deadline)
<1>1. by.customer = InBank(inputs.customer, b("customer")) /\ by.pab = InBank(inputs.pab, b("pab"))
  <2>1. by["customer"] = InBank(inputs["customer"], b("customer"))
        /\ by["pab"] = InBank(inputs["pab"], b("pab"))
    BY AccountsAre DEF CountedBy, counted
  <2> QED
    BY <2>1
<1>2. b("customer") \in Int /\ b("pab") \in Int
  BY BalanceType
<1>3. profile.equity \in Figure
  BY FirmFacts
<1> HIDE DEF by, b
<1>4. \A in, cash, accounts : FirmInput(in, accounts) /\ in.cash = {} /\ cash \in Int =>
        FirmInput(InBank(in, cash), accounts)
  BY <1>3, BankedInput
<1>5. FirmInput(by.customer, "customer")
  BY <1>1, <1>2, <1>4, Zenon
<1>6. FirmInput(by.pab, "pab")
  BY <1>1, <1>2, <1>4, Zenon
<1> QED
  BY <1>5, <1>6 DEF by

\* A firm's computations cover what is required; PAB's less what the customers' relieve.
LEMMA CustomerCovers ==
    ASSUME FirmInv, profile.part = "protect", NEW in, FirmInput(in, "customer")
    PROVE  LET r == compute_reserve(in, profile.table)
           IN  Covering(r, 0) /\ r.excessDebits \in Nat \cup {None} /\ r.as_of = today
<1>1. ReserveTyped(in) /\ TableTyped(profile.table)
  BY FirmInputTyped, FirmFacts
<1>2. Customer(in) /\ in.as_of = today
  BY DEF FirmInput, Customer
<1> QED
  BY <1>1, <1>2, ReserveCovers

LEMMA PabCovers ==
    ASSUME FirmInv, profile.part = "protect", NEW in, FirmInput(in, "pab"),
           NEW customer, customer.excessDebits \in Nat \cup {None}
    PROVE  LET r == Relieved(in, customer)
           IN  /\ customer.as_of # today => Covering(r, 0)
               /\ Covering(r, IF customer.excessDebits = None THEN 0 ELSE customer.excessDebits)
<1> DEFINE relieved == with_customer_excess_debits(in, customer)
           given == ~Customer(relieved) /\ relieved.excess # None
                    /\ relieved.excessAsOf = relieved.as_of
           r == compute_reserve(relieved, profile.table)
<1>1. customer.excessDebits \in Figure
  BY DEF Figure
<1>2. /\ FirmInput(relieved, "pab")
      /\ relieved.excess = customer.excessDebits /\ relieved.excessAsOf = customer.as_of
  BY <1>1, RelievedInput
<1>3. Relieved(in, customer) = r
  BY DEF Relieved
<1> HIDE DEF relieved
<1>4. ReserveTyped(relieved) /\ TableTyped(profile.table) /\ relieved.as_of = today
  BY <1>2, FirmInputTyped, FirmFacts DEF FirmInput
<1>5. Covering(r, IF given THEN relieved.excess ELSE 0)
  BY <1>4, ReserveCovers
<1> HIDE DEF r
<1>6. CASE given
  BY <1>2, <1>3, <1>4, <1>5, <1>6
<1>7. CASE ~given
  <2>1. Covering(r, 0)
    BY <1>5, <1>7
  <2>2. customer.excessDebits # None =>
          Covering(r, customer.excessDebits)
    BY <2>1 DEF Covering
  <2> QED
    BY <1>3, <2>1, <2>2
<1> QED
  BY <1>6, <1>7

LEMMA AfterType ==
    ASSUME NEW in, ReserveTyped(in), NEW t, TableTyped(t)
    PROVE  compute_reserve(in, t).after \in Figure
<1>1. compute_reserve(in, t).after = Less(RequirementOf(in, t), ReliefOf(in, t).value)
  BY ReserveUnfolds DEF AfterOf
<1>2. RequirementOf(in, t) \in Figure /\ ReliefOf(in, t).value \in Figure
  BY RequirementType, ReliefType
<1> QED
  BY <1>1, <1>2, LessType

\* What the deposits are sized by.
LEMMA SizedType ==
    ASSUME FirmInv, profile.part = "protect", NEW inputs,
           FirmInput(inputs.customer, "customer"), FirmInput(inputs.pab, "pab")
    PROVE  /\ Computed(inputs).customer = compute_reserve(inputs.customer, profile.table)
           /\ Computed(inputs).pab = Relieved(inputs.pab, Computed(inputs).customer)
           /\ Computed(inputs).customer.after \in Figure /\ Computed(inputs).pab.after \in Figure
<1> DEFINE c == compute_reserve(inputs.customer, profile.table)
           p == Relieved(inputs.pab, c)
           relieved == with_customer_excess_debits(inputs.pab, c)
<1>1. Computed(inputs).customer = c /\ Computed(inputs).pab = p
  BY DEF Computed, Both
<1>2. TableTyped(profile.table)
  BY FirmFacts
<1>3. c.excessDebits \in Figure /\ c.after \in Figure
  <2>1. ReserveTyped(inputs.customer)
    BY FirmInputTyped
  <2>2. c.excessDebits \in Nat \cup {None}
    BY CustomerCovers
  <2> QED
    BY <1>2, <2>1, <2>2, AfterType DEF Figure
<1>4. p = compute_reserve(relieved, profile.table)
  BY DEF Relieved
<1> HIDE DEF c
<1>5. FirmInput(relieved, "pab")
  BY <1>3, RelievedInput
<1> HIDE DEF relieved, p
<1>6. p.after \in Figure
  BY <1>2, <1>4, <1>5, FirmInputTyped, AfterType
<1> QED
  BY <1>1, <1>3, <1>6 DEF c, p

LEMMA RoundedType == \A x \in Int : Ceiling2(x) \in Int /\ Floor2(x) \in Int
<1> SUFFICES ASSUME NEW x \in Int PROVE Ceiling2(x) \in Int /\ Floor2(x) \in Int
  OBVIOUS
<1> DEFINE u == (-x) \div Cent
           v == x \div Cent
<1>1. Cent \in Nat \ {0}
  BY BooksAssumption
<1>2. u \in Int /\ v \in Int
  BY <1>1
<1>3. Ceiling2(x) = Cent * (-u) /\ Floor2(x) = Cent * v
  BY DEF Ceiling2, Floor2, UpTo
<1> HIDE DEF u, v
<1> QED
  BY <1>1, <1>2, <1>3

Drawn == {"ON_TIME", "SHORT", "LATE"}
LEMMA DepositIs ==
    ASSUME NEW needed \in Figure, NEW draw \in Drawn \cup {None}, NEW deadline
    PROVE  LET d == DepositOf(needed, draw, deadline) IN
           /\ needed = None => d = Deposit("NOT_COMPUTED", 0, None)
           /\ needed # None /\ draw = None =>
                d = Deposit(IF needed > 0 THEN "NOT_DECLARED_IN_PACK" ELSE "NO_DEPOSIT_NEEDED", 0, None)
           /\ needed # None /\ draw # None =>
                /\ needed < 0 => d = Deposit("WITHDRAWAL_TO_REQUIREMENT", Ceiling2(needed), deadline)
                /\ needed = 0 => d = Deposit("NO_DEPOSIT_NEEDED", 0, None)
                /\ needed > 0 /\ draw = "SHORT" =>
                     d = Deposit("SHORT", Floor2(needed - Percent(ShortShare, needed)), deadline)
                /\ needed > 0 /\ draw = "LATE" =>
                     d = Deposit("LATE", Ceiling2(needed), Calendar!AddBusinessDays(deadline, 1))
                /\ needed > 0 /\ draw = "ON_TIME" => d = Deposit("ON_TIME", Ceiling2(needed), deadline)
<1> DEFINE d == DepositOf(needed, draw, deadline)
<1>1. needed = None => d = Deposit("NOT_COMPUTED", 0, None)
  BY DEF DepositOf
<1>2. needed # None /\ draw = None =>
        d = Deposit(IF needed > 0 THEN "NOT_DECLARED_IN_PACK" ELSE "NO_DEPOSIT_NEEDED", 0, None)
  BY DEF DepositOf
<1>3. ASSUME needed # None, draw # None
      PROVE  /\ needed < 0 => d = Deposit("WITHDRAWAL_TO_REQUIREMENT", Ceiling2(needed), deadline)
             /\ needed = 0 => d = Deposit("NO_DEPOSIT_NEEDED", 0, None)
             /\ needed > 0 /\ draw = "SHORT" =>
                  d = Deposit("SHORT", Floor2(needed - Percent(ShortShare, needed)), deadline)
             /\ needed > 0 /\ draw = "LATE" =>
                  d = Deposit("LATE", Ceiling2(needed), Calendar!AddBusinessDays(deadline, 1))
             /\ needed > 0 /\ draw = "ON_TIME" => d = Deposit("ON_TIME", Ceiling2(needed), deadline)
  <2>1. needed \in Int
    BY <1>3 DEF Figure
  <2>2. CASE needed < 0
    BY <1>3, <2>1, <2>2 DEF DepositOf
  <2>3. CASE needed = 0
    BY <1>3, <2>1, <2>3 DEF DepositOf
  <2>4. CASE needed > 0
    BY <1>3, <2>1, <2>4 DEF DepositOf
  <2> QED
    BY <2>1, <2>2, <2>3, <2>4
<1> QED
  BY <1>1, <1>2, <1>3

LEMMA DepositType ==
    ASSUME NEW needed \in Figure, NEW draw \in Drawn \cup {None}, NEW deadline
    PROVE  DepositOf(needed, draw, deadline).amount \in Int
<1> DEFINE d == DepositOf(needed, draw, deadline)
           short == Floor2(needed - Percent(ShortShare, needed))
           all == Ceiling2(needed)
<1>1. \A outcome, date : \A amount \in Int : Deposit(outcome, amount, date).amount \in Int
  BY DEF Deposit
<1>2. needed \in Int => short \in Int /\ all \in Int
  <2> HAVE needed \in Int
  <2>1. Percent(ShortShare, needed) \in Int
    BY BooksAssumption, PercentType
  <2>2. needed - Percent(ShortShare, needed) \in Int
    BY <2>1
  <2> QED
    BY <2>2, RoundedType
<1>3. CASE needed = None \/ draw = None
  BY <1>1, <1>3, DepositIs
<1>4. CASE needed # None /\ draw # None
  <2>1. needed \in Int /\ (needed < 0 \/ needed = 0 \/ needed > 0) /\ draw \in Drawn
    BY <1>4 DEF Figure
  <2>2. \E outcome, date : \E amount \in {0, short, all} : d = Deposit(outcome, amount, date)
    BY <1>4, <2>1, DepositIs DEF Drawn
  <2>3. short \in Int /\ all \in Int /\ 0 \in Int
    BY <1>2, <2>1
  <2> HIDE DEF d, short, all
  <2>4. d.amount \in Int
    BY <1>1, <2>2, <2>3
  <2> QED
    BY <2>4 DEF d
<1> QED
  BY <1>3, <1>4

-----------------------------------------------------------------------------
\* What is booked and deposited is typed.
LEMMA UnionTyped ==
    ASSUME NEW S, LinesTyped(S), NEW T, LinesTyped(T)
    PROVE  LinesTyped(S \cup T)
  BY FS_Union DEF LinesTyped

LEMMA ImageTyped ==
    ASSUME NEW S, IsFiniteSet(S), NEW f, \A x \in S : LineTyped(f[x])
    PROVE  LinesTyped({f[x] : x \in S})
<1>1. IsFiniteSet({f[x] : x \in S})
  BY ImageIsFinite
<1> QED
  BY <1>1 DEF LinesTyped

LEMMA BookedTyped ==
    ASSUME NEW b \in Bookings
    PROVE  LinesTyped(Dated(b))
<1> DEFINE line(l) == [entry |-> b.id, account |-> l.account, type |-> l.type, side |-> l.side,
                       issue |-> l.issue, amount |-> l.amount, effective |-> today, fact |-> l.fact]
           f == [l \in b.lines |-> line(l)]
<1>1. LinesTyped(b.lines)
  BY BooksAssumption
<1>2. \A l \in b.lines : LineTyped(line(l))
  BY <1>1 DEF LinesTyped, LineTyped
<1>3. \A l \in b.lines : f[l] = line(l)
  OBVIOUS
<1>4. Dated(b) = {line(l) : l \in b.lines}
  BY DEF Dated
<1> HIDE DEF f, line
<1>5. Dated(b) = {f[l] : l \in b.lines}
  BY <1>3, <1>4
<1> QED
  BY <1>1, <1>2, <1>3, <1>5, ImageTyped DEF LinesTyped

LEMMA BankLineTyped ==
    ASSUME NEW entry, NEW k \in Accounts, NEW amount \in Int, NEW effective
    PROVE  LineTyped(BankLine(entry, k, amount, effective))
<1>1. /\ BankLine(entry, k, amount, effective).amount = amount
      /\ BankLine(entry, k, amount, effective).issue = None
  BY DEF BankLine
<1> QED
  BY <1>1 DEF LineTyped

LEMMA AccountsAreFinite == \A S \in SUBSET Accounts : IsFiniteSet(S)
<1>1. IsFiniteSet({"customer", "pab"})
  <2>1. IsFiniteSet({"customer"})
    BY FS_Singleton
  <2>2. IsFiniteSet({"customer"} \cup {"pab"})
    BY <2>1, FS_AddElement
  <2>3. {"customer"} \cup {"pab"} = {"customer", "pab"}
    OBVIOUS
  <2> QED
    BY <2>2, <2>3
<1> QED
  BY <1>1, AccountsAre, FS_Subset

LEMMA ForwardTyped ==
    ASSUME LinesTyped(books)
    PROVE  LinesTyped(BroughtForward)
<1> DEFINE kept == {l \in books : \A k \in Accounts : l.type # Banks[k]}
           S == {j \in Accounts : Opening(j) # 0}
           line(k) == BankLine(<<"forward", k, today>>, k, Opening(k), today)
           f == [k \in S |-> line(k)]
<1>1. LinesTyped(kept)
  BY FS_Subset DEF LinesTyped
<1>2. \A k : Opening(k) \in Int
  BY BalanceType DEF Opening
<1>3. \A k \in S : LineTyped(line(k))
  BY <1>2, BankLineTyped
<1>4. \A k \in S : f[k] = line(k)
  OBVIOUS
<1>5. IsFiniteSet(S)
  BY AccountsAreFinite
<1>6. BroughtForward = IF ~profile.forward THEN books ELSE kept \cup {line(k) : k \in S}
  BY Zenon DEF BroughtForward
<1> HIDE DEF kept, S, line, f
<1>7. {line(k) : k \in S} = {f[k] : k \in S}
  BY <1>4
<1>8. LinesTyped({f[k] : k \in S})
  BY <1>3, <1>4, <1>5, ImageTyped
<1>9. LinesTyped(kept \cup {line(k) : k \in S})
  BY <1>1, <1>7, <1>8, UnionTyped
<1> QED
  BY <1>6, <1>9

LEMMA MadeTyped ==
    ASSUME NEW deposits, \A k \in Accounts : deposits[k].amount \in Int
    PROVE  LinesTyped(Made(deposits))
<1> DEFINE S == {j \in Accounts : deposits[j].amount # 0}
           line(k) == BankLine(<<deposits[k].outcome, k, today>>, k, deposits[k].amount,
                               deposits[k].date)
           f == [k \in S |-> line(k)]
<1>1. \A k \in S : LineTyped(line(k))
  BY BankLineTyped
<1>2. \A k \in S : f[k] = line(k)
  OBVIOUS
<1>3. IsFiniteSet(S)
  BY AccountsAreFinite
<1>4. Made(deposits) = {line(k) : k \in S}
  BY Zenon DEF Made
<1> HIDE DEF S, line, f
<1>5. {line(k) : k \in S} = {f[k] : k \in S}
  BY <1>2
<1> QED
  BY <1>1, <1>2, <1>3, <1>4, <1>5, ImageTyped

\* The deposits of a day, by what is needed and what is drawn for it.
NeededFor(k, inputs) == Less(Computed(inputs)[k].after, Opening(k))
DrawFor(k, draw) == IF draw = None THEN None ELSE draw[k]
LEMMA DepositsAre ==
    ASSUME FirmInv, profile.part = "protect", NEW inputs,
           FirmInput(inputs.customer, "customer"), FirmInput(inputs.pab, "pab"),
           NEW draw \in Draws, NEW deadline, NEW k \in Accounts
    PROVE  /\ Opening(k) \in Int /\ Computed(inputs)[k].after \in Figure
           /\ NeededFor(k, inputs) \in Figure /\ DrawFor(k, draw) \in Drawn \cup {None}
           /\ DepositsOf(Computed(inputs), draw, deadline)[k] =
                DepositOf(NeededFor(k, inputs), DrawFor(k, draw), deadline)
           /\ DepositsOf(Computed(inputs), draw, deadline)[k].amount \in Int
<1> DEFINE needed == NeededFor(k, inputs)
           d == DrawFor(k, draw)
<1>1. Opening(k) \in Int
  <2>1. LinesTyped(books)
    BY FirmFacts
  <2> QED
    BY <2>1, BalanceType DEF Opening
<1>2. Computed(inputs)[k].after \in Figure
  BY SizedType, AccountsAre
<1>3. needed \in Figure
  BY <1>1, <1>2, LessType DEF NeededFor, Figure
<1>4. d \in Drawn \cup {None}
  BY DrawsAssumption DEF DrawFor, Drawn
<1>5. DepositsOf(Computed(inputs), draw, deadline)[k] = DepositOf(needed, d, deadline)
  BY DEF DepositsOf, NeededFor, DrawFor
<1> HIDE DEF needed, d
<1>6. DepositOf(needed, d, deadline).amount \in Int
  BY <1>3, <1>4, DepositType
<1> QED
  BY <1>1, <1>2, <1>3, <1>4, <1>5, <1>6 DEF needed, d

-----------------------------------------------------------------------------
\* The firm's books stay of its shape, and its days days of the run.
LEMMA ProtectLines ==
    ASSUME FirmInv, profile.part = "protect", NEW draw \in Draws, NEW deadline,
           NEW inputs, FirmInput(inputs.customer, "customer"), FirmInput(inputs.pab, "pab")
    PROVE  LinesTyped(BroughtForward \cup Made(DepositsOf(Computed(inputs), draw, deadline)))
<1> DEFINE ds == DepositsOf(Computed(inputs), draw, deadline)
<1>1. \A k \in Accounts : ds[k].amount \in Int
  BY DepositsAre
<1> HIDE DEF ds
<1>2. LinesTyped(Made(ds))
  BY <1>1, MadeTyped, Zenon
<1>3. LinesTyped(BroughtForward)
  BY FirmFacts, ForwardTyped, Zenon
<1> QED
  BY <1>2, <1>3, UnionTyped, Zenon DEF ds

LEMMA NextDate ==
    ASSUME today \in RunDates, today < StartDate + RunDays
    PROVE  /\ Calendar!AddBusinessDays(today, 1) \in RunDates
           /\ Calendar!AddBusinessDays(today, 1) > today
<1>1. StartDate \in Int /\ RunDays \in Nat
  BY CalendarCoversTheRun
<1>2. ASSUME NEW d \in StartDate..(StartDate + RunDays - 1)
      PROVE  d \in Int /\ Calendar!AddBusinessDays(d, 1) > d /\ d >= StartDate
             /\ Calendar!AddBusinessDays(d, 1) \in Int
  <2>1. d \in Int /\ d >= StartDate
    BY <1>1
  <2>2. Calendar!AddBusinessDays(d, 1) # None
    BY CalendarCoversTheRun, Zenon
  <2> QED
    BY <2>1, <2>2, DayAdvances
<1>3. today \in Int /\ today >= StartDate
  <2>1. CASE today = StartDate
    BY <2>1, <1>1
  <2>2. CASE today # StartDate
    <3>1. PICK d \in StartDate..(StartDate + RunDays - 1) : today = Calendar!AddBusinessDays(d, 1)
      BY <2>2, Zenon DEF RunDates
    <3> QED
      BY <3>1, <1>2, <1>1
  <2> QED
    BY <2>1, <2>2
<1>4. today \in StartDate..(StartDate + RunDays - 1)
  BY <1>1, <1>3
<1> QED
  BY <1>2, <1>4, Zenon DEF RunDates

LEMMA FirmAlways == Spec => []FirmInv
<1>1. Init => FirmInv
  <2> SUFFICES ASSUME Init PROVE FirmInv
    OBVIOUS
  <2>1. profile \in Profiles /\ today \in RunDates /\ step = "book" /\ books = profile.opening
    BY Zenon DEF Init, RunDates
  <2>2. profile.part = "protect" => LinesTyped(books)
    BY <2>1, BooksAssumption, Zenon DEF FirmTyped
  <2> QED
    BY <2>1, <2>2, Zenon DEF FirmInv
<1>2. FirmInv /\ [Next]_vars => FirmInv'
  <2> SUFFICES ASSUME FirmInv, [Next]_vars PROVE FirmInv'
    OBVIOUS
  <2>1. CASE Book
    <3>1. profile' = profile /\ today' = today /\ step' = step /\ profile.part = "protect"
          /\ step = "book"
      BY <2>1, Zenon DEF Book
    <3>2. PICK b \in Bookings : books' = books \cup Dated(b)
      BY <2>1, Zenon DEF Book
    <3>3. LinesTyped(books \cup Dated(b))
      BY <3>1, FirmFacts, BookedTyped, UnionTyped, Zenon
    <3>4. LinesTyped(books)'
      BY <3>2, <3>3, Zenon DEF LinesTyped, LineTyped
    <3> QED
      BY <3>1, <3>4, Zenon DEF FirmInv
  <2>2. CASE Protect
    <3>1. profile' = profile /\ today' = today /\ step' = "protected" /\ profile.part = "protect"
      BY <2>2, Zenon DEF Protect
    <3>2. PICK draw, deadline, inputs :
               /\ draw \in Draws /\ inputs = Inputs(Projected)
               /\ books' = BroughtForward \cup Made(DepositsOf(Computed(inputs), draw, deadline))
      BY <2>2, Zenon DEF Protect, ProtectFrom, ProtectAs, Settle, Post
    <3>3. LinesTyped(BroughtForward \cup Made(DepositsOf(Computed(inputs), draw, deadline)))
      BY <3>1, <3>2, InputsGiven, ProtectLines, Zenon
    <3>4. LinesTyped(books)'
      BY <3>2, <3>3, Zenon DEF LinesTyped, LineTyped
    <3> QED
      BY <3>1, <3>4, Zenon DEF FirmInv
  <2>3. CASE NextDay
    <3>1. profile' = profile /\ books' = books /\ step' = "book" /\ today < StartDate + RunDays
          /\ today' = Calendar!AddBusinessDays(today, 1)
      BY <2>3, Zenon DEF NextDay
    <3>2. today' \in RunDates
      BY <3>1, NextDate, Zenon DEF FirmInv
    <3> QED
      BY <3>1, <3>2, Zenon DEF FirmInv, LinesTyped, LineTyped
  <2>4. CASE UNCHANGED <<profile, today, step, books>>
    BY <2>4, Zenon DEF FirmInv, LinesTyped, LineTyped
  <2>5. [Next]_vars => Book \/ Protect \/ NextDay \/ UNCHANGED <<profile, today, step, books>>
    BY Zenon DEF Next, vars, Restate, Review, Wait, CountSecurities, Validate
  <2> QED
    BY <2>1, <2>2, <2>3, <2>4, <2>5
<1> QED
  BY <1>1, <1>2, PTL DEF Spec

-----------------------------------------------------------------------------
\* What the day's computations cover.
CoversInv ==
    /\ step = "book" => restated = None
    /\ before # None =>
         before.as_of \in Int /\ before.as_of < today /\ before.excessDebits \in Nat \cup {None}
    /\ step = "protected" =>
         LET c == held.customer
         IN  /\ c.as_of = today /\ c.excessDebits \in Nat \cup {None}
             /\ Covering(c, 0)
             /\ Covering(held.pab, IF c.excessDebits = None THEN 0 ELSE c.excessDebits)
             /\ restated # None => Covering(restated, 0)

LEMMA ProtectCovers ==
    ASSUME FirmInv, CoversInv, Protect
    PROVE  LET c == held'.customer
           IN  /\ c.as_of = today /\ c.excessDebits \in Nat \cup {None}
               /\ Covering(c, 0)
               /\ Covering(held'.pab, IF c.excessDebits = None THEN 0 ELSE c.excessDebits)
<1>1. profile.part = "protect"
  BY Zenon DEF Protect
<1>2. PICK draw, deadline, inputs, lines, by :
           /\ draw \in Draws /\ inputs = Inputs(Projected)
           /\ lines = BroughtForward \cup Made(DepositsOf(Computed(inputs), draw, deadline))
           /\ by = CountedBy(deadline, inputs, lines)
           /\ held'.customer = Computed(by).customer /\ held'.pab = Computed(by).pab
  <2>1. PICK draw, deadline : draw \in Draws /\ ProtectAs(draw, Projected, Inputs(Projected), deadline)
    BY Zenon DEF Protect, ProtectFrom
  <2> DEFINE inputs == Inputs(Projected)
             lines == BroughtForward \cup Made(DepositsOf(Computed(inputs), draw, deadline))
             by == CountedBy(deadline, inputs, lines)
  <2>2. held'.customer = Computed(by).customer /\ held'.pab = Computed(by).pab
    <3>1. PICK deposits, margins, capital, control, c :
               /\ c = Computed(by)
               /\ held' = [customer |-> c.customer, pab |-> c.pab, deposits |-> deposits,
                           deadline |-> deadline, margins |-> margins, capital |-> capital,
                           control |-> control]
      BY <2>1, Zenon DEF ProtectAs, Settle, Post
    <3> HIDE DEF by
    <3> QED
      BY <3>1
  <2>3. /\ draw \in Draws /\ inputs = Inputs(Projected)
        /\ lines = BroughtForward \cup Made(DepositsOf(Computed(inputs), draw, deadline))
        /\ by = CountedBy(deadline, inputs, lines)
    BY <2>1, Zenon
  <2> HIDE DEF inputs, lines, by
  <2> QED
    BY <2>2, <2>3, Zenon
<1>3. FirmInput(inputs.customer, "customer") /\ inputs.customer.cash = {}
      /\ FirmInput(inputs.pab, "pab") /\ inputs.pab.cash = {}
  BY <1>1, <1>2, InputsGiven, Zenon
<1>4. LinesTyped(lines)
  BY <1>1, <1>2, <1>3, ProtectLines, Zenon
<1>5. FirmInput(by.customer, "customer") /\ FirmInput(by.pab, "pab")
  BY <1>1, <1>2, <1>3, <1>4, CountedGiven, Zenon
<1> DEFINE c == compute_reserve(by.customer, profile.table)
<1>6. held'.customer = c /\ held'.pab = Relieved(by.pab, c)
  BY <1>1, <1>2, <1>5, SizedType, Zenon
<1>7. Covering(c, 0) /\ c.excessDebits \in Nat \cup {None} /\ c.as_of = today
  BY <1>1, <1>5, CustomerCovers, Zenon
<1> HIDE DEF c
<1>8. Covering(Relieved(by.pab, c), IF c.excessDebits = None THEN 0 ELSE c.excessDebits)
  BY <1>1, <1>5, <1>7, PabCovers, Zenon
<1> QED
  BY <1>6, <1>7, <1>8, Zenon

LEMMA RestateCovers ==
    ASSUME FirmInv, CoversInv, Restate
    PROVE  Covering(restated', 0)
<1>1. profile.part = "protect" /\ before # None /\ today \in Int
  BY FirmFacts, Zenon DEF Restate, FirmInv
<1> DEFINE inputs == Inputs(Projected)
           by == CountedBy(held.deadline, inputs, books)
<1>2. restated' = Relieved(by.pab, before)
  BY Zenon DEF Restate
<1>3. FirmInput(inputs.customer, "customer") /\ inputs.customer.cash = {}
      /\ FirmInput(inputs.pab, "pab") /\ inputs.pab.cash = {}
  BY <1>1, InputsGiven, Zenon
<1>4. LinesTyped(books)
  BY <1>1, FirmFacts, Zenon
<1> HIDE DEF inputs
<1>5. FirmInput(by.pab, "pab")
  BY <1>1, <1>3, <1>4, CountedGiven, Zenon
<1> HIDE DEF by
<1>6. before.excessDebits \in Nat \cup {None} /\ before.as_of \in Int /\ before.as_of < today
  BY <1>1, Zenon DEF CoversInv
<1>7. before.as_of # today
  BY <1>1, <1>6
<1> QED
  BY <1>1, <1>2, <1>5, <1>6, <1>7, PabCovers, Zenon

LEMMA CoversAlways == Spec => []CoversInv
<1>1. Init => CoversInv
  BY Zenon DEF Init, CoversInv
<1>2. FirmInv /\ CoversInv /\ [Next]_vars => CoversInv'
  <2> SUFFICES ASSUME FirmInv, CoversInv, [Next]_vars PROVE CoversInv'
    OBVIOUS
  <2>1. CASE Book \/ UNCHANGED <<today, step, held, before, restated>>
    <3>1. UNCHANGED <<today, step, held, before, restated>>
      BY <2>1, Zenon DEF Book
    <3> QED
      BY <3>1, Zenon DEF CoversInv, Covering
  <2>2. CASE Protect
    <3>1. step = "book" /\ step' = "protected" /\ today' = today /\ before' = before
          /\ restated' = restated
      BY <2>2, Zenon DEF Protect
    <3>2. restated' = None
      BY <3>1, Zenon DEF CoversInv
    <3>3. LET c == held'.customer
          IN  /\ c.as_of = today /\ c.excessDebits \in Nat \cup {None}
              /\ Covering(c, 0)
              /\ Covering(held'.pab, IF c.excessDebits = None THEN 0 ELSE c.excessDebits)
      BY <2>2, ProtectCovers
    <3>5. before' # None => before'.as_of \in Int /\ before'.as_of < today'
                            /\ before'.excessDebits \in Nat \cup {None}
      BY <3>1, Zenon DEF CoversInv
    <3> QED
      BY <3>1, <3>2, <3>3, <3>5, Zenon DEF CoversInv, Covering
  <2>3. CASE Restate
    <3>1. step = "protected" /\ UNCHANGED <<today, step, held, before>>
      BY <2>3, Zenon DEF Restate
    <3>2. Covering(restated', 0)
      BY <2>3, RestateCovers
    <3>3. step' # "book"
      BY <3>1
    <3> QED
      BY <3>1, <3>2, <3>3, Zenon DEF CoversInv, Covering
  <2>4. CASE NextDay
    <3>1. step = "protected" /\ step' = "book" /\ restated' = None /\ today < StartDate + RunDays
          /\ today' = Calendar!AddBusinessDays(today, 1) /\ before' \in {held.customer, before}
      BY <2>4, Zenon DEF NextDay
    <3>2. today \in Int /\ today' \in Int /\ today' > today
      BY <3>1, NextDate, DatesAreNumbers, Zenon DEF FirmInv
    <3>3. before' # None => before'.as_of \in Int /\ before'.as_of < today'
                            /\ before'.excessDebits \in Nat \cup {None}
      <4>1. CASE before' = held.customer
        <5>1. before'.as_of = today /\ before'.excessDebits \in Nat \cup {None}
          BY <3>1, <4>1, Zenon DEF CoversInv
        <5> QED
          BY <3>2, <5>1
      <4>2. CASE before' = before /\ before # None
        <5>1. before.as_of \in Int /\ before.as_of < today /\ before.excessDebits \in Nat \cup {None}
          BY <4>2, Zenon DEF CoversInv
        <5>2. before.as_of < today'
          BY <5>1, <3>2
        <5> QED
          BY <4>2, <5>1, <5>2
      <4> QED
        BY <3>1, <4>1, <4>2
    <3>4. step' # "protected"
      BY <3>1
    <3> QED
      BY <3>1, <3>3, <3>4, Zenon DEF CoversInv
  <2>5. [Next]_vars => \/ Book \/ Protect \/ Restate \/ NextDay
                       \/ UNCHANGED <<today, step, held, before, restated>>
    BY Zenon DEF Next, vars, Review, Wait, CountSecurities, Validate
  <2> QED
    BY <2>1, <2>2, <2>3, <2>4, <2>5, Zenon
<1> QED
  BY <1>1, <1>2, FirmAlways, PTL DEF Spec

\* Customers and PAB never lean on the same excess: when both computations pass, what
\* is in both banks covers what is owed to both, whatever the books hold and whichever
\* day's customers the PAB computation was given (with_customer_excess_debits,
\* compute_reserve).
THEOREM BothAreCovered == Spec => []TogetherCovered
<1>1. CoversInv => TogetherCovered
  <2> SUFFICES ASSUME CoversInv, step = "protected", NEW pab \in {held.pab, restated} \ {None},
                      held.customer.disposition = "PASS", pab.disposition = "PASS"
               PROVE  held.customer.eligible + pab.eligible
                        >= held.customer.requirement - held.customer.excessDebits
                             + pab.requirement - pab.excessDebits
    BY Zenon DEF TogetherCovered
  <2> DEFINE c == held.customer
  <2>1. Covering(c, 0) /\ (restated # None => Covering(restated, 0))
        /\ Covering(held.pab, IF c.excessDebits = None THEN 0 ELSE c.excessDebits)
    BY Zenon DEF CoversInv
  <2>2. /\ c.eligible \in Int /\ c.requirement \in Int /\ c.excessDebits \in Nat
        /\ c.eligible >= c.requirement - 0
    BY <2>1, Zenon DEF Covering
  <2>3. c.excessDebits # None
    BY <2>2, NoneIsNoNumber
  <2>4. Covering(pab, c.excessDebits) \/ Covering(pab, 0)
    BY <2>1, <2>3, Zenon
  <2>5. PICK relief \in {0, c.excessDebits} :
             /\ pab.eligible \in Int /\ pab.requirement \in Int /\ pab.excessDebits \in Nat
             /\ pab.eligible >= pab.requirement - relief
    BY <2>4, Zenon DEF Covering
  <2> HIDE DEF c
  <2>6. c.eligible + pab.eligible >= c.requirement - c.excessDebits + pab.requirement - pab.excessDebits
    BY <2>2, <2>5
  <2> QED
    BY <2>6 DEF c
<1> QED
  BY <1>1, CoversAlways, PTL

-----------------------------------------------------------------------------
\* What a firm's computation is judged by.
LEMMA RulesAreLoaded ==
    ASSUME FirmInv, profile.part = "protect"
    PROVE  /\ profile.table.exhibit \subseteq Modeled
           /\ Loaded(profile.table, "daily_threshold") /\ Value(profile.table, "daily_threshold") = 500
           /\ Loaded(profile.table, "bank_equity_cap")
           /\ Value(profile.table, "bank_equity_cap") \in Nat
           /\ profile.equity \in Nat \cup {None}
           /\ TableTyped(profile.table) /\ profile.history \in Figure /\ today \in Int
<1>1. RulesLoaded(profile.table) /\ profile.equity \in Nat \cup {None}
  BY DepositsAssumption, Zenon DEF FirmInv
<1>2. TableTyped(profile.table) /\ profile.history \in Figure /\ today \in Int
  BY FirmFacts, Zenon
<1> QED
  BY <1>1, <1>2 DEF RulesLoaded, Loaded, Value

LEMMA FirmLinesClean ==
    ASSUME FirmInv, profile.part = "protect", NEW in, NEW accounts, FirmInput(in, accounts),
           LinesOf(in, profile.table).value.credits # None,
           LinesOf(in, profile.table).value.debits # None
    PROVE  Clean(LinesOf(in, profile.table))
<1> DEFINE t == profile.table
           lines == in.lines
<1>1. \A id \in Modeled : Loaded(t, id) /\ Supplied(lines, id) # None
  <2>1. TableTyped(t) /\ ReserveTyped(in)
    <3>1. TableTyped(t)
      BY RulesAreLoaded, Zenon
    <3>2. ReserveTyped(in)
      BY FirmInputTyped, Zenon
    <3> QED
      BY <3>1, <3>2
  <2> HIDE DEF t
  <2> QED
    BY <2>1, LinesType DEF t
<1>2. DOMAIN lines = Modeled /\ t.exhibit \subseteq Modeled
  BY RulesAreLoaded, Zenon DEF FirmInput
<1> HIDE DEF lines, t
<1>3. Unloaded(t, Modeled) = {}
  BY <1>1 DEF Unloaded, Loaded
<1>4. Clean(ReadLines(lines, t))
  BY <1>1, <1>2, <1>3 DEF ReadLines, Clean, Found
<1> QED
  BY <1>4, Zenon DEF LinesOf, lines, t

LEMMA FirmDaily ==
    ASSUME FirmInv, profile.part = "protect", NEW in, NEW accounts, FirmInput(in, accounts)
    PROVE  /\ Clean(DailyOf(in, profile.table)) <=> profile.history # None
           /\ profile.history # None =>
                (DailyOf(in, profile.table).value = TRUE <=> profile.history >= 500)
<1> DEFINE t == profile.table
           required == IF in.average >= 500 THEN OverThreshold(in, t) ELSE UnderThreshold(in, t)
<1>1. /\ Value(t, "daily_threshold") = 500 /\ Unloaded(t, {"daily_threshold"}) = {}
      /\ profile.history \in Figure /\ today \in Int
  BY RulesAreLoaded DEF Unloaded, Loaded
<1>2. /\ in.average = profile.history /\ in.as_of = today /\ in.previously = FALSE
      /\ in.effective = (IF Daily THEN today ELSE None)
      /\ in.mode = (IF Daily THEN "daily" ELSE "weekly")
  BY Zenon DEF FirmInput
<1>3. DailyOf(in, t) =
        IF in.average = None THEN Found(None, {}, When(in.average = None, "average_total_credits"), {})
        ELSE [required EXCEPT !.breaches =
                When(required.value = TRUE /\ in.mode # "daily", "not_daily")]
  <2>1. 500 # None
    BY NoneIsNoNumber
  <2> HIDE DEF t
  <2> QED
    BY <1>1, <2>1 DEF DailyOf, DailyRequired
<1> HIDE DEF t, required
<1>4. CASE profile.history = None
  <2>1. DailyOf(in, t).inputs # {}
    BY <1>2, <1>3, <1>4 DEF Found, When
  <2> QED
    BY <1>4, <2>1, Zenon DEF Clean, t
<1>5. CASE profile.history # None
  <2>1. profile.history \in Int
    BY <1>1, <1>5 DEF Figure
  <2>2. CASE profile.history >= 500
    <3>1. in.effective = today /\ in.mode = "daily" /\ in.effective # None /\ in.as_of = today
      BY <1>1, <1>2, <1>5, <2>2, NoneIsNoNumber DEF Daily
    <3>2. required = Found(TRUE, {}, {}, {})
      <4>1. (in.as_of >= in.effective) = TRUE
        BY <1>1, <3>1
      <4>2. required = Found(in.as_of >= in.effective, {}, {}, {})
        BY <1>2, <2>2, <3>1, Zenon DEF required, OverThreshold
      <4> QED
        BY <4>1, <4>2, Zenon
    <3>3. Clean(DailyOf(in, t)) /\ DailyOf(in, t).value = TRUE
      BY <1>2, <1>3, <1>5, <3>1, <3>2 DEF Clean, Found, When
    <3> QED
      BY <1>5, <2>2, <3>3 DEF t
  <2>3. CASE ~(profile.history >= 500)
    <3>1. required = Found(FALSE, {}, {}, {})
      <4>1. FALSE # None
        BY NoneIsNoNumber
      <4>2. ~(in.average >= 500)
        BY <1>2, <2>3
      <4>3. required = Found(in.previously, {}, {}, {})
        BY <1>2, <4>1, <4>2, Zenon DEF required, UnderThreshold
      <4> QED
        BY <1>2, <4>3, Zenon
    <3>2. Clean(DailyOf(in, t)) /\ DailyOf(in, t).value = FALSE
      BY <1>2, <1>3, <1>5, <3>1 DEF Clean, Found, When
    <3> QED
      BY <1>5, <2>3, <3>2 DEF t
  <2> QED
    BY <2>2, <2>3
<1> QED
  BY <1>4, <1>5

LEMMA FirmFactor ==
    ASSUME NEW in, NEW accounts, FirmInput(in, accounts), NEW t
    PROVE  FactorOf(in, t) = Found(100, {}, {}, {})
<1>1. in.mode # "monthly"
  BY DEF FirmInput
<1> QED
  BY <1>1, Zenon DEF FactorOf, DepositFactor

LEMMA FirmReduced ==
    ASSUME FirmInv, profile.part = "protect", NEW in, NEW accounts \in {"customer", "pab"},
           FirmInput(in, accounts), profile.history # None,
           ReducedOf(in, profile.table).value # None
    PROVE  Clean(ReducedOf(in, profile.table))
<1> DEFINE t == profile.table
           debits == LinesOf(in, t).value.debits
           daily == DailyOf(in, t).value
<1>1. /\ in.accounts = accounts /\ in.standard = "alternative"
      /\ in.mode = (IF Daily THEN "daily" ELSE "weekly")
  BY Zenon DEF FirmInput
<1>2. (daily = TRUE) <=> Daily
  BY FirmDaily, Zenon DEF Daily
<1>3. ReducedOf(in, t) = Reduction(in, t, debits, daily)
  BY Zenon DEF ReducedOf
<1>4. TableTyped(t)
  BY RulesAreLoaded, Zenon
<1>5. debits \in Figure
  BY <1>4, FirmInputTyped, LinesType, Zenon
<1> HIDE DEF debits, daily, t
<1>6. CASE accounts = "pab"
  <2>1. Reduction(in, t, debits, daily) =
          Found(IF Loaded(t, "no_note_e3") THEN 0 ELSE None, Unloaded(t, {"no_note_e3"}), {}, {})
    BY <1>1, <1>6 DEF Reduction, Customer
  <2>2. Loaded(t, "no_note_e3")
    BY <1>3, <2>1 DEF Found, t
  <2>3. Unloaded(t, {"no_note_e3"}) = {}
    BY <2>2 DEF Unloaded, Loaded
  <2> QED
    BY <1>3, <2>1, <2>3 DEF Clean, Found, t
<1>7. CASE accounts = "customer"
  <2> DEFINE rule == IF in.mode = "daily" /\ (daily = TRUE \/ VoluntaryDaily(in, t).value)
                       THEN "daily_reduction" ELSE "weekly_reduction"
             reduced == ByRate(rule, debits, t)
  <2>1. ~(in.mode = "daily" /\ daily # TRUE) /\ in.mode # "monthly"
    BY <1>1, <1>2
  <2>2. Reduction(in, t, debits, daily) = Found(reduced.value, reduced.rules, {}, {})
    <3>1. Reduction(in, t, debits, daily) =
            Found(reduced.value, (reduced.rules \cup {}) \cup {}, {}, When(FALSE, "not_weekly"))
      BY <1>1, <1>7, <2>1, Zenon DEF Reduction, Customer
    <3> QED
      BY <3>1 DEF When
  <2>3. reduced.value # None => reduced.rules = {}
    <3> HIDE DEF rule
    <3> QED
      BY <1>4, <1>5, ByRateType, Zenon
  <2> HIDE DEF reduced
  <2> QED
    BY <1>3, <2>2, <2>3 DEF Clean, Found, t
<1> QED
  BY <1>6, <1>7

\* What is in the bank, and what of it is good.
BankCash(bank) ==
    IF bank = 0 THEN {}
    ELSE {[bank |-> "reserve bank", amount |-> bank, affiliated |-> FALSE, equity |-> profile.equity]}
BankKnown(bank) == profile.equity # None \/ bank = 0
BankGood(bank) ==
    IF profile.equity = None THEN 0
    ELSE Smaller(bank, Percent(Value(profile.table, "bank_equity_cap"), profile.equity))

LEMMA SumOfOne ==
    ASSUME NEW x, NEW f, DOMAIN f = {x}, f[x] \in Int
    PROVE  SumOf(f) = f[x]
<1>1. SumOf(f) = Sum(f, {x})
  BY SumOfIs, Zenon
<1>2. IsFiniteSet({x}) /\ IsFiniteSet({})
  BY FS_Singleton, FS_EmptySet
<1>3. Sum(f, {x}) = f[x] + Sum(f, {x} \ {x})
  BY <1>2, SumRemove
<1>4. Sum(f, {}) = 0
  <2>1. \A y \in {} : f[y] \in Int
    OBVIOUS
  <2> QED
    BY <1>2, <2>1, SumType, Zenon
<1>5. Sum(f, {x} \ {x}) = 0
  <2>1. {x} \ {x} = {}
    OBVIOUS
  <2> QED
    BY <1>4, <2>1, Zenon
<1> QED
  BY <1>1, <1>3, <1>5

LEMMA SumOfNone ==
    ASSUME NEW f, DOMAIN f = {}
    PROVE  SumOf(f) = 0
<1>1. SumOf(f) = Sum(f, {})
  BY SumOfIs, Zenon
<1>2. IsFiniteSet({}) /\ \A y \in {} : f[y] \in Int
  BY FS_EmptySet
<1> QED
  BY <1>1, <1>2, SumType, Zenon

LEMMA GoodIsANumber ==
    ASSUME FirmInv, profile.part = "protect", NEW bank \in Int
    PROVE  /\ BankGood(bank) \in Int
           /\ BankKnown(bank) => BankGood(bank) <= bank
           /\ bank = 0 => BankGood(bank) = 0
<1> DEFINE cap == Value(profile.table, "bank_equity_cap")
           share == Percent(cap, profile.equity)
<1>1. cap \in Nat /\ profile.equity \in Nat \cup {None}
  BY RulesAreLoaded, Zenon
<1> HIDE DEF cap
<1>2. profile.equity # None => share \in Nat
  <2> HAVE profile.equity # None
  <2>1. profile.equity \in Nat
    BY <1>1
  <2>2. cap * profile.equity \in Nat
    BY <1>1, <2>1
  <2> QED
    BY <2>2 DEF Percent
<1>3. BankGood(bank) = IF profile.equity = None THEN 0 ELSE Smaller(bank, share)
  BY Zenon DEF BankGood, cap
<1> HIDE DEF share
<1> QED
  BY <1>2, <1>3 DEF BankKnown, Smaller

LEMMA FirmBank ==
    ASSUME FirmInv, profile.part = "protect", NEW in, NEW accounts, FirmInput(in, accounts),
           NEW bank \in Int, in.cash = BankCash(bank)
    PROVE  /\ Clean(BankOf(in, profile.table)) <=> BankKnown(bank)
           /\ BankKnown(bank) => BankOf(in, profile.table).value = BankGood(bank)
<1> DEFINE t == profile.table
           deposit == [bank |-> "reserve bank", amount |-> bank, affiliated |-> FALSE,
                       equity |-> profile.equity]
<1>1. in.securities = 0 /\ 0 # None
  <2>1. 0 # None
    BY NoneIsNoNumber
  <2> QED
    BY <2>1, Zenon DEF FirmInput
<1>2. Loaded(t, "bank_equity_cap") /\ Unloaded(t, {"bank_equity_cap"}) = {}
  BY RulesAreLoaded DEF Unloaded, Loaded
<1>3. BankOf(in, t) = Eligible(in.cash, 0, t)
  BY <1>1, Zenon DEF BankOf
<1>4. CASE bank = 0
  <2> DEFINE part == [d \in {} |-> Counted(d, t)]
  <2>1. in.cash = {} /\ BankGood(bank) = 0
    BY <1>4, GoodIsANumber DEF BankCash
  <2>2. DOMAIN part = {}
    OBVIOUS
  <2>3. Eligible({}, 0, t).value = Good(part, 0) /\ Clean(Eligible({}, 0, t))
    BY <1>1 DEF Eligible, Found, Clean, When
  <2> HIDE DEF part
  <2>4. Good(part, 0) = 0
    BY <1>1, <2>2, SumOfNone DEF Good
  <2> QED
    BY <1>3, <1>4, <2>1, <2>3, <2>4 DEF BankKnown
<1>5. CASE bank # 0
  <2> DEFINE part == [d \in {deposit} |-> Counted(d, t)]
  <2>1. in.cash = {deposit}
    BY <1>5, Zenon DEF BankCash
  <2>2. deposit.affiliated = FALSE /\ deposit.equity = profile.equity /\ deposit.amount = bank
    OBVIOUS
  <2>3. DOMAIN part = {deposit} /\ part[deposit] = Counted(deposit, t)
    OBVIOUS
  <2> HIDE DEF deposit
  <2>4. Eligible({deposit}, 0, t) =
          Found(Good(part, 0), {}, When(profile.equity = None, "bank_equity_capital"), {})
    <3>1. /\ ~ \E d \in {deposit} : d.affiliated
          /\ (\E d \in {deposit} : ~d.affiliated /\ d.equity = None) <=> profile.equity = None
          /\ {deposit} # {}
      BY <2>2
    <3>2. When(0 = None, "qualified_securities_deposit") = {}
      BY <1>1 DEF When
    <3>3. When(\E d \in {deposit} : ~d.affiliated /\ d.equity = None, "bank_equity_capital") =
          When(profile.equity = None, "bank_equity_capital")
      BY <3>1, Zenon DEF When
    <3> DEFINE s == {deposit}
               good == Good(part, 0)
    <3>4. /\ Eligible(s, 0, t).value = good
          /\ Eligible(s, 0, t) =
               Found(good,
                 (IF s = {} THEN {} ELSE Unloaded(t, {"bank_equity_cap"}))
                   \cup (IF \E d \in s : d.affiliated
                           THEN Unloaded(t, {"affiliated_excluded"}) ELSE {}),
                 When(\E d \in s : ~d.affiliated /\ d.equity = None, "bank_equity_capital")
                   \cup When(0 = None, "qualified_securities_deposit"), {})
      BY DEF Eligible, Found
    <3> HIDE DEF good, t
    <3>5. /\ (IF s = {} THEN {} ELSE Unloaded(t, {"bank_equity_cap"}))
               \cup (IF \E d \in s : d.affiliated
                       THEN Unloaded(t, {"affiliated_excluded"}) ELSE {}) = {}
          /\ When(\E d \in s : ~d.affiliated /\ d.equity = None, "bank_equity_capital")
               \cup When(0 = None, "qualified_securities_deposit")
             = When(profile.equity = None, "bank_equity_capital")
      BY <1>2, <3>1, <3>2, <3>3
    <3> QED
      BY <3>4, <3>5, Zenon DEF good
  <2>5. Clean(BankOf(in, t)) <=> profile.equity # None
    BY <1>3, <2>1, <2>4 DEF Clean, Found, When
  <2>6. ASSUME profile.equity # None PROVE Good(part, 0) = BankGood(bank)
    <3>1. part[deposit] = BankGood(bank)
      BY <1>2, <2>2, <2>3, <2>6, Zenon DEF Counted, BankGood
    <3>2. BankGood(bank) \in Int
      BY GoodIsANumber, Zenon
    <3> HIDE DEF part
    <3>3. SumOf(part) = BankGood(bank)
      BY <2>3, <3>1, <3>2, SumOfOne, Zenon
    <3>4. Good(part, 0) = 0 + SumOf(part)
      BY <1>1, <2>3, <3>1, <3>2, NoneIsNoNumber DEF Good
    <3> QED
      BY <3>2, <3>3, <3>4
  <2> HIDE DEF part
  <2>7. BankOf(in, t).value = Good(part, 0)
    BY <1>3, <2>1, <2>4 DEF Found
  <2> QED
    BY <1>5, <2>5, <2>6, <2>7, Zenon DEF BankKnown
<1> QED
  BY <1>4, <1>5

\* A firm's computation passes exactly when all is known and what is good in the bank
\* covers what it requires.
LEMMA JudgedBy ==
    ASSUME FirmInv, profile.part = "protect", NEW in, NEW accounts \in {"customer", "pab"},
           FirmInput(in, accounts), NEW bank \in Int, in.cash = BankCash(bank)
    PROVE  LET after == compute_reserve(in, profile.table).after
           IN  /\ after \in Figure
               /\ compute_reserve(in, profile.table).disposition = "PASS" <=>
                    /\ after # None /\ profile.history # None /\ BankKnown(bank)
                    /\ BankGood(bank) >= after
<1> DEFINE t == profile.table
           r == compute_reserve(in, t)
           q == RequirementOf(in, t)
           relief == ReliefOf(in, t).value
           after == AfterOf(in, t)
           good == BankGood(bank)
           short == ShortOf(in, t)
<1>1. TableTyped(t)
  BY RulesAreLoaded, Zenon
<1>2. ReserveTyped(in)
  BY FirmInputTyped, Zenon
<1>3. r.after = after
  BY ReserveUnfolds
<1>4. after = Less(q, relief) /\ short = Less(after, BankOf(in, t).value)
  BY Zenon DEF AfterOf, ShortOf
<1>5. good \in Int
  BY GoodIsANumber, Zenon
<1>6. q \in Figure /\ relief \in Figure
  <2> HIDE DEF t
  <2> QED
    BY <1>1, <1>2, RequirementType, ReliefType
<1>7. after \in Figure /\ (after # None <=> q # None /\ relief # None)
  <2> HIDE DEF after, q, relief
  <2> QED
    BY <1>4, <1>6, LessType
<1>8. /\ Clean(BankOf(in, t)) <=> BankKnown(bank)
      /\ BankKnown(bank) => BankOf(in, t).value = good
  BY FirmBank, Zenon
<1>9. Clean(ShortPart(in, t)) <=> ~(short # None /\ short > 0)
  <2> HIDE DEF short
  <2>1. ShortPart(in, t) = Found(None, {}, {}, When(short # None /\ short > 0, "short"))
    BY Zenon DEF ShortPart, short
  <2> QED
    BY <2>1 DEF Clean, Found, When
<1>10. after # None /\ BankKnown(bank) => (Clean(ShortPart(in, t)) <=> good >= after)
  <2> HAVE after # None /\ BankKnown(bank)
  <2>1. short = Less(after, good) /\ after \in Int
    BY <1>4, <1>7, <1>8 DEF Figure
  <2> HIDE DEF short, after, good
  <2>2. short = after - good /\ short # None
    <3>1. after \in Figure /\ good \in Figure /\ after # None /\ good # None
      BY <1>5, <2>1, NoneIsNoNumber DEF Figure
    <3> QED
      BY <2>1, <3>1, LessType
  <2> QED
    BY <1>5, <1>9, <2>1, <2>2
<1>11. ASSUME r.disposition = "PASS"
       PROVE  after # None /\ profile.history # None /\ BankKnown(bank) /\ good >= after
  <2>1. /\ Clean(LinesOf(in, t)) /\ Clean(DailyOf(in, t)) /\ Clean(ReducedOf(in, t))
        /\ Clean(FactorOf(in, t)) /\ Clean(ReliefOf(in, t)) /\ Clean(BankOf(in, t))
        /\ Clean(ShortPart(in, t))
    BY <1>11, ReservePasses
  <2>2. profile.history # None
    BY <2>1, FirmDaily, Zenon
  <2> HIDE DEF t
  <2>3. ExcessOf(in, t) # None
    BY <1>1, <1>2, <2>1, LinesType, ReducedType, ExcessType
  <2>4. q # None
    BY <1>1, <1>2, <2>1, <2>3, FactorType, RequirementType
  <2>5. relief # None
    BY <1>1, <1>2, <2>1, <2>4, ReliefType
  <2> QED
    BY <1>7, <1>8, <1>10, <2>1, <2>2, <2>4, <2>5, Zenon
<1>12. ASSUME after # None, profile.history # None, BankKnown(bank), good >= after
       PROVE  r.disposition = "PASS"
  <2>1. q # None /\ relief # None
    BY <1>7, <1>12
  <2>2. Clean(ReliefOf(in, t))
    <3> HIDE DEF t
    <3> QED
      BY <1>1, <1>2, <2>1, ReliefType
  <2>3. /\ LinesOf(in, t).value.credits # None /\ LinesOf(in, t).value.debits # None
        /\ ReducedOf(in, t).value # None
    <3> HIDE DEF t
    <3>1. ExcessOf(in, t) # None
      BY <1>1, <1>2, <2>1, RequirementType
    <3> QED
      BY <1>1, <1>2, <3>1, ExcessType
  <2>4. Clean(LinesOf(in, t))
    BY <2>3, FirmLinesClean, Zenon
  <2>5. Clean(ReducedOf(in, t))
    BY <1>12, <2>3, FirmReduced, Zenon
  <2>6. Clean(DailyOf(in, t))
    BY <1>12, FirmDaily, Zenon
  <2>7. Clean(FactorOf(in, t))
    BY FirmFactor DEF Clean, Found
  <2>8. Clean(BankOf(in, t)) /\ Clean(ShortPart(in, t))
    BY <1>8, <1>10, <1>12, Zenon
  <2> QED
    BY <2>2, <2>4, <2>5, <2>6, <2>7, <2>8, ReservePasses, Zenon
<1> QED
  BY <1>3, <1>7, <1>11, <1>12, Zenon

-----------------------------------------------------------------------------
\* What is required does not depend on what is in the bank.
SameButCash(in, other) == \A f \in ReserveFields \ {"cash"} : other[f] = in[f]

LEMMA CashAside ==
    ASSUME NEW in, NEW other, SameButCash(in, other), in.mode # "monthly", NEW t
    PROVE  LET r == compute_reserve(in, t)
               s == compute_reserve(other, t)
           IN  s.after = r.after /\ s.excessDebits = r.excessDebits /\ s.as_of = r.as_of
<1>1. /\ other.accounts = in.accounts /\ other.as_of = in.as_of /\ other.standard = in.standard
      /\ other.mode = in.mode /\ other.lines = in.lines /\ other.average = in.average
      /\ other.effective = in.effective /\ other.previously = in.previously
      /\ other.exit = in.exit /\ other.voluntary = in.voluntary
      /\ other.excess = in.excess /\ other.excessAsOf = in.excessAsOf
  BY DEF SameButCash, ReserveFields
<1>2. LinesOf(other, t) = LinesOf(in, t)
  BY <1>1, Zenon DEF LinesOf
<1>3. DailyOf(other, t) = DailyOf(in, t)
  <2>1. OverThreshold(other, t) = OverThreshold(in, t)
    BY <1>1, Zenon DEF OverThreshold
  <2>2. UnderThreshold(other, t) = UnderThreshold(in, t)
    BY <1>1, Zenon DEF UnderThreshold
  <2> QED
    BY <1>1, <2>1, <2>2, Zenon DEF DailyOf, DailyRequired
<1>4. ReducedOf(other, t) = ReducedOf(in, t)
  <2>1. VoluntaryDaily(other, t) = VoluntaryDaily(in, t)
    BY <1>1, Zenon DEF VoluntaryDaily
  <2> QED
    BY <1>1, <1>2, <1>3, <2>1, Zenon DEF ReducedOf, Reduction, Customer
<1>5. FactorOf(other, t) = FactorOf(in, t)
  BY <1>1, Zenon DEF FactorOf, DepositFactor
<1>6. ExcessOf(other, t) = ExcessOf(in, t)
  BY <1>2, <1>4, Zenon DEF ExcessOf
<1>7. RequirementOf(other, t) = RequirementOf(in, t)
  BY <1>5, <1>6, Zenon DEF RequirementOf
<1>8. ReliefOf(other, t) = ReliefOf(in, t)
  BY <1>1, <1>7, Zenon DEF ReliefOf, Relief, Customer
<1>9. AfterOf(other, t) = AfterOf(in, t)
  BY <1>7, <1>8, Zenon DEF AfterOf
<1>10. /\ compute_reserve(in, t).after = AfterOf(in, t)
       /\ compute_reserve(other, t).after = AfterOf(other, t)
       /\ compute_reserve(in, t).as_of = in.as_of
       /\ compute_reserve(other, t).as_of = other.as_of
       /\ compute_reserve(in, t).excessDebits =
            IF ExcessOf(in, t) = None THEN None ELSE Larger(-ExcessOf(in, t), 0)
       /\ compute_reserve(other, t).excessDebits =
            IF ExcessOf(other, t) = None THEN None ELSE Larger(-ExcessOf(other, t), 0)
  BY ReserveUnfolds
<1> QED
  BY <1>1, <1>6, <1>9, <1>10, Zenon

LEMMA BankedSame ==
    ASSUME NEW in, IsRecord(in, ReserveFields), NEW cash
    PROVE  SameButCash(in, InBank(in, cash))
<1> DEFINE deposit == [bank |-> "reserve bank", amount |-> cash, affiliated |-> FALSE,
                       equity |-> profile.equity]
           deposits == {deposit}
<1>1. CASE cash = 0
  BY <1>1, Zenon DEF InBank, SameButCash
<1>2. CASE cash # 0
  <2>1. InBank(in, cash) = [in EXCEPT !.cash = deposits]
    BY <1>2, Zenon DEF InBank
  <2> HIDE DEF deposit, deposits
  <2>2. \A f \in DOMAIN in \ {"cash"} : InBank(in, cash)[f] = in[f]
    BY <2>1
  <2> QED
    BY <2>2, Zenon DEF SameButCash, IsRecord
<1> QED
  BY <1>1, <1>2

LEMMA RelievedSame ==
    ASSUME NEW in, IsRecord(in, ReserveFields), NEW other, IsRecord(other, ReserveFields),
           SameButCash(in, other), NEW customer, NEW again,
           again.excessDebits = customer.excessDebits, again.as_of = customer.as_of
    PROVE  SameButCash(with_customer_excess_debits(in, customer),
                       with_customer_excess_debits(other, again))
<1> DEFINE excess == customer.excessDebits
           asOf == customer.as_of
<1>1. /\ with_customer_excess_debits(in, customer) =
           [in EXCEPT !.excess = excess, !.excessAsOf = asOf]
      /\ with_customer_excess_debits(other, again) =
           [other EXCEPT !.excess = excess, !.excessAsOf = asOf]
  BY Zenon DEF with_customer_excess_debits
<1> HIDE DEF excess, asOf
<1> DEFINE a == [in EXCEPT !.excess = excess, !.excessAsOf = asOf]
           b == [other EXCEPT !.excess = excess, !.excessAsOf = asOf]
<1>2. ReserveFields \subseteq DOMAIN in /\ ReserveFields \subseteq DOMAIN other
  BY Zenon DEF IsRecord
<1>3. ASSUME NEW f \in ReserveFields \ {"cash"} PROVE b[f] = a[f]
  <2>1. other[f] = in[f] /\ f \in DOMAIN in /\ f \in DOMAIN other
    BY <1>2, Zenon DEF SameButCash
  <2> QED
    BY <2>1
<1> QED
  BY <1>1, <1>3, Zenon DEF SameButCash

\* The deposits are sized by what the computations say when they are made again.
LEMMA SizedAgain ==
    ASSUME FirmInv, profile.part = "protect", NEW inputs, NEW lines, LinesTyped(lines), NEW deadline,
           FirmInput(inputs.customer, "customer"), FirmInput(inputs.pab, "pab"),
           inputs.customer.cash = {}, inputs.pab.cash = {}
    PROVE  LET by == CountedBy(deadline, inputs, lines)
           IN  /\ Computed(by).customer.after = Computed(inputs).customer.after
               /\ Computed(by).pab.after = Computed(inputs).pab.after
<1> DEFINE by == CountedBy(deadline, inputs, lines)
           b(k) == reserve_bank_balance(lines, Banks[k], deadline)
           t == profile.table
<1>1. by.customer = InBank(inputs.customer, b("customer")) /\ by.pab = InBank(inputs.pab, b("pab"))
  <2>1. by["customer"] = InBank(inputs["customer"], b("customer"))
        /\ by["pab"] = InBank(inputs["pab"], b("pab"))
    BY AccountsAre DEF CountedBy, counted
  <2> QED
    BY <2>1
<1>2. FirmInput(by.customer, "customer") /\ FirmInput(by.pab, "pab")
  BY CountedGiven, Zenon
<1>3. /\ IsRecord(inputs.customer, ReserveFields) /\ IsRecord(inputs.pab, ReserveFields)
      /\ IsRecord(by.pab, ReserveFields)
  BY <1>2, Zenon DEF FirmInput
<1>4. inputs.customer.mode # "monthly" /\ inputs.pab.mode # "monthly"
  BY DEF FirmInput
<1>5. SameButCash(inputs.customer, by.customer) /\ SameButCash(inputs.pab, by.pab)
  BY <1>1, <1>3, BankedSame, Zenon
<1> HIDE DEF by, b
<1> DEFINE c == compute_reserve(inputs.customer, t)
           d == compute_reserve(by.customer, t)
<1>6. /\ Computed(inputs).customer = c /\ Computed(inputs).pab = Relieved(inputs.pab, c)
      /\ Computed(by).customer = d /\ Computed(by).pab = Relieved(by.pab, d)
  <2>1. Computed(inputs).customer = c /\ Computed(inputs).pab = Relieved(inputs.pab, c)
    BY SizedType, Zenon
  <2>2. Computed(by).customer = d /\ Computed(by).pab = Relieved(by.pab, d)
    BY <1>2, SizedType, Zenon
  <2> QED
    BY <2>1, <2>2
<1>7. d.after = c.after /\ d.excessDebits = c.excessDebits /\ d.as_of = c.as_of
  <2> HIDE DEF t
  <2> QED
    BY <1>4, <1>5, CashAside
<1> HIDE DEF c, d
<1> DEFINE relieved == with_customer_excess_debits(inputs.pab, c)
           again == with_customer_excess_debits(by.pab, d)
<1>8. SameButCash(relieved, again)
  BY <1>3, <1>5, <1>7, RelievedSame, Zenon
<1>9. relieved.mode # "monthly"
  <2>1. relieved = [inputs.pab EXCEPT !.excess = c.excessDebits, !.excessAsOf = c.as_of]
    BY Zenon DEF with_customer_excess_debits
  <2>2. relieved.mode = inputs.pab.mode
    <3> HIDE DEF relieved
    <3> QED
      BY <2>1
  <2> QED
    BY <1>4, <2>2
<1>10. Relieved(inputs.pab, c) = compute_reserve(relieved, t)
       /\ Relieved(by.pab, d) = compute_reserve(again, t)
  BY Zenon DEF Relieved
<1> HIDE DEF relieved, again, t
<1>11. Relieved(by.pab, d).after = Relieved(inputs.pab, c).after
  BY <1>8, <1>9, <1>10, CashAside
<1> QED
  BY <1>6, <1>7, <1>11, Zenon DEF by

-----------------------------------------------------------------------------
\* Business days add up.
LEMMA DaysAddUp ==
    ASSUME NEW d \in Int, NEW y \in Int, NEW w \in Int, d <= y, y <= w
    PROVE  /\ Cardinality(Calendar!BusinessDays(d + 1, y)) \in Nat
           /\ Cardinality(Calendar!BusinessDays(y + 1, w)) \in Nat
           /\ Cardinality(Calendar!BusinessDays(d + 1, w)) =
                Cardinality(Calendar!BusinessDays(d + 1, y))
                + Cardinality(Calendar!BusinessDays(y + 1, w))
<1> DEFINE a == Calendar!BusinessDays(d + 1, y)
           b == Calendar!BusinessDays(y + 1, w)
           c == Calendar!BusinessDays(d + 1, w)
<1>1. /\ a = {x \in (d + 1)..y : Calendar!IsBusinessDay(x)}
      /\ b = {x \in (y + 1)..w : Calendar!IsBusinessDay(x)}
      /\ c = {x \in (d + 1)..w : Calendar!IsBusinessDay(x)}
  BY Zenon DEF Calendar!BusinessDays
<1> HIDE DEF a, b, c
<1>2. IsFiniteSet((d + 1)..y) /\ IsFiniteSet((y + 1)..w)
  BY FS_Interval
<1>3. a \subseteq (d + 1)..y /\ b \subseteq (y + 1)..w
  BY <1>1
<1>4. IsFiniteSet(a) /\ IsFiniteSet(b)
  BY <1>2, <1>3, FS_Subset, Zenon
<1>5. a \cap b = {}
  BY <1>3
<1>6. c = a \cup b
  BY <1>1
<1>7. Cardinality(a) \in Nat /\ Cardinality(b) \in Nat
  BY <1>4, FS_CardinalityType, Zenon
<1>8. Cardinality(a \cup b) = Cardinality(a) + Cardinality(b) - Cardinality(a \cap b)
  BY <1>4, FS_Union, Zenon
<1>9. Cardinality(a \cap b) = 0
  BY <1>5, FS_EmptySet
<1>10. Cardinality(c) = Cardinality(a) + Cardinality(b)
  BY <1>6, <1>7, <1>8, <1>9
<1> QED
  BY <1>7, <1>10 DEF a, b, c

\* Some days after the days after a day is all of them after it.
LEMMA DaysCompose ==
    ASSUME NEW d \in Int, NEW m \in Nat \ {0}, NEW n \in Nat \ {0},
           Calendar!AddBusinessDays(d, m) # None, Calendar!AddBusinessDays(d, m + n) # None
    PROVE  Calendar!AddBusinessDays(Calendar!AddBusinessDays(d, m), n)
             = Calendar!AddBusinessDays(d, m + n)
<1> DEFINE y == Calendar!AddBusinessDays(d, m)
           near == {w \in y..LoadedUntil : Cardinality(Calendar!BusinessDays(y + 1, w)) = n}
           far == {w \in d..LoadedUntil : Cardinality(Calendar!BusinessDays(d + 1, w)) = m + n}
<1>1. LoadedUntil \in Int
  BY DeadlinesAssumption
<1>2. y \in Int /\ d <= y /\ y <= LoadedUntil
  <2>1. y \in d..LoadedUntil
    BY DayReached, Zenon
  <2> HIDE DEF y
  <2> QED
    BY <1>1, <2>1
<1>3. Cardinality(Calendar!BusinessDays(d + 1, y)) = m
  BY DayReached, Zenon
<1>4. /\ Calendar!AddBusinessDays(y, n) = IF near = {} THEN None ELSE Calendar!Min(near)
      /\ Calendar!AddBusinessDays(d, m + n) = IF far = {} THEN None ELSE Calendar!Min(far)
  BY CalendarCounts, Zenon DEF Calendar!AddBusinessDays
<1> HIDE DEF y
<1>5. ASSUME NEW w \in Int, y <= w
      PROVE  Cardinality(Calendar!BusinessDays(y + 1, w)) = n
               <=> Cardinality(Calendar!BusinessDays(d + 1, w)) = m + n
  <2> DEFINE p == Cardinality(Calendar!BusinessDays(y + 1, w))
             q == Cardinality(Calendar!BusinessDays(d + 1, w))
  <2>1. p \in Nat /\ q = m + p
    BY <1>2, <1>3, <1>5, DaysAddUp
  <2> HIDE DEF p, q
  <2>2. p = n <=> q = m + n
    BY <2>1
  <2> QED
    BY <2>2 DEF p, q
<1>6. ASSUME NEW w \in Int, d <= w, w < y
      PROVE  Cardinality(Calendar!BusinessDays(d + 1, w)) # m + n
  <2> DEFINE p == Cardinality(Calendar!BusinessDays(w + 1, y))
             q == Cardinality(Calendar!BusinessDays(d + 1, w))
  <2>1. p \in Nat /\ q \in Nat /\ m = q + p
    <3>1. w <= y
      BY <1>2, <1>6
    <3> QED
      BY <1>2, <1>3, <1>6, <3>1, DaysAddUp
  <2> HIDE DEF p, q
  <2>2. q # m + n
    BY <2>1
  <2> QED
    BY <2>2 DEF q
<1>7. near = far
  <2>1. ASSUME NEW w \in near PROVE w \in far
    <3>1. w \in y..LoadedUntil /\ Cardinality(Calendar!BusinessDays(y + 1, w)) = n
      OBVIOUS
    <3>2. w \in Int /\ y <= w /\ w \in d..LoadedUntil
      BY <1>1, <1>2, <3>1
    <3>3. Cardinality(Calendar!BusinessDays(d + 1, w)) = m + n
      BY <1>5, <3>1, <3>2, Zenon
    <3> QED
      BY <3>2, <3>3, Zenon
  <2>2. ASSUME NEW w \in far PROVE w \in near
    <3>1. w \in d..LoadedUntil /\ Cardinality(Calendar!BusinessDays(d + 1, w)) = m + n
      OBVIOUS
    <3>2. w \in Int /\ d <= w /\ w <= LoadedUntil
      BY <1>1, <3>1
    <3>3. ~(w < y)
      BY <1>6, <3>1, <3>2
    <3>4. y <= w /\ w \in y..LoadedUntil
      BY <1>1, <1>2, <3>2, <3>3
    <3>5. Cardinality(Calendar!BusinessDays(y + 1, w)) = n
      BY <1>5, <3>1, <3>2, <3>4, Zenon
    <3> QED
      BY <3>4, <3>5, Zenon
  <2> QED
    BY <2>1, <2>2
<1> QED
  BY <1>4, <1>7, Zenon DEF y

\* The days a day of the run deposits on.
DeadlineOf(day) == Calendar!AddBusinessDays(day, 2)
LateOf(day) == Calendar!AddBusinessDays(DeadlineOf(day), 1)
LEMMA DepositDays ==
    ASSUME NEW day \in RunDates
    PROVE  /\ day \in Int /\ DeadlineOf(day) \in Int /\ LateOf(day) \in Int
           /\ day < DeadlineOf(day) /\ DeadlineOf(day) < LateOf(day)
           /\ DeadlineOf(day) <= LoadedUntil
           /\ LateOf(day) = DeadlineOf(Calendar!AddBusinessDays(day, 1))
<1>1. day \in Int /\ LoadedUntil \in Int
  BY DatesAreNumbers, DeadlinesAssumption
<1>2. /\ Calendar!AddBusinessDays(day, 1) # None /\ Calendar!AddBusinessDays(day, 2) # None
      /\ Calendar!AddBusinessDays(day, 3) # None
  <2>1. 1 \in 1..3 /\ 2 \in 1..3 /\ 3 \in 1..3
    OBVIOUS
  <2> QED
    BY <2>1, CalendarCoversTheRun, Zenon
<1>3. LateOf(day) = Calendar!AddBusinessDays(day, 3)
  <2>1. Calendar!AddBusinessDays(Calendar!AddBusinessDays(day, 2), 1)
          = Calendar!AddBusinessDays(day, 2 + 1)
    <3>1. 2 \in Nat \ {0} /\ 1 \in Nat \ {0} /\ 2 + 1 = 3
      OBVIOUS
    <3> QED
      BY <1>1, <1>2, <3>1, DaysCompose
  <2>2. 2 + 1 = 3
    OBVIOUS
  <2> QED
    BY <2>1, <2>2, Zenon DEF LateOf, DeadlineOf
<1>4. DeadlineOf(Calendar!AddBusinessDays(day, 1)) = Calendar!AddBusinessDays(day, 3)
  <2>1. 2 \in Nat \ {0} /\ 1 \in Nat \ {0} /\ 1 + 2 = 3
    OBVIOUS
  <2>2. Calendar!AddBusinessDays(Calendar!AddBusinessDays(day, 1), 2)
          = Calendar!AddBusinessDays(day, 1 + 2)
    BY <1>1, <1>2, <2>1, DaysCompose
  <2> QED
    BY <2>1, <2>2, Zenon DEF DeadlineOf
<1>5. DeadlineOf(day) \in Int /\ day < DeadlineOf(day)
  BY <1>1, <1>2, DayAdvances DEF DeadlineOf
<1>6. DeadlineOf(day) <= LoadedUntil
  <2>1. DeadlineOf(day) \in day..LoadedUntil
    BY <1>1, <1>2, DayReached DEF DeadlineOf
  <2> QED
    BY <1>1, <2>1
<1>7. LateOf(day) \in Int /\ DeadlineOf(day) < LateOf(day)
  <2>1. LateOf(day) # None
    BY <1>2, <1>3
  <2> QED
    BY <1>5, <2>1, DayAdvances DEF LateOf
<1> QED
  BY <1>1, <1>3, <1>4, <1>5, <1>6, <1>7

-----------------------------------------------------------------------------
\* What a deposit brings to the bank by its deadline.
LEMMA Rounded ==
    ASSUME NEW x \in Int
    PROVE  /\ Floor2(x) \in Int /\ Floor2(x) <= x
           /\ Ceiling2(x) \in Int /\ x <= Ceiling2(x)
<1> DEFINE c == Cent
           z == -x
           u == x \div c
           v == z \div c
           m == x % c
           n == z % c
<1>1. c \in Nat \ {0} /\ z \in Int
  BY BooksAssumption
<1>2. Floor2(x) = c * u /\ Ceiling2(x) = c * (-v)
  BY DEF Floor2, Ceiling2, UpTo
<1> HIDE DEF c, z
<1>3. u \in Int /\ m \in 0..(c - 1) /\ x = c * u + m
  BY <1>1
<1>4. v \in Int /\ n \in 0..(c - 1) /\ z = c * v + n
  BY <1>1
<1> HIDE DEF u, v, m, n
<1>5. c * u \in Int /\ c * v \in Int /\ c * (-v) = -(c * v) /\ m >= 0 /\ n >= 0 /\ m \in Int /\ n \in Int
  BY <1>1, <1>3, <1>4
<1>6. z = -x
  BY DEF z
<1> QED
  BY <1>2, <1>3, <1>4, <1>5, <1>6

LEMMA ShortFalls ==
    ASSUME NEW x \in Int, x > 0
    PROVE  Floor2(x - Percent(ShortShare, x)) < x
<1> DEFINE p == Percent(ShortShare, x)
           y == x - p
<1>1. ShortShare \in Int /\ Cent \in Nat \ {0} /\ ShortShare * Cent >= 100
  BY BooksAssumption, DepositsAssumption
<1>2. p \in Int
  BY <1>1, PercentType
<1>3. ShortShare > 0
  <2> SUFFICES ASSUME ShortShare <= 0 PROVE FALSE
    BY <1>1
  <2>1. (-ShortShare) * Cent >= 0
    BY <1>1
  <2>2. (-ShortShare) * Cent = -(ShortShare * Cent) /\ ShortShare * Cent \in Int
    BY <1>1
  <2> QED
    BY <1>1, <2>1, <2>2
<1>4. p >= 0
  <2>1. ShortShare * x \in Nat
    BY <1>1, <1>3
  <2> QED
    BY <2>1 DEF Percent
<1>5. CASE x >= Cent
  <2>1. ShortShare * (x - Cent) >= 0
    BY <1>1, <1>3, <1>5
  <2>2. ShortShare * (x - Cent) = ShortShare * x - ShortShare * Cent
        /\ ShortShare * x \in Int /\ ShortShare * Cent \in Int
    BY <1>1
  <2>3. ShortShare * x >= 100
    BY <1>1, <2>1, <2>2
  <2>4. p >= 1
    BY <2>2, <2>3 DEF Percent
  <2> HIDE DEF p
  <2>5. y \in Int /\ y < x
    BY <1>2, <2>4
  <2> HIDE DEF y
  <2>6. Floor2(y) <= y /\ Floor2(y) \in Int
    BY <2>5, Rounded
  <2> QED
    BY <2>5, <2>6 DEF y, p
<1>6. CASE x < Cent
  <2> HIDE DEF p
  <2>1. y \in Int /\ y < Cent
    BY <1>1, <1>2, <1>4, <1>6
  <2> HIDE DEF y
  <2> DEFINE u == y \div Cent
             c == Cent
  <2>2. u \in Int
    BY <1>1, <2>1
  <2>3. u <= 0
    BY <1>1, <2>1
  <2>4. Floor2(y) = c * u
    BY DEF Floor2
  <2>5. c \in Nat
    BY <1>1
  <2> HIDE DEF u, c
  <2>6. c * (-u) >= 0
    BY <2>2, <2>3, <2>5
  <2>7. c * (-u) = -(c * u) /\ c * u \in Int
    BY <2>2, <2>5
  <2> QED
    BY <2>4, <2>6, <2>7 DEF y, p
<1> QED
  BY <1>1, <1>5, <1>6

\* The outcomes that leave an account short of what it needs.
Failing == {"SHORT", "LATE", "NOT_DECLARED_IN_PACK"}
Brought(d, deadline) == IF d.amount # 0 /\ d.date = deadline THEN d.amount ELSE 0

LEMMA DepositBrings ==
    ASSUME NEW needed \in Figure, NEW draw \in Drawn \cup {None}, NEW deadline \in Int,
           Calendar!AddBusinessDays(deadline, 1) \in Int,
           deadline < Calendar!AddBusinessDays(deadline, 1)
    PROVE  LET d == DepositOf(needed, draw, deadline)
           IN  /\ d.amount \in Int /\ d.outcome # "forward"
               /\ d.amount # 0 => d.date \in {deadline, Calendar!AddBusinessDays(deadline, 1)}
               /\ Brought(d, deadline) \in Int
               /\ needed = None => d.outcome \notin Failing
               /\ needed # None => (d.outcome \in Failing <=> Brought(d, deadline) < needed)
<1> DEFINE d == DepositOf(needed, draw, deadline)
           late == Calendar!AddBusinessDays(deadline, 1)
           full == Ceiling2(needed)
           short == Floor2(needed - Percent(ShortShare, needed))
<1>1. \A outcome, amount, date :
        /\ outcome # "WITHDRAWAL_TO_REQUIREMENT" \/ amount # 0 =>
             LET e == Deposit(outcome, amount, date)
             IN  e.outcome = outcome /\ e.amount = amount /\ e.date = date
        /\ LET e == Deposit("WITHDRAWAL_TO_REQUIREMENT", 0, date)
           IN  e.outcome = "NO_DEPOSIT_NEEDED" /\ e.amount = 0
  BY DEF Deposit
<1>2. CASE needed = None
  <2>1. d = Deposit("NOT_COMPUTED", 0, None)
    BY <1>2, DepositIs
  <2> HIDE DEF d
  <2>2. d.outcome = "NOT_COMPUTED" /\ d.amount = 0
    BY <1>1, <2>1
  <2>3. Brought(d, deadline) = 0
    BY <2>2 DEF Brought
  <2> QED
    BY <1>2, <2>2, <2>3 DEF Failing, d
<1>3. CASE needed # None
  <2>1. needed \in Int
    BY <1>3 DEF Figure
  <2>2. full \in Int /\ needed <= full
    BY <2>1, Rounded
  <2>3. needed > 0 => short \in Int /\ short < needed
    <3>1. Percent(ShortShare, needed) \in Int
      BY <2>1, PercentType, BooksAssumption
    <3>2. short \in Int
      BY <2>1, <3>1, RoundedType
    <3>3. needed > 0 => short < needed
      BY <2>1, ShortFalls
    <3> QED
      BY <3>2, <3>3
  <2> HIDE DEF full, short, late
  <2>4. ASSUME NEW outcome, NEW amount \in Int, NEW date, d = Deposit(outcome, amount, date),
               outcome # "forward", amount # 0 => date \in {deadline, late},
               outcome \in Failing <=> (IF amount # 0 /\ date = deadline THEN amount ELSE 0) < needed
        PROVE  /\ d.amount \in Int /\ d.outcome # "forward"
               /\ d.amount # 0 => d.date \in {deadline, late}
               /\ Brought(d, deadline) \in Int
               /\ d.outcome \in Failing <=> Brought(d, deadline) < needed
    <3> HIDE DEF d
    <3>1. CASE outcome # "WITHDRAWAL_TO_REQUIREMENT" \/ amount # 0
      <4>1. d.outcome = outcome /\ d.amount = amount /\ d.date = date
        BY <1>1, <2>4, <3>1
      <4>2. Brought(d, deadline) = IF amount # 0 /\ date = deadline THEN amount ELSE 0
        BY <4>1, Zenon DEF Brought
      <4> QED
        BY <2>4, <4>1, <4>2
    <3>2. CASE outcome = "WITHDRAWAL_TO_REQUIREMENT" /\ amount = 0
      <4>1. d.outcome = "NO_DEPOSIT_NEEDED" /\ d.amount = 0
        BY <1>1, <2>4, <3>2
      <4>2. Brought(d, deadline) = 0
        BY <4>1 DEF Brought
      <4> QED
        BY <2>4, <3>2, <4>1, <4>2 DEF Failing
    <3> QED
      BY <3>1, <3>2
  <2>5. CASE draw = None
    <3> DEFINE outcome == IF needed > 0 THEN "NOT_DECLARED_IN_PACK" ELSE "NO_DEPOSIT_NEEDED"
    <3>1. d = Deposit(outcome, 0, None)
      BY <1>3, <2>5, DepositIs
    <3>2. outcome # "forward" /\ (outcome \in Failing <=> 0 < needed)
      BY <2>1 DEF Failing
    <3> HIDE DEF outcome, d
    <3> QED
      BY <1>3, <2>4, <3>1, <3>2 DEF d, late
  <2>6. CASE draw # None /\ needed < 0
    <3>1. d = Deposit("WITHDRAWAL_TO_REQUIREMENT", full, deadline)
      BY <1>3, <2>6, DepositIs DEF full
    <3>2. "WITHDRAWAL_TO_REQUIREMENT" # "forward" /\ "WITHDRAWAL_TO_REQUIREMENT" \notin Failing
      BY DEF Failing
    <3>3. ~((IF full # 0 /\ deadline = deadline THEN full ELSE 0) < needed)
      BY <2>1, <2>2, <2>6
    <3> HIDE DEF d
    <3> QED
      BY <1>3, <2>2, <2>4, <3>1, <3>2, <3>3 DEF d, late
  <2>7. CASE draw # None /\ needed = 0
    <3>1. d = Deposit("NO_DEPOSIT_NEEDED", 0, None)
      BY <1>3, <2>7, DepositIs
    <3>2. "NO_DEPOSIT_NEEDED" # "forward" /\ "NO_DEPOSIT_NEEDED" \notin Failing
      BY DEF Failing
    <3> HIDE DEF d
    <3> QED
      BY <1>3, <2>4, <2>7, <3>1, <3>2 DEF d, late
  <2>8. CASE draw = "SHORT" /\ draw # None /\ needed > 0
    <3>1. d = Deposit("SHORT", short, deadline)
      BY <1>3, <2>8, DepositIs DEF short
    <3>2. "SHORT" # "forward" /\ "SHORT" \in Failing
      BY DEF Failing
    <3>3. (IF short # 0 /\ deadline = deadline THEN short ELSE 0) < needed
      BY <2>3, <2>8
    <3> HIDE DEF d
    <3> QED
      BY <1>3, <2>3, <2>4, <2>8, <3>1, <3>2, <3>3 DEF d, late
  <2>9. CASE draw = "LATE" /\ draw # None /\ needed > 0
    <3>1. d = Deposit("LATE", full, late)
      BY <1>3, <2>9, DepositIs DEF full, late
    <3>2. "LATE" # "forward" /\ "LATE" \in Failing
      BY DEF Failing
    <3>3. late # deadline
      BY DEF late
    <3>4. (IF full # 0 /\ late = deadline THEN full ELSE 0) < needed
      BY <2>9, <3>3
    <3> HIDE DEF d
    <3> QED
      BY <1>3, <2>2, <2>4, <3>1, <3>2, <3>4 DEF d, late
  <2>10. CASE draw = "ON_TIME" /\ draw # None /\ needed > 0
    <3>1. d = Deposit("ON_TIME", full, deadline)
      BY <1>3, <2>10, DepositIs DEF full
    <3>2. "ON_TIME" # "forward" /\ "ON_TIME" \notin Failing
      BY DEF Failing
    <3>3. ~((IF full # 0 /\ deadline = deadline THEN full ELSE 0) < needed)
      BY <2>1, <2>2, <2>10
    <3> HIDE DEF d
    <3> QED
      BY <1>3, <2>2, <2>4, <3>1, <3>2, <3>3 DEF d, late
  <2>11. draw = None \/ draw \in {"SHORT", "LATE", "ON_TIME"}
    BY DEF Drawn
  <2> QED
    BY <2>1, <2>5, <2>6, <2>7, <2>8, <2>9, <2>10, <2>11
<1> QED
  BY <1>2, <1>3

-----------------------------------------------------------------------------
\* The lines of the bank: no later than last, and its own of before day.
Placed(lines, last, day) ==
    \A l \in lines :
      /\ l.effective \in Int /\ l.effective <= last
      /\ l.account = "reserve bank" => l.entry[3] \in Int /\ l.entry[3] < day
Sound(deposits, deadline, late) ==
    \A k \in Accounts :
      /\ deposits[k].amount \in Int /\ deposits[k].outcome # "forward"
      /\ deposits[k].amount # 0 => deposits[k].date \in {deadline, late}

LEMMA ForwardLines ==
    ASSUME NEW l \in BroughtForward
    PROVE  \/ l \in books
           \/ \E k \in Accounts : l = BankLine(<<"forward", k, today>>, k, Opening(k), today)
<1> DEFINE line(k) == BankLine(<<"forward", k, today>>, k, Opening(k), today)
<1>1. BroughtForward =
        IF ~profile.forward THEN books
        ELSE {m \in books : \A k \in Accounts : m.type # Banks[k]}
             \cup {line(k) : k \in {j \in Accounts : Opening(j) # 0}}
  BY Zenon DEF BroughtForward
<1> HIDE DEF line
<1>2. l \in books \/ \E k \in Accounts : l = line(k)
  BY <1>1
<1> QED
  BY <1>2 DEF line

LEMMA MadeLines ==
    ASSUME NEW deposits, NEW l \in Made(deposits)
    PROVE  \E k \in Accounts :
             /\ deposits[k].amount # 0
             /\ l = BankLine(<<deposits[k].outcome, k, today>>, k, deposits[k].amount, deposits[k].date)
<1> DEFINE line(k) == BankLine(<<deposits[k].outcome, k, today>>, k, deposits[k].amount,
                               deposits[k].date)
<1>1. Made(deposits) = {line(k) : k \in {j \in Accounts : deposits[j].amount # 0}}
  BY Zenon DEF Made
<1> HIDE DEF line
<1>2. \E k \in Accounts : deposits[k].amount # 0 /\ l = line(k)
  BY <1>1
<1> QED
  BY <1>2 DEF line

LEMMA ForwardPlaced ==
    ASSUME NEW last \in Int, today \in Int, today <= last, Placed(books, last, today)
    PROVE  Placed(BroughtForward, last, today + 1)
<1> SUFFICES ASSUME NEW l \in BroughtForward
             PROVE  /\ l.effective \in Int /\ l.effective <= last
                    /\ l.account = "reserve bank" => l.entry[3] \in Int /\ l.entry[3] < today + 1
  BY Zenon DEF Placed
<1>1. CASE l \in books
  <2> DEFINE n == l.entry[3]
  <2>1. /\ l.effective \in Int /\ l.effective <= last
        /\ l.account = "reserve bank" => n \in Int /\ n < today
    BY <1>1, Zenon DEF Placed
  <2> HIDE DEF n
  <2>2. ASSUME l.account = "reserve bank" PROVE n \in Int /\ n < today + 1
    <3>1. n \in Int /\ n < today
      BY <2>1, <2>2, Zenon
    <3> QED
      BY <3>1
  <2> QED
    BY <2>1, <2>2, Zenon DEF n
<1>2. ASSUME NEW k \in Accounts, l = BankLine(<<"forward", k, today>>, k, Opening(k), today)
      PROVE  l.effective = today /\ l.entry = <<"forward", k, today>>
  BY <1>2 DEF BankLine
<1>3. CASE l \notin books
  <2>1. PICK k \in Accounts : l.effective = today /\ l.entry = <<"forward", k, today>>
    BY <1>2, <1>3, ForwardLines, Zenon
  <2>2. l.entry[3] = today
    BY <2>1
  <2>3. today < today + 1
    OBVIOUS
  <2>4. l.entry[3] \in Int /\ l.entry[3] < today + 1
    BY <2>2, <2>3, Zenon
  <2>5. l.effective \in Int /\ l.effective <= last
    BY <2>1, Zenon
  <2> QED
    BY <2>4, <2>5, Zenon
<1> QED
  BY <1>1, <1>3

LEMMA MadePlaced ==
    ASSUME NEW deadline \in Int, NEW late \in Int, deadline <= late, today \in Int,
           NEW deposits, Sound(deposits, deadline, late)
    PROVE  Placed(Made(deposits), late, today + 1)
<1> SUFFICES ASSUME NEW l \in Made(deposits)
             PROVE  /\ l.effective \in Int /\ l.effective <= late
                    /\ l.account = "reserve bank" => l.entry[3] \in Int /\ l.entry[3] < today + 1
  BY Zenon DEF Placed
<1>1. PICK k \in Accounts :
             /\ deposits[k].amount # 0
             /\ l = BankLine(<<deposits[k].outcome, k, today>>, k, deposits[k].amount, deposits[k].date)
  BY MadeLines, Zenon
<1>2. l.effective = deposits[k].date /\ l.entry = <<deposits[k].outcome, k, today>>
  BY <1>1 DEF BankLine
<1>3. l.effective \in {deadline, late}
  BY <1>1, <1>2, Zenon DEF Sound
<1>4. l.effective \in Int /\ l.effective <= late
  BY <1>3
<1>5. l.entry[3] = today
  BY <1>2
<1>6. today < today + 1
  OBVIOUS
<1>7. l.entry[3] \in Int /\ l.entry[3] < today + 1
  BY <1>5, <1>6, Zenon
<1> QED
  BY <1>4, <1>7, Zenon

\* A deposit is posted as a line of its own.
LEMMA DepositIsNew ==
    ASSUME NEW last, NEW deadline, NEW late, today \in Int, Placed(books, last, today),
           NEW deposits, Sound(deposits, deadline, late)
    PROVE  BroughtForward \cap Made(deposits) = {}
<1> SUFFICES ASSUME NEW l \in BroughtForward, l \in Made(deposits) PROVE FALSE
  OBVIOUS
<1>1. PICK k \in Accounts :
             l = BankLine(<<deposits[k].outcome, k, today>>, k, deposits[k].amount, deposits[k].date)
  BY MadeLines, Zenon
<1>2. l.account = "reserve bank" /\ l.entry = <<deposits[k].outcome, k, today>>
  BY <1>1 DEF BankLine
<1>3. l.entry[1] # "forward" /\ l.entry[3] = today
  <2>1. deposits[k].outcome # "forward"
    BY Zenon DEF Sound
  <2>2. l.entry[1] = deposits[k].outcome /\ l.entry[3] = today
    <3> DEFINE o == deposits[k].outcome
               e == l.entry
    <3>1. e = <<o, k, today>>
      BY <1>2
    <3> HIDE DEF o, e
    <3>2. e[1] = o /\ e[3] = today
      BY <3>1
    <3> QED
      BY <3>2, Zenon DEF o, e
  <2> QED
    BY <2>1, <2>2, Zenon
<1>4. CASE l \in books
  <2> DEFINE n == l.entry[3]
  <2>1. n \in Int /\ n < today
    BY <1>2, <1>4, Zenon DEF Placed
  <2>2. n = today
    BY <1>3
  <2> HIDE DEF n
  <2> QED
    BY <2>1, <2>2
<1>5. CASE l \notin books
  <2>1. PICK j \in Accounts : l = BankLine(<<"forward", j, today>>, j, Opening(j), today)
    BY <1>5, ForwardLines, Zenon
  <2>2. l.entry = <<"forward", j, today>>
    BY <2>1 DEF BankLine
  <2> QED
    BY <1>3, <2>2
<1> QED
  BY <1>4, <1>5

-----------------------------------------------------------------------------
\* Balances of the bank add up.
InAccount(lines, type, through) ==
    {l \in lines : l.type = type /\ l.side = "money" /\ l.effective <= through}
LEMMA TotalAdds ==
    ASSUME NEW S, LinesTyped(S), NEW T, LinesTyped(T), S \cap T = {}
    PROVE  Total(S \cup T) = Total(S) + Total(T)
<1> DEFINE U == S \cup T
           g == [l \in U |-> l.amount]
           f == [l \in S |-> l.amount]
           h == [l \in T |-> l.amount]
<1>1. /\ IsFiniteSet(S) /\ IsFiniteSet(T)
      /\ \A l \in S : l.amount \in Int
      /\ \A l \in T : l.amount \in Int
  BY Zenon DEF LinesTyped, LineTyped
<1>2. Total(U) = SumOf(g) /\ Total(S) = SumOf(f) /\ Total(T) = SumOf(h)
  BY Zenon DEF Total
<1>3. DOMAIN g = U /\ DOMAIN f = S /\ DOMAIN h = T
  OBVIOUS
<1>4. /\ \A l \in U : g[l] \in Int
      /\ \A l \in S : f[l] \in Int /\ f[l] = g[l]
      /\ \A l \in T : h[l] \in Int /\ h[l] = g[l]
  BY <1>1
<1> HIDE DEF g, f, h
<1>5. SumOf(g) = Sum(g, U) /\ SumOf(f) = Sum(f, S) /\ SumOf(h) = Sum(h, T)
  BY <1>3, SumOfIs, Zenon
<1>6. Sum(f, S) = Sum(g, S) /\ Sum(h, T) = Sum(g, T)
  BY <1>1, <1>4, SumCongruence, Zenon
<1>7. Sum(g, U) = Sum(g, S) + Sum(g, T)
  BY <1>1, <1>4, SumDisjoint
<1> QED
  BY <1>2, <1>5, <1>6, <1>7, Zenon

LEMMA TotalOfOne ==
    ASSUME NEW l, l.amount \in Int
    PROVE  Total({l}) = l.amount /\ Total({}) = 0
<1> DEFINE f == [m \in {l} |-> m.amount]
           g == [m \in {} |-> m.amount]
<1>1. DOMAIN f = {l} /\ f[l] = l.amount /\ DOMAIN g = {}
  OBVIOUS
<1>2. Total({l}) = SumOf(f) /\ Total({}) = SumOf(g)
  BY Zenon DEF Total
<1> HIDE DEF f, g
<1>3. SumOf(f) = f[l] /\ SumOf(g) = 0
  BY <1>1, SumOfOne, SumOfNone, Zenon
<1> QED
  BY <1>1, <1>2, <1>3, Zenon

LEMMA BalanceAdds ==
    ASSUME NEW S, LinesTyped(S), NEW T, LinesTyped(T), S \cap T = {}, NEW type, NEW through
    PROVE  reserve_bank_balance(S \cup T, type, through)
             = reserve_bank_balance(S, type, through) + reserve_bank_balance(T, type, through)
<1> DEFINE a == InAccount(S, type, through)
           b == InAccount(T, type, through)
<1>1. a \subseteq S /\ b \subseteq T /\ a \cap b = {} /\ InAccount(S \cup T, type, through) = a \cup b
  BY DEF InAccount
<1>2. LinesTyped(a) /\ LinesTyped(b)
  <2> HIDE DEF a, b
  <2> QED
    BY <1>1, FS_Subset DEF LinesTyped
<1>3. /\ reserve_bank_balance(S, type, through) = Total(a)
      /\ reserve_bank_balance(T, type, through) = Total(b)
      /\ reserve_bank_balance(S \cup T, type, through) = Total(InAccount(S \cup T, type, through))
  BY Zenon DEF reserve_bank_balance, InAccount
<1> HIDE DEF a, b
<1>4. Total(a \cup b) = Total(a) + Total(b)
  BY <1>1, <1>2, TotalAdds, Zenon
<1> QED
  BY <1>1, <1>3, <1>4, Zenon

LEMMA BanksDiffer ==
    ASSUME NEW k \in Accounts, NEW j \in Accounts, k # j
    PROVE  Banks[k] # Banks[j]
<1>1. Banks["customer"] = "RESERVE_BANK_CUSTOMER" /\ Banks["pab"] = "RESERVE_BANK_PAB"
  BY DEF Banks
<1>2. k \in {"customer", "pab"} /\ j \in {"customer", "pab"}
  BY AccountsAre, Zenon
<1> QED
  BY <1>1, <1>2

\* What is brought forward is what was in the bank.
LEMMA ForwardBalance ==
    ASSUME NEW deadline \in Int, deadline <= LoadedUntil, today \in Int, today <= deadline,
           LinesTyped(books), Placed(books, deadline, today), NEW k \in Accounts
    PROVE  reserve_bank_balance(BroughtForward, Banks[k], deadline) = Opening(k)
<1>1. reserve_bank_balance(BroughtForward, Banks[k], deadline)
        = Total(InAccount(BroughtForward, Banks[k], deadline))
      /\ Opening(k) = Total(InAccount(books, Banks[k], LoadedUntil))
  BY Zenon DEF reserve_bank_balance, InAccount, Opening
<1>2. LoadedUntil \in Int
  BY DeadlinesAssumption
<1>3. CASE ~profile.forward
  <2>1. BroughtForward = books
    BY <1>3, Zenon DEF BroughtForward
  <2>2. \A l \in books : l.effective <= deadline <=> l.effective <= LoadedUntil
    <3>1. \A l \in books : l.effective \in Int /\ l.effective <= deadline
      BY Zenon DEF Placed
    <3> QED
      BY <1>2, <3>1
  <2>3. InAccount(books, Banks[k], deadline) = InAccount(books, Banks[k], LoadedUntil)
    BY <2>2, Zenon DEF InAccount
  <2> QED
    BY <1>1, <2>1, <2>3, Zenon
<1>4. CASE profile.forward
  <2> DEFINE line(j) == BankLine(<<"forward", j, today>>, j, Opening(j), today)
             kept == {l \in books : \A j \in Accounts : l.type # Banks[j]}
             S == {j \in Accounts : Opening(j) # 0}
             in == InAccount(BroughtForward, Banks[k], deadline)
  <2>1. BroughtForward = kept \cup {line(j) : j \in S}
    BY <1>4, Zenon DEF BroughtForward
  <2>2. \A j : line(j).type = Banks[j] /\ line(j).side = "money" /\ line(j).effective = today
               /\ line(j).amount = Opening(j)
    BY DEF BankLine
  <2>3. \A l \in in : l \in {line(j) : j \in S} /\ l.type = Banks[k]
    BY <2>1, Zenon DEF InAccount
  <2>4. k \in S => line(k) \in in
    <3> HAVE k \in S
    <3>1. line(k) \in BroughtForward
      BY <2>1
    <3>2. line(k).type = Banks[k] /\ line(k).side = "money" /\ line(k).effective <= deadline
      BY <2>2
    <3> HIDE DEF line
    <3> QED
      BY <3>1, <3>2, Zenon DEF InAccount
  <2>5. Opening(k) \in Int
    BY BalanceType, Zenon DEF Opening
  <2> HIDE DEF in, line, kept
  <2>6. \A l \in in : k \in S /\ l = line(k)
    <3> TAKE l \in in
    <3>1. PICK j \in S : l = line(j)
      BY <2>3
    <3>2. Banks[j] = Banks[k]
      BY <2>2, <2>3, <3>1
    <3>3. j = k
      BY <3>2, BanksDiffer
    <3> QED
      BY <3>1, <3>3
  <2>7. CASE k \in S
    <3>1. in = {line(k)}
      BY <2>4, <2>6, <2>7
    <3>2. Total({line(k)}) = line(k).amount
      BY <2>2, <2>5, TotalOfOne
    <3> QED
      BY <1>1, <2>2, <3>1, <3>2 DEF in
  <2>8. CASE k \notin S
    <3>1. in = {} /\ Opening(k) = 0
      BY <2>6, <2>8
    <3>2. Total({}) = 0
      <4>1. [amount |-> 0].amount \in Int
        OBVIOUS
      <4> QED
        BY <4>1, TotalOfOne, Zenon
    <3> QED
      BY <1>1, <3>1, <3>2 DEF in
  <2> QED
    BY <2>7, <2>8
<1> QED
  BY <1>3, <1>4

\* Of a day's deposits, those come by the deadline are in the bank at it.
LEMMA MadeBalance ==
    ASSUME NEW deadline \in Int, NEW late \in Int, deadline < late,
           NEW deposits, Sound(deposits, deadline, late), NEW k \in Accounts
    PROVE  reserve_bank_balance(Made(deposits), Banks[k], deadline) = Brought(deposits[k], deadline)
<1> DEFINE line(j) == BankLine(<<deposits[j].outcome, j, today>>, j, deposits[j].amount,
                               deposits[j].date)
           S == {j \in Accounts : deposits[j].amount # 0}
           in == InAccount(Made(deposits), Banks[k], deadline)
           counts == deposits[k].amount # 0 /\ deposits[k].date = deadline
<1>1. Made(deposits) = {line(j) : j \in S}
  BY Zenon DEF Made
<1>2. \A j : line(j).type = Banks[j] /\ line(j).side = "money"
             /\ line(j).effective = deposits[j].date /\ line(j).amount = deposits[j].amount
  BY DEF BankLine
<1>3. reserve_bank_balance(Made(deposits), Banks[k], deadline) = Total(in)
  BY Zenon DEF reserve_bank_balance, InAccount
<1>4. deposits[k].amount \in Int
      /\ (deposits[k].amount # 0 => deposits[k].date \in {deadline, late})
  BY Zenon DEF Sound
<1>5. \A l \in in : l \in {line(j) : j \in S} /\ l.type = Banks[k] /\ l.effective <= deadline
  BY <1>1, Zenon DEF InAccount
<1>6. counts => line(k) \in in
  <2> HAVE counts
  <2>1. line(k) \in Made(deposits)
    BY <1>1
  <2>2. line(k).type = Banks[k] /\ line(k).side = "money" /\ line(k).effective <= deadline
    BY <1>2
  <2> HIDE DEF line
  <2> QED
    BY <2>1, <2>2, Zenon DEF InAccount
<1> HIDE DEF in, line
<1>7. \A l \in in : counts /\ l = line(k)
  <2> TAKE l \in in
  <2>1. PICK j \in S : l = line(j)
    BY <1>5
  <2>2. Banks[j] = Banks[k]
    BY <1>2, <1>5, <2>1
  <2>3. j = k
    BY <2>2, BanksDiffer
  <2>4. deposits[k].amount # 0 /\ deposits[k].date <= deadline
    BY <1>2, <1>5, <2>1, <2>3
  <2>5. deposits[k].date = deadline
    BY <1>4, <2>4
  <2> QED
    BY <2>1, <2>3, <2>4, <2>5
<1>8. CASE counts
  <2>1. in = {line(k)}
    BY <1>6, <1>7, <1>8
  <2>2. Total({line(k)}) = line(k).amount
    BY <1>2, <1>4, TotalOfOne
  <2>3. Brought(deposits[k], deadline) = deposits[k].amount
    BY <1>8, Zenon DEF Brought
  <2> QED
    BY <1>2, <1>3, <2>1, <2>2, <2>3, Zenon
<1>9. CASE ~counts
  <2>1. in = {}
    BY <1>7, <1>9
  <2>2. Total({}) = 0
    <3>1. [amount |-> 0].amount \in Int
      OBVIOUS
    <3> QED
      BY <3>1, TotalOfOne, Zenon
  <2>3. Brought(deposits[k], deadline) = 0
    BY <1>9, Zenon DEF Brought
  <2> QED
    BY <1>3, <2>1, <2>2, <2>3, Zenon
<1> QED
  BY <1>8, <1>9

-----------------------------------------------------------------------------
\* The deposits of a day, and where the lines of the books stand.
LEMMA DayDeposits ==
    ASSUME FirmInv, profile.part = "protect", NEW inputs,
           FirmInput(inputs.customer, "customer"), FirmInput(inputs.pab, "pab"), NEW draw \in Draws
    PROVE  LET ds == DepositsOf(Computed(inputs), draw, DeadlineOf(today))
           IN  /\ Sound(ds, DeadlineOf(today), LateOf(today))
               /\ \A k \in Accounts :
                    /\ Opening(k) \in Int /\ Computed(inputs)[k].after \in Figure
                    /\ Brought(ds[k], DeadlineOf(today)) \in Int
                    /\ NeededFor(k, inputs) = None => ds[k].outcome \notin Failing
                    /\ NeededFor(k, inputs) # None =>
                         (ds[k].outcome \in Failing
                            <=> Brought(ds[k], DeadlineOf(today)) < NeededFor(k, inputs))
<1> DEFINE deadline == DeadlineOf(today)
           late == LateOf(today)
           ds == DepositsOf(Computed(inputs), draw, deadline)
<1>1. deadline \in Int /\ late \in Int /\ deadline < late
      /\ late = Calendar!AddBusinessDays(deadline, 1)
  <2>1. today \in RunDates
    BY Zenon DEF FirmInv
  <2> QED
    BY <2>1, DepositDays DEF LateOf
<1>2. ASSUME NEW k \in Accounts
      PROVE  /\ Opening(k) \in Int /\ Computed(inputs)[k].after \in Figure
             /\ NeededFor(k, inputs) \in Figure /\ DrawFor(k, draw) \in Drawn \cup {None}
             /\ ds[k] = DepositOf(NeededFor(k, inputs), DrawFor(k, draw), deadline)
  BY DepositsAre, Zenon
<1> HIDE DEF deadline, late, ds
<1>3. ASSUME NEW k \in Accounts
      PROVE  /\ ds[k].amount \in Int /\ ds[k].outcome # "forward"
             /\ ds[k].amount # 0 => ds[k].date \in {deadline, late}
             /\ Brought(ds[k], deadline) \in Int
             /\ NeededFor(k, inputs) = None => ds[k].outcome \notin Failing
             /\ NeededFor(k, inputs) # None =>
                  (ds[k].outcome \in Failing <=> Brought(ds[k], deadline) < NeededFor(k, inputs))
  BY <1>1, <1>2, DepositBrings
<1>4. Sound(ds, deadline, late)
  BY <1>3, Zenon DEF Sound
<1> QED
  BY <1>2, <1>3, <1>4, Zenon DEF ds, deadline, late

LEMMA PlacedMore ==
    ASSUME NEW lines, NEW last \in Int, NEW day \in Int, Placed(lines, last, day),
           NEW l \in Int, NEW d \in Int, last <= l, day <= d
    PROVE  Placed(lines, l, d)
<1> SUFFICES ASSUME NEW x \in lines
             PROVE  /\ x.effective \in Int /\ x.effective <= l
                    /\ x.account = "reserve bank" => x.entry[3] \in Int /\ x.entry[3] < d
  BY Zenon DEF Placed
<1> DEFINE n == x.entry[3]
           e == x.effective
<1>1. e \in Int /\ e <= last /\ (x.account = "reserve bank" => n \in Int /\ n < day)
  BY Zenon DEF Placed
<1> HIDE DEF n, e
<1>2. e <= l
  <2>1. e \in Int /\ e <= last
    BY <1>1, Zenon
  <2> QED
    BY <2>1
<1>3. ASSUME x.account = "reserve bank" PROVE n \in Int /\ n < d
  <2>1. n \in Int /\ n < day
    BY <1>1, <1>3, Zenon
  <2> QED
    BY <2>1
<1> QED
  BY <1>1, <1>2, <1>3, Zenon DEF n, e

PlacedInv ==
    profile.part = "protect" =>
      /\ step = "book" => Placed(books, DeadlineOf(today), today)
      /\ step = "protected" => Placed(books, LateOf(today), today + 1)

LEMMA BookPlaces ==
    ASSUME NEW b \in Bookings, today \in Int, NEW last \in Int, today <= last
    PROVE  Placed(Dated(b), last, today)
<1> SUFFICES ASSUME NEW x \in Dated(b)
             PROVE  /\ x.effective \in Int /\ x.effective <= last
                    /\ x.account = "reserve bank" => x.entry[3] \in Int /\ x.entry[3] < today
  BY Zenon DEF Placed
<1>1. PICK l \in b.lines : x = [entry |-> b.id, account |-> l.account, type |-> l.type,
                                side |-> l.side, issue |-> l.issue, amount |-> l.amount,
                                effective |-> today, fact |-> l.fact]
  BY DEF Dated
<1>2. x.effective = today /\ x.account = l.account
  BY <1>1
<1>3. l.account # "reserve bank"
  BY DepositsAssumption, Zenon
<1> QED
  BY <1>2, <1>3

LEMMA ProtectPlaces ==
    ASSUME FirmInv, profile.part = "protect", Placed(books, DeadlineOf(today), today),
           NEW deposits, Sound(deposits, DeadlineOf(today), LateOf(today))
    PROVE  Placed(BroughtForward \cup Made(deposits), LateOf(today), today + 1)
<1>1. /\ today \in Int /\ DeadlineOf(today) \in Int /\ LateOf(today) \in Int
      /\ today <= DeadlineOf(today) /\ DeadlineOf(today) <= LateOf(today)
      /\ today + 1 \in Int /\ today + 1 <= today + 1
  <2>1. today \in RunDates
    BY Zenon DEF FirmInv
  <2> QED
    BY <2>1, DepositDays
<1>2. Placed(BroughtForward, DeadlineOf(today), today + 1)
  BY <1>1, ForwardPlaced, Zenon
<1>3. Placed(BroughtForward, LateOf(today), today + 1)
  BY <1>1, <1>2, PlacedMore, Zenon
<1>4. Placed(Made(deposits), LateOf(today), today + 1)
  BY <1>1, MadePlaced, Zenon
<1> QED
  BY <1>3, <1>4, Zenon DEF Placed

\* The day's deposits, as the firm makes them.
LEMMA ProtectUnfolds ==
    ASSUME FirmInv, Protect
    PROVE  \E draw, inputs, ds, lines, by :
             /\ profile.part = "protect" /\ draw \in Draws
             /\ FirmInput(inputs.customer, "customer") /\ FirmInput(inputs.pab, "pab")
             /\ inputs.customer.cash = {} /\ inputs.pab.cash = {}
             /\ ds = DepositsOf(Computed(inputs), draw, DeadlineOf(today))
             /\ lines = BroughtForward \cup Made(ds) /\ LinesTyped(lines)
             /\ by = CountedBy(DeadlineOf(today), inputs, lines)
             /\ books' = lines /\ held'.deposits = ds /\ held'.deadline = DeadlineOf(today)
             /\ held'.customer = Computed(by).customer /\ held'.pab = Computed(by).pab
             /\ held'["customer"] = held'.customer /\ held'["pab"] = held'.pab
<1>1. profile.part = "protect"
  BY Zenon DEF Protect
<1>2. PICK draw \in Draws : ProtectAs(draw, Projected, Inputs(Projected), DeadlineOf(today))
  BY Zenon DEF Protect, ProtectFrom, DeadlineOf
<1> DEFINE deadline == DeadlineOf(today)
           inputs == Inputs(Projected)
           ds == DepositsOf(Computed(inputs), draw, deadline)
           lines == BroughtForward \cup Made(ds)
           by == CountedBy(deadline, inputs, lines)
<1>3. FirmInput(inputs.customer, "customer") /\ inputs.customer.cash = {}
      /\ FirmInput(inputs.pab, "pab") /\ inputs.pab.cash = {}
  BY <1>1, InputsGiven, Zenon
<1>4. books' = lines
  BY <1>2, Zenon DEF ProtectAs, Settle, Post
<1>5. PICK margins, capital, control, c :
           /\ c = Computed(by)
           /\ held' = [customer |-> c.customer, pab |-> c.pab, deposits |-> ds,
                       deadline |-> deadline, margins |-> margins, capital |-> capital,
                       control |-> control]
  BY <1>2, Zenon DEF ProtectAs, Settle, Post
<1> HIDE DEF inputs
<1>6. LinesTyped(lines)
  BY <1>1, <1>3, ProtectLines, Zenon
<1> HIDE DEF by, lines
<1>7. /\ held'.customer = c.customer /\ held'.pab = c.pab /\ held'.deposits = ds
      /\ held'.deadline = deadline
      /\ held'["customer"] = held'.customer /\ held'["pab"] = held'.pab
  <2> HIDE DEF ds, deadline
  <2> QED
    BY <1>5
<1>8. /\ lines = BroughtForward \cup Made(ds)
      /\ by = CountedBy(deadline, inputs, lines)
  BY Zenon DEF by, lines
<1> HIDE DEF ds
<1>9. ds = DepositsOf(Computed(inputs), draw, deadline)
  BY Zenon DEF ds
<1> QED
  BY <1>1, <1>3, <1>4, <1>5, <1>6, <1>7, <1>8, <1>9, Zenon

LEMMA PlacedAlways == Spec => []PlacedInv
<1>1. Init => PlacedInv
  <2> SUFFICES ASSUME Init, profile.part = "protect"
               PROVE  step = "book" /\ Placed(books, DeadlineOf(today), today)
    BY Zenon DEF PlacedInv
  <2>1. profile \in Profiles /\ today = StartDate /\ step = "book" /\ books = profile.opening
    BY Zenon DEF Init
  <2>2. today \in Int /\ DeadlineOf(today) \in Int /\ today < DeadlineOf(today)
    <3>1. today \in RunDates
      BY <2>1, Zenon DEF RunDates
    <3> QED
      BY <3>1, DepositDays
  <2>3. \A l \in books : l.account # "reserve bank" /\ l.effective \in Int /\ l.effective <= today
    BY <2>1, DepositsAssumption, Zenon
  <2>4. ASSUME NEW l \in books PROVE l.effective <= DeadlineOf(today)
    <3> DEFINE e == l.effective
               deadline == DeadlineOf(today)
    <3>1. e \in Int /\ e <= today /\ today \in Int /\ deadline \in Int /\ today < deadline
      BY <2>2, <2>3, Zenon
    <3> HIDE DEF e, deadline
    <3>2. e <= deadline
      BY <3>1
    <3> QED
      BY <3>2, Zenon DEF e, deadline
  <2> QED
    BY <2>1, <2>3, <2>4, Zenon DEF Placed
<1>2. FirmInv /\ PlacedInv /\ [Next]_vars => PlacedInv'
  <2> SUFFICES ASSUME FirmInv, PlacedInv, [Next]_vars PROVE PlacedInv'
    OBVIOUS
  <2>1. CASE Book
    <3>1. profile' = profile /\ today' = today /\ step' = "book" /\ profile.part = "protect"
          /\ step = "book"
      BY <2>1, Zenon DEF Book
    <3>2. PICK b \in Bookings : books' = books \cup Dated(b)
      BY <2>1, Zenon DEF Book
    <3>3. today \in Int /\ DeadlineOf(today) \in Int /\ today <= DeadlineOf(today)
      <4>1. today \in RunDates
        BY Zenon DEF FirmInv
      <4> QED
        BY <4>1, DepositDays
    <3>4. Placed(books, DeadlineOf(today), today) /\ Placed(Dated(b), DeadlineOf(today), today)
      BY <3>1, <3>3, BookPlaces, Zenon DEF PlacedInv
    <3>5. Placed(books', DeadlineOf(today), today)
      BY <3>2, <3>4, Zenon DEF Placed
    <3>6. step' # "protected"
      BY <3>1
    <3> QED
      BY <3>1, <3>5, <3>6, Zenon DEF PlacedInv
  <2>2. CASE Protect
    <3>1. profile' = profile /\ today' = today /\ step' = "protected" /\ profile.part = "protect"
          /\ step = "book"
      BY <2>2, Zenon DEF Protect
    <3>2. PICK draw, inputs, ds, lines, by :
               /\ draw \in Draws
               /\ FirmInput(inputs.customer, "customer") /\ FirmInput(inputs.pab, "pab")
               /\ ds = DepositsOf(Computed(inputs), draw, DeadlineOf(today))
               /\ lines = BroughtForward \cup Made(ds)
               /\ books' = lines
      BY <2>2, ProtectUnfolds, Zenon
    <3>3. Sound(ds, DeadlineOf(today), LateOf(today))
      BY <3>1, <3>2, DayDeposits, Zenon
    <3>4. Placed(books, DeadlineOf(today), today)
      BY <3>1, Zenon DEF PlacedInv
    <3>5. Placed(books', LateOf(today), today + 1)
      BY <3>1, <3>2, <3>3, <3>4, ProtectPlaces, Zenon
    <3>6. step' # "book"
      BY <3>1
    <3> QED
      BY <3>1, <3>5, <3>6, Zenon DEF PlacedInv
  <2>3. CASE NextDay
    <3>1. profile' = profile /\ books' = books /\ step' = "book" /\ today < StartDate + RunDays
          /\ today' = Calendar!AddBusinessDays(today, 1) /\ step = "protected"
      BY <2>3, Zenon DEF NextDay
    <3>2. today \in RunDates /\ today' \in RunDates /\ today < today'
      BY <3>1, NextDate DEF FirmInv
    <3>3. /\ today \in Int /\ today' \in Int /\ LateOf(today) \in Int
          /\ LateOf(today) = DeadlineOf(today')
      BY <3>1, <3>2, DepositDays
    <3>4. LateOf(today) <= LateOf(today) /\ today + 1 <= today' /\ today + 1 \in Int
      BY <3>2, <3>3
    <3>5. ASSUME profile.part = "protect" PROVE Placed(books, DeadlineOf(today'), today')
      <4>1. Placed(books, LateOf(today), today + 1)
        BY <3>1, <3>5, Zenon DEF PlacedInv
      <4>2. Placed(books, LateOf(today), today')
        BY <3>3, <3>4, <4>1, PlacedMore, Zenon
      <4> QED
        BY <3>3, <4>2, Zenon
    <3>6. step' # "protected"
      BY <3>1
    <3> QED
      BY <3>1, <3>5, <3>6, Zenon DEF PlacedInv
  <2>4. CASE UNCHANGED <<profile, today, step, books>>
    BY <2>4, Zenon DEF PlacedInv
  <2>5. [Next]_vars => Book \/ Protect \/ NextDay \/ UNCHANGED <<profile, today, step, books>>
    BY Zenon DEF Next, vars, Restate, Review, Wait, CountSecurities, Validate
  <2> QED
    BY <2>1, <2>2, <2>3, <2>4, <2>5
<1> QED
  BY <1>1, <1>2, FirmAlways, PTL DEF Spec

-----------------------------------------------------------------------------
\* What is in the bank at the deadline, and what the day's outcomes say of it.
LEMMA BankIs ==
    ASSUME FirmInv, profile.part = "protect", Placed(books, DeadlineOf(today), today),
           NEW ds, Sound(ds, DeadlineOf(today), LateOf(today)), NEW k \in Accounts,
           LinesTyped(Made(ds))
    PROVE  reserve_bank_balance(BroughtForward \cup Made(ds), Banks[k], DeadlineOf(today))
             = Opening(k) + Brought(ds[k], DeadlineOf(today))
<1>1. /\ today \in Int /\ DeadlineOf(today) \in Int /\ LateOf(today) \in Int
      /\ today <= DeadlineOf(today) /\ DeadlineOf(today) < LateOf(today)
      /\ DeadlineOf(today) <= LoadedUntil
  <2>1. today \in RunDates
    BY Zenon DEF FirmInv
  <2> QED
    BY <2>1, DepositDays
<1>2. LinesTyped(books)
  BY FirmFacts, Zenon
<1>3. LinesTyped(BroughtForward)
  BY <1>2, ForwardTyped, Zenon
<1>4. BroughtForward \cap Made(ds) = {}
  BY <1>1, DepositIsNew, Zenon
<1>5. reserve_bank_balance(BroughtForward, Banks[k], DeadlineOf(today)) = Opening(k)
  BY <1>1, <1>2, ForwardBalance, Zenon
<1>6. reserve_bank_balance(Made(ds), Banks[k], DeadlineOf(today)) = Brought(ds[k], DeadlineOf(today))
  BY <1>1, MadeBalance, Zenon
<1>7. reserve_bank_balance(BroughtForward \cup Made(ds), Banks[k], DeadlineOf(today))
        = reserve_bank_balance(BroughtForward, Banks[k], DeadlineOf(today))
          + reserve_bank_balance(Made(ds), Banks[k], DeadlineOf(today))
  <2> DEFINE S == BroughtForward
             T == Made(ds)
             type == Banks[k]
             through == DeadlineOf(today)
  <2>1. LinesTyped(S) /\ LinesTyped(T) /\ S \cap T = {}
    BY <1>3, <1>4
  <2> HIDE DEF S, T, type, through
  <2>2. reserve_bank_balance(S \cup T, type, through)
          = reserve_bank_balance(S, type, through) + reserve_bank_balance(T, type, through)
    BY <2>1, BalanceAdds
  <2> QED
    BY <2>2 DEF S, T, type, through
<1> QED
  BY <1>5, <1>6, <1>7, Zenon

LEMMA Settled ==
    ASSUME NEW after \in Figure, NEW opening \in Int, NEW brought \in Int, NEW needed,
           needed = Less(after, opening), NEW outcome,
           needed = None => outcome \notin Failing,
           needed # None => (outcome \in Failing <=> brought < needed)
    PROVE  /\ outcome \in Failing => after # None /\ opening + brought < after
           /\ outcome \notin Failing /\ after # None => after <= opening + brought
<1>1. opening \in Figure /\ opening # None
  BY NoneIsNoNumber DEF Figure
<1>2. CASE after = None
  <2>1. needed = None
    BY <1>1, <1>2, LessType
  <2> QED
    BY <1>2, <2>1
<1>3. CASE after # None
  <2>1. needed # None /\ after \in Int /\ needed = after - opening
    BY <1>1, <1>3, LessType
  <2>2. brought < needed <=> opening + brought < after
    BY <2>1
  <2>3. ~(opening + brought < after) <=> after <= opening + brought
    BY <2>1
  <2> QED
    BY <1>3, <2>1, <2>2, <2>3, Zenon
<1> QED
  BY <1>2, <1>3

JudgedAs(r, outcome, bank) ==
    /\ bank \in Int /\ r.after \in Figure
    /\ r.disposition = "PASS" <=>
         /\ r.after # None /\ profile.history # None /\ BankKnown(bank)
         /\ BankGood(bank) >= r.after
    /\ outcome \in Failing => r.after # None /\ bank < r.after
    /\ outcome \notin Failing /\ r.after # None => r.after <= bank

\* The two computations of a day are made of a firm's inputs with what is in the bank.
LEMMA ComputedOf ==
    ASSUME FirmInv, profile.part = "protect", NEW inputs, NEW lines, LinesTyped(lines), NEW deadline,
           FirmInput(inputs.customer, "customer"), FirmInput(inputs.pab, "pab"),
           inputs.customer.cash = {}, inputs.pab.cash = {}, NEW by,
           by = CountedBy(deadline, inputs, lines), NEW k \in Accounts
    PROVE  \E in : /\ FirmInput(in, k) /\ Computed(by)[k] = compute_reserve(in, profile.table)
                   /\ in.cash = BankCash(reserve_bank_balance(lines, Banks[k], deadline))
<1> DEFINE b(j) == reserve_bank_balance(lines, Banks[j], deadline)
           t == profile.table
<1>1. by.customer = InBank(inputs.customer, b("customer")) /\ by.pab = InBank(inputs.pab, b("pab"))
  <2>1. by["customer"] = InBank(inputs["customer"], b("customer"))
        /\ by["pab"] = InBank(inputs["pab"], b("pab"))
    BY AccountsAre DEF CountedBy, counted
  <2> QED
    BY <2>1
<1>2. \A j : b(j) \in Int
  BY BalanceType, Zenon
<1> HIDE DEF b
<1>3. FirmInput(by.customer, "customer") /\ FirmInput(by.pab, "pab")
  BY CountedGiven, Zenon
<1>4. by.customer.cash = BankCash(b("customer")) /\ by.pab.cash = BankCash(b("pab"))
  <2>1. profile.equity \in Figure
    BY FirmFacts, Zenon
  <2>2. \A in, accounts, cash :
          FirmInput(in, accounts) /\ in.cash = {} /\ cash \in Int =>
            InBank(in, cash).cash = BankCash(cash)
    BY <2>1, BankedInput DEF BankCash
  <2> QED
    BY <1>1, <1>2, <2>2, Zenon
<1> DEFINE c == compute_reserve(by.customer, t)
           relieved == with_customer_excess_debits(by.pab, c)
<1>5. /\ Computed(by).customer = c /\ Computed(by).pab = Relieved(by.pab, c)
      /\ Relieved(by.pab, c) = compute_reserve(relieved, t)
      /\ Computed(by)["customer"] = Computed(by).customer /\ Computed(by)["pab"] = Computed(by).pab
  <2>1. Computed(by).customer = c /\ Computed(by).pab = Relieved(by.pab, c)
    BY <1>3, SizedType, Zenon
  <2>2. Relieved(by.pab, c) = compute_reserve(relieved, t)
    BY Zenon DEF Relieved
  <2> HIDE DEF c, relieved
  <2>3. Computed(by)["customer"] = Computed(by).customer /\ Computed(by)["pab"] = Computed(by).pab
    OBVIOUS
  <2> QED
    BY <2>1, <2>2, <2>3
<1>6. c.excessDebits \in Figure
  <2>1. c.excessDebits \in Nat \cup {None}
    BY <1>3, CustomerCovers, Zenon
  <2> HIDE DEF c
  <2> QED
    BY <2>1 DEF Figure
<1> HIDE DEF c
<1>7. FirmInput(relieved, "pab") /\ relieved.cash = by.pab.cash
  BY <1>3, <1>6, RelievedInput, Zenon
<1> HIDE DEF relieved, t
<1>8. /\ Computed(by)["customer"] = compute_reserve(by.customer, t)
      /\ Computed(by)["pab"] = compute_reserve(relieved, t)
  BY <1>5, Zenon DEF c
<1>9. k \in {"customer", "pab"}
  BY AccountsAre, Zenon
<1>10. CASE k = "customer"
  BY <1>3, <1>4, <1>8, <1>10, Zenon DEF b, t
<1>11. CASE k = "pab"
  BY <1>4, <1>7, <1>8, <1>11, Zenon DEF b, t
<1> QED
  BY <1>9, <1>10, <1>11

LEMMA ProtectJudges ==
    ASSUME FirmInv, PlacedInv, Protect, NEW k \in Accounts
    PROVE  JudgedAs(held'[k], held'.deposits[k].outcome,
                    reserve_bank_balance(books', Banks[k], held'.deadline))
<1> DEFINE deadline == DeadlineOf(today)
<1>1. PICK draw, inputs, ds, lines, by :
             /\ profile.part = "protect" /\ draw \in Draws
             /\ FirmInput(inputs.customer, "customer") /\ FirmInput(inputs.pab, "pab")
             /\ inputs.customer.cash = {} /\ inputs.pab.cash = {}
             /\ ds = DepositsOf(Computed(inputs), draw, deadline)
             /\ lines = BroughtForward \cup Made(ds) /\ LinesTyped(lines)
             /\ by = CountedBy(deadline, inputs, lines)
             /\ books' = lines /\ held'.deposits = ds /\ held'.deadline = deadline
             /\ held'.customer = Computed(by).customer /\ held'.pab = Computed(by).pab
             /\ held'["customer"] = held'.customer /\ held'["pab"] = held'.pab
  BY ProtectUnfolds, Zenon
<1>2. k \in {"customer", "pab"}
  BY AccountsAre, Zenon
<1>3. held'[k] = Computed(by)[k]
  <2>1. Computed(by)["customer"] = Computed(by).customer /\ Computed(by)["pab"] = Computed(by).pab
    OBVIOUS
  <2> QED
    BY <1>1, <1>2, <2>1, Zenon
<1>4. Placed(books, deadline, today)
  BY <1>1, Zenon DEF PlacedInv, Protect
<1>5. /\ Sound(ds, deadline, LateOf(today))
      /\ Opening(k) \in Int /\ Computed(inputs)[k].after \in Figure
      /\ Brought(ds[k], deadline) \in Int
      /\ NeededFor(k, inputs) = None => ds[k].outcome \notin Failing
      /\ NeededFor(k, inputs) # None =>
           (ds[k].outcome \in Failing <=> Brought(ds[k], deadline) < NeededFor(k, inputs))
  BY <1>1, DayDeposits, Zenon
<1> DEFINE bank == reserve_bank_balance(lines, Banks[k], deadline)
           after == Computed(by)[k].after
<1>6. bank = Opening(k) + Brought(ds[k], deadline)
  <2>1. LinesTyped(Made(ds))
    <3>1. \A j \in Accounts : ds[j].amount \in Int
      BY <1>5, Zenon DEF Sound
    <3> QED
      BY <3>1, MadeTyped, Zenon
  <2> QED
    BY <1>1, <1>4, <1>5, <2>1, BankIs, Zenon
<1>7. bank \in Int
  BY <1>1, BalanceType, Zenon
<1>8. after = Computed(inputs)[k].after
  <2>1. /\ Computed(by).customer.after = Computed(inputs).customer.after
        /\ Computed(by).pab.after = Computed(inputs).pab.after
    BY <1>1, SizedAgain
  <2> DEFINE x == Computed(by)
             y == Computed(inputs)
  <2>2. x.customer.after = y.customer.after /\ x.pab.after = y.pab.after
    BY <2>1, Zenon
  <2> HIDE DEF x, y
  <2>3. x[k].after = y[k].after
    BY <1>2, <2>2
  <2> QED
    BY <2>3 DEF x, y
<1>9. /\ Computed(by)[k].disposition = "PASS" <=>
           after # None /\ profile.history # None /\ BankKnown(bank) /\ BankGood(bank) >= after
  <2>1. PICK in : /\ FirmInput(in, k) /\ Computed(by)[k] = compute_reserve(in, profile.table)
                  /\ in.cash = BankCash(bank)
    <3>1. \E in : /\ FirmInput(in, k) /\ Computed(by)[k] = compute_reserve(in, profile.table)
                  /\ in.cash = BankCash(reserve_bank_balance(lines, Banks[k], deadline))
      <4> HIDE DEF deadline, bank
      <4> QED
        BY <1>1, ComputedOf
    <3> QED
      BY <3>1, Zenon
  <2> HIDE DEF bank
  <2>2. compute_reserve(in, profile.table).disposition = "PASS" <=>
          /\ compute_reserve(in, profile.table).after # None /\ profile.history # None
          /\ BankKnown(bank) /\ BankGood(bank) >= compute_reserve(in, profile.table).after
    BY <1>1, <1>2, <1>7, <2>1, JudgedBy, Zenon
  <2> QED
    BY <2>1, <2>2, Zenon
<1> HIDE DEF bank, after
<1>10. /\ ds[k].outcome \in Failing => after # None /\ bank < after
       /\ ds[k].outcome \notin Failing /\ after # None => after <= bank
  <2> DEFINE opening == Opening(k)
             brought == Brought(ds[k], deadline)
             needed == NeededFor(k, inputs)
             outcome == ds[k].outcome
  <2>1. needed = Less(after, opening)
    BY <1>8, Zenon DEF NeededFor
  <2>2. after \in Figure
    BY <1>5, <1>8, Zenon
  <2>3. /\ opening \in Int /\ brought \in Int /\ bank = opening + brought
        /\ needed = None => outcome \notin Failing
        /\ needed # None => (outcome \in Failing <=> brought < needed)
    BY <1>5, <1>6, Zenon
  <2> HIDE DEF opening, brought, needed, outcome
  <2>4. /\ outcome \in Failing => after # None /\ opening + brought < after
        /\ outcome \notin Failing /\ after # None => after <= opening + brought
    BY <2>1, <2>2, <2>3, Settled
  <2> QED
    BY <2>3, <2>4, Zenon DEF outcome
<1>11. /\ held'[k].after = after /\ held'[k].disposition = Computed(by)[k].disposition
       /\ held'.deposits[k].outcome = ds[k].outcome
       /\ reserve_bank_balance(books', Banks[k], held'.deadline) = bank
  BY <1>1, <1>3, Zenon DEF after, bank
<1>12. after \in Figure
  BY <1>5, <1>8, Zenon
<1> QED
  BY <1>7, <1>9, <1>10, <1>11, <1>12, Zenon DEF JudgedAs

\* What the day's protections say of the deposits, while they are held.
JudgedInv ==
    step = "protected" =>
      \A k \in Accounts :
        JudgedAs(held[k], held.deposits[k].outcome,
                 reserve_bank_balance(books, Banks[k], held.deadline))

LEMMA JudgedAlways == Spec => []JudgedInv
<1>1. Init => JudgedInv
  BY Zenon DEF Init, JudgedInv
<1>2. FirmInv /\ PlacedInv /\ JudgedInv /\ [Next]_vars => JudgedInv'
  <2> SUFFICES ASSUME FirmInv, PlacedInv, JudgedInv, [Next]_vars PROVE JudgedInv'
    OBVIOUS
  <2>1. CASE Protect
    <3>1. profile' = profile
      BY <2>1, Zenon DEF Protect
    <3>2. \A k \in Accounts :
            JudgedAs(held'[k], held'.deposits[k].outcome,
                     reserve_bank_balance(books', Banks[k], held'.deadline))
      BY <2>1, ProtectJudges, Zenon
    <3> QED
      BY <3>1, <3>2, Zenon DEF JudgedInv, JudgedAs, BankKnown, BankGood
  <2>2. CASE step' = "book"
    <3>1. step' # "protected"
      BY <2>2
    <3> QED
      BY <3>1, Zenon DEF JudgedInv
  <2>3. CASE UNCHANGED <<profile, step, books, held>>
    BY <2>3, Zenon DEF JudgedInv, JudgedAs, BankKnown, BankGood
  <2>4. [Next]_vars => Protect \/ step' = "book" \/ UNCHANGED <<profile, step, books, held>>
    BY Zenon DEF Next, vars, Book, Restate, NextDay, Review, Wait, CountSecurities, Validate
  <2> QED
    BY <2>1, <2>2, <2>3, <2>4
<1> QED
  BY <1>1, <1>2, FirmAlways, PlacedAlways, PTL DEF Spec

\* The reserve passes exactly when what reached the bank by the deadline, as far as the
\* bank is good for it, covers what the computation requires; and a day whose deposit
\* came late, short or not at all is a hold, whatever the books hold and whatever the
\* deposits of the days before were (compute_reserve, _post_reserve_deposits).
THEOREM DepositsJudged == Spec => []DepositsAreJudged
<1>1. FirmInv /\ JudgedInv => DepositsAreJudged
  <2> SUFFICES ASSUME FirmInv, JudgedInv, step = "protected", NEW k \in Accounts
               PROVE
      LET r    == held[k]
          bank == reserve_bank_balance(books, Banks[k], held.deadline)
          good == IF profile.equity = None THEN 0
                  ELSE Smaller(bank, Percent(Value(profile.table, "bank_equity_cap"), profile.equity))
          known == /\ r.after # None /\ profile.history # None
                   /\ profile.equity # None \/ bank = 0
      IN  /\ r.disposition = "PASS" => known /\ good >= r.after
          /\ known /\ good >= r.after => r.disposition = "PASS"
          /\ held.deposits[k].outcome \in {"SHORT", "LATE", "NOT_DECLARED_IN_PACK"} =>
               r.disposition # "PASS"
          /\ known /\ bank = good /\ r.disposition # "PASS" =>
               held.deposits[k].outcome \in {"SHORT", "LATE", "NOT_DECLARED_IN_PACK"}
    BY Zenon DEF DepositsAreJudged
  <2> DEFINE r == held[k]
             after == r.after
             bank == reserve_bank_balance(books, Banks[k], held.deadline)
             good == BankGood(bank)
             outcome == held.deposits[k].outcome
             pass == r.disposition = "PASS"
             known == after # None /\ profile.history # None /\ BankKnown(bank)
  <2>1. /\ bank \in Int /\ after \in Figure
        /\ pass <=> known /\ good >= after
        /\ outcome \in Failing => after # None /\ bank < after
        /\ outcome \notin Failing /\ after # None => after <= bank
    BY Zenon DEF JudgedInv, JudgedAs
  <2>2. profile.part = "protect"
    BY Zenon DEF FirmInv
  <2>3. good \in Int /\ (BankKnown(bank) => good <= bank)
    BY <2>1, <2>2, GoodIsANumber, Zenon
  <2>4. /\ good = IF profile.equity = None THEN 0
                  ELSE Smaller(bank, Percent(Value(profile.table, "bank_equity_cap"), profile.equity))
        /\ BankKnown(bank) <=> profile.equity # None \/ bank = 0
    BY Zenon DEF BankGood, BankKnown
  <2> HIDE DEF after, bank, good, outcome, pass
  <2>5. outcome \in Failing => ~pass
    <3> SUFFICES ASSUME outcome \in Failing, pass PROVE FALSE
      OBVIOUS
    <3>1. known /\ good >= after /\ after # None /\ bank < after /\ BankKnown(bank)
      BY <2>1, Zenon
    <3>2. good <= bank /\ after \in Int
      BY <2>1, <2>3, <3>1 DEF Figure
    <3> QED
      BY <2>1, <2>3, <3>1, <3>2
  <2>6. known /\ bank = good /\ ~pass => outcome \in Failing
    <3> SUFFICES ASSUME known, bank = good, ~pass, outcome \notin Failing PROVE FALSE
      OBVIOUS
    <3>1. ~(good >= after) /\ after # None /\ after <= bank
      BY <2>1, Zenon
    <3>2. after \in Int
      BY <2>1, <3>1 DEF Figure
    <3> QED
      BY <2>1, <2>3, <3>1, <3>2
  <2> QED
    BY <2>1, <2>4, <2>5, <2>6, Zenon DEF Failing, after, bank, outcome, pass
<1> QED
  BY <1>1, FirmAlways, JudgedAlways, PTL
-----------------------------------------------------------------------------
\* An engine told less.

LEMMA Shorter ==
    ASSUME NEW u, NEW id, id \notin u.exhibit \ Modeled
    PROVE  Poorer(Without(u, id), u) /\ PoorerPlaces(Without(u, id), u)
<1> DEFINE t == Without(u, id)
<1>1. /\ t.value = [r \in DOMAIN u.value \ {id} |-> u.value[r]]
      /\ t.exhibit = u.exhibit \ {id} /\ t.control = u.control \ {id}
      /\ t.noncontrol = u.noncontrol \ {id}
  BY DEF Without
<1> HIDE DEF t
<1>2. Poorer(t, u)
  BY <1>1 DEF Poorer
<1>3. PoorerPlaces(t, u)
  BY <1>1 DEF PoorerPlaces
<1> QED
  BY <1>2, <1>3 DEF t

\* A record without one of its figures.
LEMMA FieldCleared ==
    ASSUME NEW in, NEW fields, IsRecord(in, fields), NEW f \in DOMAIN in
    PROVE  \A x \in fields : [in EXCEPT ![f] = None][x] = IF x = f THEN None ELSE in[x]
  BY DEF IsRecord

LEMMA ReserveBlanked ==
    ASSUME NEW in, IsRecord(in, ReserveFields), IsRecord(in.lines, {})
    PROVE  /\ BlankReserve(in, in)
           /\ \A f \in Figures \cap DOMAIN in : BlankReserve([in EXCEPT ![f] = None], in)
           /\ \A id \in DOMAIN in.lines : BlankReserve([in EXCEPT !.lines[id] = None], in)
<1>1. BlankReserve(in, in)
  BY DEF BlankReserve, Blanker, BlankLines, IsRecord
<1>2. ASSUME NEW f \in Figures \cap DOMAIN in
      PROVE  BlankReserve([in EXCEPT ![f] = None], in)
  <2> DEFINE less == [in EXCEPT ![f] = None]
  <2>1. \A x \in ReserveFields : less[x] = IF x = f THEN None ELSE in[x]
    BY <1>2, FieldCleared
  <2> HIDE DEF less
  <2>2. BlankFigures \subseteq ReserveFields /\ ReserveGiven \subseteq ReserveFields /\ "lines" \in ReserveFields
    BY DEF BlankFigures, ReserveGiven, ReserveFields
  <2>3. f \notin ReserveGiven /\ f # "lines"
    BY <1>2 DEF Figures, ReserveGiven
  <2>4. less.lines = in.lines
    BY <2>1, <2>2, <2>3
  <2>5. Blanker(less, in, BlankFigures)
    BY <2>1, <2>2 DEF Blanker
  <2>6. \A x \in ReserveGiven : less[x] = in[x]
    BY <2>1, <2>2, <2>3
  <2> QED
    BY <1>1, <2>4, <2>5, <2>6 DEF BlankReserve, less
<1>3. ASSUME NEW id \in DOMAIN in.lines
      PROVE  BlankReserve([in EXCEPT !.lines[id] = None], in)
  <2> DEFINE lines == [in.lines EXCEPT ![id] = None]
             less == [in EXCEPT !.lines = lines]
  <2>1. [in EXCEPT !.lines[id] = None] = less
    OBVIOUS
  <2>2. BlankLines(lines, in.lines)
    BY DEF BlankLines, IsRecord
  <2> HIDE DEF lines
  <2>3. \A x \in ReserveFields : less[x] = IF x = "lines" THEN lines ELSE in[x]
    BY DEF IsRecord
  <2> HIDE DEF less
  <2>4. less.lines = lines
    BY <2>3 DEF ReserveFields
  <2>5. Blanker(less, in, BlankFigures)
    BY <2>3 DEF Blanker, BlankFigures, ReserveFields
  <2>6. \A x \in ReserveGiven : less[x] = in[x]
    BY <2>3 DEF ReserveGiven, ReserveFields
  <2>7. BlankReserve(less, in)
    BY <2>2, <2>4, <2>5, <2>6 DEF BlankReserve
  <2> QED
    BY <2>1, <2>7
<1> QED
  BY <1>1, <1>2, <1>3

LEMMA CapitalBlanked ==
    ASSUME NEW in, IsRecord(in, CapitalFields)
    PROVE  /\ BlankCapital(in, in)
           /\ \A f \in Figures \cap DOMAIN in : BlankCapital([in EXCEPT ![f] = None], in)
<1>1. BlankCapital(in, in)
  BY DEF BlankCapital, Blanker
<1>2. ASSUME NEW f \in Figures \cap DOMAIN in
      PROVE  BlankCapital([in EXCEPT ![f] = None], in)
  <2> DEFINE less == [in EXCEPT ![f] = None]
  <2>1. \A x \in CapitalFields : less[x] = IF x = f THEN None ELSE in[x]
    BY <1>2, FieldCleared
  <2> HIDE DEF less
  <2>2. CapitalFigures \subseteq CapitalFields /\ CapitalGiven \subseteq CapitalFields
    BY DEF CapitalFigures, CapitalGiven, CapitalFields
  <2>3. f \notin CapitalGiven
    BY <1>2 DEF Figures, CapitalGiven
  <2> QED
    BY <2>1, <2>2, <2>3 DEF BlankCapital, Blanker, less
<1> QED
  BY <1>1, <1>2

LEMMA IssuesBlanked ==
    ASSUME NEW in, IsFiniteSet(in), \A i \in in : IsRecord(i, IssueFields),
           NEW f \in {"books", "fullyPaid"}
    PROVE  LET less == {[i EXCEPT ![f] = None] : i \in in}
           IN  /\ IsFiniteSet(less)
               /\ \A j \in in : \E i \in less : BlankIssue(i, j)
               /\ less # {} => in # {}
<1> DEFINE less == {[i EXCEPT ![f] = None] : i \in in}
           g == [i \in in |-> [i EXCEPT ![f] = None]]
<1>1. IsFiniteSet({g[i] : i \in in})
  <2> HIDE DEF g
  <2> QED
    BY ImageIsFinite
<1>2. {g[i] : i \in in} = less
  OBVIOUS
<1>3. ASSUME NEW j \in in PROVE \E i \in less : BlankIssue(i, j)
  <2>1. \A x \in IssueFields : [j EXCEPT ![f] = None][x] = IF x = f THEN None ELSE j[x]
    BY <1>3 DEF IsRecord, IssueFields
  <2>2. BlankIssue([j EXCEPT ![f] = None], j)
    BY <2>1 DEF BlankIssue, IssueFields
  <2> QED
    BY <1>3, <2>2
<1> QED
  BY <1>1, <1>2, <1>3

LEMMA UnwillingChallenge ==
    ASSUME NEW in, IsRecord(in, ChallengeFields), NEW f \in Figures \cap DOMAIN in, NEW t,
           Answer("challenge", in, t) # "PASS"
    PROVE  Answer("challenge", [in EXCEPT ![f] = None], t) # "PASS"
<1> DEFINE less == [in EXCEPT ![f] = None]
<1>1. \A x \in ChallengeFields : less[x] = IF x = f THEN None ELSE in[x]
  BY FieldCleared
<1> HIDE DEF less
<1>2. \A x \in ChallengeFields \ {"tolerance"} : less[x] = in[x]
  BY <1>1 DEF ChallengeFields, Figures
<1>3. Answer("challenge", less, t) =
        challenge(in.figures, in.rules, in.asOf, in.vendorAsOf, in.vendor, less.tolerance).disposition
  BY <1>2 DEF Answer, ChallengeFields
<1>4. CASE less.tolerance = None
  <2>1. challenge(in.figures, in.rules, in.asOf, in.vendorAsOf, in.vendor, None).disposition # "PASS"
    BY Zenon DEF challenge, decide, When
  <2> QED
    BY <1>3, <1>4, <2>1 DEF less
<1>5. CASE less.tolerance # None
  <2>1. less.tolerance = in.tolerance
    BY <1>1, <1>5 DEF ChallengeFields
  <2> QED
    BY <1>3, <2>1 DEF Answer, less
<1> QED
  BY <1>4, <1>5

LEMMA Untold ==
    ASSUME NEW r \in Reviews, Answer(r.engine, r.in, r.table) # "PASS"
    PROVE  /\ \A id \in DOMAIN r.table.value :
                id \notin r.table.exhibit \ Modeled =>
                  Answer(r.engine, r.in, Without(r.table, id)) # "PASS"
           /\ \A in \in Unknown(r.engine, r.in) : Answer(r.engine, in, r.table) # "PASS"
<1> DEFINE full == r.in
           u == r.table
<1>1. Poorer(u, u) /\ PoorerPlaces(u, u)
  BY DEF Poorer, PoorerPlaces
<1>2. \A id : id \notin u.exhibit \ Modeled => Poorer(Without(u, id), u) /\ PoorerPlaces(Without(u, id), u)
  BY Shorter
<1>3. CASE r.engine = "reserve" /\ IsRecord(full, ReserveFields) /\ IsRecord(full.lines, {})
  <2>1. \A in, t : BlankReserve(in, full) /\ Poorer(t, u) => compute_reserve(in, t).disposition # "PASS"
    BY <1>3, ReserveKnowsMore DEF Answer
  <2>2. \A in \in Unknown("reserve", full) : BlankReserve(in, full)
    BY <1>3, ReserveBlanked DEF Unknown
  <2>3. BlankReserve(full, full)
    BY <1>3, ReserveBlanked
  <2>4. \A in, t : Answer("reserve", in, t) = compute_reserve(in, t).disposition
    BY DEF Answer
  <2> QED
    BY <1>1, <1>2, <1>3, <2>1, <2>2, <2>3, <2>4
<1>4. CASE r.engine = "capital" /\ IsRecord(full, CapitalFields)
  <2>1. \A in, t : BlankCapital(in, full) /\ Poorer(t, u) => compute_net_capital(in, t).disposition # "PASS"
    BY <1>4, CapitalKnowsMore DEF Answer
  <2>2. \A in \in Unknown("capital", full) : BlankCapital(in, full)
    BY <1>4, CapitalBlanked DEF Unknown
  <2>3. BlankCapital(full, full)
    BY <1>4, CapitalBlanked
  <2>4. \A in, t : Answer("capital", in, t) = compute_net_capital(in, t).disposition
    BY DEF Answer
  <2> QED
    BY <1>1, <1>2, <1>4, <2>1, <2>2, <2>3, <2>4
<1>5. CASE r.engine = "control" /\ IsFiniteSet(full) /\ \A i \in full : IsRecord(i, IssueFields)
  <2>1. \A in, t : /\ IsFiniteSet(in) /\ (in # {} => full # {})
                   /\ \A j \in full : \E i \in in : BlankIssue(i, j)
                   /\ PoorerPlaces(t, u)
                   => check_possession_or_control(in, t).disposition # "PASS"
    BY <1>5, ControlKnowsMore DEF Answer
  <2>2. \A in \in Unknown("control", full) :
           /\ IsFiniteSet(in) /\ (in # {} => full # {})
           /\ \A j \in full : \E i \in in : BlankIssue(i, j)
    <3>1. Unknown("control", full) = {{[i EXCEPT !.books = None] : i \in full},
                                      {[i EXCEPT !.fullyPaid = None] : i \in full}}
      BY DEF Unknown
    <3>2. \A f \in {"books", "fullyPaid"} :
            LET less == {[i EXCEPT ![f] = None] : i \in full}
            IN  /\ IsFiniteSet(less)
                /\ \A j \in full : \E i \in less : BlankIssue(i, j)
                /\ less # {} => full # {}
      BY <1>5, IssuesBlanked
    <3> QED
      BY <3>1, <3>2
  <2>3. \A j \in full : BlankIssue(j, j)
    BY DEF BlankIssue
  <2>4. \A in, t : Answer("control", in, t) = check_possession_or_control(in, t).disposition
    BY DEF Answer
  <2> QED
    BY <1>1, <1>2, <1>5, <2>1, <2>2, <2>3, <2>4
<1>6. CASE r.engine = "challenge" /\ IsRecord(full, ChallengeFields)
  <2>1. \A t : Answer("challenge", full, t) # "PASS"
    BY <1>6 DEF Answer
  <2>2. Unknown("challenge", full) = {[full EXCEPT ![f] = None] : f \in Figures \cap DOMAIN full}
    BY DEF Unknown
  <2>3. \A f \in Figures \cap DOMAIN full : Answer("challenge", [full EXCEPT ![f] = None], u) # "PASS"
    BY <1>6, <2>1, UnwillingChallenge
  <2> QED
    BY <1>6, <2>1, <2>2, <2>3
<1> QED
  BY <1>3, <1>4, <1>5, <1>6, ReviewsAssumption

-----------------------------------------------------------------------------
\* What was asked was answered by the engine it was asked of.
AskedIsAnswered ==
    asked # None =>
      \E r \in Reviews : asked = [of |-> r, disposition |-> Answer(r.engine, r.in, r.table)]

LEMMA AnswersStand == Spec => []AskedIsAnswered
<1>1. Init => AskedIsAnswered
  BY DEF Init, AskedIsAnswered
<1>2. AskedIsAnswered /\ [Next]_vars => AskedIsAnswered'
  <2> SUFFICES ASSUME AskedIsAnswered, [Next]_vars PROVE AskedIsAnswered'
    OBVIOUS
  <2>1. CASE Review
    BY <2>1, Zenon DEF Review, AskedIsAnswered
  <2>2. CASE UNCHANGED asked
    BY <2>2 DEF AskedIsAnswered
  <2>3. Next /\ ~Review => UNCHANGED asked
    BY DEF Next, Book, Protect, Restate, NextDay, Wait, CountSecurities, Validate
  <2> QED
    BY <2>1, <2>2, <2>3 DEF vars
<1> QED
  BY <1>1, <1>2, PTL DEF Spec

\* Knowing less never turns a hold into a pass (decide; "a missing rule is never a
\* default"), whatever the engine, its inputs and its table.
THEOREM LessIsNeverMore == Spec => []IgnoranceNeverPasses
<1>1. AskedIsAnswered => IgnoranceNeverPasses
  <2> SUFFICES ASSUME AskedIsAnswered, asked # None, asked.disposition # "PASS"
               PROVE  LET r == asked.of
                      IN  /\ \A id \in DOMAIN r.table.value :
                               id \notin r.table.exhibit \ Modeled =>
                                 Answer(r.engine, r.in, Without(r.table, id)) # "PASS"
                          /\ \A in \in Unknown(r.engine, r.in) : Answer(r.engine, in, r.table) # "PASS"
    BY Zenon DEF IgnoranceNeverPasses
  <2>1. PICK r \in Reviews : asked = [of |-> r, disposition |-> Answer(r.engine, r.in, r.table)]
    BY DEF AskedIsAnswered
  <2>2. asked.of = r /\ Answer(r.engine, r.in, r.table) # "PASS"
    BY <2>1
  <2> QED
    BY <2>2, Untold, Zenon
<1> QED
  BY <1>1, AnswersStand, PTL

-----------------------------------------------------------------------------
\* Net capital, of a firm with equities on the alternative standard.
LEMMA BothDecided ==
    ASSUME NEW V, NEW p \in Seq(V), NEW q \in Seq(V),
           \A k \in DOMAIN p : p[k].rules = {}, \A k \in DOMAIN q : q[k].rules = {}
    PROVE  Disposed(p \o q) \in {"PASS", "HOLD"}
<1> DEFINE s == p \o q
<1>1. Len(p) \in Nat /\ Len(q) \in Nat /\ DOMAIN p = 1..Len(p) /\ DOMAIN q = 1..Len(q)
  OBVIOUS
<1>2. /\ DOMAIN s = 1..(Len(p) + Len(q))
      /\ \A k \in 1..(Len(p) + Len(q)) : s[k] = IF k <= Len(p) THEN p[k] ELSE q[k - Len(p)]
  BY ConcatProperties
<1> HIDE DEF s
<1>3. \A k \in DOMAIN s : s[k].rules = {}
  <2> TAKE k \in DOMAIN s
  <2>1. \/ k \in DOMAIN p /\ s[k] = p[k]
        \/ k - Len(p) \in DOMAIN q /\ s[k] = q[k - Len(p)]
    BY <1>1, <1>2
  <2> QED
    BY <2>1
<1>4. AllRules(s) = {}
  BY <1>3 DEF AllRules
<1> QED
  BY <1>4 DEF Disposed, decide, s

LEMMA CapitalDecided ==
    ASSUME NEW in, NEW t,
           AdjustedOf(in).rules = {}, HaircutOf(in, t).rules = {}, RatioOf(in, t).rules = {},
           WarningsOf(in, t).rules = {}, BreachOf(in, t).rules = {}
    PROVE  compute_net_capital(in, t).disposition \in {"PASS", "HOLD"}
<1> DEFINE a == AdjustedOf(in)
           b == HaircutOf(in, t)
           c == RatioOf(in, t)
           d == WarningsOf(in, t)
           e == BreachOf(in, t)
<1>1. compute_net_capital(in, t) =
        [disposition |-> Disposed(<<a, b, c>> \o <<d, e>>), capital |-> CapitalOf(in, t),
         minimum |-> MinimumOf(in, t)]
  BY Zenon DEF compute_net_capital, WithHaircuts, NetCapitalResult, AdjustedOf, HaircutOf, RatioOf,
         CapitalOf, MinimumOf, WarningsOf, BreachOf
<1> HIDE DEF a, b, c, d, e
<1>2. compute_net_capital(in, t).disposition = Disposed(<<a, b, c>> \o <<d, e>>)
  BY <1>1
<1>3. <<a, b, c>> \in Seq({a, b, c, d, e}) /\ <<d, e>> \in Seq({a, b, c, d, e})
  OBVIOUS
<1>4. /\ a.rules = {} /\ b.rules = {} /\ c.rules = {} /\ d.rules = {} /\ e.rules = {}
  BY DEF a, b, c, d, e
<1>5. \A k \in DOMAIN <<a, b, c>> : <<a, b, c>>[k].rules = {}
  <2>1. DOMAIN <<a, b, c>> = {1, 2, 3}
    OBVIOUS
  <2> QED
    BY <1>4, <2>1
<1>6. \A k \in DOMAIN <<d, e>> : <<d, e>>[k].rules = {}
  <2>1. DOMAIN <<d, e>> = {1, 2}
    OBVIOUS
  <2> QED
    BY <1>4, <2>1
<1> QED
  BY <1>2, <1>3, <1>5, <1>6, BothDecided, Zenon

\* What the firm's capital is computed from.
EquityFirm(in, w, debits) ==
    /\ in.worth = w /\ in.additions = {} /\ in.deductions = {} /\ in.debits = debits
    /\ in.standard = "alternative" /\ in.category = "carrying" /\ in.monthly = FALSE
    /\ in.loaned = 0 /\ in.borrowed = 0
    /\ \A p \in in.positions : p.class = "equity"
CapitalLoaded(t) ==
    /\ CapitalRules \subseteq DOMAIN t.value /\ "leverage_warning" \in DOMAIN t.value
    /\ \A id \in DOMAIN t.value : t.value[id] \in Nat
LEMMA CapitalLoads ==
    ASSUME NEW t, CapitalLoaded(t), NEW ids \in SUBSET (CapitalRules \cup {"leverage_warning"})
    PROVE  /\ Unloaded(t, ids) = {}
           /\ \A id \in ids : Loaded(t, id) /\ Value(t, id) = t.value[id] /\ Value(t, id) \in Nat
  BY DEF CapitalLoaded, Unloaded, Loaded, Value

LEMMA NoAmount == Amount({}) = 0
<1> DEFINE g == [a \in {} |-> a.amount]
<1>1. DOMAIN g = {}
  OBVIOUS
<1>2. Amount({}) = SumOf(g)
  BY Zenon DEF Amount
<1> HIDE DEF g
<1> QED
  BY <1>1, <1>2, SumOfNone, Zenon

LEMMA FirmAdjusted ==
    ASSUME NEW w \in Int, NEW debits, NEW in, EquityFirm(in, w, debits)
    PROVE  AdjustedOf(in) = Found(w, {}, {}, {})
<1>1. in.worth = w /\ in.additions = {} /\ in.deductions = {}
  BY Zenon DEF EquityFirm
<1>2. w # None
  BY NoneIsNoNumber
<1>3. AdjustedOf(in) = Adjusted(w, {}, {})
  BY <1>1, Zenon DEF AdjustedOf
<1>4. Adjusted(w, {}, {}) = Found(w + Amount({}) - Amount({}), {}, {}, {})
  BY <1>2 DEF Adjusted, When
<1>5. w + Amount({}) - Amount({}) = w
  BY NoAmount
<1> QED
  BY <1>3, <1>4, <1>5, Zenon

LEMMA FirmHaircut ==
    ASSUME NEW w, NEW debits, NEW in, EquityFirm(in, w, debits), NEW t, CapitalLoaded(t),
           NEW h \in Int, in.positions = {} => h = 0,
           EquityDeductions(in.positions, Values(t, EquityRules)) = h
    PROVE  HaircutOf(in, t) = Found(h, {}, {}, {})
<1> DEFINE P == in.positions
<1>1. \A p \in P : p.class = "equity"
  BY Zenon DEF EquityFirm
<1>2. /\ {p.class : p \in P} \ AssetClasses = {} /\ OfClass("government", P) = {}
      /\ OfClass("equity", P) = P
  BY <1>1 DEF AssetClasses, OfClass
<1>3. HaircutOf(in, t) = HaircutsOf({}, GovernmentHaircut(in, {}, t), EquityHaircut(P, t))
  BY <1>2, Zenon DEF HaircutOf, Haircuts
<1>4. GovernmentHaircut(in, {}, t) = Found(0, {}, {}, {})
  BY Zenon DEF GovernmentHaircut
<1> HIDE DEF P
<1>5. EquityHaircut(P, t) = Found(h, {}, {}, {})
  <2>1. Unloaded(t, EquityRules) = {}
    <3>1. EquityRules \subseteq CapitalRules \cup {"leverage_warning"}
      BY DEF EquityRules, CapitalRules
    <3> QED
      BY <3>1, CapitalLoads
  <2> QED
    BY <2>1, Zenon DEF EquityHaircut, P
<1>6. h # None /\ 0 # None /\ 0 + h = h
  BY NoneIsNoNumber
<1> QED
  BY <1>3, <1>4, <1>5, <1>6 DEF HaircutsOf, Found, AllKnown

LEMMA PercentIsNat ==
    ASSUME NEW r \in Nat, NEW a \in Nat
    PROVE  Percent(r, a) \in Nat
<1> DEFINE p == r * a
<1>1. p \in Nat
  OBVIOUS
<1>2. Percent(r, a) = p \div 100
  BY DEF Percent
<1> HIDE DEF p
<1> QED
  BY <1>1, <1>2

LEMMA FirmRatio ==
    ASSUME NEW w, NEW debits \in Int, NEW in, EquityFirm(in, w, debits), NEW t, CapitalLoaded(t)
    PROVE  RatioOf(in, t) = Found(Larger(Value(t, "alternative_floor"),
                                         Percent(Value(t, "alternative_percent"), debits)), {}, {}, {})
<1>1. in.standard = "alternative" /\ in.debits = debits /\ debits # None
  BY NoneIsNoNumber DEF EquityFirm
<1>2. Unloaded(t, {"alternative_floor", "alternative_percent"}) = {}
  <2>1. {"alternative_floor", "alternative_percent"} \subseteq CapitalRules \cup {"leverage_warning"}
    BY DEF CapitalRules
  <2> QED
    BY <2>1, CapitalLoads
<1> QED
  BY <1>1, <1>2 DEF RatioOf, RatioRequirement, Alternative, When

\* What an early warning finds.
LEMMA WarnedIs ==
    ASSUME NEW name, NEW measure \in Int, NEW threshold \in Int
    PROVE  /\ Warned(name, measure, threshold, TRUE) = {} <=> ~(measure < threshold)
           /\ Warned(name, measure, threshold, FALSE) = {} <=> ~(measure > threshold)
  BY NoneIsNoNumber DEF Warned, AllKnown, When
LEMMA TimesIs ==
    ASSUME NEW t, CapitalLoaded(t), NEW rule \in CapitalRules \cup {"leverage_warning"}, NEW amount \in Int
    PROVE  Times(rule, amount, t) = Percent(Value(t, rule), amount) /\ Times(rule, amount, t) \in Int
<1>1. {rule} \in SUBSET (CapitalRules \cup {"leverage_warning"})
  OBVIOUS
<1>2. Loaded(t, rule) /\ Value(t, rule) \in Nat
  <2>1. \A id \in {rule} : Loaded(t, id) /\ Value(t, id) \in Nat
    BY <1>1, CapitalLoads, Zenon
  <2> QED
    BY <2>1
<1> QED
  <2> DEFINE v == Value(t, rule)
  <2>1. v \in Int /\ amount # None
    BY <1>2, NoneIsNoNumber
  <2>2. Percent(v, amount) \in Int
    BY <2>1, PercentType, Zenon
  <2> QED
    BY <1>2, <2>1, <2>2, Zenon DEF Times

LEMMA FirmWarnings ==
    ASSUME NEW w \in Int, NEW debits \in Int, NEW in, EquityFirm(in, w, debits), NEW t, CapitalLoaded(t),
           NEW capital \in Int, NEW minimum \in Int
    PROVE  LET e == EarlyWarnings(in, t, capital, w, minimum)
           IN  /\ e.rules = {}
               /\ Clean(e) <=>
                    /\ ~(capital < Percent(Value(t, "alternative_warning"), debits))
                    /\ ~(capital < Percent(Value(t, "minimum_warning"), minimum))
                    /\ ~(0 > Percent(Value(t, "leverage_warning"), w))
<1> DEFINE e == EarlyWarnings(in, t, capital, w, minimum)
           low == Warned("alternative_warning", capital, Times("alternative_warning", debits, t), TRUE)
           least == Warned("minimum_warning", capital, Times("minimum_warning", minimum, t), TRUE)
           lent(a) == Warned(a, in[a], Times("leverage_warning", w, t), FALSE)
<1>1. /\ in.standard = "alternative" /\ in.debits = debits /\ in.monthly = FALSE
      /\ in.loaned = 0 /\ in.borrowed = 0
  BY Zenon DEF EquityFirm
<1>2. \A a \in LendingActivity : in[a] = 0
  BY <1>1 DEF LendingActivity
<1>3. 0 # None /\ FALSE # None
  <2>1. 0 \in Int
    OBVIOUS
  <2> QED
    BY <2>1, NoneIsNoNumber, Zenon
<1>4. Unloaded(t, {"alternative_warning", "minimum_warning"} \cup {"leverage_warning"}) = {}
  <2>1. {"alternative_warning", "minimum_warning"} \cup {"leverage_warning"}
          \subseteq CapitalRules \cup {"leverage_warning"}
    BY DEF CapitalRules
  <2> QED
    BY <2>1, CapitalLoads
<1>5. Times("alternative_warning", in.debits, t) = Times("alternative_warning", debits, t)
  BY <1>1, Zenon
<1>6. e = Found(None, {}, {}, low \cup least \cup {a \in LendingActivity : lent(a) # {}})
  <2>1. When(in.monthly # TRUE, "leverage_warning") = {"leverage_warning"}
        /\ When(in.monthly = None, "reports_lending_activity_monthly") = {}
    BY <1>1, <1>3 DEF When
  <2>2. {a \in LendingActivity : in.monthly # TRUE /\ in[a] = None} = {}
    BY <1>2, <1>3
  <2>3. {a \in LendingActivity : in.monthly # TRUE /\ lent(a) # {}} = {a \in LendingActivity : lent(a) # {}}
    BY <1>1
  <2>4. Alternative(in)
    BY <1>1, Zenon DEF Alternative
  <2>5. e = Found(None,
                  Unloaded(t, {"alternative_warning", "minimum_warning"}
                                \cup When(in.monthly # TRUE, "leverage_warning")),
                  When(in.monthly = None, "reports_lending_activity_monthly")
                    \cup {a \in LendingActivity : in.monthly # TRUE /\ in[a] = None},
                  low \cup least \cup {a \in LendingActivity : in.monthly # TRUE /\ lent(a) # {}})
    BY <1>5, <2>4, Zenon DEF EarlyWarnings
  <2> HIDE DEF e, low, least, lent
  <2>6. {} \cup {} = {}
    OBVIOUS
  <2> QED
    BY <1>4, <2>1, <2>2, <2>3, <2>5, <2>6, Zenon
<1>7. /\ low = {} <=> ~(capital < Percent(Value(t, "alternative_warning"), debits))
      /\ least = {} <=> ~(capital < Percent(Value(t, "minimum_warning"), minimum))
  <2>1. {"alternative_warning", "minimum_warning"} \subseteq CapitalRules
    BY DEF CapitalRules
  <2>2. /\ Times("alternative_warning", debits, t) = Percent(Value(t, "alternative_warning"), debits)
        /\ Times("alternative_warning", debits, t) \in Int
        /\ Times("minimum_warning", minimum, t) = Percent(Value(t, "minimum_warning"), minimum)
        /\ Times("minimum_warning", minimum, t) \in Int
    BY <2>1, TimesIs
  <2> QED
    BY <2>2, WarnedIs
<1>8. {a \in LendingActivity : lent(a) # {}} = {} <=> ~(0 > Percent(Value(t, "leverage_warning"), w))
  <2> DEFINE m == Times("leverage_warning", w, t)
  <2>1. m = Percent(Value(t, "leverage_warning"), w) /\ m \in Int
    BY TimesIs
  <2> HIDE DEF m
  <2>2. \A a \in LendingActivity : Warned(a, in[a], m, FALSE) = {} <=> ~(0 > m)
    <3>1. \A a : Warned(a, 0, m, FALSE) = {} <=> ~(0 > m)
      <4> TAKE a
      <4>1. 0 \in Int
        OBVIOUS
      <4> QED
        BY <2>1, <4>1, WarnedIs, Zenon
    <3> QED
      BY <1>2, <3>1, Zenon
  <2>3. "loaned" \in LendingActivity
    BY DEF LendingActivity
  <2>4. {a \in LendingActivity : Warned(a, in[a], m, FALSE) # {}} = {} <=> ~(0 > m)
    BY <2>2, <2>3
  <2>5. {a \in LendingActivity : lent(a) # {}} = {a \in LendingActivity : Warned(a, in[a], m, FALSE) # {}}
    BY Zenon DEF m
  <2> QED
    BY <2>1, <2>4, <2>5, Zenon
<1> HIDE DEF low, least, lent, e
<1>9. e.rules = {} /\ e.inputs = {}
      /\ e.breaches = low \cup least \cup {a \in LendingActivity : lent(a) # {}}
  BY <1>6 DEF Found
<1> QED
  BY <1>7, <1>8, <1>9 DEF Clean, e

LEMMA FirmBreach ==
    ASSUME NEW w, NEW debits, NEW in, EquityFirm(in, w, debits), NEW t, CapitalLoaded(t),
           NEW capital \in Int, NEW ratio \in Int
    PROVE  LET b == Found(None, Unloaded(t, {"carrying"}), {},
                          CapitalBreaches(in, t, capital, Value(t, "carrying"), ratio))
           IN  /\ b.rules = {}
               /\ Clean(b) <=> ~(capital < Value(t, "carrying")) /\ ~(capital < ratio)
<1>1. in.standard = "alternative"
  BY Zenon DEF EquityFirm
<1>2. Unloaded(t, {"carrying"}) = {} /\ Value(t, "carrying") \in Int
  <2>1. {"carrying"} \subseteq CapitalRules \cup {"leverage_warning"}
    BY DEF CapitalRules
  <2> QED
    BY <2>1, CapitalLoads
<1>3. Alternative(in) /\ AllKnown({capital, Value(t, "carrying")}) /\ AllKnown({capital, ratio})
  BY <1>1, <1>2, NoneIsNoNumber DEF Alternative, AllKnown
<1> DEFINE B == CapitalBreaches(in, t, capital, Value(t, "carrying"), ratio)
<1>4. B = {} <=> ~(capital < Value(t, "carrying")) /\ ~(capital < ratio)
  BY <1>3 DEF CapitalBreaches, When
<1> HIDE DEF B
<1> QED
  BY <1>2, <1>4 DEF Found, Clean, B

\* The firm's computation holds exactly where what the books require says so.
LEMMA FirmCapital ==
    ASSUME NEW w \in Int, NEW debits \in Int, NEW in, EquityFirm(in, w, debits),
           NEW t, CapitalLoaded(t), NEW h \in Nat, in.positions = {} => h = 0,
           EquityDeductions(in.positions, Values(t, EquityRules)) = h,
           NEW capital, capital = w - h, NEW ratio,
           ratio = Larger(Value(t, "alternative_floor"),
                          Percent(Value(t, "alternative_percent"), debits))
    PROVE  compute_net_capital(in, t).disposition =
             IF \/ capital < Value(t, "carrying")
                \/ capital < ratio
                \/ capital < Percent(Value(t, "alternative_warning"), debits)
                \/ capital < Percent(Value(t, "minimum_warning"), Larger(ratio, Value(t, "carrying")))
               THEN "HOLD" ELSE "PASS"
<1> DEFINE carrying == Value(t, "carrying")
           minimum == Larger(ratio, carrying)
<1>1. /\ carrying \in Nat /\ Value(t, "alternative_floor") \in Nat
      /\ Value(t, "alternative_percent") \in Nat /\ Value(t, "leverage_warning") \in Nat
  <2>1. {"carrying", "alternative_floor", "alternative_percent", "leverage_warning"}
          \subseteq CapitalRules \cup {"leverage_warning"}
    BY DEF CapitalRules
  <2> QED
    BY <2>1, CapitalLoads
<1>2. capital \in Int /\ ratio \in Int
  <2> DEFINE p == Percent(Value(t, "alternative_percent"), debits)
  <2>1. p \in Int
    BY <1>1, PercentType
  <2> HIDE DEF p
  <2>2. Larger(Value(t, "alternative_floor"), p) \in Int
    BY <1>1, <2>1 DEF Larger
  <2> QED
    BY <2>2 DEF p
<1>3. minimum \in Int
  BY <1>1, <1>2 DEF Larger
<1>4. AdjustedOf(in) = Found(w, {}, {}, {})
  BY FirmAdjusted, Zenon
<1>5. HaircutOf(in, t) = Found(h, {}, {}, {})
  BY FirmHaircut
<1>6. RatioOf(in, t) = Found(ratio, {}, {}, {})
  BY FirmRatio, Zenon
<1>7. in.category = "carrying"
  BY Zenon DEF EquityFirm
<1>8. w # None /\ h # None /\ ratio # None /\ carrying # None
  BY <1>1, <1>2, NoneIsNoNumber
<1>9. AdjustedOf(in).value = w /\ HaircutOf(in, t).value = h /\ RatioOf(in, t).value = ratio
  <2>1. \A v : Found(v, {}, {}, {}).value = v
    BY DEF Found
  <2> QED
    BY <1>4, <1>5, <1>6, <2>1, Zenon
<1>10. CapitalOf(in, t) = capital
  <2>1. AllKnown({w, h})
    BY <1>8 DEF AllKnown
  <2>2. CapitalOf(in, t) = w - h
    BY <1>9, <2>1, Zenon DEF CapitalOf
  <2> QED
    BY <2>2
<1> HIDE DEF carrying
<1>11. MinimumOf(in, t) = minimum
  <2>1. AllKnown({ratio, carrying})
    BY <1>8 DEF AllKnown
  <2> QED
    BY <1>7, <1>9, <2>1, Zenon DEF MinimumOf, carrying
<1>12. WarningsOf(in, t) = EarlyWarnings(in, t, capital, w, minimum)
  BY <1>9, <1>10, <1>11, Zenon DEF WarningsOf
<1>13. BreachOf(in, t) = Found(None, Unloaded(t, {"carrying"}), {},
                               CapitalBreaches(in, t, capital, carrying, ratio))
  BY <1>7, <1>9, <1>10, Zenon DEF BreachOf, carrying
<1> HIDE DEF minimum
<1>14. /\ WarningsOf(in, t).rules = {}
       /\ Clean(WarningsOf(in, t)) <=>
            /\ ~(capital < Percent(Value(t, "alternative_warning"), debits))
            /\ ~(capital < Percent(Value(t, "minimum_warning"), minimum))
            /\ ~(0 > Percent(Value(t, "leverage_warning"), w))
  <2> DEFINE e == EarlyWarnings(in, t, capital, w, minimum)
  <2>1. /\ e.rules = {}
        /\ Clean(e) <=>
             /\ ~(capital < Percent(Value(t, "alternative_warning"), debits))
             /\ ~(capital < Percent(Value(t, "minimum_warning"), minimum))
             /\ ~(0 > Percent(Value(t, "leverage_warning"), w))
    BY <1>2, <1>3, FirmWarnings
  <2> QED
    BY <1>12, <2>1, Zenon
<1>15. /\ BreachOf(in, t).rules = {}
       /\ Clean(BreachOf(in, t)) <=> ~(capital < carrying) /\ ~(capital < ratio)
  <2> DEFINE b == Found(None, Unloaded(t, {"carrying"}), {},
                        CapitalBreaches(in, t, capital, carrying, ratio))
  <2>1. b.rules = {} /\ (Clean(b) <=> ~(capital < carrying) /\ ~(capital < ratio))
    BY <1>2, FirmBreach DEF carrying
  <2> QED
    BY <1>13, <2>1, Zenon
<1>16. /\ Clean(AdjustedOf(in)) /\ Clean(HaircutOf(in, t)) /\ Clean(RatioOf(in, t))
       /\ AdjustedOf(in).rules = {} /\ HaircutOf(in, t).rules = {} /\ RatioOf(in, t).rules = {}
  <2>1. \A v : Clean(Found(v, {}, {}, {})) /\ Found(v, {}, {}, {}).rules = {}
    BY FoundParts DEF Clean, Found
  <2> QED
    BY <1>4, <1>5, <1>6, <2>1, Zenon
<1>17. compute_net_capital(in, t).disposition \in {"PASS", "HOLD"}
  BY <1>14, <1>15, <1>16, CapitalDecided, Zenon
<1>18. ~(capital < carrying) => ~(0 > Percent(Value(t, "leverage_warning"), w))
  <2> HAVE ~(capital < carrying)
  <2>1. w \in Nat
    BY <1>1, <1>2 DEF carrying
  <2>2. Percent(Value(t, "leverage_warning"), w) \in Nat
    BY <1>1, <2>1, PercentIsNat
  <2> DEFINE p == Percent(Value(t, "leverage_warning"), w)
  <2>3. p \in Nat
    BY <2>2
  <2> HIDE DEF p
  <2>4. ~(0 > p)
    BY <2>3
  <2> QED
    BY <2>4 DEF p
<1>19. compute_net_capital(in, t).disposition = "PASS" <=>
         Clean(WarningsOf(in, t)) /\ Clean(BreachOf(in, t))
  BY <1>16, CapitalPasses, Zenon
<1>20. compute_net_capital(in, t).disposition = "PASS" <=>
         /\ ~(capital < carrying) /\ ~(capital < ratio)
         /\ ~(capital < Percent(Value(t, "alternative_warning"), debits))
         /\ ~(capital < Percent(Value(t, "minimum_warning"), minimum))
  BY <1>14, <1>15, <1>18, <1>19, Zenon
<1> QED
  BY <1>17, <1>20 DEF carrying, minimum

-----------------------------------------------------------------------------
\* The books as the second derivation reads them, and as the engines' inputs do.
Owners(lines) == {l.account : l \in Customers(lines)}
CashOf(lines, a) == Total({l \in Customers(lines) : l.account = a /\ l.side = "money"})
HeldOf(lines, a, i) ==
    Total({l \in Customers(lines) : l.account = a /\ l.side = "ownership" /\ l.issue = i})
Street(lines, i) ==
    Total({l \in lines : l.side = "location" /\ l.issue = i /\ l.type \in {"DTC", "BANK_CONTROL"}})
OwnedOf(lines, i) == Total({l \in lines : l.side = "ownership" /\ l.issue = i})

LEMMA TallyIs == \A S : Tally(S) = Total(S)
  BY Zenon DEF Tally, Total

LEMMA ViewIs ==
    ASSUME NEW lines
    PROVE  read_books(lines) =
             [cash |-> [a \in Owners(lines) |-> CashOf(lines, a)],
              held |-> [a \in Owners(lines) |-> [i \in Issues |-> HeldOf(lines, a, i)]],
              owned |-> [i \in Issues |-> OwnedOf(lines, i)],
              control |-> [i \in Issues |-> Larger(Street(lines, i), -Street(lines, i))]]
<1> DEFINE C == {l.account : l \in {m \in lines : CustomerLine(m)}}
           of(side, i) == {l \in lines : l.side = side /\ l.issue = i}
           cash(a) == {l \in lines : CustomerLine(l) /\ l.account = a /\ l.side = "money"}
           shares(a, i) == {l \in of("ownership", i) : CustomerLine(l) /\ l.account = a}
           lies(i) == {l \in of("location", i) : l.type \in {"DTC", "BANK_CONTROL"}}
<1>1. read_books(lines) =
        [cash |-> [a \in C |-> Tally(cash(a))],
         held |-> [a \in C |-> [i \in Issues |-> Tally(shares(a, i))]],
         owned |-> [i \in Issues |-> Tally(of("ownership", i))],
         control |-> [i \in Issues |-> Larger(Tally(lies(i)), -Tally(lies(i)))]]
  BY Zenon DEF read_books
<1>2. C = Owners(lines)
  BY DEF CustomerLine, Owners, Customers, CustomerTypes
<1>3. \A a : Tally(cash(a)) = CashOf(lines, a)
  <2> TAKE a
  <2>1. cash(a) = {l \in Customers(lines) : l.account = a /\ l.side = "money"}
    BY DEF CustomerLine, Customers, CustomerTypes
  <2> QED
    BY <2>1, TallyIs, Zenon DEF CashOf
<1>4. \A a, i : Tally(shares(a, i)) = HeldOf(lines, a, i)
  <2> TAKE a, i
  <2>1. shares(a, i) = {l \in Customers(lines) : l.account = a /\ l.side = "ownership" /\ l.issue = i}
    BY DEF CustomerLine, Customers, CustomerTypes
  <2> QED
    BY <2>1, TallyIs, Zenon DEF HeldOf
<1>5. \A i : Tally(of("ownership", i)) = OwnedOf(lines, i)
  BY TallyIs, Zenon DEF OwnedOf
<1>6. \A i : Tally(lies(i)) = Street(lines, i)
  <2> TAKE i
  <2>1. lies(i) = {l \in lines : l.side = "location" /\ l.issue = i /\ l.type \in {"DTC", "BANK_CONTROL"}}
    OBVIOUS
  <2> QED
    BY <2>1, TallyIs, Zenon DEF Street
<1> HIDE DEF C, of, cash, shares, lies
<1>7. [a \in C |-> Tally(cash(a))] = [a \in Owners(lines) |-> CashOf(lines, a)]
  BY <1>2, <1>3
<1>8. [a \in C |-> [i \in Issues |-> Tally(shares(a, i))]]
        = [a \in Owners(lines) |-> [i \in Issues |-> HeldOf(lines, a, i)]]
  BY <1>2, <1>4
<1>9. [i \in Issues |-> Tally(of("ownership", i))] = [i \in Issues |-> OwnedOf(lines, i)]
  BY <1>5
<1>10. [i \in Issues |-> Larger(Tally(lies(i)), -Tally(lies(i)))]
         = [i \in Issues |-> Larger(Street(lines, i), -Street(lines, i))]
  BY <1>6
<1> QED
  BY <1>1, <1>7, <1>8, <1>9, <1>10

LEMMA AccountIs ==
    ASSUME NEW lines, NEW a
    PROVE  MarginAccount(lines, a) =
             [id |-> a, cash |-> CashOf(lines, a), held |-> [i \in Issues |-> HeldOf(lines, a, i)]]
<1> DEFINE of == {l \in Customers(lines) : l.account = a}
           cash == {l \in of : l.side = "money"}
           shares(i) == {l \in of : l.side = "ownership" /\ l.issue = i}
<1>1. MarginAccount(lines, a) =
        [id |-> a, cash |-> Total(cash), held |-> [i \in Issues |-> Total(shares(i))]]
  BY Zenon DEF MarginAccount
<1>2. Total(cash) = CashOf(lines, a)
  <2>1. cash = {l \in Customers(lines) : l.account = a /\ l.side = "money"}
    OBVIOUS
  <2> QED
    BY <2>1, Zenon DEF CashOf
<1>3. \A i : Total(shares(i)) = HeldOf(lines, a, i)
  <2> TAKE i
  <2>1. shares(i) = {l \in Customers(lines) : l.account = a /\ l.side = "ownership" /\ l.issue = i}
    OBVIOUS
  <2> QED
    BY <2>1, Zenon DEF HeldOf
<1> HIDE DEF cash, shares
<1>4. [i \in Issues |-> Total(shares(i))] = [i \in Issues |-> HeldOf(lines, a, i)]
  BY <1>3
<1> QED
  BY <1>1, <1>2, <1>4

LEMMA SharesAreNumbers ==
    ASSUME NEW lines, LinesTyped(lines), NEW a, NEW i
    PROVE  /\ CashOf(lines, a) \in Int /\ HeldOf(lines, a, i) \in Int
           /\ OwnedOf(lines, i) \in Int /\ Street(lines, i) \in Int
<1>1. \A S \in SUBSET lines : Total(S) \in Int
  BY TotalType
<1> DEFINE p == {l \in Customers(lines) : l.account = a /\ l.side = "money"}
           q == {l \in Customers(lines) : l.account = a /\ l.side = "ownership" /\ l.issue = i}
           r == {l \in lines : l.side = "ownership" /\ l.issue = i}
           s == {l \in lines : l.side = "location" /\ l.issue = i /\ l.type \in {"DTC", "BANK_CONTROL"}}
<1>2. p \in SUBSET lines /\ q \in SUBSET lines /\ r \in SUBSET lines /\ s \in SUBSET lines
  BY DEF Customers
<1>3. /\ CashOf(lines, a) = Total(p) /\ HeldOf(lines, a, i) = Total(q)
      /\ OwnedOf(lines, i) = Total(r) /\ Street(lines, i) = Total(s)
  BY Zenon DEF CashOf, HeldOf, OwnedOf, Street
<1> HIDE DEF p, q, r, s
<1> QED
  BY <1>1, <1>2, <1>3, Zenon

LEMMA OwnersAre ==
    ASSUME NEW lines, LinesTyped(lines)
    PROVE  /\ IsFiniteSet(Owners(lines))
           /\ project_margin_accounts(lines) = {MarginAccount(lines, a) : a \in Owners(lines)}
<1> DEFINE own == Customers(lines)
           f == [l \in own |-> l.account]
<1>1. IsFiniteSet(own)
  BY FS_Subset DEF LinesTyped, Customers
<1>2. {f[l] : l \in own} = Owners(lines)
  BY DEF Owners
<1> HIDE DEF own, f
<1>3. IsFiniteSet({f[l] : l \in own})
  BY <1>1, ImageIsFinite
<1> QED
  BY <1>2, <1>3, Zenon DEF project_margin_accounts, Owners

\* A sum over the accounts is one over their owners.
LEMMA SumOverOwners ==
    ASSUME NEW lines, LinesTyped(lines), NEW h, NEW g,
           \A a \in Owners(lines) : g[a] \in Int /\ h[MarginAccount(lines, a)] = g[a]
    PROVE  Sum(h, project_margin_accounts(lines)) = Sum(g, Owners(lines))
<1> DEFINE f == [a \in Owners(lines) |-> MarginAccount(lines, a)]
           S == Owners(lines)
<1>1. IsFiniteSet(S) /\ project_margin_accounts(lines) = {MarginAccount(lines, a) : a \in S}
  BY OwnersAre, Zenon
<1>2. \A a \in S : f[a] = MarginAccount(lines, a)
  OBVIOUS
<1>3. \A a : MarginAccount(lines, a).id = a
  BY DEF MarginAccount
<1> HIDE DEF f, S
<1>4. \A a, b \in S : f[a] = f[b] => a = b
  <2> TAKE a \in S, b \in S
  <2> HAVE f[a] = f[b]
  <2>1. f[a].id = a /\ f[b].id = b
    BY <1>2, <1>3, Zenon
  <2> QED
    BY <2>1, Zenon
<1>5. project_margin_accounts(lines) = {f[a] : a \in S}
  <2>1. {MarginAccount(lines, a) : a \in S} = {f[a] : a \in S}
    BY <1>2, Zenon
  <2> QED
    BY <1>1, <2>1, Zenon
<1>6. /\ \A a \in S : g[a] \in Int
      /\ \A a \in S : h[f[a]] = g[a]
  BY <1>2, Zenon DEF S
<1>7. Sum(h, {f[a] : a \in S}) = Sum(g, S)
  BY <1>1, <1>4, <1>6, SumImage
<1> QED
  BY <1>5, <1>7, Zenon DEF S

-----------------------------------------------------------------------------
\* What the second derivation makes of the debits and of the firm's positions,
\* and the engine's inputs.
DebitsIn(lines) == SumOf([a \in Owners(lines) |-> Larger(-CashOf(lines, a), 0)])
HaircutOn(lines, i, prices, t) ==
    Percent(Value(t, "equity_rate"), Larger(OwnedOf(lines, i), -OwnedOf(lines, i)) * prices[i])
HaircutsIn(lines, prices, t) == SumOf([i \in Issues |-> HaircutOn(lines, i, prices, t)])

LEMMA RequiredCapitalIs ==
    ASSUME NEW lines, NEW prices, NEW worth, NEW t, Unloaded(t, CapitalRules) = {},
           NEW capital, capital = worth - HaircutsIn(lines, prices, t),
           NEW ratio, ratio = Larger(Value(t, "alternative_floor"),
                                     Percent(Value(t, "alternative_percent"), DebitsIn(lines)))
    PROVE  required_net_capital(lines, prices, worth, t) =
             IF \/ capital < Value(t, "carrying")
                \/ capital < ratio
                \/ capital < Percent(Value(t, "alternative_warning"), DebitsIn(lines))
                \/ capital < Percent(Value(t, "minimum_warning"), Larger(ratio, Value(t, "carrying")))
               THEN "HOLD" ELSE "PASS"
<1> DEFINE view == read_books(lines)
           haircut(i) == Percent(Value(t, "equity_rate"), Larger(view.owned[i], -view.owned[i]) * prices[i])
           debits == SumOf([a \in DOMAIN view.cash |-> Larger(-view.cash[a], 0)])
           sum == SumOf([i \in Issues |-> haircut(i)])
<1>1. /\ DOMAIN view.cash = Owners(lines)
      /\ \A a \in Owners(lines) : view.cash[a] = CashOf(lines, a)
      /\ \A i \in Issues : view.owned[i] = OwnedOf(lines, i)
  BY ViewIs
<1>2. debits = DebitsIn(lines)
  <2>1. [a \in DOMAIN view.cash |-> Larger(-view.cash[a], 0)]
          = [a \in Owners(lines) |-> Larger(-CashOf(lines, a), 0)]
    BY <1>1
  <2> QED
    BY <2>1, Zenon DEF DebitsIn
<1>3. sum = HaircutsIn(lines, prices, t)
  <2>1. \A i \in Issues : haircut(i) = HaircutOn(lines, i, prices, t)
    BY <1>1, Zenon DEF HaircutOn
  <2> HIDE DEF haircut
  <2>2. [i \in Issues |-> haircut(i)] = [i \in Issues |-> HaircutOn(lines, i, prices, t)]
    BY <2>1
  <2> QED
    BY <2>2, Zenon DEF HaircutsIn
<1>4. required_net_capital(lines, prices, worth, t) =
        IF Unloaded(t, CapitalRules) # {} THEN "UNDERIVABLE"
        ELSE IF \/ worth - sum < Value(t, "carrying")
                \/ worth - sum < Larger(Value(t, "alternative_floor"), Percent(Value(t, "alternative_percent"), debits))
                \/ worth - sum < Percent(Value(t, "alternative_warning"), debits)
                \/ worth - sum < Percent(Value(t, "minimum_warning"),
                     Larger(Larger(Value(t, "alternative_floor"), Percent(Value(t, "alternative_percent"), debits)),
                            Value(t, "carrying")))
          THEN "HOLD" ELSE "PASS"
  BY Zenon DEF required_net_capital
<1> HIDE DEF view, haircut, debits, sum
<1> QED
  BY <1>2, <1>3, <1>4, Zenon

\* The debits of the accounts are those of their owners.
LEMMA DebitsAre ==
    ASSUME NEW lines, LinesTyped(lines)
    PROVE  /\ SumOf([a \in project_margin_accounts(lines) |-> Larger(-a.cash, 0)]) = DebitsIn(lines)
           /\ DebitsIn(lines) \in Int
<1> DEFINE h == [a \in project_margin_accounts(lines) |-> Larger(-a.cash, 0)]
           g == [a \in Owners(lines) |-> Larger(-CashOf(lines, a), 0)]
<1>1. \A a \in Owners(lines) : g[a] \in Int
  <2> TAKE a \in Owners(lines)
  <2>1. CashOf(lines, a) \in Int
    BY SharesAreNumbers, Zenon
  <2> QED
    BY <2>1 DEF Larger
<1>2. \A a \in Owners(lines) : h[MarginAccount(lines, a)] = g[a]
  <2> TAKE a \in Owners(lines)
  <2>1. MarginAccount(lines, a) \in project_margin_accounts(lines)
    BY OwnersAre
  <2>2. MarginAccount(lines, a).cash = CashOf(lines, a)
    BY AccountIs
  <2> QED
    BY <2>1, <2>2
<1>3. DOMAIN h = project_margin_accounts(lines) /\ DOMAIN g = Owners(lines)
  OBVIOUS
<1>4. SumOf(g) = DebitsIn(lines)
  BY Zenon DEF DebitsIn
<1> HIDE DEF h, g
<1>5. Sum(h, project_margin_accounts(lines)) = Sum(g, Owners(lines))
  BY <1>1, <1>2, SumOverOwners
<1>6. SumOf(h) = SumOf(g)
  BY <1>3, <1>5, SumOfIs, Zenon
<1>7. Sum(g, Owners(lines)) \in Int
  BY <1>1, OwnersAre, SumType
<1>8. SumOf(g) \in Int
  BY <1>3, <1>7, SumOfIs, Zenon
<1> QED
  BY <1>4, <1>6, <1>8, Zenon DEF h

\* The firm's positions, and what each of them costs.
PositionOf(lines, i, prices) ==
    [issue |-> i, class |-> "equity", months |-> None,
     long |-> Larger(Owned(lines, i), 0) * prices[i],
     short |-> Larger(-Owned(lines, i), 0) * prices[i]]
IssuesOwned(lines) == {l.issue : l \in Ownership(lines)}

LEMMA OwnedIs ==
    ASSUME NEW lines, NEW i, i # None
    PROVE  Owned(lines, i) = OwnedOf(lines, i)
<1> DEFINE s == {l \in Ownership(lines) : l.issue = i}
           r == {l \in lines : l.side = "ownership" /\ l.issue = i}
<1>1. s = r
  BY DEF Ownership
<1> QED
  BY <1>1, Zenon DEF Owned, OwnedOf

LEMMA PercentOfNone ==
    ASSUME NEW rate \in Int
    PROVE  Percent(rate, 0) = 0
<1>1. rate * 0 = 0 /\ 0 \div 100 = 0
  OBVIOUS
<1> QED
  BY <1>1 DEF Percent

LEMMA PositionCosts ==
    ASSUME NEW lines, LinesTyped(lines), NEW i \in Issues, None \notin Issues,
           NEW prices \in [Issues -> Int], prices[i] > 0, NEW t, CapitalLoaded(t)
    PROVE  /\ EquityDeduction(PositionOf(lines, i, prices), Values(t, EquityRules))
                = HaircutOn(lines, i, prices, t)
           /\ HaircutOn(lines, i, prices, t) \in Nat
<1> DEFINE n == OwnedOf(lines, i)
           p == PositionOf(lines, i, prices)
           rule == Values(t, EquityRules)
           rate == Value(t, "equity_rate")
           excess == Value(t, "equity_excess_rate")
           lesser == Value(t, "equity_lesser_threshold")
<1>1. n \in Int
  BY SharesAreNumbers, Zenon
<1>2. p.long = Larger(n, 0) * prices[i] /\ p.short = Larger(-n, 0) * prices[i]
  <2>1. Owned(lines, i) = n
    BY OwnedIs, Zenon
  <2> HIDE DEF n
  <2> QED
    BY <2>1 DEF PositionOf
<1>3. /\ rule["equity_rate"] = rate /\ rule["equity_excess_rate"] = excess
      /\ rule["equity_lesser_threshold"] = lesser
  BY DEF Values, EquityRules
<1>4. rate \in Nat /\ excess \in Nat /\ lesser \in Nat
  <2>1. {"equity_rate", "equity_excess_rate", "equity_lesser_threshold"}
          \in SUBSET (CapitalRules \cup {"leverage_warning"})
    BY DEF CapitalRules
  <2>2. \A id \in {"equity_rate", "equity_excess_rate", "equity_lesser_threshold"} : Value(t, id) \in Nat
    BY <2>1, CapitalLoads, Zenon
  <2> QED
    BY <2>2
<1> DEFINE worth == Larger(n, -n) * prices[i]
<1> HIDE DEF n, p, rule, rate, excess, lesser
<1>5. /\ worth \in Nat /\ Larger(p.long, p.short) = worth /\ Smaller(p.long, p.short) = 0
  <2>1. prices[i] \in Nat
    OBVIOUS
  <2>2. CASE n >= 0
    <3>1. Larger(n, 0) = n /\ Larger(-n, 0) = 0 /\ Larger(n, -n) = n
      BY <1>1, <2>2 DEF Larger
    <3> DEFINE w == n * prices[i]
    <3>2. w \in Nat
      BY <2>1, <2>2, <1>1
    <3>3. p.long = w /\ p.short = 0 /\ worth = w
      BY <1>1, <1>2, <2>1, <3>1
    <3> HIDE DEF w
    <3> QED
      BY <3>2, <3>3 DEF Larger, Smaller
  <2>3. CASE n < 0
    <3>1. Larger(n, 0) = 0 /\ Larger(-n, 0) = -n /\ Larger(n, -n) = -n /\ -n \in Nat
      BY <1>1, <2>3 DEF Larger
    <3> DEFINE w == (-n) * prices[i]
    <3>2. w \in Nat
      BY <2>1, <3>1
    <3>3. p.long = 0 /\ p.short = w /\ worth = w
      BY <1>1, <1>2, <2>1, <3>1
    <3> HIDE DEF w
    <3> QED
      BY <3>2, <3>3 DEF Larger, Smaller
  <2> QED
    BY <1>1, <2>2, <2>3
<1>6. HaircutOn(lines, i, prices, t) = Percent(rate, worth)
  BY Zenon DEF HaircutOn, n, rate
<1> HIDE DEF worth
<1>7. Percent(lesser, worth) \in Nat /\ Percent(rate, worth) \in Nat
  BY <1>4, <1>5, PercentIsNat
<1>8. Larger(0 - Percent(lesser, worth), 0) = 0
  <2> DEFINE q == Percent(lesser, worth)
  <2>1. q \in Nat
    BY <1>7
  <2> HIDE DEF q
  <2>2. Larger(0 - q, 0) = 0
    BY <2>1 DEF Larger
  <2> QED
    BY <2>2 DEF q
<1>9. EquityDeduction(p, rule) = Percent(rate, worth) + Percent(excess, 0)
  BY <1>3, <1>5, <1>8, Zenon DEF EquityDeduction
<1>10. Percent(excess, 0) = 0
  BY <1>4, PercentOfNone
<1>11. EquityDeduction(p, rule) = Percent(rate, worth)
  <2> DEFINE q == Percent(rate, worth)
  <2>1. q \in Nat
    BY <1>7
  <2> HIDE DEF q
  <2>2. q + 0 = q
    BY <2>1
  <2> QED
    BY <1>9, <1>10, <2>2 DEF q
<1> QED
  BY <1>6, <1>7, <1>11, Zenon DEF p, rule

\* An issue that nobody owns costs nothing.
LEMMA NothingOwned ==
    ASSUME NEW lines, NEW i \in Issues, None \notin Issues, i \notin IssuesOwned(lines)
    PROVE  OwnedOf(lines, i) = 0
<1> DEFINE r == {l \in lines : l.side = "ownership" /\ l.issue = i}
<1>1. r = {}
  BY DEF IssuesOwned, Ownership
<1>2. Total({}) = 0
  <2>1. \A l : l.amount \in Int => Total({}) = 0
    BY TotalOfOne, Zenon
  <2>2. [amount |-> 0].amount \in Int
    OBVIOUS
  <2> QED
    BY <2>1, <2>2, Zenon
<1> QED
  BY <1>1, <1>2, Zenon DEF OwnedOf

LEMMA PositionsCost ==
    ASSUME NEW lines, LinesTyped(lines), None \notin Issues, IsFiniteSet(Issues),
           NEW prices \in [Issues -> Int], \A i \in Issues : prices[i] > 0, NEW t, CapitalLoaded(t),
           NEW P, P = {PositionOf(lines, i, prices) : i \in IssuesOwned(lines)}
    PROVE  /\ EquityDeductions(P, Values(t, EquityRules)) = HaircutsIn(lines, prices, t)
           /\ HaircutsIn(lines, prices, t) \in Nat
           /\ P = {} => HaircutsIn(lines, prices, t) = 0
           /\ \A p \in P : p.class = "equity"
<1> DEFINE rule == Values(t, EquityRules)
           S == IssuesOwned(lines)
           g == [i \in Issues |-> HaircutOn(lines, i, prices, t)]
           f == [i \in Issues |-> PositionOf(lines, i, prices)]
           h == [p \in P |-> EquityDeduction(p, rule)]
<1>1. S \subseteq Issues
  BY DEF LinesTyped, LineTyped, IssuesOwned, Ownership
<1>2. \A i \in Issues : EquityDeduction(PositionOf(lines, i, prices), rule) = HaircutOn(lines, i, prices, t)
                        /\ HaircutOn(lines, i, prices, t) \in Nat
  BY PositionCosts
<1>3. \A i \in Issues : g[i] \in Nat
  BY <1>2
<1>4. \A i \in Issues \ S : g[i] = 0
  <2> TAKE i \in Issues \ S
  <2>1. OwnedOf(lines, i) = 0
    BY NothingOwned
  <2>2. Larger(0, -0) * prices[i] = 0
    BY DEF Larger
  <2>3. Percent(Value(t, "equity_rate"), 0) = 0
    <3>1. {"equity_rate"} \in SUBSET (CapitalRules \cup {"leverage_warning"})
      BY DEF CapitalRules
    <3>2. \A id \in {"equity_rate"} : Value(t, id) \in Nat
      BY <3>1, CapitalLoads, Zenon
    <3> QED
      BY <3>2, PercentOfNone
  <2>4. HaircutOn(lines, i, prices, t) = 0
    BY <2>1, <2>2, <2>3, Zenon DEF HaircutOn
  <2> QED
    BY <2>4
<1>5. \A i, j \in S : f[i] = f[j] => i = j
  <2> TAKE i \in S, j \in S
  <2> HAVE f[i] = f[j]
  <2>1. f[i].issue = i /\ f[j].issue = j
    BY <1>1 DEF PositionOf
  <2> QED
    BY <2>1, Zenon
<1>6. P = {f[i] : i \in S}
  <2>1. \A i \in S : f[i] = PositionOf(lines, i, prices)
    BY <1>1
  <2> HIDE DEF f, S
  <2>2. {f[i] : i \in S} = {PositionOf(lines, i, prices) : i \in S}
    BY <2>1, Zenon
  <2> QED
    BY <2>2 DEF S
<1>7. \A i \in S : h[f[i]] = g[i]
  <2> TAKE i \in S
  <2>1. f[i] \in P
    BY <1>6, Zenon
  <2>2. f[i] = PositionOf(lines, i, prices) /\ g[i] = HaircutOn(lines, i, prices, t)
    BY <1>1
  <2>3. h[f[i]] = EquityDeduction(f[i], rule)
    BY <2>1
  <2> QED
    BY <1>1, <1>2, <2>2, <2>3, Zenon
<1>8. DOMAIN h = P /\ DOMAIN g = Issues /\ IsFiniteSet(S)
  BY <1>1, FS_Subset
<1>9. EquityDeductions(P, rule) = SumOf(h)
  BY Zenon DEF EquityDeductions
<1>10. HaircutsIn(lines, prices, t) = SumOf(g)
  BY Zenon DEF HaircutsIn
<1>11. \A p \in P : p.class = "equity"
  BY DEF PositionOf
<1>12. P = {} => S = {}
  BY <1>6
<1> HIDE DEF rule, S, g, f, h
<1>13. /\ \A i \in S : g[i] \in Int
       /\ \A i \in Issues : g[i] \in Int
  BY <1>1, <1>3
<1>14. Sum(h, {f[i] : i \in S}) = Sum(g, S)
  BY <1>5, <1>7, <1>8, <1>13, SumImage
<1>15. Sum(g, Issues) = Sum(g, S)
  BY <1>1, <1>4, <1>13, SumRelevant
<1>16. Sum(g, Issues) \in Nat
  BY <1>3, SumNat
<1>17. SumOf(h) = SumOf(g) /\ SumOf(g) \in Nat
  BY <1>6, <1>8, <1>14, <1>15, <1>16, SumOfIs, Zenon
<1>18. S = {} => Sum(g, S) = 0
  BY <1>8, <1>13, SumType
<1>19. SumOf(g) = Sum(g, S)
  BY <1>8, <1>15, SumOfIs, Zenon
<1> QED
  BY <1>9, <1>10, <1>11, <1>12, <1>17, <1>18, <1>19, Zenon DEF rule

\* What is required of net capital is what the engine says of the firm.
LEMMA CapitalAgrees ==
    ASSUME NEW lines, LinesTyped(lines), None \notin Issues, IsFiniteSet(Issues),
           NEW prices \in [Issues -> Int], \A i \in Issues : prices[i] > 0,
           NEW t, "leverage_warning" \in DOMAIN t.value, \A id \in DOMAIN t.value : t.value[id] \in Nat,
           NEW worth \in Int, NEW in, EquityFirm(in, worth, DebitsIn(lines)),
           in.positions = {PositionOf(lines, i, prices) : i \in IssuesOwned(lines)}
    PROVE  required_net_capital(lines, prices, worth, t)
             \in {"UNDERIVABLE", compute_net_capital(in, t).disposition}
<1>1. CASE Unloaded(t, CapitalRules) # {}
  <2>1. required_net_capital(lines, prices, worth, t) = "UNDERIVABLE"
    BY <1>1, Zenon DEF required_net_capital
  <2> QED
    BY <2>1
<1>2. CASE Unloaded(t, CapitalRules) = {}
  <2> DEFINE h == HaircutsIn(lines, prices, t)
             debits == DebitsIn(lines)
             capital == worth - h
             ratio == Larger(Value(t, "alternative_floor"), Percent(Value(t, "alternative_percent"), debits))
  <2>1. CapitalLoaded(t)
    BY <1>2 DEF CapitalLoaded, Unloaded
  <2>2. /\ EquityDeductions(in.positions, Values(t, EquityRules)) = h /\ h \in Nat
        /\ in.positions = {} => h = 0
    BY <2>1, PositionsCost, Zenon
  <2>3. debits \in Int
    BY DebitsAre, Zenon
  <2>4. compute_net_capital(in, t).disposition =
          IF \/ capital < Value(t, "carrying")
             \/ capital < ratio
             \/ capital < Percent(Value(t, "alternative_warning"), debits)
             \/ capital < Percent(Value(t, "minimum_warning"), Larger(ratio, Value(t, "carrying")))
            THEN "HOLD" ELSE "PASS"
    <3>1. /\ capital = worth - h
          /\ ratio = Larger(Value(t, "alternative_floor"), Percent(Value(t, "alternative_percent"), debits))
      BY Zenon
    <3>2. EquityFirm(in, worth, debits)
      BY Zenon
    <3> HIDE DEF capital, ratio, h, debits
    <3>3. \A x \in Nat : \A c, r :
            /\ EquityDeductions(in.positions, Values(t, EquityRules)) = x
            /\ in.positions = {} => x = 0
            /\ c = worth - x
            /\ r = Larger(Value(t, "alternative_floor"), Percent(Value(t, "alternative_percent"), debits))
            => compute_net_capital(in, t).disposition =
                 IF \/ c < Value(t, "carrying")
                    \/ c < r
                    \/ c < Percent(Value(t, "alternative_warning"), debits)
                    \/ c < Percent(Value(t, "minimum_warning"), Larger(r, Value(t, "carrying")))
                   THEN "HOLD" ELSE "PASS"
      BY <2>1, <2>3, <3>2, FirmCapital, Zenon
    <3> QED
      BY <2>2, <3>1, <3>3, Zenon
  <2>5. required_net_capital(lines, prices, worth, t) =
          IF \/ capital < Value(t, "carrying")
             \/ capital < ratio
             \/ capital < Percent(Value(t, "alternative_warning"), debits)
             \/ capital < Percent(Value(t, "minimum_warning"), Larger(ratio, Value(t, "carrying")))
            THEN "HOLD" ELSE "PASS"
    <3>1. /\ capital = worth - HaircutsIn(lines, prices, t)
          /\ ratio = Larger(Value(t, "alternative_floor"),
                            Percent(Value(t, "alternative_percent"), DebitsIn(lines)))
      BY Zenon
    <3>2. debits = DebitsIn(lines)
      BY Zenon
    <3> HIDE DEF capital, ratio, h, debits
    <3> QED
      BY <1>2, <3>1, <3>2, RequiredCapitalIs
  <2>6. required_net_capital(lines, prices, worth, t) = compute_net_capital(in, t).disposition
    BY <2>4, <2>5, Zenon
  <2> QED
    BY <2>6
<1> QED
  BY <1>1, <1>2

-----------------------------------------------------------------------------
\* What of an account has to be under control, as both derivations have it.
DebitOf(lines, a) == Larger(-CashOf(lines, a), 0)
LongIn(lines, a) == {i \in Issues : HeldOf(lines, a, i) > 0}
LongWorth(lines, a, prices) == SumOf([i \in LongIn(lines, a) |-> HeldOf(lines, a, i) * prices[i]])
FreeOf(lines, a, prices, threshold) ==
    Larger(LongWorth(lines, a, prices) - Percent(threshold, DebitOf(lines, a)), 0)
Needs(lines, a, i, prices, threshold) ==
    IF i \notin LongIn(lines, a) THEN 0
    ELSE IF DebitOf(lines, a) = 0 THEN HeldOf(lines, a, i)
    ELSE Smaller(HeldOf(lines, a, i), UpTo(HeldOf(lines, a, i) * FreeOf(lines, a, prices, threshold),
                                           LongWorth(lines, a, prices)))
NeededIn(lines, i, prices, threshold) ==
    SumOf([a \in Owners(lines) |-> Needs(lines, a, i, prices, threshold)])

LEMMA RequiresIs ==
    ASSUME NEW lines, NEW a \in Owners(lines), NEW i \in Issues, NEW prices, NEW threshold
    PROVE  AccountRequires(read_books(lines), a, prices, threshold)[i]
             = Needs(lines, a, i, prices, threshold)
<1> DEFINE view == read_books(lines)
           long == {j \in Issues : view.held[a][j] > 0}
           debit == Larger(-view.cash[a], 0)
           value == SumOf([j \in long |-> view.held[a][j] * prices[j]])
           excess == Larger(value - Percent(threshold, debit), 0)
<1>1. view.cash[a] = CashOf(lines, a) /\ \A j \in Issues : view.held[a][j] = HeldOf(lines, a, j)
  BY ViewIs
<1>2. AccountRequires(view, a, prices, threshold)[i] =
        IF i \notin long THEN 0
        ELSE IF debit = 0 THEN view.held[a][i]
        ELSE Smaller(view.held[a][i], -((-(view.held[a][i] * excess)) \div value))
  BY DEF AccountRequires
<1> HIDE DEF view
<1>3. long = LongIn(lines, a)
  BY <1>1 DEF LongIn
<1>4. debit = DebitOf(lines, a)
  BY <1>1, Zenon DEF DebitOf
<1>5. value = LongWorth(lines, a, prices)
  <2>1. \A j \in long : view.held[a][j] = HeldOf(lines, a, j)
    BY <1>1
  <2> HIDE DEF long
  <2>2. [j \in long |-> view.held[a][j] * prices[j]] = [j \in long |-> HeldOf(lines, a, j) * prices[j]]
    BY <2>1
  <2> QED
    BY <1>3, <2>2, Zenon DEF LongWorth
<1>6. view.held[a][i] = HeldOf(lines, a, i)
  BY <1>1
<1> HIDE DEF long, debit, value
<1>7. excess = FreeOf(lines, a, prices, threshold)
  BY <1>4, <1>5, Zenon DEF FreeOf
<1> HIDE DEF excess
<1>8. \A q, x, v : -((-(q * x)) \div v) = UpTo(q * x, v)
  BY Zenon DEF UpTo
<1>9. AccountRequires(view, a, prices, threshold)[i] = Needs(lines, a, i, prices, threshold)
  BY <1>2, <1>3, <1>4, <1>5, <1>6, <1>7, <1>8 DEF Needs
<1> QED
  BY <1>9, Zenon DEF view

\* What the margin of an account says of it.
LEMMA MarginFields ==
    ASSUME NEW account, NEW new, NEW prices, NEW d, NEW t
    PROVE  LET m == compute_margin(account, new, prices, d, t)
           IN  /\ m.id = account.id /\ m.long = Worth(Positive(account.held), prices)
               /\ m.debit = Larger(-account.cash, 0)
<1> DEFINE long == Worth(Positive(account.held), prices)
           short == Worth(Negative(account.held), prices)
           base == [id |-> account.id, long |-> long, debit |-> Larger(-account.cash, 0),
                    equity |-> long + account.cash - short]
<1>1. \A initial, maintenance, house :
        LET m == MarginResult(base, initial, maintenance, house, d, t)
        IN  m.id = base.id /\ m.long = base.long /\ m.debit = base.debit
  <2> HIDE DEF base
  <2> QED
    BY DEF MarginResult
<1>2. base.id = account.id /\ base.long = long /\ base.debit = Larger(-account.cash, 0)
  <2> HIDE DEF long
  <2> QED
    OBVIOUS
<1> DEFINE fresh == [i \in Issues |-> IF i \in new THEN Magnitude(account.held[i]) ELSE 0]
           a1 == Percent(Value(t, "initial"), Worth(fresh, prices))
           a2 == Percent(Value(t, "long_maintenance"), long)
                 + SumOf([i \in {j \in Issues : account.held[j] < 0} |->
                            ShortMaintenance(i, -account.held[i], prices, t)])
           a3 == Percent(HouseRate, long + short)
           none == [id |-> base.id, long |-> long, debit |-> base.debit, equity |-> base.equity,
                    disposition |-> "INDETERMINATE", calls |-> {}, proceeds |-> 0]
<1>3. compute_margin(account, new, prices, d, t) =
        IF Unloaded(t, MarginRules) # {} THEN none ELSE MarginResult(base, a1, a2, a3, d, t)
  BY Zenon DEF compute_margin, MarginOf
<1>4. none.id = base.id /\ none.long = long /\ none.debit = base.debit
  <2> HIDE DEF base, long
  <2> QED
    OBVIOUS
<1> HIDE DEF a1, a2, a3, base, none, long
<1>5. LET m == MarginResult(base, a1, a2, a3, d, t)
      IN  m.id = base.id /\ m.long = base.long /\ m.debit = base.debit
  BY <1>1
<1> QED
  BY <1>2, <1>3, <1>4, <1>5, Zenon DEF long

LEMMA LongWorthIs ==
    ASSUME NEW lines, LinesTyped(lines), NEW a, NEW prices \in [Issues -> Int], IsFiniteSet(Issues)
    PROVE  /\ Worth(Positive(MarginAccount(lines, a).held), prices) = LongWorth(lines, a, prices)
           /\ LongWorth(lines, a, prices) \in Int
           /\ \A i \in LongIn(lines, a) :
                (\A j \in Issues : prices[j] > 0) => LongWorth(lines, a, prices) > 0
<1> DEFINE g == [i \in Issues |-> Positive(MarginAccount(lines, a).held)[i] * prices[i]]
           S == LongIn(lines, a)
           f == [i \in S |-> HeldOf(lines, a, i) * prices[i]]
<1>1. \A i \in Issues : HeldOf(lines, a, i) \in Int
  BY SharesAreNumbers, Zenon
<1>2. \A i \in Issues : Positive(MarginAccount(lines, a).held)[i] = Larger(HeldOf(lines, a, i), 0)
  BY AccountIs DEF Positive
<1>3. S \in SUBSET Issues /\ \A i \in Issues : i \in S <=> HeldOf(lines, a, i) > 0
  BY DEF LongIn
<1>4. \A i \in Issues : g[i] = Larger(HeldOf(lines, a, i), 0) * prices[i]
  BY <1>2
<1>5. \A i \in S : f[i] = HeldOf(lines, a, i) * prices[i]
  OBVIOUS
<1>6. DOMAIN f = S /\ DOMAIN g = Issues
  OBVIOUS
<1>7. Worth(Positive(MarginAccount(lines, a).held), prices) = SumOf(g) /\ LongWorth(lines, a, prices) = SumOf(f)
  BY Zenon DEF Worth, LongWorth
<1> HIDE DEF f, g, S
<1>8. /\ \A i \in S : g[i] = f[i] /\ g[i] \in Int
      /\ \A i \in Issues \ S : g[i] = 0
  <2>1. \A i \in Issues : prices[i] \in Int
    OBVIOUS
  <2>2. ASSUME NEW i \in S PROVE g[i] = f[i] /\ g[i] \in Int
    <3>1. Larger(HeldOf(lines, a, i), 0) = HeldOf(lines, a, i)
      BY <1>1, <1>3 DEF Larger
    <3>2. g[i] = HeldOf(lines, a, i) * prices[i] /\ f[i] = HeldOf(lines, a, i) * prices[i]
      BY <1>3, <1>4, <1>5, <3>1
    <3> QED
      BY <1>1, <1>3, <2>1, <3>2
  <2>3. ASSUME NEW i \in Issues \ S PROVE g[i] = 0
    <3>1. Larger(HeldOf(lines, a, i), 0) = 0
      BY <1>1, <1>3 DEF Larger
    <3>2. g[i] = 0 * prices[i]
      BY <1>4, <3>1
    <3> QED
      BY <2>1, <3>2
  <2> QED
    BY <2>2, <2>3
<1>9. \A i \in Issues : g[i] \in Int
  BY <1>8
<1>10. Sum(g, Issues) = Sum(g, S)
  BY <1>3, <1>8, <1>9, SumRelevant
<1>11. IsFiniteSet(S)
  BY <1>3, FS_Subset
<1>12. Sum(g, S) = Sum(f, S)
  BY <1>8, <1>11, SumCongruence
<1>13. SumOf(g) = SumOf(f) /\ SumOf(f) = Sum(f, S)
  BY <1>6, <1>10, <1>12, SumOfIs, Zenon
<1>14. \A i \in S : f[i] \in Int
  BY <1>8
<1>15. Sum(f, S) \in Int
  BY <1>11, <1>14, SumType
<1>16. ASSUME NEW i \in S, \A j \in Issues : prices[j] > 0
       PROVE  Sum(f, S) > 0
  <2>1. \A j \in S : f[j] \in Nat /\ f[j] > 0
    <3> TAKE j \in S
    <3> DEFINE x == HeldOf(lines, a, j)
               y == prices[j]
    <3>1. x \in Int /\ x > 0 /\ y \in Int /\ y > 0 /\ f[j] = x * y
      BY <1>1, <1>3, <1>5, <1>16
    <3> HIDE DEF x, y
    <3>2. x * y \in Nat /\ x * y > 0
      BY <3>1
    <3> QED
      BY <3>1, <3>2
  <2>2. Sum(f, S) = f[i] + Sum(f, S \ {i})
    BY <1>11, <1>14, <1>16, SumRemove
  <2>3. IsFiniteSet(S \ {i})
    BY <1>11, FS_Subset
  <2>4. Sum(f, S \ {i}) \in Nat
    BY <2>1, <2>3, SumNat
  <2>5. f[i] \in Nat /\ f[i] > 0
    BY <1>16, <2>1
  <2> QED
    BY <2>2, <2>4, <2>5
<1> QED
  BY <1>7, <1>13, <1>15, <1>16 DEF S

LEMMA NeedsType ==
    ASSUME NEW lines, LinesTyped(lines), NEW a, NEW i \in Issues, NEW prices \in [Issues -> Int],
           IsFiniteSet(Issues), \A j \in Issues : prices[j] > 0, NEW threshold \in Int
    PROVE  Needs(lines, a, i, prices, threshold) \in Int
<1> DEFINE x == HeldOf(lines, a, i)
           v == LongWorth(lines, a, prices)
           e == FreeOf(lines, a, prices, threshold)
<1>1. x \in Int /\ DebitOf(lines, a) \in Int
  <2>1. CashOf(lines, a) \in Int /\ x \in Int
    BY SharesAreNumbers, Zenon
  <2> QED
    BY <2>1 DEF DebitOf, Larger
<1>2. CASE i \in LongIn(lines, a)
  <2>1. v \in Int /\ v > 0
    BY <1>2, LongWorthIs
  <2>2. Percent(threshold, DebitOf(lines, a)) \in Int
    BY <1>1, PercentType
  <2>3. e \in Int
    <3> DEFINE p == Percent(threshold, DebitOf(lines, a))
    <3>1. p \in Int /\ v \in Int
      BY <2>1, <2>2
    <3>2. e = Larger(v - p, 0)
      BY Zenon DEF FreeOf
    <3> HIDE DEF p, v, e
    <3> QED
      BY <3>1, <3>2 DEF Larger
  <2> DEFINE y == x * e
  <2>4. y \in Int
    BY <1>1, <2>3
  <2>5. Needs(lines, a, i, prices, threshold) = x
        \/ Needs(lines, a, i, prices, threshold) = Smaller(x, UpTo(y, v))
    BY <1>2, Zenon DEF Needs
  <2> HIDE DEF x, e, v, y
  <2>6. UpTo(y, v) \in Int
    <3>1. -y \in Int
      BY <2>4
    <3>2. (-y) \div v \in Int
      BY <2>1, <3>1
    <3> QED
      BY <3>2 DEF UpTo
  <2>7. Smaller(x, UpTo(y, v)) \in {x, UpTo(y, v)}
    BY DEF Smaller
  <2> QED
    BY <1>1, <2>5, <2>6, <2>7
<1>3. CASE i \notin LongIn(lines, a)
  BY <1>3 DEF Needs
<1> QED
  BY <1>2, <1>3

\* Nothing is needed of an issue that nobody owns.
LEMMA NothingNeeded ==
    ASSUME NEW lines, LinesTyped(lines), NEW i \in Issues, None \notin Issues,
           i \notin IssuesOwned(lines), NEW prices, NEW threshold
    PROVE  NeededIn(lines, i, prices, threshold) = 0
<1> DEFINE g == [a \in Owners(lines) |-> Needs(lines, a, i, prices, threshold)]
<1>1. \A a : HeldOf(lines, a, i) = 0
  <2> TAKE a
  <2> DEFINE r == {l \in Customers(lines) : l.account = a /\ l.side = "ownership" /\ l.issue = i}
  <2>1. r = {}
    BY DEF IssuesOwned, Ownership, Customers
  <2>2. Total({}) = 0
    <3>1. [amount |-> 0].amount \in Int
      OBVIOUS
    <3> QED
      BY <3>1, TotalOfOne, Zenon
  <2> QED
    BY <2>1, <2>2, Zenon DEF HeldOf
<1>2. \A a : i \notin LongIn(lines, a)
  BY <1>1 DEF LongIn
<1>3. \A a \in Owners(lines) : g[a] = 0
  BY <1>2 DEF Needs
<1>4. NeededIn(lines, i, prices, threshold) = SumOf(g) /\ DOMAIN g = Owners(lines)
  BY Zenon DEF NeededIn
<1> HIDE DEF g
<1>5. Sum(g, Owners(lines)) = 0
  BY <1>3, OwnersAre, SumZero
<1> QED
  BY <1>4, <1>5, SumOfIs, Zenon

\* What the engine is told to keep under control of an issue is what is needed of it.
LEMMA OwnerIs ==
    ASSUME NEW lines, LinesTyped(lines), NEW account \in project_margin_accounts(lines)
    PROVE  /\ account.id \in Owners(lines) /\ account = MarginAccount(lines, account.id)
           /\ account.cash = CashOf(lines, account.id)
           /\ \A i \in Issues : account.held[i] = HeldOf(lines, account.id, i)
<1>1. PICK a \in Owners(lines) : account = MarginAccount(lines, a)
  BY OwnersAre
<1>2. MarginAccount(lines, a) = [id |-> a, cash |-> CashOf(lines, a),
                                 held |-> [i \in Issues |-> HeldOf(lines, a, i)]]
  BY AccountIs, Zenon
<1>3. account.id = a /\ account.cash = CashOf(lines, a) /\ \A i \in Issues : account.held[i] = HeldOf(lines, a, i)
  BY <1>1, <1>2
<1> QED
  BY <1>1, <1>3, Zenon

MarginsIn(lines, prices, d, t) ==
    {compute_margin(a, {}, prices, d, t) : a \in project_margin_accounts(lines)}

LEMMA MarginOfOwner ==
    ASSUME NEW lines, LinesTyped(lines), NEW prices \in [Issues -> Int], IsFiniteSet(Issues), NEW d, NEW t,
           NEW account \in project_margin_accounts(lines),
           NEW margins, margins = MarginsIn(lines, prices, d, t), NEW m, m = compute_margin(account, {}, prices, d, t)
    PROVE  /\ {x \in margins : x.id = account.id} = {m}
           /\ m.debit = DebitOf(lines, account.id)
           /\ m.long = LongWorth(lines, account.id, prices)
<1> DEFINE M(a) == compute_margin(a, {}, prices, d, t)
           A == project_margin_accounts(lines)
<1>1. \A a \in A : M(a).id = a.id
  BY MarginFields
<1>2. \A a \in A : a = MarginAccount(lines, a.id)
  BY OwnerIs
<1>3. margins = {M(a) : a \in A} /\ m = M(account) /\ account \in A
  BY Zenon DEF MarginsIn
<1>4. m.debit = DebitOf(lines, account.id)
  <2>1. m.debit = Larger(-account.cash, 0)
    BY MarginFields
  <2>2. account.cash = CashOf(lines, account.id)
    BY OwnerIs, Zenon
  <2> QED
    BY <2>1, <2>2, Zenon DEF DebitOf
<1>5. m.long = LongWorth(lines, account.id, prices)
  <2>1. m.long = Worth(Positive(account.held), prices)
    BY MarginFields
  <2>2. account = MarginAccount(lines, account.id)
    BY OwnerIs, Zenon
  <2>3. Worth(Positive(MarginAccount(lines, account.id).held), prices) = LongWorth(lines, account.id, prices)
    BY LongWorthIs, Zenon
  <2> QED
    BY <2>1, <2>2, <2>3, Zenon
<1> HIDE DEF M, A
<1>6. {x \in margins : x.id = account.id} = {m}
  <2>1. \A x \in margins : x.id = account.id => x = m
    <3> TAKE x \in margins
    <3> HAVE x.id = account.id
    <3>1. PICK a \in A : x = M(a)
      BY <1>3, Zenon
    <3>2. a.id = account.id
      BY <1>1, <3>1, Zenon
    <3>3. a = account
      BY <1>2, <1>3, <3>2, Zenon
    <3> QED
      BY <1>3, <3>1, <3>3, Zenon
  <2>2. m \in margins /\ m.id = account.id
    BY <1>1, <1>3, Zenon
  <2> QED
    BY <2>1, <2>2
<1> QED
  BY <1>4, <1>5, <1>6, Zenon

LEMMA LentNeeds ==
    ASSUME NEW lines, LinesTyped(lines), NEW prices \in [Issues -> Int], IsFiniteSet(Issues),
           \A j \in Issues : prices[j] > 0, NEW threshold, NEW a, NEW i \in LongIn(lines, a),
           DebitOf(lines, a) # 0, NEW m, m.debit = DebitOf(lines, a), m.long = LongWorth(lines, a, prices)
    PROVE  ExcessMargin(HeldOf(lines, a, i), m, threshold) = Needs(lines, a, i, prices, threshold)
<1> DEFINE q == HeldOf(lines, a, i)
           v == LongWorth(lines, a, prices)
           e == FreeOf(lines, a, prices, threshold)
<1>1. v \in Int /\ v > 0
  BY LongWorthIs
<1>2. Larger(m.long - Percent(threshold, m.debit), 0) = e
  BY Zenon DEF FreeOf
<1>3. Needs(lines, a, i, prices, threshold) = Smaller(q, UpTo(q * e, v))
  BY Zenon DEF Needs
<1>4. ~(m.long <= 0) /\ m.long = v
  BY <1>1
<1> HIDE DEF q, v, e
<1>5. ExcessMargin(q, m, threshold) = Smaller(q, UpTo(q * e, v))
  BY <1>2, <1>4, Zenon DEF ExcessMargin
<1> QED
  BY <1>3, <1>5, Zenon DEF q

LEMMA RequirementNeeds ==
    ASSUME NEW lines, LinesTyped(lines), NEW i \in Issues, NEW prices \in [Issues -> Int],
           IsFiniteSet(Issues), \A j \in Issues : prices[j] > 0, NEW threshold \in Int, NEW d, NEW t,
           NEW accounts, accounts = project_margin_accounts(lines),
           NEW margins, margins = MarginsIn(lines, prices, d, t), NEW r,
           r = Requirement(lines, i, accounts, margins, threshold)
    PROVE  /\ r.fullyPaid \in Int /\ r.excessMargin \in Int
           /\ r.fullyPaid + r.excessMargin = NeededIn(lines, i, prices, threshold)
           /\ r.books = Owned(lines, i) /\ r.holdings = Holdings(lines, i)
<1> DEFINE M(a) == compute_margin(a, {}, prices, d, t)
           of(a) == {m \in margins : m.id = a.id}
           long == {a \in accounts : a.held[i] > 0}
           paid == {a \in long : \E m \in of(a) : m.debit = 0}
           lent == long \ paid
           full == [a \in paid |-> a.held[i]]
           part == [a \in lent |-> ExcessMargin(a.held[i], CHOOSE m \in of(a) : TRUE, threshold)]
           n == [a \in accounts |-> Needs(lines, a.id, i, prices, threshold)]
           g == [a \in Owners(lines) |-> Needs(lines, a, i, prices, threshold)]
<1>1. /\ r.fullyPaid = SumOf(full)
      /\ r.excessMargin = IF lent = {} THEN 0
                          ELSE IF threshold = None \/ \E a \in lent : of(a) = {} THEN None
                          ELSE SumOf(part)
      /\ r.books = Owned(lines, i) /\ r.holdings = Holdings(lines, i)
  <2> DEFINE excess == IF lent = {} THEN 0
                       ELSE IF threshold = None \/ \E a \in lent : of(a) = {} THEN None
                       ELSE SumOf(part)
             sum == SumOf(full)
  <2>1. r = [issue |-> i, books |-> Owned(lines, i), holdings |-> Holdings(lines, i),
             fullyPaid |-> sum, excessMargin |-> excess]
    BY Zenon DEF Requirement
  <2> HIDE DEF excess, sum
  <2>2. /\ r.fullyPaid = sum /\ r.excessMargin = excess
        /\ r.books = Owned(lines, i) /\ r.holdings = Holdings(lines, i)
    BY <2>1
  <2> QED
    BY <2>2, Zenon DEF excess, sum
<1>2. \A a \in accounts : of(a) = {M(a)} /\ M(a).debit = DebitOf(lines, a.id)
                          /\ M(a).long = LongWorth(lines, a.id, prices)
  <2> TAKE a \in accounts
  <2>1. a \in project_margin_accounts(lines)
    BY Zenon
  <2> DEFINE m == M(a)
             mine == {x \in margins : x.id = a.id}
  <2>2. m = compute_margin(a, {}, prices, d, t)
    BY Zenon
  <2> HIDE DEF m
  <2>4. /\ {x \in margins : x.id = a.id} = {m} /\ m.debit = DebitOf(lines, a.id)
        /\ m.long = LongWorth(lines, a.id, prices)
    BY <2>1, <2>2, MarginOfOwner
  <2> QED
    BY <2>4, Zenon DEF m
<1>3. \A a \in accounts : a.id \in Owners(lines) /\ a.held[i] = HeldOf(lines, a.id, i)
  BY OwnerIs
<1>4. \A a \in accounts : HeldOf(lines, a.id, i) \in Int
  BY SharesAreNumbers, Zenon
<1>5. \A a \in accounts : a \in long <=> i \in LongIn(lines, a.id)
  BY <1>3 DEF LongIn
<1>6. \A a \in long : a \in paid <=> DebitOf(lines, a.id) = 0
  <2> TAKE a \in long
  <2>1. of(a) = {M(a)} /\ M(a).debit = DebitOf(lines, a.id)
    BY <1>2
  <2> HIDE DEF M, of
  <2>2. (\E m \in of(a) : m.debit = 0) <=> DebitOf(lines, a.id) = 0
    BY <2>1
  <2> QED
    BY <2>2, Zenon
<1>7. \A a \in paid : full[a] = n[a]
  <2> TAKE a \in paid
  <2>1. a \in accounts /\ a \in long /\ DebitOf(lines, a.id) = 0 /\ i \in LongIn(lines, a.id)
    BY <1>5, <1>6, Zenon
  <2>2. n[a] = Needs(lines, a.id, i, prices, threshold)
    BY <2>1
  <2>3. Needs(lines, a.id, i, prices, threshold) = HeldOf(lines, a.id, i)
    BY <2>1, Zenon DEF Needs
  <2>4. full[a] = a.held[i]
    OBVIOUS
  <2>5. a.held[i] = HeldOf(lines, a.id, i)
    BY <1>3, <2>1, Zenon
  <2> QED
    BY <2>2, <2>3, <2>4, <2>5, Zenon
<1>8. \A a \in lent : part[a] = n[a]
  <2> TAKE a \in lent
  <2>1. a \in accounts /\ a \in long /\ DebitOf(lines, a.id) # 0 /\ i \in LongIn(lines, a.id)
    BY <1>5, <1>6, Zenon
  <2>2. n[a] = Needs(lines, a.id, i, prices, threshold)
    BY <2>1
  <2>3. part[a] = ExcessMargin(a.held[i], CHOOSE m \in of(a) : TRUE, threshold)
    OBVIOUS
  <2>4. of(a) = {M(a)} /\ M(a).debit = DebitOf(lines, a.id) /\ M(a).long = LongWorth(lines, a.id, prices)
    BY <1>2, <2>1, Zenon
  <2>5. (CHOOSE m \in of(a) : TRUE) = M(a)
    <3> DEFINE x == M(a)
    <3>1. of(a) = {x}
      BY <2>4, Zenon
    <3> HIDE DEF x, of
    <3>2. (CHOOSE m \in of(a) : TRUE) \in of(a)
      BY <3>1
    <3>3. (CHOOSE m \in of(a) : TRUE) = x
      BY <3>1, <3>2
    <3> QED
      BY <3>3, Zenon DEF x
  <2>6. a.held[i] = HeldOf(lines, a.id, i)
    BY <1>3, <2>1, Zenon
  <2> DEFINE m == M(a)
  <2>7. m.debit = DebitOf(lines, a.id) /\ m.long = LongWorth(lines, a.id, prices)
    BY <2>4, Zenon
  <2> HIDE DEF m
  <2>8. ExcessMargin(HeldOf(lines, a.id, i), m, threshold) = Needs(lines, a.id, i, prices, threshold)
    BY <2>1, <2>7, LentNeeds
  <2>9. part[a] = ExcessMargin(HeldOf(lines, a.id, i), m, threshold)
    BY <2>3, <2>5, <2>6, Zenon DEF m
  <2> QED
    BY <2>2, <2>8, <2>9, Zenon
<1>9. \A a \in accounts \ long : n[a] = 0
  <2> TAKE a \in accounts \ long
  <2>1. i \notin LongIn(lines, a.id)
    BY <1>5, Zenon
  <2>2. Needs(lines, a.id, i, prices, threshold) = 0
    BY <2>1, Zenon DEF Needs
  <2> QED
    BY <2>2
<1>10. \A a \in accounts : n[a] \in Int
  <2> TAKE a \in accounts
  <2>1. Needs(lines, a.id, i, prices, threshold) \in Int
    BY NeedsType, Zenon
  <2> QED
    BY <2>1
<1>11. \A a \in Owners(lines) : g[a] \in Int
  <2> TAKE a \in Owners(lines)
  <2>1. Needs(lines, a, i, prices, threshold) \in Int
    BY NeedsType, Zenon
  <2> QED
    BY <2>1
<1>12. \A a \in Owners(lines) : n[MarginAccount(lines, a)] = g[a]
  <2> TAKE a \in Owners(lines)
  <2>1. MarginAccount(lines, a) \in accounts
    BY OwnersAre
  <2>2. MarginAccount(lines, a).id = a
    BY AccountIs
  <2>3. n[MarginAccount(lines, a)] = Needs(lines, MarginAccount(lines, a).id, i, prices, threshold)
    BY <2>1
  <2> QED
    BY <2>2, <2>3
<1>13. /\ DOMAIN full = paid /\ DOMAIN part = lent /\ DOMAIN g = Owners(lines)
       /\ long \in SUBSET accounts /\ paid \in SUBSET long /\ lent = long \ paid
  OBVIOUS
<1>14. IsFiniteSet(accounts)
  BY AccountsType
<1>15. NeededIn(lines, i, prices, threshold) = SumOf(g)
  BY Zenon DEF NeededIn
<1>16. ~(threshold = None \/ \E a \in lent : of(a) = {})
  <2>1. threshold # None
    BY NoneIsNoNumber
  <2>2. \A a \in lent : of(a) = {M(a)}
    BY <1>2
  <2> HIDE DEF of, M, lent
  <2>3. \A a \in lent : of(a) # {}
    BY <2>2
  <2> QED
    BY <2>1, <2>3
<1> HIDE DEF M, of, long, paid, lent, full, part, n, g
<1>17. Sum(n, accounts) = Sum(g, Owners(lines))
  <2>1. \A a \in Owners(lines) : g[a] \in Int /\ n[MarginAccount(lines, a)] = g[a]
    BY <1>11, <1>12
  <2>2. Sum(n, project_margin_accounts(lines)) = Sum(g, Owners(lines))
    BY <2>1, SumOverOwners
  <2> QED
    BY <2>2
<1>18. Sum(n, accounts) = Sum(n, long)
  BY <1>9, <1>10, <1>13, <1>14, SumRelevant
<1>19. IsFiniteSet(paid) /\ IsFiniteSet(lent) /\ IsFiniteSet(long)
  BY <1>13, <1>14, FS_Subset
<1>20. Sum(n, long) = Sum(n, paid) + Sum(n, lent)
  <2>1. paid \cap lent = {} /\ paid \cup lent = long
    BY <1>13
  <2>2. \A a \in paid \cup lent : n[a] \in Int
    BY <1>10, <1>13, <2>1
  <2>3. Sum(n, paid \cup lent) = Sum(n, paid) + Sum(n, lent)
    BY <1>19, <2>1, <2>2, SumDisjoint
  <2> QED
    BY <2>1, <2>3
<1>21. \A a \in paid : full[a] \in Int /\ full[a] = n[a]
  BY <1>7, <1>10, <1>13
<1>22. \A a \in lent : part[a] \in Int /\ part[a] = n[a]
  BY <1>8, <1>10, <1>13
<1>23. Sum(full, paid) = Sum(n, paid) /\ Sum(full, paid) \in Int
  BY <1>19, <1>21, SumCongruence, SumType
<1>24. Sum(part, lent) = Sum(n, lent) /\ Sum(part, lent) \in Int /\ (lent = {} => Sum(part, lent) = 0)
  BY <1>19, <1>22, SumCongruence, SumType
<1>25. r.fullyPaid = Sum(full, paid)
  BY <1>1, <1>13, SumOfIs, Zenon
<1>26. SumOf(part) = Sum(part, lent)
  BY <1>13, SumOfIs, Zenon
<1>27. r.excessMargin = Sum(part, lent)
  BY <1>1, <1>16, <1>24, <1>26, Zenon
<1>28. NeededIn(lines, i, prices, threshold) = Sum(g, Owners(lines))
  BY <1>13, <1>15, SumOfIs, Zenon
<1> QED
  BY <1>1, <1>17, <1>18, <1>20, <1>23, <1>24, <1>25, <1>27, <1>28

-----------------------------------------------------------------------------
\* Where an issue lies: of lines that lie on one side, what the engine is told of
\* places adds up to what the lines say.
LocatedOf(lines, i) == {l \in lines : l.side = "location" /\ l.issue = i}
LyingIn(lines, i, rules) == {l \in LocatedOf(lines, i) : RuleOfLocation(l.type) \in rules}
AtRule(lines, i, rule) == Total({l \in LocatedOf(lines, i) : RuleOfLocation(l.type) = rule})
RulesOf(lines, i) == {RuleOfLocation(l.type) : l \in LocatedOf(lines, i)}

LEMMA TotalByRule ==
    ASSUME NEW lines, LinesTyped(lines), NEW i, NEW R, IsFiniteSet(R), NEW g,
           \A rule \in R : g[rule] = AtRule(lines, i, rule)
    PROVE  Sum(g, R) = Total(LyingIn(lines, i, R))
<1> DEFINE Bad == {T \in SUBSET R : Sum(g, T) # Total(LyingIn(lines, i, T))}
<1>1. \A S \in SUBSET lines : Total(S) \in Int /\ LinesTyped(S)
  <2> TAKE S \in SUBSET lines
  <2>1. Total(S) \in Int
    BY TotalType, Zenon
  <2>2. LinesTyped(S)
    BY FS_Subset DEF LinesTyped
  <2> QED
    BY <2>1, <2>2
<1>2. \A rule \in R : g[rule] \in Int
  <2> TAKE rule \in R
  <2> DEFINE S == {l \in LocatedOf(lines, i) : RuleOfLocation(l.type) = rule}
  <2>1. S \in SUBSET lines
    BY DEF LocatedOf
  <2>2. g[rule] = Total(S)
    BY Zenon DEF AtRule
  <2> HIDE DEF S
  <2> QED
    BY <1>1, <2>1, <2>2, Zenon
<1>3. Bad = {}
  <2> SUFFICES ASSUME Bad # {} PROVE FALSE
    OBVIOUS
  <2>1. Bad \in SUBSET (SUBSET R)
    OBVIOUS
  <2>2. PICK T \in Bad : \A U \in SUBSET T : U # T => U \notin Bad
    <3> HIDE DEF Bad
    <3> QED
      BY <2>1, LeastSubset
  <2>3. T \in SUBSET R /\ IsFiniteSet(T)
    BY FS_Subset
  <2>4. CASE T = {}
    <3>1. LyingIn(lines, i, T) = {}
      BY <2>4 DEF LyingIn
    <3>2. Total({}) = 0
      <4>1. [amount |-> 0].amount \in Int
        OBVIOUS
      <4> QED
        BY <4>1, TotalOfOne, Zenon
    <3>3. Sum(g, T) = 0
      <4>1. \A x \in T : g[x] \in Int
        BY <2>4
      <4> QED
        BY <2>3, <2>4, <4>1, SumType
    <3> QED
      BY <2>2, <3>1, <3>2, <3>3
  <2>5. CASE T # {}
    <3>1. PICK x \in T : TRUE
      BY <2>5
    <3> DEFINE U == T \ {x}
               one == {l \in LocatedOf(lines, i) : RuleOfLocation(l.type) = x}
               others == LyingIn(lines, i, U)
    <3>2. U \in SUBSET T /\ U # T /\ U \in SUBSET R
      BY <2>3, <3>1
    <3>3. Sum(g, U) = Total(others)
      BY <2>2, <3>2
    <3>4. Sum(g, T) = g[x] + Sum(g, U)
      <4>1. \A y \in T : g[y] \in Int
        BY <1>2, <2>3
      <4> QED
        BY <2>3, <3>1, <4>1, SumRemove
    <3>5. g[x] = Total(one)
      BY <2>3, <3>1, Zenon DEF AtRule
    <3>6. LyingIn(lines, i, T) = one \cup others /\ one \cap others = {}
      BY <3>1 DEF LyingIn
    <3>7. one \in SUBSET lines /\ others \in SUBSET lines
      BY DEF LyingIn, LocatedOf
    <3> HIDE DEF one, others
    <3>8. Total(one \cup others) = Total(one) + Total(others)
      BY <1>1, <3>6, <3>7, TotalAdds
    <3>9. Sum(g, T) = Total(LyingIn(lines, i, T))
      BY <3>3, <3>4, <3>5, <3>6, <3>8
    <3> QED
      BY <2>2, <3>9
  <2> QED
    BY <2>4, <2>5
<1> QED
  BY <1>3

\* Lines that lie on one side, at places the rules know.
Lying(lines, i) ==
    \A l \in LocatedOf(lines, i) : l.type \in DOMAIN LocationRule
OneSided(lines, i) ==
    \A t \in DOMAIN LocationRule : Total({l \in LocatedOf(lines, i) : l.type \in {t}}) <= 0
PlaceRules == {"control.c1", "control.c5", "noncontrol.d1", "noncontrol.d2", "noncontrol.d4"}

LEMMA LocationTypes ==
    /\ DOMAIN LocationRule = {"DTC", "BANK_CONTROL", "FAIL_TO_DELIVER", "FAIL_TO_RECEIVE",
                              "STOCK_LOANED", "IN_TRANSFER"}
    /\ \A t \in DOMAIN LocationRule :
         /\ RuleOfLocation(t) \in PlaceRules
         /\ RuleOfLocation(t) = "control.c1" <=> t = "DTC"
         /\ RuleOfLocation(t) = "control.c5" <=> t = "BANK_CONTROL"
         /\ RuleOfLocation(t) = "noncontrol.d1" <=> t = "STOCK_LOANED"
         /\ RuleOfLocation(t) = "noncontrol.d4" <=> t = "IN_TRANSFER"
         /\ RuleOfLocation(t) = "noncontrol.d2" <=> t \in {"FAIL_TO_DELIVER", "FAIL_TO_RECEIVE"}
<1>1. DOMAIN LocationRule = {"DTC", "BANK_CONTROL", "FAIL_TO_DELIVER", "FAIL_TO_RECEIVE",
                             "STOCK_LOANED", "IN_TRANSFER"}
  BY DEF LocationRule
<1>2. \A t \in DOMAIN LocationRule : RuleOfLocation(t) = LocationRule[t]
  BY Zenon DEF RuleOfLocation
<1>3. /\ LocationRule["DTC"] = "control.c1" /\ LocationRule["BANK_CONTROL"] = "control.c5"
      /\ LocationRule["STOCK_LOANED"] = "noncontrol.d1" /\ LocationRule["IN_TRANSFER"] = "noncontrol.d4"
      /\ LocationRule["FAIL_TO_DELIVER"] = "noncontrol.d2" /\ LocationRule["FAIL_TO_RECEIVE"] = "noncontrol.d2"
  BY DEF LocationRule
<1> QED
  BY <1>1, <1>2, <1>3 DEF PlaceRules

LEMMA AtRuleOneSided ==
    ASSUME NEW lines, LinesTyped(lines), NEW i, Lying(lines, i), OneSided(lines, i), NEW rule
    PROVE  AtRule(lines, i, rule) \in Int /\ AtRule(lines, i, rule) <= 0
<1> DEFINE L == LocatedOf(lines, i)
           of(t) == {l \in L : l.type \in {t}}
           S == {l \in L : RuleOfLocation(l.type) = rule}
<1>1. \A T \in SUBSET L : Total(T) \in Int /\ LinesTyped(T)
  <2> TAKE T \in SUBSET L
  <2>1. T \in SUBSET lines
    BY DEF LocatedOf
  <2>2. Total(T) \in Int
    BY <2>1, TotalType, Zenon
  <2>3. LinesTyped(T)
    BY <2>1, FS_Subset DEF LinesTyped
  <2> QED
    BY <2>2, <2>3
<1>2. \A l \in L : l.type \in DOMAIN LocationRule
  BY DEF Lying
<1>3. \A t \in DOMAIN LocationRule : Total(of(t)) <= 0
  BY DEF OneSided
<1>4. AtRule(lines, i, rule) = Total(S) /\ S \in SUBSET L
  BY DEF AtRule
<1>5. \A t : of(t) \in SUBSET L /\ \A l \in L : l \in of(t) <=> l.type = t
  OBVIOUS
<1>6. Total({}) = 0
  <2>1. [amount |-> 0].amount \in Int
    OBVIOUS
  <2> QED
    BY <2>1, TotalOfOne, Zenon
<1>7. \A l : l \in S <=> l \in L /\ RuleOfLocation(l.type) = rule
  OBVIOUS
<1> HIDE DEF L, of, S
<1>8. \/ S = {}
      \/ \E t \in DOMAIN LocationRule : S = of(t)
      \/ S = of("FAIL_TO_DELIVER") \cup of("FAIL_TO_RECEIVE")
  <2>1. CASE rule \notin PlaceRules
    <3>1. \A l : l \notin S
      BY <1>2, <1>7, <2>1, LocationTypes
    <3> QED
      BY <3>1
  <2>2. \A t \in {"DTC", "BANK_CONTROL", "STOCK_LOANED", "IN_TRANSFER"} :
          rule = RuleOfLocation(t) => S = of(t)
    <3> TAKE t \in {"DTC", "BANK_CONTROL", "STOCK_LOANED", "IN_TRANSFER"}
    <3> HAVE rule = RuleOfLocation(t)
    <3>1. \A u \in DOMAIN LocationRule : RuleOfLocation(u) = rule <=> u = t
      BY LocationTypes
    <3>2. \A l : l \in S <=> l \in of(t)
      BY <1>2, <1>4, <1>5, <1>7, <3>1
    <3> QED
      BY <3>2
  <2>3. CASE rule = "noncontrol.d2"
    <3>1. \A u \in DOMAIN LocationRule :
            RuleOfLocation(u) = rule <=> u = "FAIL_TO_DELIVER" \/ u = "FAIL_TO_RECEIVE"
      BY <2>3, LocationTypes
    <3>2. \A l : l \in S <=> l \in of("FAIL_TO_DELIVER") \cup of("FAIL_TO_RECEIVE")
      BY <1>2, <1>4, <1>5, <1>7, <3>1
    <3> QED
      BY <3>2
  <2>4. \A t \in {"DTC", "BANK_CONTROL", "STOCK_LOANED", "IN_TRANSFER"} : t \in DOMAIN LocationRule
    BY LocationTypes
  <2>5. \/ rule \notin PlaceRules
        \/ rule = "noncontrol.d2"
        \/ \E t \in {"DTC", "BANK_CONTROL", "STOCK_LOANED", "IN_TRANSFER"} : rule = RuleOfLocation(t)
    <3>1. /\ RuleOfLocation("DTC") = "control.c1" /\ RuleOfLocation("BANK_CONTROL") = "control.c5"
          /\ RuleOfLocation("STOCK_LOANED") = "noncontrol.d1" /\ RuleOfLocation("IN_TRANSFER") = "noncontrol.d4"
      BY <2>4, LocationTypes
    <3> QED
      BY <3>1 DEF PlaceRules
  <2> QED
    BY <2>1, <2>2, <2>3, <2>4, <2>5
<1>9. CASE S = {}
  BY <1>4, <1>6, <1>9
<1>10. CASE \E t \in DOMAIN LocationRule : S = of(t)
  BY <1>1, <1>3, <1>4, <1>10
<1>11. CASE S = of("FAIL_TO_DELIVER") \cup of("FAIL_TO_RECEIVE")
  <2> DEFINE p == of("FAIL_TO_DELIVER")
             q == of("FAIL_TO_RECEIVE")
  <2>1. p \cap q = {}
    BY <1>5
  <2>2. LinesTyped(p) /\ LinesTyped(q) /\ Total(p) \in Int /\ Total(q) \in Int
    BY <1>1, <1>5
  <2>3. Total(p) <= 0 /\ Total(q) <= 0
    BY <1>3, LocationTypes
  <2>4. S = p \cup q
    BY <1>11
  <2> HIDE DEF p, q
  <2>5. Total(p \cup q) = Total(p) + Total(q)
    BY <2>1, <2>2, TotalAdds
  <2> QED
    BY <1>4, <2>2, <2>3, <2>4, <2>5
<1> QED
  BY <1>8, <1>9, <1>10, <1>11

\* What lies at some places: the quantities the engine is told, and the lines.
LEMMA HeldIs ==
    ASSUME NEW lines, LinesTyped(lines), NEW i, Lying(lines, i), OneSided(lines, i), NEW r,
           r.holdings = Holdings(lines, i), NEW places
    PROVE  Held(r, places) = -Total(LyingIn(lines, i, places)) /\ Held(r, places) \in Nat
<1> DEFINE R == RulesOf(lines, i) \cap places
           at_ == [rule \in R |-> AtRule(lines, i, rule)]
           down == [rule \in R |-> -AtRule(lines, i, rule)]
           zero == [rule \in R |-> 0]
           NZ == {rule \in R : AtRule(lines, i, rule) # 0}
           f == [rule \in R |-> [location |-> rule, quantity |-> Magnitude(AtRule(lines, i, rule)),
                                 age |-> None, loaned |-> None]]
           H == {h \in r.holdings : h.location \in places}
           q == [h \in H |-> h.quantity]
<1>1. \A rule : AtRule(lines, i, rule) \in Int /\ AtRule(lines, i, rule) <= 0
  BY AtRuleOneSided, Zenon
<1>2. IsFiniteSet(RulesOf(lines, i))
  <2> DEFINE L == LocatedOf(lines, i)
             h == [l \in L |-> RuleOfLocation(l.type)]
  <2>1. IsFiniteSet(L)
    BY FS_Subset DEF LocatedOf, LinesTyped
  <2>2. {h[l] : l \in L} = RulesOf(lines, i)
    BY DEF RulesOf
  <2> HIDE DEF L, h
  <2> QED
    BY <2>1, <2>2, ImageIsFinite
<1>3. IsFiniteSet(R) /\ IsFiniteSet(NZ)
  BY <1>2, FS_Subset
<1>4. H = {f[rule] : rule \in NZ}
  <2> DEFINE rec(rule) == [location |-> rule, quantity |-> Magnitude(AtRule(lines, i, rule)),
                           age |-> None, loaned |-> None]
             all == {rule \in RulesOf(lines, i) : AtRule(lines, i, rule) # 0}
  <2>1. r.holdings = {rec(rule) : rule \in all}
    BY Zenon DEF Holdings, RulesOf, AtRule, LocatedOf
  <2>2. \A rule : rec(rule).location = rule
    OBVIOUS
  <2>3. \A rule \in R : f[rule] = rec(rule)
    OBVIOUS
  <2>4. \A rule : rule \in NZ <=> rule \in all /\ rule \in places
    OBVIOUS
  <2>5. NZ \subseteq R
    OBVIOUS
  <2> HIDE DEF rec, all, f, NZ, R
  <2>6. \A h : h \in H <=> \E rule \in all : h = rec(rule) /\ rule \in places
    BY <2>1, <2>2
  <2>7. \A h : h \in H <=> \E rule \in NZ : h = f[rule]
    BY <2>3, <2>4, <2>5, <2>6
  <2> HIDE DEF H
  <2> QED
    BY <2>7
<1>5. \A x, y \in NZ : f[x] = f[y] => x = y
  <2> TAKE x \in NZ, y \in NZ
  <2> HAVE f[x] = f[y]
  <2>1. f[x].location = x /\ f[y].location = y
    OBVIOUS
  <2> QED
    BY <2>1, Zenon
<1>6. \A rule \in NZ : q[f[rule]] = down[rule]
  <2> TAKE rule \in NZ
  <2>1. f[rule] \in H
    BY <1>4, Zenon
  <2>2. f[rule].quantity = Magnitude(AtRule(lines, i, rule))
    OBVIOUS
  <2>3. Magnitude(AtRule(lines, i, rule)) = -AtRule(lines, i, rule)
    BY <1>1 DEF Magnitude
  <2>4. q[f[rule]] = f[rule].quantity
    BY <2>1
  <2>5. down[rule] = -AtRule(lines, i, rule)
    OBVIOUS
  <2> QED
    BY <2>2, <2>3, <2>4, <2>5
<1>7. \A rule \in R : down[rule] \in Nat /\ at_[rule] \in Int /\ zero[rule] = 0 /\ zero[rule] = at_[rule] + down[rule]
  <2> TAKE rule \in R
  <2>1. AtRule(lines, i, rule) \in Int /\ AtRule(lines, i, rule) <= 0
    BY <1>1
  <2>2. down[rule] = -AtRule(lines, i, rule) /\ at_[rule] = AtRule(lines, i, rule) /\ zero[rule] = 0
    OBVIOUS
  <2> QED
    BY <2>1, <2>2
<1>8. \A rule \in R \ NZ : down[rule] = 0
  OBVIOUS
<1>9. \A rule \in R : at_[rule] = AtRule(lines, i, rule)
  OBVIOUS
<1>10. NZ \in SUBSET R /\ DOMAIN q = H
  OBVIOUS
<1>11. Held(r, places) = SumOf(q)
  BY Zenon DEF Held, Quantity
<1>12. LyingIn(lines, i, R) = LyingIn(lines, i, places)
  BY DEF LyingIn, RulesOf
<1> HIDE DEF R, at_, down, zero, NZ, f, H, q
<1>13. Sum(q, {f[rule] : rule \in NZ}) = Sum(down, NZ)
  <2>1. \A rule \in NZ : down[rule] \in Int
    BY <1>7, <1>10
  <2> QED
    BY <1>3, <1>5, <1>6, <2>1, SumImage
<1>14. \A rule \in R : down[rule] \in Int
  BY <1>7
<1>15. Sum(down, R) = Sum(down, NZ)
  BY <1>3, <1>8, <1>10, <1>14, SumRelevant
<1>16. Sum(down, R) \in Nat
  BY <1>3, <1>7, SumNat
<1>17. Sum(zero, R) = Sum(at_, R) + Sum(down, R)
  BY <1>3, <1>7, <1>14, SumAdd
<1>18. Sum(zero, R) = 0
  BY <1>3, <1>7, SumZero
<1>19. Sum(at_, R) = Total(LyingIn(lines, i, R))
  BY <1>3, <1>9, TotalByRule
<1>20. Sum(at_, R) \in Int
  BY <1>3, <1>7, SumType
<1>21. SumOf(q) = Sum(down, R)
  BY <1>4, <1>10, <1>13, <1>15, SumOfIs, Zenon
<1> QED
  BY <1>11, <1>12, <1>16, <1>17, <1>18, <1>19, <1>20, <1>21

\* The places of an issue, as the engine is told of them.
LEMMA PlacesHeld ==
    ASSUME NEW lines, LinesTyped(lines), NEW i \in Issues, None \notin Issues,
           Lying(lines, i), OneSided(lines, i), Total(SecuritiesOf(lines, i)) = 0,
           NEW t, PlacesLoaded(t), NEW r, r.holdings = Holdings(lines, i), r.books = Owned(lines, i)
    PROVE  /\ Held(r, t.control) = Larger(Street(lines, i), -Street(lines, i))
           /\ Held(r, t.control) \in Nat
           /\ r.books \in Int /\ Held(r, Everywhere(r)) = r.books
           /\ \A h \in r.holdings : h.location \in PlaceRules /\ h.age = None /\ h.loaned = None
<1> DEFINE L == LocatedOf(lines, i)
<1>1. \A l \in L : l.type \in DOMAIN LocationRule
  BY DEF Lying
<1>2. LyingIn(lines, i, t.control) = {l \in lines : l.side = "location" /\ l.issue = i /\ l.type \in {"DTC", "BANK_CONTROL"}}
  <2>1. \A u \in DOMAIN LocationRule : RuleOfLocation(u) \in t.control <=> u \in {"DTC", "BANK_CONTROL"}
    <3>1. /\ {"control.c1", "control.c5"} \subseteq t.control
          /\ {"noncontrol.d1", "noncontrol.d2", "noncontrol.d4"} \cap t.control = {}
      BY DEF PlacesLoaded
    <3> QED
      BY <3>1, LocationTypes DEF PlaceRules
  <2>2. \A l \in L : RuleOfLocation(l.type) \in t.control <=> l.type \in {"DTC", "BANK_CONTROL"}
    BY <1>1, <2>1
  <2> QED
    BY <2>2 DEF LyingIn, LocatedOf
<1>3. Held(r, t.control) = -Street(lines, i) /\ Held(r, t.control) \in Nat
  <2>1. Held(r, t.control) = -Total(LyingIn(lines, i, t.control)) /\ Held(r, t.control) \in Nat
    BY HeldIs, Zenon
  <2> QED
    BY <1>2, <2>1, Zenon DEF Street
<1>4. Street(lines, i) \in Int
  BY SharesAreNumbers, Zenon
<1>5. Held(r, t.control) = Larger(Street(lines, i), -Street(lines, i))
  BY <1>3, <1>4 DEF Larger
<1>6. r.books = OwnedOf(lines, i) /\ r.books \in Int
  <2>1. i # None
    OBVIOUS
  <2> QED
    BY <2>1, OwnedIs, SharesAreNumbers, Zenon
<1>7. \A h \in r.holdings : h.location \in RulesOf(lines, i) /\ h.age = None /\ h.loaned = None
  <2> DEFINE rec(rule) == [location |-> rule, quantity |-> Magnitude(AtRule(lines, i, rule)),
                           age |-> None, loaned |-> None]
  <2>1. r.holdings = {rec(rule) : rule \in {x \in RulesOf(lines, i) : AtRule(lines, i, x) # 0}}
    BY Zenon DEF Holdings, RulesOf, AtRule, LocatedOf
  <2>2. \A rule : rec(rule).location = rule /\ rec(rule).age = None /\ rec(rule).loaned = None
    OBVIOUS
  <2> HIDE DEF rec
  <2> QED
    BY <2>1, <2>2
<1>8. RulesOf(lines, i) \subseteq PlaceRules
  BY <1>1, LocationTypes DEF RulesOf
<1>9. Held(r, Everywhere(r)) = Held(r, RulesOf(lines, i))
  <2>1. \A h \in r.holdings : h.location \in Everywhere(r)
    BY DEF Everywhere
  <2>2. {h \in r.holdings : h.location \in Everywhere(r)} = {h \in r.holdings : h.location \in RulesOf(lines, i)}
    BY <1>7, <2>1
  <2> QED
    BY <2>2, Zenon DEF Held
<1>10. LyingIn(lines, i, RulesOf(lines, i)) = L
  BY DEF LyingIn, RulesOf
<1>11. Held(r, RulesOf(lines, i)) = -Total(L)
  <2>1. Held(r, RulesOf(lines, i)) = -Total(LyingIn(lines, i, RulesOf(lines, i)))
    BY HeldIs, Zenon
  <2> QED
    BY <1>10, <2>1, Zenon
<1>12. OwnedOf(lines, i) + Total(L) = 0
  <2> DEFINE own == {l \in lines : l.side = "ownership" /\ l.issue = i}
  <2>1. SecuritiesOf(lines, i) = own \cup L /\ own \cap L = {}
    BY DEF SecuritiesOf, LocatedOf
  <2>2. LinesTyped(own) /\ LinesTyped(L)
    BY FS_Subset DEF LinesTyped, LocatedOf
  <2>3. OwnedOf(lines, i) = Total(own)
    BY Zenon DEF OwnedOf
  <2> HIDE DEF own, L
  <2>4. Total(own \cup L) = Total(own) + Total(L)
    BY <2>1, <2>2, TotalAdds
  <2> QED
    BY <2>1, <2>3, <2>4
<1>13. Total(L) \in Int
  <2>1. L \in SUBSET lines
    BY DEF LocatedOf
  <2> QED
    BY <2>1, TotalType, Zenon
<1> HIDE DEF L
<1>14. Held(r, Everywhere(r)) = r.books
  BY <1>6, <1>9, <1>11, <1>12, <1>13
<1> QED
  BY <1>3, <1>5, <1>6, <1>7, <1>8, <1>14

LEMMA FirmAction ==
    ASSUME NEW t, PlacesLoaded(t), NEW h, h.location \in PlaceRules \cap t.noncontrol,
           h.age = None, h.loaned = None
    PROVE  Action(h, t).rules = {}
<1>1. h.location \in {"noncontrol.d1", "noncontrol.d2", "noncontrol.d4"}
  BY DEF PlaceRules, PlacesLoaded
<1>2. CASE h.location = "noncontrol.d1"
  BY <1>2 DEF Action, LIEN_OR_LOAN, Found
<1>3. CASE h.location \in {"noncontrol.d2", "noncontrol.d4"}
  <2>1. /\ h.location # LIEN_OR_LOAN /\ h.location \in DOMAIN AGED
        /\ AGED[h.location] \in {"fail_to_receive_age", "short_allocation_age"}
    BY <1>3 DEF LIEN_OR_LOAN, AGED
  <2>2. Unloaded(t, {AGED[h.location]}) = {}
    BY <2>1 DEF PlacesLoaded, Unloaded
  <2> QED
    BY <2>1, <2>2 DEF Action, Found
<1> QED
  BY <1>1, <1>2, <1>3

\* The engine finds nothing unknown of an issue, and nothing wrong but that too little
\* of it is under control.
LEMMA IssueChecked ==
    ASSUME NEW lines, LinesTyped(lines), NEW i \in Issues, None \notin Issues,
           Lying(lines, i), OneSided(lines, i), Total(SecuritiesOf(lines, i)) = 0,
           NEW t, PlacesLoaded(t), NEW r, r.holdings = Holdings(lines, i), r.books = Owned(lines, i),
           r.fullyPaid \in Int, r.excessMargin \in Int
    PROVE  /\ CheckIssue(r, t).rules = {}
           /\ Clean(CheckIssue(r, t)) <=>
                r.fullyPaid + r.excessMargin <= Larger(Street(lines, i), -Street(lines, i))
<1>1. /\ Held(r, t.control) = Larger(Street(lines, i), -Street(lines, i))
      /\ Held(r, t.control) \in Nat
      /\ r.books \in Int /\ Held(r, Everywhere(r)) = r.books
      /\ \A h \in r.holdings : h.location \in PlaceRules /\ h.age = None /\ h.loaned = None
  BY PlacesHeld, Zenon
<1>2. r.books # None /\ r.fullyPaid # None /\ r.excessMargin # None
  BY <1>1, NoneIsNoNumber
<1> DEFINE needed == r.fullyPaid + r.excessMargin
           control == Held(r, t.control)
           short == Short(r, t)
           isShort == short # None /\ short > 0
           acted == IF isShort THEN {h \in r.holdings : h.location \in t.noncontrol} ELSE {}
           actions == {Action(h, t) : h \in acted}
           rules == Unnamed(r, t) \cup UNION {a.rules : a \in actions}
           inputs == {x \in {"fullyPaid", "excessMargin", "books"} : r[x] = None}
                       \cup UNION {a.inputs : a \in actions}
           breaches == When(/\ r.books # None
                            /\ Held(r, Everywhere(r)) # r.books, "not_conserved")
                         \cup When(isShort, "not_in_control")
<1>3. CheckIssue(r, t) = Found(short, rules, inputs, breaches)
  BY Zenon DEF CheckIssue
<1>4. Required(r) = needed /\ needed \in Int
  <2>1. needed \in Int
    OBVIOUS
  <2>2. Required(r) = needed
    BY <1>2, Zenon DEF Required
  <2> QED
    BY <2>1, <2>2
<1>5. short = Larger(needed - control, 0) /\ short # None
  <2>1. needed # None
    BY <1>4, NoneIsNoNumber
  <2>2. short = Larger(Required(r) - Held(r, t.control), 0)
    BY <1>4, <2>1, Zenon DEF Short
  <2>3. short = Larger(needed - control, 0)
    BY <1>4, <2>2, Zenon
  <2> HIDE DEF needed, control, short
  <2>4. Larger(needed - control, 0) \in Int
    BY <1>1, <1>4 DEF Larger, control
  <2> QED
    BY <2>3, <2>4, NoneIsNoNumber
<1>6. isShort <=> ~(needed <= control)
  <2> HIDE DEF needed, control, short
  <2>1. needed \in Int /\ control \in Int
    BY <1>1, <1>4 DEF control
  <2> QED
    BY <1>5, <2>1 DEF Larger
<1> HIDE DEF short, isShort
<1>7. Unnamed(r, t) = {}
  <2>1. PlaceRules \subseteq t.control \cup t.noncontrol
    BY DEF PlacesLoaded, PlaceRules
  <2> QED
    BY <1>1, <2>1 DEF Unnamed, Everywhere
<1>8. \A a \in actions : a.rules = {}
  <2>1. \A h \in acted : h \in r.holdings /\ h.location \in t.noncontrol
    OBVIOUS
  <2> HIDE DEF acted
  <2> TAKE a \in actions
  <2>2. PICK h \in acted : a = Action(h, t)
    OBVIOUS
  <2>3. h.location \in PlaceRules \cap t.noncontrol /\ h.age = None /\ h.loaned = None
    BY <1>1, <2>1
  <2> QED
    BY <2>2, <2>3, FirmAction
<1>9. ~isShort => actions = {}
  OBVIOUS
<1> HIDE DEF actions
<1>10. rules = {}
  BY <1>7, <1>8
<1>11. ~isShort => inputs = {} /\ breaches = {}
  <2>1. r["fullyPaid"] # None /\ r["excessMargin"] # None /\ r["books"] # None
    BY <1>2
  <2> QED
    BY <1>1, <1>9, <2>1 DEF When
<1>12. isShort => breaches # {}
  BY DEF When
<1> HIDE DEF rules, inputs, breaches
<1>13. CheckIssue(r, t).rules = {}
  BY <1>3, <1>10 DEF Found
<1>14. Clean(CheckIssue(r, t)) <=> ~isShort
  <2>1. Clean(Found(short, rules, inputs, breaches)) <=> rules = {} /\ inputs = {} /\ breaches = {}
    BY FoundParts, Zenon
  <2> QED
    BY <1>3, <1>10, <1>11, <1>12, <2>1
<1>15. Clean(CheckIssue(r, t)) <=> needed <= control
  BY <1>6, <1>14, Zenon
<1> QED
  BY <1>1, <1>13, <1>15, Zenon

-----------------------------------------------------------------------------
\* What is required of possession or control is what the engine says of the firm.
LEMMA RequiredControlIs ==
    ASSUME NEW lines, NEW prices, NEW t, Loaded(t, "excess_margin_threshold")
    PROVE  required_control(lines, prices, t) =
             IF \E i \in Issues : NeededIn(lines, i, prices, Value(t, "excess_margin_threshold"))
                                    > Larger(Street(lines, i), -Street(lines, i))
               THEN "HOLD" ELSE "PASS"
<1> DEFINE view == read_books(lines)
           threshold == Value(t, "excess_margin_threshold")
           requires(i) == SumOf([a \in DOMAIN view.cash |-> AccountRequires(view, a, prices, threshold)[i]])
<1>1. required_control(lines, prices, t) =
        IF \E i \in Issues : requires(i) > view.control[i] THEN "HOLD" ELSE "PASS"
  BY Zenon DEF required_control
<1>2. DOMAIN view.cash = Owners(lines)
      /\ \A i \in Issues : view.control[i] = Larger(Street(lines, i), -Street(lines, i))
  BY ViewIs
<1>3. \A i \in Issues : requires(i) = NeededIn(lines, i, prices, threshold)
  <2> TAKE i \in Issues
  <2> DEFINE f(a) == AccountRequires(view, a, prices, threshold)[i]
             g(a) == Needs(lines, a, i, prices, threshold)
  <2>1. \A a \in Owners(lines) : f(a) = g(a)
    BY RequiresIs, Zenon
  <2>2. requires(i) = SumOf([a \in DOMAIN view.cash |-> f(a)])
    BY Zenon
  <2>3. NeededIn(lines, i, prices, threshold) = SumOf([a \in Owners(lines) |-> g(a)])
    BY Zenon DEF NeededIn
  <2> HIDE DEF f, g
  <2>4. [a \in DOMAIN view.cash |-> f(a)] = [a \in Owners(lines) |-> g(a)]
    BY <1>2, <2>1
  <2> QED
    BY <2>2, <2>3, <2>4, Zenon
<1> HIDE DEF view, requires, threshold
<1>4. (\E i \in Issues : requires(i) > view.control[i])
        <=> \E i \in Issues : NeededIn(lines, i, prices, threshold) > Larger(Street(lines, i), -Street(lines, i))
  BY <1>2, <1>3, Zenon
<1> QED
  BY <1>1, <1>4, Zenon DEF threshold

LEMMA PartsDecided ==
    ASSUME NEW issues, IsFiniteSet(issues), NEW t, t.control # {},
           \A i \in issues : CheckIssue(i, t).rules = {}
    PROVE  check_possession_or_control(issues, t).disposition \in {"PASS", "HOLD"}
<1> DEFINE C == AllChecked(issues, t)
           p == SetToSeq(C)
           none == NoControl(issues, t)
<1>1. IsFiniteSet(C)
  <2> DEFINE f == [i \in issues |-> CheckIssue(i, t)]
  <2>1. C = {f[i] : i \in issues}
    BY DEF AllChecked
  <2> HIDE DEF f, C
  <2> QED
    BY <2>1, ImageIsFinite
<1>2. p \in Seq(C) /\ \A k \in DOMAIN p : p[k] \in C
  BY <1>1, Ordered, Zenon
<1>3. \A c \in C : c.rules = {}
  BY DEF AllChecked
<1>4. none.rules = {}
  BY DEF NoControl, When, Found
<1>5. check_possession_or_control(issues, t).disposition = Disposed(p \o <<none>>)
  <2> DEFINE all == p \o <<none>>
             d == Disposed(all)
  <2>1. check_possession_or_control(issues, t) = [disposition |-> d, breaches |-> AllBreaches(all)]
    BY Zenon DEF check_possession_or_control, AllChecked, NoControl
  <2> HIDE DEF d, all
  <2>2. check_possession_or_control(issues, t).disposition = d
    BY <2>1
  <2> QED
    BY <2>2, Zenon DEF d, all
<1> HIDE DEF p, C, none
<1>6. p \in Seq(C \cup {none}) /\ <<none>> \in Seq(C \cup {none})
  BY <1>2
<1>7. /\ \A k \in DOMAIN p : p[k].rules = {}
      /\ \A k \in DOMAIN <<none>> : <<none>>[k].rules = {}
  BY <1>2, <1>3, <1>4
<1> QED
  BY <1>5, <1>6, <1>7, BothDecided, Zenon

LEMMA ControlAgrees ==
    ASSUME NEW lines, LinesTyped(lines), None \notin Issues, IsFiniteSet(Issues),
           NEW prices \in [Issues -> Int], \A j \in Issues : prices[j] > 0,
           \A j \in Issues : Lying(lines, j) /\ OneSided(lines, j) /\ Total(SecuritiesOf(lines, j)) = 0,
           IssuesOwned(lines) # {}, NEW t, PlacesLoaded(t), NEW d,
           NEW accounts, accounts = project_margin_accounts(lines),
           NEW margins, margins = MarginsIn(lines, prices, d, t), NEW issues,
           issues = {Requirement(lines, i, accounts, margins, Value(t, "excess_margin_threshold")) :
                       i \in IssuesOwned(lines)}
    PROVE  required_control(lines, prices, t)
             \in {"UNDERIVABLE", check_possession_or_control(issues, t).disposition}
<1>1. CASE ~Loaded(t, "excess_margin_threshold")
  <2>1. required_control(lines, prices, t) = "UNDERIVABLE"
    BY <1>1, Zenon DEF required_control
  <2> QED
    BY <2>1
<1>2. CASE Loaded(t, "excess_margin_threshold")
  <2> DEFINE threshold == Value(t, "excess_margin_threshold")
             S == IssuesOwned(lines)
             req(i) == Requirement(lines, i, accounts, margins, threshold)
             control(i) == Larger(Street(lines, i), -Street(lines, i))
             needed(i) == NeededIn(lines, i, prices, threshold)
  <2>1. threshold \in Int
    BY <1>2 DEF PlacesLoaded, Loaded, Value
  <2>2. S \subseteq Issues
    BY DEF LinesTyped, LineTyped, IssuesOwned, Ownership
  <2>3. \A i \in S : CheckIssue(req(i), t).rules = {}
                     /\ (Clean(CheckIssue(req(i), t)) <=> needed(i) <= control(i))
    <3> TAKE i \in S
    <3> DEFINE r == req(i)
    <3>1. i \in Issues
      BY <2>2
    <3>2. r = Requirement(lines, i, accounts, margins, threshold)
      BY Zenon
    <3> HIDE DEF r, threshold, S
    <3>3. /\ r.fullyPaid \in Int /\ r.excessMargin \in Int
          /\ r.fullyPaid + r.excessMargin = NeededIn(lines, i, prices, threshold)
          /\ r.books = Owned(lines, i) /\ r.holdings = Holdings(lines, i)
      BY <2>1, <3>1, <3>2, RequirementNeeds
    <3>4. Lying(lines, i) /\ OneSided(lines, i) /\ Total(SecuritiesOf(lines, i)) = 0
      BY <3>1
    <3>5. /\ CheckIssue(r, t).rules = {}
          /\ Clean(CheckIssue(r, t)) <=>
               r.fullyPaid + r.excessMargin <= Larger(Street(lines, i), -Street(lines, i))
      BY <3>1, <3>3, <3>4, IssueChecked
    <3>6. CheckIssue(r, t).rules = {} /\ (Clean(CheckIssue(r, t)) <=> needed(i) <= control(i))
      BY <3>3, <3>5, Zenon
    <3> QED
      BY <3>6, Zenon DEF r
  <2>4. \A i \in Issues \ S : needed(i) <= control(i)
    <3> TAKE i \in Issues \ S
    <3>1. needed(i) = 0
      BY NothingNeeded, Zenon
    <3>2. Street(lines, i) \in Int
      BY SharesAreNumbers, Zenon
    <3> HIDE DEF needed
    <3> QED
      BY <3>1, <3>2 DEF Larger
  <2>5. \A i \in Issues : needed(i) \in Int /\ control(i) \in Int
    <3> TAKE i \in Issues
    <3>1. Street(lines, i) \in Int
      BY SharesAreNumbers, Zenon
    <3>2. control(i) \in Int
      BY <3>1 DEF Larger
    <3> DEFINE g == [a \in Owners(lines) |-> Needs(lines, a, i, prices, threshold)]
    <3>3. \A a \in Owners(lines) : Needs(lines, a, i, prices, threshold) \in Int
      BY <2>1, NeedsType, Zenon
    <3>4. \A a \in Owners(lines) : g[a] \in Int
      BY <3>3
    <3>5. needed(i) = SumOf(g) /\ DOMAIN g = Owners(lines)
      BY Zenon DEF NeededIn
    <3> HIDE DEF g, needed, threshold
    <3>6. SumOf(g) \in Int
      BY <3>4, <3>5, OwnersAre, SumOfType
    <3> QED
      BY <3>2, <3>5, <3>6, Zenon
  <2>6. required_control(lines, prices, t) =
          IF \E i \in Issues : needed(i) > control(i) THEN "HOLD" ELSE "PASS"
    BY <1>2, RequiredControlIs, Zenon
  <2>7. IsFiniteSet(issues)
    <3> DEFINE f == [i \in S |-> req(i)]
    <3>1. issues = {f[i] : i \in S}
      OBVIOUS
    <3>2. IsFiniteSet(S)
      BY <2>2, FS_Subset
    <3> HIDE DEF f, S
    <3>3. IsFiniteSet({f[i] : i \in S})
      BY <3>2, ImageIsFinite
    <3> QED
      BY <3>1, <3>3, Zenon
  <2>8. issues = {req(i) : i \in S}
    BY Zenon
  <2>9. t.control # {}
    BY DEF PlacesLoaded
  <2> HIDE DEF needed, control, req, S, threshold
  <2>10. \A x \in issues : CheckIssue(x, t).rules = {}
    BY <2>3, <2>8
  <2>11. check_possession_or_control(issues, t).disposition \in {"PASS", "HOLD"}
    BY <2>7, <2>9, <2>10, PartsDecided, Zenon
  <2>12. issues # {}
    BY <2>8 DEF S
  <2>13. check_possession_or_control(issues, t).disposition = "PASS" <=>
           \A i \in S : needed(i) <= control(i)
    <3>1. check_possession_or_control(issues, t).disposition = "PASS" <=>
            /\ \A x \in issues : Clean(CheckIssue(x, t))
            /\ t.control # {} /\ issues # {}
      BY <2>7, ControlPasses, Zenon
    <3>2. (\A x \in issues : Clean(CheckIssue(x, t))) <=> \A i \in S : Clean(CheckIssue(req(i), t))
      BY <2>8
    <3> QED
      BY <2>3, <2>9, <2>12, <3>1, <3>2, Zenon
  <2>14. (\E i \in Issues : needed(i) > control(i)) <=> ~(\A i \in S : needed(i) <= control(i))
    BY <2>2, <2>4, <2>5
  <2> QED
    BY <2>6, <2>11, <2>13, <2>14
<1> QED
  BY <1>1, <1>2

-----------------------------------------------------------------------------
\* The deposits and the balances of the reserve bank are neither securities nor the
\* customers': with them the books read the same.
Relevant(lines) ==
    {l \in lines : l.side \in {"ownership", "location"} \/ l.type \in CustomerTypes}

LEMMA SameRead ==
    ASSUME NEW lines, NEW other, Relevant(lines) = Relevant(other)
    PROVE  /\ read_books(lines) = read_books(other)
           /\ \A i : LocatedOf(lines, i) = LocatedOf(other, i)
           /\ \A i : SecuritiesOf(lines, i) = SecuritiesOf(other, i)
<1>1. \A l : l \in Relevant(lines) <=> l \in Relevant(other)
  BY Zenon
<1>2. \A l : l.side \in {"ownership", "location"} \/ l.type \in CustomerTypes
               => (l \in lines <=> l \in other)
  BY <1>1 DEF Relevant
<1>3. Customers(lines) = Customers(other)
  BY <1>2 DEF Customers
<1>4. Owners(lines) = Owners(other)
  BY <1>3, Zenon DEF Owners
<1>5. \A a : CashOf(lines, a) = CashOf(other, a)
  BY <1>3, Zenon DEF CashOf
<1>6. \A a, i : HeldOf(lines, a, i) = HeldOf(other, a, i)
  BY <1>3, Zenon DEF HeldOf
<1>7. \A i : LocatedOf(lines, i) = LocatedOf(other, i)
  BY <1>2 DEF LocatedOf
<1>8. \A i : SecuritiesOf(lines, i) = SecuritiesOf(other, i)
  BY <1>2 DEF SecuritiesOf
<1>9. \A i : OwnedOf(lines, i) = OwnedOf(other, i)
  <2> TAKE i
  <2>1. {l \in lines : l.side = "ownership" /\ l.issue = i} = {l \in other : l.side = "ownership" /\ l.issue = i}
    BY <1>2
  <2> QED
    BY <2>1, Zenon DEF OwnedOf
<1>10. \A i : Street(lines, i) = Street(other, i)
  <2> TAKE i
  <2>1. {l \in lines : l.side = "location" /\ l.issue = i /\ l.type \in {"DTC", "BANK_CONTROL"}}
          = {l \in other : l.side = "location" /\ l.issue = i /\ l.type \in {"DTC", "BANK_CONTROL"}}
    BY <1>2
  <2> QED
    BY <2>1, Zenon DEF Street
<1> DEFINE view(x) == [cash |-> [a \in Owners(x) |-> CashOf(x, a)],
                       held |-> [a \in Owners(x) |-> [i \in Issues |-> HeldOf(x, a, i)]],
                       owned |-> [i \in Issues |-> OwnedOf(x, i)],
                       control |-> [i \in Issues |-> Larger(Street(x, i), -Street(x, i))]]
<1>11. read_books(lines) = view(lines) /\ read_books(other) = view(other)
  BY ViewIs, Zenon
<1>12. view(lines) = view(other)
  <2>1. [a \in Owners(lines) |-> CashOf(lines, a)] = [a \in Owners(other) |-> CashOf(other, a)]
    BY <1>4, <1>5
  <2>2. [a \in Owners(lines) |-> [i \in Issues |-> HeldOf(lines, a, i)]]
          = [a \in Owners(other) |-> [i \in Issues |-> HeldOf(other, a, i)]]
    BY <1>4, <1>6
  <2>3. [i \in Issues |-> OwnedOf(lines, i)] = [i \in Issues |-> OwnedOf(other, i)]
    BY <1>9
  <2>4. [i \in Issues |-> Larger(Street(lines, i), -Street(lines, i))]
          = [i \in Issues |-> Larger(Street(other, i), -Street(other, i))]
    BY <1>10
  <2> QED
    BY <2>1, <2>2, <2>3, <2>4, Zenon
<1> HIDE DEF view
<1> QED
  BY <1>7, <1>8, <1>11, <1>12, Zenon

LEMMA SameRequired ==
    ASSUME NEW lines, NEW other, read_books(lines) = read_books(other), NEW prices, NEW worth, NEW t
    PROVE  /\ required_net_capital(lines, prices, worth, t) = required_net_capital(other, prices, worth, t)
           /\ required_control(lines, prices, t) = required_control(other, prices, t)
<1>1. required_net_capital(lines, prices, worth, t) = required_net_capital(other, prices, worth, t)
  BY Zenon DEF required_net_capital
<1>2. required_control(lines, prices, t) = required_control(other, prices, t)
  BY Zenon DEF required_control
<1> QED
  BY <1>1, <1>2

\* A line of the reserve bank.
BankTypes == {Banks[k] : k \in Accounts}
LEMMA BanksAre ==
    /\ BankTypes \cap CustomerTypes = {}
    /\ \A entry, amount, effective : \A k \in Accounts :
         LET l == BankLine(entry, k, amount, effective)
         IN  l.type \in BankTypes /\ l.side = "money" /\ l.issue = None
<1>1. BankTypes = {"RESERVE_BANK_CUSTOMER", "RESERVE_BANK_PAB"}
  BY AccountsAre DEF BankTypes, Banks
<1>2. \A entry, amount, effective : \A k \in Accounts :
         LET l == BankLine(entry, k, amount, effective)
         IN  l.type = Banks[k] /\ l.side = "money" /\ l.issue = None
  BY DEF BankLine
<1> QED
  BY <1>1, <1>2 DEF BankTypes, CustomerTypes

MoneyInBanks(lines) == \A l \in lines : l.type \in BankTypes => l.side = "money"
LEMMA BankLinesApart ==
    ASSUME MoneyInBanks(books), NEW deposits, NEW lines, lines = BroughtForward \cup Made(deposits)
    PROVE  /\ Relevant(lines) = Relevant(books)
           /\ \A l \in lines : l \in books \/ l.side = "money"
<1>1. \A l \in lines : l \in books \/ (l.type \in BankTypes /\ l.side = "money")
  <2> TAKE l \in lines
  <2>1. l \in BroughtForward \/ l \in Made(deposits)
    BY Zenon
  <2>2. CASE l \in BroughtForward
    <3>1. l \in books \/ \E k \in Accounts : l = BankLine(<<"forward", k, today>>, k, Opening(k), today)
      BY <2>2, ForwardLines, Zenon
    <3>2. CASE l \in books
      BY <3>2, Zenon
    <3>3. ASSUME NEW k \in Accounts, l = BankLine(<<"forward", k, today>>, k, Opening(k), today)
          PROVE  l.type \in BankTypes /\ l.side = "money"
      BY <3>3, BanksAre DEF BankLine, BankTypes
    <3> QED
      BY <3>1, <3>2, <3>3, Zenon
  <2>3. CASE l \in Made(deposits)
    <3>1. \E k \in Accounts :
            l = BankLine(<<deposits[k].outcome, k, today>>, k, deposits[k].amount, deposits[k].date)
      BY <2>3, MadeLines, Zenon
    <3>2. ASSUME NEW k \in Accounts,
                 l = BankLine(<<deposits[k].outcome, k, today>>, k, deposits[k].amount, deposits[k].date)
          PROVE  l.type \in BankTypes /\ l.side = "money"
      BY <3>2, BanksAre DEF BankLine, BankTypes
    <3> QED
      BY <3>1, <3>2, Zenon
  <2> QED
    BY <2>1, <2>2, <2>3
<1>2. \A l \in books : l.type \notin BankTypes => l \in BroughtForward
  BY DEF BroughtForward, BankTypes
<1>3. \A l \in books : l.type \notin BankTypes => l \in lines
  BY <1>2
<1>4. \A l : l.side \in {"ownership", "location"} \/ l.type \in CustomerTypes
               => (l \in lines <=> l \in books)
  <2> TAKE l
  <2> HAVE l.side \in {"ownership", "location"} \/ l.type \in CustomerTypes
  <2>1. ~(l.type \in BankTypes /\ l.side = "money")
    BY BanksAre
  <2>2. l \in books => l.type \notin BankTypes
    BY <2>1 DEF MoneyInBanks
  <2> QED
    BY <1>1, <1>3, <2>1, <2>2
<1>5. Relevant(lines) = Relevant(books)
  BY <1>4 DEF Relevant
<1> QED
  BY <1>1, <1>5

\* Every booking is balanced, and so are the books.
LEMMA DatedBalanced ==
    ASSUME NEW b \in Bookings, NEW i \in Issues
    PROVE  Total(SecuritiesOf(Dated(b), i)) = 0
<1> DEFINE line(l) == [entry |-> b.id, account |-> l.account, type |-> l.type, side |-> l.side,
                       issue |-> l.issue, amount |-> l.amount, effective |-> today, fact |-> l.fact]
           S == SecuritiesOf(b.lines, i)
           f == [l \in S |-> line(l)]
           D == SecuritiesOf(Dated(b), i)
           g == [l \in S |-> l.amount]
           h == [l \in D |-> l.amount]
<1>1. LinesTyped(b.lines) /\ Total(S) = 0
  BY BooksAssumption, InventoryAssumption DEF Balanced
<1>2. \A l \in b.lines : l = [account |-> l.account, type |-> l.type, side |-> l.side,
                              issue |-> l.issue, amount |-> l.amount, fact |-> l.fact]
  BY InventoryAssumption, Zenon
<1>3. \A l : line(l).side = l.side /\ line(l).issue = l.issue /\ line(l).amount = l.amount
             /\ line(l).account = l.account /\ line(l).type = l.type /\ line(l).fact = l.fact
  OBVIOUS
<1>4. S \in SUBSET b.lines
  BY DEF SecuritiesOf
<1>5. \A l \in S : f[l] = line(l)
  OBVIOUS
<1>6. Dated(b) = {line(l) : l \in b.lines}
  BY Zenon DEF Dated
<1> HIDE DEF line
<1>7. D = {f[l] : l \in S}
  <2>1. \A x : x \in D <=> \E l \in b.lines : x = line(l) /\ l.side \in {"ownership", "location"} /\ l.issue = i
    BY <1>3, <1>6 DEF SecuritiesOf
  <2>2. \A l : l \in S <=> l \in b.lines /\ l.side \in {"ownership", "location"} /\ l.issue = i
    BY DEF SecuritiesOf
  <2> HIDE DEF D, S, f
  <2>3. \A x : x \in D <=> \E l \in S : x = f[l]
    BY <1>5, <2>1, <2>2
  <2> QED
    BY <2>3
<1>8. \A x, y \in S : f[x] = f[y] => x = y
  <2> TAKE x \in S, y \in S
  <2> HAVE f[x] = f[y]
  <2>1. line(x) = line(y)
    BY <1>5
  <2>2. /\ x.side = y.side /\ x.issue = y.issue /\ x.amount = y.amount /\ x.account = y.account
        /\ x.type = y.type /\ x.fact = y.fact
    BY <1>3, <2>1, Zenon
  <2>3. /\ x = [account |-> x.account, type |-> x.type, side |-> x.side,
                issue |-> x.issue, amount |-> x.amount, fact |-> x.fact]
        /\ y = [account |-> y.account, type |-> y.type, side |-> y.side,
                issue |-> y.issue, amount |-> y.amount, fact |-> y.fact]
    BY <1>2, <1>4
  <2> QED
    BY <2>2, <2>3, Zenon
<1>9. \A l \in S : g[l] \in Int
  BY <1>1, <1>4 DEF LinesTyped, LineTyped
<1>10. \A l \in S : h[f[l]] = g[l]
  <2> TAKE l \in S
  <2>1. f[l] \in D
    BY <1>7, Zenon
  <2>2. h[f[l]] = f[l].amount /\ g[l] = l.amount
    BY <2>1
  <2>3. f[l].amount = l.amount
    BY <1>3, <1>5, Zenon
  <2> QED
    BY <2>2, <2>3
<1>11. IsFiniteSet(S)
  BY <1>1, <1>4, FS_Subset DEF LinesTyped
<1>12. Total(S) = SumOf(g) /\ Total(D) = SumOf(h) /\ DOMAIN g = S /\ DOMAIN h = D
  <2>1. Total(S) = SumOf(g) /\ Total(D) = SumOf(h)
    BY Zenon DEF Total
  <2>2. DOMAIN g = S /\ DOMAIN h = D
    OBVIOUS
  <2> QED
    BY <2>1, <2>2
<1> HIDE DEF S, f, D, g, h
<1>13. Sum(h, {f[l] : l \in S}) = Sum(g, S)
  BY <1>8, <1>9, <1>10, <1>11, SumImage
<1>14. Total(D) = Total(S)
  BY <1>7, <1>12, <1>13, SumOfIs, Zenon
<1> QED
  BY <1>1, <1>14, Zenon DEF D

LEMMA BookBalances ==
    ASSUME NEW b \in Bookings, LinesTyped(books), Balanced(books), ~Posted(b.id)
    PROVE  Balanced(books \cup Dated(b))
<1>1. books \cap Dated(b) = {}
  <2>1. \A l \in Dated(b) : l.entry = b.id
    BY DEF Dated
  <2>2. \A l \in books : l.entry # b.id
    BY Zenon DEF Posted
  <2> QED
    BY <2>1, <2>2
<1>2. LinesTyped(Dated(b))
  BY BookedTyped, Zenon
<1>3. ASSUME NEW i \in Issues PROVE Total(SecuritiesOf(books \cup Dated(b), i)) = 0
  <2> DEFINE S == SecuritiesOf(books, i)
             T == SecuritiesOf(Dated(b), i)
  <2>1. SecuritiesOf(books \cup Dated(b), i) = S \cup T /\ S \cap T = {}
    BY <1>1 DEF SecuritiesOf
  <2>2. S \in SUBSET books /\ T \in SUBSET Dated(b)
    BY DEF SecuritiesOf
  <2>3. Total(S) = 0
    BY Zenon DEF Balanced
  <2>4. Total(T) = 0
    BY DatedBalanced, Zenon
  <2> HIDE DEF S, T
  <2>5. LinesTyped(S) /\ LinesTyped(T)
    BY <1>2, <2>2, FS_Subset DEF LinesTyped
  <2>6. Total(S \cup T) = Total(S) + Total(T)
    BY <2>1, <2>5, TotalAdds, Zenon
  <2> QED
    BY <2>1, <2>3, <2>4, <2>6
<1>4. ASSUME NEW l \in books \cup Dated(b)
      PROVE  /\ l.side = "location" => l.type \in DOMAIN LocationRule
             /\ l.type \in {Banks[k] : k \in Accounts} => l.side = "money"
  <2>1. CASE l \in books
    BY <2>1, Zenon DEF Balanced
  <2>2. CASE l \in Dated(b)
    <3>1. PICK m \in b.lines : l.type = m.type /\ l.side = m.side
      BY <2>2 DEF Dated
    <3>2. Balanced(b.lines)
      BY InventoryAssumption, Zenon
    <3>3. /\ m.side = "location" => m.type \in DOMAIN LocationRule
          /\ m.type \in {Banks[k] : k \in Accounts} => m.side = "money"
      BY <3>2, Zenon DEF Balanced
    <3> QED
      BY <3>1, <3>3, Zenon
  <2> QED
    BY <2>1, <2>2
<1> QED
  BY <1>3, <1>4, Zenon DEF Balanced

\* The books of a firm that is protected stay balanced, and of some issue something is owned.
Shaped(lines) == Balanced(lines) /\ \E l \in lines : l.side = "ownership" /\ l.issue \in Issues
ShapeInv == profile.part = "protect" => Shaped(books)

LEMMA SameShape ==
    ASSUME NEW lines, Shaped(lines), NEW other, Relevant(other) = Relevant(lines),
           \A l \in other : l \in lines \/ l.side = "money"
    PROVE  Shaped(other)
<1>1. \A i : SecuritiesOf(other, i) = SecuritiesOf(lines, i)
  BY SameRead, Zenon
<1>2. \A i \in Issues : Total(SecuritiesOf(other, i)) = 0
  BY <1>1, Zenon DEF Shaped, Balanced
<1>3. ASSUME NEW l \in other
      PROVE  /\ l.side = "location" => l.type \in DOMAIN LocationRule
             /\ l.type \in {Banks[k] : k \in Accounts} => l.side = "money"
  <2>1. CASE l \in lines
    BY <2>1, Zenon DEF Shaped, Balanced
  <2>2. CASE l.side = "money"
    BY <2>2
  <2> QED
    BY <2>1, <2>2
<1>4. \E l \in other : l.side = "ownership" /\ l.issue \in Issues
  <2>1. PICK l \in lines : l.side = "ownership" /\ l.issue \in Issues
    BY Zenon DEF Shaped
  <2>2. l \in Relevant(lines)
    BY <2>1 DEF Relevant
  <2>3. l \in other
    BY <2>2 DEF Relevant
  <2> QED
    BY <2>1, <2>3
<1> QED
  BY <1>2, <1>3, <1>4, Zenon DEF Shaped, Balanced

LEMMA ShapeAlways == Spec => []ShapeInv
<1>1. Init => ShapeInv
  BY InventoryAssumption, Zenon DEF Init, ShapeInv, Shaped
<1>2. FirmInv /\ ShapeInv /\ [Next]_vars => ShapeInv'
  <2> SUFFICES ASSUME FirmInv, ShapeInv, [Next]_vars, profile'.part = "protect"
               PROVE  Shaped(books')
    BY Zenon DEF ShapeInv, Shaped, Balanced, SecuritiesOf, Total
  <2>1. CASE Book
    <3>1. profile.part = "protect"
      BY <2>1, Zenon DEF Book
    <3>2. PICK b \in Bookings \ Booked : books' = books \cup Dated(b)
      BY <2>1, Zenon DEF Book
    <3>3. ~Posted(b.id)
      BY <3>2, Zenon DEF Booked
    <3>4. LinesTyped(books) /\ Balanced(books) /\ \E l \in books : l.side = "ownership" /\ l.issue \in Issues
      BY <3>1, Zenon DEF FirmInv, ShapeInv, Shaped
    <3>5. Balanced(books \cup Dated(b))
      BY <3>2, <3>3, <3>4, BookBalances, Zenon
    <3>6. Shaped(books \cup Dated(b))
      BY <3>4, <3>5, Zenon DEF Shaped
    <3> QED
      BY <3>2, <3>6, Zenon
  <2>2. CASE Protect
    <3>1. PICK ds : books' = BroughtForward \cup Made(ds)
      BY <2>2, Zenon DEF Protect, ProtectFrom, ProtectAs, Settle, Post
    <3>2. profile.part = "protect"
      BY <2>2, Zenon DEF Protect
    <3>3. Shaped(books)
      BY <3>2, Zenon DEF ShapeInv
    <3>4. MoneyInBanks(books)
      BY <3>3, Zenon DEF Shaped, Balanced, MoneyInBanks, BankTypes
    <3> DEFINE lines == BroughtForward \cup Made(ds)
    <3>5. Relevant(lines) = Relevant(books) /\ \A l \in lines : l \in books \/ l.side = "money"
      BY <3>4, BankLinesApart, Zenon
    <3> HIDE DEF lines
    <3>6. Shaped(lines)
      BY <3>3, <3>5, SameShape, Zenon
    <3> QED
      BY <3>1, <3>6, Zenon DEF lines
  <2>3. CASE UNCHANGED <<profile, books>>
    <3>1. Shaped(books)
      BY <2>3, Zenon DEF ShapeInv
    <3> QED
      BY <2>3, <3>1, Zenon
  <2>4. [Next]_vars => Book \/ Protect \/ UNCHANGED <<profile, books>>
    BY Zenon DEF Next, vars, Restate, NextDay, Review, Wait, CountSecurities, Validate
  <2> QED
    BY <2>1, <2>2, <2>3, <2>4
<1> QED
  BY <1>1, <1>2, FirmAlways, PTL DEF Spec

-----------------------------------------------------------------------------
\* What the engines are given of the books.
LEMMA EnginesGiven ==
    /\ CapitalInputs(Projected).positions
               = {PositionOf(books, i, profile.prices) : i \in IssuesOwned(books)}
          /\ EquityFirm(CapitalInputs(Projected), profile.worth,
                        SumOf([a \in project_margin_accounts(books) |-> Larger(-a.cash, 0)]))
          /\ Projected.issues = {Requirement(books, i, project_margin_accounts(books), Margins(books),
                                             Value(profile.table, "excess_margin_threshold")) :
                                   i \in IssuesOwned(books)}
<1> DEFINE p == Projected
           c == CapitalInputs(p)
           debits == SumOf([a \in project_margin_accounts(books) |-> Larger(-a.cash, 0)])
           positions == {PositionOf(books, i, profile.prices) : i \in IssuesOwned(books)}
           needs(i) == Requirement(books, i, project_margin_accounts(books), Margins(books),
                                   Value(profile.table, "excess_margin_threshold"))
           needed == {needs(i) : i \in IssuesOwned(books)}
<1>1. PICK reserve, pab, margins :
         p = [reserve |-> reserve, pab |-> pab,
              capital |-> [worth |-> profile.worth, debits |-> debits, positions |-> positions],
              issues |-> needed, margins |-> margins]
  BY Zenon DEF Projected, project_customer_protection, Projection, Threshold, IssuesOwned, PositionOf
<1>2. \A i : PositionOf(books, i, profile.prices).class = "equity"
  BY DEF PositionOf
<1>3. \A x \in positions : x.class = "equity"
  BY <1>2
<1> HIDE DEF p, debits, positions, needed
<1>4. /\ p.issues = needed
      /\ p.capital.worth = profile.worth /\ p.capital.debits = debits /\ p.capital.positions = positions
  BY <1>1
<1>5. /\ c.worth = p.capital.worth /\ c.debits = p.capital.debits /\ c.positions = p.capital.positions
      /\ c.additions = {} /\ c.deductions = {} /\ c.standard = "alternative"
      /\ c.category = "carrying" /\ c.monthly = FALSE /\ c.loaned = 0 /\ c.borrowed = 0
  BY DEF CapitalInputs
<1> HIDE DEF c
<1>6. c.positions = positions /\ EquityFirm(c, profile.worth, debits)
  BY <1>3, <1>4, <1>5, Zenon DEF EquityFirm
<1> QED
  BY <1>4, <1>6, Zenon DEF p, c, debits, positions, needed

\* What the day's protections say of capital and control.
LEMMA ProtectAnswers ==
    ASSUME FirmInv, Protect
    PROVE  \E ds :
             /\ books' = BroughtForward \cup Made(ds)
             /\ held'.capital = compute_net_capital(CapitalInputs(Projected), profile.table)
             /\ held'.control = check_possession_or_control(Projected.issues, profile.table)
<1> DEFINE capital == compute_net_capital(CapitalInputs(Projected), profile.table)
           control == check_possession_or_control(Projected.issues, profile.table)
<1>1. PICK draw \in Draws : ProtectAs(draw, Projected, Inputs(Projected), DeadlineOf(today))
  BY Zenon DEF Protect, ProtectFrom, DeadlineOf
<1>2. PICK ds : Settle(Projected, Inputs(Projected), ds, DeadlineOf(today))
  BY <1>1, Zenon DEF ProtectAs
<1>3. books' = BroughtForward \cup Made(ds)
  BY <1>2, Zenon DEF Settle, Post
<1>4. PICK customer, pab, deposits, deadline, margins :
           held' = [customer |-> customer, pab |-> pab, deposits |-> deposits,
                    deadline |-> deadline, margins |-> margins, capital |-> capital,
                    control |-> control]
  BY <1>2, Zenon DEF Settle, Post
<1> HIDE DEF capital, control
<1>5. held'.capital = capital /\ held'.control = control
  BY <1>4
<1> QED
  BY <1>3, <1>5, Zenon DEF capital, control

\* The books of a shape that is the firm's: on one side at each place, and all that is
\* owned lies somewhere.
ShapedAs(lines) == \A i \in Issues : OneSided(lines, i)
LEMMA FirmShapedIs == FirmShaped <=> ShapedAs(books)
<1>1. \A i, t : {l \in books : l.side = "location" /\ l.issue = i /\ l.type \in {t}}
                  = {l \in LocatedOf(books, i) : l.type \in {t}}
  BY DEF LocatedOf
<1>2. FirmShaped <=> \A i \in Issues : \A t \in DOMAIN LocationRule :
                       Total({l \in books : l.side = "location" /\ l.issue = i /\ l.type \in {t}}) <= 0
  BY Zenon DEF FirmShaped
<1> DEFINE lies(i, t) == {l \in books : l.side = "location" /\ l.issue = i /\ l.type \in {t}}
           located(i, t) == {l \in LocatedOf(books, i) : l.type \in {t}}
<1>3. \A i, t : lies(i, t) = located(i, t)
  BY <1>1, Zenon
<1>4. FirmShaped <=> \A i \in Issues : \A t \in DOMAIN LocationRule : Total(lies(i, t)) <= 0
  BY <1>2, Zenon
<1>5. ShapedAs(books) <=> \A i \in Issues : \A t \in DOMAIN LocationRule : Total(located(i, t)) <= 0
  BY Zenon DEF ShapedAs, OneSided
<1> HIDE DEF lies, located
<1>6. \A i, t : Total(lies(i, t)) = Total(located(i, t))
  BY <1>3, Zenon
<1> QED
  BY <1>4, <1>5, <1>6

\* Both engines say what the same books require.
AgreesWith(lines, capital, control) ==
    ShapedAs(lines) =>
      /\ required_net_capital(lines, profile.prices, profile.worth, profile.table)
           \in {"UNDERIVABLE", capital.disposition}
      /\ required_control(lines, profile.prices, profile.table)
           \in {"UNDERIVABLE", control.disposition}

LEMMA EnginesAgreeHere ==
    ASSUME FirmInv, ShapeInv, profile.part = "protect"
    PROVE  AgreesWith(books, compute_net_capital(CapitalInputs(Projected), profile.table),
                             check_possession_or_control(Projected.issues, profile.table))
<1> DEFINE t == profile.table
           in == CapitalInputs(Projected)
           accounts == project_margin_accounts(books)
           margins == Margins(books)
           issues == Projected.issues
           threshold == Value(t, "excess_margin_threshold")
<1>1. /\ None \notin Issues /\ IsFiniteSet(Issues)
      /\ PlacesLoaded(t) /\ profile.worth \in Int /\ \A i \in Issues : profile.prices[i] > 0
  BY InventoryAssumption, BooksAssumption, Zenon DEF FirmInv
<1>2. LinesTyped(books) /\ profile.prices \in [Issues -> Int] /\ Shaped(books)
  BY FirmFacts, Zenon DEF ShapeInv
<1>3. "leverage_warning" \in DOMAIN t.value /\ \A id \in DOMAIN t.value : t.value[id] \in Nat
  BY <1>1 DEF PlacesLoaded
<1>4. /\ in.positions = {PositionOf(books, i, profile.prices) : i \in IssuesOwned(books)}
      /\ EquityFirm(in, profile.worth, SumOf([a \in accounts |-> Larger(-a.cash, 0)]))
      /\ issues = {Requirement(books, i, accounts, margins, threshold) : i \in IssuesOwned(books)}
  BY EnginesGiven, Zenon
<1>5. EquityFirm(in, profile.worth, DebitsIn(books))
  BY <1>2, <1>4, DebitsAre, Zenon
<1>6. margins = MarginsIn(books, profile.prices, today, t)
  BY Zenon DEF Margins, MarginsIn
<1>7. \A i \in Issues : Lying(books, i) /\ Total(SecuritiesOf(books, i)) = 0
  <2>1. \A i \in Issues : Total(SecuritiesOf(books, i)) = 0
    BY <1>2, Zenon DEF Shaped, Balanced
  <2>2. \A l \in books : l.side = "location" => l.type \in DOMAIN LocationRule
    BY <1>2, Zenon DEF Shaped, Balanced
  <2>3. \A i \in Issues : Lying(books, i)
    BY <2>2 DEF Lying, LocatedOf
  <2> QED
    BY <2>1, <2>3
<1>8. IssuesOwned(books) # {}
  <2>1. PICK l \in books : l.side = "ownership" /\ l.issue \in Issues
    BY <1>2, Zenon DEF Shaped
  <2>2. l \in Ownership(books)
    BY <1>1, <2>1 DEF Ownership
  <2> QED
    BY <2>2 DEF IssuesOwned
<1> HIDE DEF t, in, accounts, margins, issues, threshold
<1>9. required_net_capital(books, profile.prices, profile.worth, t)
        \in {"UNDERIVABLE", compute_net_capital(in, t).disposition}
  BY <1>1, <1>2, <1>3, <1>4, <1>5, CapitalAgrees
<1>10. ASSUME ShapedAs(books)
       PROVE  required_control(books, profile.prices, t)
                \in {"UNDERIVABLE", check_possession_or_control(issues, t).disposition}
  <2>1. \A i \in Issues : Lying(books, i) /\ OneSided(books, i) /\ Total(SecuritiesOf(books, i)) = 0
    BY <1>7, <1>10, Zenon DEF ShapedAs
  <2>2. accounts = project_margin_accounts(books) /\ threshold = Value(t, "excess_margin_threshold")
    BY Zenon DEF accounts, threshold
  <2> QED
    BY <1>1, <1>2, <1>4, <1>6, <1>8, <2>1, <2>2, ControlAgrees
<1> QED
  BY <1>9, <1>10, Zenon DEF AgreesWith, t, in, issues

\* What agrees with some books agrees with others that read the same.
LEMMA AgreesRead ==
    ASSUME NEW lines, NEW other, Relevant(other) = Relevant(lines), NEW capital, NEW control,
           AgreesWith(lines, capital, control)
    PROVE  AgreesWith(other, capital, control)
<1>1. read_books(other) = read_books(lines) /\ \A i : LocatedOf(other, i) = LocatedOf(lines, i)
  BY SameRead, Zenon
<1>2. ShapedAs(other) <=> ShapedAs(lines)
  BY <1>1, Zenon DEF ShapedAs, OneSided
<1> DEFINE prices == profile.prices
           worth == profile.worth
           table == profile.table
<1> HIDE DEF prices, worth, table
<1>3. /\ required_net_capital(other, prices, worth, table) = required_net_capital(lines, prices, worth, table)
      /\ required_control(other, prices, table) = required_control(lines, prices, table)
  BY <1>1, SameRequired
<1>4. /\ required_net_capital(other, profile.prices, profile.worth, profile.table)
           = required_net_capital(lines, profile.prices, profile.worth, profile.table)
      /\ required_control(other, profile.prices, profile.table)
           = required_control(lines, profile.prices, profile.table)
  BY <1>3, Zenon DEF prices, worth, table
<1> QED
  BY <1>2, <1>4, Zenon DEF AgreesWith

\* What the day's protections say of capital and control, while they are held.
AgreedInv == step = "protected" => AgreesWith(books, held.capital, held.control)

LEMMA AgreedAlways == Spec => []AgreedInv
<1>1. Init => AgreedInv
  BY Zenon DEF Init, AgreedInv
<1>2. FirmInv /\ ShapeInv /\ AgreedInv /\ [Next]_vars => AgreedInv'
  <2> SUFFICES ASSUME FirmInv, ShapeInv, AgreedInv, [Next]_vars PROVE AgreedInv'
    OBVIOUS
  <2>1. CASE Protect
    <3>1. profile.part = "protect" /\ profile' = profile
      BY <2>1, Zenon DEF Protect
    <3>2. PICK ds :
             /\ books' = BroughtForward \cup Made(ds)
             /\ held'.capital = compute_net_capital(CapitalInputs(Projected), profile.table)
             /\ held'.control = check_possession_or_control(Projected.issues, profile.table)
      BY <2>1, ProtectAnswers, Zenon
    <3>3. AgreesWith(books, held'.capital, held'.control)
      BY <3>1, <3>2, EnginesAgreeHere, Zenon
    <3>4. MoneyInBanks(books)
      BY <3>1, Zenon DEF ShapeInv, Shaped, Balanced, MoneyInBanks, BankTypes
    <3>5. Relevant(books') = Relevant(books)
      BY <3>2, <3>4, BankLinesApart, Zenon
    <3>6. AgreesWith(books', held'.capital, held'.control)
      BY <3>3, <3>5, AgreesRead, Zenon
    <3> QED
      BY <3>1, <3>6, Zenon DEF AgreedInv, AgreesWith
  <2>2. CASE step' = "book"
    <3>1. step' # "protected"
      BY <2>2
    <3> QED
      BY <3>1, Zenon DEF AgreedInv
  <2>3. CASE UNCHANGED <<profile, step, books, held>>
    BY <2>3, Zenon DEF AgreedInv, AgreesWith
  <2>4. [Next]_vars => Protect \/ step' = "book" \/ UNCHANGED <<profile, step, books, held>>
    BY Zenon DEF Next, vars, Book, Restate, NextDay, Review, Wait, CountSecurities, Validate
  <2> QED
    BY <2>1, <2>2, <2>3, <2>4
<1> QED
  BY <1>1, <1>2, FirmAlways, ShapeAlways, PTL DEF Spec

\* Net capital and possession or control come out as the books require whenever the
\* firm's locations lie on one side, whatever was booked, deposited and brought forward
\* before (compute_net_capital and check_possession_or_control against the second
\* derivation of simulator/protection_oracle.py, which shares no code with them; the
\* firm's I6, FIX-11).
THEOREM EnginesAlwaysAgree == Spec => []EnginesAgree
<1>1. AgreedInv => EnginesAgree
  BY FirmShapedIs, Zenon DEF AgreedInv, AgreesWith, EnginesAgree
<1> QED
  BY <1>1, AgreedAlways, PTL
=============================================================================
