----------------------------- MODULE RuleTable -----------------------------
(***************************************************************************)
(* What the customer-protection engines share (customer_protection/common, *)
(* rules): a table of loaded rules, and a disposition made of what was not *)
(* loaded, what was not supplied and what is breached.                     *)
(*                                                                         *)
(* A table is [value, exhibit, control, noncontrol]: the loaded rules with *)
(* their values (percentages are whole), and the loaded ones of the kinds  *)
(* an engine asks for.  A figure is a number, or None.                     *)
(***************************************************************************)
EXTENDS Integers, FiniteSets, FiniteSetsExt, Sequences, SequencesExt

CONSTANT None

Loaded(table, id) == id \in DOMAIN table.value
Value(table, id)  == IF Loaded(table, id) THEN table.value[id] ELSE None
Values(table, ids) == [id \in ids |-> Value(table, id)]

---------------------------------------------------------------------------
\* Loading the table (rules/loader.py): a row is kept if it is well formed and its
\* source, at the bytes it was read from, still says what the row does.
\*
\* A source is [loaded, hash, label]; a row [id, kind, value, figure, valid, source,
\* pinned, quoted, compliance, complianceQuoted]; a figure [number, unit].

Reads == [percent |-> "PERCENT", percent_of_one |-> "PERCENT", usd |-> "USD", million |-> "USD",
          months |-> "MONTHS", years |-> "MONTHS", calendar_days |-> "CALENDAR_DAYS",
          business_days |-> "BUSINESS_DAYS", count |-> "COUNT"]
\* What does not begin with a whole number; a count may be of anything else.
Uncountable == {"usd", "million", "percent_of_one"}
parse_figure(kind, figure) ==
  IF kind = "COUNT" THEN IF figure.unit \in Uncountable THEN None ELSE figure.number
  ELSE IF figure.unit \notin DOMAIN Reads \/ Reads[figure.unit] # kind THEN None
  ELSE CASE figure.unit = "million" -> 1000000 * figure.number
         [] figure.unit = "years" -> 12 * figure.number
         [] OTHER -> figure.number

Valued == {"PERCENT", "USD", "MONTHS", "CALENDAR_DAYS", "BUSINESS_DAYS", "COUNT"}
RowValid(row) == row.valid /\ (row.kind \in Valued <=> row.figure # None)
Quotes(row, id, sources) == id \in DOMAIN sources /\ sources[id].loaded
Checked(row, sources) ==
  /\ Quotes(row, row.source, sources)
  /\ sources[row.source].label = "RULE"
  /\ row.pinned = sources[row.source].hash
  /\ row.quoted
  /\ row.figure # None => parse_figure(row.kind, row.figure) = row.value
  /\ row.compliance # None =>
       Quotes(row, row.compliance, sources) /\ row.complianceQuoted

\* Of two well-formed rows with one id the second is rejected, whatever became of
\* the first.
load_rule_table(rows, sources) ==
  LET kept == {k \in DOMAIN rows :
                 /\ RowValid(rows[k]) /\ Checked(rows[k], sources)
                 /\ \A j \in 1..(k - 1) : RowValid(rows[j]) => rows[j].id # rows[k].id}
      ids(kind) == {rows[k].id : k \in {j \in kept : rows[j].kind = kind}}
  IN  [value |-> [id \in {rows[k].id : k \in kept} |->
                    rows[CHOOSE k \in kept : rows[k].id = id].value],
       exhibit |-> ids("EXHIBIT_A"), control |-> ids("CONTROL"), noncontrol |-> ids("NONCONTROL")]

---------------------------------------------------------------------------
\* What reading a part of the inputs finds.
Found(value, rules, inputs, breaches) ==
  [value |-> value, rules |-> rules, inputs |-> inputs, breaches |-> breaches]
When(test, finding) == IF test THEN {finding} ELSE {}
Unloaded(table, ids) == ids \ DOMAIN table.value

Known(figures) == None \notin figures
Percent(rate, amount) == (rate * amount) \div 100
Larger(x, y)  == IF x > y THEN x ELSE y
Smaller(x, y) == IF x < y THEN x ELSE y
SumOf(f) == MapThenSumSet(LAMBDA x : f[x], DOMAIN f)

\* Mutant: what was not supplied does not hold.
OnlyBreaches(rules, inputs, breaches) ==
  IF rules # {} THEN "INDETERMINATE" ELSE IF breaches # {} THEN "HOLD" ELSE "PASS"
\* A missing rule outranks a missing input and a breach.
decide(rules, inputs, breaches) ==
  IF rules # {} THEN "INDETERMINATE"
  ELSE IF inputs # {} \/ breaches # {} THEN "HOLD"
  ELSE "PASS"
AllRules(parts)    == UNION {parts[k].rules : k \in DOMAIN parts}
AllInputs(parts)   == UNION {parts[k].inputs : k \in DOMAIN parts}
AllBreaches(parts) == UNION {parts[k].breaches : k \in DOMAIN parts}
Disposed(parts) == decide(AllRules(parts), AllInputs(parts), AllBreaches(parts))

---------------------------------------------------------------------------
\* An engine's figures against a vendor's (customer_protection/challenger): every
\* difference is classified, and only agreement or rounding passes.  Figures are a
\* sequence of [name, group, value], the vendor's one of [name, value, asOf];
\* tolerance is a number or None.
VarianceClass == {"not_compared", "match", "timing", "rounding", "classification", "unknown"}
Passing == {"match", "rounding"}
Names(figures) == {figures[k].name : k \in DOMAIN figures}

\* Of two vendor figures with one name the later counts.
VendorFigure(name, vendor) ==
  LET of == {k \in DOMAIN vendor : vendor[k].name = name}
  IN  IF of = {} THEN None ELSE vendor[Max(of)]

Distance(x, y) == IF x > y THEN x - y ELSE y - x
Variance(name, group, variance, class) ==
  [name |-> name, group |-> group, variance |-> variance, class |-> class]

FirstPass(f, engineAsOf, vendorAsOf, vendor, tolerance) ==
  LET v == VendorFigure(f.name, vendor)
      asOf == IF v.asOf = None THEN vendorAsOf ELSE v.asOf
      variance == v.value - f.value
      class == IF variance = 0 THEN "match"
               ELSE IF asOf # engineAsOf THEN "timing"
               ELSE IF tolerance # None /\ Distance(v.value, f.value) <= tolerance THEN "rounding"
               ELSE "unknown"
  IN  IF f.value = None \/ v = None THEN Variance(f.name, f.group, None, "not_compared")
      ELSE IF v.value = None THEN Variance(f.name, f.group, None, "not_compared")
      ELSE Variance(f.name, f.group, variance, class)

\* Two unexplained differences of one group that cancel explain each other.  Each
\* figure, in order, takes the first later one that is still free.
Offsets(vs, i, j, tolerance) ==
  /\ vs[i].class = "unknown" /\ vs[j].class = "unknown" /\ vs[i].group = vs[j].group
  /\ Distance(vs[i].variance + vs[j].variance, 0) <= IF tolerance = None THEN 0 ELSE tolerance
Paired(vs, tolerance) ==
  LET Pair(i, taken) ==
        LET free == {j \in (i + 1)..Len(vs) : j \notin taken /\ Offsets(vs, i, j, tolerance)}
        IN  IF i \in taken \/ free = {} THEN taken ELSE taken \cup {i, Min(free)}
  IN  FoldLeft(LAMBDA taken, i : Pair(i, taken), {}, [i \in DOMAIN vs |-> i])
PairOffsets(vs, tolerance) ==
  LET paired == Paired(vs, tolerance)
  IN  [i \in DOMAIN vs |->
         IF i \in paired THEN [vs[i] EXCEPT !.class = "classification"] ELSE vs[i]]

VendorOnly(figures, vendor) ==
  LET extra == SelectSeq(vendor, LAMBDA v : v.name \notin Names(figures))
  IN  [k \in DOMAIN extra |-> Variance(extra[k].name, "vendor_only", None, "not_compared")]

challenge(figures, engineRules, engineAsOf, vendorAsOf, vendor, tolerance) ==
  LET first == [k \in DOMAIN figures |->
                  FirstPass(figures[k], engineAsOf, vendorAsOf, vendor, tolerance)]
      vs == PairOffsets(first \o VendorOnly(figures, vendor), tolerance)
      class(c) == {vs[k].name : k \in {j \in DOMAIN vs : vs[j].class \in c}}
  IN  [variances |-> vs,
       disposition |->
         decide(engineRules,
                class({"not_compared"}) \cup When(tolerance = None, "rounding_tolerance"),
                class(VarianceClass \ (Passing \cup {"not_compared"})))]

\* What an engine offers for comparison, for a reserve computation.
reserve_figures(in, result, ids) ==
  SetToSeq({[name |-> id, group |-> "lines",
             value |-> IF id \in DOMAIN in.lines THEN in.lines[id] ELSE None] : id \in ids})
  \o [k \in 1..6 |->
        LET name == <<"credits", "debits", "reduction", "requirement", "eligible",
                      "shortfall">>[k]
        IN  [name |-> name, group |-> "reserve", value |-> result[name]]]
=============================================================================
