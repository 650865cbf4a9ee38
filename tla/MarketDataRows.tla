--------------------------- MODULE MarketDataRows ---------------------------
(***************************************************************************)
(* Published documents and the rows made of them (marketdata/normalize.py, *)
(* catalog.py), and what the calibration loader admits.  Everything here   *)
(* is a function of its arguments.                                         *)
(*                                                                         *)
(* A document is its kind and its observations in order; an observation    *)
(* is a day, a metric, a value that may be blank, and whether the          *)
(* publisher's column names an instrument.  A bundle of repo series is     *)
(* final when each of its series is the publisher's own final one.  Days   *)
(* are numbers.  Of text, only this is kept: whether a number and a date   *)
(* can be read from it.                                                    *)
(***************************************************************************)
EXTENDS Integers, Sequences, SequencesExt, FiniteSets

CONSTANTS Calendar,     \* day -> "business", "closed" or "unknown"
          Catalog,      \* source -> [class, notice], None for no notice
          RateMin, RateMax,
          Blank, None

Days == DOMAIN Calendar
\* _OFR_REPO_SERIES: the rates among the six series; the others are volumes.
RepoRates == {"REPO-DVP_AR_TOT-F", "REPO-GCF_AR_TOT-F", "REPO-TRI_AR_TOT-F"}
Unit(kind, metric) ==
  CASE kind \in {"treasury", "nyfed"}              -> "percent"
    [] kind = "ofr_repo" /\ metric \in RepoRates   -> "percent"
    [] kind = "sec"                               -> "count"
    [] OTHER                                      -> "usd"

\* The observations of a document that are not blank, as rows.
Row(kind, o) ==
  [date |-> o.day, metric |-> o.metric, value |-> o.value, unit |-> Unit(kind, o.metric)]
Given(kind, os) ==
  LET kept == SelectSeq(os, LAMBDA o : o.value # Blank)
  IN  [i \in DOMAIN kept |-> Row(kind, kept[i])]

\* Fails are summed over the instruments of a day, in the order of days.
FailsOn(os, d) ==
  FoldSeq(LAMBDA o, sum : sum + o.value, 0, SelectSeq(os, LAMBDA o : o.day = d))
FailRows(os) ==
  LET days == SetToSortSeq({os[i].day : i \in DOMAIN os}, <)
  IN  [i \in DOMAIN days |->
        Row("sec", [day |-> days[i], metric |-> "fails",
                    value |-> FailsOn(os, days[i])])]

Names(os)   == \E i \in DOMAIN os : os[i].names
Blanks(os)  == \E i \in DOMAIN os : os[i].value = Blank
Anonymous(os) == SelectSeq(os, LAMBDA o : ~o.names)

\* A document that cannot be read in full is refused whole.
Unreadable(doc) ==
  LET os == doc.observations
  IN  CASE doc.kind = "treasury" -> FALSE
        [] doc.kind = "nyfed"    -> Blanks(os)
        [] doc.kind = "fiscal"   -> Given("fiscal", Anonymous(os)) = <<>>
        [] doc.kind = "ofr"      -> Names(os)
        [] doc.kind = "ofr_repo" -> ~doc.final
        [] doc.kind = "sec"      -> Blanks(os)

\* The parsers, by kind of source.
TreasuryRows(os) == Given("treasury", os)
NYFedRows(os)    == Given("nyfed", os)
FiscalRows(os)   == Given("fiscal", Anonymous(os))
OFRRows(os)      == Given("ofr", os)
OFRRepoRows(os)  == Given("ofr_repo", os)
Parsed(doc) ==
  LET os == doc.observations
  IN  CASE doc.kind = "treasury" -> TreasuryRows(os)
        [] doc.kind = "nyfed"    -> NYFedRows(os)
        [] doc.kind = "fiscal"   -> FiscalRows(os)
        [] doc.kind = "ofr"      -> OFRRows(os)
        [] doc.kind = "ofr_repo" -> OFRRepoRows(os)
        [] doc.kind = "sec"      -> FailRows(os)

\* validate_rows: the errors of a table.  The scan of the calendar stops at the
\* first day of which the calendar knows nothing.
RowErrors(rows) ==
  LET all     == {rows[i] : i \in DOMAIN rows}
      metrics == {r.metric : r \in all}
      on(m)   == {r.date : r \in {q \in all : q.metric = m}}
      dates   == {r.date : r \in all}
      span    == {d \in Days : (\E a \in dates : a <= d) /\ (\E b \in dates : d <= b)}
      scanned == {d \in span : \A e \in span : e <= d => Calendar[e] # "unknown"}
      same(i, j) == /\ i < j
                    /\ rows[i].date = rows[j].date /\ rows[i].metric = rows[j].metric
      fault ==
        [range     |-> \E r \in all : /\ r.unit = "percent"
                                      /\ r.value \notin RateMin..RateMax,
         differing |-> \E i, j \in DOMAIN rows :
                         same(i, j) /\ rows[i].value # rows[j].value,
         uneven    |-> \E m, n \in metrics : on(m) # on(n),
         unknown   |-> scanned # span,
         gap       |-> \E m \in metrics, d \in scanned :
                         Calendar[d] = "business" /\ d \notin on(m)]
  IN  {name \in DOMAIN fault : fault[name]}

\* Rows of a window, as a pack keeps them: by day and metric.
Window(rows, w) == SelectSeq(rows, LAMBDA r : w[1] <= r.date /\ r.date <= w[2])

\* What the loader asks of an input of a pack.
Admitted(input) ==
  /\ input.class \in {"A", "B", "SYNTHETIC"}
  /\ input.class = "B" => /\ input.notice # None
                          /\ input.notice = Catalog[input.source].notice
\* The catalog's own rule for a source.
SourceValid(s) ==
  /\ Catalog[s].class \in {"A", "B"}
  /\ Catalog[s].class = "B" => Catalog[s].notice # None
=============================================================================
