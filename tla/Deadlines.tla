----------------------------- MODULE Deadlines -----------------------------
(***************************************************************************)
(* The deadlines the firm is held to (deadlines/): the market calendar and *)
(* the four assessments made with it: closing out a fail to deliver (rule  *)
(* 204), depositing into a reserve account, counting securities (17a-13)   *)
(* and transferring an account (ACATS).  An assessment is INDETERMINATE    *)
(* when a rule is missing, HOLD when an input is missing or the deadline   *)
(* has passed, and PASS otherwise.  Advice only: nothing here acts.        *)
(*                                                                         *)
(* Dates are natural numbers, 0 a Monday; an instant is a date and an hour *)
(* as one number, HoursPerDay to a day.                                    *)
(***************************************************************************)
EXTENDS Integers, FiniteSets, FiniteSetsExt, Sequences

CONSTANTS Holidays,      \* weekdays without business
          LoadedUntil,   \* the calendar knows the dates up to this one
          MonthStarts,   \* a sequence: the date each month begins on
          HoursPerDay,
          None
ASSUME CalendarIsLoaded ==
  /\ Holidays \subseteq Nat /\ LoadedUntil \in Nat /\ HoursPerDay \in Nat \ {0}
  /\ MonthStarts[1] = 0
  /\ \A m \in DOMAIN MonthStarts : m > 1 => MonthStarts[m - 1] < MonthStarts[m]

DateOf(instant) == instant \div HoursPerDay
At(date, hour)  == date * HoursPerDay + hour

---------------------------------------------------------------------------
\* The calendar.

IsBusinessDay(d) == d % 7 < 5 /\ d \notin Holidays
BusinessDays(from, to) == {d \in from..to : IsBusinessDay(d)}

\* The days-th business day after start, whether or not start is one; None when
\* the calendar ends before it (CalendarIndeterminateError).
AddBusinessDays(start, days) ==
  LET reached == {d \in start..LoadedUntil : Cardinality(BusinessDays(start + 1, d)) = days}
  IN  IF reached = {} THEN None ELSE Min(reached)
BusinessDaysAfter(start, close) == Cardinality(BusinessDays(start + 1, close))

\* Months of unequal length: a date keeps its day of the month, or takes the
\* month's last day.
MonthOf(d) == Max({m \in DOMAIN MonthStarts : MonthStarts[m] <= d})
AddMonths(d, months) ==
  LET m    == MonthOf(d)
      last == MonthStarts[m + months + 1] - 1
  IN  Min({MonthStarts[m + months] + d - MonthStarts[m], last})

---------------------------------------------------------------------------
\* What an assessment says; due is None when it does not come to a date.

Assessment(due, rules, inputs, breaches) ==
  [disposition |-> IF rules # {} THEN "INDETERMINATE"
                   ELSE IF inputs # {} \/ breaches # {} THEN "HOLD"
                   ELSE "PASS",
   due |-> due, rules |-> rules, inputs |-> inputs, breaches |-> breaches]
NoRule(r)  == Assessment(None, {r}, {}, {})
NoInput(i) == Assessment(None, {}, {i}, {})
If(test, finding) == IF test THEN {finding} ELSE {}

---------------------------------------------------------------------------
\* Rule 204: a fail [trade, settles, origin], by the opening of trading.

Origins == {"SHORT_OR_GENERAL", "LONG", "MARKET_MAKING", "DEEMED_OWNED"}

assess_rule_204(fail, at, calendar, open, table) ==
  IF fail.origin = None THEN NoInput("origin_class")
  ELSE IF fail.origin \notin Origins THEN NoRule("origin_class")
  ELSE IF fail.origin \notin DOMAIN table THEN NoRule(fail.origin)
  ELSE IF open = None THEN NoRule("regular_trading_hours")
  ELSE IF table[fail.origin].unit = "SETTLEMENT_DAYS" /\ ~calendar
         THEN NoInput("settlement_calendar")
  ELSE IF table[fail.origin].unit \notin {"SETTLEMENT_DAYS", "CALENDAR_DAYS"}
         THEN NoRule("unsupported_unit")
  ELSE LET rule == table[fail.origin]
           due  == IF rule.unit = "SETTLEMENT_DAYS"
                     THEN AddBusinessDays(fail.settles, rule.value)
                     ELSE fail.trade + rule.value
       IN  Assessment(At(due, open), {}, {},
                      If(at > At(due, open), "close_out_overdue"))

---------------------------------------------------------------------------
\* The reserve deposit: by an hour after banking opens, two business days after
\* the computation.

Bases == {"WEEKLY", "REQUIRED_DAILY", "QUALIFYING_MONTHLY", "ADDITIONAL", "VOLUNTARY_DAILY"}

assess_reserve_deposit(computation, at, calendar, open, table) ==
  IF computation.basis = None THEN NoInput("computation_basis")
  ELSE IF computation.basis \notin Bases THEN NoRule("computation_basis")
  ELSE LET missing == {computation.basis, "opening_offset"} \ DOMAIN table
       IN  IF missing # {} THEN Assessment(None, missing, {}, {})
           ELSE IF open = None THEN NoRule("opening_of_banking_business")
           ELSE IF ~calendar THEN NoInput("business_calendar")
           ELSE IF \/ table[computation.basis].unit # "BUSINESS_DAYS"
                   \/ table.opening_offset.unit # "CLOCK_TIME"
                  THEN NoRule("units")
           ELSE LET date == AddBusinessDays(DateOf(computation.at),
                                            table[computation.basis].value)
                    due  == At(date, open) + table.opening_offset.value
                IN  Assessment(due, {}, {}, If(at > due, "reserve_deposit_overdue"))

---------------------------------------------------------------------------
\* The count of securities: not sooner than two months after the last one, and
\* not later than four.

assess_security_count(count, at, calendar, table) ==
  LET spacing == {"minimum_spacing", "maximum_spacing"}
      missing == (spacing \cup {"difference_recording"}) \ DOMAIN table
  IN  IF missing # {} THEN Assessment(None, missing, {}, {})
      ELSE IF count.prior = {} THEN NoInput("prior_count_date")
      ELSE IF ~calendar THEN NoInput("business_calendar")
      ELSE IF \E s \in spacing : table[s].unit # "MONTHS" THEN NoRule("spacing_units")
      ELSE IF table.difference_recording.unit # "BUSINESS_DAYS" THEN NoRule("unsupported_unit")
      ELSE LET earliest == AddMonths(Max(count.prior), table.minimum_spacing.value)
               latest   == AddMonths(Max(count.prior), table.maximum_spacing.value)
               counted  == count.date # None
           IN  Assessment(None, {}, {},
                   If(counted /\ count.date < earliest, "count_too_soon")
                   \cup If(counted /\ count.date > latest, "count_too_late")
                   \cup If(~counted /\ DateOf(at) > latest, "count_overdue"))

---------------------------------------------------------------------------
\* The transfer of an account [instructed, validated]: validation, then
\* completion.  The source is good from one date to another.

\* Mutant: a validation, however late, ends the matter of being late.
OnceValidated(transfer, today, table) ==
  IF transfer.validated # None THEN {}
  ELSE If(today > AddBusinessDays(DateOf(transfer.instructed), table.validation.value),
          "validation_overdue")
TransferBreaches(transfer, today, table) ==
  LET validation == AddBusinessDays(DateOf(transfer.instructed), table.validation.value)
      done == transfer.validated # None
  IN  If(~done /\ today > validation, "validation_overdue")
      \cup If(done /\ DateOf(transfer.validated) > validation, "validation_late")
      \cup If(/\ done
              /\ today > AddBusinessDays(DateOf(transfer.validated), table.completion.value),
              "completion_overdue")

assess_acats(transfer, at, calendar, table, source) ==
  IF \/ source = None
     \/ DateOf(at) < source.from
     \/ source.until = None
     \/ DateOf(at) > source.until
    THEN NoRule("current_acats_version")
  ELSE LET missing == {"validation", "completion"} \ DOMAIN table
       IN  IF missing # {} THEN Assessment(None, missing, {}, {})
           ELSE IF ~calendar THEN NoInput("business_calendar")
           ELSE IF \E r \in {"validation", "completion"} : table[r].unit # "BUSINESS_DAYS"
                  THEN NoRule("unsupported_unit")
           ELSE Assessment(None, {}, {}, TransferBreaches(transfer, DateOf(at), table))
=============================================================================
