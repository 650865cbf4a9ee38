------------------------- MODULE SettlementEvidence -------------------------
(***************************************************************************)
(* What messaging/ makes of evidence it is handed: a status report         *)
(* reconciled with what was prepared (readback.py), a status read as       *)
(* finality (finality_evidence.py), the receipts of what the entitled      *)
(* member did (receipt.py), and their join (settlement_join.py).  All of   *)
(* it is pure.                                                             *)
(*                                                                         *)
(* An instruction is a record with its two identifiers `msg` and `e2e`,    *)
(* the time it was `created`, its `amount` (which stands for amount and    *)
(* currency) and its `parties`.  All of them are in the XML it is          *)
(* rendered to, so an artifact, and its digest, is the instruction.        *)
(***************************************************************************)
EXTENDS Integers, Sequences, SequencesExt, FiniteSetsExt

CONSTANT None

-----------------------------------------------------------------------------
(* A report is the message it says it answers, or None, and its entries.   *)
(* An entry has an end-to-end identifier, a status and an echoed amount,   *)
(* each of them None where the venue left it out.                          *)

Terminal == {"ACCEPTED_WITH_CHANGE", "SETTLED", "REJECTED", "CANCELLED"}
EarlyStatus == {"UNRECOGNIZED", "RECEIVED", "IN_PROGRESS", "ACCEPTED_NOT_POSTED"}
Status == EarlyStatus \cup Terminal

(* MATCHED_STATUS_ORDER *)
Order(status) ==
  CASE status = "UNRECOGNIZED" -> 0
    [] status = "RECEIVED" -> 1
    [] status = "IN_PROGRESS" -> 2
    [] status = "ACCEPTED_NOT_POSTED" -> 3
    [] OTHER -> 4

Readable(entry) == entry.e2e # None /\ entry.status # None

Solicited(entry, instructions) ==
  \E i \in instructions : i.e2e = entry.e2e

(* The message answered and the end-to-end identifier name two different   *)
(* prepared instructions.                                                  *)
IdentifiersDisagree(report, entry, instructions) ==
  \E i, j \in instructions :
    i.e2e = entry.e2e /\ j.msg = report.original /\ i # j

Usable(report, entry, instructions) ==
  /\ Readable(entry)
  /\ Solicited(entry, instructions)
  /\ ~IdentifiersDisagree(report, entry, instructions)

(* Mutant: settled is the end, and what comes after it is not looked at. *)
ProgressionUntilSettled(prior, status) ==
  IF prior \in {None, status, "SETTLED"} THEN {}
  ELSE IF Order(status) < Order(prior) THEN {"STATUS_REGRESSION"}
  ELSE IF Order(status) = Order(prior) THEN {"STATUS_CONFLICT"}
  ELSE {}

(* What is to be said against a status, given what was known before it.    *)
ProgressionBreak(prior, status) ==
  IF prior \in {None, status} THEN {}
  ELSE IF prior = "SETTLED" \/ Order(status) < Order(prior) THEN {"STATUS_REGRESSION"}
  ELSE IF Order(status) = Order(prior) THEN {"STATUS_CONFLICT"}
  ELSE {}

EntryBreaks(entry, instructions, known) ==
  {status \in {"UNRECOGNIZED", "ACCEPTED_WITH_CHANGE", "REJECTED"} : status = entry.status}
  \cup {code \in {"AMOUNT_MISMATCH"} :
          \E i \in instructions : i.e2e = entry.e2e /\ entry.echoed \notin {None, i.amount}}
  \cup ProgressionBreak(known[entry.e2e], entry.status)

(* Mutant: what was not prepared here is not looked at. *)
BreakCodesOfPrepared(report, entry, instructions, known) ==
  IF ~Readable(entry) THEN {"MALFORMED_STATUS_ENTRY"}
  ELSE IF ~Solicited(entry, instructions) THEN {}
  ELSE IF IdentifiersDisagree(report, entry, instructions) THEN {"IDENTIFIER_DISAGREEMENT"}
  ELSE EntryBreaks(entry, instructions, known)

BreakCodes(report, entry, instructions, known) ==
  IF ~Readable(entry) THEN {"MALFORMED_STATUS_ENTRY"}
  ELSE IF ~Solicited(entry, instructions) THEN {"UNSOLICITED_STATUS"}
  ELSE IF IdentifiersDisagree(report, entry, instructions) THEN {"IDENTIFIER_DISAGREEMENT"}
  ELSE EntryBreaks(entry, instructions, known)

Breaks(report, instructions, known) ==
  UNION {{[code |-> code, e2e |-> entry.e2e] :
            code \in BreakCodes(report, entry, instructions, known)} :
         entry \in Range(report.entries)}

(* Of two entries for one payment the later one is kept.                   *)
Matched(report, instructions) ==
  LET usable == {k \in DOMAIN report.entries : Usable(report, report.entries[k], instructions)}
      last(id) == Max({k \in usable : report.entries[k].e2e = id})
  IN  [id \in {report.entries[k].e2e : k \in usable} |-> report.entries[last(id)].status]

Reconcile(report, instructions, known) ==
  [report |-> report,
   matched |-> Matched(report, instructions),
   breaks |-> Breaks(report, instructions, known)]

AbsentReadback ==
  [report |-> [original |-> None, entries |-> << >>],
   matched |-> << >>,
   breaks |-> {[code |-> "NO_READBACK", e2e |-> None]}]

-----------------------------------------------------------------------------
(* How far an entry can be read, with what grade.  `fields` says what the  *)
(* caller supplied for the assertion: legal, observed too early, or not    *)
(* the fields of a fact.                                                   *)

Fields == {"legal", "early", "illegal"}

Reading(state, grade) == [state |-> state, grade |-> grade]

Earlier(status) ==
  CASE status = "UNRECOGNIZED" -> Reading("UNREAD", "INDETERMINATE")
    [] status = "RECEIVED" -> Reading("MATCHED", "HOLD")
    [] status \in {"REJECTED", "CANCELLED"} -> Reading("REFUSED", "HOLD")
    [] OTHER -> Reading("ACCEPTED", "HOLD")

(* The entry is one of this readback's and is what was matched.            *)
Names(match, entry) ==
  /\ entry \in Range(match.report.entries)
  /\ entry.e2e \in DOMAIN match.matched
  /\ match.matched[entry.e2e] = entry.status

FinalityFromReadback(match, entry, fields) ==
  IF ~Names(match, entry) THEN Reading("UNREAD", "INDETERMINATE")
  ELSE IF entry.status # "SETTLED" THEN Earlier(entry.status)
  ELSE IF \E b \in match.breaks : b.e2e = entry.e2e THEN Reading("SETTLED", "HOLD")
  ELSE IF fields = "illegal" THEN Reading("SETTLED", "INDETERMINATE")
  ELSE IF fields = "early" THEN Reading("SETTLED", "HOLD")
  ELSE Reading("FINAL", "PASS")

-----------------------------------------------------------------------------
(* A receipt: the event it is about, who did which action with what        *)
(* artifact, the identifiers it names, and when it was observed.           *)

Claim(receipt) ==
  <<receipt.action, receipt.digest, receipt.member, receipt.msg, receipt.e2e>>

Disagree(receipts) ==
  \E r, s \in receipts : r.event = s.event /\ Claim(r) # Claim(s)

AssessReceipt(receipt, artifact, preparedAt) ==
  IF receipt.digest # artifact \/ receipt.at < preparedAt THEN "HOLD" ELSE "PASS"

AssessReceipts(receipts, artifact, preparedAt) ==
  IF receipts = {} THEN "INDETERMINATE"
  ELSE IF \/ Disagree(receipts)
          \/ \E r \in receipts : AssessReceipt(r, artifact, preparedAt) = "HOLD"
       THEN "HOLD"
  ELSE "PASS"

Instructions(receipts) == {r \in receipts : r.action = "SETTLEMENT_INSTRUCTION"}

-----------------------------------------------------------------------------
(* The join.  Each problem is the grade it carries.                        *)

Carries(artifact, instruction) ==
  artifact.msg = instruction.msg /\ artifact.e2e = instruction.e2e

ReceiptsName(receipts, instruction) ==
  \A r \in receipts : Carries(r, instruction)

ReadbackNames(match, entry, instruction) ==
  /\ match.report.original \in {None, instruction.msg}
  /\ entry # None => entry.e2e \in {None, instruction.e2e}

Joined(artifact, instruction, receipts, match, entry) ==
  /\ Carries(artifact, instruction)
  /\ ReceiptsName(receipts, instruction)
  /\ ReadbackNames(match, entry, instruction)

Instructed(artifact, instruction, receipts) ==
  /\ Carries(artifact, instruction)
  /\ ReceiptsName(receipts, instruction)
  /\ AssessReceipts(Instructions(receipts), artifact, instruction.created) = "PASS"

Stage(venue, instructed, publish) ==
  IF publish THEN "FINAL"
  ELSE IF venue.state = "UNREAD" THEN IF instructed THEN "INSTRUCTED" ELSE "UNREAD"
  ELSE IF venue.state = "FINAL" THEN "SETTLED"
  ELSE venue.state

JoinSettlementEvidence(artifact, instruction, receipts, match, entry, fields) ==
  LET grade == AssessReceipts(receipts, artifact, instruction.created)
      venue == FinalityFromReadback(match, entry, fields)
      joined == Joined(artifact, instruction, receipts, match, entry)
      instructed == Instructed(artifact, instruction, receipts)
      publish == joined /\ instructed /\ grade = "PASS" /\ venue.state = "FINAL"
  IN  [stage |-> Stage(venue, instructed, publish),
       disposition |-> IF publish THEN "PASS"
                       ELSE IF ~joined \/ "HOLD" \in {grade, venue.grade} THEN "HOLD"
                       ELSE "INDETERMINATE"]
=============================================================================
