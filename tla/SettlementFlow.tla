---------------------------- MODULE SettlementFlow ----------------------------
(***************************************************************************)
(* From an obligation to a finality assertion.  An envelope with its       *)
(* payload is evaluated (acceptance/service.py), an instruction is         *)
(* prepared for what was accepted, the entitled member does with it what   *)
(* it likes and receipts of that are collected, the venue's status reports *)
(* are brought back and reconciled.  What can be read from all of it is    *)
(* SettlementEvidence.  Nothing here is submitted, and each call is made   *)
(* with whatever the caller still holds, old or new.                       *)
(***************************************************************************)
EXTENDS SettlementEvidence

CONSTANTS
  Envelope,        \* [obligation, about, delivers, payload]: an envelope is its digest
  CashDecision,    \* [envelope, decision, notional, net]: decisions of the cash gate
  ControlResult,   \* [about, disposition, held]: possession-or-control results
  ParticipantRegistry, \* [version, parties]: account-to-institution mappings
  Instruction,     \* the instructions a caller may state
  Receipt,         \* the receipts that may come in
  Entry,           \* the entries of them
  Report,          \* the status reports that may come in, sequences of entries
  MaxAccepted, MaxReceipts, MaxReports

(* The caller mints the identifiers of an instruction.  The lookups of     *)
(* reconcile() by either of them assume that no two share one.             *)
ASSUME UniqueIdentifiers ==
  /\ \A i, j \in Instruction : (i.msg = j.msg \/ i.e2e = j.e2e) => i = j
  /\ \A i \in Instruction : None \notin {i.msg, i.e2e}

(* parse_status_report() reads every status as one of the known ones.      *)
ASSUME ParsedReports ==
  /\ None \notin Status
  /\ None \notin Entry
  /\ \A entry \in Entry : entry.status \in Status \cup {None}
  /\ \A report \in Report : report.entries \in Seq(Entry)

Payload == {e.payload : e \in Envelope}
EndToEndId == {i.e2e : i \in Instruction}

VARIABLES
  accepted,  \* the acceptance records made
  prepared,  \* the artifacts prepared, each with the envelope it is for
  receipts,  \* the receipts collected
  matches,   \* the reconciled readbacks
  known      \* the status established for each end-to-end identifier

vars == <<accepted, prepared, receipts, matches, known>>

Disposition == {"BLOCK", "INDETERMINATE", "HOLD", "PASS"}
Artifacts == {p.instruction : p \in prepared}
CodeName == {"MALFORMED_STATUS_ENTRY", "UNSOLICITED_STATUS", "IDENTIFIER_DISAGREEMENT",
             "UNRECOGNIZED", "ACCEPTED_WITH_CHANGE", "REJECTED", "AMOUNT_MISMATCH",
             "STATUS_REGRESSION", "STATUS_CONFLICT"}

(* The state: what is accepted, prepared, received and known is about      *)
(* what came in, and what is matched has a status.                         *)
TypeOK ==
  /\ accepted \subseteq [envelope : Envelope, disposition : Disposition]
  /\ prepared \subseteq [envelope : Envelope, instruction : Instruction]
  /\ receipts \subseteq Receipt
  /\ \A m \in matches :
       /\ m.report \in Report
       /\ DOMAIN m.matched \subseteq EndToEndId
       /\ \A id \in DOMAIN m.matched : m.matched[id] \in Status
       /\ \A b \in m.breaks : b.code \in CodeName
  /\ known \in [EndToEndId -> Status \cup {None}]

Init ==
  /\ accepted = {}
  /\ prepared = {}
  /\ receipts = {}
  /\ matches = {}
  /\ known = [id \in EndToEndId |-> None]

-----------------------------------------------------------------------------
(* evaluate_candidate().  A payload is reduced to `form`, the worst of the *)
(* three predicates that read nothing else; whether it is `free` of        *)
(* payment; its cash `total`; the delivered `quantity` and the seller's    *)
(* `capacity` (None: not stated, or not attested); and the `registry` it   *)
(* names.  What a control result is `about` is an issue and a date.  The   *)
(* `parties` of a registry are the institutions of payer and receiver,     *)
(* None where it has no two different ones for their accounts.             *)

HaltPredicate(halted) == IF halted THEN "HOLD" ELSE "PASS"

(* _funding: a decision that is missing, unbound, of another obligation or *)
(* of an older envelope is of another envelope than this.                  *)
FundingBound(envelope, decision) ==
  LET total == envelope.payload.total
  IN  IF envelope.payload.free THEN "PASS"
      ELSE IF decision = None THEN "INDETERMINATE"
      ELSE IF decision.envelope # envelope THEN "INDETERMINATE"
      ELSE IF decision.decision # "PROCEED" THEN "HOLD"
      ELSE IF total = None \/ decision.notional # total \/ decision.net = None
        THEN "INDETERMINATE"
      ELSE IF decision.net < total THEN "HOLD"
      ELSE "PASS"

CustomerSellControl(envelope, control) ==
  LET payload == envelope.payload
  IN  IF ~envelope.delivers \/ payload.quantity = None THEN "PASS"
      ELSE IF payload.quantity <= 0 THEN "INDETERMINATE"
      ELSE IF payload.capacity = None THEN "HOLD"
      ELSE IF payload.capacity \notin {"CUSTOMER", "PAB", "PROPRIETARY"} THEN "INDETERMINATE"
      ELSE IF payload.capacity = "PROPRIETARY" THEN "PASS"
      ELSE IF control = None THEN "HOLD"
      ELSE IF \/ control.about # envelope.about
              \/ control.disposition # "PASS"
              \/ control.held < payload.quantity
        THEN "HOLD"
      ELSE "PASS"

(* _SEVERITY: the worst of them. *)
Worst(grades) ==
  IF "BLOCK" \in grades THEN "BLOCK"
  ELSE IF "INDETERMINATE" \in grades THEN "INDETERMINATE"
  ELSE IF "HOLD" \in grades THEN "HOLD"
  ELSE "PASS"

Evaluation(envelope, payload, decision, control, halted) ==
  IF payload # envelope.payload THEN "BLOCK"
  ELSE Worst({payload.form,
              HaltPredicate(halted),
              FundingBound(envelope, decision),
              CustomerSellControl(envelope, control)})

EvaluateCandidate(envelope, payload, decision, control, halted) ==
  /\ Cardinality(accepted) < MaxAccepted
  /\ accepted' = accepted \cup
       {[envelope |-> envelope,
         disposition |-> Evaluation(envelope, payload, decision, control, halted)]}
  /\ UNCHANGED <<prepared, receipts, matches, known>>

-----------------------------------------------------------------------------
(* prepare_instruction().  A refusal raises and changes nothing.           *)

(* Mutant: the acceptance names the obligation, of whatever version. *)
AcceptanceByObligation(acceptance, envelope) ==
  /\ acceptance.disposition = "PASS"
  /\ acceptance.envelope.obligation = envelope.obligation

AcceptanceFor(acceptance, envelope) ==
  /\ acceptance.disposition = "PASS"
  /\ acceptance.envelope = envelope

InstructionBound(instruction, payload, registry) ==
  /\ payload.total # None
  /\ instruction.amount = payload.total
  /\ payload.registry # None
  /\ registry.version = payload.registry
  /\ registry.parties # None
  /\ instruction.parties = registry.parties

PrepareInstruction(envelope, payload, acceptance, instruction, registry, halted) ==
  /\ payload = envelope.payload
  /\ AcceptanceFor(acceptance, envelope)
  /\ InstructionBound(instruction, payload, registry)
  /\ ~halted
  /\ prepared' = prepared \cup {[envelope |-> envelope, instruction |-> instruction]}
  /\ UNCHANGED <<accepted, receipts, matches, known>>

-----------------------------------------------------------------------------
(* read_receipt(): a readable receipt is kept.                             *)
ReadReceipt(receipt) ==
  /\ Cardinality(receipts) < MaxReceipts
  /\ receipts' = receipts \cup {receipt}
  /\ UNCHANGED <<accepted, prepared, matches, known>>

(* What a caller makes of a readback: the statuses it established.         *)
Establish(match) ==
  [id \in EndToEndId |-> IF id \in DOMAIN match.matched THEN match.matched[id] ELSE known[id]]

(* ingest_readback() against everything prepared and established so far.   *)
IngestReadback(report) ==
  LET match == Reconcile(report, Artifacts, known)
  IN  /\ Cardinality(matches) < MaxReports
      /\ matches' = matches \cup {match}
      /\ known' = Establish(match)
      /\ UNCHANGED <<accepted, prepared, receipts>>

Next ==
  \/ \E envelope \in Envelope, payload \in Payload, decision \in CashDecision \cup {None},
        control \in ControlResult \cup {None}, halted \in BOOLEAN :
       EvaluateCandidate(envelope, payload, decision, control, halted)
  \/ \E envelope \in Envelope, payload \in Payload, acceptance \in accepted,
        instruction \in Instruction, registry \in ParticipantRegistry, halted \in BOOLEAN :
       PrepareInstruction(envelope, payload, acceptance, instruction, registry, halted)
  \/ \E receipt \in Receipt : ReadReceipt(receipt)
  \/ \E report \in Report : IngestReadback(report)

Spec == Init /\ [][Next]_vars

-----------------------------------------------------------------------------
(* Safety.                                                                 *)

(* The gate let the money of this envelope go. *)
Funded(envelope) ==
  \E decision \in CashDecision :
    /\ decision.envelope = envelope
    /\ decision.decision = "PROCEED"
    /\ decision.notional = envelope.payload.total
    /\ ~(decision.net < envelope.payload.total)

(* The artifact was prepared for an envelope that was accepted as it is,   *)
(* for its money, which the cash gate let go unless nothing is paid.       *)
PreparedAsAccepted(artifact) ==
  \E p \in prepared :
    /\ p.instruction = artifact
    /\ artifact.amount = p.envelope.payload.total
    /\ [envelope |-> p.envelope, disposition |-> "PASS"] \in accepted
    /\ p.envelope.payload.free \/ Funded(p.envelope)

(* The entitled member instructed settlement of this very artifact. *)
MemberInstructed(artifact, evidence) ==
  \E r \in evidence :
    /\ r.action = "SETTLEMENT_INSTRUCTION"
    /\ r.digest = artifact
    /\ ~(r.at < artifact.created)

(* The venue said that it settled, and echoed no other amount. *)
VenueSettled(artifact, match) ==
  \E entry \in Range(match.report.entries) :
    /\ entry.e2e = artifact.e2e
    /\ entry.status = "SETTLED"
    /\ entry.echoed \in {None, artifact.amount}

(* Finality is earned: however receipts, readbacks, artifacts and          *)
(* instructions of any age are combined in a join, a finality assertion is *)
(* published only for an artifact prepared as accepted, which the member   *)
(* instructed and the venue settled (settlement_join.py:330).              *)
FinalityIsEarned ==
  \A artifact \in Artifacts, instruction \in Instruction, evidence \in SUBSET receipts,
     match \in matches \cup {AbsentReadback}, fields \in Fields :
    \A entry \in Range(match.report.entries) \cup {None} :
      JoinSettlementEvidence(artifact, instruction, evidence, match, entry, fields).stage = "FINAL"
        => /\ PreparedAsAccepted(artifact)
           /\ MemberInstructed(artifact, evidence)
           /\ VenueSettled(artifact, match)

(* Every block is accounted for: an entry of a readback is matched, or a   *)
(* break names what it named (readback.py:618-620).                        *)
EveryEntryAccounted ==
  \A match \in matches : \A entry \in Range(match.report.entries) :
    \/ entry.e2e \in DOMAIN match.matched
    \/ \E b \in match.breaks : b.e2e = entry.e2e

(* What was refused or changed does not become final: while the record     *)
(* says that a payment ended otherwise, no readback reads as its finality  *)
(* (readback.py:758-806).                                                  *)
RefusedIsNotFinal ==
  [][\A match \in matches' \ matches : \A entry \in Range(match.report.entries) :
       /\ entry.e2e \in EndToEndId
       /\ known[entry.e2e] \in Terminal \ {"SETTLED"}
       => FinalityFromReadback(match, entry, "legal").state # "FINAL"]_vars

(* A reversal is never clean: a report that says anything else of a        *)
(* payment the record has as settled carries a break that names it         *)
(* (readback.py:770-780).                                                  *)
ReversalIsNeverClean ==
  [][\A match \in matches' \ matches : \A entry \in Range(match.report.entries) :
       /\ entry.e2e \in EndToEndId
       /\ known[entry.e2e] = "SETTLED"
       /\ entry.status # "SETTLED"
       => \E b \in match.breaks : b.e2e = entry.e2e]_vars
=============================================================================
