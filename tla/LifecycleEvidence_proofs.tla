----------------------- MODULE LifecycleEvidence_proofs -----------------------
(***************************************************************************)
(* Theorems about SettlementFlow and LifecycleEvidence, for any envelopes, *)
(* decisions, instructions, receipts, reports and break records.  Finality *)
(* is earned because each link of the chain keeps what it was made from:   *)
(* an acceptance that passes was funded, an artifact was accepted, and a   *)
(* readback without a break echoes nothing but the amount instructed.  The *)
(* readers of the whole lifecycle rest on the same invariant, since each   *)
(* of their behaviors is one of the flow; what they say of an exception    *)
(* rests on the invariant of the break record.                             *)
(*                                                                         *)
(* EscalationRegister, for any identifiers, people and offsets: the        *)
(* invariant says that _raised and _order name the same escalations, each  *)
(* once, and that every deadline is after its raising: without the latter  *)
(* overdue() and state() disagree.                                         *)
(***************************************************************************)
EXTENDS LifecycleEvidence, EscalationRegister, WellFoundedInduction, TLAPS

\* An acceptance that passes is of an envelope whose money may go.
AcceptedIsFunded ==
  \A a \in accepted :
    a.disposition = "PASS" => a.envelope.payload.free \/ Funded(a.envelope)

\* Each artifact was accepted before it was prepared, and still is.
PreparedIsAccepted ==
  \A p \in prepared : PreparedAsAccepted(p.instruction)

\* A settled entry that was matched and has no break echoes no other amount.
Echoed(match, entry, instruction) ==
  /\ entry.status = "SETTLED"
  /\ entry.e2e \in DOMAIN match.matched
  /\ ~\E b \in match.breaks : b.e2e = entry.e2e
  /\ instruction.e2e = entry.e2e
  => entry.echoed \in {None, instruction.amount}

MatchedIsEchoed ==
  \A match \in matches : \A entry \in Range(match.report.entries) :
    \A instruction \in Instruction : Echoed(match, entry, instruction)

Inv ==
  /\ TypeOK
  /\ AcceptedIsFunded
  /\ PreparedIsAccepted
  /\ MatchedIsEchoed
-----------------------------------------------------------------------------
\* Positions of a report that are not none have a last one.
LEMMA LastOfOrder ==
    ASSUME NEW R, IsWellFoundedOn(R, Nat),
           \A x, y \in Nat : <<y, x>> \in R <=> y < x,
           NEW n \in Nat, NEW S \in SUBSET (1..n), S # {}
    PROVE  \E x \in S : \A y \in S : x >= y
<1> DEFINE T == {n - x : x \in S}
<1>0. ASSUME NEW x \in S PROVE n - x \in Nat
  <2>1. x \in 1..n
    OBVIOUS
  <2> QED
    BY <2>1
<1>1. T \in SUBSET Nat /\ T # {}
  BY <1>0, Zenon
<1>2. PICK t \in T : \A u \in T : ~(<<u, t>> \in R)
  BY <1>1, WFMin
<1>3. PICK x \in S : t = n - x
  OBVIOUS
<1>4. ASSUME NEW y \in S PROVE x >= y
  <2>1. n - y \in T /\ n - y \in Nat /\ t \in Nat
    OBVIOUS
  <2>2. ~(<<n - y, t>> \in R)
    BY <1>2, <2>1
  <2>3. ~(n - y < t)
    BY <2>1, <2>2, Zenon
  <2> QED
    BY <1>3, <2>3
<1> QED
  BY <1>4

LEMMA LastPosition ==
    ASSUME NEW n \in Nat, NEW S \in SUBSET (1..n), S # {}
    PROVE  Max(S) \in S
<1>1. IsWellFoundedOn(OpToRel(<, Nat), Nat)
  BY NatLessThanWellFounded
<1>2. \A x, y \in Nat : <<y, x>> \in OpToRel(<, Nat) <=> y < x
  BY DEF OpToRel
<1>3. \E x \in S : \A y \in S : x >= y
  BY <1>1, <1>2, LastOfOrder
<1> QED
  BY <1>3 DEF Max

\* What is matched is an entry that could be used, and has a status.
LEMMA MatchedIsUsable ==
    ASSUME NEW report \in Report, NEW instructions \in SUBSET Instruction,
           NEW id \in DOMAIN Matched(report, instructions)
    PROVE  /\ id \in EndToEndId
           /\ Matched(report, instructions)[id] \in Status
           /\ \E entry \in Range(report.entries) :
                entry.e2e = id /\ Usable(report, entry, instructions)
<1> DEFINE usable == {k \in DOMAIN report.entries : Usable(report, report.entries[k], instructions)}
           mine == {k \in usable : report.entries[k].e2e = id}
<1>1. report.entries \in Seq(Entry)
  BY ParsedReports
<1>2. id \in {report.entries[k].e2e : k \in usable}
  BY DEF Matched
<1>3. PICK k \in usable : report.entries[k].e2e = id
  BY <1>2
<1>4. report.entries[k] \in Range(report.entries)
  BY DEF Range
<1>5. id \in EndToEndId
  BY <1>3 DEF Usable, Solicited, EndToEndId
<1>6. Max(mine) \in mine
  <2>1. Len(report.entries) \in Nat /\ DOMAIN report.entries = 1..Len(report.entries)
    BY <1>1
  <2>2. mine \in SUBSET (1..Len(report.entries)) /\ mine # {}
    BY <1>3, <2>1
  <2> QED
    BY <2>1, <2>2, LastPosition
<1>7. Matched(report, instructions)[id] = report.entries[Max(mine)].status
  BY <1>2 DEF Matched
<1>8. report.entries[Max(mine)] \in Entry
  <2>1. Max(mine) \in DOMAIN report.entries
    BY <1>6
  <2> HIDE DEF mine, usable
  <2> QED
    BY <1>1, <2>1
<1>9. Readable(report.entries[Max(mine)])
  BY <1>6 DEF Usable
<1>10. Matched(report, instructions)[id] \in Status
  BY <1>7, <1>8, <1>9, ParsedReports DEF Readable
<1> QED
  BY <1>3, <1>4, <1>5, <1>10
-----------------------------------------------------------------------------
\* An evaluation that passes rests on a decision of the cash gate.
LEMMA PassIsFunded ==
    ASSUME NEW envelope \in Envelope, NEW payload, NEW control, NEW halted,
           NEW decision \in CashDecision \cup {None},
           Evaluation(envelope, payload, decision, control, halted) = "PASS"
    PROVE  envelope.payload.free \/ Funded(envelope)
<1>1. FundingBound(envelope, decision) \in {"PASS", "HOLD", "INDETERMINATE"}
  BY DEF FundingBound
<1>2. FundingBound(envelope, decision) = "PASS"
  BY <1>1 DEF Evaluation, Worst
<1>3. CASE ~envelope.payload.free
  <2>1. /\ decision # None
        /\ decision.envelope = envelope
        /\ decision.decision = "PROCEED"
        /\ decision.notional = envelope.payload.total
        /\ ~(decision.net < envelope.payload.total)
    BY <1>2, <1>3 DEF FundingBound
  <2> QED
    BY <2>1 DEF Funded
<1> QED
  BY <1>3

LEMMA EvaluationIsDisposition ==
    ASSUME NEW envelope, NEW payload, NEW decision, NEW control, NEW halted
    PROVE  Evaluation(envelope, payload, decision, control, halted) \in Disposition
  BY DEF Evaluation, Worst, Disposition

\* A break code of an entry makes a break that names what the entry names.
LEMMA CodeIsBreak ==
    ASSUME NEW report, NEW instructions, NEW priors,
           NEW entry \in Range(report.entries),
           NEW code \in BreakCodes(report, entry, instructions, priors)
    PROVE  \E b \in Breaks(report, instructions, priors) : b.e2e = entry.e2e
<1>1. [code |-> code, e2e |-> entry.e2e] \in Breaks(report, instructions, priors)
  BY DEF Breaks
<1> QED
  BY <1>1

\* What two entries name decides whether they can be used.
LEMMA UsableByName ==
    ASSUME NEW report, NEW instructions, NEW entry, NEW other,
           Usable(report, other, instructions), other.e2e = entry.e2e,
           entry.status # None
    PROVE  Usable(report, entry, instructions)
  BY DEF Usable, Readable, Solicited, IdentifiersDisagree

\* A matched entry with a status is judged against what is known and instructed.
LEMMA MatchedIsJudged ==
    ASSUME NEW report \in Report, NEW instructions \in SUBSET Instruction, NEW priors,
           NEW entry \in Range(report.entries), entry.status # None,
           entry.e2e \in DOMAIN Matched(report, instructions)
    PROVE  BreakCodes(report, entry, instructions, priors)
             = EntryBreaks(entry, instructions, priors)
<1>1. Usable(report, entry, instructions)
  BY MatchedIsUsable, UsableByName
<1> QED
  BY <1>1 DEF Usable, BreakCodes

\* A readback just made echoes no other amount than the one instructed.
LEMMA ReconcileEchoes ==
    ASSUME NEW report \in Report, NEW instructions \in SUBSET Instruction, NEW priors,
           NEW entry \in Range(report.entries), NEW instruction \in Instruction
    PROVE  Echoed(Reconcile(report, instructions, priors), entry, instruction)
<1> DEFINE match == Reconcile(report, instructions, priors)
<1>1. match.matched = Matched(report, instructions) /\ match.breaks = Breaks(report, instructions, priors)
  BY DEF Reconcile
<1> SUFFICES ASSUME entry.status = "SETTLED",
                    entry.e2e \in DOMAIN Matched(report, instructions),
                    ~\E b \in Breaks(report, instructions, priors) : b.e2e = entry.e2e,
                    instruction.e2e = entry.e2e
             PROVE  entry.echoed \in {None, instruction.amount}
  BY <1>1 DEF Echoed
<1>2. entry.status # None
  BY ParsedReports DEF Status, Terminal
<1>3. EntryBreaks(entry, instructions, priors) = {}
  BY <1>2, CodeIsBreak, MatchedIsJudged
<1>4. PICK i \in instructions : i.e2e = entry.e2e
  BY MatchedIsUsable DEF Usable, Solicited
<1>5. i = instruction
  BY <1>4, UniqueIdentifiers
<1>6. "AMOUNT_MISMATCH" \notin
        {code \in {"AMOUNT_MISMATCH"} :
           \E j \in instructions : j.e2e = entry.e2e /\ entry.echoed \notin {None, j.amount}}
  BY <1>3 DEF EntryBreaks
<1> QED
  BY <1>4, <1>5, <1>6
-----------------------------------------------------------------------------
LEMMA InvInit == Init => Inv
  BY DEF Init, Inv, TypeOK, AcceptedIsFunded, PreparedIsAccepted, MatchedIsEchoed

\* What was prepared as accepted remains so when more is accepted or prepared.
LEMMA PreparedStays ==
    ASSUME accepted \subseteq accepted', prepared \subseteq prepared',
           NEW artifact, PreparedAsAccepted(artifact)
    PROVE  PreparedAsAccepted(artifact)'
  BY DEF PreparedAsAccepted, Funded

\* An acceptance that passes is funded; the others change nothing of the rest.
LEMMA EvaluateKeeps ==
    ASSUME Inv, NEW envelope \in Envelope, NEW payload \in Payload,
           NEW decision \in CashDecision \cup {None},
           NEW control \in ControlResult \cup {None}, NEW halted \in BOOLEAN,
           EvaluateCandidate(envelope, payload, decision, control, halted)
    PROVE  Inv'
<1> DEFINE made == [envelope |-> envelope,
                    disposition |-> Evaluation(envelope, payload, decision, control, halted)]
<1>1. /\ accepted' = accepted \cup {made}
      /\ UNCHANGED <<prepared, receipts, matches, known>>
  BY DEF EvaluateCandidate
<1>2. made \in [envelope : Envelope, disposition : Disposition]
  BY EvaluationIsDisposition
<1>3. made.disposition = "PASS" => made.envelope.payload.free \/ Funded(made.envelope)
  BY PassIsFunded
<1> HIDE DEF made
<1>4. TypeOK'
  BY <1>1, <1>2 DEF Inv, TypeOK
<1>5. AcceptedIsFunded'
  BY <1>1, <1>3 DEF Inv, AcceptedIsFunded, Funded
<1>6. PreparedIsAccepted'
  BY <1>1, PreparedStays DEF Inv, PreparedIsAccepted
<1>7. MatchedIsEchoed'
  BY <1>1 DEF Inv, MatchedIsEchoed, Echoed
<1> QED
  BY <1>4, <1>5, <1>6, <1>7 DEF Inv

\* What is prepared was accepted as it is, and for its money.
LEMMA PrepareKeeps ==
    ASSUME Inv, NEW envelope \in Envelope, NEW payload \in Payload,
           NEW acceptance \in accepted, NEW instruction \in Instruction,
           NEW registry \in ParticipantRegistry, NEW halted \in BOOLEAN,
           PrepareInstruction(envelope, payload, acceptance, instruction, registry, halted)
    PROVE  Inv'
<1> DEFINE made == [envelope |-> envelope, instruction |-> instruction]
<1>1. /\ prepared' = prepared \cup {made}
      /\ UNCHANGED <<accepted, receipts, matches, known>>
      /\ acceptance.disposition = "PASS" /\ acceptance.envelope = envelope
      /\ instruction.amount = envelope.payload.total
  BY DEF PrepareInstruction, AcceptanceFor, InstructionBound
<1>2. acceptance \in [envelope : Envelope, disposition : Disposition]
  BY DEF Inv, TypeOK
<1>3. acceptance = [envelope |-> envelope, disposition |-> "PASS"]
  BY <1>1, <1>2
<1>4. envelope.payload.free \/ Funded(envelope)
  BY <1>1 DEF Inv, AcceptedIsFunded
<1>5. made \in [envelope : Envelope, instruction : Instruction]
  OBVIOUS
<1>6. TypeOK'
  BY <1>1, <1>5 DEF Inv, TypeOK
<1>7. AcceptedIsFunded'
  BY <1>1 DEF Inv, AcceptedIsFunded, Funded
<1>8. PreparedIsAccepted'
  <2>1. PreparedAsAccepted(instruction)'
    <3>1. made \in prepared' /\ made.instruction = instruction /\ made.envelope = envelope
      BY <1>1
    <3>2. [envelope |-> made.envelope, disposition |-> "PASS"] \in accepted'
      BY <1>1, <1>3, <3>1
    <3>3. made.envelope.payload.free \/ Funded(made.envelope)'
      BY <1>4, <3>1 DEF Funded
    <3> QED
      BY <1>1, <3>1, <3>2, <3>3 DEF PreparedAsAccepted
  <2>2. ASSUME NEW p \in prepared PROVE PreparedAsAccepted(p.instruction)'
    BY <1>1, PreparedStays DEF Inv, PreparedIsAccepted
  <2> QED
    BY <1>1, <2>1, <2>2 DEF PreparedIsAccepted
<1>9. MatchedIsEchoed'
  BY <1>1 DEF Inv, MatchedIsEchoed, Echoed
<1> QED
  BY <1>6, <1>7, <1>8, <1>9 DEF Inv

LEMMA ReceiptKeeps ==
    ASSUME Inv, NEW receipt \in Receipt, ReadReceipt(receipt)
    PROVE  Inv'
<1>1. receipts' = receipts \cup {receipt} /\ UNCHANGED <<accepted, prepared, matches, known>>
  BY DEF ReadReceipt
<1>2. TypeOK'
  BY <1>1 DEF Inv, TypeOK
<1> QED
  BY <1>1, <1>2, PreparedStays
     DEF Inv, AcceptedIsFunded, Funded, PreparedIsAccepted, MatchedIsEchoed, Echoed

LEMMA ArtifactsAreInstructions ==
    ASSUME TypeOK
    PROVE  Artifacts \in SUBSET Instruction
  BY DEF TypeOK, Artifacts

\* Every break of a readback has one of the codes.
LEMMA CodesAreNamed ==
    ASSUME NEW report, NEW instructions, NEW priors
    PROVE  \A b \in Breaks(report, instructions, priors) : b.code \in CodeName
<1>1. ASSUME NEW entry PROVE BreakCodes(report, entry, instructions, priors) \subseteq CodeName
  <2>1. ProgressionBreak(priors[entry.e2e], entry.status) \subseteq CodeName
    BY DEF ProgressionBreak, CodeName
  <2>2. EntryBreaks(entry, instructions, priors) \subseteq CodeName
    BY <2>1 DEF EntryBreaks, CodeName
  <2> QED
    BY <2>2 DEF BreakCodes, CodeName
<1>2. ASSUME NEW b \in Breaks(report, instructions, priors) PROVE b.code \in CodeName
  <2>1. PICK entry \in Range(report.entries) :
          b \in {[code |-> code, e2e |-> entry.e2e] :
                   code \in BreakCodes(report, entry, instructions, priors)}
    BY DEF Breaks
  <2> QED
    BY <1>1, <2>1
<1> QED
  BY <1>2

\* A readback is what its report makes of what is prepared and known.
LEMMA IngestKeeps ==
    ASSUME Inv, NEW report \in Report, IngestReadback(report)
    PROVE  Inv'
<1> DEFINE match == Reconcile(report, Artifacts, known)
<1>1. /\ matches' = matches \cup {match}
      /\ known' = Establish(match)
      /\ UNCHANGED <<accepted, prepared, receipts>>
  BY DEF IngestReadback
<1>2. /\ match.report = report
      /\ match.matched = Matched(report, Artifacts)
      /\ match.breaks = Breaks(report, Artifacts, known)
  BY DEF Reconcile
<1>3. Artifacts \in SUBSET Instruction
  BY ArtifactsAreInstructions DEF Inv
<1>4. \A id \in DOMAIN match.matched : id \in EndToEndId /\ match.matched[id] \in Status
  BY <1>2, <1>3, MatchedIsUsable
<1>5. \A b \in match.breaks : b.code \in CodeName
  BY <1>2, CodesAreNamed
<1>6. \A entry \in Range(match.report.entries) : \A instruction \in Instruction :
        Echoed(match, entry, instruction)
  BY <1>2, <1>3, ReconcileEchoes
<1> HIDE DEF match
<1>7. TypeOK'
  <2>1. Establish(match) \in [EndToEndId -> Status \cup {None}]
    BY <1>4 DEF Inv, TypeOK, Establish
  <2> QED
    BY <1>1, <1>2, <1>4, <1>5, <2>1 DEF Inv, TypeOK
<1>8. AcceptedIsFunded'
  BY <1>1 DEF Inv, AcceptedIsFunded, Funded
<1>9. PreparedIsAccepted'
  BY <1>1, PreparedStays DEF Inv, PreparedIsAccepted
<1>10. MatchedIsEchoed'
  BY <1>1, <1>6 DEF Inv, MatchedIsEchoed, Echoed
<1> QED
  BY <1>7, <1>8, <1>9, <1>10 DEF Inv

\* The chain of evidence holds in every state.
THEOREM Invariance == Spec => []Inv
<1>1. Inv /\ [Next]_vars => Inv'
  <2> SUFFICES ASSUME Inv, [Next]_vars PROVE Inv'
    OBVIOUS
  <2>1. CASE UNCHANGED vars
    BY <2>1 DEF vars, Inv, TypeOK, AcceptedIsFunded, Funded, PreparedIsAccepted,
                PreparedAsAccepted, MatchedIsEchoed, Echoed
  <2>2. CASE Next
    BY <2>2, EvaluateKeeps, PrepareKeeps, ReceiptKeeps, IngestKeeps DEF Next
  <2> QED
    BY <2>1, <2>2
<1> QED
  BY <1>1, InvInit, PTL DEF Spec

\* What the flow keeps is always of its type.
THEOREM TypeCorrect == Spec => []TypeOK
<1>1. Inv => TypeOK
  BY DEF Inv
<1> QED
  BY <1>1, Invariance, PTL
-----------------------------------------------------------------------------
\* What a join that publishes has established.
LEMMA FinalJoin ==
    ASSUME NEW artifact \in Instruction, NEW instruction \in Instruction, NEW evidence,
           NEW match, NEW entry, NEW fields,
           JoinSettlementEvidence(artifact, instruction, evidence, match, entry, fields).stage
             = "FINAL"
    PROVE  /\ artifact = instruction
           /\ ReadbackNames(match, entry, instruction)
           /\ AssessReceipts(Instructions(evidence), artifact, artifact.created) = "PASS"
           /\ FinalityFromReadback(match, entry, fields).state = "FINAL"
<1> DEFINE grade == AssessReceipts(evidence, artifact, instruction.created)
           venue == FinalityFromReadback(match, entry, fields)
           joined == Joined(artifact, instruction, evidence, match, entry)
           instructed == Instructed(artifact, instruction, evidence)
           publish == joined /\ instructed /\ grade = "PASS" /\ venue.state = "FINAL"
<1>1. Stage(venue, instructed, publish) = "FINAL"
  BY DEF JoinSettlementEvidence
<1>2. publish
  BY <1>1 DEF Stage
<1>3. artifact = instruction
  BY <1>2, UniqueIdentifiers DEF Joined, Carries
<1> QED
  BY <1>2, <1>3 DEF Joined, Instructed

\* A reading that is final is of a settled entry, matched and without a break.
LEMMA FinalReading ==
    ASSUME NEW match, NEW entry, NEW fields,
           FinalityFromReadback(match, entry, fields).state = "FINAL"
    PROVE  /\ Names(match, entry)
           /\ entry.status = "SETTLED"
           /\ ~\E b \in match.breaks : b.e2e = entry.e2e
<1>1. Earlier(entry.status).state # "FINAL"
  BY DEF Earlier, Reading
<1> QED
  BY <1>1 DEF FinalityFromReadback, Reading

\* Whatever is joined, finality is published only where it was earned.
THEOREM FinalityEarned == Spec => []FinalityIsEarned
<1>1. Inv => FinalityIsEarned
  <2> SUFFICES ASSUME Inv,
                      NEW artifact \in Artifacts, NEW instruction \in Instruction,
                      NEW evidence \in SUBSET receipts,
                      NEW match \in matches \cup {AbsentReadback}, NEW fields \in Fields,
                      NEW entry \in Range(match.report.entries) \cup {None},
                      JoinSettlementEvidence(artifact, instruction, evidence, match, entry,
                                             fields).stage = "FINAL"
               PROVE  /\ PreparedAsAccepted(artifact)
                      /\ MemberInstructed(artifact, evidence)
                      /\ VenueSettled(artifact, match)
    BY DEF FinalityIsEarned
  <2>1. artifact \in Instruction
    BY ArtifactsAreInstructions DEF Inv
  <2>2. /\ artifact = instruction
        /\ ReadbackNames(match, entry, artifact)
        /\ AssessReceipts(Instructions(evidence), artifact, artifact.created) = "PASS"
        /\ FinalityFromReadback(match, entry, fields).state = "FINAL"
    BY <2>1, FinalJoin
  <2>3. /\ entry \in Range(match.report.entries)
        /\ entry.e2e \in DOMAIN match.matched
        /\ entry.status = "SETTLED"
        /\ ~\E b \in match.breaks : b.e2e = entry.e2e
    BY <2>2, FinalReading DEF Names
  <2>4. PreparedAsAccepted(artifact)
    BY DEF Artifacts, Inv, PreparedIsAccepted
  <2>5. MemberInstructed(artifact, evidence)
    <3>1. PICK r \in Instructions(evidence) :
            AssessReceipt(r, artifact, artifact.created) # "HOLD"
      BY <2>2 DEF AssessReceipts
    <3> QED
      BY <3>1 DEF MemberInstructed, Instructions, AssessReceipt
  <2>6. match \in matches
    BY <2>3 DEF AbsentReadback, Range
  <2>7. entry # None
    <3>1. match.report.entries \in Seq(Entry)
      BY <2>6, ParsedReports DEF Inv, TypeOK
    <3> QED
      BY <2>3, <3>1, ParsedReports DEF Range
  <2>8. entry.e2e = artifact.e2e
    <3>1. entry.e2e \in EndToEndId
      BY <2>3, <2>6 DEF Inv, TypeOK
    <3>2. entry.e2e # None
      BY <3>1, UniqueIdentifiers DEF EndToEndId
    <3> QED
      BY <2>2, <2>7, <3>2 DEF ReadbackNames
  <2>9. entry.echoed \in {None, artifact.amount}
    BY <2>1, <2>3, <2>6, <2>8 DEF Inv, MatchedIsEchoed, Echoed
  <2> QED
    BY <2>3, <2>4, <2>5, <2>8, <2>9 DEF VenueSettled
<1> QED
  BY <1>1, Invariance, PTL
-----------------------------------------------------------------------------
\* An entry that cannot be used has a break that names it.
LEMMA UnusableIsBroken ==
    ASSUME NEW report, NEW instructions, NEW priors, NEW entry \in Range(report.entries),
           ~Usable(report, entry, instructions)
    PROVE  \E b \in Breaks(report, instructions, priors) : b.e2e = entry.e2e
<1>1. \E code : code \in BreakCodes(report, entry, instructions, priors)
  BY DEF Usable, BreakCodes
<1> QED
  BY <1>1, CodeIsBreak

\* A usable entry is judged against what is known and instructed.
LEMMA UsableIsJudged ==
    ASSUME NEW report, NEW instructions, NEW priors, NEW entry,
           Usable(report, entry, instructions)
    PROVE  BreakCodes(report, entry, instructions, priors)
             = EntryBreaks(entry, instructions, priors)
  BY DEF Usable, BreakCodes

\* The readbacks of a step are those there were and the one it reconciles.
LEMMA NewMatches ==
    ASSUME [Next]_vars, NEW match \in matches' \ matches
    PROVE  \E report \in Report :
             /\ match.report = report
             /\ match.matched = Matched(report, Artifacts)
             /\ match.breaks = Breaks(report, Artifacts, known)
<1>1. PICK report \in Report : IngestReadback(report)
  BY DEF Next, vars, EvaluateCandidate, PrepareInstruction, ReadReceipt
<1> QED
  BY <1>1 DEF IngestReadback, Reconcile

\* No entry of a readback is lost: it is matched, or a break names it.
THEOREM EntriesAccounted == Spec => []EveryEntryAccounted
<1>1. Init => EveryEntryAccounted
  BY DEF Init, EveryEntryAccounted
<1>2. EveryEntryAccounted /\ [Next]_vars => EveryEntryAccounted'
  <2> SUFFICES ASSUME EveryEntryAccounted, [Next]_vars,
                      NEW match \in matches', NEW entry \in Range(match.report.entries)
               PROVE  \/ entry.e2e \in DOMAIN match.matched
                      \/ \E b \in match.breaks : b.e2e = entry.e2e
    BY DEF EveryEntryAccounted
  <2>1. CASE match \in matches
    BY <2>1 DEF EveryEntryAccounted
  <2>2. CASE match \notin matches
    <3>1. PICK report \in Report :
            /\ match.report = report
            /\ match.matched = Matched(report, Artifacts)
            /\ match.breaks = Breaks(report, Artifacts, known)
      BY <2>2, NewMatches
    <3>2. CASE Usable(report, entry, Artifacts)
      <4>1. PICK k \in DOMAIN report.entries : report.entries[k] = entry
        BY <3>1 DEF Range
      <4> QED
        BY <3>1, <3>2, <4>1 DEF Matched
    <3>3. CASE ~Usable(report, entry, Artifacts)
      BY <3>1, <3>3, UnusableIsBroken
    <3> QED
      BY <3>2, <3>3
  <2> QED
    BY <2>1, <2>2
<1> QED
  BY <1>1, <1>2, PTL DEF Spec

\* A payment the record has as ended otherwise is not read as final.
THEOREM RefusedStaysUnfinal == Spec => RefusedIsNotFinal
<1>1. Inv /\ [Next]_vars =>
        [\A match \in matches' \ matches : \A entry \in Range(match.report.entries) :
           /\ entry.e2e \in EndToEndId
           /\ known[entry.e2e] \in Terminal \ {"SETTLED"}
           => FinalityFromReadback(match, entry, "legal").state # "FINAL"]_vars
  <2> SUFFICES ASSUME Inv, [Next]_vars,
                      NEW match \in matches' \ matches,
                      NEW entry \in Range(match.report.entries),
                      known[entry.e2e] \in Terminal \ {"SETTLED"},
                      FinalityFromReadback(match, entry, "legal").state = "FINAL"
               PROVE  FALSE
    OBVIOUS
  <2>1. PICK report \in Report :
          /\ match.report = report
          /\ match.matched = Matched(report, Artifacts)
          /\ match.breaks = Breaks(report, Artifacts, known)
    BY NewMatches
  <2>2. /\ entry.e2e \in DOMAIN match.matched
        /\ entry.status = "SETTLED"
        /\ ~\E b \in match.breaks : b.e2e = entry.e2e
    BY FinalReading DEF Names
  <2>3. entry.status # None
    BY <2>2, ParsedReports DEF Status, Terminal
  <2>4. BreakCodes(report, entry, Artifacts, known) = EntryBreaks(entry, Artifacts, known)
    BY <2>1, <2>2, <2>3, ArtifactsAreInstructions, MatchedIsJudged DEF Inv
  <2>5. ProgressionBreak(known[entry.e2e], "SETTLED") # {}
    <3>1. known[entry.e2e] # None
      BY ParsedReports DEF Status
    <3> QED
      BY <3>1 DEF ProgressionBreak, Order, Terminal
  <2>6. PICK code : code \in BreakCodes(report, entry, Artifacts, known)
    BY <2>2, <2>4, <2>5 DEF EntryBreaks
  <2> QED
    BY <2>1, <2>2, <2>6, CodeIsBreak
<1> QED
  BY <1>1, Invariance, PTL DEF Spec, RefusedIsNotFinal

\* A report that goes back on a settlement on record is broken.
THEOREM ReversalShows == Spec => ReversalIsNeverClean
<1>1. Inv /\ [Next]_vars =>
        [\A match \in matches' \ matches : \A entry \in Range(match.report.entries) :
           /\ entry.e2e \in EndToEndId
           /\ known[entry.e2e] = "SETTLED"
           /\ entry.status # "SETTLED"
           => \E b \in match.breaks : b.e2e = entry.e2e]_vars
  <2> SUFFICES ASSUME Inv, [Next]_vars,
                      NEW match \in matches' \ matches,
                      NEW entry \in Range(match.report.entries),
                      known[entry.e2e] = "SETTLED",
                      entry.status # "SETTLED"
               PROVE  \E b \in match.breaks : b.e2e = entry.e2e
    OBVIOUS
  <2>1. PICK report \in Report :
          /\ match.report = report
          /\ match.breaks = Breaks(report, Artifacts, known)
    BY NewMatches
  <2>2. CASE Usable(report, entry, Artifacts)
    <3>1. "SETTLED" # None
      BY ParsedReports DEF Status, Terminal
    <3>2. "STATUS_REGRESSION" \in BreakCodes(report, entry, Artifacts, known)
      BY <2>2, <3>1, UsableIsJudged DEF EntryBreaks, ProgressionBreak
    <3> QED
      BY <2>1, <3>2, CodeIsBreak
  <2>3. CASE ~Usable(report, entry, Artifacts)
    BY <2>1, <2>3, UnusableIsBroken
  <2> QED
    BY <2>2, <2>3
<1> QED
  BY <1>1, Invariance, PTL DEF Spec, ReversalIsNeverClean
-----------------------------------------------------------------------------
\* A behavior of the evidence of a trade is one of its settlement, whichever of
\* the two parts it is of.
THEOREM LifecycleIsAFlow == LifecycleSpec => Spec
<1>1. LifecycleInit => Init
  BY DEF LifecycleInit
<1>2. [LifecycleNext]_<<part, broken, vars>> => [Next]_vars
  BY DEF LifecycleNext
<1> QED
  BY <1>1, <1>2, PTL DEF LifecycleSpec, Spec

\* An assessment that passes went all the way: a final settlement, posted as the
\* execution it is of, and an output of that very execution.
LEMMA PassingAssessment ==
    ASSUME NEW execution, NEW funding, NEW settlement, NEW posting, NEW output,
           AssessLifecycleEvidence(execution, funding, settlement, posting, output).grade
             = "PASS"
    PROVE  /\ settlement.stage = "FINAL"
           /\ output # None /\ output.source = execution
           /\ AssessLifecycleEvidence(execution, funding, settlement, posting, output).delivered
                <=> output.delivery
           /\ AssessLifecycleEvidence(execution, funding, settlement, posting, output).delivered
                \in BOOLEAN
<1> USE DEF Assessment
<1>1. /\ SettlementFinal(settlement)
      /\ AssessLifecycleEvidence(execution, funding, settlement, posting, output)
           = AssessAfterFinality(execution, posting, output)
  BY DEF AssessLifecycleEvidence
<1>2. AssessAfterFinality(execution, posting, output).grade = "PASS"
  BY <1>1
<1>3. output # None /\ output.source = execution
  BY <1>2 DEF AssessAfterFinality
<1>4. AssessAfterFinality(execution, posting, output)
        = IF ~output.delivery THEN Assessment("OUTPUT_PRODUCED", "PASS")
          ELSE Assessment("OUTPUT_DELIVERED", "PASS")
  BY <1>2, <1>3 DEF AssessAfterFinality
<1>5. /\ Assessment("OUTPUT_DELIVERED", "PASS").delivered = TRUE
      /\ Assessment("OUTPUT_PRODUCED", "PASS").delivered = FALSE
  OBVIOUS
<1>6. AssessAfterFinality(execution, posting, output).delivered
        = IF ~output.delivery THEN FALSE ELSE TRUE
  <2> HIDE DEF Assessment
  <2> QED
    BY <1>4, <1>5
<1>7. settlement.stage = "FINAL"
  BY <1>1 DEF SettlementFinal
<1> HIDE DEF Assessment
<1> QED
  BY <1>1, <1>3, <1>6, <1>7

\* Evidence that passes from the execution to the client is of an artifact that
\* was prepared as accepted and that the venue settled, and the reader of the
\* output alone agrees (lifecycle_evidence.py:190, client_output.py:133).
THEOREM ReadersAlwaysAgree == LifecycleSpec => []ReadersAgree
<1>1. Inv /\ FinalityIsEarned => ReadersAgree
  <2> SUFFICES ASSUME Inv, FinalityIsEarned,
                      NEW artifact \in Artifacts, NEW match \in matches,
                      NEW settlement \in Joins(artifact, match),
                      NEW execution \in Execution \cup {None},
                      NEW posting \in Execution \cup {None},
                      NEW payload \in OutputPayload, NEW funding \in BOOLEAN,
                      AssessLifecycleEvidence(execution, funding, settlement, posting,
                                              ReadClientOutput(payload)).grade = "PASS"
               PROVE  LET output == ReadClientOutput(payload)
                          assessed == AssessLifecycleEvidence(execution, funding, settlement,
                                                              posting, output)
                          told == AssessClientOutput(output, execution)
                      IN  /\ PreparedAsAccepted(artifact)
                          /\ VenueSettled(artifact, match)
                          /\ told.grade = "PASS"
                          /\ told.delivered = assessed.delivered
    BY DEF ReadersAgree
  <2> DEFINE output == ReadClientOutput(payload)
             assessed == AssessLifecycleEvidence(execution, funding, settlement, posting, output)
             told == AssessClientOutput(output, execution)
  <2>1. /\ settlement.stage = "FINAL"
        /\ output # None /\ output.source = execution
        /\ assessed.delivered <=> output.delivery
        /\ assessed.delivered \in BOOLEAN
    BY PassingAssessment
  <2>2. PreparedAsAccepted(artifact) /\ VenueSettled(artifact, match)
    <3>1. PICK entry \in Range(match.report.entries) :
            settlement = JoinSettlementEvidence(artifact, artifact, receipts, match, entry, "legal")
      BY DEF Joins
    <3>2. artifact \in Instruction
      BY ArtifactsAreInstructions DEF Inv
    <3> QED
      BY <2>1, <3>1, <3>2 DEF FinalityIsEarned, Fields
  <2>3. /\ told.grade = "PASS"
        /\ told.delivered <=> output.delivery
        /\ told.delivered \in BOOLEAN
    BY <2>1 DEF AssessClientOutput, OutputReading
  <2> QED
    BY <2>1, <2>2, <2>3
<1> QED
  BY <1>1, Invariance, FinalityEarned, LifecycleIsAFlow, PTL
-----------------------------------------------------------------------------
\* The exception on the way.

\* The evidence a break was closed with is of that break and, unless the break
\* came with it, from after it was raised and from when somebody had been given it.
TakenInClosed(r) == r.evidence \in {i.evidence : i \in Intake}
EvidenceHolds(r) ==
  r.evidence # Nobody =>
    /\ r.evidence.break = r.id
    /\ \/ TakenInClosed(r)
       \/ /\ ~(r.evidence.at < r.raised)
          /\ \E k \in DOMAIN r.history : ~(r.evidence.at < r.history[k].at)

BreakInv ==
  \/ broken = Nobody
  \/ broken \in BreakRecords /\ Consistent(broken) /\ EvidenceHolds(broken)

\* A history that another change is appended to keeps the changes it had.
LEMMA HistoryGrows ==
    ASSUME NEW history \in Seq(Change), NEW change \in Change
    PROVE  /\ Append(history, change) \in Seq(Change)
           /\ \A k \in DOMAIN history : /\ k \in DOMAIN Append(history, change)
                                        /\ Append(history, change)[k] = history[k]
  OBVIOUS

LEMMA AssignInv ==
    ASSUME BreakInv, broken # Nobody, NEW owner \in Actor, NEW by \in Actor, NEW at \in Moment,
           AssignBreakOwner(owner, by, at)
    PROVE  BreakInv'
<1> DEFINE change == [at |-> at, by |-> by, previous |-> broken.owner, assigned |-> owner]
           updated == [broken EXCEPT !.owner = owner, !.absence = FALSE,
                                     !.history = Append(broken.history, change),
                                     !.state = IF broken.state = "INTAKE_UNASSIGNED"
                                               THEN "OPEN" ELSE broken.state]
<1>1. /\ broken \in BreakRecords /\ EvidenceHolds(broken)
      /\ Consistent(updated) /\ broken' = updated
  BY DEF BreakInv, AssignBreakOwner
<1>2. change \in Change /\ broken.history \in Seq(Change)
  BY <1>1 DEF BreakRecords, Change
<1>3. /\ updated.id = broken.id /\ updated.raised = broken.raised
      /\ updated.evidence = broken.evidence
      /\ updated.history = Append(broken.history, change)
  BY <1>1 DEF BreakRecords
<1>4. updated \in BreakRecords
  BY <1>1, <1>2, HistoryGrows DEF BreakRecords, BreakState
<1>5. EvidenceHolds(updated)
  BY <1>1, <1>2, <1>3, HistoryGrows DEF EvidenceHolds, TakenInClosed
<1> QED
  BY <1>1, <1>4, <1>5 DEF BreakInv

LEMMA RestateInv ==
    ASSUME BreakInv, broken # Nobody, NEW state \in BreakState, Restate(state)
    PROVE  BreakInv'
<1> DEFINE updated == [broken EXCEPT !.state = state]
<1>1. /\ broken \in BreakRecords /\ EvidenceHolds(broken)
      /\ Consistent(updated) /\ broken' = updated
  BY DEF BreakInv, Restate
<1>2. updated \in BreakRecords /\ EvidenceHolds(updated)
  BY <1>1 DEF BreakRecords, EvidenceHolds, TakenInClosed
<1> QED
  BY <1>1, <1>2 DEF BreakInv

\* Only a break with an owner is resolved, so its history has a last change,
\* and the evidence is from no earlier.
LEMMA ResolveInv ==
    ASSUME BreakInv, broken # Nobody, NEW evidence \in ResolutionEvidence,
           ResolveBreak(evidence)
    PROVE  BreakInv'
<1> DEFINE updated == [broken EXCEPT !.state = "RESOLVED", !.evidence = evidence]
<1>1. /\ broken \in BreakRecords /\ Consistent(broken)
      /\ broken.owner # Nobody /\ EvidenceFits(evidence)
      /\ Consistent(updated) /\ broken' = updated
  BY DEF BreakInv, ResolveBreak
<1>2. /\ updated \in BreakRecords
      /\ updated.id = broken.id /\ updated.raised = broken.raised
      /\ updated.history = broken.history /\ updated.evidence = evidence
  BY <1>1 DEF BreakRecords, BreakState
<1>3. broken.history # << >> /\ broken.history \in Seq(Change)
  BY <1>1 DEF Consistent, BreakRecords
<1>4. /\ Len(broken.history) \in DOMAIN broken.history
      /\ Last(broken.history) = broken.history[Len(broken.history)]
  BY <1>3 DEF Last
<1>5. EvidenceHolds(updated)
  BY <1>1, <1>2, <1>3, <1>4 DEF EvidenceHolds, EvidenceFits
<1> QED
  BY <1>1, <1>2, <1>5 DEF BreakInv

\* An exception that reads as closed was closed by somebody it had been given
\* to, with evidence of that break from after it was raised (breaks.py:276-281).
\* Of a record that is taken in closed, break_record_from_ticket() makes sure
\* only that its evidence is of that break (breaks.py:205).
THEOREM BreaksAreClosedByOwners == LifecycleSpec => []ClosedByAnOwner
<1>1. LifecycleInit => BreakInv
  BY DEF LifecycleInit, BreakInit, BreakInv
<1>2. BreakInv /\ [LifecycleNext]_<<part, broken, vars>> => BreakInv'
  <2> SUFFICES ASSUME BreakInv, BreakNext PROVE BreakInv'
    BY DEF LifecycleNext, BreakInv, Consistent, EvidenceHolds, TakenInClosed
  <2>1. ASSUME NEW r \in Intake, BreakRecordFromTicket(r) PROVE BreakInv'
    <3>1. /\ r \in BreakRecords /\ Consistent(r) /\ TakenInClosed(r) /\ broken' = r
      BY <2>1, IntakeIsTyped DEF BreakRecordFromTicket, TakenInClosed
    <3>2. EvidenceHolds(r)
      BY <3>1 DEF Consistent, EvidenceHolds
    <3> QED
      BY <3>1, <3>2 DEF BreakInv
  <2> QED
    BY <2>1, AssignInv, RestateInv, ResolveInv DEF BreakNext
<1>3. BreakInv => ClosedByAnOwner
  BY DEF BreakInv, EvidenceHolds, TakenInClosed, ClosedByAnOwner, ExceptionGrade
<1> QED
  BY <1>1, <1>2, <1>3, PTL DEF LifecycleSpec
-----------------------------------------------------------------------------
\* The register of escalations.

DeadlinesFollow == \A id \in DOMAIN raised : raised[id].by >= raised[id].at

OrderIsRaised ==
    /\ \A i \in DOMAIN order : order[i] \in DOMAIN raised
    /\ \A id \in DOMAIN raised : \E i \in DOMAIN order : order[i] = id
    /\ \A i, j \in DOMAIN order : order[i] = order[j] => i = j

RegisterInv == RegisterTypes /\ DeadlinesFollow /\ OrderIsRaised

-----------------------------------------------------------------------------
\* With keeps a function's range in a set its new entry is in.
LEMMA WithType ==
    ASSUME NEW S, NEW f, f \in [DOMAIN f -> S], NEW id, NEW v \in S
    PROVE  With(f, id, v) \in [DOMAIN With(f, id, v) -> S]
  BY DEF With

LEMMA RegisterInitInv == RegisterInit => RegisterInv
  BY DEF RegisterInit, RegisterInv, RegisterTypes, DeadlinesFollow, OrderIsRaised

\* A raising adds its identifier to the records and to the end of the order.
LEMMA RaiseInv ==
    ASSUME RegisterInv, NEW id \in EscalationId, NEW e \in Escalations, RaiseEscalation(id, e)
    PROVE  RegisterInv'
<1> USE DEF RegisterInv, RaiseEscalation
<1>1. /\ DOMAIN raised' = DOMAIN raised \cup {id}
      /\ raised'[id] = e
      /\ \A x \in DOMAIN raised : raised'[x] = raised[x]
  BY DEF With
<1>2. /\ order' \in Seq(EscalationId)
      /\ Len(order) \in Nat
      /\ DOMAIN order = 1..Len(order)
      /\ DOMAIN order' = 1..(Len(order) + 1)
      /\ order'[Len(order) + 1] = id
      /\ \A i \in DOMAIN order : order'[i] = order[i]
  BY DEF RegisterTypes
<1>3. RegisterTypes'
  BY <1>1, <1>2, WithType DEF RegisterTypes
<1>4. DeadlinesFollow'
  BY <1>1 DEF DeadlinesFollow, WellFormed
<1>5. OrderIsRaised'
  BY <1>1, <1>2 DEF OrderIsRaised
<1> QED
  BY <1>3, <1>4, <1>5

LEMMA AcknowledgeInv ==
    ASSUME RegisterInv, NEW id \in EscalationId, NEW a \in Acknowledgements, AcknowledgeEscalation(id, a)
    PROVE  RegisterInv'
<1> USE DEF RegisterInv, AcknowledgeEscalation
<1>1. DOMAIN acknowledged' = DOMAIN acknowledged \cup {id}
  BY DEF With
<1>2. RegisterTypes'
  BY <1>1, WithType DEF RegisterTypes
<1>3. DeadlinesFollow' /\ OrderIsRaised'
  BY DEF DeadlinesFollow, OrderIsRaised
<1> QED
  BY <1>2, <1>3

THEOREM RegisterInvariance == RegisterSpec => []RegisterInv
<1>1. RegisterInv /\ [RegisterNext]_registerVars => RegisterInv'
  <2> SUFFICES ASSUME RegisterInv, [RegisterNext]_registerVars PROVE RegisterInv'
    OBVIOUS
  <2>1. CASE UNCHANGED registerVars
    BY <2>1 DEF registerVars, RegisterInv, RegisterTypes, DeadlinesFollow, OrderIsRaised
  <2>2. CASE RegisterNext
    BY <2>2, RaiseInv, AcknowledgeInv DEF RegisterNext
  <2> QED
    BY <2>1, <2>2
<1> QED
  BY <1>1, RegisterInitInv, PTL DEF RegisterSpec
-----------------------------------------------------------------------------
\* state() and overdue() give one answer at every instant (register.py:252-294).
THEOREM ReadingsAgree == RegisterSpec => []OverdueAgrees
<1>1. RegisterInv => OverdueAgrees
  <2> SUFFICES ASSUME RegisterInv, NEW t \in Offset, NEW id \in DOMAIN raised
               PROVE  State(id, t) = "overdue" <=> id \in Overdue(t)
    BY DEF OverdueAgrees
  <2>1. State(id, t) = "overdue" <=> id \notin DOMAIN acknowledged /\ t > raised[id].by
    BY DEF State
  <2>2. raised[id].at \in Nat /\ raised[id].by \in Nat /\ t \in Nat
    BY MaxOffsetAssumption DEF RegisterInv, RegisterTypes, Escalations, Offset, Deadline, NoDeadline
  <2>3. raised[id].by >= raised[id].at
    BY DEF RegisterInv, DeadlinesFollow
  <2>4. t > raised[id].by => raised[id].at <= t
    BY <2>2, <2>3
  <2>5. \E i \in DOMAIN order : order[i] = id
    BY DEF RegisterInv, OrderIsRaised
  <2> QED
    BY <2>1, <2>4, <2>5 DEF Overdue, Unacknowledged
<1> QED
  BY <1>1, RegisterInvariance, PTL

\* Nothing raised is forgotten or listed twice (register.py:210-220, 267-278).
THEOREM NothingIsForgotten == RegisterSpec => []NothingForgotten
<1>1. RegisterInv => NothingForgotten
  BY DEF RegisterInv, OrderIsRaised, NothingForgotten, Unacknowledged
<1> QED
  BY <1>1, RegisterInvariance, PTL

\* What the register says of what it holds is true: both of the above.
THEOREM RegisterReadsTrue == RegisterSpec => []ReadingsAreTrue
  BY ReadingsAgree, NothingIsForgotten, PTL DEF ReadingsAreTrue

\* No call changes or removes what was raised or who took it.
THEOREM RecordsKept == RegisterSpec => RecordsAreKept
<1> DEFINE Kept(f) == \A id \in DOMAIN f : id \in DOMAIN f' /\ f'[id] = f[id]
<1>1. ASSUME [RegisterNext]_registerVars PROVE Kept(raised) /\ Kept(acknowledged)
  <2>1. ASSUME NEW id \in EscalationId, NEW e \in Escalations, RaiseEscalation(id, e)
        PROVE  Kept(raised) /\ Kept(acknowledged)
    BY <2>1 DEF RaiseEscalation, With
  <2>2. ASSUME NEW id \in EscalationId, NEW a \in Acknowledgements, AcknowledgeEscalation(id, a)
        PROVE  Kept(raised) /\ Kept(acknowledged)
    BY <2>2 DEF AcknowledgeEscalation, With
  <2> QED
    BY <1>1, <2>1, <2>2 DEF RegisterNext, registerVars
<1> QED
  BY <1>1, PTL DEF RegisterSpec, RecordsAreKept
=============================================================================
