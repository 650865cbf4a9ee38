----------------------------- MODULE Desk_proofs -----------------------------
(***************************************************************************)
(* Theorems about a clearing desk: the operator's cockpit, the supervisor  *)
(* of the agents that advise her, and the two journals that nothing is     *)
(* ever taken out of, the decisions of record and the equities books.      *)
(*                                                                         *)
(* ClearingCockpit, for any operations, pictures, reports and bounds.  The *)
(* invariant that carries its theorems ties four pieces of state           *)
(* together: the emission under way carries the verdict of its own         *)
(* tasking; the log is what a decision log may be; every package in the    *)
(* ledger names a record of its own in that log; and every escalation in   *)
(* the register is named by exactly one reconciliation.                    *)
(*                                                                         *)
(* AgentSupervisor, for any roster, inputs and findings: the invariant     *)
(* says what an output is, which of the slot's fields it stands in, and    *)
(* what a tick has done to the agents it has passed: all of them have an   *)
(* output of this tick, or are down.                                       *)
(*                                                                         *)
(* DSORStore, for any number of connections, operations and records.       *)
(* Everything follows from one inductive invariant, StoreInv: who may be   *)
(* past its INSERT, and what stays true of the log while it is.            *)
(*                                                                         *)
(* EquitiesBooks, for any drafts, issues and reports: the serialized       *)
(* journal rebuilds the book, and what a caller is told of a posting is    *)
(* true.  That the journal rebuilds is inductive with its type, and gives  *)
(* the fact the answers rest on: no source is in it twice.                 *)
(* A verification is a loop over the issues; what it raises holds after    *)
(* each turn, for the issues that have had theirs.                         *)
(***************************************************************************)
EXTENDS ClearingCockpit, AgentSupervisor, DSORStore, EquitiesBooks, Sums

Dispositions == {"emit_for_human_entry", "gate_held", "quorum_required_hold"}

Packages == [op : OperationId, regime : Regime, disposition : Dispositions,
             picture : Picture, record : Nat]

CockpitTypes ==
    /\ gathered \subseteq Tasking
    /\ readbacks \subseteq PortalReadback
    /\ prepared \subseteq Packages
    /\ log \in Seq(Record)

\* An emission past its guard carries what the gates say of its own tasking:
\* the verdict was compared with a fresh one, and a tasking does not change.
EmissionIsFresh ==
    \A e \in emitting : e.tasking \in Tasking /\ e.passed = Passes(e.tasking)

\* What a correction may be in this log: one of telemetry of its own operation,
\* appended before it.
CorrectionsAreNoDecisions ==
    \A i \in DOMAIN log :
        log[i].corr # NoCorrection =>
            /\ log[i].corr \in 1..(i - 1)
            /\ IsTelemetry(log[log[i].corr])
            /\ log[log[i].corr].op = log[i].op

\* A record of the log was handed out with at most one package.
OnePackagePerRecord ==
    \A p, q \in prepared : p.record = q.record /\ p.record # 0 => p = q

DecisionInv ==
    /\ OneOriginalPerOperation
    /\ CorrectionsAreNoDecisions
    /\ EmittedIsGoverned
    /\ OnePackagePerRecord

Inv == CockpitTypes /\ EmissionIsFresh /\ DecisionInv /\ EachBreachEscalated

-----------------------------------------------------------------------------
\* A record appended to a log of records is its last, and the others stay.
LEMMA AppendFacts ==
    ASSUME NEW s \in Seq(Record), NEW r \in Record
    PROVE  /\ Append(s, r) \in Seq(Record)
           /\ Len(s) \in Nat
           /\ DOMAIN s = 1..Len(s)
           /\ Len(Append(s, r)) = Len(s) + 1
           /\ DOMAIN Append(s, r) = 1..(Len(s) + 1)
           /\ \A i \in 1..Len(s) : Append(s, r)[i] = s[i]
           /\ Append(s, r)[Len(s) + 1] = r
  OBVIOUS

\* What a log holds is a record, and its position a number.
LEMMA ElementFacts ==
    ASSUME NEW s \in Seq(Record), NEW i \in DOMAIN s
    PROVE  s[i].op \in OperationId /\ i \in Nat
<1>1. s[i] \in Record /\ i \in Nat
  OBVIOUS
<1> QED
  BY <1>1 DEF Record

\* The gates and the magnitude read only the picture a package carries over.
LEMMA PackageReadsAsTasking ==
    ASSUME NEW e, NEW d, NEW n
    PROVE  /\ Passes(Package(e, d, n)) = Passes(e.tasking)
           /\ Material(Package(e, d, n)) = Material(e.tasking)
  BY DEF Package, Passes, Material

\* What a record the log accepts does to it: the two originals of an operation
\* that are told apart by no index cannot both be there.
LEMMA AppendKeepsDecisions ==
    ASSUME log \in Seq(Record), OneOriginalPerOperation, CorrectionsAreNoDecisions,
           NEW r \in Record, AppendRecord(r),
           r.corr # NoCorrection =>
               r.corr \in DOMAIN log /\ IsTelemetry(log[r.corr]) /\ log[r.corr].op = r.op
    PROVE  /\ log' \in Seq(Record)
           /\ OneOriginalPerOperation'
           /\ CorrectionsAreNoDecisions'
<1> USE DEF AppendRecord
<1>1. /\ log' \in Seq(Record)
      /\ Len(log) \in Nat
      /\ DOMAIN log = 1..Len(log)
      /\ DOMAIN log' = 1..(Len(log) + 1)
      /\ \A i \in 1..Len(log) : log'[i] = log[i]
      /\ log'[Len(log) + 1] = r
  BY AppendFacts
<1>2. OneOriginalPerOperation'
  <2>1. ASSUME NEW i \in DOMAIN log, log[i].op = r.op, log[i].corr = NoCorrection,
               r.corr = NoCorrection
        PROVE  FALSE
    BY <2>1 DEF Appendable, HasOriginal
  <2> QED
    BY <1>1, <2>1 DEF OneOriginalPerOperation
<1>3. CorrectionsAreNoDecisions'
  BY <1>1 DEF CorrectionsAreNoDecisions, IsTelemetry
<1> QED
  BY <1>1, <1>2, <1>3

\* What the ledger says of the records a log already holds stays true of it.
LEMMA AppendKeepsGoverned ==
    ASSUME log \in Seq(Record), NEW r \in Record, AppendRecord(r), NEW p \in Packages,
           p.record \in DOMAIN log
    PROVE  p.record \in DOMAIN log' /\ log'[p.record] = log[p.record]
  BY AppendFacts DEF AppendRecord
-----------------------------------------------------------------------------
LEMMA InitInv == Init => Inv
<1> SUFFICES ASSUME Init PROVE Inv
  OBVIOUS
<1> USE DEF Init, LogInit
<1>1. CockpitTypes /\ EmissionIsFresh
  BY DEF CockpitTypes, EmissionIsFresh
<1>2. DecisionInv
  BY DEF DecisionInv, OneOriginalPerOperation, CorrectionsAreNoDecisions,
         EmittedIsGoverned, Governed, OnePackagePerRecord
<1>3. EachBreachEscalated
  BY DEF EachBreachEscalated, Register!RegisterInit
<1> QED
  BY <1>1, <1>2, <1>3 DEF Inv

\* While the log and the ledger of packages stand still, so does what is said
\* of them; and likewise for the register and the reconciliations.
LEMMA DecisionsUnchanged ==
    ASSUME DecisionInv, UNCHANGED <<log, prepared>>
    PROVE  DecisionInv'
  BY DEF DecisionInv, OneOriginalPerOperation, CorrectionsAreNoDecisions,
         EmittedIsGoverned, Governed, OnePackagePerRecord

LEMMA EscalationsUnchanged ==
    ASSUME EachBreachEscalated, UNCHANGED <<raised, reconciled>>
    PROVE  EachBreachEscalated'
  BY DEF EachBreachEscalated

\* The steps that neither decide nor reconcile.
LEMMA QuietStepInv ==
    ASSUME Inv,
           UNCHANGED <<log, prepared, raised, reconciled>>,
           gathered' \subseteq Tasking, readbacks' \subseteq PortalReadback,
           EmissionIsFresh'
    PROVE  Inv'
  BY DecisionsUnchanged, EscalationsUnchanged DEF Inv, CockpitTypes

\* Beat 3 begins on a gate result that says what the gates say now.
LEMMA EmitBeginInv ==
    ASSUME Inv, NEW t \in gathered, NEW g \in validated, EmitBegin(t, g)
    PROVE  Inv'
<1>1. EmissionIsFresh'
  <2>1. t \in Tasking /\ g.passed = Passes(t)
    BY DEF Inv, CockpitTypes, EmitBegin, Matches
  <2> QED
    BY <2>1 DEF EmissionIsFresh, EmitBegin
<1> QED
  BY <1>1, QuietStepInv DEF EmitBegin, Inv, CockpitTypes, cycle, register

\* Beat 3 ends with the decision recorded and its package in the ledger.
LEMMA EmitRecordedInv ==
    ASSUME Inv, NEW e \in emitting, EmitRecorded(e), emitting' = {},
           UNCHANGED <<gathered, readbacks, reconciled, raised>>
    PROVE  Inv'
<1> DEFINE disposition == IF e.passed THEN "emit_for_human_entry" ELSE "gate_held"
           pkg == Package(e, disposition, Len(log) + 1)
<1> USE DEF Inv
<1>1. /\ e.tasking \in Tasking
      /\ e.passed = Passes(e.tasking)
      /\ e.passed \in BOOLEAN
  BY DEF EmissionIsFresh, Passes
<1>2. /\ Decision(e) \in Record
      /\ Decision(e).corr = NoCorrection
      /\ Decision(e).op = e.tasking.op
      /\ Decision(e).payload = IF e.passed THEN "telemetry" ELSE "escalation"
  BY <1>1, PayloadAssumption DEF Decision, Record, Tasking, NoCorrection
<1>3. /\ log \in Seq(Record)
      /\ Len(log) \in Nat
      /\ DOMAIN log = 1..Len(log)
      /\ DOMAIN log' = 1..(Len(log) + 1)
      /\ \A i \in DOMAIN log : log'[i] = log[i]
      /\ log'[Len(log) + 1] = Decision(e)
  BY <1>2, AppendFacts DEF EmitRecorded, AppendRecord, CockpitTypes
<1>4. log' \in Seq(Record) /\ OneOriginalPerOperation' /\ CorrectionsAreNoDecisions'
  BY <1>2, AppendKeepsDecisions DEF EmitRecorded, DecisionInv, CockpitTypes
<1>5. /\ pkg \in Packages
      /\ pkg.op = e.tasking.op
      /\ pkg.disposition = disposition
      /\ pkg.record = Len(log) + 1
  BY <1>1, <1>3 DEF Package, Packages, Tasking, Dispositions
<1>6. prepared' = prepared \cup {pkg}
  BY DEF EmitRecorded
<1>7. \A p \in prepared : p.record \in Nat /\ (p.record # 0 => p.record \in DOMAIN log)
  BY DEF CockpitTypes, Packages, DecisionInv, EmittedIsGoverned, Governed
<1>8. EmittedIsGoverned'
  <2>1. ASSUME NEW p \in prepared
        PROVE  Governed(p)'
    BY <2>1, <1>3, <1>7 DEF DecisionInv, EmittedIsGoverned, Governed
  <2>2. ASSUME NEW p \in {pkg}
        PROVE  Governed(p)'
    <3>1. pkg.disposition = "emit_for_human_entry" => Passes(pkg) /\ ~Material(pkg)
      BY <1>1, <1>5, PackageReadsAsTasking DEF EmitRecorded, QuorumHeld
    <3>2. pkg.disposition # "quorum_required_hold"
      BY <1>5
    <3>3. /\ pkg.record \in DOMAIN log'
          /\ log'[pkg.record] = Decision(e)
      BY <1>3, <1>5
    <3> QED
      BY <2>2, <3>1, <3>2, <3>3, <1>2, <1>5 DEF Governed
  <2> QED
    BY <1>6, <2>1, <2>2 DEF EmittedIsGoverned
<1>9. OnePackagePerRecord'
  BY <1>3, <1>5, <1>6, <1>7 DEF DecisionInv, OnePackagePerRecord
<1>10. CockpitTypes'
  BY <1>4, <1>5, <1>6 DEF CockpitTypes
<1>11. EmissionIsFresh' /\ EachBreachEscalated'
  BY EscalationsUnchanged DEF EmissionIsFresh
<1> QED
  BY <1>4, <1>8, <1>9, <1>10, <1>11 DEF DecisionInv

\* A material payment is held for the quorum: a package, and no record.
LEMMA EmitQuorumHoldInv ==
    ASSUME Inv, NEW e \in emitting, EmitQuorumHold(e), emitting' = {},
           UNCHANGED <<gathered, readbacks, reconciled, raised>>
    PROVE  Inv'
<1> DEFINE pkg == Package(e, "quorum_required_hold", 0)
<1> USE DEF Inv
<1>1. /\ pkg \in Packages
      /\ pkg.disposition = "quorum_required_hold"
      /\ pkg.record = 0
  BY DEF EmissionIsFresh, Package, Packages, Tasking, Dispositions
<1>2. prepared' = prepared \cup {pkg} /\ log' = log
  BY DEF EmitQuorumHold
<1>3. CockpitTypes' /\ EmissionIsFresh' /\ EachBreachEscalated'
  BY <1>1, <1>2, EscalationsUnchanged DEF CockpitTypes, EmissionIsFresh
<1>4. DecisionInv'
  <2>1. OneOriginalPerOperation' /\ CorrectionsAreNoDecisions'
    BY <1>2 DEF DecisionInv, OneOriginalPerOperation, CorrectionsAreNoDecisions
  <2>2. EmittedIsGoverned'
    BY <1>1, <1>2 DEF DecisionInv, EmittedIsGoverned, Governed
  <2>3. OnePackagePerRecord'
    BY <1>1, <1>2 DEF DecisionInv, OnePackagePerRecord
  <2> QED
    BY <2>1, <2>2, <2>3 DEF DecisionInv
<1> QED
  BY <1>3, <1>4

LEMMA EmitEndInv ==
    ASSUME Inv, EmitEnd
    PROVE  Inv'
<1>1. PICK e \in emitting : EmitRecorded(e) \/ EmitRefused(e) \/ EmitQuorumHold(e)
  BY DEF EmitEnd
<1>2. emitting' = {} /\ UNCHANGED <<gathered, readbacks, reconciled, raised>>
  BY DEF EmitEnd, register
<1>3. CASE EmitRecorded(e)
  BY <1>2, <1>3, EmitRecordedInv
<1>4. CASE EmitRefused(e)
  BY <1>2, <1>4, QuietStepInv DEF EmitRefused, EmissionIsFresh, Inv, CockpitTypes
<1>5. CASE EmitQuorumHold(e)
  BY <1>2, <1>5, EmitQuorumHoldInv
<1> QED
  BY <1>1, <1>3, <1>4, <1>5
-----------------------------------------------------------------------------
\* The risk control leg is broken exactly when the operator declared a breach.
LEMMA BreachIsALeg ==
    ASSUME NEW pkg, NEW rb, NEW stated
    PROVE  "risk_control" \in BrokenLegs(pkg, rb, stated) <=> rb.report.breached
  BY DEF BrokenLegs, Legs

\* A raising that the register accepts adds one identifier it did not hold,
\* though the identifier is made from a count.
LEMMA EscalateFacts ==
    ASSUME NEW id, Escalate(id)
    PROVE  id \notin DOMAIN raised /\ DOMAIN raised' = DOMAIN raised \cup {id}
  BY DEF Escalate, Register!RaiseEscalation, Register!With

LEMMA ReconcileInv ==
    ASSUME Inv, NEW rb \in readbacks, NEW pkg \in prepared, NEW stated \in Stated,
           ReconcileExpectedActual(pkg, rb, stated)
    PROVE  Inv'
<1> DEFINE id == NextEscalation(rb.op)
           rc == [op |-> rb.op, regime |-> rb.regime,
                  breaks |-> BrokenLegs(pkg, rb, stated),
                  escalations |-> IF rb.report.breached THEN {id} ELSE {},
                  expected |-> pkg]
<1> USE DEF Inv
<1>1. /\ reconciled' = reconciled \cup {rc}
      /\ rb.report.breached => Escalate(id)
      /\ ~rb.report.breached => raised' = raised
      /\ UNCHANGED <<gathered, readbacks, prepared, emitting, log>>
  BY DEF ReconcileExpectedActual, register
<1>2. CockpitTypes' /\ EmissionIsFresh'
  BY <1>1 DEF CockpitTypes, EmissionIsFresh
<1>3. DecisionInv'
  BY <1>1, DecisionsUnchanged
<1>4. /\ rc.op = rb.op
      /\ rc.breaks = BrokenLegs(pkg, rb, stated)
      /\ rc.escalations = IF rb.report.breached THEN {id} ELSE {}
      /\ id[1] = rc.op
  BY DEF NextEscalation
<1>5. EachBreachEscalated'
  <2>1. "risk_control" \in rc.breaks <=> rb.report.breached
    BY <1>4, BreachIsALeg
  <2>2. CASE rb.report.breached
    <3>1. id \notin DOMAIN raised /\ DOMAIN raised' = DOMAIN raised \cup {id}
      BY <1>1, <2>2, EscalateFacts
    <3>2. rc.escalations = {id}
      BY <1>4, <2>2
    <3>3. \A r \in reconciled : id \notin r.escalations
      BY <3>1 DEF EachBreachEscalated
    <3>4. \A r \in reconciled' :
            /\ r.escalations # {} <=> "risk_control" \in r.breaks
            /\ \A x \in r.escalations : x \in DOMAIN raised' /\ x[1] = r.op
      BY <1>1, <1>4, <2>1, <2>2, <3>1, <3>2 DEF EachBreachEscalated
    <3>5. \A r, s \in reconciled' : r.escalations \cap s.escalations # {} => r = s
      <4>1. \A r \in reconciled : /\ r.escalations \cap rc.escalations = {}
                                 /\ rc.escalations \cap r.escalations = {}
        BY <3>2, <3>3
      <4> HIDE DEF rc
      <4> QED
        BY <1>1, <4>1 DEF EachBreachEscalated
    <3>6. \A x \in DOMAIN raised' : \E r \in reconciled' : x \in r.escalations
      BY <1>1, <3>1, <3>2 DEF EachBreachEscalated
    <3> QED
      BY <3>4, <3>5, <3>6 DEF EachBreachEscalated
  <2>3. CASE ~rb.report.breached
    BY <1>1, <1>4, <2>1, <2>3 DEF EachBreachEscalated
  <2> QED
    BY <2>2, <2>3
<1> QED
  BY <1>2, <1>3, <1>5

\* An acknowledgment is a correction of telemetry, so it decides nothing.
LEMMA AcknowledgmentInv ==
    ASSUME Inv, NEW i \in DOMAIN log, RecordRailAcknowledgment(i)
    PROVE  Inv'
<1> DEFINE r == [op |-> log[i].op, payload |-> "acknowledged", corr |-> i]
<1> USE DEF Inv
<1>1. /\ AppendRecord(r) /\ IsTelemetry(log[i])
      /\ UNCHANGED <<gathered, readbacks, prepared, reconciled, emitting, raised>>
  BY DEF RecordRailAcknowledgment, cycle, register
<1>2. r \in Record /\ r.op = log[i].op /\ r.corr = i
  BY PayloadAssumption, ElementFacts DEF CockpitTypes, Record
<1>3. log' \in Seq(Record) /\ OneOriginalPerOperation' /\ CorrectionsAreNoDecisions'
  BY <1>1, <1>2, AppendKeepsDecisions DEF DecisionInv, CockpitTypes
<1>4. EmittedIsGoverned'
  BY <1>1, <1>2, AppendKeepsGoverned
  DEF DecisionInv, EmittedIsGoverned, Governed, CockpitTypes
<1>5. OnePackagePerRecord'
  BY <1>1 DEF DecisionInv, OnePackagePerRecord
<1>6. CockpitTypes' /\ EmissionIsFresh' /\ EachBreachEscalated'
  BY <1>1, <1>3, EscalationsUnchanged DEF CockpitTypes, EmissionIsFresh
<1> QED
  BY <1>3, <1>4, <1>5, <1>6 DEF DecisionInv

THEOREM Invariance == Spec => []Inv
<1>1. Inv /\ [Next]_vars => Inv'
  <2> SUFFICES ASSUME Inv, [Next]_vars PROVE Inv'
    OBVIOUS
  <2> USE DEF Inv, CockpitTypes
  <2>1. CASE UNCHANGED vars
    BY <2>1, QuietStepInv DEF vars, cycle, register, EmissionIsFresh
  <2>2. CASE HaltChanges
    BY <2>2, QuietStepInv DEF HaltChanges, cycle, register, EmissionIsFresh
  <2>3. ASSUME NEW t \in Tasking, CaptureTasking(t) PROVE Inv'
    BY <2>3, QuietStepInv DEF CaptureTasking, register, EmissionIsFresh
  <2>4. ASSUME NEW t \in gathered, RunValidationGates(t) PROVE Inv'
    BY <2>4, QuietStepInv DEF RunValidationGates, register, EmissionIsFresh
  <2>5. ASSUME NEW t \in gathered, NEW g \in validated, EmitBegin(t, g) PROVE Inv'
    BY <2>5, EmitBeginInv
  <2>6. CASE EmitEnd
    BY <2>6, EmitEndInv
  <2>7. ASSUME NEW rb \in PortalReadback, IngestPortalReadback(rb) PROVE Inv'
    BY <2>7, QuietStepInv DEF IngestPortalReadback, register, EmissionIsFresh
  <2>8. ASSUME NEW rb \in readbacks, NEW pkg \in prepared, NEW stated \in Stated,
               ReconcileExpectedActual(pkg, rb, stated)
        PROVE  Inv'
    BY <2>8, ReconcileInv
  <2>9. ASSUME NEW rc \in reconciled, RaiseBreak(rc) PROVE Inv'
    BY <2>9, QuietStepInv DEF RaiseBreak, cycle, register, EmissionIsFresh
  <2>10. ASSUME NEW i \in 1..MaxRecords, RecordRailAcknowledgment(i) PROVE Inv'
    BY <2>10, AcknowledgmentInv DEF RecordRailAcknowledgment
  <2> QED
    BY <2>1, <2>2, <2>3, <2>4, <2>5, <2>6, <2>7, <2>8, <2>9, <2>10 DEF Next
<1> QED
  BY <1>1, InitInv, PTL DEF Spec
-----------------------------------------------------------------------------
\* However often an operation is captured, validated and emitted again, at most
\* one package of it decides something (clearing_cockpit.py:615-690): two would
\* name two originals of one operation, and the log holds one.
THEOREM DecidedOnce == Spec => []OneDecisionPerOperation
<1>1. Inv => OneDecisionPerOperation
  <2> SUFFICES ASSUME Inv PROVE OneDecisionPerOperation
    OBVIOUS
  <2> USE DEF Inv, DecisionInv
  <2>1. ASSUME NEW p \in prepared, NEW q \in prepared,
               p.op = q.op, p.record # 0, q.record # 0
        PROVE  p = q
    <3>1. /\ p.record \in DOMAIN log /\ q.record \in DOMAIN log
          /\ log[p.record].op = p.op /\ log[q.record].op = q.op
          /\ log[p.record].corr = NoCorrection /\ log[q.record].corr = NoCorrection
      BY <2>1 DEF EmittedIsGoverned, Governed, CockpitTypes, Packages
    <3>2. p.record = q.record
      BY <2>1, <3>1 DEF OneOriginalPerOperation
    <3> QED
      BY <2>1, <3>2 DEF OnePackagePerRecord
  <2> QED
    BY <2>1 DEF OneDecisionPerOperation, CorrectionsAreNoDecisions
<1> QED
  BY <1>1, Invariance, PTL

\* What is handed out for entry passes every gate and needs no quorum, and its
\* record says so (settlement_operations_analyst.py, emit_settlement).
THEOREM EmissionsAreGoverned == Spec => []EmittedIsGoverned
  BY Invariance, PTL DEF Inv, DecisionInv

\* Each declared breach has its own escalation and the register no other.
THEOREM BreachesAreEscalated == Spec => []EachBreachEscalated
  BY Invariance, PTL DEF Inv

\* Whatever the cockpit and the acknowledgments do to the DSOR is a step of the
\* log it promises to be: an append that the store accepts, or nothing.
THEOREM UsesTheLog == Spec => LogSpec
<1>1. Init => LogInit
  BY DEF Init
<1>2. ASSUME Inv, [Next]_vars PROVE [LogNext]_log
  <2>1. ASSUME NEW r \in Record, AppendRecord(r), r.corr = NoCorrection \/ r.corr \in DOMAIN log
        PROVE  LogNext
    <3>1. r \in Candidates
      BY <1>2, <2>1 DEF Record, Candidates, NoCorrection, Inv, CockpitTypes
    <3> QED
      BY <2>1, <3>1 DEF LogNext
  <2>2. ASSUME EmitEnd PROVE [LogNext]_log
    <3>1. PICK e \in emitting : EmitRecorded(e) \/ EmitRefused(e) \/ EmitQuorumHold(e)
      BY <2>2 DEF EmitEnd
    <3>2. Decision(e) \in Record /\ Decision(e).corr = NoCorrection
      BY <1>2, PayloadAssumption
      DEF Inv, EmissionIsFresh, Decision, Record, Tasking, NoCorrection
    <3> QED
      BY <2>1, <3>1, <3>2 DEF EmitRecorded, EmitRefused, EmitQuorumHold
  <2>3. ASSUME NEW i \in 1..MaxRecords, RecordRailAcknowledgment(i) PROVE LogNext
    <3> DEFINE r == [op |-> log[i].op, payload |-> "acknowledged", corr |-> i]
    <3>1. AppendRecord(r) /\ i \in DOMAIN log
      BY <2>3 DEF RecordRailAcknowledgment
    <3>2. log[i].op \in OperationId /\ i \in Nat
      BY <1>2, <3>1, ElementFacts DEF Inv, CockpitTypes
    <3>3. r \in Record /\ r.corr \in DOMAIN log
      BY <3>1, <3>2, PayloadAssumption DEF Record
    <3> HIDE DEF r
    <3> QED
      BY <2>1, <3>1, <3>3
  <2>4. CASE UNCHANGED log
    BY <2>4
  <2> QED
    BY <1>2, <2>2, <2>3, <2>4
    DEF Next, vars, HaltChanges, CaptureTasking, RunValidationGates, EmitBegin,
        IngestPortalReadback, ReconcileExpectedActual, RaiseBreak
<1> QED
  BY <1>1, <1>2, Invariance, PTL DEF Spec, LogSpec

-----------------------------------------------------------------------------
\* The supervisor of the agents.

\* What a slot may hold: nothing, a refusal, or a recommendation whose input
\* the consumer admits and whose finding the output's validators accept.
IsOutput(out) ==
    /\ out.kind \in {"none", "refusal", "recommendation"}
    /\ out.at \in Int
    /\ out.kind = "recommendation" =>
         /\ out.unit \in Unit /\ Admitted(out.unit)
         /\ out.finding \in Finding /\ ValidFinding(out.finding)

\* The fields of one slot: the newest output is also the newest of its kind,
\* and no advice is of a tick that has not begun.
SlotInv(a) ==
    /\ up[a] \in BOOLEAN
    /\ IsOutput(last_output[a])
    /\ last_output[a].kind = "refusal" => last_refusal[a] = last_output[a]
    /\ last_output[a].kind = "recommendation" => last_recommendation[a] = last_output[a]
    /\ last_recommendation[a].at \in Int
    /\ last_recommendation[a].at <= tick

SupervisorTypes ==
    /\ DOMAIN up = Agent
    /\ DOMAIN last_output = Agent
    /\ DOMAIN last_recommendation = Agent
    /\ DOMAIN last_refusal = Agent
    /\ tick \in Int
    /\ position \in 0..(Len(Roster) + 1)

\* The agents a running tick has passed have spoken in it, or are down.
PassedHaveSpoken ==
    \A i \in DOMAIN Roster :
        i < position /\ up[Roster[i]] => /\ last_output[Roster[i]].kind # "none"
                                         /\ last_output[Roster[i]].at = tick

\* Under the halt a tick began with, nothing in it is advice.
HaltSilences ==
    position # 0 /\ tick_halt => \A a \in Agent : last_recommendation[a].at # tick

SupervisorInv ==
    /\ SupervisorTypes
    /\ \A a \in Agent : SlotInv(a)
    /\ PassedHaveSpoken
    /\ HaltSilences

-----------------------------------------------------------------------------
\* The agents are the places of the roster.
LEMMA RosterFacts ==
    /\ Len(Roster) \in Nat
    /\ DOMAIN Roster = 1..Len(Roster)
    /\ \A i \in 1..Len(Roster) : Roster[i] \in Agent
    /\ \A a \in Agent : \E i \in 1..Len(Roster) : Roster[i] = a
    /\ \A i, j \in 1..Len(Roster) : Roster[i] = Roster[j] => i = j
<1>1. Roster \in Seq(Agent)
  BY RosterAssumption
<1>2. Len(Roster) \in Nat /\ DOMAIN Roster = 1..Len(Roster)
  BY <1>1
<1> QED
  BY <1>2, RosterAssumption DEF Agent

LEMMA SupervisorInit == AgentsInit => SupervisorInv
<1> SUFFICES ASSUME AgentsInit PROVE SupervisorInv
  OBVIOUS
<1> USE DEF AgentsInit, NoOutput
<1>1. SupervisorTypes
  BY RosterFacts DEF SupervisorTypes
<1>2. \A a \in Agent : SlotInv(a)
  BY DEF SlotInv, IsOutput
<1>3. PassedHaveSpoken /\ HaltSilences
  BY RosterFacts DEF PassedHaveSpoken, HaltSilences
<1> QED
  BY <1>1, <1>2, <1>3 DEF SupervisorInv

\* A tick begins: whatever was said is older than it.
LEMMA TickBeginInv ==
    ASSUME SupervisorInv, TickBegin
    PROVE  SupervisorInv'
<1> USE DEF SupervisorInv, TickBegin, outputs
<1>1. SupervisorTypes'
  BY RosterFacts DEF SupervisorTypes
<1>2. \A a \in Agent : SlotInv(a)'
  BY DEF SupervisorTypes, SlotInv, IsOutput
<1>3. PassedHaveSpoken'
  BY RosterFacts DEF PassedHaveSpoken
<1>4. HaltSilences'
  BY DEF HaltSilences, SlotInv, SupervisorTypes
<1> QED
  BY <1>1, <1>2, <1>3, <1>4

\* Between ticks, or at the end of one, nothing is said of a running tick.
LEMMA BetweenTicksInv ==
    ASSUME SupervisorInv, position' = 0,
           UNCHANGED <<outputs, tick>>,
           DOMAIN up' = Agent, \A a \in Agent : up'[a] \in BOOLEAN
    PROVE  SupervisorInv'
<1> USE DEF SupervisorInv, outputs
<1>1. SupervisorTypes'
  BY RosterFacts DEF SupervisorTypes
<1>2. \A a \in Agent : SlotInv(a)'
  BY DEF SlotInv, IsOutput
<1>3. PassedHaveSpoken' /\ HaltSilences'
  BY RosterFacts DEF PassedHaveSpoken, HaltSilences
<1> QED
  BY <1>1, <1>2, <1>3

\* The slots, the tick and the position stand still.
LEMMA SlotsUnchanged ==
    ASSUME SupervisorInv, UNCHANGED <<up, outputs, tick, position, tick_halt>>
    PROVE  SupervisorInv'
  BY DEF SupervisorInv, outputs, SupervisorTypes, SlotInv, IsOutput, PassedHaveSpoken,
         HaltSilences

LEMMA SkipInv ==
    ASSUME SupervisorInv, Skip
    PROVE  SupervisorInv'
<1> USE DEF SupervisorInv, Skip, Running, Skips, Here, outputs
<1>1. SupervisorTypes'
  BY RosterFacts DEF SupervisorTypes
<1>2. \A a \in Agent : SlotInv(a)'
  BY DEF SlotInv, IsOutput
<1>3. PassedHaveSpoken'
  BY RosterFacts DEF PassedHaveSpoken, SupervisorTypes
<1>4. HaltSilences'
  BY RosterFacts DEF HaltSilences, SupervisorTypes
<1> QED
  BY <1>1, <1>2, <1>3, <1>4

\* A refusal or a recommendation is put in the slot the tick has reached.
LEMMA SpeakInv ==
    ASSUME SupervisorInv, Running, Advance, NEW out, IsOutput(out), out.kind # "none",
           out.at = tick,
           last_output' = [last_output EXCEPT ![Here] = out],
           \/ /\ out.kind = "refusal"
              /\ last_refusal' = [last_refusal EXCEPT ![Here] = out]
              /\ UNCHANGED last_recommendation
           \/ /\ out.kind = "recommendation"
              /\ last_recommendation' = [last_recommendation EXCEPT ![Here] = out]
              /\ UNCHANGED last_refusal
              /\ ~tick_halt
    PROVE  SupervisorInv'
<1> USE DEF SupervisorInv, Running, Advance
<1>1. Here \in Agent /\ position \in 1..Len(Roster)
  BY RosterFacts DEF Here
<1>2. /\ last_output'[Here] = out
      /\ \A a \in Agent : a # Here => last_output'[a] = last_output[a]
  BY <1>1 DEF SupervisorTypes
<1>3. SupervisorTypes'
  BY <1>1, RosterFacts DEF SupervisorTypes
<1>4. ASSUME NEW a \in Agent PROVE SlotInv(a)'
  <2>1. CASE a # Here
    BY <1>1, <1>2, <2>1 DEF SlotInv, IsOutput, SupervisorTypes
  <2>2. CASE a = Here
    BY <1>1, <1>2, <2>2 DEF SlotInv, IsOutput, SupervisorTypes
  <2> QED
    BY <2>1, <2>2
<1>5. PassedHaveSpoken'
  BY <1>1, <1>2, RosterFacts DEF PassedHaveSpoken, SupervisorTypes, Here
<1>6. HaltSilences'
  BY <1>1 DEF HaltSilences, SupervisorTypes
<1> QED
  BY <1>3, <1>4, <1>5, <1>6

LEMMA RefuseInv ==
    ASSUME SupervisorInv, NEW u \in Unit, NEW code, Running, Refuse(u, code), Advance
    PROVE  SupervisorInv'
<1> DEFINE out == Refusal(tick, u, code)
<1>1. IsOutput(out) /\ out.kind = "refusal" /\ out.at = tick
  BY DEF SupervisorInv, SupervisorTypes, Refusal, IsOutput
<1>2. /\ last_output' = [last_output EXCEPT ![Here] = out]
      /\ last_refusal' = [last_refusal EXCEPT ![Here] = out]
      /\ UNCHANGED last_recommendation
  BY DEF Refuse
<1> HIDE DEF out
<1> QED
  BY <1>1, <1>2, SpeakInv

LEMMA ObserveInv ==
    ASSUME SupervisorInv, NEW u \in Unit, NEW f \in Finding, Observe(u, f)
    PROVE  SupervisorInv'
<1> DEFINE out == Recommendation(tick, u, f)
<1>1. IsOutput(out) /\ out.kind = "recommendation" /\ out.at = tick
  BY DEF SupervisorInv, SupervisorTypes, Recommendation, IsOutput, Observe
<1>2. /\ last_output' = [last_output EXCEPT ![Here] = out]
      /\ last_recommendation' = [last_recommendation EXCEPT ![Here] = out]
      /\ UNCHANGED last_refusal
      /\ Running /\ Advance /\ ~tick_halt
  BY DEF Observe, Recommend
<1> HIDE DEF out
<1> QED
  BY <1>1, <1>2, SpeakInv

THEOREM SupervisorInvariance == AgentsSpec => []SupervisorInv
<1>1. SupervisorInv /\ [AgentsNext]_agents => SupervisorInv'
  <2> SUFFICES ASSUME SupervisorInv, [AgentsNext]_agents PROVE SupervisorInv'
    OBVIOUS
  <2>0. /\ DOMAIN up = Agent
        /\ \A a \in Agent : up[a] \in BOOLEAN
    BY DEF SupervisorInv, SupervisorTypes, SlotInv
  <2>1. CASE UNCHANGED agents \/ SetHalt \/ TakeSnapshot
    BY <2>1, SlotsUnchanged DEF agents, SetHalt, TakeSnapshot
  <2>2. CASE TickBegin
    BY <2>2, TickBeginInv
  <2>3. CASE Raise \/ TickEnd
    BY <2>0, <2>3, BetweenTicksInv DEF Raise, TickEnd
  <2>4. CASE Skip
    BY <2>4, SkipInv
  <2>5. ASSUME NEW a \in Agent, Stop(a) \/ Start(a) PROVE SupervisorInv'
    BY <2>0, <2>5, BetweenTicksInv DEF Stop, Start
  <2>6. ASSUME NEW u \in Unit, HaltRefusal(u) \/ HandoffRefusal(u) PROVE SupervisorInv'
    BY <2>6, RefuseInv DEF HaltRefusal, HandoffRefusal
  <2>7. ASSUME NEW u \in Unit, NEW f \in Finding, Observe(u, f) PROVE SupervisorInv'
    BY <2>7, ObserveInv
  <2> QED
    BY <2>1, <2>2, <2>3, <2>4, <2>5, <2>6, <2>7 DEF AgentsNext
<1> QED
  BY <1>1, SupervisorInit, PTL DEF AgentsSpec
-----------------------------------------------------------------------------
\* The four dispositions are told apart by their ranks.
LEMMA RankFacts ==
    /\ Rank("PASS") = 0 /\ Rank("HOLD") = 1
    /\ Rank("INDETERMINATE") = 2 /\ Rank("BLOCK") = 3
  BY DEF Rank

\* Every reading of an agent is one of the four.
LEMMA ReadingIsADisposition ==
    ASSUME NEW a \in Agent, SlotInv(a)
    PROVE  AgentDisposition(a) \in Disposition
  BY FindingAssumption DEF SlotInv, IsOutput, AgentDisposition, Current, NoOutput,
     FindingType, Disposition

\* The overall reading is the worst one: no agent's is worse, and a PASS overall
\* is a PASS of each.
LEMMA OverallIsWorst ==
    ASSUME SupervisorInv
    PROVE  /\ Overall \in Disposition
           /\ \A a \in Agent : Rank(AgentDisposition(a)) <= Rank(Overall)
<1> DEFINE Readings == {AgentDisposition(a) : a \in Agent}
           IsWorst(d) == /\ d \in Readings \cup {"PASS"}
                         /\ \A a \in Agent : Rank(AgentDisposition(a)) <= Rank(d)
<1>1. \A a \in Agent : AgentDisposition(a) \in Disposition
  BY ReadingIsADisposition DEF SupervisorInv
<1>2. \E d \in Disposition : IsWorst(d)
  <2>1. CASE "BLOCK" \in Readings
    BY <1>1, <2>1, RankFacts DEF Disposition
  <2>2. CASE "BLOCK" \notin Readings /\ "INDETERMINATE" \in Readings
    BY <1>1, <2>2, RankFacts DEF Disposition
  <2>3. CASE "BLOCK" \notin Readings /\ "INDETERMINATE" \notin Readings /\ "HOLD" \in Readings
    BY <1>1, <2>3, RankFacts DEF Disposition
  <2>4. CASE \A d \in Readings : d = "PASS"
    BY <1>1, <2>4, RankFacts DEF Disposition
  <2> QED
    BY <1>1, <2>1, <2>2, <2>3, <2>4 DEF Disposition
<1>3. Overall = CHOOSE d \in Disposition : IsWorst(d)
  BY DEF Overall
<1> HIDE DEF IsWorst
<1>4. Overall \in Disposition /\ IsWorst(Overall)
  BY <1>2, <1>3
<1> QED
  BY <1>4 DEF IsWorst

\* What an agent read as a PASS has produced.
LEMMA WhatAPassIs ==
    ASSUME NEW a \in Agent, SlotInv(a), AgentDisposition(a) = "PASS"
    PROVE  /\ up[a]
           /\ last_output[a].kind # "none"
           /\ a \in Probe => last_output[a].kind = "refusal"
           /\ a \notin Probe => /\ last_output[a].kind = "recommendation"
                                /\ last_output[a].finding.disposition = "PASS"
  BY DEF SlotInv, IsOutput, AgentDisposition, Current, NoOutput

\* A tick that ends in a PASS has had it from every agent, in that very tick,
\* and one begun under a halt never ends clean (supervisor.py:165-212).
THEOREM PassesAreEarned == AgentsSpec => []PassIsEarned
<1>1. SupervisorInv => PassIsEarned
  <2> SUFFICES ASSUME SupervisorInv, AtTheEnd PROVE PassIsEarned
    BY DEF PassIsEarned
  <2> USE DEF SupervisorInv
  <2>1. \A a \in Agent : up[a] => last_output[a].kind # "none" /\ last_output[a].at = tick
    BY RosterFacts DEF PassedHaveSpoken, AtTheEnd
  <2>2. ASSUME Overall = "PASS", NEW a \in Agent
        PROVE  /\ up[a]
               /\ last_output[a].kind # "none" /\ last_output[a].at = tick
               /\ IF a \in Probe THEN last_output[a] = last_refusal[a]
                  ELSE last_output[a] = last_recommendation[a]
    <3>1. AgentDisposition(a) = "PASS"
      BY <2>2, OverallIsWorst, ReadingIsADisposition, RankFacts DEF Disposition
    <3> QED
      BY <2>1, <3>1, WhatAPassIs DEF SlotInv
  <2>3. ASSUME tick_halt
        PROVE  \A a \in Agent : last_recommendation[a].at # tick
    BY <2>3, RosterFacts DEF HaltSilences, AtTheEnd
  <2>4. ASSUME tick_halt, Agent # Probe
        PROVE  Rank(Overall) >= Rank("INDETERMINATE")
    <3>1. PICK a \in Agent : a \notin Probe
      BY <2>4, ProbeAssumption
    <3>2. last_output[a].kind # "recommendation" \/ ~up[a]
      BY <2>1, <2>3, <2>4 DEF SlotInv
    <3>3. AgentDisposition(a) \in {"INDETERMINATE", "BLOCK"}
      BY <3>1, <3>2 DEF SlotInv, IsOutput, AgentDisposition, Current, NoOutput
    <3>4. Rank(Overall) \in Nat
      BY OverallIsWorst, RankFacts DEF Disposition
    <3> QED
      BY <3>3, <3>4, OverallIsWorst, RankFacts
  <2> QED
    BY <2>2, <2>3, <2>4 DEF PassIsEarned
<1> QED
  BY <1>1, SupervisorInvariance, PTL

\* An agent that reads as a PASS has run its policy over an input whose basis
\* was stated and which it may take (handoff.py, outputs.py).
THEOREM PassesHaveEvidence == AgentsSpec => []PassHasEvidence
<1>1. SupervisorInv => PassHasEvidence
  <2> SUFFICES ASSUME SupervisorInv, NEW a \in Agent \ Probe, AgentDisposition(a) = "PASS"
               PROVE  /\ last_output[a].finding.executed
                      /\ last_output[a].unit.basis # "null"
                      /\ (last_output[a].unit.origin = "agent_lateral"
                            => last_output[a].unit.basis = "recorded")
    BY DEF PassHasEvidence
  <2>1. /\ last_output[a].kind = "recommendation"
        /\ last_output[a].finding.disposition = "PASS"
    BY WhatAPassIs DEF SupervisorInv
  <2>2. Admitted(last_output[a].unit) /\ ValidFinding(last_output[a].finding)
    BY <2>1 DEF SupervisorInv, SlotInv, IsOutput
  <2> QED
    BY <2>1, <2>2 DEF Admitted, ValidFinding
<1> QED
  BY <1>1, SupervisorInvariance, PTL

-----------------------------------------------------------------------------
\* The store of decisions.

\* No two processes are past their INSERT at the same time.
OneWriter ==
    \A c, d \in Conn : txn[c] = "writer" /\ txn[d] = "writer" => c = d

\* A connection past its INSERT holds the write lock, alone, and what it is
\* about to commit is still acceptable.
WriterInv ==
    /\ \A c \in Conn : phase[c] = "committing" => txn[c] = "writer"
    /\ OneWriter
    /\ CommitIsSafe

\* A target that was found stays found, and no snapshot is ahead of the log.
ReadInv ==
    /\ \A c \in Conn : view[c] <= Len(log)
    /\ \A c \in Conn : phase[c] = "inserting" /\ req[c].corr # NoCorrection
                         => req[c].corr \in DOMAIN log

LogInv == OneOriginalPerOperation /\ CorrectionsResolve /\ AcknowledgedIsDurable

StoreInv == TypeOK /\ WriterInv /\ ReadInv /\ LogInv /\ RefusalIsTrue

-----------------------------------------------------------------------------
\* The initial state satisfies the invariant.
LEMMA StoreInitInv == StoreInit => StoreInv
<1> SUFFICES ASSUME StoreInit PROVE StoreInv
  OBVIOUS
<1> USE DEF StoreInit, LogInit
<1>1. NoRequest \in Record
  BY SomeRecordAssumption DEF NoRequest, Record, NoCorrection
<1>2. TypeOK
  BY <1>1 DEF TypeOK, Phases, Txns, Results
<1>3. WriterInv
  BY DEF WriterInv, OneWriter, CommitIsSafe
<1>4. ReadInv
  BY DEF ReadInv
<1>5. LogInv
  BY DEF LogInv, OneOriginalPerOperation, CorrectionsResolve, AcknowledgedIsDurable
<1>6. RefusalIsTrue
  BY DEF RefusalIsTrue
<1> QED
  BY <1>2, <1>3, <1>4, <1>5, <1>6 DEF StoreInv
-----------------------------------------------------------------------------
\* While the log stands still, so does everything said of it and of what was
\* acknowledged.
LEMMA LogInvUnchanged ==
    ASSUME LogInv, UNCHANGED <<log, acked>>
    PROVE  LogInv'
  BY DEF LogInv, OneOriginalPerOperation, CorrectionsResolve, AcknowledgedIsDurable

\* A new call starts: nothing but its own request, phase and snapshot moves.
LEMMA AppendOriginalInv ==
    ASSUME StoreInv, NEW c \in Conn, NEW r \in Requests, AppendOriginal(c, r)
    PROVE  StoreInv'
<1> USE DEF AppendOriginal, StoreInv, TypeOK
<1>1. r \in Record
  BY MaxStoredAssumption DEF Requests, Record
<1>2. TypeOK'
  BY <1>1 DEF Phases, Results
<1>3. WriterInv'
  BY DEF WriterInv, OneWriter, CommitIsSafe, Appendable, HasOriginal
<1>4. ReadInv'
  BY DEF ReadInv
<1>5. LogInv'
  BY LogInvUnchanged
<1>6. RefusalIsTrue'
  BY DEF RefusalIsTrue, HasOriginal
<1> QED
  BY <1>2, <1>3, <1>4, <1>5, <1>6

LEMMA AppendCorrectionInv ==
    ASSUME StoreInv, NEW c \in Conn, NEW r \in Requests, AppendCorrection(c, r)
    PROVE  StoreInv'
<1> USE DEF AppendCorrection, StoreInv, TypeOK, SelectPins, Return
<1>1. r \in Record
  BY MaxStoredAssumption DEF Requests, Record
<1>2. Visible(c) \in Nat /\ Visible(c) <= Len(log)
  BY DEF Visible, ReadInv
<1>3. TypeOK'
  BY <1>1, <1>2 DEF Phases, Results, Txns
<1>4. WriterInv'
  <2>1. \A d \in Conn : txn'[d] = "writer" <=> txn[d] = "writer"
    OBVIOUS
  <2>2. \A d \in Conn : phase'[d] = "committing"
                          => phase[d] = "committing" /\ req'[d] = req[d]
    OBVIOUS
  <2> QED
    BY <2>1, <2>2 DEF WriterInv, OneWriter, CommitIsSafe, Appendable, HasOriginal
<1>5. ReadInv'
  <2>1. \A d \in Conn : view'[d] <= Len(log')
    BY <1>2 DEF ReadInv
  <2>2. ASSUME NEW d \in Conn, phase'[d] = "inserting", req'[d].corr # NoCorrection
        PROVE  req'[d].corr \in DOMAIN log'
    <3>1. CASE d = c
      <4>1. r.corr <= Visible(c) /\ req'[d] = r
        BY <2>2, <3>1 DEF TargetFound
      <4>2. r.corr \in 1..Len(log)
        BY <4>1, <1>1, <1>2 DEF Record, NoCorrection
      <4> QED
        BY <4>1, <4>2
    <3>2. CASE d # c
      BY <2>2, <3>2 DEF ReadInv
    <3> QED
      BY <3>1, <3>2
  <2> QED
    BY <2>1, <2>2 DEF ReadInv
<1>6. LogInv'
  BY LogInvUnchanged
<1>7. RefusalIsTrue'
  BY DEF RefusalIsTrue, HasOriginal
<1> QED
  BY <1>3, <1>4, <1>5, <1>6, <1>7

\* The INSERT fails or succeeds; the log waits for the COMMIT.
LEMMA InsertStepInv ==
    ASSUME StoreInv, NEW c \in Conn, InsertLocked(c) \/ InsertRefused(c) \/ Insert(c)
    PROVE  StoreInv'
<1> USE DEF StoreInv, TypeOK, Return
<1>0. /\ UNCHANGED <<log, req, view, acked>>
      /\ phase[c] = "inserting"
  BY DEF InsertLocked, InsertRefused, Insert
<1>1. TypeOK'
  BY <1>0 DEF InsertLocked, InsertRefused, Insert, Phases, Results, Txns
<1>2. ReadInv' /\ LogInv'
  <2>1. \A d \in Conn : phase'[d] = "inserting" => phase[d] = "inserting"
    BY DEF InsertLocked, InsertRefused, Insert
  <2> QED
    BY <1>0, <2>1, LogInvUnchanged DEF ReadInv
<1>3. CASE InsertLocked(c)
  <2>1. WriterInv'
    BY <1>0, <1>3 DEF InsertLocked, WriterInv, OneWriter, CommitIsSafe, Appendable, HasOriginal
  <2>2. RefusalIsTrue'
    BY <1>0, <1>3 DEF InsertLocked, RefusalIsTrue, HasOriginal
  <2> QED
    BY <1>1, <1>2, <2>1, <2>2
<1>4. CASE InsertRefused(c)
  <2>1. WriterInv'
    BY <1>0, <1>4 DEF InsertRefused, LockRefused, WriterInv, OneWriter, CommitIsSafe, Appendable, HasOriginal
  <2>2. RefusalIsTrue'
    BY <1>0, <1>4 DEF InsertRefused, IndexRefuses, RefusalIsTrue, HasOriginal
  <2> QED
    BY <1>1, <1>2, <2>1, <2>2
<1>5. CASE Insert(c)
  <2>1. Appendable(req[c])
    BY <1>0, <1>5 DEF Insert, IndexRefuses, ReadInv, Appendable
  <2>2. WriterInv'
    BY <1>0, <1>5, <2>1 DEF Insert, LockRefused, WriterInv, OneWriter, CommitIsSafe, Appendable, HasOriginal
  <2>3. RefusalIsTrue'
    BY <1>0, <1>5 DEF Insert, RefusalIsTrue, HasOriginal
  <2> QED
    BY <1>1, <1>2, <2>2, <2>3
<1> QED
  BY <1>3, <1>4, <1>5

\* The one step that moves the log.  The connection is alone past its INSERT,
\* so no other committed row can have made its own unacceptable.
LEMMA CommitInv ==
    ASSUME StoreInv, NEW c \in Conn, Commit(c)
    PROVE  StoreInv'
<1> USE DEF StoreInv, TypeOK, Commit, Return, Acknowledge
<1>1. /\ log' = Append(log, req[c])
      /\ req[c] \in Record
      /\ Appendable(req[c])
      /\ UNCHANGED <<req, view>>
  BY DEF WriterInv, CommitIsSafe
<1>2. /\ log' \in Seq(Record)
      /\ Len(log) \in Nat
      /\ DOMAIN log = 1..Len(log)
      /\ Len(log') = Len(log) + 1
      /\ DOMAIN log' = 1..(Len(log) + 1)
      /\ \A i \in 1..Len(log) : log'[i] = log[i]
      /\ log'[Len(log) + 1] = req[c]
  BY <1>1, AppendFacts
<1>3. \A op : HasOriginal(op) => HasOriginal(op)'
  BY <1>2 DEF HasOriginal
<1>4. TypeOK'
  BY <1>1, <1>2 DEF Phases, Results, Txns
<1>5. WriterInv'
  <2>1. \A d \in Conn \ {c} : txn[d] # "writer" /\ phase[d] # "committing"
    BY DEF WriterInv, OneWriter
  <2>2. \A d \in Conn : phase'[d] # "committing" /\ txn'[d] # "writer"
    BY <2>1
  <2> QED
    BY <2>2 DEF WriterInv, OneWriter, CommitIsSafe
<1>6. ReadInv'
  <2>1. \A d \in Conn : phase'[d] = "inserting" => phase[d] = "inserting"
    OBVIOUS
  <2> QED
    BY <1>1, <1>2, <2>1 DEF ReadInv
<1>7. LogInv'
  <2>1. OneOriginalPerOperation'
    BY <1>1, <1>2 DEF LogInv, OneOriginalPerOperation, Appendable, HasOriginal
  <2>2. CorrectionsResolve'
    BY <1>1, <1>2 DEF LogInv, CorrectionsResolve, Appendable
  <2>3. AcknowledgedIsDurable'
    BY <1>1, <1>2 DEF LogInv, AcknowledgedIsDurable
  <2> QED
    BY <2>1, <2>2, <2>3 DEF LogInv
<1>8. RefusalIsTrue'
  <2>1. \A d \in Conn : result'[d] = "append_only" => result[d] = "append_only"
    OBVIOUS
  <2> QED
    BY <1>1, <1>3, <2>1 DEF RefusalIsTrue
<1> QED
  BY <1>4, <1>5, <1>6, <1>7, <1>8

\* A connection comes, goes or reads.
LEMMA ConnectionInv ==
    ASSUME StoreInv, NEW c \in Conn, Open(c) \/ Close(c) \/ Read(c)
    PROVE  StoreInv'
<1> USE DEF StoreInv, TypeOK
<1>1. UNCHANGED <<log, req, acked>>
  BY DEF Open, Close, Read
<1>2. Visible(c) \in Nat /\ Visible(c) <= Len(log)
  BY DEF Visible, ReadInv
<1>3. TypeOK'
  BY <1>1, <1>2 DEF Open, Close, Read, SelectPins, Phases, Txns, Results
<1>4. \A d \in Conn : /\ txn'[d] = "writer" => txn[d] = "writer"
                      /\ phase'[d] = "committing" => phase[d] = "committing" /\ txn'[d] = txn[d]
                      /\ phase'[d] = "inserting" => phase[d] = "inserting"
                      /\ result'[d] = "append_only" => result[d] = "append_only"
  BY DEF Open, Close, Read, SelectPins
<1>5. WriterInv'
  BY <1>1, <1>4 DEF WriterInv, OneWriter, CommitIsSafe, Appendable, HasOriginal
<1>6. ReadInv'
  <2>1. \A d \in Conn : view'[d] <= Len(log')
    BY <1>1, <1>2 DEF Open, Close, Read, SelectPins, ReadInv
  <2> QED
    BY <1>1, <1>4, <2>1 DEF ReadInv
<1>7. LogInv'
  BY <1>1, LogInvUnchanged
<1>8. RefusalIsTrue'
  BY <1>1, <1>4 DEF RefusalIsTrue, HasOriginal
<1> QED
  BY <1>3, <1>5, <1>6, <1>7, <1>8

LEMMA StoreNextInv == StoreInv /\ [StoreNext]_storeVars => StoreInv'
<1> SUFFICES ASSUME StoreInv, [StoreNext]_storeVars PROVE StoreInv'
  OBVIOUS
<1>1. CASE UNCHANGED storeVars
  BY <1>1 DEF storeVars, StoreInv, TypeOK, WriterInv, OneWriter, CommitIsSafe, Appendable,
              HasOriginal, ReadInv, LogInv, OneOriginalPerOperation,
              CorrectionsResolve, AcknowledgedIsDurable, RefusalIsTrue
<1>2. ASSUME NEW c \in Conn, Open(c) \/ Close(c) \/ Read(c) PROVE StoreInv'
  BY <1>2, ConnectionInv
<1>3. ASSUME NEW c \in Conn, NEW r \in Requests,
             AppendOriginal(c, r) \/ AppendCorrection(c, r)
      PROVE  StoreInv'
  BY <1>3, AppendOriginalInv, AppendCorrectionInv
<1>4. ASSUME NEW c \in Conn, AppendStep(c) PROVE StoreInv'
  BY <1>4, InsertStepInv, CommitInv DEF AppendStep
<1> QED
  BY <1>1, <1>2, <1>3, <1>4 DEF StoreNext

THEOREM StoreInvariance == StoreSpec => []StoreInv
  BY StoreInitInv, StoreNextInv, PTL DEF StoreSpec
-----------------------------------------------------------------------------
\* The variables of the store keep their types (store.py, every method).
THEOREM TypeCorrect == StoreSpec => []TypeOK
<1>1. StoreInv => TypeOK
  BY DEF StoreInv
<1> QED
  BY <1>1, StoreInvariance, PTL

\* However many processes append, fail and die, no operation ever has two
\* originals (store.py, append() and the partial unique index).
THEOREM OneOriginal == StoreSpec => []OneOriginalPerOperation
<1>1. StoreInv => OneOriginalPerOperation
  BY DEF StoreInv, LogInv
<1> QED
  BY <1>1, StoreInvariance, PTL

\* Every correction's target is a record before it (store.py, append()).
THEOREM CorrectionsAreOfRecords == StoreSpec => []CorrectionsResolve
<1>1. StoreInv => CorrectionsResolve
  BY DEF StoreInv, LogInv
<1> QED
  BY <1>1, StoreInvariance, PTL

\* What append() returned is in the store for ever (store.py, append()).
THEOREM AcknowledgedSurvives == StoreSpec => []AcknowledgedIsDurable
<1>1. StoreInv => AcknowledgedIsDurable
  BY DEF StoreInv, LogInv
<1> QED
  BY <1>1, StoreInvariance, PTL

\* DSORAppendOnlyError names an operation that has its original.
THEOREM RefusalsAreTrue == StoreSpec => []RefusalIsTrue
<1>1. StoreInv => RefusalIsTrue
  BY DEF StoreInv
<1> QED
  BY <1>1, StoreInvariance, PTL

\* Every step of the store is a step of the abstract log or leaves it alone:
\* the COMMIT is where a record is appended, and it appends one the log accepts.
THEOREM Refinement == StoreSpec => ImplementsLog
<1>1. StoreInit => LogInit
  BY DEF StoreInit
<1>2. StoreInv /\ [StoreNext]_storeVars => [LogNext]_log
  <2> SUFFICES ASSUME StoreInv, [StoreNext]_storeVars, log' # log PROVE LogNext
    OBVIOUS
  <2>1. PICK c \in Conn : Commit(c)
    BY DEF StoreNext, storeVars, Open, Close, Read, AppendOriginal, AppendCorrection,
           AppendStep, InsertLocked, InsertRefused, Insert
  <2>2. log' = Append(log, req[c]) /\ Appendable(req[c]) /\ req[c] \in Record
    BY <2>1 DEF Commit, StoreInv, TypeOK, WriterInv, CommitIsSafe
  <2>3. Len(log) \in Nat /\ DOMAIN log = 1..Len(log)
    BY DEF StoreInv, TypeOK
  <2>4. req[c] \in Candidates
    <3>1. req[c].corr \in 0..Len(log)
      <4>1. req[c].corr = 0 \/ req[c].corr \in DOMAIN log
        BY <2>2 DEF Appendable, NoCorrection
      <4> QED
        BY <2>3, <4>1
    <3> QED
      BY <2>2, <3>1 DEF Candidates, Record
  <2> QED
    BY <2>2, <2>4 DEF LogNext, AppendRecord
<1> QED
  BY <1>1, <1>2, StoreInvariance, PTL DEF StoreSpec, ImplementsLog, LogSpec

-----------------------------------------------------------------------------
\* The equities book: its journal is one that rebuilds it.
Journal == Seq(JournalEntry)

BookInv == journal \in Journal /\ ReplayRebuilds
-----------------------------------------------------------------------------
\* What post appends and what it leaves alone.
LEMMA JournaledCases ==
    ASSUME NEW j \in Journal, NEW e \in JournalEntry
    PROVE  /\ Journaled(j, e) \in Journal
           /\ Outcome(j, e) = "posted" => Journaled(j, e) = Append(j, e)
           /\ Outcome(j, e) # "posted" => Journaled(j, e) = j
  BY DEF Journaled, Journal

\* An entry is posted only when its source is new and what it reverses is there.
LEMMA PostedIsNew ==
    ASSUME NEW j, NEW e, Outcome(j, e) = "posted"
    PROVE  Of(j, e.source) = {}
  BY DEF Outcome

\* A journal that rebuilds holds each source once.
LEMMA OneEntryPerSource ==
    ASSUME BookInv, NEW i \in DOMAIN journal, NEW k \in DOMAIN journal,
           journal[i].source = journal[k].source
    PROVE  i = k
<1>1. journal \in Seq(JournalEntry)
  BY DEF BookInv, Journal
<1>2. ASSUME NEW m \in DOMAIN journal, NEW n \in DOMAIN journal, m < n,
             journal[m].source = journal[n].source
      PROVE  FALSE
  <2>1. Outcome(SubSeq(journal, 1, n - 1), journal[n]) = "posted"
    BY DEF BookInv, ReplayRebuilds
  <2>2. Of(SubSeq(journal, 1, n - 1), journal[n].source) = {}
    BY <2>1, PostedIsNew
  <2>3. m \in DOMAIN SubSeq(journal, 1, n - 1) /\ SubSeq(journal, 1, n - 1)[m] = journal[m]
    BY <1>1, <1>2
  <2> QED
    BY <1>2, <2>2, <2>3 DEF Of
<1>3. i \in Nat /\ k \in Nat
  BY <1>1
<1> QED
  BY <1>2, <1>3
-----------------------------------------------------------------------------
LEMMA BookInvInit == BooksInit => BookInv
  BY DEF BooksInit, BookInv, Journal, ReplayRebuilds

\* Posting keeps the journal one that rebuilds.
LEMMA PostKeeps ==
    ASSUME BookInv, NEW e \in JournalEntry, Post(e)
    PROVE  BookInv'
<1>1. journal \in Journal /\ journal' = Journaled(journal, e)
  BY DEF BookInv, Post
<1>2. CASE Outcome(journal, e) # "posted"
  <2>1. journal' = journal
    BY <1>1, <1>2, JournaledCases
  <2> QED
    BY <2>1 DEF BookInv, ReplayRebuilds
<1>3. CASE Outcome(journal, e) = "posted"
  <2>1. journal' = Append(journal, e) /\ journal' \in Journal
    BY <1>1, <1>3, JournaledCases
  <2>2. ASSUME NEW k \in DOMAIN journal'
        PROVE  Outcome(SubSeq(journal', 1, k - 1), journal'[k]) = "posted"
    <3>1. CASE k \in DOMAIN journal
      <4>1. journal'[k] = journal[k]
        BY <1>1, <2>1, <3>1 DEF Journal
      <4>2. SubSeq(journal', 1, k - 1) = SubSeq(journal, 1, k - 1)
        BY <1>1, <2>1, <3>1 DEF Journal
      <4> QED
        BY <3>1, <4>1, <4>2 DEF BookInv, ReplayRebuilds
    <3>2. CASE k = Len(journal) + 1
      <4>1. journal'[k] = e
        BY <1>1, <2>1, <3>2 DEF Journal
      <4>2. SubSeq(journal', 1, k - 1) = journal
        BY <1>1, <2>1, <3>2 DEF Journal
      <4> QED
        BY <1>3, <4>1, <4>2
    <3> QED
      BY <1>1, <2>1, <3>1, <3>2 DEF Journal
  <2> QED
    BY <2>1, <2>2 DEF BookInv, ReplayRebuilds
<1> QED
  BY <1>2, <1>3

LEMMA BookInvStep == BookInv /\ [BooksNext]_bookVars => BookInv'
<1> SUFFICES ASSUME BookInv, [BooksNext]_bookVars PROVE BookInv'
  OBVIOUS
<1>1. ASSUME NEW e \in JournalEntry, Post(e) PROVE BookInv'
  BY <1>1, PostKeeps
<1>2. ASSUME NEW report \in Observed \cup {Itself}, Verify(report) PROVE BookInv'
  BY <1>2 DEF Verify, BookInv, ReplayRebuilds
<1>3. CASE UNCHANGED bookVars
  BY <1>3 DEF bookVars, BookInv, ReplayRebuilds
<1> QED
  BY <1>1, <1>2, <1>3 DEF BooksNext

\* ledger.py:187: the serialized journal rebuilds the book, entry by entry.
THEOREM JournalRebuildsBook == BooksSpec => []ReplayRebuilds
<1>1. BookInv => ReplayRebuilds
  BY DEF BookInv
<1> QED
  BY <1>1, BookInvInit, BookInvStep, PTL DEF BooksSpec
-----------------------------------------------------------------------------
\* The answer to a posting is true of the journal it leaves.
LEMMA PostAnswers ==
    ASSUME BookInv, BookInv', NEW e \in JournalEntry, Post(e)
    PROVE  AnswersAreTrue'
<1> DEFINE Same == {journal'[k] : k \in Of(journal', e.source)}
<1>1. /\ journal \in Seq(JournalEntry) /\ journal' = Journaled(journal, e)
      /\ answer'.outcome = Outcome(journal, e) /\ answer'.asked = e
  BY DEF BookInv, Journal, Post
<1>2. CASE Outcome(journal, e) = "posted"
  <2>1. journal' = Append(journal, e)
    BY <1>1, <1>2, JournaledCases DEF Journal
  <2>2. Of(journal, e.source) = {}
    BY <1>2, PostedIsNew
  <2>3. Of(journal', e.source) = {Len(journal) + 1} /\ journal'[Len(journal) + 1] = e
    BY <1>1, <2>1, <2>2 DEF Of
  <2>4. Same = {e}
    BY <2>3
  <2> QED
    BY <1>1, <1>2, <2>4 DEF AnswersAreTrue
<1>3. CASE Outcome(journal, e) = "duplicate"
  <2>1. journal' = journal
    BY <1>1, <1>3, JournaledCases DEF Journal
  <2>2. PICK k \in Of(journal, e.source) : journal[k] = e
    BY <1>3 DEF Outcome
  <2>3. \A m \in Of(journal, e.source) : m = k
    BY <2>2, OneEntryPerSource DEF Of
  <2>4. Same = {e}
    BY <2>1, <2>2, <2>3
  <2> QED
    BY <1>1, <1>3, <2>4 DEF AnswersAreTrue
<1>4. CASE Outcome(journal, e) = "conflict"
  <2>1. journal' = journal
    BY <1>1, <1>4, JournaledCases DEF Journal
  <2>2. Of(journal, e.source) # {} /\ ~ \E k \in Of(journal, e.source) : journal[k] = e
    BY <1>4 DEF Outcome
  <2>3. Same # {} /\ e \notin Same
    BY <2>1, <2>2
  <2> QED
    BY <1>1, <1>4, <2>3 DEF AnswersAreTrue
<1>5. CASE Outcome(journal, e) = "refused"
  <2>1. journal' = journal
    BY <1>1, <1>5, JournaledCases DEF Journal
  <2>2. Of(journal, e.source) = {} /\ Named(journal, e.reverses) = {}
    BY <1>5 DEF Outcome
  <2>3. Same = {} /\ Named(journal', e.reverses) = {}
    BY <2>1, <2>2
  <2> QED
    BY <1>1, <1>5, <2>3 DEF AnswersAreTrue
<1>6. Outcome(journal, e) \in {"posted", "duplicate", "conflict", "refused"}
  BY DEF Outcome
<1> QED
  BY <1>2, <1>3, <1>4, <1>5, <1>6

\* A caller that lost an answer may post again: posted or duplicate, its entry
\* is the journal's one entry of that source; conflict, another is; refused, none.
THEOREM AnswersTrue == BooksSpec => []AnswersAreTrue
<1>1. BooksInit => AnswersAreTrue
  BY DEF BooksInit, AnswersAreTrue, NoAnswer
<1>2. BookInv /\ BookInv' /\ AnswersAreTrue /\ [BooksNext]_bookVars => AnswersAreTrue'
  <2> SUFFICES ASSUME BookInv, BookInv', AnswersAreTrue, [BooksNext]_bookVars PROVE AnswersAreTrue'
    OBVIOUS
  <2>1. ASSUME NEW e \in JournalEntry, Post(e) PROVE AnswersAreTrue'
    BY <2>1, PostAnswers
  <2>2. ASSUME NEW report \in Observed \cup {Itself}, Verify(report) PROVE AnswersAreTrue'
    <3>1. journal' = journal /\ answer' = answer
      BY <2>2, Zenon DEF Verify
    <3> QED
      BY <3>1, SMTT(20) DEF AnswersAreTrue, Of, Named
  <2>3. CASE UNCHANGED bookVars
    BY <2>3 DEF bookVars, AnswersAreTrue, Of, Named
  <2> QED
    BY <2>1, <2>2, <2>3 DEF BooksNext
<1> QED
  BY <1>1, <1>2, BookInvInit, BookInvStep, PTL DEF BooksSpec
-----------------------------------------------------------------------------
\* The loop of verify_stock_record.  A set of places has a last one.
LEMMA LastPlace ==
    ASSUME NEW D \in SUBSET Nat, IsFiniteSet(D), NEW s \in SUBSET D, s # {}
    PROVE  Max(s) \in s
<1>1. s \in SUBSET Nat /\ IsFiniteSet(s)
  BY FS_Subset
<1> QED
  BY <1>1, MaxIsGreatest

\* Sequences that are joined are one sequence.
LEMMA FlatIsSeq ==
    ASSUME NEW X, NEW n \in Nat, NEW q \in [1..n -> Seq(X)]
    PROVE  FlattenSeq(q) \in Seq(X)
<1>1. q \in Seq(Seq(X)) /\ Len(q) = n
  OBVIOUS
<1>2. CASE n = 0
  <2>1. FlattenSeq(q) = q
    BY <1>1, <1>2 DEF FlattenSeq
  <2>2. q = <<>>
    BY <1>1, <1>2
  <2> QED
    BY <2>1, <2>2
<1>3. CASE n # 0
  <2> DEFINE D == 1..n
             flat == CHOOSE f : f = [i \in 1..n |-> IF i = 1 THEN q[i] ELSE f[i - 1] \o q[i]]
             pick == [s \in SUBSET D |-> Max(s)]
             step == [p \in D \X Seq(X) |-> p[2] \o q[p[1]]]
  <2>1. D \in SUBSET Nat /\ IsFiniteSet(D)
    BY FS_Interval
  <2>2. \A s \in SUBSET D : pick[s] = Max(s) /\ (s # {} => pick[s] \in s)
    BY <2>1, LastPlace
  <2>3. step \in [D \X Seq(X) -> Seq(X)]
    OBVIOUS
  <2>4. \A i \in D : \A a \in Seq(X) : step[<<i, a>>] = a \o q[i]
    OBVIOUS
  <2>5. <<>> \in Seq(X)
    OBVIOUS
  <2> HIDE DEF pick, step
  <2>6. PICK H : IsFold(H, D, Seq(X), <<>>, pick, step)
    BY <2>1, <2>2, <2>3, <2>5, FoldExists
  <2> DEFINE h == [i \in 1..n |-> H[1..i]]
  <2>7. ASSUME NEW i \in 1..n
        PROVE  H[1..i] = H[1..(i - 1)] \o q[i] /\ H[1..(i - 1)] \in Seq(X)
    <3>1. (1..i) \in SUBSET D /\ (1..(i - 1)) \in SUBSET D /\ 1..i # {}
      <4>1. i \in 1..i
        OBVIOUS
      <4>2. (\A k \in 1..i : k \in D) /\ \A k \in 1..(i - 1) : k \in D
        OBVIOUS
      <4> QED
        BY <4>1, <4>2, Zenon
    <3>2. Max(1..i) = i
      <4>1. 1..i \in SUBSET Nat /\ IsFiniteSet(1..i)
        BY FS_Interval
      <4>2. Max(1..i) \in 1..i /\ \A x \in 1..i : Max(1..i) >= x
        BY <3>1, <4>1, MaxIsGreatest
      <4>3. Max(1..i) >= i
        BY <4>2
      <4> QED
        BY <4>2, <4>3
    <3>3. (1..i) \ {i} = 1..(i - 1)
      OBVIOUS
    <3>4. H[1..i] = step[<<i, H[1..(i - 1)]>>]
      <4> DEFINE here == 1..i
                 before == 1..(i - 1)
      <4>1. /\ here \in SUBSET D /\ here # {} /\ pick[here] = i
            /\ here \ {pick[here]} = before
        BY <2>2, <3>1, <3>2, <3>3, Zenon
      <4> HIDE DEF here, before
      <4>2. H[here] = step[<<pick[here], H[here \ {pick[here]}]>>]
        BY <2>6, <4>1, Zenon DEF IsFold
      <4>3. H[here] = step[<<i, H[before]>>]
        BY <4>1, <4>2, Zenon
      <4> QED
        BY <4>3 DEF here, before
    <3>5. H[1..(i - 1)] \in Seq(X)
      BY <2>6, <3>1 DEF IsFold
    <3> QED
      BY <2>4, <3>4, <3>5
  <2>8. H[1..0] = <<>>
    <3>1. 1..0 = {} /\ {} \in SUBSET D
      OBVIOUS
    <3> QED
      BY <2>6, <3>1 DEF IsFold
  <2>9. ASSUME NEW i \in 1..n
        PROVE  h[i] = IF i = 1 THEN q[i] ELSE h[i - 1] \o q[i]
    <3>1. CASE i = 1
      <4>1. 1..(i - 1) = 1..0
        BY <3>1
      <4>2. h[i] = <<>> \o q[i] /\ q[i] \in Seq(X)
        BY <2>7, <2>8, <4>1
      <4> QED
        BY <3>1, <4>2
    <3>2. CASE i # 1
      <4>1. i - 1 \in 1..n
        BY <3>2
      <4>2. h[i - 1] = H[1..(i - 1)]
        BY <4>1
      <4> QED
        BY <2>7, <3>2, <4>2
    <3> QED
      BY <3>1, <3>2
  <2>10. h = [i \in 1..n |-> IF i = 1 THEN q[i] ELSE h[i - 1] \o q[i]]
    BY <2>9
  <2> HIDE DEF h
  <2>11. flat = [i \in 1..n |-> IF i = 1 THEN q[i] ELSE flat[i - 1] \o q[i]]
    BY <2>10, Zenon
  <2>12. FlattenSeq(q) = flat[n]
    BY <1>1, <1>3 DEF FlattenSeq
  <2> HIDE DEF flat
  <2> DEFINE Bad == {i \in 1..n : flat[i] \notin Seq(X)}
  <2>13. Bad = {}
    <3> SUFFICES ASSUME Bad # {} PROVE FALSE
      OBVIOUS
    <3>1. PICK i \in Bad : \A k \in Bad : i <= k
      <4>1. Bad \in SUBSET Nat
        OBVIOUS
      <4> HIDE DEF Bad
      <4> QED
        BY <4>1, Least
    <3>2. i \in 1..n /\ flat[i] \notin Seq(X) /\ q[i] \in Seq(X)
      BY <3>1
    <3>3. i # 1 /\ flat[i] = flat[i - 1] \o q[i]
      BY <2>11, <3>2
    <3>4. i - 1 \in 1..n /\ ~(i <= i - 1)
      BY <3>2, <3>3
    <3>5. flat[i - 1] \in Seq(X)
      BY <3>1, <3>4
    <3> QED
      BY <3>2, <3>3, <3>5
  <2>14. n \in 1..n
    BY <1>3
  <2> QED
    BY <2>12, <2>13, <2>14
<1> QED
  BY <1>2, <1>3

\* The lines of a journal are one sequence, and its issues are another.
LEMMA LinesType ==
    ASSUME NEW j \in Journal
    PROVE  LinesOf(j) \in Seq(Line)
<1>1. \A k \in DOMAIN j : j[k] \in EntryType
  BY DraftAssumption DEF Journal, JournalEntry
<1>2. Len(j) \in Nat /\ DOMAIN j = 1..Len(j)
  BY DEF Journal
<1> DEFINE q == [k \in DOMAIN j |-> j[k].lines]
<1>3. q \in [1..Len(j) -> Seq(Line)]
  BY <1>1, <1>2 DEF EntryType
<1> HIDE DEF q
<1>4. FlattenSeq(q) \in Seq(Line)
  BY <1>2, <1>3, FlatIsSeq
<1> QED
  BY <1>4 DEF LinesOf, q

LEMMA IssuesType ==
    ASSUME NEW j \in Journal
    PROVE  Issues(j) \in Seq(Issue)
<1> DEFINE l == LinesOf(j)
           D == DOMAIN l
           I == Seq(Issue)
           Tally(i, seen) == IF l[i].issue \in Range(seen) THEN seen ELSE Append(seen, l[i].issue)
           pick == [s \in SUBSET D |-> Max(s)]
           step == [p \in D \X I |-> Tally(p[1], p[2])]
           G == CHOOSE g : g = [s \in SUBSET D |-> IF s = {} THEN <<>>
                   ELSE LET x == Max(s)
                        IN  IF l[x].issue \in Range(g[s \ {x}]) THEN g[s \ {x}]
                            ELSE Append(g[s \ {x}], l[x].issue)]
<1>1. l \in Seq(Line)
  BY LinesType
<1>2. Issues(j) = G[D]
  BY Zenon DEF Issues, FoldLeft, MapThenFoldSet
<1> HIDE DEF l
<1>3. D \in SUBSET Nat /\ IsFiniteSet(D)
  <2>1. D = 1..Len(l) /\ Len(l) \in Int
    BY <1>1
  <2> QED
    BY <2>1, FS_Interval
<1>4. \A i \in D : l[i].issue \in Issue
  <2>1. \A i \in D : l[i] \in Line
    BY <1>1
  <2> QED
    BY <2>1 DEF Line
<1>5. \A i \in D : \A seen \in I : Tally(i, seen) \in I
  BY <1>4
<1> HIDE DEF D
<1>6. \A s \in SUBSET D : pick[s] = Max(s) /\ (s # {} => pick[s] \in s)
  BY <1>3, LastPlace
<1>7. step \in [D \X I -> I] /\ \A i \in D : \A seen \in I : step[<<i, seen>>] = Tally(i, seen)
  BY <1>5
<1>8. <<>> \in I
  OBVIOUS
<1> HIDE DEF pick, step, I
<1>9. PICK F : IsFold(F, D, I, <<>>, pick, step)
  BY <1>3, <1>6, <1>7, <1>8, FoldExists
<1>10. F = [s \in SUBSET D |-> IF s = {} THEN <<>>
              ELSE LET x == Max(s) IN IF l[x].issue \in Range(F[s \ {x}]) THEN F[s \ {x}]
                                      ELSE Append(F[s \ {x}], l[x].issue)]
  <2>1. ASSUME NEW s \in SUBSET D, s # {}
        PROVE  F[s] = Tally(Max(s), F[s \ {Max(s)}])
    <3>1. Max(s) \in D /\ F[s \ {Max(s)}] \in I
      BY <1>6, <1>9, <2>1 DEF IsFold
    <3>2. F[s] = step[<<Max(s), F[s \ {Max(s)}]>>]
      BY <1>6, <1>9, <2>1 DEF IsFold
    <3> QED
      BY <1>7, <3>1, <3>2
  <2>2. F \in [SUBSET D -> I] /\ F[{}] = <<>>
    BY <1>9 DEF IsFold
  <2> QED
    BY <2>1, <2>2
<1>11. G = [s \in SUBSET D |-> IF s = {} THEN <<>>
              ELSE LET x == Max(s) IN IF l[x].issue \in Range(G[s \ {x}]) THEN G[s \ {x}]
                                      ELSE Append(G[s \ {x}], l[x].issue)]
  BY <1>10, Zenon
<1> HIDE DEF G
<1> DEFINE Bad == {s \in SUBSET D : G[s] \notin I}
<1>12. Bad = {}
  <2> SUFFICES ASSUME Bad # {} PROVE FALSE
    OBVIOUS
  <2>1. PICK s \in Bad : \A u \in SUBSET s : u # s => u \notin Bad
    <3>1. Bad \in SUBSET (SUBSET D)
      OBVIOUS
    <3> HIDE DEF Bad
    <3> QED
      BY <1>3, <3>1, LeastSubset
  <2>2. s \in SUBSET D /\ G[s] \notin I
    BY <2>1
  <2>3. s # {}
    BY <1>8, <1>11, <2>2
  <2>4. Max(s) \in s
    BY <1>3, <2>2, <2>3, LastPlace
  <2>5. G[s \ {Max(s)}] \in I
    BY <2>1, <2>2, <2>4
  <2>6. G[s] = Tally(Max(s), G[s \ {Max(s)}])
    BY <1>11, <2>2, <2>3
  <2> QED
    BY <1>5, <2>2, <2>4, <2>5, <2>6
<1>13. G[D] \in I
  BY <1>12
<1> QED
  BY <1>2, <1>13 DEF I

\* At most one break of an issue.
OneBreakEach(now) == \A b, c \in now : b.issue = c.issue => b = c

\* After the turn of an issue that differs, its one break is of its difference.
Raised(now, report, i) ==
    Difference(report, i) # 0 => \E b \in now : b.issue = i /\ b.difference = Difference(report, i)

\* One turn of the loop.
LEMMA CompareRaises ==
    ASSUME NEW known, OneBreakEach(known), NEW report, NEW i
    PROVE  /\ OneBreakEach(Compare(known, report, i))
           /\ Raised(Compare(known, report, i), report, i)
           /\ \A k : k # i /\ Raised(known, report, k) => Raised(Compare(known, report, i), report, k)
<1> DEFINE others == {b \in known : b.issue # i}
           new == Break(others, report, i)
<1>1. CASE Difference(report, i) = 0 \/ \E b \in known \ others : b.difference = Difference(report, i)
  <2>1. Compare(known, report, i) = known
    BY <1>1 DEF Compare
  <2>2. Raised(known, report, i)
    BY <1>1 DEF Raised
  <2> QED
    BY <2>1, <2>2
<1>2. CASE ~(Difference(report, i) = 0 \/ \E b \in known \ others : b.difference = Difference(report, i))
  <2>1. Compare(known, report, i) = others \cup {new}
    BY <1>2 DEF Compare
  <2>2. new.issue = i /\ new.difference = Difference(report, i)
    BY DEF Break
  <2> HIDE DEF new
  <2>3. OneBreakEach(others \cup {new})
    BY <2>2 DEF OneBreakEach
  <2>4. Raised(others \cup {new}, report, i)
    BY <2>2 DEF Raised
  <2>5. ASSUME NEW k, k # i, Raised(known, report, k)
        PROVE  Raised(others \cup {new}, report, k)
    BY <2>5 DEF Raised
  <2> QED
    BY <2>1, <2>3, <2>4, <2>5
<1> QED
  BY <1>1, <1>2

\* The sets of breaks that the loop can come to.
Reachable(report, q) ==
    {t \in SUBSET (breaks \cup [number : Nat, issue : Range(q),
                                ownership : {Ownership(i) : i \in Range(q)},
                                location : {Held(report, i) : i \in Range(q)},
                                difference : {Difference(report, i) : i \in Range(q)}]) :
       IsFiniteSet(t)}

LEMMA CompareReaches ==
    ASSUME NEW report, NEW q, NEW i \in Range(q), NEW known \in Reachable(report, q)
    PROVE  Compare(known, report, i) \in Reachable(report, q)
<1> DEFINE others == {b \in known : b.issue # i}
           new == Break(others, report, i)
           B == [number : Nat, issue : Range(q),
                 ownership : {Ownership(k) : k \in Range(q)},
                 location : {Held(report, k) : k \in Range(q)},
                 difference : {Difference(report, k) : k \in Range(q)}]
<1>1. Compare(known, report, i) = known \/ Compare(known, report, i) = others \cup {new}
  BY DEF Compare
<1>2. IsFiniteSet(known) /\ known \subseteq breaks \cup B
  BY DEF Reachable
<1>3. IsFiniteSet(others)
  BY <1>2, FS_Subset
<1>4. Cardinality(others) + 1 \in Nat
  BY <1>3, FS_CardinalityType
<1>5. new \in B
  BY <1>4 DEF Break
<1> HIDE DEF new, B
<1>6. IsFiniteSet(others \cup {new})
  BY <1>3, FS_AddElement
<1>7. others \cup {new} \subseteq breaks \cup B
  BY <1>2, <1>5
<1> QED
  BY <1>1, <1>6, <1>7 DEF Reachable, B

Loop(report, q) == FoldLeft(LAMBDA known, i : Compare(known, report, i), breaks, q)

\* The loop raises what differs, for any order of the issues.
LEMMA LoopRaises ==
    ASSUME NEW report, NEW q \in Seq(Issue), OneBreakEach(breaks), IsFiniteSet(breaks)
    PROVE  /\ OneBreakEach(Loop(report, q)) /\ IsFiniteSet(Loop(report, q))
           /\ \A i \in Range(q) : Raised(Loop(report, q), report, i)
<1> DEFINE D == DOMAIN q
           T == Reachable(report, q)
           pick == [s \in SUBSET D |-> Max(s)]
           step == [p \in D \X T |-> Compare(p[2], report, q[p[1]])]
           G == CHOOSE g : g = [s \in SUBSET D |-> IF s = {} THEN breaks
                   ELSE LET x == Max(s) IN Compare(g[s \ {x}], report, q[x])]
<1>1. Loop(report, q) = G[D]
  BY Zenon DEF Loop, FoldLeft, MapThenFoldSet
<1>2. D \in SUBSET Nat /\ IsFiniteSet(D)
  <2>1. D = 1..Len(q) /\ Len(q) \in Int
    OBVIOUS
  <2> QED
    BY <2>1, FS_Interval
<1>3. \A i \in D : q[i] \in Range(q)
  BY DEF Range
<1>4. \A i \in D : \A t \in T : Compare(t, report, q[i]) \in T
  BY <1>3, CompareReaches
<1> HIDE DEF D
<1>5. \A s \in SUBSET D : pick[s] = Max(s) /\ (s # {} => pick[s] \in s)
  BY <1>2, LastPlace
<1>6. step \in [D \X T -> T] /\ \A i \in D : \A t \in T : step[<<i, t>>] = Compare(t, report, q[i])
  BY <1>4
<1>7. breaks \in T
  BY DEF Reachable
<1> HIDE DEF pick, step, T
<1>8. PICK F : IsFold(F, D, T, breaks, pick, step)
  BY <1>2, <1>5, <1>6, <1>7, FoldExists
<1>9. F = [s \in SUBSET D |-> IF s = {} THEN breaks
              ELSE LET x == Max(s) IN Compare(F[s \ {x}], report, q[x])]
  <2>1. ASSUME NEW s \in SUBSET D, s # {}
        PROVE  F[s] = Compare(F[s \ {Max(s)}], report, q[Max(s)])
    <3>1. Max(s) \in D /\ F[s \ {Max(s)}] \in T
      BY <1>5, <1>8, <2>1 DEF IsFold
    <3>2. F[s] = step[<<Max(s), F[s \ {Max(s)}]>>]
      BY <1>5, <1>8, <2>1 DEF IsFold
    <3> QED
      BY <1>6, <3>1, <3>2
  <2>2. F \in [SUBSET D -> T] /\ F[{}] = breaks
    BY <1>8 DEF IsFold
  <2> QED
    BY <2>1, <2>2
<1>10. G = [s \in SUBSET D |-> IF s = {} THEN breaks
               ELSE LET x == Max(s) IN Compare(G[s \ {x}], report, q[x])]
  BY <1>9, Zenon
<1> HIDE DEF G
<1> DEFINE Good(s) == /\ G[s] \in T /\ OneBreakEach(G[s])
                      /\ \A i \in s : Raised(G[s], report, q[i])
           Bad == {s \in SUBSET D : ~Good(s)}
<1>11. Bad = {}
  <2> SUFFICES ASSUME Bad # {} PROVE FALSE
    OBVIOUS
  <2>1. PICK s \in Bad : \A u \in SUBSET s : u # s => u \notin Bad
    <3>1. Bad \in SUBSET (SUBSET D)
      OBVIOUS
    <3> HIDE DEF Bad
    <3> QED
      BY <1>2, <3>1, LeastSubset
  <2>2. s \in SUBSET D /\ ~Good(s)
    BY <2>1
  <2>3. s # {}
    BY <1>7, <1>10, <2>2
  <2> DEFINE x == Max(s)
             u == s \ {x}
  <2>4. x \in s
    BY <1>2, <2>2, <2>3, LastPlace
  <2>5. Good(u)
    BY <2>1, <2>2, <2>4
  <2>6. G[s] = Compare(G[u], report, q[x])
    BY <1>10, <2>2, <2>3
  <2> HIDE DEF x
  <2>7. /\ OneBreakEach(G[s]) /\ Raised(G[s], report, q[x])
        /\ \A k : k # q[x] /\ Raised(G[u], report, k) => Raised(G[s], report, k)
    <3> DEFINE known == G[u]
               issue == q[x]
    <3>1. OneBreakEach(known)
      BY <2>5
    <3>2. G[s] = Compare(known, report, issue)
      BY <2>6
    <3> HIDE DEF known, issue
    <3>3. /\ OneBreakEach(Compare(known, report, issue))
          /\ Raised(Compare(known, report, issue), report, issue)
          /\ \A k : k # issue /\ Raised(known, report, k)
                   => Raised(Compare(known, report, issue), report, k)
      BY <3>1, CompareRaises
    <3> QED
      BY <3>2, <3>3, Zenon DEF known, issue
  <2>8. G[s] \in T
    BY <1>4, <2>2, <2>4, <2>5, <2>6
  <2>9. \A i \in s : Raised(G[s], report, q[i])
    BY <2>5, <2>7
  <2> QED
    BY <2>2, <2>7, <2>8, <2>9
<1>12. Good(D)
  BY <1>11
<1>13. IsFiniteSet(G[D])
  BY <1>12 DEF T, Reachable
<1>14. \A i \in Range(q) : Raised(G[D], report, i)
  BY <1>12 DEF Range, D
<1> QED
  BY <1>1, <1>12, <1>13, <1>14

\* What was verified is a matter of the breaks alone, whatever is posted since.
BreaksInv == OneBreakEach(breaks) /\ IsFiniteSet(breaks)

LEMMA VerifyRaises ==
    ASSUME BookInv, BreaksInv, NEW report, Verify(report)
    PROVE  BreaksInv' /\ DifferencesAreRaised'
<1>1. Issues(journal) \in Seq(Issue)
  BY IssuesType DEF BookInv
<1> DEFINE q == Issues(journal)
<1>2. /\ breaks' = Loop(report, q)
      /\ verified' = [i \in Range(q) |-> Difference(report, i)]
  BY Zenon DEF Verify, Loop
<1> HIDE DEF q
<1>3. /\ OneBreakEach(breaks') /\ IsFiniteSet(breaks')
      /\ \A i \in Range(q) : Raised(breaks', report, i)
  <2>1. q \in Seq(Issue) /\ OneBreakEach(breaks) /\ IsFiniteSet(breaks)
    BY <1>1 DEF BreaksInv, q
  <2>2. /\ OneBreakEach(Loop(report, q)) /\ IsFiniteSet(Loop(report, q))
        /\ \A i \in Range(q) : Raised(Loop(report, q), report, i)
    BY <2>1, LoopRaises
  <2> QED
    BY <1>2, <2>2, Zenon
<1>4. ASSUME NEW i \in DOMAIN verified', verified'[i] # 0
      PROVE  \E b \in breaks' : b.difference = verified'[i] /\ {c \in breaks' : c.issue = i} = {b}
  <2>1. i \in Range(q) /\ verified'[i] = Difference(report, i)
    BY <1>2, <1>4
  <2>2. PICK b \in breaks' : b.issue = i /\ b.difference = verified'[i]
    BY <1>3, <1>4, <2>1 DEF Raised
  <2>3. {c \in breaks' : c.issue = i} = {b}
    BY <1>3, <2>2 DEF OneBreakEach
  <2> QED
    BY <2>2, <2>3
<1> QED
  BY <1>3, <1>4 DEF BreaksInv, DifferencesAreRaised

\* After any sequence of postings and reports, each issue that differed when it
\* was last verified has one break, of that difference (verify_stock_record).
THEOREM DifferencesAlwaysRaised == BooksSpec => []DifferencesAreRaised
<1>1. BooksInit => BreaksInv /\ DifferencesAreRaised
  <2>1. IsFiniteSet({})
    BY FS_EmptySet
  <2> QED
    BY <2>1 DEF BooksInit, BreaksInv, OneBreakEach, DifferencesAreRaised
<1>2. BookInv /\ BreaksInv /\ DifferencesAreRaised /\ [BooksNext]_bookVars
        => BreaksInv' /\ DifferencesAreRaised'
  <2> SUFFICES ASSUME BookInv, BreaksInv, DifferencesAreRaised, [BooksNext]_bookVars
               PROVE  BreaksInv' /\ DifferencesAreRaised'
    OBVIOUS
  <2>1. ASSUME NEW e \in JournalEntry, Post(e) PROVE BreaksInv' /\ DifferencesAreRaised'
    BY <2>1 DEF Post, BreaksInv, DifferencesAreRaised
  <2>2. ASSUME NEW report \in Observed \cup {Itself}, Verify(report)
        PROVE  BreaksInv' /\ DifferencesAreRaised'
    BY <2>2, VerifyRaises
  <2>3. CASE UNCHANGED bookVars
    BY <2>3 DEF bookVars, BreaksInv, DifferencesAreRaised
  <2> QED
    BY <2>1, <2>2, <2>3 DEF BooksNext
<1> QED
  BY <1>1, <1>2, BookInvInit, BookInvStep, PTL DEF BooksSpec

==============================================================================
