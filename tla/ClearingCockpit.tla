--------------------------- MODULE ClearingCockpit ---------------------------
(***************************************************************************)
(* atreides/cockpit/clearing_cockpit.py with the gates and the emission of *)
(* atreides/agents/tier1/settlement_operations_analyst.py: one operator's  *)
(* cycle gather -> validate -> prepare -> reconcile around two portals.    *)
(* Every primitive takes artifacts the operator holds from earlier calls,  *)
(* of any age: the cycle ledger records each of them, so what it holds of  *)
(* each kind is what the operator may pass.  Entry times are left out, so  *)
(* repeating a call that makes the same artifact changes nothing.          *)
(* The DSOR is the log of AppendOnlyLog, and breaches go to an escalation  *)
(* register.  The halt context belongs to the kernel and changes between   *)
(* any two steps; emission is two steps, its guard and its write.          *)
(***************************************************************************)
EXTENDS AppendOnlyLog, Integers, FiniteSets

CONSTANTS None,             \* a figure that was not captured, reported or stated
          Picture,          \* captured transaction pictures
          Report,           \* what an operator may key in as a readback
          Stated,           \* positions a caller expects whatever the package says
          Threshold,        \* material magnitude
          MaxPerBeat,       \* bound on the artifacts of each kind
          MaxRecords,       \* bound on the log
          MaxEscalations,   \* bound on the register
          MaxTickets        \* bound on the workbench

Regime == {"ccp", "csd"}
Figure == Int \cup {None}

\* The fields of CockpitTasking and PortalReadback that any decision reads.
PictureType == [pay : Figure, qty : Figure, published : Figure,
                limit : Figure, usage : Figure, compliant : BOOLEAN]
ReportType == [position : Figure, deficit : Figure, net : Figure,
               usage : Figure, breached : BOOLEAN]

ASSUME PictureAssumption == Picture \subseteq PictureType
ASSUME ReportAssumption == Report \subseteq ReportType
ASSUME StatedAssumption == Stated \subseteq Figure /\ None \notin Int
ASSUME ThresholdAssumption == Threshold \in Nat \ {0}
ASSUME PayloadAssumption == {"telemetry", "acknowledged", "escalation"} \subseteq Payload

VARIABLES
    halted,       \* the kernel's halt context blocks Atreides
    context,      \* _ccp_context and _csd_context
    gathered, validated, prepared, readbacks, reconciled,   \* _ledger, by kind
    emitting,     \* the emission between its guard and its write, if any
    workbench,    \* _workbench
    raised, acknowledged, order      \* the escalation register

cycle == <<context, gathered, validated, prepared, readbacks, reconciled>>
register == <<raised, acknowledged, order>>
vars == <<halted, cycle, emitting, workbench, register, log>>

EscalationId == OperationId \X (1..MaxEscalations)

Register == INSTANCE EscalationRegister
              WITH Person <- {"officer"}, MaxOffset <- 0

Legs == {"net_obligation", "clearing_fund", "funding", "risk_control", "position"}

Tasking == [op : OperationId, regime : Regime, picture : Picture]
PortalReadback == [op : OperationId, regime : Regime, report : Report]

Init ==
    /\ halted \in BOOLEAN
    /\ context = [r \in Regime |-> <<>>]
    /\ gathered = {} /\ validated = {} /\ prepared = {}
    /\ readbacks = {} /\ reconciled = {}
    /\ emitting = {}
    /\ workbench = <<>>
    /\ Register!RegisterInit
    /\ LogInit
-----------------------------------------------------------------------------
\* The gates, in GATE_ORDER; the lineage gate compares two copies of the
\* operation's identifier that the cockpit itself made, and never holds.
IntradayFundingHold(p) == p.limit # None /\ p.usage # None /\ p.usage >= p.limit
ClearingFundHold(p) == ~p.compliant
NetObligationHold(p) == p.published # None /\ p.qty # None /\ p.published # p.qty

Passes(t) == ~ \/ IntradayFundingHold(t.picture)
               \/ ClearingFundHold(t.picture)
               \/ NetObligationHold(t.picture)

\* _is_material: the payment, or the delivery where no payment was captured.
Material(t) ==
    LET magnitude == IF t.picture.pay # None THEN t.picture.pay ELSE t.picture.qty
    IN  magnitude # None /\ (magnitude >= Threshold \/ -magnitude >= Threshold)

\* Every primitive refuses under a halt, and the session runs one at a time.
Guard == ~halted /\ emitting = {}

\* S, with x, within the bound on the artifacts of a beat.
Bounded(S, x) == Cardinality(S \cup {x}) <= MaxPerBeat

CaptureTasking(t) ==
    /\ Guard
    /\ Bounded(gathered, t)
    /\ context' = [context EXCEPT ![t.regime] = Register!With(@, t.op, t)]
    /\ gathered' = gathered \cup {t}
    /\ UNCHANGED <<halted, validated, prepared, readbacks, reconciled, emitting,
                   workbench, register, log>>

RunValidationGates(t) ==
    /\ Guard
    /\ validated' = validated
         \cup {[op |-> t.op, regime |-> t.regime, passed |-> Passes(t)]}
    /\ UNCHANGED <<halted, context, gathered, prepared, readbacks, reconciled,
                   emitting, workbench, register, log>>

\* Mutant: Beat 3 trusts the gate result instead of validating again.
TrustsGateResult(t, g) == g.op = t.op

\* "gate_result no longer matches the tasking": only the verdict is compared.
Matches(t, g) == g.op = t.op /\ Passes(t) = g.passed

\* emit_instruction_package up to the validation it repeats.
EmitBegin(t, g) ==
    /\ Guard
    /\ Matches(t, g)
    /\ emitting' = {[tasking |-> t, passed |-> g.passed]}
    /\ UNCHANGED <<halted, cycle, workbench, register, log>>

Package(e, disposition, record) ==
    [op |-> e.tasking.op, regime |-> e.tasking.regime, disposition |-> disposition,
     picture |-> e.tasking.picture, record |-> record]

Decision(e) == [op |-> e.tasking.op, corr |-> NoCorrection,
                payload |-> IF e.passed THEN "telemetry" ELSE "escalation"]

QuorumHeld(e) == e.passed /\ Material(e.tasking)

\* emit_settlement appends the decision; the package then names its record.
EmitRecorded(e) ==
    /\ ~QuorumHeld(e)
    /\ Len(log) < MaxRecords
    /\ AppendRecord(Decision(e))
    /\ prepared' = prepared
         \cup {Package(e, IF e.passed THEN "emit_for_human_entry" ELSE "gate_held",
                       Len(log) + 1)}

\* Mutant: a decision the store refuses is filed as a correction of the first.
EmitAsCorrection(e) ==
    /\ ~QuorumHeld(e)
    /\ ~Appendable(Decision(e))
    /\ Len(log) < MaxRecords
    /\ AppendRecord([Decision(e) EXCEPT !.corr = 1])
    /\ prepared' = prepared \cup {Package(e, "emit_for_human_entry", Len(log) + 1)}

\* DSORAppendOnlyError: the operation has its decision, and the call ends with
\* no package and no ledger entry.
EmitRefused(e) ==
    /\ ~QuorumHeld(e)
    /\ ~Appendable(Decision(e))
    /\ UNCHANGED <<prepared, log>>

EmitQuorumHold(e) ==
    /\ QuorumHeld(e)
    /\ Bounded(prepared, Package(e, "quorum_required_hold", 0))
    /\ prepared' = prepared \cup {Package(e, "quorum_required_hold", 0)}
    /\ UNCHANGED log

EmitEnd ==
    /\ \E e \in emitting : EmitRecorded(e) \/ EmitRefused(e) \/ EmitQuorumHold(e)
    /\ emitting' = {}
    /\ UNCHANGED <<halted, context, gathered, validated, readbacks, reconciled,
                   workbench, register>>
-----------------------------------------------------------------------------
IngestPortalReadback(rb) ==
    /\ Guard
    /\ rb.op \in DOMAIN context[rb.regime]
    /\ Bounded(readbacks, rb)
    /\ readbacks' = readbacks \cup {rb}
    /\ UNCHANGED <<halted, context, gathered, validated, prepared, reconciled,
                   emitting, workbench, register, log>>

\* The legs that differ.  FUNDING reads the facility limit of the tasking the
\* context holds now, which a later capture may have replaced, and POSITION the
\* position the caller states, if any.
BrokenLegs(pkg, rb, stated) ==
    LET r == rb.report
        position == IF stated # None THEN stated ELSE pkg.picture.qty
        limit == context[rb.regime][rb.op].picture.limit
    IN  {leg \in Legs :
           \/ leg = "net_obligation" /\ r.net # None /\ pkg.picture.pay # None
                /\ r.net # pkg.picture.pay
           \/ leg = "clearing_fund" /\ r.deficit # None /\ r.deficit > 0
           \/ leg = "funding" /\ r.usage # None /\ limit # None /\ r.usage >= limit
           \/ leg = "risk_control" /\ r.breached
           \/ leg = "position" /\ r.position # None /\ position # None
                /\ r.position # position}

\* ESC-<operation>-risk_control-<length of the register + 1>
NextEscalation(op) == <<op, Cardinality(DOMAIN raised) + 1>>

\* Mutant: the reconciliation names an escalation that was never raised.
EscalateNowhere(id) == UNCHANGED register

Escalate(id) == Register!RaiseEscalation(id, [at |-> 0, by |-> Register!NoDeadline])

\* A declared breach escalates, and the escalation comes before the ledger entry.
ReconcileExpectedActual(pkg, rb, stated) ==
    LET id == NextEscalation(rb.op)
        rc == [op |-> rb.op, regime |-> rb.regime, breaks |-> BrokenLegs(pkg, rb, stated),
               escalations |-> IF rb.report.breached THEN {id} ELSE {},
               expected |-> pkg]
    IN  /\ Guard
        /\ pkg.op = rb.op
        /\ Bounded(reconciled, rc)
        /\ IF rb.report.breached
           THEN id \in EscalationId /\ Escalate(id)
           ELSE UNCHANGED register
        /\ reconciled' = reconciled \cup {rc}
        /\ UNCHANGED <<halted, context, gathered, validated, prepared, readbacks,
                       emitting, workbench, log>>

\* BRK-<operation>-<leg>
Ticket(rc, leg) == [break_id |-> <<rc.op, leg>>, regime |-> rc.regime]

\* One ticket per broken leg, whether or not these breaks were raised before.
RaiseBreak(rc) ==
    /\ Guard
    /\ rc.breaks # {}
    /\ Len(workbench) + Cardinality(rc.breaks) <= MaxTickets
    /\ \E tickets \in [1..Cardinality(rc.breaks) -> {Ticket(rc, leg) : leg \in rc.breaks}] :
         /\ \A leg \in rc.breaks : \E i \in DOMAIN tickets : tickets[i] = Ticket(rc, leg)
         /\ workbench' = workbench \o tickets
    /\ UNCHANGED <<halted, cycle, emitting, register, log>>
-----------------------------------------------------------------------------
IsTelemetry(r) == r.payload \in {"telemetry", "acknowledged"}

\* SettlementOperationsAnalyst.record_rail_acknowledgment: a correction of an
\* emitted telemetry record, made outside the cockpit, under a halt or not, and
\* of a record already acknowledged too.
RecordRailAcknowledgment(i) ==
    /\ i \in DOMAIN log /\ IsTelemetry(log[i])
    /\ Len(log) < MaxRecords
    /\ AppendRecord([op |-> log[i].op, payload |-> "acknowledged", corr |-> i])
    /\ UNCHANGED <<halted, cycle, emitting, workbench, register>>

\* The kernel's halt context changes on its own.
HaltChanges ==
    /\ halted' = ~halted
    /\ UNCHANGED <<cycle, emitting, workbench, register, log>>

Next ==
    \/ HaltChanges
    \/ \E t \in Tasking : CaptureTasking(t)
    \/ \E t \in gathered : RunValidationGates(t)
    \/ \E t \in gathered, g \in validated : EmitBegin(t, g)
    \/ EmitEnd
    \/ \E rb \in PortalReadback : IngestPortalReadback(rb)
    \/ \E rb \in readbacks, pkg \in prepared, stated \in Stated :
         ReconcileExpectedActual(pkg, rb, stated)
    \/ \E rc \in reconciled : RaiseBreak(rc)
    \/ \E i \in 1..MaxRecords : RecordRailAcknowledgment(i)

Spec == Init /\ [][Next]_vars
-----------------------------------------------------------------------------
\* An operation is decided once: whatever is captured again, in whichever
\* regime, and however old the gate result, no second package is handed out for
\* entry, and none after a gate held it.  The cockpit checks nothing of the
\* kind: only the store's index stands between the member and two instructions,
\* and what its only caller that corrects files is no second decision either.
OneDecisionPerOperation ==
    /\ \A p, q \in prepared :
         p.op = q.op /\ p.record # 0 /\ q.record # 0 => p = q
    /\ \A i \in DOMAIN log :
         log[i].corr # NoCorrection =>
             /\ IsTelemetry(log[log[i].corr])
             /\ log[log[i].corr].op = log[i].op

\* What a package in the ledger says is what the gates and the log say.
Governed(p) ==
    /\ p.disposition = "emit_for_human_entry" => Passes(p) /\ ~Material(p)
    /\ IF p.disposition = "quorum_required_hold"
       THEN p.record = 0
       ELSE /\ p.record \in DOMAIN log
            /\ log[p.record].op = p.op
            /\ log[p.record].corr = NoCorrection
            /\ log[p.record].payload = (IF p.disposition = "gate_held"
                                        THEN "escalation" ELSE "telemetry")

\* A package for human entry passes every gate and is not material, also when
\* the gate result it was emitted on came from an older or a newer capture; and
\* the ledger and the DSOR tell one story: a package that decided something
\* names the original record of its own operation and of its own verdict, and a
\* quorum hold names none.
EmittedIsGoverned == \A p \in prepared : Governed(p)

\* Every declared breach has an escalation of its own in the register, of its
\* own operation, and the register holds no other (ATR-I-07).
EachBreachEscalated ==
    /\ \A r \in reconciled :
         /\ r.escalations # {} <=> "risk_control" \in r.breaks
         /\ \A id \in r.escalations : id \in DOMAIN raised /\ id[1] = r.op
    /\ \A r, s \in reconciled : r.escalations \cap s.escalations # {} => r = s
    /\ \A id \in DOMAIN raised : \E r \in reconciled : id \in r.escalations
=============================================================================
