------------------------- MODULE EscalationRegister -------------------------
(***************************************************************************)
(* atreides/escalation/register.py: the append-only register of what was   *)
(* raised and who took it.  The register reads no clock: every instant is  *)
(* an offset its caller states, so nothing makes two calls' offsets agree, *)
(* and every state of an escalation is derived from the records.           *)
(***************************************************************************)
EXTENDS Naturals, Sequences

CONSTANTS EscalationId,
          Person,        \* who may acknowledge
          MaxOffset      \* bound on the offsets callers state

ASSUME MaxOffsetAssumption == MaxOffset \in Nat

VARIABLES raised,        \* _raised: what was raised, by identifier
          acknowledged,  \* _acknowledged: who took it and when
          order          \* _order: identifiers in the order they were raised

registerVars == <<raised, acknowledged, order>>

Offset == 0..MaxOffset
\* acknowledge_by_offset_seconds is None: past every offset, so never overdue.
NoDeadline == MaxOffset + 1
Deadline == Offset \cup {NoDeadline}

Escalations == [at : Offset, by : Deadline]
Acknowledgements == [who : Person, at : Offset]

RegisterInit == raised = <<>> /\ acknowledged = <<>> /\ order = <<>>

\* Mutant: no check that the deadline is not before the raising.
WellFormedUnchecked(e) == TRUE

\* Escalation.__post_init__.
WellFormed(e) == e.by >= e.at

With(f, id, v) == [x \in DOMAIN f \cup {id} |-> IF x = id THEN v ELSE f[x]]

RaiseEscalation(id, e) ==
    /\ WellFormed(e)
    /\ id \notin DOMAIN raised
    /\ raised' = With(raised, id, e)
    /\ order' = Append(order, id)
    /\ UNCHANGED acknowledged

AcknowledgeEscalation(id, a) ==
    /\ id \in DOMAIN raised
    /\ id \notin DOMAIN acknowledged
    /\ acknowledged' = With(acknowledged, id, a)
    /\ UNCHANGED <<raised, order>>

RegisterNext ==
    \E id \in EscalationId :
        \/ \E e \in Escalations : RaiseEscalation(id, e)
        \/ \E a \in Acknowledgements : AcknowledgeEscalation(id, a)

RegisterSpec == RegisterInit /\ [][RegisterNext]_registerVars

-----------------------------------------------------------------------------
\* The derived readings.

\* state()
State(id, t) ==
    LET deadline == raised[id].by
    IN  IF id \in DOMAIN acknowledged
        THEN IF acknowledged[id].at > deadline THEN "acknowledged_late" ELSE "acknowledged"
        ELSE IF t > deadline THEN "overdue" ELSE "raised"

\* unacknowledged() and overdue(), as sets: the readings walk _order, so an
\* identifier missing from it is in neither, whatever its record says.
Unacknowledged(t) ==
    {order[i] : i \in {j \in DOMAIN order : /\ order[j] \notin DOMAIN acknowledged
                                            /\ raised[order[j]].at <= t}}

Overdue(t) == {id \in Unacknowledged(t) : t > raised[id].by}

-----------------------------------------------------------------------------
RegisterTypes ==
    /\ DOMAIN raised \subseteq EscalationId
    /\ raised \in [DOMAIN raised -> Escalations]
    /\ DOMAIN acknowledged \subseteq DOMAIN raised
    /\ acknowledged \in [DOMAIN acknowledged -> Acknowledgements]
    /\ order \in Seq(EscalationId)

\* The register's two readings agree at every instant: what overdue() lists is
\* what state() calls overdue.  overdue() only looks at what was already raised
\* by then and state() does not, so this needs every deadline after its raising.
OverdueAgrees ==
    \A t \in Offset, id \in DOMAIN raised :
        State(id, t) = "overdue" <=> id \in Overdue(t)

\* Nothing is raised and forgotten, and nothing is listed twice: until somebody
\* takes it, an escalation is in unacknowledged() at every instant since its
\* raising, from one place in the order.
NothingForgotten ==
    \A id \in DOMAIN raised :
        /\ id \notin DOMAIN acknowledged =>
             \A t \in Offset : t >= raised[id].at => id \in Unacknowledged(t)
        /\ \A i, j \in DOMAIN order : order[i] = id /\ order[j] = id => i = j

\* Together: what the register says of what it holds is true.
ReadingsAreTrue == OverdueAgrees /\ NothingForgotten

\* What was raised, and who took it, is never changed and never removed.
RecordsAreKept ==
    [][/\ \A id \in DOMAIN raised :
             id \in DOMAIN raised' /\ raised'[id] = raised[id]
       /\ \A id \in DOMAIN acknowledged :
             id \in DOMAIN acknowledged' /\ acknowledged'[id] = acknowledged[id]
      ]_registerVars
=============================================================================
