-------------------------- MODULE MCLifecycleEvidence --------------------------
(* An instance of LifecycleEvidence for TLC.  A purchase, its corrected form    *)
(* for more money, which the cash gate holds, a customer's sale, and a free  *)
(* delivery that states money all the same; one instruction for each amount; *)
(* receipts and reports that fit, are stale, or contradict each other.  Two  *)
(* executions with outputs of them; a break nobody owns yet, and one that    *)
(* comes in with its owner.                                                  *)
EXTENDS LifecycleEvidence

CONSTANTS FirstMsg, SecondMsg, FirstId, SecondId, StrangeId, Unreadable

Bought == [form |-> "PASS", free |-> FALSE, total |-> 1, quantity |-> 1,
           capacity |-> None, registry |-> "r1"]
Corrected == [Bought EXCEPT !.total = 2]
Sold == [Bought EXCEPT !.total = 2, !.capacity = "CUSTOMER"]

Purchase == [obligation |-> "purchase", about |-> "d1", delivers |-> FALSE, payload |-> Bought]
Correction == [Purchase EXCEPT !.payload = Corrected]
Sale == [obligation |-> "sale", about |-> "d1", delivers |-> TRUE, payload |-> Sold]
Gift == [Purchase EXCEPT !.obligation = "gift", !.payload.free = TRUE]
Envelopes == {Purchase, Correction, Sale, Gift}

Proceed(envelope) ==
  [envelope |-> envelope, decision |-> "PROCEED",
   notional |-> envelope.payload.total, net |-> envelope.payload.total]
CashDecisions ==
  {Proceed(Purchase), Proceed(Sale), [Proceed(Correction) EXCEPT !.decision = "HOLD"]}
ControlResults ==
  {[about |-> "d1", disposition |-> "PASS", held |-> 1],
   [about |-> "d1", disposition |-> "PASS", held |-> 0]}
Registries == {[version |-> "r1", parties |-> "p1"], [version |-> "r2", parties |-> "p1"]}

First == [msg |-> FirstMsg, e2e |-> FirstId, created |-> 1, amount |-> 1, parties |-> "p1"]
Second == [msg |-> SecondMsg, e2e |-> SecondId, created |-> 1, amount |-> 2, parties |-> "p1"]
InstructionsStated == {First, Second}

Instructs(event, instruction) ==
  [event |-> event, action |-> "SETTLEMENT_INSTRUCTION", digest |-> instruction,
   member |-> "m", msg |-> instruction.msg, e2e |-> instruction.e2e, at |-> 1]
ReceiptsGiven ==
  {Instructs("v1", First), Instructs("v2", Second),
   [Instructs("v1", First) EXCEPT !.digest = Second],
   [Instructs("v2", First) EXCEPT !.action = "CLEARING_SUBMISSION"],
   [Instructs("v2", First) EXCEPT !.at = 0]}

Says(id, status) == [e2e |-> id, status |-> status, echoed |-> None]
Reports ==
  {[original |-> FirstMsg, entries |-> <<Says(FirstId, "SETTLED")>>],
   [original |-> SecondMsg, entries |-> <<Says(FirstId, "SETTLED")>>],
   [original |-> None, entries |-> <<[Says(FirstId, "SETTLED") EXCEPT !.echoed = 2]>>],
   [original |-> None, entries |-> <<Says(FirstId, "CANCELLED")>>],
   [original |-> None, entries |-> <<Says(FirstId, "CANCELLED"), Says(FirstId, "SETTLED")>>],
   [original |-> None, entries |-> <<Says(SecondId, "SETTLED"), Says(FirstId, "REJECTED")>>],
   [original |-> None, entries |-> <<Says(FirstId, "RECEIVED"), Says(StrangeId, "SETTLED")>>],
   [original |-> None, entries |-> <<Says(SecondId, "SETTLED"), Says(SecondId, None)>>]}
Entries == UNION {Range(r.entries) : r \in Reports}

Executions == {"x1", "x2"}
OutputPayloads == [source : Executions, delivery : BOOLEAN] \cup {Unreadable}

Unowned == [id |-> "b1", raised |-> 1, owner |-> Nobody, absence |-> TRUE,
            history |-> << >>, state |-> "INTAKE_UNASSIGNED", evidence |-> Nobody]
Taken == [at |-> 0, by |-> "ann", previous |-> Nobody, assigned |-> "ben"]
Owned == [Unowned EXCEPT !.owner = "ben", !.absence = FALSE, !.history = <<Taken>>,
                         !.state = "INVESTIGATING"]
\* Resolved as it comes, with evidence from before the break was raised.
Resolved == [Owned EXCEPT !.state = "RESOLVED",
                          !.evidence = [break |-> "b1", at |-> 0, by |-> "ann"]]
Intakes == {Unowned, Owned, [Owned EXCEPT !.state = "OPEN", !.owner = "ann"], Resolved}
=============================================================================
