-------------------------- MODULE MCClearingCockpit --------------------------
(* Instances of ClearingCockpit for TLC.  The pictures are one of each kind  *)
(* of outcome: clean, material, and held by a gate; the reports a breach     *)
(* that matches and a position that breaks two legs.                         *)
EXTENDS ClearingCockpit, TLC

Clean == [pay |-> 1, qty |-> 1, published |-> 1, limit |-> 2, usage |-> 1, compliant |-> TRUE]
AtThreshold == [Clean EXCEPT !.pay = -2]
AtLimit == [Clean EXCEPT !.usage = 2]
Deficient == [Clean EXCEPT !.compliant = FALSE]
Mismatched == [Clean EXCEPT !.published = 2, !.pay = None, !.limit = None]

Silent == [position |-> None, deficit |-> None, net |-> None, usage |-> None, breached |-> FALSE]
Short == [Silent EXCEPT !.net = 2, !.usage = 2, !.deficit = 0]
Breached == [Silent EXCEPT !.position = 1, !.breached = TRUE]

GatePictures == {Clean, AtThreshold, AtLimit, Deficient, Mismatched}
Reports == {Breached, Short}
Positions == {None, 2}
Payloads == {"telemetry", "acknowledged", "escalation"}
=============================================================================
