------------------------------ MODULE CashLeg ------------------------------
(***************************************************************************)
(* The cash leg of an operation, from the projection of its funding to the *)
(* path the specialist selects.  A caller projects, has the gate evaluate, *)
(* keeps the record (rails/cato_cash_record), and later asks the           *)
(* specialist for a path with a decision it holds.  Between two calls the  *)
(* account, the rails, the market and the halt change.                     *)
(*                                                                         *)
(* A situation is everything a caller reads before a call: [account, op,   *)
(* obligation, rails, stress, age, policy, request, question].  Calls are  *)
(* synchronous; the gate and the specialist keep nothing between them.     *)
(***************************************************************************)
EXTENDS CatoCash, Functions

CONSTANTS Situations,   \* what a caller may start from
          Later,        \* what a situation may turn into
          MaxRecords,   \* bound: gate evaluations
          Tables, Thresholds, Sanctioned

VARIABLES now,      \* the situation
          halt,     \* whether a halt covers Atreides
          records,  \* the gate records the caller holds
          emitted   \* what the specialist has just returned, with what it was asked
vars == <<now, halt, records, emitted>>

T == INSTANCE ApprovedPaths
P == INSTANCE PathSelection

\* Money is counted, a selection is one of the seven, and the two of them that
\* take no currency are given none.
AccountValid(in) ==
  /\ {in.opening, in.obligation} \subseteq Int
  /\ IsFiniteSet(in.flows) /\ \A f \in in.flows : f.amount \in Int
QuestionValid(q) ==
  /\ q.dimension \in T!PathSelectionDimension
  /\ q.dimension \in {"depository", "fed"} => q.currency = None
SituationValid(s) ==
  /\ s.op.counterparty # None => CounterpartyValid(s.op.counterparty)
  /\ DOMAIN s.rails \subseteq CashRail
  /\ AccountValid(s.account)
  /\ QuestionValid(s.question)
  /\ s.request.amount # None => s.request.amount \in Int
  /\ LET c == s.request.evidence.correspondents IN c \in Seq(Range(c))
ASSUME SituationsAreValid ==
  /\ Later \subseteq Situations
  /\ \A s \in Situations : SituationValid(s)
ASSUME TablesAreValid ==
  /\ Tables \in Seq(Range(Tables)) /\ T!TablesValid(Tables)
  /\ \A s \in DOMAIN Thresholds : \A c \in DOMAIN Thresholds[s] : Thresholds[s][c] \in Int
\* No surface at all is none of the surfaces.
ASSUME NoneIsNoWord == None \notin P!OWNED_SURFACES

Init == /\ now \in Situations
        /\ halt \in BOOLEAN
        /\ records = {}
        /\ emitted = None

\* The world between two calls.
Turn == /\ now' \in Later \ {now}
        /\ emitted' = None
        /\ UNCHANGED <<halt, records>>
Halt == /\ halt' = ~halt
        /\ emitted' = None
        /\ UNCHANGED <<now, records>>

\* CatoCashDecisionRecord.capture: the projection, the gate, and the record of
\* what the gate was given.
Capture(s, halted) ==
  [situation  |-> s,
   halted     |-> halted,
   obligation |-> s.obligation,
   answer     |-> evaluate(s.op, ToGateInput(s.account), s.rails, s.stress,
                           s.age, s.policy, halted)]
Evaluate ==
  /\ Cardinality(records) < MaxRecords
  /\ records' = records \cup {Capture(now, halt)}
  /\ emitted' = None
  /\ UNCHANGED <<now, halt>>

\* A decision as the specialist sees it: one the caller holds, the one that
\* stands for a gate that did not run, or none.
Governing(record) ==
  [decision |-> record.answer.decision, obligation |-> record.obligation]
Absent == [decision |-> absent_gate_decision.decision, obligation |-> None]
Decisions == {Governing(r) : r \in records} \cup {Absent, None}

Ask(gate) ==
  [operation |-> now.request.operation, surface |-> now.request.surface,
   failureMode |-> now.request.failureMode, amount |-> now.request.amount,
   jurisdictions |-> now.request.jurisdictions, evidence |-> now.request.evidence,
   gate |-> gate, halted |-> halt]
Select ==
  \E gate \in Decisions :
    /\ emitted' = [asked |-> Ask(gate), question |-> now.question,
                   output |-> P!Select(Ask(gate), now.question)]
    /\ UNCHANGED <<now, halt, records>>

\* An instruction from outside that conflicts with a guardrail is held.
Instruct ==
  \E cascade \in {"approved_paths_only", "eligibility_before_routing"} :
    /\ emitted' = [asked |-> Ask(None), question |-> now.question,
                   output |-> P!DoctrineOverCodeEscalation(Ask(None), now.question, cascade)]
    /\ UNCHANGED <<now, halt, records>>

Next == Turn \/ Halt \/ Evaluate \/ Select \/ Instruct
Spec == Init /\ [][Next]_vars

---------------------------------------------------------------------------
\* A leg proceeds only where the money is there when it settles and nobody
\* declined to say so: no refusal, queue or shortfall of the projection is lost
\* on its way to the gate (funding_state.to_gate_input, cato_cash checks 3, 4).
ProceedIsFunded ==
  \A r \in records :
    r.answer.decision = "PROCEED" =>
      LET in == r.situation.account
      IN  /\ ~r.halted
          /\ Disposition(in) \in {"funded", "funded_qualified"}
          /\ in.opening + Total({f \in in.flows : f.committed /\ f.offset <= in.settles})
               >= in.obligation

\* The rail a leg is sent on exists, is open, and carries the notional; a linked
\* settlement never leaves its rail, and the reserved one carries nothing
\* (cato_cash._recommend_rail, _linked_rail_blocker).
RecommendedCanCarry ==
  \A r \in records :
    r.answer.decision = "PROCEED" =>
      LET s == r.situation
          rail == r.answer.rail
      IN  /\ rail \in DOMAIN s.rails \ {"ports_wholesale"}
          /\ s.rails[rail].status = "available"
          /\ s.rails[rail].cutoff = None \/ s.rails[rail].cutoff > 0
          /\ s.rails[rail].cap = None \/ s.op.notional <= s.rails[rail].cap
          /\ s.op.linked # None => rail = s.op.linked

\* A path is chosen only for an operation nothing stands against: no halt, no
\* surface that belongs to the quorum, all five checks passed, jurisdictions
\* attributed, and in a cash dimension a bound PROCEED; and the path serves what
\* was asked (the seven select_ methods, whatever the order of their failures).
\* Of the decision it asks that it is one of the obligation it names, and no
\* more: the code compares neither its age nor the obligation of the request.
RoutedIsGoverned ==
  emitted # None /\ emitted.output.kind = "routing" =>
    LET a == emitted.asked
        q == emitted.question
        e == a.evidence
        path == CHOOSE p \in Range(Tables) : p.id = emitted.output.path
    IN  /\ ~a.halted
        /\ a.surface = None
        /\ a.jurisdictions # None /\ a.jurisdictions \cap Sanctioned = {}
        /\ e.kyc # None /\ e.kyc >= e.now
        /\ e.needsKyb => e.kyb # None /\ e.kyb >= e.now
        /\ TRUE \notin Range(e.ofac) \cup Range(e.sanctions)
        /\ \A bic \in e.needsBics : \E c \in Range(e.correspondents) :
             c.bic = bic /\ c.expires >= e.now
        /\ q.dimension \in {"rail_routing", "fx_leg", "lvps"} =>
             /\ \E r \in records : /\ r.answer.decision = "PROCEED"
                                   /\ r.obligation = a.gate.obligation
             /\ a.gate.obligation # None
        /\ q.dimension = "rail_routing" \/ q.dimension \in path.dimensions
        /\ q.currency # None => q.dimension = "fx_leg" \/ q.currency \in path.currencies
        /\ a.amount # None =>
             \A s \in DOMAIN Thresholds :
               /\ q.dimension \in DOMAIN P!SurfaceOf
               /\ P!SurfaceOf[q.dimension] = s
               /\ q.currency \in DOMAIN Thresholds[s]
               => a.amount < Thresholds[s][q.currency]

---------------------------------------------------------------------------
\* What the code says of itself and does not keep.

\* "check 6 and the rail ladder cannot drift apart again" (cato_cash._serviceable):
\* the rail recommended is one check 6 would count.
RecommendedIsServiceable ==
  \A r \in records :
    r.answer.decision = "PROCEED" =>
      Serviceable(r.answer.rail, r.situation.rails, r.situation.op)

\* "a net-debit cap is breached by the deepest intraday position, not the closing
\* one" (funding_state._build_ladder): an account that settles is never below its
\* cap at a moment its obligation is paid and its committed flows have arrived.
CapCoversTheDeepest ==
  LET in == now.account
      paid(o) == IF o >= in.settles THEN in.obligation ELSE 0
      moments == {f.offset : f \in Committed(in.flows)} \cup {in.settles}
  IN  /\ Disposition(in) \in {"funded", "funded_qualified"}
      /\ in.cap # None
      => \A o \in moments : in.closes = None \/ o <= in.closes =>
           PositionAt(in, o, TRUE) - paid(o) >= -in.cap
=============================================================================
