-------------------------------- MODULE MCDesk --------------------------------
(* Two things an operations desk keeps beside the cockpit, as instances for TLC: *)
(* the register of escalations and the supervisor of the agents.  They run in    *)
(* one process and share no state, so a behavior is of one of them and leaves    *)
(* the other as it began.                                                        *)
(*                                                                               *)
(* The register: two identifiers and two people, interchangeable, and three      *)
(* offsets.  The supervisor: an agent and a standing probe, the inputs that tell *)
(* the admission rules apart, and the findings that tell the output rules apart. *)
EXTENDS EscalationRegister, AgentSupervisor, TLC

CONSTANTS analyst, probe

Symmetry == Permutations(EscalationId) \cup Permutations(Person)

AgentAndProbe == <<analyst, probe>>
Probes == {probe}

Direct == [origin |-> "operator_direct", basis |-> "absent"]
NullBasis == [Direct EXCEPT !.basis = "null"]
Lateral == [Direct EXCEPT !.origin = "agent_lateral"]
LateralRecorded == [Lateral EXCEPT !.basis = "recorded"]
Units == {Direct, NullBasis, Lateral, LateralRecorded}

Clean == [disposition |-> "PASS", policy_result |-> TRUE, executed |-> TRUE]
Held == [Clean EXCEPT !.disposition = "HOLD"]
Unexecuted == [Clean EXCEPT !.policy_result = FALSE, !.executed = FALSE]
Findings == {Clean, Held, Unexecuted}

---------------------------------------------------------------------------
VARIABLE part  \* whose behavior this is

DeskInit ==
    /\ part \in {"register", "agents"}
    /\ RegisterInit /\ AgentsInit

DeskNext ==
    \/ part = "register" /\ RegisterNext /\ UNCHANGED <<part, agents>>
    \/ part = "agents" /\ AgentsNext /\ UNCHANGED <<part, registerVars>>

DeskSpec == DeskInit /\ [][DeskNext]_<<part, registerVars, agents>>
=============================================================================
