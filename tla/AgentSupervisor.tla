--------------------------- MODULE AgentSupervisor ---------------------------
(***************************************************************************)
(* atreides/activation: the supervisor that runs every registered agent    *)
(* once per tick, the consumer's own admission of each input (handoff.py), *)
(* the rules every output meets (outputs.py) and the surface built from    *)
(* the resulting state (snapshot.py).  A tick is one pass in registration  *)
(* order; a runner may raise, and the tick then ends where it stood.  A    *)
(* time is the number of the tick it belongs to.                           *)
(***************************************************************************)
EXTENDS Integers, Sequences, FiniteSets

CONSTANTS Roster,       \* the agents' identifiers, in registration order
          Probe,        \* those whose runner expects refusal
          Unit,         \* the work a runner may take: an origin and a basis
          Finding,      \* what a runner's observe may return
          MaxTick       \* bound on the number of ticks

Agent == {Roster[i] : i \in DOMAIN Roster}

\* InputOrigin and HandoffBasis; "null" is a basis nobody stated.
UnitType == [origin : {"operator_direct", "agent_lateral"},
             basis : {"null", "absent", "recorded"}]
Disposition == {"PASS", "HOLD", "INDETERMINATE", "BLOCK"}
FindingType == [disposition : Disposition, policy_result : BOOLEAN, executed : BOOLEAN]

ASSUME RosterAssumption ==
    /\ Roster \in Seq(Agent)
    /\ \A i, j \in DOMAIN Roster : Roster[i] = Roster[j] => i = j
ASSUME ProbeAssumption == Probe \subseteq Agent
ASSUME UnitAssumption == Unit \subseteq UnitType
ASSUME FindingAssumption == Finding \subseteq FindingType

VARIABLES
    halt,            \* the server's halt context covers Atreides
    up,              \* the slots, field by field
    last_output, last_recommendation, last_refusal,
    recommendations, refusals,
    tick,            \* _tick and _at
    position,        \* the slot the running tick has reached, 0 between ticks
    tick_halt,       \* the halt context handed to the running tick
    surface          \* the newest snapshot built, and what it was built from

outputs == <<last_output, last_recommendation, last_refusal, recommendations, refusals>>
agents == <<halt, up, outputs, tick, position, tick_halt, surface>>

NoOutput == [kind |-> "none", at |-> -1]
Recommendation(at, u, f) == [kind |-> "recommendation", at |-> at, unit |-> u, finding |-> f]
Refusal(at, u, code) == [kind |-> "refusal", at |-> at, unit |-> u, code |-> code]

NoSurface == [tick |-> -1, halted |-> FALSE, disposition |-> "INDETERMINATE",
              up |-> {}, from |-> "none"]

AgentsInit ==
    /\ halt \in BOOLEAN
    /\ up = [a \in Agent |-> TRUE]
    /\ last_output = [a \in Agent |-> NoOutput]
    /\ last_recommendation = last_output
    /\ last_refusal = last_output
    /\ recommendations = [a \in Agent |-> 0]
    /\ refusals = recommendations
    /\ tick = -1
    /\ position = 0
    /\ tick_halt = FALSE
    /\ surface = NoSurface
-----------------------------------------------------------------------------
\* admit: the consumer's own rule.
Admitted(u) ==
    \/ u.origin = "operator_direct" /\ u.basis = "absent"
    \/ u.origin = "agent_lateral" /\ u.basis = "recorded"

\* Mutant: the output's own validators are not run.
AcceptsAny(f) == TRUE

\* The output validators: a policy result has an execution behind it, and an
\* absent execution is never a pass.  A finding that fails them raises.
ValidFinding(f) == f.executed \/ (~f.policy_result /\ f.disposition # "PASS")

Rank(d) == CASE d = "PASS" -> 0 [] d = "HOLD" -> 1 [] d = "INDETERMINATE" -> 2
             [] d = "BLOCK" -> 3

\* Mutant: a stopped agent keeps showing what it last produced.
CarriedForward(a) == last_output[a]

\* _state_of: a stopped agent has no current output, whatever it produced.
Current(a) == IF up[a] THEN last_output[a] ELSE NoOutput

\* AgentState.disposition: an absence is indeterminate, a probe's reading inverts.
AgentDisposition(a) ==
    LET out == Current(a)
    IN  CASE out.kind = "none" -> "INDETERMINATE"
          [] out.kind = "refusal" -> IF a \in Probe THEN "PASS" ELSE "BLOCK"
          [] OTHER -> IF a \in Probe THEN "BLOCK" ELSE out.finding.disposition

\* ActivationState.disposition: the worst of every agent's.
Overall ==
    CHOOSE d \in Disposition :
        /\ d \in {AgentDisposition(a) : a \in Agent} \cup {"PASS"}
        /\ \A a \in Agent : Rank(AgentDisposition(a)) <= Rank(d)

Snapshot(halted, from) ==
    [tick |-> tick, halted |-> halted, disposition |-> Overall,
     up |-> {a \in Agent : up[a]}, from |-> from]
-----------------------------------------------------------------------------
\* The halt belongs to the kernel and moves on its own.
SetHalt ==
    /\ halt' = ~halt
    /\ UNCHANGED <<up, outputs, tick, position, tick_halt, surface>>

Stop(a) ==
    /\ position = 0
    /\ up' = [up EXCEPT ![a] = FALSE]
    /\ UNCHANGED <<halt, outputs, tick, position, tick_halt, surface>>

Start(a) ==
    /\ position = 0
    /\ up' = [up EXCEPT ![a] = TRUE]
    /\ UNCHANGED <<halt, outputs, tick, position, tick_halt, surface>>

\* tick: the counter moves before any agent runs.
TickBegin ==
    /\ position = 0
    /\ tick < MaxTick
    /\ tick' = tick + 1
    /\ position' = 1
    /\ tick_halt' = halt
    /\ UNCHANGED <<halt, up, outputs, surface>>

Here == Roster[position]
Running == position \in 1..Len(Roster)

Skips == ~up[Here]

Skip ==
    /\ Running /\ Skips
    /\ position' = position + 1
    /\ UNCHANGED <<halt, up, outputs, tick, tick_halt, surface>>

Refuse(u, code) ==
    LET out == Refusal(tick, u, code)
    IN  /\ last_output' = [last_output EXCEPT ![Here] = out]
        /\ last_refusal' = [last_refusal EXCEPT ![Here] = out]
        /\ refusals' = [refusals EXCEPT ![Here] = @ + 1]
        /\ UNCHANGED <<last_recommendation, recommendations>>

Recommend(u, f) ==
    LET out == Recommendation(tick, u, f)
    IN  /\ last_output' = [last_output EXCEPT ![Here] = out]
        /\ last_recommendation' = [last_recommendation EXCEPT ![Here] = out]
        /\ recommendations' = [recommendations EXCEPT ![Here] = @ + 1]
        /\ UNCHANGED <<last_refusal, refusals>>

Advance ==
    /\ position' = position + 1
    /\ UNCHANGED <<halt, up, tick, tick_halt, surface>>

HaltRefusal(u) ==
    /\ Running /\ ~Skips
    /\ tick_halt
    /\ Refuse(u, "HALT_ACTIVE")
    /\ Advance

HandoffRefusal(u) ==
    /\ Running /\ ~Skips
    /\ ~tick_halt /\ ~Admitted(u)
    /\ Refuse(u, IF u.basis = "null" THEN "HANDOFF_BASIS_NULL" ELSE "NO_RECORDED_HANDOFF")
    /\ Advance

Observe(u, f) ==
    /\ Running /\ ~Skips
    /\ ~tick_halt /\ Admitted(u)
    /\ ValidFinding(f)
    /\ Recommend(u, f)
    /\ Advance

\* The runner, or the output's validators, raise: nothing is recorded for this
\* agent, and the agents after it do not run.
Raise ==
    /\ Running /\ ~Skips
    /\ position' = 0
    /\ UNCHANGED <<halt, up, outputs, tick, tick_halt, surface>>

\* The end of a tick: it returns the state it produced.
TickEnd ==
    /\ position = Len(Roster) + 1
    /\ position' = 0
    /\ surface' = Snapshot(tick_halt, "tick")
    /\ UNCHANGED <<halt, up, outputs, tick, tick_halt>>

\* build_snapshot over state(halt), taken between ticks.
TakeSnapshot ==
    /\ position = 0
    /\ surface' = Snapshot(halt, "state")
    /\ UNCHANGED <<halt, up, outputs, tick, position, tick_halt>>

AgentsNext ==
    \/ SetHalt \/ TickBegin \/ Skip \/ Raise \/ TickEnd \/ TakeSnapshot
    \/ \E a \in Agent : Stop(a) \/ Start(a)
    \/ \E u \in Unit : HaltRefusal(u) \/ HandoffRefusal(u)
    \/ \E u \in Unit, f \in Finding : Observe(u, f)

AgentsSpec == AgentsInit /\ [][AgentsNext]_agents
-----------------------------------------------------------------------------
AtTheEnd == position = Len(Roster) + 1

\* The state a tick returns is a PASS only when every registered agent is up
\* and has, in this very tick, produced what makes it one: a refusal where it
\* is a probe, a recommendation to pass where it is not (supervisor.py:165-212).
\* A tick begun under a halt produces no advice, and its state is never clean
\* where any agent does real work (ATR-I-06, A-T5), whoever was down.
PassIsEarned ==
    AtTheEnd =>
        /\ Overall = "PASS" =>
             \A a \in Agent :
                 /\ up[a]
                 /\ last_output[a].kind # "none" /\ last_output[a].at = tick
                 /\ IF a \in Probe THEN last_output[a] = last_refusal[a]
                    ELSE last_output[a] = last_recommendation[a]
        /\ tick_halt =>
             /\ \A a \in Agent : last_recommendation[a].kind # "none"
                                    => last_recommendation[a].at # tick
             /\ Agent # Probe => Rank(Overall) >= Rank("INDETERMINATE")

\* Whenever an agent reads as a PASS, evidence stands behind it: the refusal a
\* probe is for, or a policy that ran over an input whose basis was stated and
\* which the consumer's rule admits (ATR-I-05, A-T1, A-T6).
PassHasEvidence ==
    \A a \in Agent \ Probe :
        AgentDisposition(a) = "PASS" =>
            /\ last_output[a].finding.executed
            /\ last_output[a].unit.basis # "null"
            /\ (last_output[a].unit.origin = "agent_lateral"
                  => last_output[a].unit.basis = "recorded")
=============================================================================
