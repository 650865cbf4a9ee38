-------------------------- MODULE LifecycleEvidence --------------------------
(***************************************************************************)
(* What the evidence of one trade says together: how far it came from the  *)
(* execution to the client (dsor/lifecycle_evidence.py), what was told the *)
(* client (dsor/client_output.py), and whether the exception on the way is *)
(* closed (cockpit/breaks.py).  Both readers are pure.  The break record   *)
(* shares nothing with the settlement, so a behavior is of one of them and *)
(* leaves the other as it began.                                           *)
(***************************************************************************)
EXTENDS SettlementFlow, BreakRecord

CONSTANTS
  Execution,  \* the events an execution, a posting or an output may name
  OutputPayload    \* the payloads that may be read as client output

VARIABLE part  \* whose behavior this is

-----------------------------------------------------------------------------
(* client_output.py.  An output names the event it tells of; delivery is   *)
(* something observed apart from it.  A payload is an output, or is not    *)
(* one (its fields are missing, padded or of a provenance that is no fact).*)

Output == [source : Execution, delivery : BOOLEAN]

OutputReading(stage, grade) ==
  [stage |-> stage, grade |-> grade, delivered |-> stage = "DELIVERED"]

(* assess_client_output() against the event under examination, None: any.  *)
AssessClientOutput(output, source) ==
  IF output = None THEN OutputReading("UNREAD", "INDETERMINATE")
  ELSE IF source # None /\ output.source # source THEN OutputReading("PRODUCED", "HOLD")
  ELSE IF ~output.delivery THEN OutputReading("PRODUCED", "PASS")
  ELSE OutputReading("DELIVERED", "PASS")

(* read_client_output(): None where it answers with an unread reading. *)
ReadClientOutput(payload) == IF payload \in Output THEN payload ELSE None

-----------------------------------------------------------------------------
(* lifecycle_evidence.py                                                   *)

ExceptionGrade(exception) ==
  IF exception = Nobody THEN "INDETERMINATE"
  ELSE IF exception.state = "RESOLVED" /\ exception.evidence # Nobody THEN "PASS"
  ELSE "HOLD"

(* _assessment: each stage with its grade, and whether it keeps the        *)
(* assertion of the settlement.                                            *)
Assessment(stage, grade) ==
  [stage |-> stage, grade |-> grade, delivered |-> stage = "OUTPUT_DELIVERED",
   final |-> stage \in {"SETTLEMENT_FINAL", "BOOKS_POSTED", "OUTPUT_PRODUCED", "OUTPUT_DELIVERED"}]

SettlementFinal(settlement) ==
  settlement.stage = "FINAL" /\ settlement.disposition = "PASS"

(* Mutant: an output on file is the output of this execution. *)
AssessAnyOutput(execution, posting, output) ==
  IF posting = None THEN Assessment("SETTLEMENT_FINAL", "INDETERMINATE")
  ELSE IF posting # execution THEN Assessment("SETTLEMENT_FINAL", "HOLD")
  ELSE IF output = None THEN Assessment("BOOKS_POSTED", "INDETERMINATE")
  ELSE IF ~output.delivery THEN Assessment("OUTPUT_PRODUCED", "PASS")
  ELSE Assessment("OUTPUT_DELIVERED", "PASS")

(* From a final settlement on.  A posting is the event it was made from. *)
AssessAfterFinality(execution, posting, output) ==
  IF posting = None THEN Assessment("SETTLEMENT_FINAL", "INDETERMINATE")
  ELSE IF posting # execution THEN Assessment("SETTLEMENT_FINAL", "HOLD")
  ELSE IF output = None THEN Assessment("BOOKS_POSTED", "INDETERMINATE")
  ELSE IF output.source # execution THEN Assessment("BOOKS_POSTED", "HOLD")
  ELSE IF ~output.delivery THEN Assessment("OUTPUT_PRODUCED", "PASS")
  ELSE Assessment("OUTPUT_DELIVERED", "PASS")

AssessLifecycleEvidence(execution, funding, settlement, posting, output) ==
  IF execution = None THEN Assessment("UNREAD", "INDETERMINATE")
  ELSE IF ~funding THEN Assessment("EXECUTION_RECEIVED", "INDETERMINATE")
  ELSE IF settlement = None THEN Assessment("FUNDING_SECURED", "INDETERMINATE")
  ELSE IF ~SettlementFinal(settlement)
    THEN Assessment("FUNDING_SECURED",
                    IF settlement.disposition = "HOLD" THEN "HOLD" ELSE "INDETERMINATE")
  ELSE AssessAfterFinality(execution, posting, output)

-----------------------------------------------------------------------------
LifecycleInit ==
  /\ part \in {"settlement", "exception"}
  /\ Init /\ BreakInit

LifecycleNext ==
  \/ part = "settlement" /\ Next /\ UNCHANGED <<part, broken>>
  \/ part = "exception" /\ BreakNext /\ UNCHANGED <<part, vars>>

LifecycleSpec == LifecycleInit /\ [][LifecycleNext]_<<part, broken, vars>>

-----------------------------------------------------------------------------
(* Safety.                                                                 *)

(* The joins of what is on file about an artifact. *)
Joins(artifact, match) ==
  {JoinSettlementEvidence(artifact, artifact, receipts, match, entry, "legal") :
     entry \in Range(match.report.entries)}

(* The readers agree: evidence that passes from the execution to the       *)
(* client is of an artifact that was prepared as accepted and that the     *)
(* venue settled, and the reader of the output alone says of the same      *)
(* output that it passes, and delivered when the other does                *)
(* (lifecycle_evidence.py:190, client_output.py:133).                      *)
ReadersAgree ==
  \A artifact \in Artifacts, match \in matches :
    \A settlement \in Joins(artifact, match),
       execution, posting \in Execution \cup {None},
       payload \in OutputPayload, funding \in BOOLEAN :
      LET output == ReadClientOutput(payload)
          assessed == AssessLifecycleEvidence(execution, funding, settlement, posting, output)
          told == AssessClientOutput(output, execution)
      IN  assessed.grade = "PASS" =>
            /\ PreparedAsAccepted(artifact)
            /\ VenueSettled(artifact, match)
            /\ told.grade = "PASS"
            /\ told.delivered = assessed.delivered

(* A break is closed by an owner: an exception that reads as closed        *)
(* carries evidence of that very break, from after it was raised and from  *)
(* when somebody had been given it, whoever it is given to afterwards      *)
(* (breaks.py:276-281).  The times are compared when a break is resolved   *)
(* and never again: one that is taken in as RESOLVED keeps the evidence it *)
(* came with, of that break but of any time (breaks.py:205).               *)
ClosedByAnOwner ==
  ExceptionGrade(broken) = "PASS" =>
    /\ broken.evidence.break = broken.id
    /\ \/ broken.evidence \in {r.evidence : r \in Intake}
       \/ /\ ~(broken.evidence.at < broken.raised)
          /\ \E k \in DOMAIN broken.history :
               ~(broken.evidence.at < broken.history[k].at)
=============================================================================
