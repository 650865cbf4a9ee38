----------------------------- MODULE BreakRecord -----------------------------
(***************************************************************************)
(* The record of one reconciliation break (cockpit/breaks.py): taken in    *)
(* from a ticket, handed from owner to owner, resolved with evidence.  A   *)
(* record is frozen, so an operation makes a new one, and a record that is *)
(* not Consistent cannot be made.  Every time is what the caller says.     *)
(***************************************************************************)
EXTENDS Integers, Sequences, SequencesExt

CONSTANTS
  Nobody,         \* no owner, no evidence, no record
  Actor,          \* whoever may own a break or say something of one
  Authenticated,  \* those of them who are authenticated
  BreakId,        \* the break and others it may be taken for
  Intake,         \* the records a caller may ask for, with what a ticket holds
  MaxTime, MaxOwners

ASSUME SomeAreAuthenticated == Authenticated \subseteq Actor /\ Nobody \notin Actor

VARIABLE broken  \* the record of the break, Nobody before there is one

BreakState == {"INTAKE_UNASSIGNED", "OPEN", "INVESTIGATING", "RESOLVED", "WRITTEN_OFF"}
Moment == 0..MaxTime

(* What the decisions read of a record, a change of owner and an evidence. *)
Change == [at : Moment, by : Actor, previous : Actor \cup {Nobody}, assigned : Actor]
ResolutionEvidence == [break : BreakId, at : Moment, by : Authenticated]
BreakRecords ==
  [id : BreakId, raised : Moment, owner : Actor \cup {Nobody}, absence : BOOLEAN,
   history : Seq(Change), state : BreakState, evidence : ResolutionEvidence \cup {Nobody}]

ASSUME IntakeIsTyped == Intake \subseteq BreakRecords

(* _valid_change *)
OwnershipChange(change) ==
  /\ {change.by, change.assigned} \subseteq Authenticated
  /\ change.previous # change.assigned

(* The history starts with nobody and passes from each owner to the next.  *)
Contiguous(history) ==
  \A k \in DOMAIN history :
    history[k].previous = IF k = 1 THEN Nobody ELSE history[k - 1].assigned

(* _consistent *)
Consistent(r) ==
  /\ (r.owner = Nobody) = r.absence
  /\ r.owner = Nobody => r.state = "INTAKE_UNASSIGNED"
  /\ r.owner # Nobody =>
       /\ r.state # "INTAKE_UNASSIGNED"
       /\ r.owner \in Authenticated
       /\ r.history # << >> /\ Last(r.history).assigned = r.owner
  /\ Contiguous(r.history)
  /\ (r.state = "RESOLVED") = (r.evidence # Nobody)
  /\ r.evidence # Nobody => r.evidence.break = r.id

(* break_record_from_ticket(): the caller states everything a ticket does  *)
(* not hold.                                                               *)
BreakRecordFromTicket(r) ==
  /\ broken = Nobody
  /\ \A k \in DOMAIN r.history : OwnershipChange(r.history[k])
  /\ Consistent(r)
  /\ broken' = r

(* assign_break_owner(): whatever state the break is in. *)
AssignBreakOwner(owner, by, at) ==
  LET change == [at |-> at, by |-> by, previous |-> broken.owner, assigned |-> owner]
      updated == [broken EXCEPT !.owner = owner, !.absence = FALSE,
                                !.history = Append(broken.history, change),
                                !.state = IF broken.state = "INTAKE_UNASSIGNED"
                                          THEN "OPEN" ELSE broken.state]
  IN  /\ Len(broken.history) < MaxOwners
      /\ OwnershipChange(change)
      /\ Consistent(updated)
      /\ broken' = updated

(* The record is validated again with another state, as build_synthetic_   *)
(* records() does to start an investigation.                               *)
Restate(state) ==
  LET updated == [broken EXCEPT !.state = state]
  IN  /\ state # broken.state
      /\ Consistent(updated)
      /\ broken' = updated

(* Mutant: evidence from before anybody owned the break will do. *)
EvidenceFitsBreak(evidence) ==
  /\ evidence.break = broken.id
  /\ ~(evidence.at < broken.raised)

(* What the break and the evidence say of each other. *)
EvidenceFits(evidence) ==
  /\ evidence.break = broken.id
  /\ ~(evidence.at < broken.raised)
  /\ broken.history # << >> => ~(evidence.at < Last(broken.history).at)

ResolveBreak(evidence) ==
  LET updated == [broken EXCEPT !.state = "RESOLVED", !.evidence = evidence]
  IN  /\ broken.state = "INVESTIGATING"
      /\ broken.owner # Nobody
      /\ EvidenceFits(evidence)
      /\ Consistent(updated)
      /\ broken' = updated

BreakInit == broken = Nobody

BreakNext ==
  \/ \E r \in Intake : BreakRecordFromTicket(r)
  \/ /\ broken # Nobody
     /\ \/ \E owner, by \in Actor, at \in Moment : AssignBreakOwner(owner, by, at)
        \/ \E state \in BreakState : Restate(state)
        \/ \E evidence \in ResolutionEvidence : ResolveBreak(evidence)
=============================================================================
