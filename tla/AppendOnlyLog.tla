---------------------------- MODULE AppendOnlyLog ----------------------------
(***************************************************************************)
(* What the Decision System of Record promises, whatever stores it: an     *)
(* append-only sequence of records (AUR-CANONICAL-001 Axiom 4, immutable   *)
(* lineage).  A record is either the one original of its operation or a    *)
(* correction of a record appended before it, and nothing is ever changed  *)
(* or removed.  A record's identifier is its position: record_id is a      *)
(* fresh UUID in the program, and positions are just as fresh.             *)
(***************************************************************************)
EXTENDS Naturals, Sequences

CONSTANTS OperationId,   \* identifiers of operations
          Payload        \* what a record wraps, as far as a module tells them apart

VARIABLE log             \* table dsor_records, in rowid order

NoCorrection == 0        \* correction_of IS NULL

Record == [op : OperationId, payload : Payload, corr : Nat]

HasOriginal(op) ==
    \E i \in DOMAIN log : log[i].op = op /\ log[i].corr = NoCorrection

\* What lets a row in: the partial unique index over originals, and for a
\* correction that its target is a record of the store.
Appendable(r) ==
    IF r.corr = NoCorrection THEN ~HasOriginal(r.op) ELSE r.corr \in DOMAIN log

LogInit == log = <<>>

AppendRecord(r) == /\ Appendable(r)
                   /\ log' = Append(log, r)

\* No record but these is appendable: a correction's target is in the log.
Candidates == [op : OperationId, payload : Payload, corr : 0..Len(log)]

LogNext == \E r \in Candidates : AppendRecord(r)

LogSpec == LogInit /\ [][LogNext]_log

\* No operation has two originals: two records of one operation that correct
\* nothing would be two decisions of record for one act.
OneOriginalPerOperation ==
    \A i, j \in DOMAIN log :
        (/\ log[i].op = log[j].op
         /\ log[i].corr = NoCorrection
         /\ log[j].corr = NoCorrection) => i = j

\* Every correction points at a record appended before it, so a chain of
\* corrections is finite and ends in an original.
CorrectionsResolve ==
    \A i \in DOMAIN log : log[i].corr # NoCorrection => log[i].corr \in 1..(i - 1)
==============================================================================
