------------------------------ MODULE DSORStore ------------------------------
(***************************************************************************)
(* atreides/dsor/store.py: DSORStore objects of several processes over one *)
(* SQLite file in WAL mode, through Python's sqlite3.  append() is a read  *)
(* of the correction target, an INSERT and a COMMIT, and other processes   *)
(* act between them.  sqlite3 opens a transaction before the INSERT and    *)
(* append() never rolls one back, so an INSERT that fails leaves the       *)
(* connection inside a transaction:                                        *)
(*   - refused by the unique index, it keeps the write lock;               *)
(*   - refused because another connection has the lock, it keeps a         *)
(*     transaction in which the next SELECT pins a read snapshot.          *)
(* Calls on one object are serialised by the caller, as the module asks.   *)
(***************************************************************************)
EXTENDS AppendOnlyLog, FiniteSets

CONSTANTS Conn,          \* DSORStore objects, one per process
          MaxStored      \* bound on the length of the log

ASSUME ConnAssumption == IsFiniteSet(Conn)
ASSUME MaxStoredAssumption == MaxStored \in Nat
ASSUME SomeRecordAssumption == OperationId # {} /\ Payload # {}

VARIABLES phase,     \* where append() is in each connection
          req,       \* the record append() was last called with
          txn,       \* the connection's transaction
          view,      \* how many records a pinned snapshot shows
          result,    \* how the last append() ended
          acked      \* records whose append() returned, with their record_id

storeVars == <<log, phase, req, txn, view, result, acked>>

Phases == {"closed", "idle", "inserting", "committing"}
Results == {"none", "ok", "append_only", "not_found", "locked"}
\* "begun": in a transaction that has touched nothing; "pinned": it has read,
\* and sees the database of that moment; "writer": it holds the write lock.
Txns == {"none", "begun", "pinned", "writer"}

NoRequest == [op |-> CHOOSE op \in OperationId : TRUE,
              payload |-> CHOOSE p \in Payload : TRUE, corr |-> NoCorrection]

StoreInit ==
    /\ LogInit
    /\ phase = [c \in Conn |-> "idle"]
    /\ req = [c \in Conn |-> NoRequest]
    /\ txn = [c \in Conn |-> "none"]
    /\ view = [c \in Conn |-> 0]
    /\ result = [c \in Conn |-> "none"]
    /\ acked = {}

\* How many records a SELECT on this connection sees.
Visible(c) == IF txn[c] = "pinned" THEN view[c] ELSE Len(log)

\* A SELECT inside an open transaction pins the snapshot it reads.
SelectPins(c) ==
    /\ txn' = [txn EXCEPT ![c] = IF @ = "begun" THEN "pinned" ELSE @]
    /\ view' = [view EXCEPT ![c] = Visible(c)]

\* SQLite refuses the write lock while another connection holds it (after the
\* busy timeout) and to a transaction whose snapshot is no longer the latest.
LockRefused(c) ==
    \/ \E d \in Conn \ {c} : txn[d] = "writer"
    \/ txn[c] = "pinned" /\ view[c] # Len(log)

\* Mutant: no unique index over originals.
IndexMissing(c) == FALSE

\* The partial unique index over operation_id WHERE correction_of IS NULL.
IndexRefuses(c) == req[c].corr = NoCorrection /\ HasOriginal(req[c].op)
TargetFound(c, r) == r.corr <= Visible(c)

InFlight == {c \in Conn : phase[c] \in {"inserting", "committing"}}
Return(c, how) == /\ result' = [result EXCEPT ![c] = how]
                  /\ phase' = [phase EXCEPT ![c] = "idle"]

Open(c) ==
    /\ phase[c] = "closed"
    /\ phase' = [phase EXCEPT ![c] = "idle"]
    /\ UNCHANGED <<log, req, txn, view, result, acked>>

\* close(), or the process dies: SQLite rolls the transaction back.
Close(c) ==
    /\ phase[c] # "closed"
    /\ phase' = [phase EXCEPT ![c] = "closed"]
    /\ txn' = [txn EXCEPT ![c] = "none"]
    /\ result' = [result EXCEPT ![c] = "none"]
    /\ UNCHANGED <<log, req, view, acked>>

\* records(), replay(), payload_bytes().  Outside a transaction a read leaves
\* nothing behind, so only the read that pins a snapshot is a step.
Read(c) ==
    /\ phase[c] = "idle"
    /\ txn[c] = "begun"
    /\ SelectPins(c)
    /\ UNCHANGED <<log, phase, req, result, acked>>

AppendOriginal(c, r) ==
    /\ phase[c] = "idle"
    /\ r.corr = NoCorrection
    /\ Len(log) + Cardinality(InFlight) < MaxStored
    /\ phase' = [phase EXCEPT ![c] = "inserting"]
    /\ req' = [req EXCEPT ![c] = r]
    /\ result' = [result EXCEPT ![c] = "none"]
    /\ UNCHANGED <<log, txn, view, acked>>

\* The SELECT that checks the target is a step of its own: another process may
\* commit before the INSERT.  That a record is its own target is asked before
\* (store.py:204) of a field no output type has, and so never refuses.
AppendCorrection(c, r) ==
    /\ phase[c] = "idle"
    /\ r.corr # NoCorrection
    /\ Len(log) + Cardinality(InFlight) < MaxStored
    /\ SelectPins(c)
    /\ req' = [req EXCEPT ![c] = r]
    /\ IF TargetFound(c, r)
       THEN /\ phase' = [phase EXCEPT ![c] = "inserting"]
            /\ result' = [result EXCEPT ![c] = "none"]
       ELSE Return(c, "not_found")
    /\ UNCHANGED <<log, acked>>

\* Mutants: no busy timeout; every sqlite3 error reported as append-only.
InsertWaits(c) == phase[c] = "inserting" /\ LockRefused(c) /\ UNCHANGED storeVars
InsertMisreported(c) ==
    /\ phase[c] = "inserting"
    /\ LockRefused(c)
    /\ Return(c, "append_only")
    /\ UNCHANGED <<log, req, txn, view, acked>>

\* sqlite3.OperationalError, which append() does not catch.
InsertLocked(c) ==
    /\ phase[c] = "inserting"
    /\ LockRefused(c)
    /\ txn' = [txn EXCEPT ![c] = IF @ = "none" THEN "begun" ELSE @]
    /\ Return(c, "locked")
    /\ UNCHANGED <<log, req, view, acked>>

\* sqlite3.IntegrityError: the statement is undone, the transaction is not.
InsertRefused(c) ==
    /\ phase[c] = "inserting"
    /\ ~LockRefused(c)
    /\ IndexRefuses(c)
    /\ txn' = [txn EXCEPT ![c] = "writer"]
    /\ Return(c, "append_only")
    /\ UNCHANGED <<log, req, view, acked>>

Acknowledge(c, id) == acked' = acked \cup {[id |-> id, rec |-> req[c]]}

\* Mutant: append() hands out the identifier before the COMMIT.
InsertAcknowledges(c) ==
    /\ phase[c] = "inserting"
    /\ ~LockRefused(c)
    /\ ~IndexRefuses(c)
    /\ txn' = [txn EXCEPT ![c] = "writer"]
    /\ phase' = [phase EXCEPT ![c] = "committing"]
    /\ Acknowledge(c, Len(log) + 1)
    /\ UNCHANGED <<log, req, view, result>>

Insert(c) ==
    /\ phase[c] = "inserting"
    /\ ~LockRefused(c)
    /\ ~IndexRefuses(c)
    /\ txn' = [txn EXCEPT ![c] = "writer"]
    /\ phase' = [phase EXCEPT ![c] = "committing"]
    /\ UNCHANGED <<log, req, view, result, acked>>

Commit(c) ==
    /\ phase[c] = "committing"
    /\ log' = Append(log, req[c])
    /\ Acknowledge(c, Len(log) + 1)
    /\ txn' = [txn EXCEPT ![c] = "none"]
    /\ Return(c, "ok")
    /\ UNCHANGED <<req, view>>

\* Callers hold identifiers of every age, resolving or not.
Requests == [op : OperationId, payload : Payload, corr : 0..MaxStored]

AppendStep(c) == InsertLocked(c) \/ InsertRefused(c) \/ Insert(c) \/ Commit(c)

StoreNext ==
    \E c \in Conn :
        \/ Open(c)
        \/ Close(c)
        \/ Read(c)
        \/ \E r \in Requests : AppendOriginal(c, r) \/ AppendCorrection(c, r)
        \/ AppendStep(c)

StoreSpec == StoreInit /\ [][StoreNext]_storeVars

\* A call that has started runs on: the interpreter executes its next statement
\* and the busy timeout bounds the wait for the lock.
Fairness == \A c \in Conn : WF_storeVars(AppendStep(c))

StoreFairSpec == StoreSpec /\ Fairness

TypeOK ==
    /\ log \in Seq(Record)
    /\ phase \in [Conn -> Phases]
    /\ req \in [Conn -> Record]
    /\ txn \in [Conn -> Txns]
    /\ view \in [Conn -> Nat]
    /\ result \in [Conn -> Results]
    /\ acked \subseteq [id : Nat \ {0}, rec : Record]

\* A record whose append() returned is in the store, under the identifier the
\* caller was given, for ever: across crashes of its process and of others.
AcknowledgedIsDurable ==
    \A a \in acked : a.id \in DOMAIN log /\ log[a.id] = a.rec

\* DSORAppendOnlyError is never raised wrongly: whatever transaction or snapshot
\* the connection was in, the operation it names does have an original.
RefusalIsTrue ==
    \A c \in Conn : result[c] = "append_only" => HasOriginal(req[c].op)

\* The row a connection is about to commit would still be accepted: no other
\* process can commit a second original between its INSERT and its COMMIT.
CommitIsSafe ==
    \A c \in Conn : phase[c] = "committing" => Appendable(req[c])

\* Every append() returns, or its process is closed: no two processes wait on
\* each other for ever, because the wait for the lock times out.
EveryAppendReturns ==
    \A c \in Conn : phase[c] = "inserting" ~> phase[c] \in {"idle", "closed"}

\* The store implements the abstract log (the module it extends supplies it).
ImplementsLog == LogSpec
==============================================================================
