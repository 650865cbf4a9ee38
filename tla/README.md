# Atreides in TLA+

Atreides is the settlement-operations part of a custodian's control plane. It
takes an accepted trade, decides whether it may settle, prepares a message or
an instruction package which the entitled member (a person) submits, reads back
what the infrastructure says happened, reconciles it with what was expected,
and keeps a record of every decision. It never moves money or securities
itself: its correctness is about *what it says and what it keeps*. This
directory holds TLA+ modules translated from that code, TLC configurations that
check them on small instances, and proofs that TLAPS checks for every value of
the constants.

Contents: [1 The system](#1-the-system), [2 Modules](#2-modules),
[3 Runs](#3-runs), [4 Proofs](#4-proofs), [5 Divergences](#5-divergences),
[6 What is not modelled](#6-what-is-not-modelled), [7 Plan](#7-plan).

Paths below are relative to `src/`.

## 1 The system

### 1.1 Components

Parts with a module here:

| Component | State it keeps | Operations | What is hard | What makes it correct |
|---|---|---|---|---|
| DSOR store (`atreides/dsor/store.py`, `record.py`) | an SQLite file in WAL mode with the table `dsor_records`, a partial unique index over originals; per connection a transaction | `append` (SELECT of the correction target, INSERT, COMMIT), `records`, `replay`, `close` | several processes on one file, the lock and its timeout, a statement that fails inside a transaction sqlite3 opened by itself, a crash between INSERT and COMMIT | one original per operation; what was acknowledged stays; refusals are true; every call returns |
| Escalation register (`atreides/escalation/register.py`) | raised and acknowledged records, order of raising | `raise_escalation`, `acknowledge`; readings `state`, `unacknowledged`, `overdue` | instants are stated by callers in any order; readings derive one fact on different paths | readings agree; nothing raised is lost |
| Clearing cockpit and tier-1 settlement analyst (`atreides/cockpit/clearing_cockpit.py`, `atreides/agents/tier1/settlement_operations_analyst.py`) | two regime contexts, a cycle ledger, a workbench, an escalation register, the DSOR | capture, gates, emission, portal readback, reconciliation, raise breaks, rail acknowledgement | the operator holds artifacts of any age; the kernel's halt moves between a guard and its write; only the store stops a second decision | one governed decision per operation; ledger and DSOR agree; every breach is escalated |
| Agent activation (`atreides/activation/`) | slots of agents, their last outputs and counters, tick and time | `tick`, `stop`, `start`, `state`, snapshot | a runner that raises in the middle of a pass; agents stopped and started; absence of evidence | a PASS is earned by outputs of this very tick, and evidence stands behind it |
| Corporate action lifecycle (`atreides/corporate_actions/lifecycle.py`) | status, milestones, journal | `request`, `rebuild` | requests in any order and with any date; replay after a restart | payment waits for what must precede it; after payment only a reversal; the journal is the state |
| Corporate action elections (`election.py`) | journal of submissions | `submit`, `covers`, `assign_defaults`, `rebuild` | retries, reused identifiers, covers before or beyond their promise, deadlines, defaults against a moving book | retries are safe; no balance is promised twice |
| Corporate action records (`record.py`) | the records a caller kept | record of each request, submission and assignment; two rebuilds | any of them may be lost | records that rebuild tell a true past |
| Corporate action payment (`entitlement.py`, `movement.py`, `reconciliation.py`) | none of its own | entitlement per holder, reading of reports, `reconcile` | reports in parts, against another balance, misdirected; sums that agree by accident | what reconciles was paid to every holder and to nobody else |
| Equities books (`atreides/books/ledger.py`) | journal of balanced entries, stock record breaks | `post`, `quantities`, `verify_stock_record` | postings repeated or told differently; reversals before their target; reports that come and go | replay rebuilds; answers are true; every difference last seen has one break |
| Acceptance (`atreides/acceptance/`) | none: frozen records that callers keep | `evaluate_candidate`, `prepare_instruction` | an acceptance, a cash decision, a control result or a registry of another obligation or an older version; a halt between the two calls | nothing is prepared but what was accepted as it is and funded |
| Messaging (`atreides/messaging/`) | none: receipts, readbacks and statuses, which callers keep | `emit_instruction_artifact`, `read_receipt`, `ingest_readback`, `finality_from_readback`, `join_settlement_evidence` | receipts and reports that are late, repeated, contradictory or of another payment; statuses that move back | finality is earned; every reported entry is accounted for; reversals show |
| Lifecycle evidence and client output (`atreides/dsor/lifecycle_evidence.py`, `client_output.py`) | none | two readings of one output | the two readers have tests of their own | they never disagree about a delivery |
| Break record (`atreides/cockpit/breaks.py`) | a frozen record per break | intake from a ticket, assignment, restatement, resolution | assignments before, between and after; evidence of another break or an earlier time | a break is closed with evidence from an owner of it |
| Cash gate and funding (`atreides/rails/cato_cash.py`, `funding_state.py`, `determination.py`, ...) | none: records of decisions that callers keep | `project_funding_state`, `evaluate`, `_recommend_rail`, the record | a dozen checks whose order matters; two computations of one shortfall; a refusal that must survive a boundary that carries no refusals | a leg that proceeds is funded, on a rail that can carry it |
| Fiat operations specialist (`atreides/agents/tier2/`) | none | seven selections of a path | decisions of any age; six guards and the order of their failures | a path is chosen only where nothing stands against the operation |
| CNS (`atreides/rails/cns.py`) and the firm's day (`simulator/firm.py`) | carried fails, the books | draw and book, borrow, lend, net, settle, carry, close | partial allocations, fails that net with new trades, marks, silence of the venue | no share is lost; a fail past its deadline is flagged; nothing settles unreported |
| Customer protection (`atreides/customer_protection/`), margin, books projections, deadlines, the oracle (`simulator/protection_oracle.py`) | the books, what lies in the reserve bank | book, compute reserve, PAB, net capital, possession or control, deposit, recompute, assess deadlines | deposits racing a deadline; PAB leaning on customers; unloaded rules and missing figures; two derivations of one answer | a computation passes exactly when it should; ignorance never passes; late stays late |
| Market data store (`marketdata/`, `simulator/calibration/loader.py`) | one directory of raw files, rows, packs and manifests, a lock file, a copy on another disk | ingest, normalize, build, lock, sync with prune | two processes, crashes between any two files, temporary files of another process | what loads is traceable, whole and the same everywhere |

Parts without one (section 6 says why): corporate action messages, the DSOR's
output journal, contracts and quorum authority, clearing access, the tier-1
investigation analyst, the equities scenario, traceability, publications,
activation content, the facade, the simulator's driver, emulators and tools.

### 1.2 How they interact

- Everything is synchronous Python called by an operator, a script or the
  simulator. Two things are shared by several processes: the DSOR's SQLite file
  and the directory of the market data store. There are no threads, callbacks
  or queues inside the package.
- The kernel (`cannae_kernel`, not in this repository) hands every primitive a
  *halt context*. It may be declared or lifted between any two calls, and while
  one runs.
- The cockpit calls the tier-1 analyst for the gates and the emission; the
  analyst appends to the DSOR; a reconciliation raises in the escalation
  register. The rail's acknowledgement comes back outside the cockpit and is
  appended as a correction.
- The funding projection feeds the cash gate, whose decision the caller keeps
  and hands to acceptance or to the tier-2 specialist, at any later time.
- A corporate action's lifecycle and its election book hold no reference to
  each other. Records are assembled from either and are the caller's to keep.
- Every stateful object of the package with a journal (lifecycle, elections,
  books) is rebuilt after a restart by replaying that journal, so replay
  equality is the crash-recovery property of the system.
- Acceptance and messaging pass frozen records to each other through their
  callers: an acceptance to preparation, the prepared instructions and
  established statuses to a readback, everything to the join, the join to the
  lifecycle evidence. Each may be of any age. What the member does with an
  artifact is seen in receipts alone.
- The firm's day drives books, netting, margin, customer protection and
  deadlines, in that order; the reserve is computed again after the deposits.
- Activation runs agents over work units and publishes a snapshot; it reads
  nothing of the cockpit.

## 2 Modules

| Module | Extends or instantiates | Models |
|---|---|---|
| `AppendOnlyLog` | | abstract: what a system of record promises, whatever stores it |
| `DSORStore` | extends `AppendOnlyLog`, implements it | connections, transactions, locks, snapshots, crashes |
| `EscalationRegister` | | the register and its readings |
| `ClearingCockpit` | extends `AppendOnlyLog`, instantiates `EscalationRegister` | the operator's cycle over the DSOR and the register |
| `AgentSupervisor` | | one pass per tick over the roster, admission, outputs, snapshot |
| `CorporateActionEvent` | | the announced event and the firm's deadline |
| `LifecyclePromise` | | abstract: milestones and status, without dates or a journal |
| `CorporateActionLifecycle` | instantiates `LifecyclePromise` as refinement | requests, refusals, journal, rebuild |
| `ElectionBook` | extends `CorporateActionEvent` | submissions, covers, defaults, rebuild |
| `CorporateActionPayment` | | entitlements, reports of movements, their reconciliation |
| `CorporateAction` | extends the last two, instantiates the lifecycle | the records of both, any of them lost; the payment |
| `EquitiesBooks` | | the journal, the stock record and its breaks |
| `SettlementEvidence` | | pure: reconciliation of a status report, finality evidence, receipts, the join |
| `SettlementFlow` | extends `SettlementEvidence` | acceptance, preparation, receipts and readbacks in any order, halts between |
| `BreakRecord` | | a break from ticket to resolution |
| `LifecycleEvidence` | extends `SettlementFlow`, `BreakRecord` | the two readers of an output, the grade of an exception |
| `CatoCash` | | pure: the projection of funding, the gate, the rail ladder |
| `ApprovedPaths` | | pure: the table of approved paths and its validators |
| `PathSelection` | extends `ApprovedPaths` | pure: lookups in the table, eligibility, the seven selections |
| `CashLeg` | extends `CatoCash`, instantiates the two above | a caller that projects, gates and asks for a path, while everything changes |
| `Deadlines` | | pure: the calendar and four assessments |
| `ContinuousNetSettlement` | extends `Deadlines` | pure: net positions and what settles of them |
| `FirmDay` | extends `ContinuousNetSettlement` | the firm day after day, with its books and carried fails |
| `RuleTable` | | pure: the loading of rules, the disposition they lead to, the comparison with a vendor's figures |
| `CustomerProtection` | extends `RuleTable` | pure: reserve formula, possession or control, net capital |
| `ProtectionInputs` | extends `RuleTable`, instantiates `Deadlines` | pure: what the books and margin say to the engines, and the oracle |
| `ProtectionDay` | extends the engines and inputs | bookings, protections, deposits, restatements, reviews and deadlines over days |
| `MarketDataRows` | | pure: parsing, windows, verification of rows |
| `MarketData` | extends `MarketDataRows` | two processes, file by file, dying anywhere |
| `Sums` | | lemmas: what the folds and sums of the community modules come to on a finite set |
| `*_proofs` | extend the module they are named for; `Desk_proofs` extends `ClearingCockpit`, `AgentSupervisor`, `DSORStore`, `EquitiesBooks`, and `LifecycleEvidence_proofs` also extends `EscalationRegister` | the theorems |
| `MC*` | extend a module | the instances TLC runs (`DSORStore` runs as it is) |

Several of these put two parts that share nothing under one `Next`: a variable
`part` (or the profile, in `ProtectionDay`) picks one at the start and the
other stays as it began. Those are `MCDesk` (register, supervisor),
`CorporateAction` (elections of an event, payment of another), `LifecycleEvidence`
(settlement, exception) and `ProtectionDay` (the firm, another caller, the
deadlines). Nothing is gained or lost by it but runs: interleaving parts that
share no state would only multiply their states.

How state and actions correspond to the code:

**AppendOnlyLog / DSORStore.** `log` is the table in rowid order; a record is
its operation, what it wraps, and the record it corrects. `record_id` is a fresh
UUID and is modelled by the position, which is as fresh. `AppendOriginal` and
`AppendCorrection` start `append()` (the second includes the SELECT of the
target, line 192), `Insert`, `InsertRefused` and `InsertLocked` are the
outcomes of the INSERT, `Commit` is the COMMIT and the return. Between them
other connections act. `txn` follows Python's `sqlite3`: a transaction is
opened before the INSERT and nothing in `append()` rolls one back, so a failed
INSERT leaves the connection in it ("writer" if the index refused it, "begun"
if the lock did); the next SELECT in "begun" pins a snapshot ("pinned", `view`).
`Close` is both `close()` and the death of the process, at any point; `Open` is
a new store on the same file. SQLite itself is modelled from how the code uses
it and is marked external.

**EscalationRegister.** Variables are the three attributes of the class. `State`,
`Unacknowledged` and `Overdue` are the readings, over every offset. A deadline
that was not stated is an offset beyond all others.

**ClearingCockpit.** The cycle ledger keeps every artifact, so the sets
`gathered`, `validated`, `prepared`, `readbacks` and `reconciled` are at once the
ledger by kind and what an operator may pass to the next primitive. `context` is
the two dictionaries of the two regimes. A picture is reduced to the six
figures that any gate, materiality test or leg of the reconciliation reads, signed
where the code takes a magnitude. `Stated` are the positions a caller may expect
instead of the package's.
`EmitBegin` and `EmitEnd` split the emission at its guard: the halt may change
between. `EmitRecorded`, `EmitRefused` (the store already has the operation's
decision; the call raises) and `EmitQuorumHold` are its outcomes.
`RecordRailAcknowledgment` is the analyst's call, which no cockpit guard protects.

**AgentSupervisor.** `position` is the loop index of the running tick, so a
runner that raises (`Raise`) leaves earlier slots updated and later ones not.
`HaltRefusal`, `HandoffRefusal` and `Observe` are the three ways through a
runner; `Admitted` is the consumer's own rule; `ValidFinding` the output's
validators. `surface` is the newest state handed out, with how it was made.

**CorporateActionLifecycle / LifecyclePromise.** `Rules` is `_refusal`, one field
per reason, `RefusalOrder` the order in which the code asks. `Step` builds a
journal entry, `Rebuilds` is `rebuild`, comparing entry by entry. The promise has
a step for each milestone and no dates.

**ElectionBook.** The book *is* its journal, as in the code; the first use of an
identifier decides: repeated word for word it is a duplicate, with other content
it is refused, before any rule is asked; `Refusal` names the first rule broken.
`AssignDefaults` computes from the book as it is. Quantities are whole numbers
(`Decimal` in the code; only sums and comparisons are made of them).

**CorporateActionPayment, CorporateAction.** A factor is an exact fraction, as in
the code; a holder's quantity is in units of one over its denominator, so nothing
is rounded that the code does not round. `HolderBreaks` is the body of the loop
of `reconcile`. `RecordRequest`, `RecordSubmission` and `RecordDefaults` make the
record of each call, kept or lost; `LifecycleRebuilds` and `ElectionsRebuild` are
the two rebuilds over whatever was kept.

**EquitiesBooks.** `Outcome` is what `post` answers; `Journaled` the journal after
it. `Compare` is one turn of the loop of `verify_stock_record`: a changed
difference replaces the break, an unchanged one keeps it, a difference that went
away leaves it. `_by_source` is always the entry of that source in the journal
and is not a variable. Lines of money, accounts, authority and dates are stored
without being read and are left out.

**SettlementEvidence, SettlementFlow.** An instruction is its identifiers, time,
amount and parties; an artifact renders all of them, so an artifact and its digest
*are* the instruction. A report is the message it answers and its entries, in
order; `None` is what the venue left out. `BreakCodes` follows the loop of
`reconcile` entry by entry; of two entries for one payment the last is matched.
An envelope is its digest: two versions of one obligation are two envelopes. A
payload is what the predicates read of it; the three that read nothing else are
its `form`. `EvaluateCandidate` and `PrepareInstruction` take any payload,
decision, control result, acceptance, registry and halt; a refusal to prepare
raises and changes nothing. `receipts` and `matches` grow as the member and the
venue are heard of; `known` is what the caller establishes from each readback
(`Establish`, external). The join keeps nothing, so the property quantifies over
all its arguments in every state.

**BreakRecord, LifecycleEvidence.** A record is frozen and validated as a whole, so
each action builds the new record and requires `Consistent` of it (`_consistent`).
Times are what callers say, in any order. An `Intake` is what a ticket may hold,
a history included; one of the run is already RESOLVED, with evidence from before it was raised. `AssessLifecycleEvidence` and `AssessClientOutput` are the two
readers; a posting is the execution it was made from.

**CatoCash, PathSelection, CashLeg.** The checks of the gate are a sequence of
[condition, answer] in the order of the code, and `evaluate` answers with the first
that holds: `InputChecks`, `CounterpartyChecks`, `FundingChecks`, `FinalityChecks`.
`Disposition`, `CapTrough` and `ToGateInput` are the projection and the boundary it
crosses. A text that names no enum member stays one (`misspelt`), as `boundary.py`
leaves it. `Selection` is the common body of the seven `select_` methods with its
guards in order; materiality and eligibility are operators of their own. In
`CashLeg` a situation is everything a caller reads before a call: `Turn` changes
it, `Halt` changes the halt, `Evaluate` gates and keeps the record, `Select` asks
the specialist with any decision held, with the one that stands for an absent gate,
or with none.

**ContinuousNetSettlement, FirmDay.** `net_positions` sums the day's trades and
carried fails per issue; `settle_net_position` decides disposition, residual and
breaks from what the venue reported, in the code's order. `Trade`, `Borrow`,
`Settle`, `Close` are the parts of one turn of `run_firm`'s loop; nothing is
interleaved inside a day because nothing is in the code. The books are a set of
entries with lines that follow from their kind. What a close compares them with is taken from
the trades and the carried fails and never from the entries of the day. `Stop` is the division by zero of
section 5. `Report` is any other caller of the clearing rules.

**ProtectionDay and its engines.** `load_rule_table` keeps the rows whose source
loads, whose quote is there and whose hash is pinned; an engine collects what is
not loaded and not supplied, and `decide` makes of them INDETERMINATE before HOLD
before PASS. `Protect` projects, computes, deposits, posts and computes again, as
`_protections` does with `_post_reserve_deposits`; a deposit is drawn on time,
late, short or not declared. `Restate` gives the PAB computation the customers' of
an earlier day. `Review` asks an engine with inputs of another caller's. `Wait`,
`CountSecurities` and `Validate` are the clock and the two things done by a deadline.

**MarketData.** A command is begun with its checks; its files are then written one
by one, each by `Open` (which empties it) and `Fill`; `Crash` may come anywhere and
leaves what was being written. Only the raw file appears by a rename. A pack cites
the content and window it was made of; the citation stands for the calibration and
its digest. `overlapped` remembers that two syncs were under way together, for
which the code has no protection and the last property asks none.

Operators marked *Mutant* in comments are plausible bugs; each property is known to
fail when its mutant replaces the definition after it. They are in no run's Next.

## 3 Runs

| Run | Bounds | What it shows |
|---|---|---|
| `dsor_store` | 2 connections, 2 operations, 3 records | all safety of the store, the refinement to `AppendOnlyLog`, and that every append returns |
| `cockpit_decide` | 2 operations, 2 regimes, 5 pictures, 2 reports, 2 artifacts per beat, 3 records, 2 escalations | one governed decision however artifacts of different ages are combined; each breach has its own escalation |
| `desk` | 2 escalations, 2 people, offsets 0..2; an agent and a probe, 4 inputs, 3 findings, 2 ticks | the readings agree and forget nothing; a PASS is earned and has evidence |
| `equities_books` | 6 drafts (5 that balance), 2 issues, 3 entries, reports 0..2 or none | replay, answers, breaks |
| `corporate_action` | 4 requests, journals and assignments together, 7 submissions, 1 assignment, 1 record lost; 8 events and 9 sets of holdings, 2 reports | retries, balances, records and tampering; the promise; what matches is paid |
| `settlement_flow` | 4 envelopes (an original and its correction, a customer's sale, a free delivery), 2 instructions, 5 receipts, 8 reports; 2 acceptances, 2 receipts, 2 readbacks; 2 executions; a break with 3 owners and times 0..2 | finality is earned, entries are accounted for, reversals stand, readers agree, breaks are closed by owners |
| `cash_leg` | accounts over all subsets of 6 flows, 5 finality classes and one misspelt, caps and windows; 4 to 6 rails in 3 conditions, in and out of hours, linked or not; 12 states of evidence and 13 kinds of question; one gate record, changes before and after it | what proceeds is funded and can be carried; what is routed is governed |
| `cash_leg_ladder` (violation) | same | divergence: the ladder recommends a rail check 6 refuses |
| `cash_leg_trough` (violation) | same | divergence: an account said to settle dips below its cap after paying |
| `firm_day` | 1 issue at one price, batches of at most 2 shares, one a day, 3 in the run, 6 business days with a holiday, 2 firms; every report of a small position under 4 markets | every close balances, shares are conserved, overdue fails are flagged, nothing settles unreported |
| `protection_day` | 2 business days, 8 bookings of which 2 are made, 6 draws, 6 firms (rules that do not load, a small bank, no history); about 450 inputs of another caller; 18 instants of 3 sets of things watched | deposits are judged, customers and PAB are covered together, engines agree with the oracle, ignorance never passes, late stays late |
| `market_data` | 2 processes, 2 contents, 1 version, 3 windows, 6 commands, a crash anywhere | packs are traceable, whole and unchanged |

Why the bounds are enough. The store's hazards need two connections (one that holds
or lost the lock, one that commits in between) and three records (an original, its
correction, and a record committed meanwhile). The register's need two escalations
(order) and three offsets (before, at, after a deadline). The cockpit's decision
needs one operation captured in both regimes with pictures that fall on each side
of each gate and of the material threshold; a stale artifact needs two per beat, and
its escalations two operations. A supervisor pass is disturbed by what one agent
leaves for another, so one agent that is not a probe and one probe; two ticks, so
that outputs of the tick before can be stale. An elective event has at most four
applied milestones. Elections need a promise, two covers that together exceed it,
and a reuse of an identifier. The books need two entries of one source, a reversal
and its target. The flow needs two acceptances (one of a version, or an obligation,
other than the one prepared), two receipts that can disagree, and two readbacks.
A break needs an owner before, one after and one who is not authenticated. A gate
and a specialist keep nothing, so one record and a situation that changed before it
was used are all there is; what matters is the breadth of the situations, on
each side of each comparison. A fail needs a trade, a partial allocation, a trade
against it and four days to pass its deadline. The reserve needs a day on which
something is owed, a day after it, and bookings that make customers and PAB owe and
lend. A pack needs a process that publishes while the other prunes, locks or builds,
and a publisher that changed its mind. Bounds are guards of the actions (`MaxRecords`,
`MaxPerBeat`, `MaxEscalations`, `MaxTickets`, `MaxTick`, `MaxRequests`, `MaxJournal`,
`MaxAssigned`, `MaxEntries`, `MaxLost`, `MaxMoved`, `MaxOffset`, `MaxAccepted`,
`MaxReceipts`, `MaxReports`, `MaxOwners`, `MaxTime`, `MaxBatches`, `MaxShares`, `MaxBooked`, `RunDays`,
`LastInstant`, `MaxCalls`) and the theorems hold without them mattering.

`CHECK_DEADLOCK FALSE` stands where everything may have been said within the bound and
nothing more can happen: the desk once all is acknowledged, the journals, the flow and
the break once they are full, the firm and its protections at the end of their days, and
the market data store once its commands are spent.

Symmetry is used for the register's identifiers and people and for the two processes of the
market data store, which are interchangeable; neither run checks liveness.

**Fairness.** One specification states fairness: `DSORStore!StoreFairSpec`, weak fairness of the
remaining steps of an `append()` that has begun, per connection. The interpreter executes
the next statement of a call, and SQLite's busy timeout bounds the wait for the lock, after
which the INSERT fails: so a step of the call is always enabled and is always taken. Nothing
is assumed of the holder of the lock, of `Open` or of `Close`. The other components have no
process that must make progress: each call runs to its end, and whether it is made is the
caller's choice.

## 4 Proofs

Every theorem is checked to its last leaf; none assumes bounds on the data other than
those that the modules name as assumptions on the constants.

**`Desk_proofs`.** The cockpit: the invariant joins the type with *EmissionIsFresh* (an emission
under way carries the tasking it validated and that verdict), and, of the log,
*CorrectionsAreNoDecisions* (a correction is of telemetry of its own operation, so no decision
is ever a correction) and *OnePackagePerRecord*; neither `OneDecisionPerOperation` nor
`EmittedIsGoverned` is inductive without them. From it: `DecidedOnce`, `EmissionsAreGoverned`,
`BreachesAreEscalated`; and `UsesTheLog`: whatever the operator, the rail and the analyst do,
the DSOR behind them is the abstract append-only log.
The supervisor, where the type says nothing of what agents wrote when: *SlotInv* (the newest
output of an agent is the newest of its kind, advice is of an admitted unit and a valid
finding, and of no tick that has not begun), *PassedHaveSpoken* (the agents that the running
tick has passed have an output of it, or are down) and *HaltSilences* (under the halt that a
tick began with nothing in it is advice): `PassesAreEarned` and `PassesHaveEvidence`, in the
middle of a tick and after one that a runner ended by raising.
The two journals that this module is also about. The DSOR: `StoreInvariance` is the inductive invariant: the type; *WriterInv* (a
connection past its INSERT is a "writer", at most one is, and what it is about to commit
is still appendable: `CommitIsSafe`); *ReadInv* (no snapshot is ahead of the log, and a
target that was found stays found); *LogInv* (one original per operation, corrections
resolve, acknowledged records in place); and `RefusalIsTrue`. It is needed because
`OneOriginalPerOperation` alone is not inductive: the commit of an original is safe only
because the check at the INSERT still holds, which needs the lock to have been held since.
From it come `TypeCorrect`, `OneOriginal`, `CorrectionsAreOfRecords`,
`AcknowledgedSurvives`, `RefusalsAreTrue`, and `Refinement`: a `Commit` is an append of the
abstract log and every other step stutters. *OneWriter*, mutual exclusion between
processes, is a part of the invariant. The equities books: `JournalRebuildsBook` (`ReplayRebuilds`)
is inductive with the type, and gives one entry per source; `AnswersTrue` follows from it.
`DifferencesAlwaysRaised` is about the loop of a verification: the fold over the issues is unrolled from
its last turn (`LoopRaises`), and each turn raises what its issue differs by and leaves the others'
breaks. That there is such a loop to unroll, the issues of a journal being a sequence, is a lemma too
(`FlatIsSeq`, `IssuesType`).

**`CorporateAction_proofs`.** The lifecycle: the invariant joins the type, `JournalRebuilds`,
`PaidInOrder` and *StatusHasPayment* (a status of paid or reversed has its payment among
the milestones); the refinement also needs *EndIsStatus* (a cancellation or reversal once
reached is the status). `AfterPaymentOnlyReversal` needs the invariant: no rule of the code
asks about payment when an entitlement is fixed or elections are closed, and it is the
once-only rule together with what payment needed that refuses those requests afterwards.
`JournalAlwaysRebuilds` and `LifecycleImplementsPromise` follow from the same invariant, and so
does `TamperingAlwaysShows`: each entry says its place and what its request came to, and a
journal that rebuilds is the only one for its requests. `EventHasLifecycle` carries all of it
to the event with its elections and records (`EventImplementsPromise`). The elections:
`RetrySafe` is inductive together with the type (`RetryIsSafe`); a duplicate is found by the
earliest use of the identifier that is not itself one. `BalancesCover` is inductive given that
(`BalancesAlwaysCover`): an instruction that is accepted is new, so nothing covers it yet; a cover that
is accepted was compared with what its one instruction has left, and a sum grows by what is added to
it. The records (`RecordsAlwaysTellThePast`):
the invariant is that each record holds the entry of its journal at its own number. Sorted,
the records of a kind have the rank that their numbers give them, so the ones that are in place
are the first entries of that journal, and all of them if there are as many; that a finite set of
numbered records can be sorted at all is a lemma, by the rank of each (`EveryRank`). The payment
(`MatchedIsAlwaysPaid`) is a function of the event, the holdings and the reports: no break of a holder
means no reason for one, and each report of an account without a break is of a holder.

**`LifecycleEvidence_proofs`.** The flow: the invariant joins the type with a chain, one link per call:
*AcceptedIsFunded* (an acceptance that passed is of an envelope that is free of payment or
that the cash gate let go for its very amount), *PreparedIsAccepted* (what is prepared has
such an acceptance and its amount) and *MatchedIsEchoed* (what is matched is an entry the
venue sent, whose amount, if echoed, is that of the instruction of that identifier unless a
break says so). `FinalityEarned` puts the links together: a published join names one
artifact, its receipts and one entry. No link follows from the join alone, which never sees
an acceptance. `EntriesAccounted`, `RefusedStaysUnfinal` and `ReversalShows` follow from the
breaks of each entry. The assumptions are *UniqueIdentifiers* (callers mint identifiers
once, as the lookups of `reconcile` presume) and *ParsedReports* (a status is one of those
`classify_status_code` returns). The composition: `LifecycleIsAFlow` (every behaviour of
`LifecycleSpec` is one of the flow, so all of the above holds in it), `ReadersAlwaysAgree` (the
exception that an output shows and the grade of its lifecycle come from one order of
precedence, whose last match exists because the order is finite) and `BreaksAreClosedByOwners`.
The last is of records restated from tickets too, one already RESOLVED included: of that
one `ClosedByAnOwner` asks only that its evidence is of that break, as `break_record_from_ticket`
asks no more (section 5).
The register of escalations: from the type, *DeadlinesFollow* (no deadline is before its
raising) and *OrderIsRaised* (the order lists exactly what was raised, once):
`ReadingsAgree` and `NothingIsForgotten`, together `RegisterReadsTrue`; and `RecordsKept`.

**`MarketData_proofs`.** None of the three properties is inductive, as each speaks of files that
other processes may be about to write. What is: a manifest that stands is final, and so are
the calibration file it digests and the raw file this cites (*Grows* says so of any two states).
It holds because the process that made the directory of a version is the only one that
writes in it (*OneOwner*) and writes each of its two files once, from a citation that was sound
when it began (*BuildSound*) and cannot cease to be. `InvHolds` joins that with the soundness of
each file by its kind, of what each command has read (*CallSound*), and with the order in which a
sync that runs alone has still to copy (*OneSync*). `PacksAreTraceable`, `CopiesAreOfThePack` and
`ManifestsComeLast` follow. A store of any size is listed in order (*InOrder*), whose existence is
a lemma. The assumptions: contents are finite and numbered by their digests, versions by their
names (*StoreIsRanked*); a missing or torn file is told from any that holds something
(*MarksAreNoContents*).

**`CashLeg_proofs`.** The gate and the specialist are functions of what they are given, so the
invariant is only about who holds what: every record is what the gate answered to a valid situation
(*CallsInv*), and what was emitted is what the specialist answers to the request it names, with a
decision among those the records hold (*EmittedInv*). The rest is a case analysis of the
two functions. A function that asks one question after another answers with the first test that
holds (`FirstOfIs`); an answer that only the last group of questions gives says no to every group
before it (`Falls`), so PROCEED says no to all nineteen, in any instance. From it `LegsAreFunded`,
`RailsCanCarry` and `RoutesAreGoverned`. The assumptions are that the situations are ones the callers can
build (*SituationsAreValid*: amounts and balances are numbers, projections are of finite flows),
that thresholds are numbers (*TablesAreValid*), and that an absent surface is told from a named one.

**`FirmDay_proofs`.** `SettledIsAlwaysReported` is a case analysis of `settle_net_position`, whose
answer is one of five (*Outcome*), joined to the memory of who asked what (*AskedInv*). `OverdueIsAlwaysFlagged`
is not about one answer: *AgeInv* says that the date a fail was first due on is the date it is carried
with, and at the close the date of its residual, through every allocation and netting in between.
`SharesAlwaysConserved` is inductive with the types (*FirmInv*). A position is the sum of what was carried
and what was traded, summed over a set that is the carried fail and an image of the batches, which
share nothing and repeat nothing (`QuantityIs`); what is kept of it, rounded half to even, is no more than
it and not of the other sign (`RoundFacts`), so the report contradicts nothing and what is allocated and
what is left of any of the answers are the position (`AllocatedAndOpen`). `DayAlwaysCloses` needs to know
what the books hold besides (*BooksInv*): only entries of days gone by until the day's batches are posted, and
then the entries of today are those of the batches and of the borrows and no others, which rests on no
two days of the run being one (`DaysDiffer`), as an entry whose event is in the journal is not posted.
An entry moves as much of ownership as of location (`OwnedIsLocated`), so the books do; and a balance of the
books is that of the entries before and that of today's (`AmountOfBoth`), of which the batches' come to what
was executed and paid (`BatchesMove`) and the borrows' to the fails carried in (`BorrowsMove`). The assumptions: shares and
prices are numbers, the share that fails is a fraction of one, and the calendar is loaded for the days of
the run and the one after (*CalendarCoversTheRun*; the code raises when it is not).

**`ProtectionDay_proofs`.** Five theorems, of the four parts of the module.
`LessIsNeverMore` is about answers. What a part of a computation reads is *poorer* than what it read before if
it lacks all that it lacked, keeps a breach or lacks something new, and has its value or none (*Poorer*);
inputs and rules are *blanker* if they agree wherever they still say something (*Blanker*). Each of the four
engines, part by part, makes poorer of blanker, and a disposition never improves when its parts get poorer; a
review is then never passed by taking a rule or a figure away, nor by taking several.
`LateIsForGood`: what is watched keeps its dates except for the two that a step may fill in, once and with the
instant of the step (*WatchedInv*), and a deadline that has passed has passed at every later instant.
`BothAreCovered`: whatever made a PAB computation that passes, its relief is no more than the excess debits of
a customer computation *of the same date*; that the customers' computation held today is the only one of today's
date (*FirmInv*, *CoversInv*: an earlier day's is of an earlier date) is what keeps a restated one honest.
`DepositsJudged`: a computation passes exactly if the bank holds, as far as it is good for it, what is required
(`JudgedBy`). The requirement does not depend on what is in the bank (`SizedAgain`), so it is the one that the
deposits were sized by; and what the bank then holds at the deadline is what was there and what the deposit
brought by that date (`BankIs`), which covers the requirement unless its outcome is a failing one
(`DepositBrings`). `BankIs` needs *Placed*: the deposits of the day before are by today's deadline all there,
late ones included, since a business day after yesterday's deadline is today's (`DaysCompose`), and none of
today's lines is in the journal yet.
`EnginesAlwaysAgree`: the engines and the second derivation share no operator, so each is brought to one form
over the books and the forms are compared. For capital, the engine's haircuts, issue by issue of what is owned,
are those of all the issues, since what is not owned costs nothing (`PositionsCost`), and its four breaches are the
four conditions of the derivation (`FirmCapital`); the charge on the lesser side cannot arise, because an issue
is long or short and never both. For control, what the engine requires of an issue over the paid and the lent
accounts is what the owners need of it (`RequirementNeeds`), and an issue is clean exactly if that is no more than
what lies at the depository and the control bank (`IssueChecked`): by balance all that is owned lies somewhere, so
on one side at each place the engine finds nothing unlocated. This needs that the books are balanced, issue by
issue, and own something (*ShapeInv*): a booking is posted once and every entry is balanced (`BookBalances`), and
the lines of the reserve bank and the balances brought forward are money (`BankLinesApart`), with which the books
read the same (`SameRead`). `FirmShaped` stays a premise of the property: the oracle is for the shapes of the
firm's run (`protection_oracle.py:11`), and takes a place's balance for its magnitude because a long position
is recorded there as a negative balance (line 78).
The assumptions: what another caller asks has the fields of its engine (*ReviewsAssumption*); figures are numbers
or unknown, and prices are known (*NoneIsNoNumber*, *BooksAssumption*); only deposits move the reserve bank, a
protected firm has loaded the two rules that a deposit is judged by and no line that the engine cannot
place, and the unit of amounts is fine enough for what a short deposit lacks to show
(*DepositsAssumption*: the code rounds a short deposit down to the cent, so it always does); a draw names how each
account's deposit comes out (*DrawsAssumption*); an entry is balanced, at places that the rules know, and
only money lies in a reserve bank, a protected firm has loaded those places and the rules of capital's warnings,
whose values are not negative, and starts with an inventory at known prices
(*InventoryAssumption*: `books/ledger.py:124-139` refuses an unbalanced entry, `simulator/firm.py:589` seeds the
inventory before the first day); the calendar is loaded for the run and for what it watches
(*CalendarCoversTheRun*, *DeadlinesAssumption*, *WatchAssumption*).

**`Sums`.** A fold over a finite set is defined by recursion on a CHOOSE, and the provers know nothing of it.
The lemmas show that there is one function that satisfies the recursion (`FoldExists`, `FoldsAgree`), by
least counterexample among the subsets, so that a sum is what its definition says (`SumIsSolution`), is a
number (`SumType`), and grows by an element's value when it is added, whichever the recursion takes first
(`SumInsert`). From there: over disjoint sets (`SumDisjoint`), over the image of a set (`SumImage`), of two
values each (`SumAdd`), and without what adds nothing (`SumRelevant`).

The theorems of the register and of the supervisor are of the one or the other by itself; `MCDesk` adds
steps that leave the variables of the one or the other unchanged, which the specifications
`[][RegisterNext]_registerVars` and `[][AgentsNext]_agents` allow, so they hold there too.

Not provable here and left to TLC: liveness (`EveryAppendReturns`) and anything with ENABLED. Every safety
invariant and every action property that a passing run checks is a theorem.

## 5 Divergences

Places where the code and what is written of it disagree. Two are runs that TLC refutes:

- `cash_leg_ladder`: `rails/cato_cash.py:686` says "check 6 and the rail ladder cannot drift
  apart again". `_recommend_rail` (820) prefers a tokenized-deposit rail by its status and cap
  only; outside hours or off-us, it recommends a rail that `_serviceable` refuses, as long as
  another satisfies check 6.
- `cash_leg_trough`: `rails/funding_state.py:287` says a cap "is breached by the deepest
  intraday position, not the closing one". `_cap_trough` (344) runs over the flows without the
  obligation and adds it at settlement only, so an outflow after settlement is measured as if
  the obligation had not been paid.

The others were met while modelling, are plain from the code and have no run of their own:

- `dsor/store.py:168`: `DSORRecordNotFoundError` is said to mean that the target "does not
  resolve to a record in this store". After an append failed on the lock, the connection stays
  in a transaction; its next read (192) pins a snapshot, and a target that another process commits
  later is refused.
- `dsor/store.py:191`: the target of a correction is not compared with the operation it is for,
  while `dsor/record.py:9` speaks of an operation's "initial record plus one or more
  corrections". The one caller that corrects does not do it.
- `escalation/register.py:38-41`: the register can answer "what did this look like at 14:05
  yesterday". The readings (259, 276) filter raisings by the instant asked, not
  acknowledgements, so an acknowledgement made today changes yesterday's answer.
- `messaging/readback.py:214-215`: two different statuses at one level are a conflict. Entries
  are compared with what was known before the report, never with each other, so a report that says
  CANCELLED and then SETTLED of one payment is clean and can be read as final.
- `messaging/readback.py:762`: an identical status is idempotent, also one that was contested:
  once a caller establishes the status of a conflicting entry, a resend of it is clean.
- `cockpit/clearing_cockpit.py:615,627`: the halt is read once and the cockpit calls
  `emit_settlement` without one, so a halt declared after its guard stops nothing;
  `agents/tier1/settlement_operations_analyst.py:230-231` says a halt in effect at emission
  overrides an earlier validation.
- `cockpit/clearing_cockpit.py:744`: a reconciliation compares the operations of package and
  readback, not their regimes; lines 34-36 say the regimes are kept separate and never flattened.
- `cockpit/clearing_cockpit.py:857`: a break is named by operation and leg, so two
  reconciliations make the same `break_id`; `breaks_publication.py:49` requires them unique.
- `cockpit/breaks.py:205`: a record restated from a ticket as RESOLVED is not asked whether its
  evidence is later than the break and its owner, as `resolve_break` asks (276-281). The run takes
  in such a record, and `ClosedByAnOwner` names the exception.
- `acceptance/service.py:184`: a free-of-payment payload that states a cash leg all the same is
  accepted without a cash decision, and `prepare_instruction` (464) never asks the pattern;
  `FinalityIsEarned` says so ("funded, or free").
- `agents/tier2/fiat_operations_specialist.py:1049`: that a gate decision names another obligation
  than the request is not a reason to stop, so `RoutedIsGoverned` asks only that a decision of the
  obligation it names was to proceed.
- `rails/cns.py:847`: the comment before it (832-846) says a movement reported against a flat
  position is not nothing. A position flat in shares that carries cash is not flat to the test, so a
  movement of shares against it becomes a partial allocation without that break.
- `simulator/firm.py:1172`: the mark of a carried fail divides its cash by its shares. One with cash and
  no shares, in an issue not traded that day, stops the run; and where it is traded, the cash
  carried is replaced by the new mark (`Stop`, `Cash`).
- `simulator/protection_oracle.py:12-13`: anything but equities and the alternative standard
  "returns None so the caller can refuse instead of guess". Neither function looks at either.
- `activation/supervisor.py:286`: the tick number moves before any agent runs, so after a runner
  raised the snapshot names a tick that did not complete; `activation/snapshot.py:115-116` calls
  it "the last completed tick".
- `corporate_actions/lifecycle.py:250`: an entry changed into what another request would have made
  rebuilds; lines 34-35 say an altered journal does not. A reordered one, or one with another
  outcome, does not (`TamperingShows`).
- `corporate_actions/election.py:277`: the date compared with the deadline is the submission's own,
  so an instruction dated in time is accepted after a default was assigned; lines 43-44 say no
  further instruction can be accepted then.
- `corporate_actions/election.py:290`: the book does not read the lifecycle, so an election is
  accepted after elections were closed; `lifecycle.py:67` says none is.
- `corporate_actions/reconciliation.py:212`: a confirmation delivered twice counts twice; reports
  carry no identifier, so it cannot be told from two payments.

## 6 What is not modelled

- **Data and wording**: message layouts, formatting, identifiers' text, log lines and figures that
  no decision reads. Money and shares are whole numbers where the code only adds, compares and takes
  percentages that come out whole, and exact fractions where it divides.
- **SQLite, the file system and the kernel**: from how the code uses them. A read-only medium, a
  full disk, a corrupt file and the order in which a disk forgets are not modelled.
- **In the modelled components**: cockpit entry times and operator notes; route selection of the
  tier-1 analyst (a reference string); the runners' own computations (an agent is any that keeps the
  runner protocol); reconciliation records, allocated totals and their residual of corporate actions;
  the identities and hashes of lifecycle records; the funding of a lifecycle by a repo; record-date
  positions of CNS; advisory figures and the replay of a customer-protection record;
  `classify_accounts`; a determination artifact that cannot be read; whether an account requires the
  caller's opening time (Rule 204 always has one here); the catalogue's loading and a remote target of the market data store.
- **Steps and figures taken together**: an append's COMMIT and its return, a cockpit break and its
  ledger entry, and the unlinking of the files a prune removes are one step each; a loan of the firm
  has one size; ratios are whole numbers or exact quotients where the code keeps 28 digits. The
  settlement-date hold of an acceptance is the HOLD of envelopes that differ, and a booking the
  projections refuse for its settlement date is not made. No property tells these apart.
- **Components left out**: `PROJECT.json` lists each with its reason. They are message layouts and
  parsing (corporate action messages), validators of records without a transition (contracts, quorum
  authority), stateless checklists and recommendations (clearing access, the investigation analyst), the
  hash-chained rendering of the store (output journal), publications and writers, fixed demonstrations
  (equities scenario, activation content), the simulator's driver, and development tools.

## 7 Plan

In order of importance.

1. `OutputJournal`: the DSOR's hash-chained journal as a refinement of `AppendOnlyLog`.
2. A second issue in `firm_day`, with record-date positions carried into netting, and a second
   version of a pack in `market_data`.
3. Clearing access (FICC, repo) as an input of acceptance.
