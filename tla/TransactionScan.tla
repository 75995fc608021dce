-------------------------- MODULE TransactionScan ---------------------------
(***************************************************************************)
(* poll_transactions (transaction.py) probe by probe, against a service    *)
(* that keeps submitting, settling and purging transactions meanwhile.     *)
(* The caller's part of a cycle (main.py) is kept to what the scan needs:  *)
(* read the watermark, write the lines, save the watermark, each of which  *)
(* may fail, and the process may crash anywhere.  PollLoop models that     *)
(* part in detail.                                                         *)
(***************************************************************************)
EXTENDS EdaTransactions

CONSTANTS
  MaxMissing,     \* max_missing: consecutive absent ids that end a scan
  StuckTimeout,   \* _STUCK_TIMEOUT_SECONDS, in ticks
  FastCommit,     \* may a transaction submitted during a scan settle in it?
  MaxFaults       \* failures and crashes in a behaviour (bound of the model)

ASSUME ScanAssumption ==
  /\ MaxMissing \in Nat \ {0}
  /\ StuckTimeout \in Nat \ {0}
  /\ FastCommit \in BOOLEAN
  /\ MaxFaults \in Nat

VARIABLES
  phase,        \* where the poll loop is in its cycle
  probe,        \* tx_id: the id the scan asks for next
  missing,      \* absent answers in a row
  last,         \* last_processed, 0 for None
  batch,        \* the records of txn_lines_by_day
  deferredFor,  \* _deferred_since as an age per id; NoTimer if not deferred
  watermark,    \* lastTransactionID in the ConfigMap
  log,          \* the records in the audit log files
  base,         \* watermark of the first run (history)
  scanBase,     \* newest when the scan started (history)
  faults        \* failures so far (bounds the model)

scan == <<phase, probe, missing, last, batch, scanBase>>
durable == <<watermark, log, base>>
vars == <<service, scan, deferredFor, durable, faults>>

NoTimer == -1

\* A line names an id and is built from the summary of a transaction.  Its
\* content is either the final outcome (dry run, failure, diff or "no config
\* changes", ChangeRecord has the choice) or the stuck-transaction notice.
Records == [id : Tx, about : Tx, kind : {"outcome", "stuck"}]

Ids(records) == {r.id : r \in records}

TypeOK ==
  /\ ServiceTypeOK
  /\ phase \in {"firstRun", "idle", "scan", "write", "save"}
  /\ probe \in 1 .. MaxTx + 2
  /\ missing \in 0 .. MaxMissing
  /\ last \in 0 .. MaxTx
  /\ batch \in SUBSET Records
  /\ deferredFor \in [Tx -> {NoTimer} \union 0 .. StuckTimeout]
  /\ watermark \in 0 .. MaxTx
  /\ log \in SUBSET Records
  /\ base \in 0 .. MaxTx
  /\ scanBase \in 0 .. MaxTx
  /\ faults \in 0 .. MaxFaults

Init ==
  /\ ServiceInit
  /\ phase = "firstRun"
  /\ probe = 1 /\ missing = 0 /\ last = 0 /\ batch = {} /\ scanBase = 0
  /\ deferredFor = [n \in Tx |-> NoTimer]
  /\ watermark = 0 /\ log = {} /\ base = 0
  /\ faults = 0

-----------------------------------------------------------------------------
\* The caller, as far as the scan depends on it.

FirstRun ==
  /\ phase = "firstRun"
  /\ \E w \in 0 .. MaxTx :
       /\ NewestSurvivor(w)
       /\ watermark' = w
       /\ base' = w
  /\ phase' = "idle"
  /\ UNCHANGED <<service, probe, missing, last, batch, scanBase, deferredFor,
                 log, faults>>

\* Mutated form of BeginScan: start at the watermark instead of after it.
BeginScan_Inclusive ==
  /\ phase = "idle"
  /\ phase' = "scan"
  /\ probe' = IF watermark = 0 THEN 1 ELSE watermark
  /\ missing' = 0
  /\ last' = 0
  /\ batch' = {}
  /\ scanBase' = newest
  /\ UNCHANGED <<service, deferredFor, durable, faults>>

BeginScan ==
  /\ phase = "idle"
  /\ phase' = "scan"
  /\ probe' = watermark + 1
  /\ missing' = 0
  /\ last' = 0
  /\ batch' = {}
  /\ scanBase' = newest
  /\ UNCHANGED <<service, deferredFor, durable, faults>>

\* A failed write leaves any part of the lines behind and drops the cycle.
WriteLines ==
  /\ phase = "write"
  /\ log' = log \union batch
  /\ phase' = "save"
  /\ UNCHANGED <<service, probe, missing, last, batch, scanBase, deferredFor,
                 watermark, base, faults>>

WriteFails ==
  /\ phase = "write"
  /\ faults < MaxFaults
  /\ faults' = faults + 1
  /\ \E written \in SUBSET batch : log' = log \union written
  /\ phase' = "idle"
  /\ UNCHANGED <<service, probe, missing, last, batch, scanBase, deferredFor,
                 watermark, base>>

\* Mutated form of SaveWatermark: remember how far the scan looked.
SaveWatermark_Probed ==
  /\ phase = "save"
  /\ watermark' = IF probe = 1 THEN 0 ELSE probe - 1
  /\ phase' = "idle"
  /\ UNCHANGED <<service, probe, missing, last, batch, scanBase, deferredFor,
                 log, base, faults>>

SaveWatermark ==
  /\ phase = "save"
  /\ watermark' = IF last = 0 THEN watermark ELSE last
  /\ phase' = "idle"
  /\ UNCHANGED <<service, probe, missing, last, batch, scanBase, deferredFor,
                 log, base, faults>>

SaveFails ==
  /\ phase = "save"
  /\ faults < MaxFaults
  /\ faults' = faults + 1
  /\ phase' = "idle"
  /\ UNCHANGED <<service, probe, missing, last, batch, scanBase, deferredFor,
                 durable>>

\* The Deployment restarts the process; the timers live in memory only.
Crash ==
  /\ phase # "firstRun"
  /\ faults < MaxFaults
  /\ faults' = faults + 1
  /\ phase' = "idle"
  /\ deferredFor' = [n \in Tx |-> NoTimer]
  /\ UNCHANGED <<service, probe, missing, last, batch, scanBase, durable>>

-----------------------------------------------------------------------------
\* The scan.  No transaction ever gets an id above MaxTx, so all of those look
\* alike: two of them, in turn, stand for the ones a scan may ask for.

NextProbe(id) == IF id = MaxTx + 2 THEN MaxTx + 1 ELSE id + 1

\* Mutated form of Probing: one absent answer too many.
Probing_OneMore == phase = "scan" /\ missing <= MaxMissing

Probing == phase = "scan" /\ missing < MaxMissing

ScanEnds ==
  /\ phase = "scan"
  /\ missing = MaxMissing
  /\ phase' = "write"
  /\ UNCHANGED <<service, probe, missing, last, batch, scanBase, deferredFor,
                 durable, faults>>

\* Anything but a clean 404 propagates; the caller drops the whole batch.
ProbeRaises ==
  /\ Probing
  /\ faults < MaxFaults
  /\ faults' = faults + 1
  /\ phase' = "idle"
  /\ UNCHANGED <<service, probe, missing, last, batch, scanBase, deferredFor,
                 durable>>

\* Mutated form of ProbeAbsent: every absent answer resets the counter first.
ProbeAbsent_Resets ==
  /\ Probing
  /\ Survivors(probe) = {}
  /\ missing' = 1
  /\ probe' = NextProbe(probe)
  /\ UNCHANGED <<service, phase, last, batch, scanBase, deferredFor, durable,
                 faults>>

\* An id with no survivor at or above it.  The counter is reset before the
\* unknownTid test, so such an answer always leaves it at one.
ProbeAbsent ==
  /\ Probing
  /\ Survivors(probe) = {}
  /\ \E answer \in AbsentAnswers :
       missing' = IF answer = "unknownTid" THEN 1 ELSE missing + 1
  /\ probe' = NextProbe(probe)
  /\ UNCHANGED <<service, phase, last, batch, scanBase, deferredFor, durable,
                 faults>>

\* Mutated form of Collect: label the record with the id that was asked for.
Collect_TrustsProbe(n, kind) ==
  /\ missing' = 0
  /\ last' = probe
  /\ batch' = batch \union {[id |-> probe, about |-> n, kind |-> kind]}
  /\ deferredFor' = [deferredFor EXCEPT ![n] = NoTimer]
  /\ probe' = NextProbe(probe)
  /\ UNCHANGED <<service, phase, scanBase, durable, faults>>

Collect(n, kind) ==
  /\ missing' = 0
  /\ last' = n
  /\ batch' = batch \union {[id |-> n, about |-> n, kind |-> kind]}
  /\ deferredFor' = [deferredFor EXCEPT ![n] = NoTimer]
  /\ probe' = NextProbe(n)
  /\ UNCHANGED <<service, phase, scanBase, durable, faults>>

ProbeComplete(n) ==
  /\ Probing
  /\ SummaryOf(probe, n)
  /\ state[n] = "complete"
  /\ Collect(n, "outcome")

\* Mutated form of ProbeDefers: leave it for the next cycle but go on.
ProbeDefers_GoesOn(n) ==
  /\ Probing
  /\ SummaryOf(probe, n)
  /\ state[n] \in InFlight
  /\ deferredFor[n] < StuckTimeout
  /\ deferredFor' = [deferredFor EXCEPT ![n] = IF @ = NoTimer THEN 0 ELSE @]
  /\ missing' = 0
  /\ probe' = NextProbe(n)
  /\ UNCHANGED <<service, phase, last, batch, scanBase, durable, faults>>

\* Mutated form of ProbeDefers: every deferral starts the timer again.
ProbeDefers_RestartsTimer(n) ==
  /\ Probing
  /\ SummaryOf(probe, n)
  /\ state[n] \in InFlight
  /\ deferredFor[n] < StuckTimeout
  /\ deferredFor' = [deferredFor EXCEPT ![n] = 0]
  /\ missing' = 0
  /\ probe' = n
  /\ phase' = "write"
  /\ UNCHANGED <<service, last, batch, scanBase, durable, faults>>

\* Still executing: start its timer, emit nothing and stop the scan here.
ProbeDefers(n) ==
  /\ Probing
  /\ SummaryOf(probe, n)
  /\ state[n] \in InFlight
  /\ deferredFor[n] < StuckTimeout
  /\ deferredFor' = [deferredFor EXCEPT ![n] = IF @ = NoTimer THEN 0 ELSE @]
  /\ missing' = 0
  /\ probe' = n
  /\ phase' = "write"
  /\ UNCHANGED <<service, last, batch, scanBase, durable, faults>>

\* Safety valve: one wedged transaction must not block auditing forever.
ProbeGivesUp(n) ==
  /\ Probing
  /\ SummaryOf(probe, n)
  /\ state[n] \in InFlight
  /\ deferredFor[n] = StuckTimeout
  /\ Collect(n, "stuck")

-----------------------------------------------------------------------------
\* The rest of the world.

Tick ==
  /\ \E n \in Tx : deferredFor[n] \in 0 .. StuckTimeout - 1
  /\ deferredFor' = [n \in Tx |-> IF deferredFor[n] \in 0 .. StuckTimeout - 1
                                  THEN deferredFor[n] + 1 ELSE deferredFor[n]]
  /\ UNCHANGED <<service, scan, durable, faults>>

ServiceStep ==
  /\ \/ Submit
     \/ \E n \in Tx : \/ Run(n)
                      \/ PurgeOldest(n)
                      \/ /\ FastCommit \/ phase # "scan" \/ n <= scanBase
                         /\ Settle(n)
  /\ UNCHANGED <<scan, deferredFor, durable, faults>>

Controller ==
  \/ FirstRun \/ BeginScan \/ ScanEnds \/ ProbeAbsent
  \/ \E n \in Tx : ProbeComplete(n) \/ ProbeDefers(n) \/ ProbeGivesUp(n)
  \/ WriteLines \/ SaveWatermark

Faults == ProbeRaises \/ WriteFails \/ SaveFails \/ Crash

Next == Controller \/ Faults \/ Tick \/ ServiceStep

Spec == Init /\ [][Next]_vars

\* The process runs and time passes; the service owes nothing.
FairSpec == Spec /\ WF_vars(Controller) /\ WF_vars(Tick)

-----------------------------------------------------------------------------
\* Properties.

\* An id is resolved once a log names it or the service has purged it.
Resolved(n) == n \in Ids(log) \/ state[n] = "purged"

\* The scan looks ahead safely when it stops at the first absent id, or when
\* no transaction can be submitted and settle while one scan runs.
LookAheadSafe == MaxMissing = 1 \/ ~FastCommit

\* No transaction after the first run is passed without a record: whatever
\* the watermark has left behind was audited, reported as stuck, or purged
\* by EDA (poll_transactions' returned watermark against the log files).
NoLoss == \A n \in Tx : base < n /\ n <= watermark => Resolved(n)

\* Every record carries the id of the transaction it was built from, and an
\* outcome is only ever recorded for a transaction that has settled: neither
\* the rounded-up summaries nor the in-flight ones yield a false record.
RecordsAreTrue ==
  \A r \in batch \union log :
    /\ r.id = r.about
    /\ state[r.about] # "none"
    /\ r.kind = "outcome" => state[r.about] \in {"complete", "purged"}

\* What the persisted watermark has passed is never written again, and the
\* watermark never goes back, across failures and restarts.
NeverReaudited ==
  [][/\ \A r \in log' \ log : r.id > watermark
     /\ watermark' >= watermark]_vars

\* Every transaction submitted after the first run is eventually resolved,
\* even one that never settles and even those behind it in the queue.
EveryChangeResolved ==
  <>[](\A n \in Tx :
         phase # "firstRun" /\ base < n /\ n <= newest => Resolved(n))

\* A scan comes to an end: absent ids count towards max_missing.
ScanTerminates == phase = "scan" ~> phase # "scan"

\* The scan implements the abstract audit trail.
Trail == INSTANCE AuditTrail WITH
           made     <- 1 .. newest,
           gone     <- {n \in Tx : state[n] = "purged"},
           recorded <- Ids(log),
           mark     <- IF phase = "firstRun" THEN -1 ELSE watermark

ImplementsAuditTrail == Trail!Spec
=============================================================================
