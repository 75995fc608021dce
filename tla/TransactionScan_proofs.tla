----------------------- MODULE TransactionScan_proofs -----------------------
(***************************************************************************)
(* Proofs about TransactionScan for any number of transactions, any        *)
(* max_missing, any stuck timeout and any number of faults.                *)
(***************************************************************************)
EXTENDS TransactionScan, TLAPS

USE MaxTxAssumption, ScanAssumption

-----------------------------------------------------------------------------
\* Type correctness.

LEMMA TypeInit == Init => TypeOK
  BY DEF Init, ServiceInit, TypeOK, ServiceTypeOK, Tx, NoTimer, Records, States,
         Surviving, InFlight

LEMMA TypeService ==
  ASSUME TypeOK, ServiceStep PROVE TypeOK'
<1>1. ServiceTypeOK'
  <2>1. CASE Submit
    BY <2>1 DEF Submit, TypeOK, ServiceTypeOK, Tx, States, Surviving, InFlight
  <2>2. ASSUME NEW n \in Tx, Run(n) \/ PurgeOldest(n) \/ Settle(n)
        PROVE  ServiceTypeOK'
    BY <2>2 DEF Run, PurgeOldest, Settle, TypeOK, ServiceTypeOK, Tx, States,
                Surviving, InFlight
  <2>3. QED
    BY <2>1, <2>2 DEF ServiceStep
<1>2. QED
  BY <1>1 DEF TypeOK, ServiceStep, scan, durable

LEMMA TypeCollect ==
  ASSUME TypeOK, NEW n \in Tx, NEW kind \in {"outcome", "stuck"}, Collect(n, kind)
  PROVE  TypeOK'
  BY DEF TypeOK, ServiceTypeOK, Collect, service, durable, Records, NextProbe,
         Tx, NoTimer

LEMMA TypeNext == TypeOK /\ [Next]_vars => TypeOK'
<1> SUFFICES ASSUME TypeOK, [Next]_vars PROVE TypeOK'
  OBVIOUS
<1> USE DEF TypeOK, service, durable, scan
<1>1. CASE FirstRun
  BY <1>1 DEF FirstRun, ServiceTypeOK
<1>2. CASE BeginScan
  BY <1>2 DEF BeginScan, ServiceTypeOK
<1>3. CASE ScanEnds
  BY <1>3 DEF ScanEnds, ServiceTypeOK
<1>4. CASE ProbeAbsent
  BY <1>4 DEF ProbeAbsent, Probing, NextProbe, ServiceTypeOK
<1>5. ASSUME NEW n \in Tx, ProbeComplete(n) PROVE TypeOK'
  BY <1>5, TypeCollect DEF ProbeComplete
<1>6. ASSUME NEW n \in Tx, ProbeGivesUp(n) PROVE TypeOK'
  BY <1>6, TypeCollect DEF ProbeGivesUp
<1>7. ASSUME NEW n \in Tx, ProbeDefers(n) PROVE TypeOK'
  BY <1>7 DEF ProbeDefers, ServiceTypeOK, Tx, NoTimer
<1>8. CASE WriteLines
  BY <1>8 DEF WriteLines, ServiceTypeOK
<1>9. CASE SaveWatermark
  BY <1>9 DEF SaveWatermark, ServiceTypeOK
<1>10. CASE Faults
  <2>1. CASE ProbeRaises \/ SaveFails
    BY <2>1 DEF ProbeRaises, SaveFails, ServiceTypeOK
  <2>2. CASE WriteFails
    BY <2>2 DEF WriteFails, ServiceTypeOK
  <2>3. CASE Crash
    BY <2>3 DEF Crash, ServiceTypeOK, NoTimer
  <2>4. QED
    BY <1>10, <2>1, <2>2, <2>3 DEF Faults
<1>11. CASE Tick
  BY <1>11 DEF Tick, ServiceTypeOK, NoTimer
<1>12. CASE ServiceStep
  BY <1>12, TypeService
<1>13. CASE UNCHANGED vars
  BY <1>13 DEF vars, ServiceTypeOK
<1>14. QED
  BY <1>1, <1>2, <1>3, <1>4, <1>5, <1>6, <1>7, <1>8, <1>9, <1>10, <1>11, <1>12,
     <1>13 DEF Next, Controller

\* Every variable of the scan keeps its range, for every size of the system.
THEOREM TypeCorrect == Spec => []TypeOK
  BY TypeInit, TypeNext, PTL DEF Spec

-----------------------------------------------------------------------------
\* The invariant every scan keeps, however it looks ahead.

\* The newest id the cycle may claim so far: last_processed, or where it began.
Reached == IF last = 0 THEN watermark ELSE last

InCycle == phase \in {"scan", "write", "save"}

\* Positions are ordered, and nothing of a cycle exists before the first run.
Ordered ==
  /\ base <= watermark /\ watermark <= newest
  /\ last <= newest /\ scanBase <= newest
  /\ InCycle /\ last # 0 => watermark < last
  /\ phase = "scan" => Reached < probe
  /\ phase = "firstRun" => watermark = 0 /\ log = {} /\ batch = {}

\* A cycle's records are newer than where it began ...
BatchIsNew == InCycle => \A r \in batch : r.id > watermark

\* ... and all in the log before the watermark moves over them.
BatchIsWritten == phase = "save" => batch \subseteq log

BaseInv ==
  /\ TypeOK
  /\ Ordered
  /\ BatchIsNew
  /\ BatchIsWritten
  /\ RecordsAreTrue

LEMMA BaseInit == Init => BaseInv
<1> SUFFICES ASSUME Init PROVE BaseInv
  OBVIOUS
<1>1. TypeOK
  BY TypeInit
<1>2. QED
  BY <1>1 DEF Init, ServiceInit, BaseInv, Ordered, InCycle, BatchIsNew,
              BatchIsWritten, RecordsAreTrue, TypeOK, ServiceTypeOK

\* A step of the service resolves nothing and un-resolves nothing.
LEMMA ServiceKeeps ==
  ASSUME TypeOK, ServiceStep
  PROVE  /\ newest <= newest'
         /\ \A n \in Tx : /\ state[n] = "purged" => state'[n] = "purged"
                          /\ state[n] = "complete" => state'[n] \in {"complete", "purged"}
                          /\ state[n] # "none" => state'[n] # "none"
                          /\ FastCommit \/ phase # "scan" \/ n <= scanBase
                             \/ state[n] = "complete" \/ state[n] = "purged"
                             \/ state'[n] \notin {"complete", "purged"}
<1>1. CASE Submit
  BY <1>1 DEF Submit, TypeOK, ServiceTypeOK, Tx, States, Surviving, InFlight
<1>2. ASSUME NEW n \in Tx, Run(n) PROVE newest' = newest /\ state' = [state EXCEPT ![n] = "running"]
                                        /\ state[n] = "queued"
  BY <1>2 DEF Run
<1>3. ASSUME NEW n \in Tx, PurgeOldest(n)
      PROVE  newest' = newest /\ state' = [state EXCEPT ![n] = "purged"]
             /\ state[n] = "complete"
  BY <1>3 DEF PurgeOldest
<1>4. ASSUME NEW n \in Tx, Settle(n), FastCommit \/ phase # "scan" \/ n <= scanBase
      PROVE  newest' = newest /\ state' = [state EXCEPT ![n] = "complete"]
             /\ state[n] = "running"
  BY <1>4 DEF Settle
<1>5. QED
  BY <1>1, <1>2, <1>3, <1>4 DEF ServiceStep, TypeOK, ServiceTypeOK, Tx

LEMMA BaseService == BaseInv /\ ServiceStep => BaseInv'
<1> SUFFICES ASSUME BaseInv, ServiceStep PROVE BaseInv'
  OBVIOUS
<1>1. TypeOK /\ TypeOK'
  BY TypeService DEF BaseInv
<1>2. UNCHANGED <<scan, deferredFor, durable, faults>>
  BY DEF ServiceStep
<1> USE <1>1, <1>2, ServiceKeeps DEF scan, durable, TypeOK, ServiceTypeOK
<1>3. Ordered'
  BY DEF BaseInv, Ordered, InCycle, Reached
<1>4. BatchIsNew' /\ BatchIsWritten'
  BY DEF BaseInv, BatchIsNew, BatchIsWritten, InCycle
<1>5. RecordsAreTrue'
  BY DEF BaseInv, RecordsAreTrue, Records
<1>6. QED
  BY <1>3, <1>4, <1>5 DEF BaseInv

\* What a summary answers lies ahead of everything the cycle has claimed.
LEMMA SummaryIsAhead ==
  ASSUME BaseInv, NEW n \in Tx, Probing, SummaryOf(probe, n)
  PROVE  /\ phase = "scan" /\ missing # MaxMissing
         /\ watermark <= Reached /\ Reached < probe /\ probe <= n /\ n <= newest
         /\ state[n] \in Surviving
  BY DEF BaseInv, Ordered, InCycle, Reached, Probing, SummaryOf, Survivors, TypeOK,
         ServiceTypeOK, Tx, Surviving, InFlight

\* What Collect does, with the ids' range resolved.
LEMMA CollectStep ==
  ASSUME NEW n \in Tx, NEW kind \in {"outcome", "stuck"}, Collect(n, kind)
  PROVE  /\ last' = n /\ missing' = 0 /\ probe' = n + 1
         /\ batch' = batch \union {[id |-> n, about |-> n, kind |-> kind]}
         /\ deferredFor' = [deferredFor EXCEPT ![n] = NoTimer]
         /\ UNCHANGED <<newest, state, phase, scanBase, watermark, log, base, faults>>
  BY DEF Collect, NextProbe, service, durable, Tx

LEMMA BaseCollect ==
  ASSUME BaseInv, NEW n \in Tx, NEW kind \in {"outcome", "stuck"},
         Probing, SummaryOf(probe, n), Collect(n, kind),
         kind = "outcome" => state[n] = "complete"
  PROVE  BaseInv'
<1>1. TypeOK /\ TypeOK'
  BY TypeCollect DEF BaseInv
<1>2. phase = "scan" /\ watermark < n /\ n <= newest /\ n # 0
  BY SummaryIsAhead DEF Reached, Tx, BaseInv, TypeOK
<1>3. /\ last' = n /\ missing' = 0 /\ probe' = n + 1
      /\ batch' = batch \union {[id |-> n, about |-> n, kind |-> kind]}
      /\ UNCHANGED <<newest, state, phase, scanBase, watermark, log, base>>
  BY CollectStep
<1> USE <1>1, <1>2, <1>3 DEF TypeOK, ServiceTypeOK
<1>4. Ordered'
  BY DEF BaseInv, Ordered, InCycle, Reached, Tx
<1>5. BatchIsNew' /\ BatchIsWritten'
  BY DEF BaseInv, BatchIsNew, BatchIsWritten, InCycle
<1>6. RecordsAreTrue'
  BY DEF BaseInv, RecordsAreTrue, Tx
<1>7. QED
  BY <1>4, <1>5, <1>6 DEF BaseInv

\* A failure drops the cycle after a part of its lines, perhaps none or all.
LEMMA FaultStep ==
  ASSUME Faults
  PROVE  /\ phase # "firstRun" /\ phase' = "idle"
         /\ UNCHANGED <<service, probe, missing, last, batch, scanBase, watermark, base>>
         /\ \A n \in Tx : deferredFor'[n] = NoTimer \/ UNCHANGED deferredFor
         /\ log' = log \/ phase = "write"
         /\ \E written \in SUBSET batch : log' = log \union written
<1>1. CASE WriteFails
  BY <1>1 DEF WriteFails
<1>2. CASE ProbeRaises \/ SaveFails \/ Crash
  <2>1. log' = log \union {} /\ {} \in SUBSET batch
    BY <1>2 DEF ProbeRaises, SaveFails, Crash, durable
  <2>2. QED
    BY <1>2, <2>1 DEF ProbeRaises, Probing, SaveFails, Crash, durable
<1>3. QED
  BY <1>1, <1>2 DEF Faults

LEMMA BaseNext == BaseInv /\ [Next]_vars => BaseInv'
<1> SUFFICES ASSUME BaseInv, [Next]_vars PROVE BaseInv'
  OBVIOUS
<1>1. TypeOK /\ TypeOK'
  BY TypeNext DEF BaseInv
<1> USE <1>1 DEF TypeOK, ServiceTypeOK, service, durable, scan
<1>2. CASE FirstRun
  <2>1. watermark' \in 0 .. newest /\ base' = watermark' /\ phase' = "idle"
    BY <1>2 DEF FirstRun, NewestSurvivor, Survivors, Surviving, InFlight, Tx
  <2>2. QED
    BY <1>2, <2>1 DEF FirstRun, BaseInv, Ordered, InCycle, BatchIsNew, BatchIsWritten,
                      RecordsAreTrue
<1>3. CASE BeginScan
  BY <1>3 DEF BeginScan, BaseInv, Ordered, InCycle, Reached, BatchIsNew,
              BatchIsWritten, RecordsAreTrue
<1>4. CASE ScanEnds
  BY <1>4 DEF ScanEnds, BaseInv, Ordered, InCycle, BatchIsNew, BatchIsWritten,
              RecordsAreTrue
<1>5. CASE ProbeAbsent
  BY <1>5 DEF ProbeAbsent, Probing, NextProbe, BaseInv, Ordered, InCycle, Reached,
              BatchIsNew, BatchIsWritten, RecordsAreTrue
<1>6. ASSUME NEW n \in Tx, ProbeComplete(n) \/ ProbeGivesUp(n) PROVE BaseInv'
  BY <1>6, BaseCollect DEF ProbeComplete, ProbeGivesUp
<1>7. ASSUME NEW n \in Tx, ProbeDefers(n) PROVE BaseInv'
  BY <1>7 DEF ProbeDefers, Probing, BaseInv, Ordered, InCycle, BatchIsNew,
              BatchIsWritten, RecordsAreTrue
<1>8. CASE WriteLines
  BY <1>8 DEF WriteLines, BaseInv, Ordered, InCycle, BatchIsNew, BatchIsWritten,
              RecordsAreTrue
<1>9. CASE SaveWatermark
  BY <1>9 DEF SaveWatermark, BaseInv, Ordered, InCycle, BatchIsNew, BatchIsWritten,
              RecordsAreTrue
<1>10. CASE Faults
  BY <1>10, FaultStep DEF BaseInv, Ordered, InCycle, BatchIsNew, BatchIsWritten,
                          RecordsAreTrue
<1>11. CASE Tick
  BY <1>11 DEF Tick, BaseInv, Ordered, InCycle, Reached, BatchIsNew, BatchIsWritten,
               RecordsAreTrue
<1>12. CASE ServiceStep
  BY <1>12, BaseService
<1>13. CASE UNCHANGED vars
  BY <1>13 DEF vars, BaseInv, Ordered, InCycle, Reached, BatchIsNew, BatchIsWritten,
               RecordsAreTrue
<1>14. QED
  BY <1>2, <1>3, <1>4, <1>5, <1>6, <1>7, <1>8, <1>9, <1>10, <1>11, <1>12, <1>13
     DEF Next, Controller

\* No false record: every line carries the id of the transaction it describes,
\* and outcomes are only written for transactions that have settled.
THEOREM RecordsAlwaysTrue == Spec => []RecordsAreTrue
<1>1. BaseInv => RecordsAreTrue
  BY DEF BaseInv
<1>2. QED
  BY BaseInit, BaseNext, <1>1, PTL DEF Spec

LEMMA NeverBackStep ==
  BaseInv /\ [Next]_vars =>
    [/\ \A r \in log' \ log : r.id > watermark
     /\ watermark' >= watermark]_vars
<1> SUFFICES ASSUME BaseInv, Next
             PROVE  (\A r \in log' \ log : r.id > watermark) /\ watermark' >= watermark
  OBVIOUS
<1> USE DEF BaseInv, TypeOK, durable
<1>1. CASE WriteLines
  BY <1>1 DEF WriteLines, BatchIsNew, InCycle
<1>2. CASE Faults
  BY <1>2, FaultStep DEF BatchIsNew, InCycle
<1>3. CASE SaveWatermark
  BY <1>3 DEF SaveWatermark, Ordered, InCycle
<1>4. CASE FirstRun
  BY <1>4 DEF FirstRun, Ordered
<1>5. CASE log' = log /\ watermark' = watermark
  BY <1>5
<1>6. QED
  BY <1>1, <1>2, <1>3, <1>4, <1>5 DEF Next, Controller, BeginScan, ScanEnds,
     ProbeAbsent, ProbeComplete, ProbeDefers, ProbeGivesUp, Collect, Tick, ServiceStep

\* Across failures and restarts nothing behind the watermark is written again
\* and the watermark never goes back.
THEOREM NeverBack == Spec => NeverReaudited
<1>1. BaseInv /\ [Next]_vars =>
        [/\ \A r \in log' \ log : r.id > watermark
         /\ watermark' >= watermark]_vars
  BY NeverBackStep
<1>2. QED
  BY BaseInit, BaseNext, <1>1, PTL DEF Spec, NeverReaudited

-----------------------------------------------------------------------------
\* What a safe look-ahead adds.

\* A timer runs only for an id that an earlier scan has met.
TimersAreOld ==
  \A n \in Tx : deferredFor[n] # NoTimer =>
    n <= newest /\ (phase = "scan" => n <= scanBase)

\* Unless commits are fast, what was submitted during the scan is in flight.
NewAreInFlight ==
  phase = "scan" /\ ~FastCommit =>
    \A n \in Tx : n > scanBase => state[n] \notin {"complete", "purged"}

\* The cycle's records cover what it will move the watermark over ...
BatchCovers ==
  InCycle => \A n \in Tx :
    watermark < n /\ n <= last => n \in Ids(batch) \/ state[n] = "purged"

\* ... and between there and the probe lie only purged ids, ids too new to
\* have settled, or the absent ids that end the scan.
SkippedAreHarmless ==
  phase = "scan" =>
    \A n \in Tx : Reached < n /\ n < probe =>
      \/ state[n] = "purged"
      \/ n > scanBase /\ ~FastCommit
      \/ missing = MaxMissing

LookAheadInv ==
  /\ TimersAreOld
  /\ NewAreInFlight
  /\ BatchCovers
  /\ SkippedAreHarmless
  /\ NoLoss

IInv == BaseInv /\ LookAheadInv

LEMMA InvInit == Init => IInv
<1> SUFFICES ASSUME Init PROVE LookAheadInv
  BY BaseInit DEF IInv
<1>1. TypeOK
  BY TypeInit
<1>2. QED
  BY <1>1 DEF Init, ServiceInit, LookAheadInv, InCycle, TimersAreOld, NewAreInFlight,
              BatchCovers, SkippedAreHarmless, NoLoss, Tx, TypeOK, ServiceTypeOK

LEMMA InvService ==
  ASSUME IInv, ServiceStep PROVE LookAheadInv'
<1>1. TypeOK /\ TypeOK'
  BY TypeService DEF IInv, BaseInv
<1>2. UNCHANGED <<scan, deferredFor, durable, faults>>
  BY DEF ServiceStep
<1> USE <1>1, <1>2, ServiceKeeps DEF scan, durable, TypeOK, ServiceTypeOK
<1>3. TimersAreOld'
  BY DEF IInv, LookAheadInv, TimersAreOld, Tx
<1>4. NewAreInFlight'
  BY DEF IInv, LookAheadInv, NewAreInFlight, Tx
<1>5. BatchCovers'
  BY DEF IInv, LookAheadInv, BatchCovers, InCycle, Ids
<1>6. SkippedAreHarmless'
  BY DEF IInv, LookAheadInv, SkippedAreHarmless, Reached
<1>7. NoLoss'
  BY DEF IInv, LookAheadInv, NoLoss, Resolved, Ids
<1>8. QED
  BY <1>3, <1>4, <1>5, <1>6, <1>7 DEF LookAheadInv

\* A scan that meets an existing id has passed nothing that could be lost:
\* what it skipped on the way is purged.
LEMMA CollectSkipsPurged ==
  ASSUME IInv, NEW n \in Tx, Probing, SummaryOf(probe, n),
         state[n] = "complete" \/ n <= scanBase
  PROVE  \A m \in Tx : Reached < m /\ m < n => state[m] = "purged"
<1>1. /\ phase = "scan" /\ missing # MaxMissing
      /\ probe <= n /\ n <= newest
  BY SummaryIsAhead DEF IInv
<1>2. FastCommit \/ n <= scanBase
  BY <1>1 DEF IInv, BaseInv, TypeOK, LookAheadInv, NewAreInFlight, Tx
<1>3. SUFFICES ASSUME NEW m \in Tx, Reached < m, m < n PROVE state[m] = "purged"
  OBVIOUS
<1>4. CASE m < probe
  BY <1>1, <1>2, <1>3, <1>4 DEF IInv, BaseInv, LookAheadInv, SkippedAreHarmless, Tx,
                                TypeOK
<1>5. CASE m >= probe
  <2>1. state[m] \notin Surviving
    BY <1>3, <1>5 DEF SummaryOf, Survivors, Tx
  <2>2. state[m] \in States /\ state[m] # "none"
    BY <1>1, <1>3 DEF IInv, BaseInv, TypeOK, ServiceTypeOK, Tx
  <2>3. QED
    BY <2>1, <2>2 DEF States
<1>6. QED
  BY <1>4, <1>5 DEF IInv, BaseInv, TypeOK, Tx

LEMMA InvCollect ==
  ASSUME IInv, NEW n \in Tx, NEW kind \in {"outcome", "stuck"},
         Probing, SummaryOf(probe, n), Collect(n, kind),
         state[n] = "complete" \/ n <= scanBase
  PROVE  LookAheadInv'
<1>1. /\ phase = "scan" /\ n \in Nat /\ n # 0
      /\ \A m \in Tx : Reached < m /\ m < n => state[m] = "purged"
  BY CollectSkipsPurged DEF Probing, Tx
<1>2. /\ last' = n /\ probe' = n + 1
      /\ batch' = batch \union {[id |-> n, about |-> n, kind |-> kind]}
      /\ deferredFor' = [deferredFor EXCEPT ![n] = NoTimer]
      /\ UNCHANGED <<newest, state, phase, scanBase, watermark, log, base>>
  BY CollectStep
<1>3. TypeOK
  BY DEF IInv, BaseInv
<1> USE <1>1, <1>2, <1>3 DEF TypeOK, ServiceTypeOK
<1>4. TimersAreOld' /\ NewAreInFlight'
  BY DEF IInv, LookAheadInv, TimersAreOld, NewAreInFlight
<1>5. BatchCovers'
  <2> SUFFICES ASSUME NEW m \in Tx, watermark < m, m <= n
               PROVE  m \in Ids(batch') \/ state[m] = "purged"
    BY DEF BatchCovers
  <2>1. CASE m = n
    <3> DEFINE r == [id |-> n, about |-> n, kind |-> kind]
    <3>1. r \in batch' /\ r.id = n
      OBVIOUS
    <3>2. QED
      BY <3>1, <2>1 DEF Ids
  <2>2. CASE m < n /\ Reached < m
    BY <2>2
  <2>3. CASE m <= Reached
    BY <2>3 DEF IInv, LookAheadInv, BatchCovers, Reached, InCycle, Ids, Tx
  <2>4. QED
    BY <2>1, <2>2, <2>3 DEF Tx, Reached
<1>6. SkippedAreHarmless'
  BY DEF SkippedAreHarmless, Reached, Tx
<1>7. NoLoss'
  BY DEF IInv, LookAheadInv, NoLoss, Resolved
<1>8. QED
  BY <1>4, <1>5, <1>6, <1>7 DEF LookAheadInv

LEMMA InvAbsent ==
  ASSUME LookAheadSafe, IInv, ProbeAbsent PROVE LookAheadInv'
<1>1. TypeOK /\ phase = "scan"
  BY DEF IInv, BaseInv, ProbeAbsent, Probing
<1>2. /\ probe' = NextProbe(probe) /\ missing < MaxMissing
      /\ missing' = 1 \/ missing' = missing + 1
      /\ UNCHANGED <<service, phase, last, batch, scanBase, deferredFor, durable>>
  BY DEF ProbeAbsent, Probing
<1> USE <1>1, <1>2 DEF TypeOK, ServiceTypeOK, service, durable
<1>3. TimersAreOld' /\ NewAreInFlight' /\ BatchCovers'
  BY DEF IInv, LookAheadInv, InCycle, TimersAreOld, NewAreInFlight, BatchCovers
<1>4. SkippedAreHarmless'
  <2> SUFFICES ASSUME NEW n \in Tx, Reached < n, n < probe'
               PROVE  \/ state[n] = "purged"
                      \/ n > scanBase /\ ~FastCommit
                      \/ missing' = MaxMissing
    BY DEF SkippedAreHarmless, Reached
  <2>1. CASE n < probe
    BY <2>1 DEF IInv, LookAheadInv, SkippedAreHarmless
  <2>2. CASE n >= probe
    <3>1. state[n] \notin Surviving
      BY <2>2 DEF ProbeAbsent, Survivors
    <3>2. state[n] = "purged" \/ n > newest
      BY <3>1 DEF States, Tx
    <3>3. CASE ~FastCommit
      BY <3>2, <3>3 DEF IInv, BaseInv, Ordered, Tx
    <3>4. CASE MaxMissing = 1
      BY <3>4
    <3>5. QED
      BY <3>3, <3>4 DEF LookAheadSafe
  <2>3. QED
    BY <2>1, <2>2 DEF Tx
<1>5. NoLoss'
  BY DEF IInv, LookAheadInv, NoLoss, Resolved
<1>6. QED
  BY <1>3, <1>4, <1>5 DEF LookAheadInv

\* Saving moves the watermark over records that are in the log already.
LEMMA SaveCoversBatch ==
  ASSUME IInv, SaveWatermark, NEW n \in Tx, watermark < n, n <= watermark'
  PROVE  n \in Ids(log) \/ state[n] = "purged"
<1>1. phase = "save" /\ last # 0 /\ n <= last
  BY DEF SaveWatermark, IInv, BaseInv, TypeOK, Tx
<1>2. n \in Ids(batch) \/ state[n] = "purged"
  BY <1>1 DEF IInv, LookAheadInv, BatchCovers, InCycle
<1>3. batch \subseteq log
  BY <1>1 DEF IInv, BaseInv, BatchIsWritten
<1>4. QED
  BY <1>2, <1>3 DEF Ids

LEMMA InvNext == LookAheadSafe /\ IInv /\ [Next]_vars => IInv'
<1> SUFFICES ASSUME LookAheadSafe, IInv, [Next]_vars PROVE LookAheadInv'
  BY BaseNext DEF IInv
<1>1. TypeOK
  BY DEF IInv, BaseInv
<1> USE <1>1 DEF TypeOK, ServiceTypeOK, service, durable, scan, IInv, LookAheadInv
<1>2. CASE FirstRun
  BY <1>2 DEF FirstRun, BaseInv, Ordered, InCycle, TimersAreOld, NewAreInFlight,
              BatchCovers, SkippedAreHarmless, NoLoss, Tx
<1>3. CASE BeginScan
  <2>1. TimersAreOld' /\ NewAreInFlight'
    BY <1>3 DEF BeginScan, TimersAreOld, NewAreInFlight, Tx
  <2>2. BatchCovers' /\ SkippedAreHarmless'
    BY <1>3 DEF BeginScan, BatchCovers, SkippedAreHarmless, Reached, Tx
  <2>3. NoLoss'
    BY <1>3 DEF BeginScan, NoLoss, Resolved
  <2>4. QED
    BY <2>1, <2>2, <2>3
<1>4. CASE ScanEnds
  BY <1>4 DEF ScanEnds, InCycle, TimersAreOld, NewAreInFlight, BatchCovers,
              SkippedAreHarmless, NoLoss, Resolved
<1>5. CASE ProbeAbsent
  BY <1>5, InvAbsent
<1>6. ASSUME NEW n \in Tx, ProbeComplete(n) PROVE LookAheadInv'
  BY <1>6, InvCollect DEF ProbeComplete
<1>7. ASSUME NEW n \in Tx, ProbeGivesUp(n) PROVE LookAheadInv'
  <2>1. n <= scanBase
    BY <1>7 DEF ProbeGivesUp, Probing, TimersAreOld, NoTimer
  <2>2. QED
    BY <1>7, <2>1, InvCollect DEF ProbeGivesUp
<1>8. ASSUME NEW n \in Tx, ProbeDefers(n) PROVE LookAheadInv'
  <2>1. n <= newest
    BY <1>8 DEF ProbeDefers, InFlight, Tx
  <2>2. TimersAreOld' /\ NewAreInFlight'
    BY <1>8, <2>1 DEF ProbeDefers, Probing, TimersAreOld, NewAreInFlight
  <2>3. BatchCovers' /\ SkippedAreHarmless' /\ NoLoss'
    BY <1>8 DEF ProbeDefers, Probing, InCycle, BatchCovers, SkippedAreHarmless,
                NoLoss, Resolved
  <2>4. QED
    BY <2>2, <2>3
<1>9. CASE WriteLines
  <2>1. TimersAreOld' /\ NewAreInFlight' /\ BatchCovers' /\ SkippedAreHarmless'
    BY <1>9 DEF WriteLines, InCycle, TimersAreOld, NewAreInFlight, BatchCovers,
                SkippedAreHarmless
  <2>2. NoLoss'
    BY <1>9 DEF WriteLines, NoLoss, Resolved, Ids
  <2>3. QED
    BY <2>1, <2>2
<1>10. CASE SaveWatermark
  <2>1. TimersAreOld' /\ NewAreInFlight' /\ BatchCovers' /\ SkippedAreHarmless'
    BY <1>10 DEF SaveWatermark, InCycle, TimersAreOld, NewAreInFlight, BatchCovers,
                 SkippedAreHarmless
  <2>2. NoLoss'
    <3> SUFFICES ASSUME NEW n \in Tx, base < n, n <= watermark'
                 PROVE  Resolved(n)
      BY <1>10 DEF SaveWatermark, NoLoss, Resolved
    <3>1. CASE n <= watermark
      BY <3>1 DEF NoLoss
    <3>2. CASE watermark < n
      BY <1>10, <3>2, SaveCoversBatch DEF Resolved
    <3>3. QED
      BY <3>1, <3>2 DEF Tx
  <2>3. QED
    BY <2>1, <2>2
<1>11. CASE Faults
  <2>1. TimersAreOld' /\ NewAreInFlight' /\ BatchCovers' /\ SkippedAreHarmless'
    BY <1>11, FaultStep DEF InCycle, TimersAreOld, NewAreInFlight, BatchCovers,
                            SkippedAreHarmless
  <2>2. NoLoss'
    BY <1>11, FaultStep DEF NoLoss, Resolved, Ids
  <2>3. QED
    BY <2>1, <2>2
<1>12. CASE Tick
  <2>1. TimersAreOld' /\ NewAreInFlight'
    BY <1>12 DEF Tick, NoTimer, TimersAreOld, NewAreInFlight
  <2>2. BatchCovers' /\ SkippedAreHarmless' /\ NoLoss'
    BY <1>12 DEF Tick, InCycle, BatchCovers, SkippedAreHarmless, Reached, NoLoss,
                 Resolved
  <2>3. QED
    BY <2>1, <2>2
<1>13. CASE ServiceStep
  BY <1>13, InvService
<1>14. CASE UNCHANGED vars
  BY <1>14 DEF vars, InCycle, TimersAreOld, NewAreInFlight, BatchCovers,
               SkippedAreHarmless, NoLoss, Resolved, Reached
<1>15. QED
  BY <1>2, <1>3, <1>4, <1>5, <1>6, <1>7, <1>8, <1>9, <1>10, <1>11, <1>12, <1>13,
     <1>14 DEF Next, Controller

LEMMA InvAlways == LookAheadSafe => (Spec => []IInv)
<1> SUFFICES ASSUME LookAheadSafe PROVE Spec => []IInv
  OBVIOUS
<1>1. IInv /\ [Next]_vars => IInv'
  BY InvNext
<1>2. QED
  BY InvInit, <1>1, PTL DEF Spec

\* If the scan stops at the first absent id, or no transaction can be submitted
\* and settle within a scan, the watermark never passes an unrecorded one.
THEOREM NothingIsLost == LookAheadSafe => (Spec => []NoLoss)
<1> SUFFICES ASSUME LookAheadSafe PROVE Spec => []NoLoss
  OBVIOUS
<1>1. Spec => []IInv
  BY InvAlways
<1>2. IInv => NoLoss
  BY DEF IInv, LookAheadInv
<1>3. QED
  BY <1>1, <1>2, PTL

-----------------------------------------------------------------------------
\* The refinement of the abstract audit trail.

Gone == {n \in Tx : state[n] = "purged"}
Mark == IF phase = "firstRun" THEN -1 ELSE watermark
TrailStutters == 1 .. newest' = 1 .. newest /\ Gone' = Gone
                 /\ Ids(log') = Ids(log) /\ Mark' = Mark

LEMMA TrailVars == TrailStutters => UNCHANGED Trail!vars
  BY DEF TrailStutters, Trail!vars, Gone, Mark

LEMMA TrailInit == Init => Trail!Init
  BY DEF Init, ServiceInit, Trail!Init, Trail!Tx, Trail!NotStarted, Tx, Ids

LEMMA TrailService ==
  ASSUME BaseInv, ServiceStep PROVE [Trail!Next]_Trail!vars
<1>1. TypeOK /\ watermark <= newest /\ UNCHANGED <<phase, watermark, log>>
  BY DEF BaseInv, Ordered, ServiceStep, scan, durable
<1> USE <1>1 DEF TypeOK, ServiceTypeOK, Gone, Mark
<1>2. CASE Submit
  <2>1. newest + 1 \in Tx /\ state[newest + 1] # "purged" /\ Gone' = Gone
        /\ 1 .. newest' = (1 .. newest) \union {newest + 1}
    BY <1>2 DEF Submit, Tx
  <2>2. Trail!Make(newest + 1)
    BY <2>1 DEF Trail!Make, Trail!Tx, Tx
  <2>3. QED
    BY <2>1, <2>2 DEF Trail!Next, Trail!Tx, Tx
<1>3. ASSUME NEW n \in Tx, Run(n) \/ Settle(n) PROVE [Trail!Next]_Trail!vars
  <2>1. TrailStutters
    BY <1>3 DEF Run, Settle, TrailStutters
  <2>2. QED
    BY <2>1, TrailVars
<1>4. ASSUME NEW n \in Tx, PurgeOldest(n) PROVE [Trail!Next]_Trail!vars
  <2>1. n \in (1 .. newest) \ Gone /\ Gone' = Gone \union {n} /\ newest' = newest
    BY <1>4 DEF PurgeOldest, Tx
  <2>2. Trail!Forget(n)
    BY <2>1 DEF Trail!Forget
  <2>3. QED
    BY <2>2 DEF Trail!Next, Trail!Tx, Tx
<1>5. QED
  BY <1>2, <1>3, <1>4 DEF ServiceStep

LEMMA TrailRecords ==
  ASSUME BaseInv, phase = "write", phase' # "firstRun",
         NEW written \in SUBSET batch, log' = log \union written,
         UNCHANGED <<newest, state, watermark>>
  PROVE  Trail!Next
<1>1. TypeOK /\ \A r \in written : r.id > watermark /\ r.id \in 1 .. newest
  BY DEF BaseInv, BatchIsNew, InCycle, RecordsAreTrue, TypeOK, ServiceTypeOK, Records,
         Tx
<1>2. /\ Ids(log)' = Ids(log) \union Ids(written)
      /\ UNCHANGED <<1 .. newest, Gone, Mark>>
  BY DEF Ids, Gone, Mark
<1>3. \A n \in Ids(written) : n \in 1 .. newest /\ n > Mark
  BY <1>1 DEF Ids, Mark
<1>4. Trail!Record(Ids(written))
  <2>1. Mark # -1
    BY <1>1 DEF Mark, TypeOK
  <2>2. QED
    BY <1>2, <1>3, <2>1 DEF Trail!Record, Trail!NotStarted, Mark, Gone
<1>5. Ids(written) \in SUBSET Tx
  BY <1>1, <1>3 DEF Tx, TypeOK, ServiceTypeOK
<1>6. QED
  BY <1>4, <1>5 DEF Trail!Next, Trail!Tx, Tx

LEMMA TrailSave ==
  ASSUME IInv, SaveWatermark PROVE [Trail!Next]_Trail!vars
<1>1. /\ TypeOK /\ phase = "save" /\ phase' = "idle"
      /\ UNCHANGED <<newest, state, log>>
  BY DEF IInv, BaseInv, SaveWatermark, service
<1> USE <1>1 DEF TypeOK, ServiceTypeOK
<1>2. CASE last = 0
  <2>1. TrailStutters
    BY <1>2 DEF SaveWatermark, TrailStutters, Gone, Mark
  <2>2. QED
    BY <2>1, TrailVars
<1>3. CASE last # 0
  <2>1. watermark' = last /\ watermark < last
    BY <1>3 DEF SaveWatermark, IInv, BaseInv, Ordered, InCycle
  <2>2. ASSUME NEW n \in 1 .. newest, watermark < n, n <= last
        PROVE  n \in Ids(log) \union Gone
    BY <2>1, <2>2, SaveCoversBatch DEF Gone, Tx
  <2>3. Trail!Advance(last)
    BY <2>1, <2>2 DEF Trail!Advance, Trail!NotStarted, Trail!Settled, Mark, Gone
  <2>4. QED
    BY <2>3 DEF Trail!Next
<1>4. QED
  BY <1>2, <1>3

LEMMA TrailNext == IInv /\ [Next]_vars => [Trail!Next]_Trail!vars
<1> SUFFICES ASSUME IInv, [Next]_vars PROVE [Trail!Next]_Trail!vars
  OBVIOUS
<1>1. TypeOK /\ BaseInv
  BY DEF IInv, BaseInv
<1> USE <1>1 DEF TypeOK, service, durable, scan
<1>2. CASE FirstRun
  <2> PICK w \in 0 .. MaxTx : NewestSurvivor(w) /\ watermark' = w
    BY <1>2 DEF FirstRun
  <2>1. w = 0 \/ w \in 1 .. newest
    BY DEF NewestSurvivor, Survivors, Surviving, InFlight, ServiceTypeOK, Tx
  <2>2. Trail!Start(w)
    BY <1>2, <2>1 DEF FirstRun, Trail!Start, Trail!NotStarted
  <2>3. QED
    BY <2>2 DEF Trail!Next
<1>3. CASE WriteLines \/ WriteFails
  BY <1>1, <1>3, TrailRecords DEF WriteLines, WriteFails
<1>4. CASE SaveWatermark
  BY <1>4, TrailSave
<1>5. CASE ServiceStep
  BY <1>1, <1>5, TrailService
<1>6. CASE TrailStutters
  BY <1>6, TrailVars
<1>7. QED
  BY <1>2, <1>3, <1>4, <1>5, <1>6 DEF Next, Controller, Faults, TrailStutters, Gone,
     Mark, BeginScan, ScanEnds, ProbeAbsent, Probing, ProbeComplete, ProbeDefers,
     ProbeGivesUp, Collect, ProbeRaises, SaveFails, Crash, Tick, vars

\* The scan, with the failures and restarts around it, implements the abstract
\* audit trail: every step records above the mark, or moves the mark over
\* changes that are recorded or purged, or changes nothing of the trail.
THEOREM Implements == LookAheadSafe => (Spec => ImplementsAuditTrail)
<1> SUFFICES ASSUME LookAheadSafe PROVE Spec => ImplementsAuditTrail
  OBVIOUS
<1>1. Spec => []IInv
  BY InvAlways
<1>2. QED
  BY <1>1, TrailInit, TrailNext, PTL DEF Spec, ImplementsAuditTrail, Trail!Spec
=============================================================================
