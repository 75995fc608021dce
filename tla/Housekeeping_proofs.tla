------------------------- MODULE Housekeeping_proofs -------------------------
(***************************************************************************)
(* Proofs about Housekeeping for any number of days, any sizes and any     *)
(* threshold: what a removal by the cleanup thread is justified by, next   *)
(* to a poll loop that appends to the same files and changes the retention *)
(* between two steps of a run.                                             *)
(***************************************************************************)
EXTENDS Housekeeping, FiniteSetTheorems, TLAPS

USE HousekeepingAssumption

-----------------------------------------------------------------------------
\* The invariant: a setting of the poll loop, and of a cleanup that still has
\* files to look at, is one the CR has had; a cleanup's day is not in the
\* future; a usage read as too high is too high.

Configured ==
  /\ retention > 0 => retention \in recent
  /\ clean = "time" /\ todo # {} => months > 0 /\ months \in allowed

Dated == startDay <= today

Full == clean = "space" /\ over => Used > High

Inv == TypeOK /\ Configured /\ Dated /\ Full

-----------------------------------------------------------------------------
\* How much of the volume is used.

Cells == {c \in Days \X (1 .. MaxSize) : c[2] <= size[c[1]]}

LEMMA Volume == IsFiniteSet(Days \X (1 .. MaxSize))
<1>1. MaxDay \in Int /\ MaxSize \in Int /\ 1 \in Int
  OBVIOUS
<1>2. IsFiniteSet(1 .. MaxDay) /\ IsFiniteSet(1 .. MaxSize)
  BY <1>1, FS_Interval
<1>3. QED
  BY <1>2, FS_Product DEF Days

LEMMA UsedTyped == Used = Cardinality(Cells) /\ IsFiniteSet(Cells) /\ Used \in Nat
<1>1. Cells \in SUBSET (Days \X (1 .. MaxSize))
  BY DEF Cells
<1>2. IsFiniteSet(Cells)
  BY <1>1, Volume, FS_Subset
<1>3. Used = Cardinality(Cells)
  BY DEF Used, Cells
<1>4. QED
  BY <1>2, <1>3, FS_CardinalityType

LEMMA UsedNext == Used' = Cardinality(Cells') /\ IsFiniteSet(Cells') /\ Used' \in Nat
<1>1. Cells' \in SUBSET (Days \X (1 .. MaxSize))
  BY DEF Cells
<1>2. IsFiniteSet(Cells')
  BY <1>1, Volume, FS_Subset
<1>3. Used' = Cardinality(Cells')
  BY DEF Used, Cells
<1>4. QED
  BY <1>2, <1>3, FS_CardinalityType

\* Appending does not free anything.
LEMMA AppendingFills ==
  ASSUME TypeOK, \A d \in Days : size'[d] \in Nat /\ size[d] <= size'[d]
  PROVE  Used <= Used'
<1>1. Cells \in SUBSET Cells'
  BY DEF TypeOK, Cells
<1>2. QED
  BY <1>1, UsedTyped, UsedNext, FS_Subset

\* Removing a file frees its size.
LEMMA RemovalFrees ==
  ASSUME TypeOK, NEW d \in Days, size' = [size EXCEPT ![d] = 0]
  PROVE  Used' = Used - size[d]
<1> DEFINE File == {d} \X (1 .. size[d])
<1>1. size[d] \in Nat /\ size[d] <= MaxSize
  BY DEF TypeOK
<1>2. \A e \in Days : size'[e] = IF e = d THEN 0 ELSE size[e]
  BY DEF TypeOK
<1>3. File \subseteq Cells
  BY <1>1 DEF Cells
<1>4. Cells' = Cells \ File
  <2>1. \A e \in Days, k \in 1 .. MaxSize : <<e, k>> \in Cells' <=> e # d /\ k <= size[e]
    BY <1>2 DEF Cells
  <2>2. \A e \in Days, k \in 1 .. MaxSize : <<e, k>> \in Cells <=> k <= size[e]
    BY DEF Cells
  <2>3. \A e \in Days, k \in 1 .. MaxSize : <<e, k>> \in File <=> e = d /\ k <= size[e]
    BY <1>1
  <2>4. Cells \subseteq Days \X (1 .. MaxSize) /\ Cells' \subseteq Days \X (1 .. MaxSize)
    BY DEF Cells
  <2>5. \A c \in Days \X (1 .. MaxSize) : c \in Cells' <=> c \in Cells /\ c \notin File
    BY <2>1, <2>2, <2>3
  <2>6. QED
    BY <2>4, <2>5
<1>5. IsFiniteSet(File) /\ Cardinality(File) = size[d]
  <2>1. IsFiniteSet(1 .. size[d]) /\ Cardinality(1 .. size[d]) = size[d]
    <3>1. 1 \in Int /\ size[d] \in Int /\ (IF 1 > size[d] THEN 0 ELSE size[d] - 1 + 1) = size[d]
      BY <1>1
    <3>2. \A a, b \in Int : IsFiniteSet(a .. b) /\ Cardinality(a .. b) = IF a > b THEN 0 ELSE b - a + 1
      BY FS_Interval
    <3>3. QED
      BY <3>1, <3>2
  <2>2. IsFiniteSet({d}) /\ Cardinality({d}) = 1
    BY FS_Singleton
  <2>3. IsFiniteSet(File) /\ Cardinality(File) = Cardinality({d}) * Cardinality(1 .. size[d])
    BY <2>1, <2>2, FS_Product
  <2>4. QED
    BY <1>1, <2>1, <2>2, <2>3
<1>6. Cells \intersect File = File
  BY <1>3
<1>7. Cardinality(Cells \ File) = Cardinality(Cells) - Cardinality(Cells \intersect File)
  <2> HIDE DEF File
  <2>1. QED
    BY UsedTyped, FS_Difference
<1>8. QED
  BY <1>4, <1>5, <1>6, <1>7, UsedTyped, UsedNext

-----------------------------------------------------------------------------
\* Months.

LEMMA MonthTyped == \A d \in Nat : Month(d) \in Nat
  BY DEF Month

LEMMA MonthGrows == \A d, e \in Nat : d <= e => Month(d) <= Month(e)
  BY DEF Month

-----------------------------------------------------------------------------
\* Type correctness.

LEMMA OverallTyped == Overall \in Health
  BY DEF Overall, FeedHealth, Health

LEMMA OlderTyped ==
  TypeOK => /\ Older \in {Never} \union 0 .. StaleError + 1
            /\ StaleNow \in {Never} \union 0 .. StaleError + 1
  BY DEF TypeOK, Older, StaleNow, Never

LEMMA HealthzTyped ==
  ASSUME TypeOK, NEW h \in Health, WriteHealthz(h)
  PROVE  healthz' \in Health
  BY DEF TypeOK, WriteHealthz

CleanTyped ==
  /\ clean \in {"sleep", "time", "space"} /\ startDay \in Days /\ months \in 0 .. MaxRetention
  /\ allowed \in SUBSET (0 .. MaxRetention) /\ todo \in SUBSET Days /\ over \in BOOLEAN

LEMMA OverTyped == CleanupOver => CleanTyped'
<1>1. 1 \in Days /\ 0 \in 0 .. MaxRetention
  BY DEF Days
<1>2. QED
  BY <1>1 DEF CleanupOver, CleanTyped

LEMMA TypeNext == TypeOK /\ [Next]_vars => TypeOK'
<1> SUFFICES ASSUME TypeOK, [Next]_vars PROVE TypeOK'
  OBVIOUS
<1>0. /\ 1 \in Days /\ 0 \in 0 .. MaxRetention /\ MaxSize \in Nat
      /\ \A d \in Days : Candidates(d) \subseteq Days
  BY DEF Days, Candidates
<1>1. CASE ReadConfig
  <2>1. healthz' \in Health
    BY <1>1, HealthzTyped DEF ReadConfig, Health, TypeOK
  <2>2. staleFor' \in {Never} \union 0 .. StaleError + 1
    BY <1>1, OlderTyped DEF ReadConfig, TypeOK
  <2>3. QED
    BY <1>1, <2>1, <2>2 DEF ReadConfig, env, cleanVars, Default, TypeOK
<1>2. CASE NothingToWrite
  BY <1>2 DEF NothingToWrite, Unreachable, env, cleanVars, TypeOK
<1>3. ASSUME NEW d \in Days, WriteLine(d) PROVE TypeOK'
  <2>1. size[d] + 1 \in 0 .. MaxSize
    BY <1>0, <1>3 DEF WriteLine, TypeOK
  <2>2. size' \in [Days -> 0 .. MaxSize] /\ unwritten' \in BOOLEAN
    BY <1>3, <2>1 DEF WriteLine, TypeOK
  <2>3. QED
    BY <1>3, <2>2 DEF WriteLine, Unreachable, env, cleanVars, TypeOK
<1>4. CASE Report
  <2>1. healthz' \in Health
    BY <1>4, OverallTyped, HealthzTyped DEF Report
  <2>2. crd' \in Health
    BY <1>4, OverallTyped DEF Report, TypeOK
  <2>3. staleFor' \in {Never} \union 0 .. StaleError + 1
    BY <1>4, OlderTyped DEF Report
  <2>4. QED
    BY <1>4, <2>1, <2>2, <2>3 DEF Report, env, cleanVars, TypeOK
<1>5. CASE StartCleanup
  BY <1>0, <1>5 DEF StartCleanup, env, pollVars, TypeOK
<1>6. ASSUME NEW d \in Days, Retire(d) PROVE TypeOK'
  BY <1>6 DEF Retire, Remove, env, pollVars, TypeOK
<1>7. ASSUME NEW d \in Days, RetireFails(d) PROVE TypeOK'
  BY <1>7 DEF RetireFails, Fault, env, pollVars, TypeOK
<1>8. CASE ReadUsage
  BY <1>0, <1>8 DEF ReadUsage, env, pollVars, TypeOK
<1>9. ASSUME NEW d \in Days, FreeSpace(d) PROVE TypeOK'
  BY <1>9 DEF FreeSpace, Remove, env, pollVars, TypeOK
<1>10. CASE FreeSpaceFails
  <2>1. CleanTyped'
    BY <1>10, OverTyped DEF FreeSpaceFails
  <2>2. QED
    BY <1>10, <2>1 DEF FreeSpaceFails, Fault, env, pollVars, TypeOK, CleanTyped
<1>11. CASE EndCleanup
  <2>1. CleanTyped'
    BY <1>11, OverTyped DEF EndCleanup
  <2>2. QED
    BY <1>11, <2>1 DEF EndCleanup, env, pollVars, TypeOK, CleanTyped
<1>12. CASE Midnight
  <2>1. today' \in Days
    BY <1>12 DEF Midnight, Days, TypeOK
  <2>2. QED
    BY <1>12, <2>1 DEF Midnight, env, pollVars, cleanVars, TypeOK
<1>13. CASE Reconfigure
  <2>1. configured' \in 0 .. MaxRetention /\ faults' \in 0 .. MaxFaults
    BY <1>13 DEF Reconfigure, Fault, TypeOK
  <2>2. recent' \in SUBSET (0 .. MaxRetention)
    BY <1>13, <2>1 DEF Reconfigure, TypeOK
  <2>3. QED
    BY <1>13, <2>1, <2>2 DEF Reconfigure, pollVars, cleanVars, TypeOK
<1>14. CASE Outage
  BY <1>14 DEF Outage, Fault, pollVars, cleanVars, TypeOK
<1>15. CASE Restart
  <2>1. healthz' \in Health
    BY <1>15, HealthzTyped DEF Restart, Health
  <2>2. retention' \in 0 .. MaxRetention /\ staleFor' \in {Never} \union 0 .. StaleError + 1
    BY <1>15 DEF Restart, Default, TypeOK
  <2>3. CleanTyped'
    BY <1>15, OverTyped DEF Restart
  <2>4. /\ poll' \in {"config", "feeds", "report"} /\ polled' \in SUBSET {"eda", "kc"}
        /\ unwritten' \in BOOLEAN /\ flag' \in BOOLEAN
    BY <1>15 DEF Restart
  <2>5. /\ UNCHANGED <<today, size, configured, down, crd>>
        /\ recent' \in SUBSET (0 .. MaxRetention)
    BY <1>15 DEF Restart, env, TypeOK
  <2>6. faults' \in 0 .. MaxFaults
    BY <1>15 DEF Restart, Fault, TypeOK
  <2>7. QED
    BY <2>1, <2>2, <2>3, <2>4, <2>5, <2>6 DEF TypeOK, CleanTyped
<1>16. CASE UNCHANGED vars
  BY <1>16 DEF vars, env, pollVars, cleanVars, TypeOK
<1>17. QED
  BY <1>1, <1>2, <1>3, <1>4, <1>5, <1>6, <1>7, <1>8, <1>9, <1>10, <1>11, <1>12,
     <1>13, <1>14, <1>15, <1>16 DEF Next, PollStep, CleanupStep

LEMMA TypeInit == Init => TypeOK
<1>1. /\ 1 \in Days /\ 0 \in 0 .. MaxSize /\ 0 \in 0 .. MaxRetention /\ 0 \in 0 .. MaxFaults
      /\ "starting" \in Health
  BY DEF Days, Health
<1>2. SUFFICES ASSUME Init PROVE TypeOK
  OBVIOUS
<1>3. size \in [Days -> 0 .. MaxSize] /\ recent \in SUBSET (0 .. MaxRetention)
  BY <1>1, <1>2 DEF Init
<1>4. /\ down \in SUBSET {"eda", "kc", "k8s"} /\ polled \in SUBSET {"eda", "kc"}
      /\ unwritten \in BOOLEAN /\ over \in BOOLEAN /\ flag \in BOOLEAN
  BY <1>2 DEF Init
<1>5. QED
  BY <1>1, <1>2, <1>3, <1>4 DEF Init, TypeOK

\* Type correctness.
THEOREM TypeCorrect == Spec => []TypeOK
  BY TypeInit, TypeNext, PTL DEF Spec

-----------------------------------------------------------------------------
\* The invariant is kept.

LEMMA ConfiguredNext == Inv /\ [Next]_vars => Configured'
<1> SUFFICES ASSUME Inv, [Next]_vars PROVE Configured'
  OBVIOUS
<1>0. retention \in Nat
  BY DEF Inv, TypeOK
<1>1. CASE ReadConfig
  BY <1>1 DEF ReadConfig, cleanVars, Default, Inv, Configured
<1>2. CASE StartCleanup
  BY <1>0, <1>2 DEF StartCleanup, pollVars, Inv, Configured
<1>3. ASSUME NEW d \in Days, Retire(d) \/ RetireFails(d) PROVE Configured'
  <2>1. clean = "time" /\ todo # {} /\ UNCHANGED <<retention, recent, months, allowed>>
    BY <1>3 DEF Retire, RetireFails, Oldest, pollVars
  <2>2. QED
    BY <2>1 DEF Inv, Configured
<1>4. CASE ReadUsage
  BY <1>4 DEF ReadUsage, pollVars, Inv, Configured
<1>5. ASSUME NEW d \in Days, FreeSpace(d) PROVE Configured'
  BY <1>5 DEF FreeSpace, pollVars, Inv, Configured
<1>6. CASE FreeSpaceFails \/ EndCleanup
  BY <1>6 DEF FreeSpaceFails, EndCleanup, CleanupOver, pollVars, Inv, Configured
<1>7. CASE Reconfigure
  BY <1>7 DEF Reconfigure, pollVars, cleanVars, Inv, Configured
<1>8. CASE Restart
  BY <1>8 DEF Restart, CleanupOver, Default, Configured
<1>9. CASE UNCHANGED <<retention, recent, cleanVars>>
  BY <1>9 DEF cleanVars, Inv, Configured
<1>10. CASE NothingToWrite \/ Report \/ Midnight \/ Outage \/ UNCHANGED vars
  BY <1>9, <1>10 DEF NothingToWrite, Report, Midnight, Outage, pollVars, vars
<1>11. ASSUME NEW d \in Days, WriteLine(d) PROVE Configured'
  BY <1>9, <1>11 DEF WriteLine
<1>12. QED
  BY <1>1, <1>2, <1>3, <1>4, <1>5, <1>6, <1>7, <1>8, <1>10, <1>11 DEF Next, PollStep, CleanupStep

LEMMA DatedNext == Inv /\ [Next]_vars => Dated'
<1> SUFFICES ASSUME Inv, [Next]_vars PROVE Dated'
  OBVIOUS
<1>0. today \in Nat /\ today >= 1 /\ startDay \in Nat
  BY DEF Inv, TypeOK, Days
<1>1. CASE UNCHANGED <<today, startDay>>
  BY <1>1 DEF Inv, Dated
<1>2. CASE StartCleanup \/ FreeSpaceFails \/ EndCleanup \/ Midnight \/ Restart
  BY <1>0, <1>2 DEF StartCleanup, FreeSpaceFails, EndCleanup, Midnight, Restart, CleanupOver,
     cleanVars, Inv, Dated
<1>3. CASE ReadConfig \/ NothingToWrite \/ Report \/ ReadUsage \/ Reconfigure \/ Outage \/ UNCHANGED vars
  BY <1>1, <1>3 DEF ReadConfig, NothingToWrite, Report, ReadUsage, Reconfigure, Outage, cleanVars, vars
<1>4. ASSUME NEW d \in Days, WriteLine(d) \/ Retire(d) \/ RetireFails(d) \/ FreeSpace(d) PROVE Dated'
  BY <1>1, <1>4 DEF WriteLine, Retire, RetireFails, FreeSpace, cleanVars
<1>5. QED
  BY <1>2, <1>3, <1>4 DEF Next, PollStep, CleanupStep

LEMMA FullNext == Inv /\ [Next]_vars => Full'
<1> SUFFICES ASSUME Inv, [Next]_vars PROVE Full'
  OBVIOUS
<1>0. High \in Nat /\ Used \in Nat /\ Used' \in Nat
  BY UsedTyped, UsedNext
<1>1. CASE UNCHANGED size
  <2>1. Used' = Used
    BY <1>1 DEF Used
  <2>2. QED
    BY <1>1, <2>1 DEF Next, PollStep, CleanupStep, ReadConfig, NothingToWrite, WriteLine, Report,
       StartCleanup, Retire, RetireFails, ReadUsage, FreeSpace, FreeSpaceFails, EndCleanup,
       CleanupOver, Midnight, Reconfigure, Outage, Restart, cleanVars, vars, Inv, Full
<1>2. ASSUME NEW d \in Days, WriteLine(d) PROVE Full'
  <2>1. \A e \in Days : size'[e] \in Nat /\ size[e] <= size'[e]
    BY <1>2 DEF WriteLine, Inv, TypeOK
  <2>2. Used <= Used'
    BY <2>1, AppendingFills DEF Inv
  <2>3. QED
    BY <1>0, <1>2, <2>2 DEF WriteLine, cleanVars, Inv, Full
<1>3. ASSUME NEW d \in Days, FreeSpace(d) PROVE Full'
  <2>1. Used' = Used - size[d]
    BY <1>3, RemovalFrees DEF FreeSpace, Remove, Inv
  <2>2. QED
    BY <1>3, <2>1 DEF FreeSpace, Full
<1>4. ASSUME NEW d \in Days, Retire(d) \/ RetireFails(d) PROVE Full'
  BY <1>4 DEF Retire, RetireFails, Full
<1>5. QED
  BY <1>1, <1>2, <1>3, <1>4 DEF Next, PollStep, CleanupStep, ReadConfig, NothingToWrite, Report,
     StartCleanup, ReadUsage, FreeSpaceFails, EndCleanup, Midnight, Reconfigure, Outage, Restart, vars

\* The inductive invariant.
THEOREM Invariant == Spec => []Inv
<1>1. Init => Inv
  <2>1. Init => Configured /\ Dated /\ Full
    BY DEF Init, Configured, Dated, Full
  <2>2. QED
    BY <2>1, TypeInit DEF Inv
<1>2. Inv /\ [Next]_vars => Inv'
  BY TypeNext, ConfiguredNext, DatedNext, FullNext DEF Inv
<1>3. QED
  BY <1>1, <1>2, PTL DEF Spec

-----------------------------------------------------------------------------
\* Removals.

Justified(d) ==
  \/ /\ clean = "space" /\ Used > High
     /\ \A e \in todo : e < d => size[e] = 0
  \/ /\ clean = "time"
     /\ \E r \in allowed : r > 0 /\ Age(d, today) > r

LEMMA OldestFirst ==
  ASSUME TypeOK, NEW d \in Oldest(todo)
  PROVE  d \in Days /\ \A e \in todo : ~(e < d)
  BY DEF Oldest, TypeOK, Days

LEMMA RemovalStep == Inv /\ [Next]_vars => \A d \in Days : Removed(d) => Justified(d)
<1> SUFFICES ASSUME Inv, [Next]_vars, NEW d \in Days, Removed(d) PROVE Justified(d)
  OBVIOUS
<1>0. size[d] > 0 /\ size'[d] = 0 /\ size \in [Days -> 0 .. MaxSize]
  BY DEF Removed, Inv, TypeOK
<1>1. ASSUME NEW x \in Days, WriteLine(x) PROVE FALSE
  BY <1>0, <1>1 DEF WriteLine
<1>2. ASSUME NEW x \in Days, Retire(x) PROVE Justified(d)
  <2>1. x = d /\ clean = "time" /\ d \in todo /\ Expired(d)
    BY <1>0, <1>2 DEF Retire, Remove, Oldest
  <2>2. months > 0 /\ months \in allowed /\ Age(d, startDay) > months
    BY <2>1 DEF Expired, Inv, Configured
  <2>3. /\ d \in Nat /\ startDay \in Nat /\ today \in Nat /\ startDay <= today /\ months \in Nat
    BY DEF Inv, TypeOK, Days, Dated
  <2>4. Month(d) \in Nat /\ Month(startDay) \in Nat /\ Month(today) \in Nat /\ Month(startDay) <= Month(today)
    BY <2>3, MonthTyped, MonthGrows
  <2>5. Age(d, today) > months
    BY <2>2, <2>3, <2>4 DEF Age
  <2>6. QED
    BY <2>1, <2>2, <2>5 DEF Justified
<1>3. ASSUME NEW x \in Days, FreeSpace(x) PROVE Justified(d)
  <2>1. x = d /\ clean = "space" /\ over /\ d \in Oldest(todo)
    BY <1>0, <1>3 DEF FreeSpace, Remove
  <2>2. Used > High
    BY <2>1 DEF Inv, Full
  <2>3. QED
    BY <2>1, <2>2, OldestFirst DEF Inv, Justified
<1>4. CASE UNCHANGED size
  BY <1>0, <1>4
<1>5. QED
  BY <1>1, <1>2, <1>3, <1>4 DEF Next, PollStep, CleanupStep, ReadConfig, NothingToWrite, Report,
     StartCleanup, RetireFails, ReadUsage, FreeSpaceFails, EndCleanup, Midnight, Reconfigure, Outage,
     Restart, vars

\* Whatever the poll loop appends and however the configuration changes during
\* a cleanup, a file is removed only for an age the CR has asked for, or while
\* the volume is too full at this moment, and then the oldest one listed.
THEOREM RemovalsJustified == Spec => RemovalsAreJustified
<1>1. Inv /\ [Next]_vars => [\A d \in Days : Removed(d) => Justified(d)]_vars
  BY RemovalStep
<1>2. QED
  BY <1>1, Invariant, PTL DEF Spec, RemovalsAreJustified, Justified
=============================================================================
