--------------------------- MODULE PollLoop_proofs ---------------------------
(***************************************************************************)
(* Proofs about PollLoop for any number of items, days and failures, and   *)
(* whether or not the ConfigMap is deleted.                                *)
(***************************************************************************)
EXTENDS PollLoop, TLAPS

USE PollLoopAssumption

-----------------------------------------------------------------------------
\* The records the two threads pass around.

LEMMA StateParts ==
  \A s \in State : s.there \in BOOLEAN /\ s.mark \in Marks /\ s.cleaned \in 0 .. MaxDay
  BY DEF State

LEMMA StateMade ==
  /\ \A b \in BOOLEAN, m \in Marks, c \in 0 .. MaxDay : [there |-> b, mark |-> m, cleaned |-> c] \in State
  /\ \A s \in State : [s EXCEPT !.there = TRUE] \in State
  /\ \A s \in State, m \in Marks : [s EXCEPT !.mark = m] \in State
  /\ \A s \in State, c \in 0 .. MaxDay : [s EXCEPT !.cleaned = c] \in State
  BY DEF State

LEMMA BoundTyped == \A f \in Feeds : Bound(f) \in Nat
  BY DEF Bound

LEMMA MarkParts == \A m \in Marks, f \in Feeds : m[f] \in Nat /\ m[f] <= Bound(f)
  BY DEF Marks

LEMMA ZeroMarks == [f \in Feeds |-> 0] \in Marks
  BY BoundTyped DEF Marks

LEMMA NoStateTyped == NoState \in State
<1>1. 0 \in 0 .. MaxDay
  OBVIOUS
<1>2. QED
  BY <1>1, ZeroMarks, StateMade DEF NoState

LEMMA MarkSet ==
  \A m \in Marks, f \in Feeds, n \in Nat : n <= Bound(f) => [m EXCEPT ![f] = n] \in Marks
  BY DEF Marks

LEMMA LineParts == \A l \in Lines : l[1] \in Feeds /\ l[2] \in Nat \ {0} /\ l[2] <= Bound(l[1])
  BY DEF Lines, Feeds, Bound

-----------------------------------------------------------------------------
\* Type correctness.  No watermark is ahead of its feed, and what was made
\* was made on a day that has come.

Upto(m) == \A f \in Feeds : m[f] <= made[f]

Behind ==
  /\ Upto(cm.mark) /\ Upto(got) /\ \A t \in Threads : Upto(mem[t].mark)
  /\ cm.cleaned <= today /\ \A t \in Threads : mem[t].cleaned <= today
  /\ \A l \in Lines : l[2] <= made[l[1]] => dayOf[l] \in 1 .. today

Typed == TypeOK /\ Behind

LEMMA UptoZero == TypeOK => Upto([f \in Feeds |-> 0])
  BY MarkParts DEF Upto, TypeOK

LEMMA TypedInit == Init => Typed
<1> SUFFICES ASSUME Init PROVE Typed
  OBVIOUS
<1>1. made \in Marks /\ \A f \in Feeds : made[f] \in 0 .. 1
  BY DEF Init
<1>2. today = 1 /\ cm = NoState /\ mem = [t \in Threads |-> NoState] /\ got = [f \in Feeds |-> 0]
  BY DEF Init
<1>3. TypeOK
  <2>1. dayOf \in [Lines -> 0 .. MaxDay]
    BY DEF Init
  <2>2. copies \in [Lines -> 0 .. MaxFaults + 2]
    BY DEF Init
  <2>3. /\ pc \in [Threads -> PollLabels \union CleanupLabels]
        /\ pc["poll"] \in PollLabels /\ pc["cleanup"] \in CleanupLabels
    BY DEF Init, Threads, PollLabels, CleanupLabels
  <2>4. lock \in Threads \union {"free"} /\ current \in [Threads -> BOOLEAN] /\ days \in SUBSET (1 .. MaxDay)
        /\ writeOK \in BOOLEAN /\ due \in BOOLEAN /\ started \in BOOLEAN
    BY DEF Init
  <2>5. base \in Marks /\ faults \in 0 .. MaxFaults
    BY ZeroMarks DEF Init
  <2>6. QED
    BY <1>1, <1>2, <2>1, <2>2, <2>3, <2>4, <2>5, NoStateTyped, ZeroMarks DEF
       TypeOK
<1>4. Behind
  <2>1. Upto(got) /\ NoState.mark = got /\ NoState.cleaned = 0
    BY <1>2, <1>3, UptoZero DEF NoState
  <2>2. \A l \in Lines : l[2] <= made[l[1]] => dayOf[l] \in 1 .. today
    BY <1>2, LineParts DEF Init
  <2>3. QED
    BY <1>2, <2>1, <2>2 DEF Behind
<1>5. QED
  BY <1>3, <1>4 DEF Typed

-----------------------------------------------------------------------------
\* What the steps share: a state that is well typed and not ahead.

Good(s) == s \in State /\ Upto(s.mark) /\ s.cleaned <= today

LEMMA GoodNow == Typed => Good(cm) /\ Good(NoState) /\ \A t \in Threads : Good(mem[t])
<1> SUFFICES ASSUME Typed PROVE Good(cm) /\ Good(NoState) /\ \A t \in Threads : Good(mem[t])
  OBVIOUS
<1>1. Good(cm) /\ \A t \in Threads : Good(mem[t])
  BY DEF Typed, TypeOK, Behind, Good
<1>2. Upto(NoState.mark) /\ NoState.cleaned <= today
  BY UptoZero DEF NoState, Typed, TypeOK
<1>3. QED
  BY <1>1, <1>2, NoStateTyped DEF Good

LEMMA GoodThere == \A s : Good(s) => Good([s EXCEPT !.there = TRUE])
  BY DEF Good, State

LEMMA GoodMark == \A s, m : Good(s) /\ m \in Marks /\ Upto(m) => Good([s EXCEPT !.mark = m])
  BY DEF Good, State

LEMMA GoodCleaned == \A s, c : Good(s) /\ c \in 0 .. MaxDay /\ c <= today => Good([s EXCEPT !.cleaned = c])
  BY DEF Good, State

MemTyped == mem' \in [Threads -> State] /\ \A t \in Threads : Good(mem'[t])

LEMMA MemSet ==
  ASSUME Typed, NEW t \in Threads, NEW s, Good(s), mem' = [mem EXCEPT ![t] = s]
  PROVE  MemTyped
  BY GoodNow DEF Typed, TypeOK, MemTyped, Good

LEMMA MemForgotten == ASSUME Typed, NEW t \in Threads, Forget(t) PROVE MemTyped
  BY GoodNow, MemSet DEF Forget

LEMMA MemKept == Typed /\ UNCHANGED mem => MemTyped
  BY GoodNow DEF Typed, TypeOK, MemTyped

LEMMA StoreTyped ==
  ASSUME Typed, NEW t \in Threads,
         \/ PutApplied(t) \/ Leave(t)
         \/ Store(t, [mem[t] EXCEPT !.there = TRUE])
  PROVE  Good(cm') /\ current' \in [Threads -> BOOLEAN]
<1>1. CASE Leave(t)
  BY <1>1, GoodNow DEF Leave, Typed, TypeOK
<1>2. CASE Store(t, [mem[t] EXCEPT !.there = TRUE])
  <2>1. Good(cm')
    BY <1>2, GoodNow, GoodThere DEF Store
  <2>2. current \in [Threads -> BOOLEAN]
    BY DEF Typed, TypeOK
  <2>3. current' \in [Threads -> BOOLEAN]
    BY <1>2, <2>2 DEF Store
  <2>4. QED
    BY <2>1, <2>3
<1>3. QED
  BY <1>1, <1>2 DEF PutApplied

PcTyped ==
  /\ pc' \in [Threads -> PollLabels \union CleanupLabels]
  /\ pc'["poll"] \in PollLabels /\ pc'["cleanup"] \in CleanupLabels

LEMMA GotoTyped ==
  ASSUME Typed, NEW from, NEW to
  PROVE  /\ Goto("poll", from, to) /\ to \in PollLabels => PcTyped
         /\ Goto("cleanup", from, to) /\ to \in CleanupLabels => PcTyped
  BY DEF Typed, TypeOK, PcTyped, Goto, Threads

LEMMA LockTyped ==
  ASSUME Typed, NEW t \in Threads, Release(t) \/ Acquire(t) \/ UNCHANGED lock
  PROVE  lock' \in Threads \union {"free"}
  BY DEF Typed, TypeOK, Release, Acquire

LEMMA FaultTyped == Typed /\ (Fault \/ UNCHANGED faults) => faults' \in 0 .. MaxFaults
  BY DEF Typed, TypeOK, Fault

CycleTyped ==
  got' \in Marks /\ Upto(got') /\ days' \in SUBSET (1 .. MaxDay) /\ writeOK' \in BOOLEAN

LEMMA CycleKept == Typed /\ (UNCHANGED cycle \/ ClearCycle) => CycleTyped
  BY ZeroMarks, UptoZero DEF Typed, TypeOK, Behind, cycle, ClearCycle,
     CycleTyped

LEMMA Combine ==
  ASSUME Typed, UNCHANGED world, copies' \in [Lines -> 0 .. MaxFaults + 2],
         Good(cm'), lock' \in Threads \union {"free"}, PcTyped, MemTyped,
         current' \in [Threads -> BOOLEAN], CycleTyped, due' \in BOOLEAN,
         base' \in Marks, started' \in BOOLEAN, faults' \in 0 .. MaxFaults
  PROVE  Typed'
<1>1. TypeOK'
  BY DEF Typed, TypeOK, world, Good, PcTyped, MemTyped, CycleTyped
<1>2. Behind'
  BY DEF Typed, Behind, Upto, world, Good, MemTyped, CycleTyped
<1>3. QED
  BY <1>1, <1>2 DEF Typed

LEMMA EnterTyped ==
  ASSUME Typed, NEW upTo \in Marks, Upto(upTo), EnterWrite(upTo)
  PROVE  CycleTyped
<1>1. \A l \in Collected(upTo) : dayOf[l] \in 1 .. MaxDay
  <2>1. SUFFICES ASSUME NEW l \in Lines, l[2] <= upTo[l[1]] PROVE dayOf[l] \in 1 .. MaxDay
    BY DEF Collected
  <2>2. l[2] \in Nat /\ upTo[l[1]] \in Nat /\ made[l[1]] \in Nat /\ upTo[l[1]] <= made[l[1]]
    BY LineParts, MarkParts DEF Upto, Typed, TypeOK
  <2>3. dayOf[l] \in 1 .. today /\ today \in 1 .. MaxDay
    BY <2>1, <2>2 DEF Typed, TypeOK, Behind
  <2>4. QED
    BY <2>3
<1>2. DaysOf(Collected(upTo)) \subseteq 1 .. MaxDay
  BY <1>1 DEF DaysOf
<1>3. QED
  BY <1>2 DEF EnterWrite, CycleTyped

LEMMA AppendTyped ==
  ASSUME Typed, NEW lines, Append(lines)
  PROVE  copies' \in [Lines -> 0 .. MaxFaults + 2]
  BY DEF Typed, TypeOK, Append

LEMMA TypedNext == Typed /\ [Next]_vars => Typed'
<1> SUFFICES ASSUME Typed, [Next]_vars PROVE Typed'
  OBVIOUS
<1>1. CASE ReadState
  BY <1>1, StateParts, NoStateTyped DEF ReadState, Goto, Threads, PollLabels,
     CleanupLabels, Typed, TypeOK, Behind, Upto, vars, world, cycle, history
<1>2. CASE ReadStateFails
  BY <1>2, StateParts, NoStateTyped DEF ReadStateFails, Fault, Threads,
     PollLabels, CleanupLabels, Typed, TypeOK, Behind, Upto, vars, world,
     cycle, history
<1>3. CASE Discover
  <2>1. Good([there |-> FALSE, mark |-> made, cleaned |-> 0])
    <3>1. made \in Marks /\ today \in 1 .. MaxDay /\ 0 \in 0 .. MaxDay
      BY DEF Typed, TypeOK
    <3>2. Upto(made)
      BY <3>1, MarkParts DEF Upto
    <3>3. [there |-> FALSE, mark |-> made, cleaned |-> 0] \in State
      BY <3>1 DEF State
    <3>4. QED
      BY <3>1, <3>2, <3>3 DEF Good
  <2>2. MemTyped
    BY <1>3, <2>1, MemSet DEF Discover, Threads
  <2>3. QED
    BY <1>3, <2>1, <2>2, GotoTyped, LockTyped, FaultTyped, CycleKept, MemKept,
       GoodNow, StoreTyped, MemForgotten, Combine DEF Discover, Typed, TypeOK,
       Threads, history, PollLabels, CleanupLabels
<1>4. CASE DiscoverFails
  BY <1>4, StateParts, NoStateTyped DEF DiscoverFails, Goto, Fault, Threads,
     PollLabels, CleanupLabels, Typed, TypeOK, Behind, Upto, vars, world,
     cycle, history
<1>5. CASE CreateState
  <2>1. Good(cm') /\ current' \in [Threads -> BOOLEAN]
    BY <1>5, StoreTyped DEF CreateState, CreateApplied, Threads
  <2>2. base' \in Marks /\ started' \in BOOLEAN
    BY <1>5, StateParts DEF CreateState, CreateApplied, Threads, Typed, TypeOK,
       history
  <2>3. QED
    BY <1>5, <2>1, <2>2, GotoTyped, LockTyped, FaultTyped, CycleKept, MemKept,
       GoodNow, StoreTyped, MemForgotten, Combine DEF CreateState, Typed,
       TypeOK, Threads, history, PollLabels, CleanupLabels
<1>6. CASE CreateStateFails
  <2>1. Good(cm') /\ current' \in [Threads -> BOOLEAN]
    BY <1>6, StoreTyped DEF CreateStateFails, CreateApplied, Threads
  <2>2. base' \in Marks /\ started' \in BOOLEAN
    BY <1>6, StateParts DEF CreateStateFails, CreateApplied, Threads, Typed,
       TypeOK, history
  <2>3. QED
    BY <1>6, <2>1, <2>2, GotoTyped, LockTyped, FaultTyped, CycleKept, MemKept,
       GoodNow, StoreTyped, MemForgotten, Combine DEF CreateStateFails, Typed,
       TypeOK, Threads, history, PollLabels, CleanupLabels
<1>7. CASE PollTransactions
  <2>1. CycleTyped
    <3>1. PICK n \in mem["poll"].mark["tx"] .. made["tx"] : got' = [got EXCEPT !["tx"] = n]
      BY <1>7 DEF PollTransactions
    <3>2. made \in Marks /\ got \in Marks /\ Upto(got) /\ mem["poll"].mark \in Marks /\ "tx" \in Feeds
      BY StateParts DEF Typed, TypeOK, Behind, Feeds, Threads
    <3>3. n \in Nat /\ n <= made["tx"] /\ n <= Bound("tx")
      BY <3>1, <3>2, MarkParts, BoundTyped
    <3>4. got' \in Marks
      BY <3>1, <3>2, <3>3, MarkSet
    <3>5. Upto(got')
      BY <3>1, <3>2, <3>3 DEF Upto, Marks
    <3>6. QED
      BY <1>7, <3>4, <3>5 DEF PollTransactions, CycleTyped, Typed, TypeOK
  <2>2. QED
    BY <1>7, <2>1, GotoTyped, LockTyped, FaultTyped, CycleKept, MemKept,
       GoodNow, StoreTyped, MemForgotten, Combine DEF PollTransactions, Typed,
       TypeOK, Threads, history, PollLabels, CleanupLabels
<1>8. CASE PollTransactionsFails
  BY <1>8, StateParts, NoStateTyped DEF PollTransactionsFails, Goto, Fault,
     Threads, PollLabels, CleanupLabels, Typed, TypeOK, Behind, Upto, vars,
     world, cycle, history
<1>9. CASE PollKeycloak
  <2>1. [got EXCEPT !["kc"] = made["kc"]] \in Marks /\ Upto([got EXCEPT !["kc"] = made["kc"]])
    BY MarkParts, MarkSet DEF Typed, TypeOK, Behind, Upto, Feeds, Marks
  <2>2. CycleTyped
    BY <1>9, <2>1, EnterTyped DEF PollKeycloak
  <2>3. QED
    BY <1>9, <2>1, <2>2, GotoTyped, LockTyped, FaultTyped, CycleKept, MemKept,
       GoodNow, StoreTyped, MemForgotten, Combine DEF PollKeycloak, Typed,
       TypeOK, Threads, history, PollLabels, CleanupLabels
<1>10. CASE PollKeycloakFails
  <2>2. CycleTyped
    BY <1>10, EnterTyped DEF PollKeycloakFails, Typed, TypeOK, Behind
  <2>3. QED
    BY <1>10, <2>2, GotoTyped, LockTyped, FaultTyped, CycleKept, MemKept,
       GoodNow, StoreTyped, MemForgotten, Combine DEF PollKeycloakFails, Typed,
       TypeOK, Threads, history, PollLabels, CleanupLabels
<1>11. ASSUME NEW d \in 1 .. MaxDay, WriteDay(d) PROVE Typed'
  <2>1. copies' \in [Lines -> 0 .. MaxFaults + 2]
    BY <1>11, AppendTyped DEF WriteDay
  <2>2. CycleTyped
    BY <1>11 DEF WriteDay, CycleTyped, Typed, TypeOK, Behind
  <2>3. PcTyped
    BY <1>11 DEF WriteDay, PcTyped, Typed, TypeOK
  <2>4. QED
    BY <1>11, <2>1, <2>2, <2>3, GotoTyped, LockTyped, FaultTyped, CycleKept,
       MemKept, GoodNow, StoreTyped, MemForgotten, Combine DEF WriteDay, Typed,
       TypeOK, Threads, history, PollLabels, CleanupLabels
<1>12. ASSUME NEW d \in 1 .. MaxDay, WriteDayFails(d) PROVE Typed'
  <2>1. copies' \in [Lines -> 0 .. MaxFaults + 2]
    BY <1>12, AppendTyped DEF WriteDayFails
  <2>2. CycleTyped
    BY <1>12 DEF WriteDayFails, CycleTyped, Typed, TypeOK, Behind
  <2>3. PcTyped
    BY <1>12 DEF WriteDayFails, PcTyped, Typed, TypeOK
  <2>4. QED
    BY <1>12, <2>1, <2>2, <2>3, GotoTyped, LockTyped, FaultTyped, CycleKept,
       MemKept, GoodNow, StoreTyped, MemForgotten, Combine DEF WriteDayFails,
       Typed, TypeOK, Threads, history, PollLabels, CleanupLabels
<1>13. CASE TakeLock
  <2>1. Good([mem["poll"] EXCEPT !.mark = IF writeOK THEN got ELSE @])
    BY GoodNow, GoodMark, StateParts DEF Typed, TypeOK, Behind, Threads, Good
  <2>2. MemTyped
    BY <1>13, <2>1, MemSet DEF TakeLock, Threads
  <2>3. QED
    BY <1>13, <2>1, <2>2, GotoTyped, LockTyped, FaultTyped, CycleKept, MemKept,
       GoodNow, StoreTyped, MemForgotten, Combine DEF TakeLock, Typed, TypeOK,
       Threads, history, PollLabels, CleanupLabels
<1>14. CASE AcquirePoll
  BY <1>14, StateParts, NoStateTyped DEF AcquirePoll, Goto, Acquire, Threads,
     PollLabels, CleanupLabels, Typed, TypeOK, Behind, Upto, vars, world,
     cycle, history
<1>15. CASE RereadPoll
  <2>1. Good([there |-> cm.there, mark |-> mem["poll"].mark, cleaned |-> IF cm.there THEN cm.cleaned ELSE mem["poll"].cleaned])
    BY GoodNow, StateParts, StateMade DEF Threads, Good
  <2>2. MemTyped
    BY <1>15, <2>1, MemSet DEF RereadPoll, MergeFresh, Threads
  <2>3. QED
    BY <1>15, <2>1, <2>2, GotoTyped, LockTyped, FaultTyped, CycleKept, MemKept,
       GoodNow, StoreTyped, MemForgotten, Combine DEF RereadPoll, Typed,
       TypeOK, Threads, history, PollLabels, CleanupLabels
<1>16. CASE RereadPollFails
  BY <1>16, GotoTyped, LockTyped, FaultTyped, CycleKept, MemKept, GoodNow,
     StoreTyped, MemForgotten, Combine DEF RereadPollFails, Typed, TypeOK,
     Threads, history, PollLabels, CleanupLabels
<1>17. CASE PutPoll
  BY <1>17, GotoTyped, LockTyped, FaultTyped, CycleKept, MemKept, GoodNow,
     StoreTyped, MemForgotten, Combine DEF PutPoll, Typed, TypeOK, Threads,
     history, PollLabels, CleanupLabels
<1>18. CASE PutPollFails
  BY <1>18, GotoTyped, LockTyped, FaultTyped, CycleKept, MemKept, GoodNow,
     StoreTyped, MemForgotten, Combine DEF PutPollFails, Typed, TypeOK,
     Threads, history, PollLabels, CleanupLabels
<1>19. CASE StartCleanup
  BY <1>19, StateParts, NoStateTyped DEF StartCleanup, Goto, Threads,
     PollLabels, CleanupLabels, Typed, TypeOK, Behind, Upto, vars, world,
     cycle, history
<1>20. CASE WakeCleanup
  BY <1>20, StateParts, NoStateTyped DEF WakeCleanup, Goto, Threads,
     PollLabels, CleanupLabels, Typed, TypeOK, Behind, Upto, vars, world,
     cycle, history
<1>21. CASE AcquireCleanup
  BY <1>21, StateParts, NoStateTyped DEF AcquireCleanup, Goto, Acquire,
     Threads, PollLabels, CleanupLabels, Typed, TypeOK, Behind, Upto, vars,
     world, cycle, history
<1>22. CASE RereadCleanup
  <2>1. Good([cm EXCEPT !.cleaned = today])
    BY GoodNow, GoodCleaned DEF Typed, TypeOK
  <2>2. MemTyped
    BY <1>22, <2>1, MemSet, MemKept DEF RereadCleanup, Threads
  <2>3. QED
    BY <1>22, <2>1, <2>2, GotoTyped, LockTyped, FaultTyped, CycleKept, MemKept,
       GoodNow, StoreTyped, MemForgotten, Combine DEF RereadCleanup, Typed,
       TypeOK, Threads, history, PollLabels, CleanupLabels
<1>23. CASE RereadCleanupFails
  BY <1>23, StateParts, NoStateTyped DEF RereadCleanupFails, Goto, Fault,
     Release, Threads, PollLabels, CleanupLabels, Typed, TypeOK, Behind, Upto,
     vars, world, cycle, history
<1>24. CASE PutCleanup
  BY <1>24, GotoTyped, LockTyped, FaultTyped, CycleKept, MemKept, GoodNow,
     StoreTyped, MemForgotten, Combine DEF PutCleanup, Typed, TypeOK, Threads,
     history, PollLabels, CleanupLabels
<1>25. CASE PutCleanupFails
  BY <1>25, GotoTyped, LockTyped, FaultTyped, CycleKept, MemKept, GoodNow,
     StoreTyped, MemForgotten, Combine DEF PutCleanupFails, Typed, TypeOK,
     Threads, history, PollLabels, CleanupLabels
<1>26. ASSUME NEW f \in Feeds, NewItem(f) PROVE Typed'
  <2>1. made' \in Marks /\ \A g \in Feeds : made[g] <= made'[g]
    <3>1. made \in Marks /\ made[f] + 1 \in Nat /\ made[f] + 1 <= Bound(f) /\ made' = [made EXCEPT ![f] = made[f] + 1]
      BY <1>26, BoundTyped, MarkParts DEF NewItem, Typed, TypeOK
    <3>2. made' \in Marks
      BY <3>1, MarkSet
    <3>3. QED
      BY <3>1, <3>2, MarkParts DEF Marks
  <2>2. dayOf' \in [Lines -> 0 .. MaxDay]
    <3>1. dayOf \in [Lines -> 0 .. MaxDay] /\ today \in 0 .. MaxDay
      BY DEF Typed, TypeOK
    <3>2. QED
      BY <1>26, <3>1 DEF NewItem
  <2>3. TypeOK'
    BY <1>26, <2>1, <2>2 DEF NewItem, Typed, TypeOK, cycle, history
  <2>4. \A m \in Marks : Upto(m) => Upto(m)'
    BY <2>1, MarkParts DEF Upto, Typed, TypeOK
  <2>5. \A l \in Lines : l[2] <= made'[l[1]] => dayOf'[l] \in 1 .. today
    <3>1. SUFFICES ASSUME NEW l \in Lines, l[2] <= made'[l[1]] PROVE dayOf'[l] \in 1 .. today
      OBVIOUS
    <3>2. CASE l = <<f, made[f] + 1>>
      BY <1>26, <3>2 DEF NewItem, Typed, TypeOK
    <3>3. CASE l # <<f, made[f] + 1>>
      <4>1. l[2] <= made[l[1]]
        <5>1. made \in Marks /\ made' = [made EXCEPT ![f] = made[f] + 1]
          BY <1>26 DEF NewItem, Typed, TypeOK
        <5>2. l = <<l[1], l[2]>> /\ l[1] \in Feeds /\ l[2] \in Nat /\ made[l[1]] \in Nat
          BY <5>1, LineParts, MarkParts DEF Lines
        <5>3. CASE l[1] = f
          <6>1. made'[l[1]] = made[f] + 1
            BY <5>1, <5>3 DEF Marks
          <6>2. l[2] # made[f] + 1
            BY <3>3, <5>2, <5>3
          <6>3. QED
            BY <3>1, <5>2, <5>3, <6>1, <6>2
        <5>4. CASE l[1] # f
          <6>1. made'[l[1]] = made[l[1]]
            BY <5>1, <5>2, <5>4 DEF Marks
          <6>2. QED
            BY <3>1, <6>1
        <5>5. QED
          BY <5>3, <5>4
      <4>2. QED
        BY <1>26, <3>3, <4>1 DEF NewItem, Typed, TypeOK, Behind
    <3>4. QED
      BY <3>2, <3>3
  <2>6. Behind'
    BY <1>26, <2>4, <2>5, StateParts DEF NewItem, Typed, TypeOK, Behind, cycle
  <2>7. QED
    BY <2>3, <2>6 DEF Typed
<1>27. CASE Midnight
  BY <1>27, StateParts, NoStateTyped DEF Midnight, Threads, PollLabels,
     CleanupLabels, Typed, TypeOK, Behind, Upto, vars, world, cycle, history
<1>28. CASE Crash
  <2>1. MemTyped
    BY <1>28, GoodNow, NoStateTyped DEF Crash, MemTyped
  <2>2. PcTyped
    BY <1>28 DEF Crash, PcTyped, Threads, PollLabels, CleanupLabels
  <2>3. QED
    BY <1>28, <2>1, <2>2, GotoTyped, LockTyped, FaultTyped, CycleKept, MemKept,
       GoodNow, StoreTyped, MemForgotten, Combine DEF Crash, Typed, TypeOK,
       Threads, history, PollLabels, CleanupLabels
<1>29. CASE DeleteConfigMap
  <2>1. PcTyped
    BY <1>29 DEF DeleteConfigMap, PcTyped, Typed, TypeOK
  <2>2. Good(cm') /\ current' \in [Threads -> BOOLEAN]
    BY <1>29, GoodNow DEF DeleteConfigMap
  <2>3. QED
    BY <1>29, <2>1, <2>2, GotoTyped, LockTyped, FaultTyped, CycleKept, MemKept,
       GoodNow, StoreTyped, MemForgotten, Combine DEF DeleteConfigMap, Typed,
       TypeOK, Threads, history, PollLabels, CleanupLabels
<1>30. CASE UNCHANGED vars
  BY <1>30 DEF vars, world, cycle, history, Typed, TypeOK, Behind, Upto
<1>31. QED
  BY <1>1, <1>2, <1>3, <1>4, <1>5, <1>6, <1>7, <1>8, <1>9, <1>10, <1>11, <1>12,
     <1>13, <1>14, <1>15, <1>16, <1>17, <1>18, <1>19, <1>20, <1>21, <1>22,
     <1>23, <1>24, <1>25, <1>26, <1>27, <1>28, <1>29, <1>30 DEF Next, PollStep,
     CleanupStep, FaultStep, WorldStep

\* Every variable keeps its type, no watermark in any copy of the state is
\* ahead of its feed, and no cleanup time ahead of the calendar.
THEOREM TypeCorrect == Spec => []Typed
<1>1. Init => Typed
  BY TypedInit
<1>2. Typed /\ [Next]_vars => Typed'
  BY TypedNext
<1>3. QED
  BY <1>1, <1>2, PTL DEF Spec

-----------------------------------------------------------------------------
\* The lock.  Whoever has re-read the ConfigMap holds it, and while it is held
\* nobody else changes the ConfigMap except by deleting it.

Serial ==
  /\ \A t \in Threads : pc[t] \in {"reread", "put"} => lock = t
  /\ NoConflict

LEMMA SerialNext == Typed /\ Serial /\ [Next]_vars => Serial'
<1> SUFFICES ASSUME Typed, Serial, [Next]_vars PROVE Serial'
  OBVIOUS
<1> USE DEF Serial, NoConflict, Threads
<1>1. CASE ReadState
  BY <1>1 DEF ReadState, Goto, Typed, TypeOK
<1>2. CASE ReadStateFails
  BY <1>2 DEF ReadStateFails, Typed, TypeOK
<1>3. CASE Discover
  BY <1>3 DEF Discover, Goto, Typed, TypeOK
<1>4. CASE DiscoverFails
  BY <1>4 DEF DiscoverFails, Goto, Typed, TypeOK
<1>5. CASE CreateState
  BY <1>5 DEF CreateState, Goto, Store, Leave, Forget, CreateApplied, Typed,
     TypeOK
<1>6. CASE CreateStateFails
  BY <1>6 DEF CreateStateFails, Goto, Store, Leave, Forget, CreateApplied,
     Typed, TypeOK
<1>7. CASE PollTransactions
  BY <1>7 DEF PollTransactions, Goto, Typed, TypeOK
<1>8. CASE PollTransactionsFails
  BY <1>8 DEF PollTransactionsFails, Goto, Typed, TypeOK
<1>9. CASE PollKeycloak
  BY <1>9 DEF PollKeycloak, Goto, Typed, TypeOK
<1>10. CASE PollKeycloakFails
  BY <1>10 DEF PollKeycloakFails, Goto, Typed, TypeOK
<1>11. ASSUME NEW d \in 1 .. MaxDay, WriteDay(d) PROVE Serial'
  BY <1>11 DEF WriteDay, Typed, TypeOK
<1>12. ASSUME NEW d \in 1 .. MaxDay, WriteDayFails(d) PROVE Serial'
  BY <1>12 DEF WriteDayFails, Typed, TypeOK
<1>13. CASE TakeLock
  BY <1>13 DEF TakeLock, Goto, Typed, TypeOK
<1>14. CASE AcquirePoll
  BY <1>14 DEF AcquirePoll, Goto, Acquire, Typed, TypeOK
<1>15. CASE RereadPoll
  BY <1>15 DEF RereadPoll, Goto, MergeFresh, Typed, TypeOK
<1>16. CASE RereadPollFails
  BY <1>16 DEF RereadPollFails, Goto, Release, Forget, Typed, TypeOK
<1>17. CASE PutPoll
  BY <1>17 DEF PutPoll, Goto, Release, Store, Leave, Forget, PutApplied,
     Accepts, Typed, TypeOK
<1>18. CASE PutPollFails
  BY <1>18 DEF PutPollFails, Goto, Release, Store, Leave, Forget, PutApplied,
     Accepts, Typed, TypeOK
<1>19. CASE StartCleanup
  BY <1>19 DEF StartCleanup, Goto, Typed, TypeOK
<1>20. CASE WakeCleanup
  BY <1>20 DEF WakeCleanup, Goto, Typed, TypeOK
<1>21. CASE AcquireCleanup
  BY <1>21 DEF AcquireCleanup, Goto, Acquire, Typed, TypeOK
<1>22. CASE RereadCleanup
  BY <1>22 DEF RereadCleanup, Goto, Release, Typed, TypeOK
<1>23. CASE RereadCleanupFails
  BY <1>23 DEF RereadCleanupFails, Goto, Release, Typed, TypeOK
<1>24. CASE PutCleanup
  BY <1>24 DEF PutCleanup, Goto, Release, Store, Leave, Forget, PutApplied,
     Accepts, Typed, TypeOK
<1>25. CASE PutCleanupFails
  BY <1>25 DEF PutCleanupFails, Goto, Release, Store, Leave, Forget,
     PutApplied, Accepts, Typed, TypeOK
<1>26. ASSUME NEW f \in Feeds, NewItem(f) PROVE Serial'
  BY <1>26 DEF NewItem, Typed, TypeOK
<1>27. CASE Midnight
  BY <1>27 DEF Midnight, Typed, TypeOK
<1>28. CASE Crash
  BY <1>28 DEF Crash, Typed, TypeOK
<1>29. CASE DeleteConfigMap
  BY <1>29 DEF DeleteConfigMap, NoState, Typed, TypeOK
<1>30. CASE UNCHANGED vars
  BY <1>30 DEF vars
<1>31. QED
  BY <1>1, <1>2, <1>3, <1>4, <1>5, <1>6, <1>7, <1>8, <1>9, <1>10, <1>11, <1>12,
     <1>13, <1>14, <1>15, <1>16, <1>17, <1>18, <1>19, <1>20, <1>21, <1>22,
     <1>23, <1>24, <1>25, <1>26, <1>27, <1>28, <1>29, <1>30 DEF Next, PollStep,
     CleanupStep, FaultStep, WorldStep

-----------------------------------------------------------------------------
\* Each thread's copy of the other thread's fields is not out of date when it
\* is written back.

InCycle == pc["poll"] \in {"tx", "kc", "write", "lock", "reread", "put"}

Polling == pc["poll"] \in {"tx", "kc", "write"}

AtMost(m, n) == \A f \in Feeds : m[f] <= n[f]

Fresh ==
  /\ InCycle /\ cm.there => AtMost(cm.mark, mem["poll"].mark)
  /\ Polling => AtMost(mem["poll"].mark, got)
  /\ pc["poll"] = "put" /\ cm.there /\ mem["poll"].there => mem["poll"].cleaned = cm.cleaned
  /\ pc["cleanup"] = "put" => mem["cleanup"].there
  /\ pc["cleanup"] = "put" /\ cm.there =>
       mem["cleanup"].mark = cm.mark /\ cm.cleaned <= mem["cleanup"].cleaned

LEMMA AtMostSelf == \A m \in Marks : AtMost(m, m)
  BY MarkParts DEF AtMost

LEMMA AtMostTrans ==
  \A k, m, n \in Marks : AtMost(k, m) /\ AtMost(m, n) => AtMost(k, n)
  BY MarkParts DEF AtMost

LEMMA FreshNext == Typed /\ Serial /\ Fresh /\ [Next]_vars => Fresh'
<1> SUFFICES ASSUME Typed, Serial, Fresh, [Next]_vars PROVE Fresh'
  OBVIOUS
<1>0. /\ mem["poll"].mark \in Marks /\ cm.mark \in Marks /\ got \in Marks
      /\ Upto(mem["poll"].mark) /\ Upto(got) /\ cm.cleaned \in Int /\ cm.cleaned <= today /\ today \in Int
      /\ \A t \in Threads : mem[t].cleaned \in Int
  BY StateParts DEF Typed, TypeOK, Behind, Threads
<1> USE DEF Fresh, Threads, InCycle, Polling
<1>1. CASE ReadState
  BY <1>0, <1>1, AtMostSelf, AtMostTrans DEF ReadState, Goto, EnterWrite,
     Serial, Typed, TypeOK, world
<1>2. CASE ReadStateFails
  BY <1>0, <1>2, AtMostSelf, AtMostTrans DEF ReadStateFails, EnterWrite,
     Serial, Typed, TypeOK, world, cycle
<1>3. CASE Discover
  BY <1>0, <1>3, AtMostSelf, AtMostTrans DEF Discover, Goto, EnterWrite,
     Serial, Typed, TypeOK, world, cycle
<1>4. CASE DiscoverFails
  BY <1>0, <1>4, AtMostSelf, AtMostTrans DEF DiscoverFails, Goto, EnterWrite,
     Serial, Typed, TypeOK, world, cycle
<1>5. CASE CreateState
  BY <1>0, <1>5, AtMostSelf, AtMostTrans DEF CreateState, Goto, Store, Leave,
     Forget, CreateApplied, EnterWrite, Serial, Typed, TypeOK, NoState, world,
     cycle
<1>6. CASE CreateStateFails
  BY <1>0, <1>6, AtMostSelf, AtMostTrans DEF CreateStateFails, Goto, Store,
     Leave, Forget, CreateApplied, EnterWrite, Serial, Typed, TypeOK, NoState,
     world, cycle
<1>7. CASE PollTransactions
  <2>1. PICK n \in mem["poll"].mark["tx"] .. made["tx"] : got' = [got EXCEPT !["tx"] = n]
    BY <1>7 DEF PollTransactions
  <2>2. AtMost(mem["poll"].mark, got')
    BY <1>0, <1>7, <2>1, MarkParts DEF AtMost, Feeds, Marks, PollTransactions,
       Goto
  <2>3. QED
    BY <1>7, <2>2 DEF PollTransactions, Goto, Typed, TypeOK
<1>8. CASE PollTransactionsFails
  BY <1>0, <1>8, AtMostSelf, AtMostTrans DEF PollTransactionsFails, Goto,
     EnterWrite, Serial, Typed, TypeOK, world, cycle
<1>9. CASE PollKeycloak
  <2>1. AtMost(mem["poll"].mark, [got EXCEPT !["kc"] = made["kc"]])
    BY <1>0, <1>9, MarkParts DEF AtMost, Upto, Feeds, Marks, PollKeycloak, Goto
  <2>2. QED
    BY <1>9, <2>1 DEF PollKeycloak, Goto, EnterWrite, Typed, TypeOK
<1>10. CASE PollKeycloakFails
  BY <1>0, <1>10, AtMostSelf, AtMostTrans DEF PollKeycloakFails, Goto,
     EnterWrite, Serial, Typed, TypeOK, world
<1>11. ASSUME NEW d \in 1 .. MaxDay, WriteDay(d) PROVE Fresh'
  BY <1>0, <1>11, AtMostSelf, AtMostTrans DEF WriteDay, EnterWrite, Serial,
     Typed, TypeOK, world
<1>12. ASSUME NEW d \in 1 .. MaxDay, WriteDayFails(d) PROVE Fresh'
  BY <1>0, <1>12, AtMostSelf, AtMostTrans DEF WriteDayFails, EnterWrite,
     Serial, Typed, TypeOK, world
<1>13. CASE TakeLock
  BY <1>0, <1>13, AtMostSelf, AtMostTrans DEF TakeLock, Goto, EnterWrite,
     Serial, Typed, TypeOK, world
<1>14. CASE AcquirePoll
  BY <1>0, <1>14, AtMostSelf, AtMostTrans DEF AcquirePoll, Goto, Acquire,
     EnterWrite, Serial, Typed, TypeOK, world, cycle
<1>15. CASE RereadPoll
  BY <1>0, <1>15, AtMostSelf, AtMostTrans DEF RereadPoll, Goto, MergeFresh,
     EnterWrite, Serial, Typed, TypeOK, world, cycle
<1>16. CASE RereadPollFails
  BY <1>0, <1>16, AtMostSelf, AtMostTrans DEF RereadPollFails, Goto, Release,
     Forget, EnterWrite, Serial, Typed, TypeOK, NoState, world, cycle
<1>17. CASE PutPoll
  BY <1>0, <1>17, AtMostSelf, AtMostTrans DEF PutPoll, Goto, Release, Store,
     Leave, Forget, PutApplied, Accepts, EnterWrite, Serial, Typed, TypeOK,
     NoState, world, cycle
<1>18. CASE PutPollFails
  BY <1>0, <1>18, AtMostSelf, AtMostTrans DEF PutPollFails, Goto, Release,
     Store, Leave, Forget, PutApplied, Accepts, EnterWrite, Serial, Typed,
     TypeOK, NoState, world, cycle
<1>19. CASE StartCleanup
  BY <1>0, <1>19, AtMostSelf, AtMostTrans DEF StartCleanup, Goto, EnterWrite,
     Serial, Typed, TypeOK, world, cycle
<1>20. CASE WakeCleanup
  BY <1>0, <1>20, AtMostSelf, AtMostTrans DEF WakeCleanup, Goto, EnterWrite,
     Serial, Typed, TypeOK, world, cycle
<1>21. CASE AcquireCleanup
  BY <1>0, <1>21, AtMostSelf, AtMostTrans DEF AcquireCleanup, Goto, Acquire,
     EnterWrite, Serial, Typed, TypeOK, world, cycle
<1>22. CASE RereadCleanup
  <2>1. \A s : s = [cm EXCEPT !.cleaned = today] =>
          s.there = cm.there /\ s.mark = cm.mark /\ s.cleaned = today
    BY DEF Typed, TypeOK, State
  <2>2. mem'["poll"] = mem["poll"]
    BY <1>22 DEF RereadCleanup, Typed, TypeOK
  <2>3. CASE cm.there
    BY <1>0, <1>22, <2>1, <2>2, <2>3 DEF RereadCleanup, Goto, Typed, TypeOK,
       cycle
  <2>4. CASE ~cm.there
    BY <1>22, <2>2, <2>4 DEF RereadCleanup, Goto, Typed, TypeOK, cycle
  <2>5. QED
    BY <2>3, <2>4
<1>23. CASE RereadCleanupFails
  BY <1>0, <1>23, AtMostSelf, AtMostTrans DEF RereadCleanupFails, Goto,
     Release, EnterWrite, Serial, Typed, TypeOK, world, cycle
<1>24. CASE PutCleanup
  <2>1. \A s : s = [mem["cleanup"] EXCEPT !.there = TRUE] =>
          s.mark = mem["cleanup"].mark /\ s.cleaned = mem["cleanup"].cleaned
    BY DEF Typed, TypeOK, State
  <2>2. cm' = cm \/ (cm.there /\ cm'.mark = cm.mark)
    BY <1>24, <2>1 DEF PutCleanup, PutApplied, Leave, Store, Accepts, Goto
  <2>3. pc["poll"] # "put" /\ pc' = [pc EXCEPT !["cleanup"] = "sleep"] /\ mem'["poll"] = mem["poll"]
    BY <1>24 DEF PutCleanup, Goto, Forget, Serial, Typed, TypeOK
  <2>4. QED
    BY <1>24, <2>2, <2>3 DEF PutCleanup, Typed, TypeOK, cycle
<1>25. CASE PutCleanupFails
  <2>1. \A s : s = [mem["cleanup"] EXCEPT !.there = TRUE] =>
          s.mark = mem["cleanup"].mark /\ s.cleaned = mem["cleanup"].cleaned
    BY DEF Typed, TypeOK, State
  <2>2. cm' = cm \/ (cm.there /\ cm'.mark = cm.mark)
    BY <1>25, <2>1 DEF PutCleanupFails, PutApplied, Leave, Store, Accepts, Goto
  <2>3. pc["poll"] # "put" /\ pc' = [pc EXCEPT !["cleanup"] = "sleep"] /\ mem'["poll"] = mem["poll"]
    BY <1>25 DEF PutCleanupFails, Goto, Forget, Serial, Typed, TypeOK
  <2>4. QED
    BY <1>25, <2>2, <2>3 DEF PutCleanupFails, Typed, TypeOK, cycle
<1>26. ASSUME NEW f \in Feeds, NewItem(f) PROVE Fresh'
  BY <1>0, <1>26, AtMostSelf, AtMostTrans DEF NewItem, EnterWrite, Serial,
     Typed, TypeOK, cycle
<1>27. CASE Midnight
  BY <1>0, <1>27, AtMostSelf, AtMostTrans DEF Midnight, EnterWrite, Serial,
     Typed, TypeOK, cycle
<1>28. CASE Crash
  BY <1>0, <1>28, AtMostSelf, AtMostTrans DEF Crash, EnterWrite, Serial, Typed,
     TypeOK, NoState, world
<1>29. CASE DeleteConfigMap
  BY <1>0, <1>29, AtMostSelf, AtMostTrans DEF DeleteConfigMap, EnterWrite,
     Serial, Typed, TypeOK, NoState, world, cycle
<1>30. CASE UNCHANGED vars
  BY <1>30 DEF vars, cycle
<1>31. QED
  BY <1>1, <1>2, <1>3, <1>4, <1>5, <1>6, <1>7, <1>8, <1>9, <1>10, <1>11, <1>12,
     <1>13, <1>14, <1>15, <1>16, <1>17, <1>18, <1>19, <1>20, <1>21, <1>22,
     <1>23, <1>24, <1>25, <1>26, <1>27, <1>28, <1>29, <1>30 DEF Next, PollStep,
     CleanupStep, FaultStep, WorldStep

LEMMA Writers ==
  ASSUME [Next]_vars
  PROVE  \/ UNCHANGED cm
         \/ ~cm'.there
         \/ ~cm.there
         \/ \E t \in Threads : pc[t] = "put" /\ Accepts(t) /\ cm' = [mem[t] EXCEPT !.there = TRUE]
<1>1. CASE PollStep
  BY <1>1 DEF PollStep, ReadState, Discover, CreateState, PollTransactions,
     PollKeycloak, WriteDay, TakeLock, AcquirePoll, RereadPoll, PutPoll,
     CreateApplied, PutApplied, Leave, Store, Goto, Threads
<1>2. CASE CleanupStep
  BY <1>2 DEF CleanupStep, StartCleanup, WakeCleanup, AcquireCleanup,
     RereadCleanup, PutCleanup, PutApplied, Leave, Store, Goto, Threads
<1>3. CASE FaultStep
  BY <1>3 DEF FaultStep, ReadStateFails, DiscoverFails, CreateStateFails,
     PollTransactionsFails, PollKeycloakFails, WriteDayFails, RereadPollFails,
     PutPollFails, RereadCleanupFails, PutCleanupFails, Crash, DeleteConfigMap,
     NoState, CreateApplied, PutApplied, Leave, Store, Goto, Threads
<1>4. CASE WorldStep \/ UNCHANGED vars
  BY <1>4 DEF WorldStep, Midnight, NewItem, vars
<1>5. QED
  BY <1>1, <1>2, <1>3, <1>4 DEF Next

LEMMA NeverBack ==
  ASSUME Typed, Serial, Fresh, [Next]_vars, cm.there, cm'.there
  PROVE  (\A f \in Feeds : cm.mark[f] <= cm'.mark[f]) /\ cm.cleaned <= cm'.cleaned
<1>1. CASE UNCHANGED cm
  BY <1>1, StateParts, MarkParts DEF Typed, TypeOK
<1>2. ASSUME NEW t \in Threads, pc[t] = "put", Accepts(t), cm' = [mem[t] EXCEPT !.there = TRUE]
      PROVE  (\A f \in Feeds : cm.mark[f] <= cm'.mark[f]) /\ cm.cleaned <= cm'.cleaned
  <2>1. cm'.mark = mem[t].mark /\ cm'.cleaned = mem[t].cleaned
    BY <1>2 DEF Typed, TypeOK, State
  <2>2. mem[t].there
    BY <1>2 DEF Accepts
  <2>3. cm.mark \in Marks /\ cm.cleaned \in Int
    BY StateParts DEF Typed, TypeOK
  <2>4. CASE t = "poll"
    BY <1>2, <2>1, <2>2, <2>3, <2>4 DEF Fresh, InCycle, AtMost
  <2>5. CASE t = "cleanup"
    BY <1>2, <2>1, <2>3, <2>5, MarkParts DEF Fresh
  <2>6. QED
    BY <2>4, <2>5 DEF Threads
<1>3. QED
  BY <1>1, <1>2, Writers

-----------------------------------------------------------------------------
\* No loss.  The watermark in the hands of a cycle, like the saved one, has
\* only passed lines that are written, and the lines still to be written are
\* those of the days that are still to be written.

Covered(m, b, c) ==
  \A l \in Lines : b[l[1]] < l[2] /\ l[2] <= m[l[1]] => c[l] > 0

Pending(m, g, d, todo, c) ==
  \A l \in Lines : m[l[1]] < l[2] /\ l[2] <= g[l[1]] => d[l] \in todo \/ c[l] > 0

Logged ==
  /\ ~cm.there => cm = NoState
  /\ Covered(cm.mark, base, copies)
  /\ InCycle => Covered(mem["poll"].mark, base, copies)
  /\ pc["poll"] = "write" /\ writeOK => Pending(mem["poll"].mark, got, dayOf, days, copies)

LEMMA CoveredFacts ==
  /\ \A m, b, c, k : Covered(m, b, c) /\ (\A l \in Lines : c[l] > 0 => k[l] > 0) => Covered(m, b, k)
  /\ \A b \in Marks : \A c : Covered(b, b, c)
  /\ \A b \in Marks : \A c : Covered(NoState.mark, b, c)
  /\ \A m, g \in Marks : \A b, d, c : Covered(m, b, c) /\ Pending(m, g, d, {}, c) => Covered(g, b, c)
<1>1. \A l \in Lines, m \in Marks : l[1] \in Feeds /\ l[2] \in Nat \ {0} /\ m[l[1]] \in Nat
  BY LineParts, MarkParts
<1>2. NoState.mark \in Marks /\ \A f \in Feeds : NoState.mark[f] = 0
  BY ZeroMarks DEF NoState
<1>3. QED
  BY <1>1, <1>2 DEF Covered, Pending

LEMMA AppendGrows ==
  ASSUME Typed, NEW lines, Append(lines)
  PROVE  /\ \A l \in Lines : copies[l] > 0 => copies'[l] > 0
         /\ \A l \in Lines : l \in lines => copies'[l] > 0
<1>1. copies \in [Lines -> 0 .. MaxFaults + 2]
  BY DEF Typed, TypeOK
<1>2. QED
  BY <1>1 DEF Append

LEMMA StoreCovers ==
  ASSUME Typed, Serial, Fresh, Logged, NEW t \in Threads, pc[t] = "put",
         PutApplied(t) \/ Leave(t)
  PROVE  (~cm'.there => cm' = NoState) /\ Covered(cm'.mark, base, copies)
<1>1. CASE Leave(t)
  BY <1>1 DEF Leave, Logged
<1>2. CASE PutApplied(t)
  <2>1. cm'.mark = mem[t].mark /\ cm'.there
    BY <1>2 DEF PutApplied, Store, Typed, TypeOK, State
  <2>2. CASE t = "poll"
    BY <2>1, <2>2 DEF Logged, InCycle
  <2>3. CASE t = "cleanup"
    BY <1>2, <2>1, <2>3 DEF PutApplied, Accepts, Fresh, Logged
  <2>4. QED
    BY <2>1, <2>2, <2>3 DEF Threads
<1>3. QED
  BY <1>1, <1>2

LEMMA CreateCovers ==
  ASSUME Typed, Logged, CreateApplied \/ (Leave("poll") /\ UNCHANGED history)
  PROVE  (~cm'.there => cm' = NoState) /\ Covered(cm'.mark, base', copies)
<1>1. CASE CreateApplied
  <2>1. cm'.mark = mem["poll"].mark /\ cm'.there /\ base' = mem["poll"].mark /\ mem["poll"].mark \in Marks
    BY <1>1 DEF CreateApplied, Store, Typed, TypeOK, State, Threads
  <2>2. QED
    BY <2>1, CoveredFacts
<1>2. CASE Leave("poll") /\ UNCHANGED history
  BY <1>2 DEF Leave, Logged, history
<1>3. QED
  BY <1>1, <1>2

LEMMA LoggedNext == Typed /\ Serial /\ Fresh /\ Logged /\ [Next]_vars => Logged'
<1> SUFFICES ASSUME Typed, Serial, Fresh, Logged, [Next]_vars PROVE Logged'
  OBVIOUS
<1>0. mem \in [Threads -> State] /\ pc \in [Threads -> PollLabels \union CleanupLabels]
  BY DEF Typed, TypeOK
<1> USE DEF InCycle
<1>1. CASE ReadState
  BY <1>0, <1>1 DEF ReadState, Goto, Threads, world, history, Logged
<1>2. CASE ReadStateFails
  BY <1>0, <1>2 DEF ReadStateFails, Threads, world, cycle, history, Logged
<1>3. CASE Discover
  BY <1>0, <1>3 DEF Discover, Goto, Threads, world, cycle, history, Logged
<1>4. CASE DiscoverFails
  BY <1>0, <1>4 DEF DiscoverFails, Goto, Threads, world, cycle, history, Logged
<1>5. CASE CreateState
  BY <1>0, <1>5, CreateCovers DEF CreateState, Goto, Forget, Threads, world,
     cycle, history, Logged
<1>6. CASE CreateStateFails
  BY <1>0, <1>6, CreateCovers DEF CreateStateFails, Goto, Forget, Threads,
     world, cycle, history, Logged
<1>7. CASE PollTransactions
  BY <1>0, <1>7 DEF PollTransactions, Goto, Threads, world, history, Logged
<1>8. CASE PollTransactionsFails
  BY <1>0, <1>8 DEF PollTransactionsFails, Goto, Threads, world, cycle,
     history, Logged
<1>9. CASE PollKeycloak
  <2>1. \A upTo : EnterWrite(upTo) => Pending(mem["poll"].mark, upTo, dayOf, days', copies)
    BY DEF EnterWrite, DaysOf, Collected, Pending
  <2>2. Pending(mem["poll"].mark, got', dayOf, days', copies)
    BY <1>9, <2>1 DEF PollKeycloak, EnterWrite
  <2>3. QED
    BY <1>0, <1>9, <2>2 DEF PollKeycloak, EnterWrite, Goto, Threads, world,
       history, Logged
<1>10. CASE PollKeycloakFails
  <2>1. \A upTo : EnterWrite(upTo) => Pending(mem["poll"].mark, upTo, dayOf, days', copies)
    BY DEF EnterWrite, DaysOf, Collected, Pending
  <2>2. Pending(mem["poll"].mark, got', dayOf, days', copies)
    BY <1>10, <2>1 DEF PollKeycloakFails, EnterWrite
  <2>3. QED
    BY <1>0, <1>10, <2>2 DEF PollKeycloakFails, EnterWrite, Goto, Threads,
       world, history, Logged
<1>11. ASSUME NEW d \in 1 .. MaxDay, WriteDay(d) PROVE Logged'
  <2>1. \A l \in Lines : copies[l] > 0 => copies'[l] > 0
    BY <1>11, AppendGrows DEF WriteDay
  <2>2. Pending(mem["poll"].mark, got, dayOf, days, copies) =>
          Pending(mem["poll"].mark, got, dayOf, days', copies')
    BY <1>11, <2>1, AppendGrows DEF WriteDay, LinesOn, Collected, Pending
  <2>3. QED
    BY <1>0, <1>11, <2>1, <2>2, CoveredFacts DEF WriteDay, Threads, world,
       history, Logged
<1>12. ASSUME NEW d \in 1 .. MaxDay, WriteDayFails(d) PROVE Logged'
  <2>1. \A l \in Lines : copies[l] > 0 => copies'[l] > 0
    BY <1>12, AppendGrows DEF WriteDayFails
  <2>2. QED
    BY <1>0, <1>12, <2>1, CoveredFacts DEF WriteDayFails, Threads, world,
       history, Logged
<1>13. CASE TakeLock
  <2>1. writeOK => Covered(got, base, copies)
    BY <1>13, CoveredFacts, StateParts DEF TakeLock, Goto, Logged, Typed,
       TypeOK, Threads
  <2>2. mem'["poll"].mark = IF writeOK THEN got ELSE mem["poll"].mark
    BY <1>0, <1>13 DEF TakeLock, Threads, State
  <2>3. QED
    BY <1>0, <1>13, <2>1, <2>2 DEF TakeLock, Goto, Threads, world, history,
       Logged
<1>14. CASE AcquirePoll
  BY <1>0, <1>14 DEF AcquirePoll, Goto, Threads, world, cycle, history, Logged
<1>15. CASE RereadPoll
  <2>1. mem'["poll"].mark = mem["poll"].mark
    BY <1>0, <1>15 DEF RereadPoll, MergeFresh, Threads
  <2>2. QED
    BY <1>0, <1>15, <2>1 DEF RereadPoll, Goto, Threads, world, cycle, history,
       Logged
<1>16. CASE RereadPollFails
  BY <1>0, <1>16 DEF RereadPollFails, Goto, Forget, Threads, world, cycle,
     history, Logged
<1>17. CASE PutPoll
  BY <1>0, <1>17, StoreCovers DEF PutPoll, Goto, Forget, Threads, world, cycle,
     history, Logged
<1>18. CASE PutPollFails
  BY <1>0, <1>18, StoreCovers DEF PutPollFails, Goto, Forget, Threads, world,
     cycle, history, Logged
<1>19. CASE StartCleanup
  BY <1>0, <1>19 DEF StartCleanup, Goto, Threads, world, cycle, history, Logged
<1>20. CASE WakeCleanup
  BY <1>0, <1>20 DEF WakeCleanup, Goto, Threads, world, cycle, history, Logged
<1>21. CASE AcquireCleanup
  BY <1>0, <1>21 DEF AcquireCleanup, Goto, Threads, world, cycle, history,
     Logged
<1>22. CASE RereadCleanup
  BY <1>0, <1>22 DEF RereadCleanup, Goto, Threads, world, cycle, history,
     Logged
<1>23. CASE RereadCleanupFails
  BY <1>0, <1>23 DEF RereadCleanupFails, Goto, Threads, world, cycle, history,
     Logged
<1>24. CASE PutCleanup
  BY <1>0, <1>24, StoreCovers DEF PutCleanup, Goto, Forget, Threads, world,
     cycle, history, Logged
<1>25. CASE PutCleanupFails
  BY <1>0, <1>25, StoreCovers DEF PutCleanupFails, Goto, Forget, Threads,
     world, cycle, history, Logged
<1>26. ASSUME NEW f \in Feeds, NewItem(f) PROVE Logged'
  <2>1. \A l \in Lines : l[2] <= made[l[1]] => dayOf'[l] = dayOf[l]
    BY <1>26, MarkParts, LineParts DEF NewItem, Typed, TypeOK
  <2>2. \A l \in Lines : l[2] <= got[l[1]] => l[2] <= made[l[1]]
    BY MarkParts, LineParts DEF Typed, TypeOK, Behind, Upto
  <2>3. Pending(mem["poll"].mark, got, dayOf, days, copies) =>
          Pending(mem["poll"].mark, got, dayOf', days, copies)
    BY <2>1, <2>2 DEF Pending
  <2>4. QED
    BY <1>0, <1>26, <2>3 DEF NewItem, Threads, cycle, history, Logged
<1>27. CASE Midnight
  BY <1>0, <1>27 DEF Midnight, Threads, cycle, history, Logged
<1>28. CASE Crash
  BY <1>0, <1>28 DEF Crash, Threads, world, history, Logged
<1>29. CASE DeleteConfigMap
  <2>1. Covered(cm'.mark, base, copies)
    BY <1>29, CoveredFacts DEF DeleteConfigMap, Typed, TypeOK
  <2>2. QED
    BY <1>0, <1>29, <2>1 DEF DeleteConfigMap, Threads, world, cycle, history,
       Logged
<1>30. CASE UNCHANGED vars
  BY <1>30 DEF vars, world, cycle, history, Logged
<1>31. QED
  BY <1>1, <1>2, <1>3, <1>4, <1>5, <1>6, <1>7, <1>8, <1>9, <1>10, <1>11, <1>12,
     <1>13, <1>14, <1>15, <1>16, <1>17, <1>18, <1>19, <1>20, <1>21, <1>22,
     <1>23, <1>24, <1>25, <1>26, <1>27, <1>28, <1>29, <1>30 DEF Next, PollStep,
     CleanupStep, FaultStep, WorldStep

-----------------------------------------------------------------------------
\* Every second copy was paid for.  A line that is past the watermark may be
\* written again without a failure, so it has at most one copy per failure.

Cheap(c, n) == \A l \in Lines : c[l] <= n

Paid(m, c, n) == \A l \in Lines : l[2] > m[l[1]] => c[l] <= n

Written(m, g, d, todo, ok, c, n) ==
  \A l \in Lines : l[2] > m[l[1]] =>
    c[l] <= n \/ (ok /\ l[2] <= g[l[1]] /\ d[l] \notin todo)

Priced ==
  /\ Cheap(copies, 1 + faults)
  /\ pc["poll"] \in {"discover", "create"} => ~cm.there
  /\ pc["poll"] \in {"read", "discover", "create"} => Paid(cm.mark, copies, faults)
  /\ pc["poll"] \in {"tx", "kc", "lock", "reread", "put"} => Paid(mem["poll"].mark, copies, faults)
  /\ pc["poll"] = "write" =>
       /\ Written(mem["poll"].mark, got, dayOf, days, writeOK, copies, faults)
       /\ ~writeOK => days = {}
  /\ pc["poll"] = "put" /\ ~mem["poll"].there => ~cm.there
  /\ pc["poll"] = "put" /\ mem["poll"].there /\ ~cm.there => Cheap(copies, faults)

LEMMA PaidFacts ==
  /\ \A c, n, m : Cheap(c, n) => Paid(m, c, n)
  /\ \A c, n : Paid(NoState.mark, c, n) => Cheap(c, n)
  /\ \A m, c, n, g, d, todo, ok : Paid(m, c, n) => Written(m, g, d, todo, ok, c, n)
  /\ \A m, c, n, g, d : Written(m, g, d, {}, FALSE, c, n) => Paid(m, c, n)
  /\ \A m, g \in Marks : \A c, n, d, todo, ok :
       Written(m, g, d, todo, ok, c, n) /\ AtMost(m, g) => Paid(g, c, n)
<1>1. \A l \in Lines, m \in Marks : l[1] \in Feeds /\ l[2] \in Nat \ {0} /\ m[l[1]] \in Nat
  BY LineParts, MarkParts
<1>2. \A f \in Feeds : NoState.mark[f] = 0
  BY DEF NoState
<1>3. \A c, n : Paid(NoState.mark, c, n) => Cheap(c, n)
  <2>1. \A l \in Lines : l[2] > NoState.mark[l[1]]
    BY <1>1, <1>2, LineParts
  <2>2. QED
    BY <2>1 DEF Cheap, Paid
<1>4. ASSUME NEW m \in Marks, NEW g \in Marks, NEW c, NEW n, NEW d, NEW todo, NEW ok,
             Written(m, g, d, todo, ok, c, n), AtMost(m, g)
      PROVE  Paid(g, c, n)
  <2>1. \A l \in Lines : l[2] > g[l[1]] => l[2] > m[l[1]] /\ ~(l[2] <= g[l[1]])
    BY <1>1, <1>4 DEF AtMost
  <2>2. QED
    BY <1>4, <2>1 DEF Written, Paid
<1>5. QED
  BY <1>3, <1>4 DEF Cheap, Paid, Written

LEMMA FaultPays ==
  ASSUME Typed, Priced, Fault
  PROVE  Cheap(copies, faults')
<1>1. faults \in Nat
  BY DEF Typed, TypeOK
<1>2. QED
  BY <1>1 DEF Fault, Priced, Cheap

LEMMA CheaperYet ==
  ASSUME Typed, NEW n \in Nat, Cheap(copies, n)
  PROVE  Cheap(copies, 1 + n)
<1>1. \A l \in Lines : copies[l] \in Nat
  BY DEF Typed, TypeOK
<1>2. QED
  BY <1>1 DEF Cheap

LEMMA CleanupKeepsMark ==
  ASSUME Typed, Fresh, pc["cleanup"] = "put", PutApplied("cleanup") \/ Leave("cleanup")
  PROVE  cm'.there = cm.there /\ cm'.mark = cm.mark
<1>1. CASE PutApplied("cleanup")
  <2>1. cm'.mark = mem["cleanup"].mark /\ cm'.there
    BY <1>1 DEF PutApplied, Store, Typed, TypeOK, State, Threads
  <2>2. cm.there
    BY <1>1 DEF PutApplied, Accepts, Fresh
  <2>3. QED
    BY <2>1, <2>2, StateParts DEF Fresh, Typed, TypeOK
<1>2. QED
  BY <1>1 DEF Leave

LEMMA PricedNext == Typed /\ Serial /\ Fresh /\ Logged /\ Priced /\ [Next]_vars => Priced'
<1> SUFFICES ASSUME Typed, Serial, Fresh, Logged, Priced, [Next]_vars PROVE Priced'
  OBVIOUS
<1>0. mem \in [Threads -> State] /\ pc \in [Threads -> PollLabels \union CleanupLabels] /\ faults \in Nat
  BY DEF Typed, TypeOK
<1>00. \A m : Fault => Cheap(copies, faults') /\ Cheap(copies, 1 + faults') /\ Paid(m, copies, faults')
  <2>1. Fault => faults' \in Nat
    BY <1>0 DEF Fault
  <2>2. ASSUME Fault PROVE Cheap(copies, faults') /\ Cheap(copies, 1 + faults')
    BY <2>1, <2>2, FaultPays, CheaperYet
  <2>3. QED
    BY <2>2, PaidFacts
<1>1. CASE ReadState
  BY <1>0, <1>1 DEF ReadState, Goto, Threads, world, history, Priced
<1>2. CASE ReadStateFails
  BY <1>0, <1>00, <1>2, PaidFacts DEF ReadStateFails, EnterWrite, Threads,
     world, cycle, history, Priced
<1>3. CASE Discover
  BY <1>0, <1>3 DEF Discover, Goto, Threads, world, cycle, history, Priced
<1>4. CASE DiscoverFails
  BY <1>0, <1>00, <1>4, PaidFacts DEF DiscoverFails, EnterWrite, Goto, Threads,
     world, cycle, history, Priced
<1>5. CASE CreateState
  <2>1. ~cm.there /\ Cheap(copies, faults)
    BY <1>5, PaidFacts DEF CreateState, Goto, Priced, Logged
  <2>2. cm'.there /\ \A m : Paid(m, copies, faults)
    BY <1>5, <2>1, PaidFacts DEF CreateState, CreateApplied, Store, Typed,
       TypeOK, State, Threads
  <2>3. QED
    BY <1>0, <1>5, <2>2 DEF CreateState, Goto, Forget, Threads, world, cycle,
       history, Priced
<1>6. CASE CreateStateFails
  BY <1>0, <1>00, <1>6, PaidFacts DEF CreateStateFails, NoState, EnterWrite,
     Goto, Forget, Threads, world, cycle, history, Priced
<1>7. CASE PollTransactions
  BY <1>0, <1>7 DEF PollTransactions, Goto, Threads, world, history, Priced
<1>8. CASE PollTransactionsFails
  BY <1>0, <1>00, <1>8, PaidFacts DEF PollTransactionsFails, EnterWrite, Goto,
     Threads, world, cycle, history, Priced
<1>9. CASE PollKeycloak
  BY <1>0, <1>9, PaidFacts DEF PollKeycloak, EnterWrite, Goto, Threads, world,
     history, Priced
<1>10. CASE PollKeycloakFails
  BY <1>0, <1>00, <1>10, PaidFacts DEF PollKeycloakFails, EnterWrite, Goto,
     Threads, world, history, Priced
<1>11. ASSUME NEW d \in 1 .. MaxDay, WriteDay(d) PROVE Priced'
  <2>1. /\ faults \in Nat /\ copies \in [Lines -> Nat] /\ mem["poll"].mark \in Marks /\ got \in Marks
        /\ \A l \in Lines : l[1] \in Feeds /\ l[2] \in Nat /\ mem["poll"].mark[l[1]] \in Nat
    BY LineParts, StateParts, MarkParts DEF Typed, TypeOK, Threads
  <2>2. writeOK
    BY <1>11 DEF WriteDay, Priced, NextDayToWrite
  <2>3. \A l \in Lines : copies'[l] = copies[l] \/ (copies'[l] = copies[l] + 1 /\ l \in LinesOn(d))
    BY <1>11, <2>1 DEF WriteDay, Append
  <2>4. \A l \in LinesOn(d) : copies[l] <= faults /\ l[2] <= got[l[1]] /\ dayOf[l] = d
    BY <1>11, <2>1 DEF WriteDay, NextDayToWrite, LinesOn, Collected, Priced,
       Written
  <2>5. Cheap(copies', 1 + faults)
    BY <2>1, <2>3, <2>4 DEF Priced, Cheap
  <2>6. Written(mem["poll"].mark, got, dayOf, days \ {d}, writeOK, copies', faults)
    BY <1>11, <2>1, <2>2, <2>3, <2>4 DEF WriteDay, Priced, Written
  <2>7. QED
    BY <1>11, <2>2, <2>5, <2>6 DEF WriteDay, Threads, world, history, Priced
<1>12. ASSUME NEW d \in 1 .. MaxDay, WriteDayFails(d) PROVE Priced'
  <2>1. /\ faults \in Nat /\ copies \in [Lines -> Nat] /\ mem["poll"].mark \in Marks /\ got \in Marks
        /\ \A l \in Lines : l[1] \in Feeds /\ l[2] \in Nat /\ mem["poll"].mark[l[1]] \in Nat
    BY LineParts, StateParts, MarkParts DEF Typed, TypeOK, Threads
  <2>2. writeOK
    BY <1>12 DEF WriteDayFails, Priced, NextDayToWrite
  <2>3. PICK some \in SUBSET LinesOn(d) : Append(some)
    BY <1>12 DEF WriteDayFails
  <2>4. \A l \in Lines : copies'[l] = copies[l] \/ (copies'[l] = copies[l] + 1 /\ l \in LinesOn(d))
    BY <2>1, <2>3 DEF Append
  <2>5. \A l \in LinesOn(d) : copies[l] <= faults
    BY <1>12, <2>1 DEF WriteDayFails, NextDayToWrite, LinesOn, Collected,
       Priced, Written
  <2>6. Cheap(copies', faults') /\ Cheap(copies', 1 + faults')
    BY <1>12, <2>1, <2>4, <2>5 DEF WriteDayFails, Fault, Priced, Cheap
  <2>7. QED
    BY <1>12, <2>6, PaidFacts DEF WriteDayFails, Threads, world, history,
       Priced
<1>13. CASE TakeLock
  <2>1. Paid(got, copies, faults)
    <3>1. Written(mem["poll"].mark, got, dayOf, days, writeOK, copies, faults)
      BY <1>13 DEF TakeLock, Goto, Priced
    <3>2. AtMost(mem["poll"].mark, got)
      BY <1>13 DEF TakeLock, Goto, Fresh, Polling
    <3>3. mem["poll"].mark \in Marks /\ got \in Marks
      BY StateParts DEF Typed, TypeOK, Threads
    <3>4. QED
      BY <3>1, <3>2, <3>3, PaidFacts
  <2>2. ~writeOK => Paid(mem["poll"].mark, copies, faults)
    <3>1. SUFFICES ASSUME writeOK = FALSE PROVE Paid(mem["poll"].mark, copies, faults)
      BY DEF Typed, TypeOK
    <3>2. Written(mem["poll"].mark, got, dayOf, {}, FALSE, copies, faults)
      BY <1>13, <3>1 DEF TakeLock, Goto, Priced
    <3>3. QED
      BY <3>2, PaidFacts
  <2>3. mem'["poll"].mark = IF writeOK THEN got ELSE mem["poll"].mark
    BY <1>0, <1>13 DEF TakeLock, Threads, State
  <2>4. QED
    BY <1>0, <1>13, <2>1, <2>2, <2>3 DEF TakeLock, Goto, Threads, world,
       history, Priced
<1>14. CASE AcquirePoll
  BY <1>0, <1>14 DEF AcquirePoll, Goto, Threads, world, cycle, history, Priced
<1>15. CASE RereadPoll
  <2>1. mem'["poll"].mark = mem["poll"].mark /\ mem'["poll"].there = cm.there
    BY <1>0, <1>15 DEF RereadPoll, MergeFresh, Threads
  <2>2. QED
    BY <1>0, <1>15, <2>1 DEF RereadPoll, Goto, Threads, world, cycle, history,
       Priced
<1>16. CASE RereadPollFails
  BY <1>0, <1>00, <1>16, PaidFacts DEF RereadPollFails, NoState, EnterWrite,
     Goto, Forget, Threads, world, cycle, history, Priced
<1>17. CASE PutPoll
  <2>1. CASE PutApplied("poll")
    <3>1. cm'.mark = mem["poll"].mark /\ cm'.there
      BY <2>1 DEF PutApplied, Store, Typed, TypeOK, State, Threads
    <3>2. QED
      BY <1>0, <1>17, <3>1 DEF PutPoll, Goto, Forget, Threads, world, cycle,
         history, Priced
  <2>2. CASE ~Accepts("poll") /\ Leave("poll")
    <3>1. ~cm.there /\ mem["poll"].there
      BY <1>17, <2>2 DEF PutPoll, Goto, Accepts, Priced, Serial, NoConflict,
         Threads
    <3>2. Cheap(copies, faults)
      BY <1>17, <3>1 DEF PutPoll, Goto, Priced
    <3>3. QED
      BY <1>0, <1>17, <2>2, <3>1, <3>2, PaidFacts DEF PutPoll, Leave, Goto,
         Forget, Threads, world, cycle, history, Priced
  <2>3. QED
    BY <1>17, <2>1, <2>2 DEF PutPoll
<1>18. CASE PutPollFails
  BY <1>0, <1>00, <1>18, PaidFacts DEF PutPollFails, NoState, EnterWrite, Goto,
     Forget, Threads, world, cycle, history, Priced
<1>19. CASE StartCleanup
  BY <1>0, <1>19 DEF StartCleanup, Goto, Threads, world, cycle, history, Priced
<1>20. CASE WakeCleanup
  BY <1>0, <1>20 DEF WakeCleanup, Goto, Threads, world, cycle, history, Priced
<1>21. CASE AcquireCleanup
  BY <1>0, <1>21 DEF AcquireCleanup, Goto, Threads, world, cycle, history,
     Priced
<1>22. CASE RereadCleanup
  BY <1>0, <1>22 DEF RereadCleanup, Goto, Threads, world, cycle, history,
     Priced
<1>23. CASE RereadCleanupFails
  BY <1>0, <1>00, <1>23, PaidFacts DEF RereadCleanupFails, EnterWrite, Goto,
     Threads, world, cycle, history, Priced
<1>24. CASE PutCleanup
  BY <1>0, <1>24, CleanupKeepsMark DEF PutCleanup, Goto, Forget, Threads,
     world, cycle, history, Priced
<1>25. CASE PutCleanupFails
  BY <1>0, <1>00, <1>25, PaidFacts, CleanupKeepsMark DEF PutCleanupFails, Goto,
     Forget, Threads, world, cycle, history, Priced
<1>26. ASSUME NEW f \in Feeds, NewItem(f) PROVE Priced'
  <2>1. \A l \in Lines : l[2] <= made[l[1]] => dayOf'[l] = dayOf[l]
    BY <1>26, MarkParts, LineParts DEF NewItem, Typed, TypeOK
  <2>2. \A l \in Lines : l[2] <= got[l[1]] => l[2] <= made[l[1]]
    BY MarkParts, LineParts DEF Typed, TypeOK, Behind, Upto
  <2>3. Written(mem["poll"].mark, got, dayOf, days, writeOK, copies, faults) =>
          Written(mem["poll"].mark, got, dayOf', days, writeOK, copies, faults)
    BY <2>1, <2>2 DEF Written
  <2>4. QED
    BY <1>0, <1>26, <2>3 DEF NewItem, Threads, cycle, history, Priced
<1>27. CASE Midnight
  BY <1>0, <1>27 DEF Midnight, Threads, cycle, history, Priced
<1>28. CASE Crash
  BY <1>0, <1>00, <1>28, PaidFacts DEF Crash, ClearCycle, NoState, EnterWrite,
     Threads, world, history, Priced
<1>29. CASE DeleteConfigMap
  BY <1>0, <1>00, <1>29, PaidFacts DEF DeleteConfigMap, NoState, EnterWrite,
     Threads, world, cycle, history, Priced
<1>30. CASE UNCHANGED vars
  BY <1>30 DEF vars, world, cycle, history, Priced
<1>31. QED
  BY <1>1, <1>2, <1>3, <1>4, <1>5, <1>6, <1>7, <1>8, <1>9, <1>10, <1>11, <1>12,
     <1>13, <1>14, <1>15, <1>16, <1>17, <1>18, <1>19, <1>20, <1>21, <1>22,
     <1>23, <1>24, <1>25, <1>26, <1>27, <1>28, <1>29, <1>30 DEF Next, PollStep,
     CleanupStep, FaultStep, WorldStep

-----------------------------------------------------------------------------
\* The theorems.

Inv == Typed /\ Serial /\ Fresh /\ Logged /\ Priced

LEMMA InvInit == Init => Inv
<1> SUFFICES ASSUME Init PROVE Inv
  OBVIOUS
<1>1. Typed
  BY TypedInit
<1>2. pc["poll"] = "read" /\ pc["cleanup"] = "start" /\ cm = NoState /\ ~cm.there
  BY DEF Init, Threads, NoState
<1>3. Serial /\ Fresh
  BY <1>2 DEF Serial, NoConflict, Fresh, InCycle, Polling, Threads
<1>4. faults = 0 /\ base \in Marks /\ \A l \in Lines : copies[l] = 0
  BY ZeroMarks DEF Init
<1>5. Logged
  BY <1>2, <1>4, CoveredFacts DEF Logged, InCycle
<1>6. Cheap(copies, 1 + faults) /\ Paid(cm.mark, copies, faults)
  BY <1>4 DEF Cheap, Paid
<1>7. Priced
  BY <1>2, <1>6 DEF Priced
<1>8. QED
  BY <1>1, <1>3, <1>5, <1>7 DEF Inv

LEMMA InvNext == Inv /\ [Next]_vars => Inv'
  BY TypedNext, SerialNext, FreshNext, LoggedNext, PricedNext DEF Inv

\* The inductive invariant of the loop: types, lock, ownership of the fields,
\* what is logged and what has been paid for.
THEOREM Invariant == Spec => []Inv
<1>1. Init => Inv
  BY InvInit
<1>2. Inv /\ [Next]_vars => Inv'
  BY InvNext
<1>3. QED
  BY <1>1, <1>2, PTL DEF Spec

\* No saved watermark has passed a line that is in no file, whatever fails and
\* wherever the process crashes.
THEOREM NothingLost == Spec => []NoLoss
<1>1. Inv => NoLoss
  BY DEF Inv, Logged, Covered, NoLoss
<1>2. QED
  BY <1>1, Invariant, PTL

\* A line is written twice only after a failure, a third time only after two.
THEOREM NoFreeDuplicates == Spec => []DuplicatesOnlyFromFaults
<1>1. Inv => DuplicatesOnlyFromFaults
  BY DEF Inv, Priced, Cheap, DuplicatesOnlyFromFaults
<1>2. QED
  BY <1>1, Invariant, PTL

\* While _state_lock is held the resourceVersion read under it stays the newest
\* one, so the two threads never refuse each other's saves.
THEOREM SavesNeverRefused == Spec => []NoConflict
<1>1. Inv => NoConflict
  BY DEF Inv, Serial
<1>2. QED
  BY <1>1, Invariant, PTL

\* No save takes a watermark or lastCleanupTime back.
THEOREM NeverRollsBack == Spec => StateNeverRollsBack
<1>1. Inv /\ [Next]_vars =>
        [cm.there /\ cm'.there =>
           /\ \A f \in Feeds : cm.mark[f] <= cm'.mark[f]
           /\ cm.cleaned <= cm'.cleaned]_vars
  BY NeverBack DEF Inv
<1>2. QED
  BY <1>1, Invariant, PTL DEF Spec, StateNeverRollsBack

-----------------------------------------------------------------------------
\* Refinement.  As long as nobody deletes the ConfigMap each feed implements
\* AuditTrail: a step of the loop makes an item, starts the trail, records
\* items above the mark, advances the mark over recorded items, or is not seen.

Begun ==
  /\ started = cm.there
  /\ InCycle \/ pc["cleanup"] = "put" => started
  /\ started => AtMost(base, cm.mark)

LEMMA BegunPut ==
  ASSUME Typed, Serial, Fresh, Logged, Begun, NEW t \in Threads, pc[t] = "put",
         PutApplied(t) \/ Leave(t)
  PROVE  cm'.there /\ started /\ AtMost(cm.mark, cm'.mark) /\ cm.mark \in Marks /\ cm'.mark \in Marks
<1>1. started /\ cm.there /\ cm.mark \in Marks
  <2>1. CASE t = "poll"
    BY <2>1, StateParts DEF Begun, InCycle, Typed, TypeOK
  <2>2. CASE t = "cleanup"
    BY <2>2, StateParts DEF Begun, Typed, TypeOK
  <2>3. QED
    BY <2>1, <2>2 DEF Threads
<1>2. CASE Leave(t)
  BY <1>1, <1>2, AtMostSelf DEF Leave
<1>3. CASE PutApplied(t)
  <2>1. cm'.mark = mem[t].mark /\ cm'.there /\ mem[t].mark \in Marks
    BY <1>3, StateParts DEF PutApplied, Store, Typed, TypeOK, State
  <2>2. AtMost(cm.mark, mem[t].mark)
    <3>1. CASE t = "poll"
      BY <1>1, <3>1 DEF Fresh, InCycle
    <3>2. CASE t = "cleanup"
      BY <1>1, <3>2, AtMostSelf DEF Fresh
    <3>3. QED
      BY <3>1, <3>2 DEF Threads
  <2>3. QED
    BY <1>1, <2>1, <2>2
<1>4. QED
  BY <1>2, <1>3

LEMMA BegunNext == ~MayDelete /\ Typed /\ Serial /\ Fresh /\ Logged /\ Begun /\ [Next]_vars => Begun'
<1> SUFFICES ASSUME ~MayDelete, Typed, Serial, Fresh, Logged, Begun, [Next]_vars PROVE Begun'
  OBVIOUS
<1>0. pc \in [Threads -> PollLabels \union CleanupLabels] /\ base \in Marks /\ cm.mark \in Marks
  BY StateParts DEF Typed, TypeOK
<1> USE DEF InCycle
<1>1. CASE ReadState
  BY <1>0, <1>1 DEF ReadState, Goto, Threads, world, history, Begun
<1>2. CASE ReadStateFails
  BY <1>0, <1>2 DEF ReadStateFails, Threads, world, cycle, history, Begun
<1>3. CASE Discover
  BY <1>0, <1>3 DEF Discover, Goto, Threads, world, cycle, history, Begun
<1>4. CASE DiscoverFails
  BY <1>0, <1>4 DEF DiscoverFails, Goto, Threads, world, cycle, history, Begun
<1>5. CASE CreateState
  <2>1. CASE CreateApplied
    <3>1. cm'.mark = mem["poll"].mark /\ cm'.there /\ base' = mem["poll"].mark /\ started' /\ mem["poll"].mark \in Marks
      BY <2>1, StateParts DEF CreateApplied, Store, Typed, TypeOK, State,
         Threads
    <3>2. QED
      BY <1>0, <1>5, <3>1, AtMostSelf DEF CreateState, Goto, Threads, world,
         cycle, history, Begun
  <2>2. CASE Leave("poll") /\ UNCHANGED history
    BY <1>0, <1>5, <2>2 DEF CreateState, Leave, Goto, Threads, world, cycle,
       history, Begun
  <2>3. QED
    BY <1>5, <2>1, <2>2 DEF CreateState
<1>6. CASE CreateStateFails
  <2>1. CASE CreateApplied
    <3>1. cm'.mark = mem["poll"].mark /\ cm'.there /\ base' = mem["poll"].mark /\ started' /\ mem["poll"].mark \in Marks
      BY <2>1, StateParts DEF CreateApplied, Store, Typed, TypeOK, State,
         Threads
    <3>2. QED
      BY <1>0, <1>6, <3>1, AtMostSelf DEF CreateStateFails, Goto, Threads,
         world, cycle, history, Begun
  <2>2. CASE Leave("poll") /\ UNCHANGED history
    BY <1>0, <1>6, <2>2 DEF CreateStateFails, Leave, Goto, Threads, world,
       cycle, history, Begun
  <2>3. QED
    BY <1>6, <2>1, <2>2 DEF CreateStateFails
<1>7. CASE PollTransactions
  BY <1>0, <1>7 DEF PollTransactions, Goto, Threads, world, history, Begun
<1>8. CASE PollTransactionsFails
  BY <1>0, <1>8 DEF PollTransactionsFails, Goto, Threads, world, cycle,
     history, Begun
<1>9. CASE PollKeycloak
  BY <1>0, <1>9 DEF PollKeycloak, Goto, Threads, world, history, Begun
<1>10. CASE PollKeycloakFails
  BY <1>0, <1>10 DEF PollKeycloakFails, Goto, Threads, world, history, Begun
<1>11. ASSUME NEW d \in 1 .. MaxDay, WriteDay(d) PROVE Begun'
  BY <1>0, <1>11 DEF WriteDay, Threads, world, history, Begun
<1>12. ASSUME NEW d \in 1 .. MaxDay, WriteDayFails(d) PROVE Begun'
  BY <1>0, <1>12 DEF WriteDayFails, Threads, world, history, Begun
<1>13. CASE TakeLock
  BY <1>0, <1>13 DEF TakeLock, Goto, Threads, world, history, Begun
<1>14. CASE AcquirePoll
  BY <1>0, <1>14 DEF AcquirePoll, Goto, Threads, world, cycle, history, Begun
<1>15. CASE RereadPoll
  BY <1>0, <1>15 DEF RereadPoll, Goto, Threads, world, cycle, history, Begun
<1>16. CASE RereadPollFails
  BY <1>0, <1>16 DEF RereadPollFails, Goto, Threads, world, cycle, history,
     Begun
<1>17. CASE PutPoll
  <2>1. cm'.there /\ started /\ AtMost(cm.mark, cm'.mark) /\ cm'.mark \in Marks
    BY <1>17, BegunPut DEF PutPoll, Goto, Threads
  <2>2. QED
    BY <1>0, <1>17, <2>1, AtMostTrans DEF PutPoll, Goto, Threads, world, cycle,
       history, Begun
<1>18. CASE PutPollFails
  <2>1. cm'.there /\ started /\ AtMost(cm.mark, cm'.mark) /\ cm'.mark \in Marks
    BY <1>18, BegunPut DEF PutPollFails, Goto, Threads
  <2>2. QED
    BY <1>0, <1>18, <2>1, AtMostTrans DEF PutPollFails, Goto, Threads, world,
       cycle, history, Begun
<1>19. CASE StartCleanup
  BY <1>0, <1>19 DEF StartCleanup, Goto, Threads, world, cycle, history, Begun
<1>20. CASE WakeCleanup
  BY <1>0, <1>20 DEF WakeCleanup, Goto, Threads, world, cycle, history, Begun
<1>21. CASE AcquireCleanup
  BY <1>0, <1>21 DEF AcquireCleanup, Goto, Threads, world, cycle, history,
     Begun
<1>22. CASE RereadCleanup
  BY <1>0, <1>22 DEF RereadCleanup, Goto, Threads, world, cycle, history, Begun
<1>23. CASE RereadCleanupFails
  BY <1>0, <1>23 DEF RereadCleanupFails, Goto, Threads, world, cycle, history,
     Begun
<1>24. CASE PutCleanup
  <2>1. cm'.there /\ started /\ AtMost(cm.mark, cm'.mark) /\ cm'.mark \in Marks
    BY <1>24, BegunPut DEF PutCleanup, Goto, Threads
  <2>2. QED
    BY <1>0, <1>24, <2>1, AtMostTrans DEF PutCleanup, Goto, Threads, world,
       cycle, history, Begun
<1>25. CASE PutCleanupFails
  <2>1. cm'.there /\ started /\ AtMost(cm.mark, cm'.mark) /\ cm'.mark \in Marks
    BY <1>25, BegunPut DEF PutCleanupFails, Goto, Threads
  <2>2. QED
    BY <1>0, <1>25, <2>1, AtMostTrans DEF PutCleanupFails, Goto, Threads,
       world, cycle, history, Begun
<1>26. ASSUME NEW f \in Feeds, NewItem(f) PROVE Begun'
  BY <1>0, <1>26 DEF NewItem, Threads, cycle, history, Begun
<1>27. CASE Midnight
  BY <1>0, <1>27 DEF Midnight, Threads, cycle, history, Begun
<1>28. CASE Crash
  BY <1>0, <1>28 DEF Crash, Threads, world, history, Begun
<1>29. CASE DeleteConfigMap
  BY <1>0, <1>29 DEF DeleteConfigMap, Threads, world, cycle, history, Begun
<1>30. CASE UNCHANGED vars
  BY <1>30 DEF vars, world, cycle, history, Begun
<1>31. QED
  BY <1>1, <1>2, <1>3, <1>4, <1>5, <1>6, <1>7, <1>8, <1>9, <1>10, <1>11, <1>12,
     <1>13, <1>14, <1>15, <1>16, <1>17, <1>18, <1>19, <1>20, <1>21, <1>22,
     <1>23, <1>24, <1>25, <1>26, <1>27, <1>28, <1>29, <1>30 DEF Next, PollStep,
     CleanupStep, FaultStep, WorldStep

Mark(f) == IF started THEN cm.mark[f] ELSE -1

Passed(f) == {n \in 1 .. made[f] : Mark(f) < n}

TrailStep(f) ==
  \/ /\ made'[f] = made[f] + 1 /\ made'[f] <= Bound(f)
     /\ Mark(f)' = Mark(f) /\ RecordedItems(f)' = RecordedItems(f)
  \/ /\ ~started /\ Mark(f)' \in 0 .. made[f]
     /\ made'[f] = made[f] /\ RecordedItems(f)' = RecordedItems(f)
  \/ /\ started /\ \E S \in SUBSET Passed(f) : RecordedItems(f)' = RecordedItems(f) \union S
     /\ made'[f] = made[f] /\ Mark(f)' = Mark(f)
  \/ /\ started /\ Mark(f)' \in Mark(f) .. Bound(f)
     /\ \A n \in Passed(f) : n <= Mark(f)' => n \in RecordedItems(f)
     /\ made'[f] = made[f] /\ RecordedItems(f)' = RecordedItems(f)
  \/ made'[f] = made[f] /\ Mark(f)' = Mark(f) /\ RecordedItems(f)' = RecordedItems(f)

LEMMA ItemLine == \A f \in Feeds : \A n \in 1 .. Bound(f) : <<f, n>> \in Lines
  BY DEF Feeds, Bound, Lines

LEMMA RecordedKept ==
  ASSUME NEW f \in Feeds, UNCHANGED copies
  PROVE  RecordedItems(f)' = RecordedItems(f)
  BY DEF RecordedItems

LEMMA QuietStep ==
  ASSUME NEW f \in Feeds, UNCHANGED <<copies, cm, started>>, made'[f] = made[f]
  PROVE  TrailStep(f)
  BY RecordedKept DEF TrailStep, Mark

LEMMA AppendStep ==
  ASSUME Typed, Fresh, Begun, NEW f \in Feeds, pc["poll"] = "write",
         NEW lines \in SUBSET Collected(got), Append(lines), UNCHANGED <<made, cm, started>>
  PROVE  TrailStep(f)
<1> DEFINE S == {n \in 1 .. Bound(f) : <<f, n>> \in lines}
<1>1. started /\ cm.there
  BY DEF Begun, InCycle
<1>2. \A n \in 1 .. Bound(f) : cm.mark[f] \in Int /\ mem["poll"].mark[f] \in Int /\ got[f] \in Int /\ made[f] \in Int
  BY StateParts, MarkParts DEF Typed, TypeOK, Threads
<1>3. cm.mark[f] <= mem["poll"].mark[f] /\ got[f] <= made[f]
  BY <1>1 DEF Fresh, InCycle, AtMost, Typed, Behind, Upto
<1>4. S \in SUBSET Passed(f)
  BY <1>1, <1>2, <1>3 DEF Passed, Mark, Collected
<1>5. \A l \in Lines : copies'[l] > 0 <=> copies[l] > 0 \/ l \in lines
  BY DEF Append, Typed, TypeOK
<1>6. RecordedItems(f)' = RecordedItems(f) \union S
  BY <1>5, ItemLine DEF RecordedItems
<1>7. QED
  BY <1>1, <1>4, <1>6 DEF TrailStep, Mark

LEMMA StartStep ==
  ASSUME Typed, Begun, NEW f \in Feeds, CreateApplied, UNCHANGED <<made, copies>>
  PROVE  TrailStep(f)
<1>1. ~started /\ started' /\ cm'.mark = mem["poll"].mark
  BY DEF CreateApplied, Begun, Store, Typed, TypeOK, State, Threads
<1>2. cm'.mark[f] \in 0 .. made[f]
  BY <1>1, StateParts, MarkParts DEF Typed, TypeOK, Behind, Upto, Threads
<1>3. QED
  BY <1>1, <1>2, RecordedKept DEF TrailStep, Mark

LEMMA AdvanceStep ==
  ASSUME Typed, Serial, Fresh, Logged, Begun, NEW f \in Feeds, NEW t \in Threads, pc[t] = "put",
         PutApplied(t) \/ Leave(t), UNCHANGED <<made, copies, started>>
  PROVE  TrailStep(f)
<1>1. started /\ AtMost(cm.mark, cm'.mark) /\ cm.mark \in Marks /\ cm'.mark \in Marks
  BY BegunPut
<1>2. Covered(cm'.mark, base, copies)
  BY StoreCovers
<1>3. base[f] <= cm.mark[f] /\ cm.mark[f] <= cm'.mark[f]
  BY <1>1 DEF Begun, AtMost
<1>4. base[f] \in Nat /\ cm.mark[f] \in Nat /\ cm'.mark[f] \in Nat /\ cm'.mark[f] <= Bound(f) /\ Bound(f) \in Nat
      /\ made[f] \in Nat /\ made[f] <= Bound(f)
  BY <1>1, MarkParts, BoundTyped DEF Typed, TypeOK
<1>5. \A n \in Passed(f) : n <= cm'.mark[f] => n \in RecordedItems(f)
  <2>1. SUFFICES ASSUME NEW n \in Passed(f), n <= cm'.mark[f] PROVE n \in RecordedItems(f)
    OBVIOUS
  <2>2. n \in 1 .. Bound(f) /\ base[f] < n
    BY <1>1, <1>3, <1>4 DEF Passed, Mark
  <2>3. copies[<<f, n>>] > 0
    BY <1>2, <2>1, <2>2, ItemLine DEF Covered
  <2>4. QED
    BY <2>2, <2>3 DEF RecordedItems
<1>6. Mark(f)' = cm'.mark[f] /\ Mark(f)' \in Mark(f) .. Bound(f)
  BY <1>1, <1>3, <1>4 DEF Mark
<1>7. QED
  BY <1>1, <1>5, <1>6, RecordedKept DEF TrailStep

LEMMA TrailSteps ==
  ASSUME Inv, Begun, [Next]_vars, ~MayDelete, NEW f \in Feeds
  PROVE  TrailStep(f)
<1>0. Typed /\ Serial /\ Fresh /\ Logged
  BY DEF Inv
<1>1. CASE UNCHANGED <<copies, cm, started>> /\ made'[f] = made[f]
  BY <1>1, QuietStep
<1>2. CASE CreateApplied /\ UNCHANGED <<made, copies>>
  BY <1>0, <1>2, StartStep
<1>3. ASSUME NEW t \in Threads, pc[t] = "put", PutApplied(t) \/ Leave(t), UNCHANGED <<made, copies, started>>
      PROVE  TrailStep(f)
  BY <1>0, <1>3, AdvanceStep
<1>4. ASSUME NEW d \in 1 .. MaxDay, WriteDay(d) \/ WriteDayFails(d)
      PROVE  TrailStep(f)
  <2>1. PICK lines \in SUBSET LinesOn(d) : Append(lines)
    BY <1>4 DEF WriteDay, WriteDayFails
  <2>2. lines \in SUBSET Collected(got)
    BY DEF LinesOn
  <2>3. QED
    BY <1>0, <1>4, <2>1, <2>2, AppendStep DEF WriteDay, WriteDayFails, world,
       history
<1>5. ASSUME NEW g \in Feeds, NewItem(g) PROVE TrailStep(f)
  <2>1. made[f] \in Nat /\ Bound(f) \in Nat /\ made \in [Feeds -> Nat]
    BY <1>0, MarkParts, BoundTyped DEF Typed, TypeOK, Marks
  <2>2. CASE f = g
    BY <1>5, <2>1, <2>2, RecordedKept DEF NewItem, TrailStep, Mark, history
  <2>3. CASE f # g
    BY <1>5, <2>1, <2>3, QuietStep DEF NewItem, history
  <2>4. QED
    BY <2>2, <2>3
<1>6. CASE CreateState \/ CreateStateFails
  BY <1>1, <1>2, <1>6 DEF CreateState, CreateStateFails, Leave, world, history
<1>7. CASE PutPoll \/ PutPollFails \/ PutCleanup \/ PutCleanupFails
  BY <1>3, <1>7 DEF PutPoll, PutPollFails, PutCleanup, PutCleanupFails, Goto,
     Threads, world, history
<1>8. CASE ReadState \/ ReadStateFails \/ Discover \/ DiscoverFails \/ PollTransactions \/ PollTransactionsFails
           \/ PollKeycloak \/ PollKeycloakFails \/ TakeLock \/ AcquirePoll \/ RereadPoll \/ RereadPollFails
  BY <1>1, <1>8 DEF ReadState, ReadStateFails, Discover, DiscoverFails,
     PollTransactions, PollTransactionsFails, PollKeycloak, PollKeycloakFails,
     TakeLock, AcquirePoll, RereadPoll, RereadPollFails, world, history
<1>9. CASE StartCleanup \/ WakeCleanup \/ AcquireCleanup \/ RereadCleanup \/ RereadCleanupFails
           \/ Midnight \/ Crash \/ UNCHANGED vars
  BY <1>1, <1>9 DEF StartCleanup, WakeCleanup, AcquireCleanup, RereadCleanup,
     RereadCleanupFails, Midnight, Crash, vars, world, history
<1>10. QED
  BY <1>4, <1>5, <1>6, <1>7, <1>8, <1>9 DEF Next, PollStep, CleanupStep,
     FaultStep, WorldStep, DeleteConfigMap

LEMMA BegunInit == Init => Begun
<1> SUFFICES ASSUME Init PROVE Begun
  OBVIOUS
<1>1. started = FALSE /\ cm.there = FALSE /\ pc["poll"] = "read" /\ pc["cleanup"] = "start"
  BY DEF Init, NoState, Threads
<1>2. QED
  BY <1>1 DEF Begun, InCycle

LEMMA TxTrailInit == Init => TxTrail!Init
<1> SUFFICES ASSUME Init PROVE TxTrail!Init
  OBVIOUS
<1>1. made["tx"] \in Nat /\ made["tx"] <= MaxTx
  BY MarkParts DEF Init, Feeds, Bound
<1>2. RecordedItems("tx") = {}
  <2>1. \A n \in 1 .. MaxTx : <<"tx", n>> \in Lines
    BY ItemLine DEF Feeds, Bound
  <2>2. QED
    BY <2>1 DEF Init, RecordedItems, Bound
<1>3. QED
  BY <1>1, <1>2 DEF Init, TxTrail!Init, TxTrail!Tx, TxTrail!NotStarted

LEMMA TxTrailStep ==
  ASSUME Typed, TrailStep("tx")
  PROVE  [TxTrail!Next]_(TxTrail!vars)
<1> USE DEF TxTrail!vars, TxTrail!Tx, TxTrail!NotStarted, TxTrail!Settled
<1>1. made["tx"] \in Nat /\ made["tx"] <= MaxTx /\ cm.mark["tx"] \in Nat /\ cm.mark["tx"] <= made["tx"] /\ Bound("tx") = MaxTx
  BY StateParts, MarkParts DEF Typed, TypeOK, Behind, Upto, Feeds, Bound
<1> DEFINE m == Mark("tx")
           r == RecordedItems("tx")
<1>2. m = (IF started THEN cm.mark["tx"] ELSE -1) /\ m \in Int /\ m <= made["tx"] /\ (started <=> m # -1)
  BY <1>1 DEF Mark
<1>3. m' = (IF started' THEN cm'.mark["tx"] ELSE -1)
  BY DEF Mark
<1>4. CASE made'["tx"] = made["tx"] + 1 /\ made'["tx"] <= MaxTx /\ m' = m /\ r' = r
  <2>1. 1 .. made'["tx"] = (1 .. made["tx"]) \union {made["tx"] + 1}
    BY <1>1, <1>4
  <2>2. TxTrail!Make(made["tx"] + 1) /\ made["tx"] + 1 \in 1 .. MaxTx
    BY <1>1, <1>2, <1>3, <1>4, <2>1 DEF TxTrail!Make
  <2>3. QED
    BY <2>2 DEF TxTrail!Next
<1>5. CASE ~started /\ m' \in 0 .. made["tx"] /\ made'["tx"] = made["tx"] /\ r' = r
  <2>1. TxTrail!Start(m') /\ m' \in 0 .. MaxTx
    BY <1>1, <1>2, <1>3, <1>5 DEF TxTrail!Start
  <2>2. QED
    BY <2>1 DEF TxTrail!Next
<1>6. CASE started /\ (\E S \in SUBSET Passed("tx") : r' = r \union S) /\ made'["tx"] = made["tx"] /\ m' = m
  <2>1. PICK S \in SUBSET Passed("tx") : r' = r \union S
    BY <1>6
  <2>2. TxTrail!Record(S) /\ S \in SUBSET (1 .. MaxTx)
    BY <1>1, <1>2, <1>3, <1>6, <2>1 DEF TxTrail!Record, Passed
  <2>3. QED
    BY <2>2 DEF TxTrail!Next
<1>7. CASE /\ started /\ m' \in m .. MaxTx /\ made'["tx"] = made["tx"] /\ r' = r
           /\ \A n \in Passed("tx") : n <= m' => n \in r
  <2>1. CASE m' = m
    BY <1>2, <1>3, <1>7, <2>1
  <2>2. CASE m' # m
    <3>1. TxTrail!Advance(m') /\ m' \in 0 .. MaxTx
      BY <1>1, <1>2, <1>3, <1>7, <2>2 DEF TxTrail!Advance, Passed
    <3>2. QED
      BY <3>1 DEF TxTrail!Next
  <2>3. QED
    BY <2>1, <2>2
<1>8. CASE made'["tx"] = made["tx"] /\ m' = m /\ r' = r
  BY <1>2, <1>3, <1>8
<1>9. QED
  BY <1>1, <1>4, <1>5, <1>6, <1>7, <1>8 DEF TrailStep

\* Transactions: while the ConfigMap is not deleted the loop, with its crashes and
\* failed calls, implements the trail it promises for this feed.
THEOREM TransactionsRefine == ~MayDelete => (Spec => TransactionsImplementAuditTrail)
<1> SUFFICES ASSUME ~MayDelete PROVE Spec => TransactionsImplementAuditTrail
  OBVIOUS
<1>1. Init => Inv /\ Begun /\ TxTrail!Init
  BY InvInit, BegunInit, TxTrailInit
<1>2. Inv /\ Begun /\ [Next]_vars => Inv' /\ Begun'
  BY InvNext, BegunNext DEF Inv
<1>3. Inv /\ Begun /\ [Next]_vars => [TxTrail!Next]_(TxTrail!vars)
  BY TrailSteps, TxTrailStep DEF Inv, Feeds
<1>4. QED
  BY <1>1, <1>2, <1>3, PTL DEF Spec, TransactionsImplementAuditTrail,
     TxTrail!Spec

LEMMA KcTrailInit == Init => KcTrail!Init
<1> SUFFICES ASSUME Init PROVE KcTrail!Init
  OBVIOUS
<1>1. made["kc"] \in Nat /\ made["kc"] <= MaxEvents
  BY MarkParts DEF Init, Feeds, Bound
<1>2. RecordedItems("kc") = {}
  <2>1. \A n \in 1 .. MaxEvents : <<"kc", n>> \in Lines
    BY ItemLine DEF Feeds, Bound
  <2>2. QED
    BY <2>1 DEF Init, RecordedItems, Bound
<1>3. QED
  BY <1>1, <1>2 DEF Init, KcTrail!Init, KcTrail!Tx, KcTrail!NotStarted

LEMMA KcTrailStep ==
  ASSUME Typed, TrailStep("kc")
  PROVE  [KcTrail!Next]_(KcTrail!vars)
<1> USE DEF KcTrail!vars, KcTrail!Tx, KcTrail!NotStarted, KcTrail!Settled
<1>1. made["kc"] \in Nat /\ made["kc"] <= MaxEvents /\ cm.mark["kc"] \in Nat /\ cm.mark["kc"] <= made["kc"] /\ Bound("kc") = MaxEvents
  BY StateParts, MarkParts DEF Typed, TypeOK, Behind, Upto, Feeds, Bound
<1> DEFINE m == Mark("kc")
           r == RecordedItems("kc")
<1>2. m = (IF started THEN cm.mark["kc"] ELSE -1) /\ m \in Int /\ m <= made["kc"] /\ (started <=> m # -1)
  BY <1>1 DEF Mark
<1>3. m' = (IF started' THEN cm'.mark["kc"] ELSE -1)
  BY DEF Mark
<1>4. CASE made'["kc"] = made["kc"] + 1 /\ made'["kc"] <= MaxEvents /\ m' = m /\ r' = r
  <2>1. 1 .. made'["kc"] = (1 .. made["kc"]) \union {made["kc"] + 1}
    BY <1>1, <1>4
  <2>2. KcTrail!Make(made["kc"] + 1) /\ made["kc"] + 1 \in 1 .. MaxEvents
    BY <1>1, <1>2, <1>3, <1>4, <2>1 DEF KcTrail!Make
  <2>3. QED
    BY <2>2 DEF KcTrail!Next
<1>5. CASE ~started /\ m' \in 0 .. made["kc"] /\ made'["kc"] = made["kc"] /\ r' = r
  <2>1. KcTrail!Start(m') /\ m' \in 0 .. MaxEvents
    BY <1>1, <1>2, <1>3, <1>5 DEF KcTrail!Start
  <2>2. QED
    BY <2>1 DEF KcTrail!Next
<1>6. CASE started /\ (\E S \in SUBSET Passed("kc") : r' = r \union S) /\ made'["kc"] = made["kc"] /\ m' = m
  <2>1. PICK S \in SUBSET Passed("kc") : r' = r \union S
    BY <1>6
  <2>2. KcTrail!Record(S) /\ S \in SUBSET (1 .. MaxEvents)
    BY <1>1, <1>2, <1>3, <1>6, <2>1 DEF KcTrail!Record, Passed
  <2>3. QED
    BY <2>2 DEF KcTrail!Next
<1>7. CASE /\ started /\ m' \in m .. MaxEvents /\ made'["kc"] = made["kc"] /\ r' = r
           /\ \A n \in Passed("kc") : n <= m' => n \in r
  <2>1. CASE m' = m
    BY <1>2, <1>3, <1>7, <2>1
  <2>2. CASE m' # m
    <3>1. KcTrail!Advance(m') /\ m' \in 0 .. MaxEvents
      BY <1>1, <1>2, <1>3, <1>7, <2>2 DEF KcTrail!Advance, Passed
    <3>2. QED
      BY <3>1 DEF KcTrail!Next
  <2>3. QED
    BY <2>1, <2>2
<1>8. CASE made'["kc"] = made["kc"] /\ m' = m /\ r' = r
  BY <1>2, <1>3, <1>8
<1>9. QED
  BY <1>1, <1>4, <1>5, <1>6, <1>7, <1>8 DEF TrailStep

\* Keycloak events: while the ConfigMap is not deleted the loop, with its crashes and
\* failed calls, implements the trail it promises for this feed.
THEOREM EventsRefine == ~MayDelete => (Spec => EventsImplementAuditTrail)
<1> SUFFICES ASSUME ~MayDelete PROVE Spec => EventsImplementAuditTrail
  OBVIOUS
<1>1. Init => Inv /\ Begun /\ KcTrail!Init
  BY InvInit, BegunInit, KcTrailInit
<1>2. Inv /\ Begun /\ [Next]_vars => Inv' /\ Begun'
  BY InvNext, BegunNext DEF Inv
<1>3. Inv /\ Begun /\ [Next]_vars => [KcTrail!Next]_(KcTrail!vars)
  BY TrailSteps, KcTrailStep DEF Inv, Feeds
<1>4. QED
  BY <1>1, <1>2, <1>3, PTL DEF Spec, EventsImplementAuditTrail, KcTrail!Spec
=============================================================================
