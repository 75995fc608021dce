------------------------------ MODULE PollLoop ------------------------------
(***************************************************************************)
(* The life of the controller's persistent state (main.py): the poll loop  *)
(* reads the watermarks from the useraudit-state ConfigMap, polls the two  *)
(* feeds, appends the lines to one log file per day and saves the new      *)
(* watermarks, while the cleanup thread updates lastCleanupTime in the     *)
(* same ConfigMap.  Both write it under _state_lock with the               *)
(* resourceVersion of a fresh read.  Any call to Kubernetes, any file      *)
(* write and any poll may fail, and the process may crash anywhere.        *)
(*                                                                         *)
(* What a poll returns is an item count per feed; TransactionScan and      *)
(* KeycloakFeed model how the polls arrive at it.                          *)
(***************************************************************************)
EXTENDS Integers

CONSTANTS
  MaxTx,        \* transactions ever made (bound of the model)
  MaxEvents,    \* Keycloak events ever made (bound of the model)
  MaxDay,       \* days that pass (bound of the model)
  MaxFaults,    \* failures and crashes (bound of the model)
  MayDelete     \* may somebody delete the ConfigMap?

ASSUME PollLoopAssumption ==
  /\ MaxTx \in Nat
  /\ MaxEvents \in Nat
  /\ MaxDay \in Nat \ {0}
  /\ MaxFaults \in Nat
  /\ MayDelete \in BOOLEAN

Feeds == {"tx", "kc"}       \* EDA transactions, Keycloak events
Bound(f) == IF f = "tx" THEN MaxTx ELSE MaxEvents
Lines == {"tx"} \X (1 .. MaxTx) \union {"kc"} \X (1 .. MaxEvents)
Threads == {"poll", "cleanup"}

VARIABLES
  made,       \* items each feed has so far
  dayOf,      \* day of every item made, 0 before
  today,
  copies,     \* how often each line is in its day's log file
  cm,         \* the ConfigMap; there = FALSE when it does not exist
  lock,       \* _state_lock: the thread that holds it, or "free"
  pc,         \* where each thread is
  mem,        \* each thread's copy of the state
  current,    \* is the resourceVersion a thread has read still the newest?
  got,        \* newest item of each feed polled in this cycle
  days,       \* days whose file is still to be written in this cycle
  writeOK,    \* write_error is None
  due,        \* 3 AM has passed since the cleanup thread went to sleep
  base,       \* watermarks of the first run (history)
  started,    \* a first run has completed (history)
  faults      \* failures so far (bounds the model)

world == <<made, dayOf, today>>
cycle == <<got, days, writeOK>>
history == <<base, started>>
vars == <<world, copies, cm, lock, pc, mem, current, cycle, due, history, faults>>

Marks == {m \in [Feeds -> Nat] : \A f \in Feeds : m[f] <= Bound(f)}

State == [there : BOOLEAN, mark : Marks, cleaned : 0 .. MaxDay]

NoState == [there |-> FALSE, mark |-> [f \in Feeds |-> 0], cleaned |-> 0]

PollLabels ==
  {"read", "discover", "create", "tx", "kc", "write", "lock", "reread", "put"}

CleanupLabels == {"start", "lock", "reread", "put", "sleep"}

TypeOK ==
  /\ made \in Marks
  /\ dayOf \in [Lines -> 0 .. MaxDay]
  /\ today \in 1 .. MaxDay
  /\ copies \in [Lines -> 0 .. MaxFaults + 2]
  /\ cm \in State
  /\ lock \in Threads \union {"free"}
  /\ pc \in [Threads -> PollLabels \union CleanupLabels]
  /\ pc["poll"] \in PollLabels /\ pc["cleanup"] \in CleanupLabels
  /\ mem \in [Threads -> State]
  /\ current \in [Threads -> BOOLEAN]
  /\ got \in Marks
  /\ days \in SUBSET (1 .. MaxDay)
  /\ writeOK \in BOOLEAN
  /\ due \in BOOLEAN
  /\ base \in Marks
  /\ started \in BOOLEAN
  /\ faults \in 0 .. MaxFaults

Init ==
  /\ made \in [Feeds -> 0 .. 1] /\ made \in Marks
  /\ dayOf = [l \in Lines |-> IF l[2] <= made[l[1]] THEN 1 ELSE 0]
  /\ today = 1
  /\ copies = [l \in Lines |-> 0]
  /\ cm = NoState
  /\ lock = "free"
  /\ pc = [t \in Threads |-> IF t = "poll" THEN "read" ELSE "start"]
  /\ mem = [t \in Threads |-> NoState]
  /\ current = [t \in Threads |-> FALSE]
  /\ got = [f \in Feeds |-> 0]
  /\ days = {}
  /\ writeOK = TRUE
  /\ due = FALSE
  /\ base = [f \in Feeds |-> 0]
  /\ started = FALSE
  /\ faults = 0

-----------------------------------------------------------------------------
\* Shared helpers.

Goto(t, from, to) == pc[t] = from /\ pc' = [pc EXCEPT ![t] = to]

Fault == faults < MaxFaults /\ faults' = faults + 1

\* Mutated form of Acquire: the state is not locked.
Acquire_Always(t) == lock' = t

Acquire(t) == lock = "free" /\ lock' = t

Release(t) == lock' = IF lock = t THEN "free" ELSE lock

\* A PUT that changes nothing leaves the resourceVersion alone.  The copies
\* of a thread that is done with the ConfigMap are dead and are cleared.
Store(t, s) ==
  /\ cm' = s
  /\ current' = [u \in Threads |-> u # t /\ s = cm /\ current[u]]

Leave(t) == UNCHANGED cm /\ current' = [current EXCEPT ![t] = FALSE]

Forget(t) == mem' = [mem EXCEPT ![t] = NoState]

ClearCycle ==
  /\ got' = [f \in Feeds |-> 0]
  /\ days' = {}
  /\ writeOK' = TRUE

-----------------------------------------------------------------------------
\* The poll loop: first run.

ReadState ==
  /\ Goto("poll", "read", IF cm.there THEN "tx" ELSE "discover")
  /\ mem' = [mem EXCEPT !["poll"] = cm]
  /\ got' = cm.mark
  /\ UNCHANGED <<world, copies, cm, lock, current, days, writeOK, due, history,
                 faults>>

\* A cycle whose state cannot be read is skipped, not taken for a first run.
ReadStateFails ==
  /\ pc["poll"] = "read"
  /\ Fault
  /\ UNCHANGED <<world, copies, cm, lock, pc, mem, current, cycle, due, history>>

Discover ==
  /\ Goto("poll", "discover", "create")
  /\ mem' = [mem EXCEPT !["poll"] =
               [there |-> FALSE, mark |-> made, cleaned |-> 0]]
  /\ UNCHANGED <<world, copies, cm, lock, current, cycle, due, history, faults>>

DiscoverFails ==
  /\ Goto("poll", "discover", "read")
  /\ Fault
  /\ UNCHANGED <<world, copies, cm, lock, mem, current, cycle, due, history>>

\* create_configmap; the lock is held for this one call only.
CreateApplied ==
  /\ ~cm.there
  /\ Store("poll", [mem["poll"] EXCEPT !.there = TRUE])
  /\ base' = mem["poll"].mark
  /\ started' = TRUE

CreateState ==
  /\ Goto("poll", "create", "read")
  /\ lock = "free"
  /\ CreateApplied \/ (cm.there /\ Leave("poll") /\ UNCHANGED history)
  /\ Forget("poll")
  /\ UNCHANGED <<world, copies, lock, cycle, due, faults>>

CreateStateFails ==
  /\ Goto("poll", "create", "read")
  /\ lock = "free"
  /\ Fault
  /\ CreateApplied \/ (Leave("poll") /\ UNCHANGED history)
  /\ Forget("poll")
  /\ UNCHANGED <<world, copies, lock, cycle, due>>

-----------------------------------------------------------------------------
\* The poll loop: a cycle.  A deferred transaction ends the scan early, so
\* the transactions returned are a prefix of the new ones.

PollTransactions ==
  /\ Goto("poll", "tx", "kc")
  /\ \E n \in mem["poll"].mark["tx"] .. made["tx"] : got' = [got EXCEPT !["tx"] = n]
  /\ UNCHANGED <<world, copies, cm, lock, mem, current, days, writeOK, due,
                 history, faults>>

PollTransactionsFails ==
  /\ Goto("poll", "tx", "kc")
  /\ Fault
  /\ UNCHANGED <<world, copies, cm, lock, mem, current, cycle, due, history>>

Collected(upTo) ==
  {l \in Lines : mem["poll"].mark[l[1]] < l[2] /\ l[2] <= upTo[l[1]]}

DaysOf(lines) == {dayOf[l] : l \in lines}

EnterWrite(upTo) ==
  /\ got' = upTo
  /\ days' = DaysOf(Collected(upTo))
  /\ writeOK' = TRUE

PollKeycloak ==
  /\ Goto("poll", "kc", "write")
  /\ EnterWrite([got EXCEPT !["kc"] = made["kc"]])
  /\ UNCHANGED <<world, copies, cm, lock, mem, current, due, history, faults>>

PollKeycloakFails ==
  /\ Goto("poll", "kc", "write")
  /\ Fault
  /\ EnterWrite(got)
  /\ UNCHANGED <<world, copies, cm, lock, mem, current, due, history>>

Append(lines) ==
  copies' = [l \in Lines |->
    IF l \in lines /\ copies[l] < MaxFaults + 2 THEN copies[l] + 1 ELSE copies[l]]

\* Files are written in the order of their days.
NextDayToWrite(d) == d \in days /\ \A e \in days : d <= e

LinesOn(d) == {l \in Collected(got) : dayOf[l] = d}

WriteDay(d) ==
  /\ pc["poll"] = "write"
  /\ NextDayToWrite(d)
  /\ Append(LinesOn(d))
  /\ days' = days \ {d}
  /\ UNCHANGED <<world, cm, lock, pc, mem, current, got, writeOK, due, history,
                 faults>>

\* Mutated form of WriteDayFails: the error is logged and forgotten.
WriteDayFails_Swallowed(d) ==
  /\ pc["poll"] = "write"
  /\ NextDayToWrite(d)
  /\ Fault
  /\ \E some \in SUBSET LinesOn(d) : Append(some)
  /\ days' = {}
  /\ UNCHANGED <<world, cm, lock, pc, mem, current, got, writeOK, due, history>>

\* OSError: some of the day's lines are in the file, the later days are not.
WriteDayFails(d) ==
  /\ pc["poll"] = "write"
  /\ NextDayToWrite(d)
  /\ Fault
  /\ \E some \in SUBSET LinesOn(d) : Append(some)
  /\ days' = {}
  /\ writeOK' = FALSE
  /\ UNCHANGED <<world, cm, lock, pc, mem, current, got, due, history>>

\* Mutated forms of TakeLock: a write error does not hold the watermarks.
TakeLock_IgnoresError ==
  /\ days = {}
  /\ Goto("poll", "write", "lock")
  /\ mem' = [mem EXCEPT !["poll"].mark = got]
  /\ ClearCycle
  /\ UNCHANGED <<world, copies, cm, lock, current, due, history, faults>>

TakeLock_HoldsTxOnly ==
  /\ days = {}
  /\ Goto("poll", "write", "lock")
  /\ mem' = [mem EXCEPT !["poll"].mark["kc"] = got["kc"],
                        !["poll"].mark["tx"] = IF writeOK THEN got["tx"] ELSE @]
  /\ ClearCycle
  /\ UNCHANGED <<world, copies, cm, lock, current, due, history, faults>>

\* The watermarks advance only if every line was written.
TakeLock ==
  /\ days = {}
  /\ Goto("poll", "write", "lock")
  /\ mem' = [mem EXCEPT !["poll"].mark = IF writeOK THEN got ELSE @]
  /\ ClearCycle
  /\ UNCHANGED <<world, copies, cm, lock, current, due, history, faults>>

\* Mutated form of MergeFresh: write back the value of the cycle's start.
MergeFresh_KeepsOwn(fresh) ==
  [mem EXCEPT !["poll"] =
     [there |-> fresh.there, mark |-> @.mark, cleaned |-> @.cleaned]]

\* lastCleanupTime belongs to the cleanup thread: take it from the fresh read.
MergeFresh(fresh) ==
  [mem EXCEPT !["poll"] =
     [there |-> fresh.there, mark |-> @.mark,
      cleaned |-> IF fresh.there THEN fresh.cleaned ELSE @.cleaned]]

AcquirePoll ==
  /\ Goto("poll", "lock", "reread")
  /\ Acquire("poll")
  /\ UNCHANGED <<world, copies, cm, mem, current, cycle, due, history, faults>>

RereadPoll ==
  /\ Goto("poll", "reread", "put")
  /\ mem' = MergeFresh(cm)
  /\ current' = [current EXCEPT !["poll"] = TRUE]
  /\ UNCHANGED <<world, copies, cm, lock, cycle, due, history, faults>>

RereadPollFails ==
  /\ Goto("poll", "reread", "read")
  /\ Release("poll")
  /\ Fault
  /\ Forget("poll")
  /\ UNCHANGED <<world, copies, cm, current, cycle, due, history>>

\* update_configmap is refused unless the resourceVersion is the newest one;
\* create_configmap is refused if the ConfigMap exists.
Accepts(t) == IF mem[t].there THEN cm.there /\ current[t] ELSE ~cm.there

PutApplied(t) ==
  /\ Accepts(t)
  /\ Store(t, [mem[t] EXCEPT !.there = TRUE])

PutPoll ==
  /\ Goto("poll", "put", "read")
  /\ Release("poll")
  /\ PutApplied("poll") \/ (~Accepts("poll") /\ Leave("poll"))
  /\ Forget("poll")
  /\ UNCHANGED <<world, copies, cycle, due, history, faults>>

\* The request or its response is lost.
PutPollFails ==
  /\ Goto("poll", "put", "read")
  /\ Release("poll")
  /\ Fault
  /\ PutApplied("poll") \/ Leave("poll")
  /\ Forget("poll")
  /\ UNCHANGED <<world, copies, cycle, due, history>>

-----------------------------------------------------------------------------
\* The cleanup thread.  What it deletes is the subject of Housekeeping.

\* The startup cleanup may be skipped (lastCleanupTime is known and recent), and
\* an exception in a cleanup skips the update of lastCleanupTime.
StartCleanup ==
  /\ Goto("cleanup", "start", "lock") \/ Goto("cleanup", "start", "sleep")
  /\ UNCHANGED <<world, copies, cm, lock, mem, current, cycle, due, history,
                 faults>>

WakeCleanup ==
  /\ due
  /\ due' = FALSE
  /\ Goto("cleanup", "sleep", "lock") \/ Goto("cleanup", "sleep", "sleep")
  /\ UNCHANGED <<world, copies, cm, lock, mem, current, cycle, history, faults>>

AcquireCleanup ==
  /\ Goto("cleanup", "lock", "reread")
  /\ Acquire("cleanup")
  /\ UNCHANGED <<world, copies, cm, mem, current, cycle, due, history, faults>>

RereadCleanup ==
  /\ pc["cleanup"] = "reread"
  /\ IF cm.there
       THEN /\ Goto("cleanup", "reread", "put")
            /\ mem' = [mem EXCEPT !["cleanup"] = [cm EXCEPT !.cleaned = today]]
            /\ current' = [current EXCEPT !["cleanup"] = TRUE]
            /\ UNCHANGED lock
       ELSE /\ Goto("cleanup", "reread", "sleep")
            /\ Release("cleanup")
            /\ UNCHANGED <<mem, current>>
  /\ UNCHANGED <<world, copies, cm, cycle, due, history, faults>>

RereadCleanupFails ==
  /\ Goto("cleanup", "reread", "sleep")
  /\ Release("cleanup")
  /\ Fault
  /\ UNCHANGED <<world, copies, cm, mem, current, cycle, due, history>>

PutCleanup ==
  /\ Goto("cleanup", "put", "sleep")
  /\ Release("cleanup")
  /\ PutApplied("cleanup") \/ (~Accepts("cleanup") /\ Leave("cleanup"))
  /\ Forget("cleanup")
  /\ UNCHANGED <<world, copies, cycle, due, history, faults>>

PutCleanupFails ==
  /\ Goto("cleanup", "put", "sleep")
  /\ Release("cleanup")
  /\ Fault
  /\ PutApplied("cleanup") \/ Leave("cleanup")
  /\ Forget("cleanup")
  /\ UNCHANGED <<world, copies, cycle, due, history>>

-----------------------------------------------------------------------------
\* The world.

NewItem(f) ==
  /\ made[f] < Bound(f)
  /\ made' = [made EXCEPT ![f] = @ + 1]
  /\ dayOf' = [dayOf EXCEPT ![<<f, made[f] + 1>>] = today]
  /\ UNCHANGED <<today, copies, cm, lock, pc, mem, current, cycle, due, history,
                 faults>>

Midnight ==
  /\ today < MaxDay
  /\ today' = today + 1
  /\ due' = TRUE
  /\ UNCHANGED <<made, dayOf, copies, cm, lock, pc, mem, current, cycle, history,
                 faults>>

Crash ==
  /\ Fault
  /\ lock' = "free"
  /\ pc' = [t \in Threads |-> IF t = "poll" THEN "read" ELSE "start"]
  /\ mem' = [t \in Threads |-> NoState]
  /\ current' = [t \in Threads |-> FALSE]
  /\ ClearCycle
  /\ due' = FALSE
  /\ UNCHANGED <<world, copies, cm, history>>

DeleteConfigMap ==
  /\ MayDelete
  /\ cm.there
  /\ Fault
  /\ cm' = NoState
  /\ current' = [t \in Threads |-> FALSE]
  /\ UNCHANGED <<world, copies, lock, pc, mem, cycle, due, history>>

PollStep ==
  \/ ReadState \/ Discover \/ CreateState
  \/ PollTransactions \/ PollKeycloak
  \/ \E d \in 1 .. MaxDay : WriteDay(d)
  \/ TakeLock \/ AcquirePoll \/ RereadPoll \/ PutPoll

CleanupStep ==
  StartCleanup \/ WakeCleanup \/ AcquireCleanup \/ RereadCleanup \/ PutCleanup

FaultStep ==
  \/ ReadStateFails \/ DiscoverFails \/ CreateStateFails
  \/ PollTransactionsFails \/ PollKeycloakFails
  \/ \E d \in 1 .. MaxDay : WriteDayFails(d)
  \/ RereadPollFails \/ PutPollFails
  \/ RereadCleanupFails \/ PutCleanupFails
  \/ Crash \/ DeleteConfigMap

WorldStep == Midnight \/ \E f \in Feeds : NewItem(f)

Next == PollStep \/ CleanupStep \/ FaultStep \/ WorldStep

Spec == Init /\ [][Next]_vars

\* Both threads run; a scan that always defers is TransactionScan's concern,
\* so here a poll that could return everything eventually does.
PollsAll == PollTransactions /\ got'["tx"] = made["tx"]

FairSpec ==
  /\ Spec
  /\ WF_vars(PollStep)
  /\ WF_vars(CleanupStep)
  /\ SF_vars(PollsAll)

-----------------------------------------------------------------------------
\* Properties.

\* What a saved watermark has passed is in the log files, for both feeds,
\* although the lines of both go into shared files and either may fail.
NoLoss ==
  \A l \in Lines : base[l[1]] < l[2] /\ l[2] <= cm.mark[l[1]] => copies[l] > 0

\* Every second copy of a line was paid for with a failure: the two threads
\* alone never make the loop read a watermark that is behind (CHANGELOG,
\* "watermark updates could be lost when the poll loop and the cleanup thread
\* wrote state simultaneously").
DuplicatesOnlyFromFaults == \A l \in Lines : copies[l] <= 1 + faults

\* Under _state_lock the resourceVersion just read is still the newest one at
\* the PUT, so a save is never refused because of the other thread.
NoConflict ==
  \A t \in Threads : pc[t] = "put" /\ cm.there /\ mem[t].there => current[t]

\* No save ever takes a watermark or lastCleanupTime back: each thread writes
\* the whole ConfigMap but owns only its own fields.
StateNeverRollsBack ==
  [][cm.there /\ cm'.there =>
       /\ \A f \in Feeds : cm.mark[f] <= cm'.mark[f]
       /\ cm.cleaned <= cm'.cleaned]_vars

\* Each feed, with its field of the ConfigMap, implements the audit trail.
RecordedItems(f) == {n \in 1 .. Bound(f) : copies[<<f, n>>] > 0}

TxTrail == INSTANCE AuditTrail WITH
             made <- 1 .. made["tx"], gone <- {},
             recorded <- RecordedItems("tx"),
             mark <- IF started THEN cm.mark["tx"] ELSE -1

KcTrail == INSTANCE AuditTrail WITH
             MaxTx <- MaxEvents, made <- 1 .. made["kc"], gone <- {},
             recorded <- RecordedItems("kc"),
             mark <- IF started THEN cm.mark["kc"] ELSE -1

TransactionsImplementAuditTrail == TxTrail!Spec

EventsImplementAuditTrail == KcTrail!Spec

\* Once failures cease every item after the first run gets into a log.
EveryItemLogged ==
  <>[](\A l \in Lines :
         started /\ base[l[1]] < l[2] /\ l[2] <= made[l[1]] => copies[l] > 0)
=============================================================================
