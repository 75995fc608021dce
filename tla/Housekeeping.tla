----------------------------- MODULE Housekeeping -----------------------------
(***************************************************************************)
(* The log volume and what the controller says about itself (main.py):     *)
(* the cleanup thread removes the files that retentionMonths has expired   *)
(* and then the oldest ones while the volume is above 90%, next to a poll  *)
(* loop that appends to them, reads retentionMonths afresh every cycle and *)
(* reports one overall health on two channels, the status of the CRD and   *)
(* /healthz.  PollLoop has the state both threads share; a poll is only an *)
(* outcome here.                                                           *)
(***************************************************************************)
EXTENDS Integers, FiniteSets

CONSTANTS
  MaxDay,         \* days that pass (bound of the model)
  DaysPerMonth,   \* days in a month
  MaxRetention,   \* largest retentionMonths (bound of the model)
  MaxSize,        \* largest file (bound of the model)
  High,           \* 90% of the volume
  Capacity,       \* all of it
  StaleDegraded,  \* intervals without a good poll that are degraded: 3
  StaleError,     \* and that are an error: 6
  MaxFaults       \* outages, changes and failures (bound of the model)

ASSUME HousekeepingAssumption ==
  /\ {MaxDay, DaysPerMonth, MaxSize, Capacity} \subseteq Nat \ {0}
  /\ {MaxRetention, High, StaleDegraded, MaxFaults} \subseteq Nat
  /\ High < Capacity
  /\ StaleError \in Nat /\ StaleDegraded < StaleError

VARIABLES
  today,
  size,         \* size of each day's file, 0 if there is none
  configured,   \* retentionMonths in the CR; without a CR it is created with 0
  recent,       \* values it has had since the poll loop read it (history)
  down,         \* what does not answer: "eda", "kc", "k8s"
  retention,    \* current_retention[0]
  poll,         \* where the poll loop is
  polled,       \* eda_health and kc_health: the feeds that failed this cycle
  unwritten,    \* write_error is set
  staleFor,     \* intervals since the last good poll; Never before the first
  crd,          \* health in the CRD status
  healthz,      \* status in .healthz.json
  clean,        \* where the cleanup thread is
  startDay,     \* current_day
  months,       \* its retention
  allowed,      \* recent when this cleanup began (history)
  todo,         \* files still to be looked at
  over,         \* pct > 90, as last read
  flag,         \* _cleanup_health is "degraded"
  faults        \* bounds the model

pollVars == <<retention, poll, polled, unwritten, staleFor, crd, healthz>>
cleanVars == <<clean, startDay, months, allowed, todo, over>>
env == <<configured, down>>
vars == <<today, size, env, recent, pollVars, cleanVars, flag, faults>>

Days == 1 .. MaxDay
Never == -1
Health == {"starting", "ok", "degraded", "error"}

TypeOK ==
  /\ today \in Days
  /\ size \in [Days -> 0 .. MaxSize]
  /\ configured \in 0 .. MaxRetention
  /\ recent \in SUBSET (0 .. MaxRetention)
  /\ down \in SUBSET {"eda", "kc", "k8s"}
  /\ retention \in 0 .. MaxRetention
  /\ poll \in {"config", "feeds", "report"}
  /\ polled \in SUBSET {"eda", "kc"}
  /\ unwritten \in BOOLEAN
  /\ staleFor \in {Never} \union 0 .. StaleError + 1
  /\ crd \in Health /\ healthz \in Health
  /\ clean \in {"sleep", "time", "space"}
  /\ startDay \in Days
  /\ months \in 0 .. MaxRetention
  /\ allowed \in SUBSET (0 .. MaxRetention)
  /\ todo \in SUBSET Days
  /\ over \in BOOLEAN /\ flag \in BOOLEAN
  /\ faults \in 0 .. MaxFaults

Init ==
  /\ today = 1
  /\ size = [d \in Days |-> 0]
  /\ configured \in 0 .. MaxRetention
  /\ recent = {configured}
  /\ down = {}
  /\ retention = configured
  /\ poll = "config" /\ polled = {} /\ unwritten = FALSE /\ staleFor = Never
  /\ crd = "starting" /\ healthz = "starting"
  /\ clean = "sleep" /\ startDay = 1 /\ months = 0 /\ allowed = {} /\ todo = {}
  /\ over = FALSE /\ flag = FALSE
  /\ faults = 0

Fault == faults < MaxFaults /\ faults' = faults + 1

Used == Cardinality({c \in Days \X (1 .. MaxSize) : c[2] <= size[c[1]]})

Month(d) == d \div DaysPerMonth
Age(d, now) == Month(now) - Month(d)

-----------------------------------------------------------------------------
\* The poll loop.

\* .healthz.json is replaced through a file on the same volume.
WriteHealthz(h) == healthz' = IF Used < Capacity THEN h ELSE healthz

\* DEFAULT_RETENTION
Default == 0

\* One more interval since last_successful_poll.
Older == IF staleFor \in {Never, StaleError + 1} THEN staleFor ELSE staleFor + 1

\* Mutated form of ReadConfig: a cycle without state is skipped in silence.
ReadConfig_Quiet ==
  /\ poll = "config"
  /\ retention' = IF "k8s" \in down THEN Default ELSE configured
  /\ recent' = {configured}
  /\ IF "k8s" \in down
       THEN staleFor' = Older /\ UNCHANGED poll
       ELSE poll' = "feeds" /\ UNCHANGED staleFor
  /\ UNCHANGED <<today, size, env, polled, unwritten, crd, healthz, cleanVars,
                 flag, faults>>

\* _read_config, _ensure_default_cr and _read_state.  A state that cannot be
\* read ends the cycle.
ReadConfig ==
  /\ poll = "config"
  /\ retention' = IF "k8s" \in down THEN Default ELSE configured
  /\ recent' = {configured}
  /\ IF "k8s" \in down
       THEN WriteHealthz("error") /\ staleFor' = Older /\ UNCHANGED poll
       ELSE poll' = "feeds" /\ UNCHANGED <<healthz, staleFor>>
  /\ UNCHANGED <<today, size, env, polled, unwritten, crd, cleanVars, flag,
                 faults>>

\* eda_health and kc_health.
Unreachable == down \intersect {"eda", "kc"}

NothingToWrite ==
  /\ poll = "feeds"
  /\ poll' = "report"
  /\ polled' = Unreachable
  /\ UNCHANGED <<today, size, env, recent, retention, unwritten, staleFor, crd,
                 healthz, cleanVars, flag, faults>>

\* A line of today or a late one of an earlier day; a full volume is an
\* OSError.
WriteLine(d) ==
  /\ poll = "feeds"
  /\ poll' = "report"
  /\ polled' = Unreachable
  /\ Unreachable # {"eda", "kc"}
  /\ d <= today /\ size[d] < MaxSize
  /\ IF Used < Capacity
       THEN size' = [size EXCEPT ![d] = @ + 1] /\ UNCHANGED unwritten
       ELSE unwritten' = TRUE /\ UNCHANGED size
  /\ UNCHANGED <<today, env, recent, retention, staleFor, crd, healthz,
                 cleanVars, flag, faults>>

PollOK == "eda" \notin polled /\ ~unwritten

\* poll_ok; the time since last_successful_poll is counted in intervals.
StaleNow == IF PollOK THEN 0 ELSE Older

\* Mutated form of Complaint: nobody asks what the cleanup has found.
Complaint_Unheard == FALSE

\* _cleanup_health
Complaint == flag

FeedHealth ==
  IF polled = {"eda", "kc"} THEN "error" ELSE IF polled # {} THEN "degraded" ELSE "ok"

\* The tests come in the opposite order in the code, later ones overriding
\* earlier ones; the cleanup is only heard if all else is well.
Overall ==
  IF unwritten \/ StaleNow > StaleError THEN "error"
  ELSE IF StaleNow > StaleDegraded THEN "degraded"
  ELSE IF FeedHealth # "ok" THEN FeedHealth
  ELSE IF Complaint THEN "degraded" ELSE "ok"

\* _update_crd_status, write_healthz
Report ==
  /\ poll = "report"
  /\ poll' = "config" /\ polled' = {} /\ unwritten' = FALSE
  /\ staleFor' = StaleNow
  /\ crd' = IF "k8s" \in down THEN crd ELSE Overall
  /\ WriteHealthz(Overall)
  /\ flag' = FALSE
  /\ UNCHANGED <<today, size, env, recent, retention, cleanVars, faults>>

-----------------------------------------------------------------------------
\* The cleanup thread: _cleanup_run.

Candidates(day) == {d \in Days : size[d] > 0 /\ d # day}

Oldest(S) == {d \in S : \A e \in S : d <= e}

\* The locals of a run that is over are dead and are cleared.
CleanupOver ==
  /\ clean' = "sleep"
  /\ startDay' = 1 /\ months' = 0 /\ allowed' = {} /\ todo' = {} /\ over' = FALSE

Remove(d) == size' = [size EXCEPT ![d] = 0] /\ todo' = todo \ {d}

\* At startup (unless the last run was recent) and at 3 AM.
StartCleanup ==
  /\ clean = "sleep"
  /\ clean' = "time"
  /\ startDay' = today
  /\ months' = retention
  /\ allowed' = recent
  /\ todo' = IF retention > 0 THEN Candidates(today) ELSE {}
  /\ UNCHANGED <<today, size, env, recent, pollVars, over, flag, faults>>

\* Mutated form of Expired: one month more is kept than was asked for.
Expired_OneLate(d) == Age(d, startDay) > months + 1

Expired(d) == Age(d, startDay) > months

\* Time-based retention, one file after the other.
Retire(d) ==
  /\ clean = "time"
  /\ d \in Oldest(todo)
  /\ IF Expired(d) THEN Remove(d) ELSE todo' = todo \ {d} /\ UNCHANGED size
  /\ UNCHANGED <<today, env, recent, pollVars, clean, startDay, months,
                 allowed, over, flag, faults>>

RetireFails(d) ==
  /\ clean = "time"
  /\ d \in Oldest(todo) /\ Expired(d)
  /\ Fault
  /\ todo' = todo \ {d}
  /\ UNCHANGED <<today, size, env, recent, pollVars, clean, startDay, months,
                 allowed, over, flag>>

\* The usage is read, and the directory again if it is too high.
ReadUsage ==
  /\ clean = "time" /\ todo = {}
  /\ over' = (Used > High)
  /\ todo' = IF Used > High THEN Candidates(startDay) ELSE {}
  /\ clean' = "space"
  /\ UNCHANGED <<today, size, env, recent, pollVars, startDay, months,
                 allowed, flag, faults>>

\* Mutated form of FreeSpace: the usage is not read again.
FreeSpace_StaleUsage(d) ==
  /\ clean = "space" /\ over
  /\ d \in Oldest(todo)
  /\ Remove(d)
  /\ UNCHANGED <<today, env, recent, pollVars, clean, startDay, months,
                 allowed, over, flag, faults>>

FreeSpace(d) ==
  /\ clean = "space" /\ over
  /\ d \in Oldest(todo)
  /\ Remove(d)
  /\ over' = (Used - size[d] > High)
  /\ UNCHANGED <<today, env, recent, pollVars, clean, startDay, months,
                 allowed, flag, faults>>

\* A removal that raises ends the run and leaves the flag as it was.
FreeSpaceFails ==
  /\ clean = "space" /\ over /\ todo # {}
  /\ Fault
  /\ CleanupOver
  /\ UNCHANGED <<today, size, env, recent, pollVars, flag>>

EndCleanup ==
  /\ clean = "space"
  /\ over => todo = {}
  /\ flag' = over
  /\ CleanupOver
  /\ UNCHANGED <<today, size, env, recent, pollVars, faults>>

-----------------------------------------------------------------------------
\* Everybody else.

Midnight ==
  /\ today < MaxDay
  /\ today' = today + 1
  /\ UNCHANGED <<size, env, recent, pollVars, cleanVars, flag, faults>>

Reconfigure ==
  /\ Fault
  /\ configured' \in 0 .. MaxRetention \ {configured}
  /\ recent' = recent \union {configured'}
  /\ UNCHANGED <<today, size, down, pollVars, cleanVars, flag>>

Outage ==
  /\ Fault
  /\ \E s \in {"eda", "kc", "k8s"} : down' = (down \ {s}) \union ({s} \ down)
  /\ UNCHANGED <<today, size, configured, recent, pollVars, cleanVars, flag>>

\* The startup reads the configuration before it starts the cleanup thread.
Restart ==
  /\ Fault
  /\ retention' = IF "k8s" \in down THEN Default ELSE configured
  /\ recent' = {configured}
  /\ poll' = "config" /\ polled' = {} /\ unwritten' = FALSE /\ staleFor' = Never
  /\ WriteHealthz("starting")
  /\ CleanupOver
  /\ flag' = FALSE
  /\ UNCHANGED <<today, size, env, crd>>

PollStep ==
  \/ ReadConfig \/ NothingToWrite
  \/ \E d \in Days : WriteLine(d)
  \/ Report

CleanupStep ==
  \/ StartCleanup \/ ReadUsage \/ EndCleanup
  \/ \E d \in Days : Retire(d) \/ FreeSpace(d)

Next ==
  \/ PollStep \/ CleanupStep
  \/ \E d \in Days : RetireFails(d)
  \/ FreeSpaceFails
  \/ Midnight \/ Reconfigure \/ Outage \/ Restart

Spec == Init /\ [][Next]_vars

\* Both threads run, and 3 AM comes every day.
FairSpec == Spec /\ WF_vars(PollStep) /\ WF_vars(CleanupStep)

-----------------------------------------------------------------------------
\* Properties.

Removed(d) == size[d] > 0 /\ size'[d] = 0

\* Retention removes a file only if it is older than a retentionMonths that
\* the CR has had since the poll loop last read it when the cleanup began, even
\* if the configuration cannot be read.  The space guard removes one only while
\* the volume is above 90% at this very moment, whatever is appended meanwhile,
\* and only the oldest of those it has listed: what a full volume keeps is the
\* newest part of the audit trail.  _cleanup_run of main.py.
RemovalsAreJustified ==
  [][\A d \in Days : Removed(d) =>
       \/ /\ clean = "space" /\ Used > High
          /\ \A e \in todo : e < d => size[e] = 0
       \/ /\ clean = "time"
          /\ \E r \in allowed : r > 0 /\ Age(d, today) > r]_vars

\* Files that the configured retention has expired go in the end.
ExpiredFilesGo ==
  <>[](configured > 0 /\ down = {}) =>
    []<>(\A d \in Days : size[d] > 0 => Age(d, today) <= configured)

Alarm == {"degraded", "error"}

\* A volume that the cleanup cannot bring below 90% is reported in the CRD,
\* though the flag is shared by two threads and is read only once.
FullVolumeIsReported == flag /\ down = {} ~> (crd \in Alarm \/ Used <= High \/ down # {})

\* CHANGELOG: "Outages now surface as `degraded`/`error`, and the stale-poll
\* detector works": while an outage lasts, at least one of the channels says so,
\* Kubernetes' own outages included, unless the volume is full as well; and one
\* of EDA becomes an error if there has been a good poll, whatever Keycloak does.
OutagesAreVisible ==
  /\ <>[](down # {} /\ Used < Capacity) => <>[](crd \in Alarm \/ healthz \in Alarm)
  /\ <>[]("eda" \in down /\ "k8s" \notin down /\ staleFor # Never) => <>[](crd = "error")
=============================================================================
