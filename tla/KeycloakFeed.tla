----------------------------- MODULE KeycloakFeed -----------------------------
(***************************************************************************)
(* collect_keycloak_user_logs and the paged fetch beneath it               *)
(* (keycloak_events.py): one cycle pages through the login events and then *)
(* through the admin events, newest first, and keeps those later than a    *)
(* single watermark, which then moves to the latest time that was kept.    *)
(* Keycloak re-evaluates every page request, so events that arrive between *)
(* two of them shift the window.                                           *)
(*                                                                         *)
(* Writing the lines and saving the watermark is one step here; PollLoop   *)
(* takes it apart.                                                         *)
(***************************************************************************)
EXTENDS Integers, FiniteSets

CONSTANTS
  MaxLogin,     \* login events (bound of the model)
  MaxAdmin,     \* admin events (bound of the model)
  MaxTime,      \* milliseconds that pass (bound of the model)
  PageSize,     \* _PAGE_SIZE
  MaxPages,     \* _MAX_PAGES
  MaxFaults     \* failures and crashes (bound of the model)

ASSUME KeycloakFeedAssumption ==
  /\ {MaxLogin, MaxAdmin, MaxTime, PageSize, MaxPages} \subseteq Nat \ {0}
  /\ MaxFaults \in Nat

VARIABLES
  now,          \* the clock, in milliseconds
  time,         \* when each event happened, 0 if it has not
  kind,         \* what it is worth to the audit
  filterWorks,  \* does Keycloak accept the resourceTypes filter?
  filterOK,     \* _resource_types_filter_ok
  phase,        \* where the cycle is
  page,         \* pages read of the current feed
  out,          \* how often each event is in the lists fetched
  watermark,    \* lastUserEventMs
  copies,       \* how often each event is in the audit log
  raced,        \* events that arrived when a cycle had looked (history)
  warned,       \* events the ceiling's warning speaks of (history)
  polledAt,     \* when the last fetch ended (history)
  base,         \* watermark of the first run (history)
  faults        \* failures so far (bounds the model)

world == <<now, time, kind, filterWorks>>
history == <<raced, warned, polledAt, base>>
vars == <<world, filterOK, phase, page, out, watermark, copies, history, faults>>

Feeds == {"login", "admin"}
Events == {"login"} \X (1 .. MaxLogin) \union {"admin"} \X (1 .. MaxAdmin)

\* "gated" events are of a type that is asked for but are not about an LDAP
\* provider; "noise" is of a type the server-side filter would leave out.
Kinds(f) == IF f = "login" THEN {"audited"} ELSE {"audited", "gated", "noise"}

TypeOK ==
  /\ now \in 1 .. MaxTime
  /\ time \in [Events -> 0 .. MaxTime]
  /\ kind \in [Events -> {"audited", "gated", "noise"}]
  /\ filterWorks \in BOOLEAN /\ filterOK \in BOOLEAN
  /\ phase \in {"idle", "login", "admin", "write"}
  /\ page \in 0 .. MaxPages
  /\ out \in [Events -> 0 .. 1]
  /\ watermark \in 1 .. MaxTime
  /\ copies \in [Events -> 0 .. MaxFaults + 1]
  /\ raced \in SUBSET Events /\ warned \in SUBSET Events
  /\ polledAt \in 1 .. MaxTime /\ base \in 1 .. MaxTime
  /\ faults \in 0 .. MaxFaults

\* The first run has set the watermark to its own clock.
Init ==
  /\ now = 1 /\ watermark = 1 /\ polledAt = 1 /\ base = 1
  /\ time = [e \in Events |-> 0]
  /\ kind = [e \in Events |-> "audited"]
  /\ filterWorks \in BOOLEAN /\ filterOK = TRUE
  /\ phase = "idle" /\ page = 0
  /\ out = [e \in Events |-> 0]
  /\ copies = [e \in Events |-> 0]
  /\ raced = {} /\ warned = {}
  /\ faults = 0

-----------------------------------------------------------------------------
\* One page of a feed.

Fault == faults < MaxFaults /\ faults' = faults + 1

Wire(e) == e[1] = "admin" /\ filterOK => kind[e] # "noise"

\* What a request for feed f lists, all pages together.
Listed(f) == {e \in Events : e[1] = f /\ time[e] # 0 /\ Wire(e)}

NewerThan(e) == {d \in Listed(e[1]) : d[2] > e[2]}

\* Newest first, so an event's place is the number of newer ones.
Batch(f) ==
  {e \in Listed(f) : Cardinality(NewerThan(e)) \in
                       page * PageSize .. (page + 1) * PageSize - 1}

\* Mutated form of Seen: no identity test between pages.
Seen_Nothing == {}

Seen == {e \in Events : out[e] > 0}

Keep(events) == [e \in Events |-> IF e \in events \ Seen THEN out[e] + 1 ELSE out[e]]

\* Mutated form of LastPage: the page is measured without what shifted into it.
LastPage_Deduped(f) ==
  \/ Cardinality(Batch(f) \ Seen) < PageSize
  \/ \E e \in Batch(f) : time[e] <= watermark

\* A short page is the end; a page that reaches the watermark is far enough.  The
\* code has a third reason to stop, a watermark of zero: no cycle gets here with
\* one, because the first run sets it to the clock.
LastPage(f) ==
  \/ Cardinality(Batch(f)) < PageSize
  \/ \E e \in Batch(f) : time[e] <= watermark

\* The ceiling: everything newer than the watermark that was not reached.
Unreached(f) == {e \in Listed(f) : time[e] > watermark /\ e \notin Batch(f) \union Seen}

-----------------------------------------------------------------------------
\* A cycle.

BeginCycle ==
  /\ phase = "idle"
  /\ phase' = "login"
  /\ page' = 0
  /\ out' = [e \in Events |-> 0]
  /\ UNCHANGED <<world, filterOK, watermark, copies, history, faults>>

Served(f) == phase = f /\ (f = "admin" /\ filterOK => filterWorks)

NextPage(f) ==
  /\ Served(f)
  /\ ~LastPage(f) /\ page + 1 < MaxPages
  /\ out' = Keep(Batch(f))
  /\ page' = page + 1
  /\ UNCHANGED <<world, filterOK, phase, watermark, copies, history, faults>>

EndOfFeed(f) ==
  /\ Served(f)
  /\ LastPage(f) \/ page + 1 = MaxPages
  /\ out' = Keep(Batch(f))
  /\ page' = 0
  /\ phase' = IF f = "login" THEN "admin" ELSE "write"
  /\ warned' = IF LastPage(f) THEN warned ELSE warned \union Unreached(f)
  /\ polledAt' = IF f = "admin" THEN now ELSE polledAt
  /\ UNCHANGED <<world, filterOK, watermark, copies, raced, base, faults>>

\* Mutated form of FilterRejected: the error is passed on and forgotten.
FilterRejected_Raises ==
  /\ phase = "admin"
  /\ filterOK
  /\ IF filterWorks THEN Fault ELSE UNCHANGED faults
  /\ phase' = "idle"
  /\ page' = 0
  /\ out' = [e \in Events |-> 0]
  /\ UNCHANGED <<world, filterOK, watermark, copies, history>>

\* HTTP 500 while the filter is sent: start over without it, for good.
FilterRejected ==
  /\ phase = "admin"
  /\ filterOK
  /\ IF filterWorks THEN Fault ELSE UNCHANGED faults
  /\ filterOK' = FALSE
  /\ page' = 0
  /\ out' = [e \in Events |-> IF e[1] = "admin" THEN 0 ELSE out[e]]
  /\ UNCHANGED <<world, phase, watermark, copies, history>>

\* Any other failure propagates; the watermark is untouched.
FetchFails ==
  /\ phase \in Feeds
  /\ Fault
  /\ phase' = "idle"
  /\ page' = 0
  /\ out' = [e \in Events |-> 0]
  /\ UNCHANGED <<world, filterOK, watermark, copies, history>>

\* The admin filter and the watermark test of _add_line.
New == {e \in Events : out[e] > 0 /\ kind[e] = "audited" /\ time[e] > watermark}

Latest(S) == {t \in {time[e] : e \in S} : \A e \in S : time[e] <= t}

Append(S) == copies' = [e \in Events |-> IF e \in S THEN copies[e] + out[e] ELSE copies[e]]

RecordLines ==
  /\ phase = "write"
  /\ Append(New)
  /\ IF New = {} THEN UNCHANGED watermark ELSE watermark' \in Latest(New)
  /\ phase' = "idle"
  /\ out' = [e \in Events |-> 0]
  /\ UNCHANGED <<world, filterOK, page, history, faults>>

\* Some lines may have reached the files; the watermark is held.
RecordFails ==
  /\ phase = "write"
  /\ Fault
  /\ \E some \in SUBSET New : Append(some)
  /\ phase' = "idle"
  /\ out' = [e \in Events |-> 0]
  /\ UNCHANGED <<world, filterOK, page, watermark, history>>

Crash ==
  /\ Fault
  /\ phase' = "idle"
  /\ page' = 0
  /\ out' = [e \in Events |-> 0]
  /\ filterOK' = TRUE
  /\ UNCHANGED <<world, watermark, copies, history>>

-----------------------------------------------------------------------------
\* Keycloak and its users.

\* The cycle has already asked for what it will see of this feed, or the event
\* shares its millisecond with the end of the last fetch.
Late(f) ==
  \/ phase = f /\ page > 0
  \/ phase = "admin" /\ f = "login"
  \/ now = polledAt

Happen(e) ==
  /\ time[e] = 0
  /\ \A n \in 1 .. e[2] - 1 : time[<<e[1], n>>] # 0
  /\ time' = [time EXCEPT ![e] = now]
  /\ \E k \in Kinds(e[1]) : kind' = [kind EXCEPT ![e] = k]
  /\ raced' = IF Late(e[1]) THEN raced \union {e} ELSE raced
  /\ UNCHANGED <<now, filterWorks, filterOK, phase, page, out, watermark,
                 copies, warned, polledAt, base, faults>>

Tick ==
  /\ now < MaxTime
  /\ now' = now + 1
  /\ UNCHANGED <<time, kind, filterWorks, filterOK, phase, page, out,
                 watermark, copies, history, faults>>

Collector ==
  \/ BeginCycle
  \/ \E f \in Feeds : NextPage(f) \/ EndOfFeed(f)
  \/ FilterRejected \/ RecordLines

Next ==
  \/ Collector \/ FetchFails \/ RecordFails \/ Crash
  \/ Tick \/ \E e \in Events : Happen(e)

Spec == Init /\ [][Next]_vars

\* The poll loop runs; Keycloak owes nothing.
FairSpec == Spec /\ WF_vars(Collector)

-----------------------------------------------------------------------------
\* Properties.

Owed(e) == kind[e] = "audited" /\ time[e] > base

\* Passed by the watermark and in no log.
Lost(e) == Owed(e) /\ time[e] <= watermark /\ copies[e] = 0

\* An event the watermark has passed without a line either arrived after the
\* cycle had asked for its feed, or lies behind the page ceiling, and then the
\* controller's log says so: the paging itself drops nothing, also when new events
\* fill a page with what was read before.
LossesAreKnown == \A e \in Events : Lost(e) => e \in raced \union warned

\* Window shifts, page overlaps and the fallback without the filter never put
\* an event into the log twice: only a failure between writing and saving does.
NoCopyWithoutFault == \A e \in Events : copies[e] <= 1 + faults

\* Every event that no cycle raced with, and that the ceiling did not cut off,
\* is logged in the end, whether or not Keycloak accepts the filter.
Accounted(e) == copies[e] > 0 \/ e \in raced \union warned

EveryEventLogged == <>[](\A e \in Events : Owed(e) => Accounted(e))

\* README: "Automatically logs all EDA transactions and Keycloak authentication
\* events" (the ceiling, which is documented, excepted).
EveryEventKept == \A e \in Events : Lost(e) => e \in warned
=============================================================================
