# EDA User Audit: a formal model

The repository is an app for Nokia EDA, in Python, with the SDK it is built on. The app's
controller (`useraudit/build/controller`) asks the EDA core every poll interval for new
*transactions* and Keycloak for new login and admin *events*, turns them into lines of
one log file per day, and remembers in a Kubernetes ConfigMap how far it got. A file
server hands the files to collectors. The SDK (`common/`, `utils/`, and the API types
under `useraudit/api`) is what the app's scripts build topologies, component inventories,
addresses, port names, health scores and API resources with.

An audit log is worth what it does not lose, does not invent and does not repeat; an SDK
function is worth that two different things never look the same. This directory states
such properties for the code, checks them on small instances and proves the controller's
safety for instances of every size.

Paths below are relative to the repository's root; `main.py` etc. are the files of
`useraudit/build/controller`.

## The system

| Part | State | Operations | Where it is modelled |
|---|---|---|---|
| Transaction scan (`transaction.py`, `poll_transactions`, `discover_current_watermark`) | `_deferred_since` (memory) | probe ids upwards from the watermark; look ahead past absent ids; defer unsettled ones; give up after an hour | `TransactionScan`, `EdaTransactions` |
| Record content (`transaction.py`, `collect_transaction_lines`) | – | fetch inputs, diffs, nodes, node diffs; label them | `ChangeRecord` |
| Poll loop (`main.py`, `main`) | the ConfigMap `useraudit-state`; the log files | first run, a cycle, saving the state under `_state_lock` | `PollLoop` |
| Cleanup thread (`main.py`, `_cleanup_thread`, `_cleanup_run`) | `lastCleanupTime`, the files, `_cleanup_health` | startup run, 3 AM run: retention, then space | `PollLoop` (state), `Housekeeping` (files) |
| Health (`main.py` 552–604, `fileserver.write_healthz`) | `last_successful_poll`, CRD status, `.healthz.json` | one report per cycle | `Housekeeping` |
| Keycloak feed (`keycloak_events.py`) | `_resource_types_filter_ok`; `users`/`groups` caches; `lastUserEventMs` | page both feeds back to the watermark, filter, format | `KeycloakFeed` |
| Authentication (`auth.py`) | three token/secret caches; the Secret; the Keycloak client and its roles | take a token, provision the client, repair a 401/403 | `ServiceAccount` |
| TLS trust, Keycloak base (`auth.py` 100–280) | SSL context, time of the last reload, base URL | build, reload, probe | no |
| File server (`fileserver.py`), log puller (`logs/pull-audit-logs.sh`) | the files, `.healthz.json`; the collector's copies | list, serve, pull | `write_healthz` in `Housekeeping`, else no |
| Configuration diff (`ndiff_delta` and flattening) | – | pure | no |
| Kubernetes client (`k8s.py`) | – | request wrappers | as the requests of `PollLoop` |
| Topologies and overlays (`common/db_topology/`) | dictionaries shared by reference; handles into them | build, fill, hand over, write | `Topology` |
| Component inventory (`common/component.py`, the path readers) | – | a component from one row of a node's state | `Components` |
| Addresses (`utils/ip.py`) | – | read, shorten, check, mask, list | `Addresses` |
| Port names (`utils/interface.py`) | – | the device's name of a port | `PortNames` |
| Health scores (`common/health.py`) | – | aggregate, weigh, explain | `HealthScores` |
| API types (`useraudit/api/v1alpha1/pysrc`) | – | `from_input`, `to_input` | `ApiTypes` |
| CRD, manifests, settings, the other helpers, `test/` | – | declarations, wrappers, stubs | no |

How they interact. `main` runs the poll loop; the cleanup thread and the file server are
daemon threads beside it. The two loops share the ConfigMap (each writes all of it but
owns some fields; `_state_lock` and the `resourceVersion` guard it), the log directory,
the variable `current_retention` and the flag `_cleanup_health`. All HTTP goes through
`auth.py`, whose failures reach the callers as exceptions; `transaction.py` gives one
answer, a clean 404, a meaning of its own. Both feeds end up in the same files, and both
watermarks in the same save.

What is hard about it:

* EDA's ids are probed while transactions are submitted, settle out of order, wedge and
  are purged, and the summary of a purged id is that of a later transaction.
* Files and ConfigMap are two stores without a common commit. Each step between them
  can fail, partly take effect, or be the last one before a restart.
* Keycloak's pages are re-evaluated with every request, newest first, and two feeds that
  are read one after the other share one watermark.
* Credentials are rotated, roles stripped and clients deleted by others while a call is
  half way through repairing them.
* A poll loop that never dies must still show that it achieves nothing.
* The SDK's topology objects share dictionaries by reference inside a script and copy them
  between scripts; which handle still counts depends on the order of the calls.
* Names and addresses are composed of parts with special cases (a first MDA, a "::" at an
  end, a network of two), where two different inputs can meet in one output.

## The modules

`AuditTrail` is the promise in the abstract: changes are made and may be forgotten by
their owner, records are written above the mark, and the mark only advances over changes
that are recorded or forgotten. `TransactionScan` and, once for each feed, `PollLoop`
are shown to implement it (`ImplementsAuditTrail`, `TransactionsImplementAuditTrail`,
`EventsImplementAuditTrail`).

| Module | Code | What a state and a step are |
|---|---|---|
| `EdaTransactions` | EDA's core, as `transaction.py` uses it (external) | the state of every id; submit, run, settle, purge; what a summary request answers |
| `TransactionScan` (extends it) | `poll_transactions` 397–525, `discover_current_watermark` 528–548, and of `main` the write, the save, the failures | one probe per step. `missing`, `last`, `batch`, `deferredFor` are the function's locals and `_deferred_since` |
| `ChangeRecord` | `collect_transaction_lines` and below, 223–369 | one fetch per step over everything a transaction may contain. An answer may come whole, fail, come without data, with one side of a diff only, or with entries that lack a name; `lost` (history) is the set of answers that did not come whole |
| `PollLoop` | `main` 399–550, `_read_state`, `_write_state`, `_update_cleanup_time`, `_cleanup_thread`'s schedule | one request, file or lock operation per step, for both threads; `mem` is a thread's copy of the state, `current` whether its `resourceVersion` is still the newest |
| `KeycloakFeed` | `_kc_fetch_paged`, both fetches, `_filter_admin_events`, `collect_keycloak_user_logs` | one page per step; `out` is the list under construction |
| `ServiceAccount` | `eda_api_get`, `kc_admin_get`, `get_eda_api_token`, `_ensure_service_client` and below | one request per step of a call, down to the grant and the revocation of a role |
| `Housekeeping` | `_cleanup_run`, `_read_config`, health and its channels | one file removed, one usage read, one cycle stage per step |
| `Topology` | `DbTopology`, `DbTopoOverlay`, elements, `ElemMetadata` | `heap` holds the dictionaries by their identity, each with its texts and the dictionaries in it; `handles` what the builder methods returned; one method call per step. A list, and the dictionary of attributes, is part of the dictionary that holds it. `said` (history) is what an object's dictionary is meant to say |
| `Addresses`, `PortNames`, `Components`, `HealthScores`, `ApiTypes` | the functions of `ip.py`, `interface.py`, `component.py`, `health.py` and the API types | operators; no state |
| `NamingCalls` | composes `PortNames` and `Components` | a state is one call, or two side by side, and the result |
| `SdkCalls` (extends it) | adds the other three | likewise |

The modules `TransactionScan_proofs`, `ChangeRecord_proofs`, `PollLoop_proofs`,
`KeycloakFeed_proofs`, `ServiceAccount_proofs`, `Housekeeping_proofs`, `Topology_proofs`
and `SdkCalls_proofs` hold the theorems about the module each is named after, the last
one also those about `NamingCalls`, which `SdkCalls` extends.

How the SDK's data is abstracted: an IPv6 text is the sequence its colons separate, a
port name the sequence its dashes separate, a path the sequence of its elements with
their keys; a text the code searches carries the words it contains; a JSON object is a
function on its keys. The widths of addresses are constants.

Definitions named `X_Something` and introduced as "Mutated form of X" are not part of the
model. They show what kind of bug each property would notice: with X replaced by one of
them, the run of that property fails.

What is left out everywhere: texts of lines, parsing of timestamps (a line has a day and
an event a time), HTTP details below "answered, refused, failed", and data a property
does not distinguish.

## The runs

All bounds are named in the `.cfg`; identities (ids, days, events) are small integers
because their order matters, so symmetry does not apply. Deadlock is checked except in
`record` and `record_false`, where the collection is over in the end.

| Run | Question | Bounds, and why they suffice |
|---|---|---|
| `scan` | Does the scan lose, invent or repeat anything, does it end, does a wedged transaction hold up the others? | 3 ids (one passed, one skipped or wedged, one behind it), look-ahead 2 (one absent id may be passed), timeout 2 ticks, 2 failures (one to fail and one in the retry). `FastCommit = FALSE`: no transaction is submitted *and* settles within one scan; `scan_race` shows why this must be assumed |
| `poll` | Do both feeds implement the audit trail across failures, and does everything get logged? | 2 transactions, 1 event, 2 days (two files in one cycle, so that one can fail after the other), 1 failure anywhere |
| `poll_delete` | Are the threads' saves serial and loss-free, also when the ConfigMap is deleted? | the same with 2 failures, one of which may be the deletion |
| `kc` | Are paging, filter and watermark exact? | pages of 1, two of them, 3 logins (one is beyond the ceiling), 2 admin events (one page shift), 2 milliseconds (before, at and after the watermark), 1 failure |
| `record` | Is every gap or wrong label in a record explained by one answer that did not come whole? | 2 resources and 2 nodes (one fetch fails, the next works), a well-known and another namespace, 2 answers that fail, are empty or leave something out: enough for the diff of a resource and a second answer, the list of nodes or a node's diff, to be wrong in one collection |
| `auth` | Do calls heal, and are roles handled in a safe order? | 3 secrets, 3 interventions or failures; a fresh, an upgraded and a current system to start from |
| `housekeeping` | Are removals justified, and is trouble visible? | 3 days of one month each, files of up to 2 units on a volume of 2 (90% is 1), thresholds 0 and 1 intervals in place of 3 and 6, 2 outages, changes, failures or restarts |
| `topology` | Is what was last said about an element what is written, does an object that is handed over stay the same, do failing calls leave anything behind? | 5 dictionaries, 3 handles, 2 objects: enough for an element's section to be replaced under a handle that is still used, and for two objects on one dictionary; one kind of section and one attribute, resources with no name, a key, or both. The second object may be an overlay that was handed over and has lost its name, so that handing it over again fails |
| `sdk` | Do different things keep different names, does the same thing keep one, and what does a call lose? | addresses of 5 groups of 4 bits (two separate runs of zeros, a run at either end, an IPv4 tail) with the values 0, and all ones in lower and in upper case; networks of 1 to 8 addresses and limits around their sizes; all pairs of port names of the six forms the code knows (two cards, ports and MDAs, one XIOM, one broken out port, so that names that agree in all parts but one meet), of components over two slots and shelves, of nodes whose names contain none or one of the searched words; up to three instances with one of three scores or none, beside a second metric, with weights of 0 and 2 (a metric can count for nothing, and both can); resources with each of these parts present or absent: metadata with times, managed fields and owners, specification, status with files; one value, and lists of none or one |

What they show, property by property, stands as a comment above each property in its
module. In short:

* `scan`, `poll`, `poll_delete`: what a watermark has passed is in a log file or was
  purged by EDA itself; nothing false is recorded; each extra copy of a line cost a
  failure; the two threads never make each other's save fail or take each other's fields
  back; both feeds implement the abstract trail; in the end everything is logged.
* `record`: a resource that was listed with its full name keeps its line whatever fails
  afterwards; a wrong label has that very diff behind it, not whole, and never takes a
  creation for a deletion; a missing node diff has its own query behind it, failed or
  empty, or a namespace nobody could know. That entries without a full name are passed
  over (`transaction.py:246`), that an answer without data makes a creation "modified"
  (258–271), and that an unavailable or empty node diff leaves no trace (340–346), are
  such answers: the record does not say so itself.
* `kc`: paging neither drops nor repeats; what is lost raced with the cycle or is covered
  by the ceiling's warning.
* `auth`: an authentication failure is never an absent transaction; the marker of the
  current profile is honest about the old role; provisioning never takes away the only
  access; calls heal while the master administrator works, or client and Secret are sound.
* `housekeeping`: a file goes for its age or because the volume is too full at that very
  moment, oldest first; expired files do go; a full volume and an outage of anything show
  on at least one of the two channels.
* `topology`: what was said through a handle that an `ElemMetadata` call has since
  replaced is not written, everything else is; the second handing over of an overlay
  fails and leaves nothing behind; `set_node` of an endpoint breaks the chain with the
  node already set.
* `sdk`: the exceptions named in the properties are the code's own: "::" for one group at
  an end is no address, `FE80::1` and `fe80::1` are one address with two short texts
  (`ip.py:125` takes off zeros and keeps the case; an IPv4 tail comes out in lower case),
  the broadcast address is listed for one limit, a network of two is listed whole even if
  one address was asked for (`ip.py:206`), a first MDA and
  none are one SR OS port, EOS calls every port "ethernet" that is not just a card and a
  port, power modules in the same place of two shelves are one resource, a chassis without
  a row loses the node's SR OS components, an empty list of instances raises, times and
  managed fields are emptied by a round trip.

The remaining runs show disagreements between the code and what the repository says of it
(each stops at TLC's counterexample):

| Run | What the repository says | What the code does |
|---|---|---|
| `scan_race` | README.md:5, "every configuration change made in EDA" | an id that was absent when probed, and exists a moment later together with a settled successor, is passed by the watermark and never audited |
| `record_false` | README.md:5, "a human-readable diff of what changed" | a failed fetch is swallowed; if nothing was collected the record says "(no config changes)" and is final |
| `kc_race` | README.md:6, "every sign-in and sign-out" | a login that arrives between the two fetches and is not later than an admin event of that cycle is passed by the common watermark |

Three more were seen while modelling and have no run of their own. The comment at
`interface.py:197` gives `ethernet-2-b-1` the name `GigabitEthernet0/1/1/0` on IOS XR, but
line 205 reads its third part as a number and raises before the branch for MDAs (line 211)
is reached; `PortNames` has what the code does, and `PortsStayApart` says nothing of
whether these ports have a name. If EDA answered ids that
do not exist with unknownTid, as `transaction.py:376` has it, the counter that ends the
scan would be reset each time and the scan would not end; `ScanTerminates` is stated for
a service that answers them with 404 or the summary of an older id. And a line goes into
the file of its own day, also when it is polled after midnight, though
useraudit/docs/README.md:303 says that finished days never change again.

Consequently the passing runs state what does hold: `NoLoss` under the assumption above,
`LossesAreKnown` (an event without a line is one that raced with a cycle or one that the
ceiling's warning covers), `EveryNodeDiffed` (a gap has a failed
or empty answer, or a namespace nobody could know, behind it).

Some bounds are worth knowing when the results are read. In `housekeeping` one file at a
time is old enough to expire, and an outage is a total one (all requests of a kind fail).
`LegacyRoleRevoked` and `UpgradeTakesEffect` make an exception of a revocation that failed,
which `auth.py:485` accepts. In `poll_delete`, what happened between the last poll and the
first run after a deletion of the ConfigMap is outside `NoLoss`: the code cannot know of it.

### Fairness

* The controller's threads run: `WF` of their steps. The code justifies it by catching
  what may go wrong in a cycle or a cleanup and trying again after a wait. Failures are
  never fair; they are bounded in number, so each behaviour has a last one.
* Time passes: `WF_vars(Tick)` in `TransactionScan` (the stuck timer).
* `PollLoop` lets a poll return any prefix of the new transactions, because a deferred
  one ends a scan. That it does not do so for ever is what `TransactionScan` shows, hence
  `SF_vars(PollsAll)`.
* `ServiceAccount`: tokens expire between calls (`SF_vars(Expire)`); they live minutes
  and the poll loop waits between cycles.
* EDA, Keycloak and the administrators owe nothing.

## The proofs

Each theorem is proved for all values of the constants that satisfy the named assumption
of its module (naturals, thresholds in order, names that differ): any number of
transactions, events, days, nodes, secrets and failures, any page size and look-ahead;
any number of objects, handles, dictionaries, sections and attributes of a topology; any
numbers of cards, ports, MDAs, XIOMs, loopbacks and lags, any nodes and slots; any scores,
weights and number of instances; any keys, values and lengths of lists of a resource; any
number of hextets, from three, and any width of an octet. Every safety property that a
passing run checks is proved, the three refinements included. Module by module:

| Module | Theorems |
|---|---|
| `TransactionScan_proofs` | `TypeCorrect`; `RecordsAlwaysTrue`: `Spec => []RecordsAreTrue`; `NeverBack`: `Spec => NeverReaudited`; `NothingIsLost`: `LookAheadSafe => (Spec => []NoLoss)`; `Implements`: `LookAheadSafe => (Spec => ImplementsAuditTrail)` |
| `PollLoop_proofs` | `TypeCorrect`; `Invariant`; `NothingLost`: `Spec => []NoLoss`; `NoFreeDuplicates`: `Spec => []DuplicatesOnlyFromFaults`; `SavesNeverRefused`: `Spec => []NoConflict`; `NeverRollsBack`: `Spec => StateNeverRollsBack`; `TransactionsRefine`, `EventsRefine`: `~MayDelete => (Spec => ...ImplementAuditTrail)` |
| `KeycloakFeed_proofs` | `Invariant`; `CopiesCostFaults`: `Spec => []NoCopyWithoutFault`; `LossesAlwaysKnown`: `Spec => []LossesAreKnown` |
| `ChangeRecord_proofs` | `TypeCorrect`; `LabelsAlwaysTrue`: `Spec => []LabelsAreTrue`; `ResourcesNamed`: `Spec => []EveryResourceNamed`; `NodesDiffed`: `Spec => []EveryNodeDiffed` |
| `ServiceAccount_proofs` | `TypeCorrect`; `Invariant`; `AbsenceAlwaysReal`: `Spec => []AbsenceIsReal`; `LegacyRoleGone`: `Spec => []LegacyRoleRevoked`; `AccessNeverStripped`: `Spec => NeverStripsAccess` |
| `Housekeeping_proofs` | `TypeCorrect`; `Invariant`; `RemovalsJustified`: `Spec => RemovalsAreJustified` |
| `Topology_proofs` | `Invariant`; `WrittenIsSaid`: `Spec => []WhatWasSaidIsWritten`; `IdentityIsKept`: `Spec => []HandOverKeepsIdentity`; `FailuresAreHarmless`: `Spec => FailuresLeaveNothing` |
| `SdkCalls_proofs` | `PortNaming`: `Spec => []PortsStayApart`; `ComponentNaming`: `Spec => []ComponentsStayApart`; `LookupCosts`: `Spec => []LookupsCostOneFact`; `HealthAccountable`: `Spec => []HealthIsAccountable`; `RoundTrips`: `Spec => []RoundTripsKeepValues`; `AddressText`: `Spec => []AddressTextIsCanonical`; `SubnetsHold`: `Spec => []SubnetsHoldTheirAddresses` |

Each preservation proof has one step per action, below it one per conjunct the action can
disturb. None of the properties is inductive by itself; what has to be added is the
substance of each argument.

### The scan

`LookAheadSafe` says that the scan stops at the first absent id (`MaxMissing = 1`) or
that no transaction is submitted and settles within one scan. `scan_race` is the
counterexample without it. With a look-ahead of one the two theorems also hold when
commits are fast, which no run covers. The other three need no assumption: what the
look-ahead can cost is a record, never a false or a repeated one.

`BaseInv` holds for every look-ahead:

* `Ordered`: `base <= watermark <= newest`, the ids a cycle has claimed lie between the
  watermark and `newest`, the probe lies ahead of them, and there is no record before the
  first run;
* `BatchIsNew`, `BatchIsWritten`: a cycle's records lie above the watermark, and all of
  them are in the log in the phase that saves it;
* `RecordsAreTrue`, which is inductive together with the types.

`NoLoss` is not inductive: the watermark is saved long after the scan decided what to
skip. `LookAheadInv` connects the two, and `IInv` is both layers:

* `TimersAreOld`: a timer belongs to an id that exists and, during a scan, to one that
  existed when the scan began. So an id the stuck-transaction valve gives up on is old;
* `NewAreInFlight`: unless commits are fast, what was submitted during the scan has not
  settled (one of the two places where the assumption enters);
* `BatchCovers`: every id between the watermark and `last` is in the batch or purged;
* `SkippedAreHarmless`: an id the probe has passed beyond those is purged, or is too new
  to be followed by a settled one, or was absent and the scan is over (the other place:
  with `MaxMissing = 1` every absent answer ends the scan).

When the scan meets a transaction after a gap, `CollectSkipsPurged` draws the conclusion:
what was skipped on the way is purged. `Implements` then maps each step: a submission to
`Make`, a purge to `Forget`, the first run to `Start`, a complete or partial write to
`Record`, a save to `Advance`, everything else to a stutter.

### The poll loop

`Inv` has five parts:

* `Typed`: the types, and that no copy of the state is ahead of what exists;
* `Serial`: a thread between its re-read and its save holds the lock, and its copy still
  has the newest `resourceVersion`;
* `Fresh`: what a thread is about to save is, in the fields it does not own, what the
  ConfigMap has now, and in its own fields not older. It follows from the second read
  under the lock, and is why `StateNeverRollsBack` holds;
* `Logged`: all that the saved watermarks and the poll loop's copy of them have passed is
  in the files, and what the cycle has fetched is there or in a file still to be written;
* `Priced`: a line above the watermark from which the next cycle will start has at most
  one copy per failure, and one more at most if this cycle has written it.

The refinements need `Begun` as well (the trail has started exactly while the ConfigMap
exists). A deletion is not a step of the abstract trail, hence the assumption `~MayDelete`.

### The Keycloak feed

`NoCopyWithoutFault` needs that an event above the watermark has at most one copy per
failure (`CopiesPaid`). `LossesAreKnown` needs three more facts: events of a feed happen
in the order of their numbers (`Ordered`); the watermark is not ahead of the last fetch
(`Clock`); and an event the cycle is to find is in the list already or its place is on a
page still to come, and at the end of a feed in the list (`Found`). A shift of the window
only moves an event to later pages. The core is `LastPageReaches`: since the places of a
list have no gaps (`NoGaps`, `FullRange`: counted with the cardinality theorems), a page
that is short, or holds an event at or before the watermark, cannot have a sought event
behind it.

### Record content, authentication, housekeeping

* `ChangeRecord`: `Told` is the truth of the labels together with `Collected` (an input
  resource that was listed with its name has a line, and its namespace is known, or it is
  still on the list) and `Finished`. `GuessedRight` says when the action that the code
  reads off the sides of a diff is what happened: if both sides came as they are, or if
  the entry is marked as a deletion. `Searched` (a touched node that was named is still on
  the list, or each of the places that have its diff has given its line, failed, or is
  still to be tried) carries `EveryNodeDiffed`. What is in `lost` stays there
  (`LostStays`), so an excuse once given holds for the finished record.
* `ServiceAccount`: `Told` (nothing has been answered while a call is under way),
  `Cleared` (the old role is known of until it is gone or kept for a reason) and `Held`
  (what was read is still held unless somebody stripped it, and the new role is there
  before the old one goes).
* `Housekeeping`: `Configured` (a retention above 0, of the loop or of a run that has
  files left, is one the CR has had), `Dated`, and `Full` (a usage read as too high is too
  high). The last one rests on `RemovalFrees` and `AppendingFills`: removing a file frees
  exactly its size and an append frees nothing.

### Topologies and overlays

`WhatWasSaidIsWritten` compares what an object would write with a history; what makes it
true is how the dictionaries hang together, and that is `IInv`:

* `Forest`: a dictionary is in at most one other, at one step; the objects' own are in
  none; nothing is in the dictionary of an attribute. So a dictionary has at most one
  place (`OnePlacePerCell`), and an assignment to it changes what is said there and
  nowhere else. Handing over shares an object's own dictionary and nothing below it by
  itself, so the forest stays one; copies for another script make a second tree beside
  the first (`ForestWithCopies`: the copying is injective and closed);
* `HandlesStand`: a handle that still speaks for its path stands on the dictionary at that
  path, and any other on one that no object has any more. The second half is what makes
  writes through old handles harmless, and it is the one a step can easily lose: when a
  section is replaced, exactly the handles for it and for what is below it must fall away;
* `ObjectsStand`: an object has the kind, path and switches of its origin, and its
  dictionary a group, a version and, of a topology, a name. A topology is named whatever
  its resource gives, which needs `NamingAssumption`: a resource gives none but `uiName`
  and `uiNameKey`;
* `SaidIsHeld`: what was said of an object's dictionary is what it holds.

Three lemmas say what a change of the dictionaries changes of an object's content
(`TextSaid`, `BegunSaid` with `PutAtObject` and `PutAtPart`, `CopiedSaid` with
`CopiedPlaces`), and six steps use them: an object is made, a text is set, a dictionary is
put below an object or below one that is nobody's, an object is handed over, a copy is
made. Every action of the module is one of the six.

### The SDK's functions

A state of `SdkCalls` is a single call and its result, so each theorem rests on lemmas
about the functions rather than on an invariant: a call can only break the property of its
own kind (`OneKindOfCall`). The assumptions are those named in `NamingCalls` and
`SdkCalls` and `Addresses`: numbers are naturals, scores lie between 0 and 100, a missing
value is none of the values, a slot's key is none of the words the code searches for. An
address has three hextets at least (eight in the code): with two, "::" would have more
parts than an address.

* `PortNaming`: the first part of a name on the device tells what kind of port it is
  (`NamedByKind`, `KindsApart`), its last part which loopback or lag; within the Ethernet
  ports each system's name can be read back. On SR Linux a name keeps all parts
  (`SeparatedKeepsParts`), on NX-OS and IOS XR the card and the port of those it has a
  name for. For SR OS there is an inverse of the port id (`ReadBack`, `SrosPorts`), which
  returns the name without its first MDA: so two ports of one id agree but for that.
* `ComponentNaming`: a word is in a row's path exactly if it is the system's or one of the
  row's lists' (`PathSays`), which is where the assumptions enter: no slot's key, and not
  the node's name, is a searched word (`SlotAssumption`). Hence the class of a row is that
  of its innermost list (`ClassOfRow`), though "chassis" and "power-shelf" are in the path
  of others; and class and innermost slot make up the row, unless there is a shelf between
  (`RowByClass`). The slot is found at the end of an SR Linux path, and on SR OS as the
  last quoted key, which skips the list without keys behind it (`SrosSlot`).
* `LookupCosts`: what a side lookup finds is read in one place each (`SrosType`,
  `SrosState`), none of them part of the name; what is found is never what stands for
  nothing found (`FactAssumption`).
* `RoundTrips`: the classes are tables of fields (`IsClass`), and the two methods follow
  them level by level. The lemmas named with a level say what each kind of field is written
  as: a plain field as it was read, an object field unless it was falsy, a list element by
  element. If an object suits its class (`Suits`) and what is nested in it is kept
  (`Nested1`, `Nested2`), then it is kept one level up, and nothing is added (`Said1`,
  `Said2`); the classes are taken from the innermost to the resource (`OwnersKept`,
  `EntriesKept`, `MetaKept`, `StatusKept`, `SpecKept`, `ConfigKept`). That times, managed
  fields and the defaults of a specification are the only exceptions can be read off the
  tables: `Time` and `FieldsV1` have no fields, and `UserAuditConfigSpec` alone has
  defaults.
* `HealthAccountable`: the scores are sorted before they are read, and what follows from
  that is most of the proof. `Ordered` shows that the members of a finite set have an order
  (the n-th is the one with n - 1 before it, and that numbers them all), hence that the sorted
  list holds each instance once, in the order of the scores (`SortedIs`). If no instance
  got better, the sorted lists compare place by place (`SortedBelow`: otherwise the k least
  of one list had to fit into k - 1 places of the other, which the pigeonhole theorem
  excludes); so the lowest score does not rise, nor does the total (`TotalBelow`) nor the
  weighted quotient, rounded down as it is (`QuotientsGrow`). The instances that are named
  are a beginning of a list in that order, so nobody worse is left out (`Blamed`); nobody
  is named exactly if all have 100 (`AggBlames`).
* `SubnetsHold`: powers of two, numbers in a base and the two scans of a text are recursive
  functions over an interval, so each of them exists and has its type (`Iterates`), and
  what is needed of it follows by induction over a set of numbers (`NatSet`): laws of
  powers, and that clearing the low bits of a number is dividing and multiplying by a power
  of two. The mask of an octet keeps its high bits, so the "and" octet by octet is the
  clearing of the whole number (`NetworkIs`), and adding to the octets without a carry is
  exact as long as the sum stays in the network, whose low bits are zero (`NthIs`). For
  IPv6 the numbers go through their texts, so the next point is used too: what is listed is
  written short and read again (`ShownIs`).
* `AddressText`: a text with its run of zeros cut out is described place by place (`Cut`,
  `CutParts`), and the three ways the code reads it give the same hextets (`HextetsOfCut`);
  an IPv4 tail is put back first (`QuadIs`), its letters in lower case (`LowerTailIs`). How a
  hextet is written and what it counts are kept apart: the number is that of the `Value` of
  each part, the text that of the parts as they are written (`AsRead`). The scan for the best run keeps that nothing
  longer has been passed (`RunsKnown`), so the text is the shortest (`CompressIs`,
  `ShortestIsMinimal`). `is_ipv6` finds one double colon in such a text and none in a full
  one (`DoublesAre`); counting the parts leaves exactly the exception of the property
  (`CutJudged`, `CutQuadJudged`).

### Only model-checked

* All liveness: `EveryChangeResolved`, `ScanTerminates`, `EveryItemLogged`,
  `EveryEventLogged`, `SelfHeals`, `UpgradeTakesEffect`, `ExpiredFilesGo`,
  `FullVolumeIsReported`, `OutagesAreVisible`. The proof system has no means for fairness
  and `ENABLED` here.

## Not modelled, and why

* `ensure_events_enabled` (the read-modify-write of the realm's event settings): Keycloak
  offers no conditional write, so an administrator's change in between is overwritten by
  construction; there is nothing the code promises about it.
* The name caches, group and user lookup and the login-IP search: they decide what a line
  says, not which lines there are.
* TLS reload and the pinning of Keycloak's base path: such a call is a failed request of
  `ServiceAccount`.
* The file server and the log puller: stateless serving of files, and one pass of `curl`
  and `rm` on another host.
* `ndiff_delta` and the flattening of configurations: text processing.
* A node crash that loses the page cache (files are flushed, not synced): the model's
  crash is that of the process.
* Legacy monthly log files: they are parsed by the same slices as the daily ones.
* Of `utils/paths.py`, the string matching (`path_match`, `remove_list_keys`); of the
  topology, the attributes of an element; of `ip.py`, the enumerations of versions and the
  leading zeros of a hextet (the case of its letters is modelled); of `interface.py`, the tables of speeds.
* `utils/schema.py`, `timestamp.py`, `version.py`, `copy.py`, `state.py`, `namespaces.py`,
  `node_utils.py`, `alarms.py`, `log.py`, `common/bfd.py` and the constants: templates,
  formats, and wrappers of one or two calls of the EDA runtime.
* A list of API objects with `None` in it: `to_input` raises on such an element
  (`userauditconfig.py:139`, `249`), and the inputs of `RoundTripsKeepValues` have none.
* CRDs, OpenAPI, manifests, settings and the test stubs: declarations.
