----------------------------- MODULE ChangeRecord -----------------------------
(***************************************************************************)
(* What the record of one settled transaction says                         *)
(* (collect_transaction_lines and the fetches beneath it, transaction.py). *)
(* The input resources, a diff per resource, the list of nodes and a diff  *)
(* per node and candidate namespace are fetched one after the other.  Any  *)
(* of them may fail, or answer without what was asked for: that is logged  *)
(* or ignored, and the rest goes on.                                       *)
(***************************************************************************)
EXTENDS Integers, FiniteSets

CONSTANTS
  Resources,    \* resources a transaction may have as input
  Nodes,        \* nodes it may reconfigure
  Namespaces,   \* namespaces of resources and nodes
  WellKnown,    \* the namespaces _collect_nodecfg_lines always tries
  MaxLosses     \* answers that failed or left something out (bound of the model)

\* A placeholder where no node is being looked at.
Nobody == "nobody"

\* The names of lines and fetches are names of nothing else.
ASSUME ChangeRecordAssumption ==
  /\ WellKnown \subseteq Namespaces
  /\ MaxLosses \in Nat
  /\ Resources \intersect Nodes = {}
  /\ {Nobody, "none"} \intersect (Resources \union Nodes) = {}
  /\ "" \notin Namespaces

VARIABLES
  did,          \* what the transaction did to each resource
  marked,       \* the deleted resources that the input list marks isDelete
  space,        \* the namespace of each resource, "" for none
  home,         \* the namespace of each node
  touched,      \* the nodes whose configuration it changed
  namesOnly,    \* does the execution API give names without namespaces?
  loose,        \* does a query without a namespace find a node?
  pc,           \* which fetch is next
  todo,         \* resources or nodes still to be looked at
  node,         \* the node being looked at
  tries,        \* namespaces still to be tried for it
  seen,         \* namespaces of the resources collected
  lines,        \* the lines of the record
  lost          \* what the answers did not give (history)

truth == <<did, marked, space, home, touched, namesOnly, loose>>
vars == <<truth, pc, todo, node, tries, seen, lines, lost>>

Actions == {"created", "updated", "deleted"}

ResourceLine(r, action) == [of |-> r, at |-> space[r], says |-> action]
NodeLine(n, ns) == [of |-> n, at |-> ns, says |-> "diff"]
NoChanges == [of |-> "none", at |-> "", says |-> "no config changes"]

Lines == [of : Resources \union Nodes \union {"none"}, at : Namespaces \union {""},
          says : Actions \union {"diff", "no config changes"}]

Input == {r \in Resources : did[r] # "none"}

\* What an answer can fail to give: the list of the resources or of the nodes,
\* a name in it, the diff of a resource, that of a node in a namespace.
Loss(what, of, at) == [what |-> what, of |-> of, at |-> at]
AllInput == Loss("input", "none", "")
AllNodes == Loss("execution", "none", "")
Name(x) == Loss("name", x, "")
Diff(r) == Loss("diff", r, "")
NodeDiff(n, ns) == Loss("diff", n, ns)

Losses == [what : {"input", "execution", "name", "diff"},
           of : Resources \union Nodes \union {"none"}, at : Namespaces \union {""}]

\* Any transaction.
Truth ==
  /\ did \in [Resources -> Actions \union {"none"}]
  /\ marked \in SUBSET {r \in Resources : did[r] = "deleted"}
  /\ space \in [Resources -> Namespaces \union {""}]
  /\ home \in [Nodes -> Namespaces]
  /\ touched \in SUBSET Nodes
  /\ namesOnly \in BOOLEAN /\ loose \in BOOLEAN

TypeOK ==
  /\ Truth
  /\ pc \in {"input", "resources", "execution", "nodes", "done"}
  /\ todo \in SUBSET (IF pc \in {"nodes", "done"} THEN Nodes ELSE Resources)
  /\ node \in Nodes \union {Nobody}
  /\ tries \in SUBSET (Namespaces \union {""})
  /\ seen \in SUBSET Namespaces
  /\ lines \subseteq Lines
  /\ lost \subseteq Losses /\ Cardinality(lost) <= MaxLosses

Init ==
  /\ Truth
  /\ pc = "input" /\ todo = {} /\ node = Nobody /\ tries = {} /\ seen = {}
  /\ lines = {} /\ lost = {}

Lose(what) ==
  /\ lost' = lost \union what
  /\ Cardinality(lost') <= MaxLosses

-----------------------------------------------------------------------------
\* _collect_resource_change_lines

FetchInput ==
  /\ pc = "input"
  /\ pc' = "resources" /\ todo' = Input
  /\ UNCHANGED <<truth, node, tries, seen, lines, lost>>

\* HTTP 400 or any other failure, or an answer without the list: the record
\* goes on without resources.
FetchInputFails ==
  /\ pc = "input"
  /\ Lose({AllInput})
  /\ pc' = "execution"
  /\ UNCHANGED <<truth, todo, node, tries, seen, lines>>

\* An entry without a name, group, version or kind is passed over.
SkipIncomplete(r) ==
  /\ pc = "resources" /\ r \in todo
  /\ Lose({Name(r)})
  /\ todo' = todo \ {r}
  /\ UNCHANGED <<truth, pc, node, tries, seen, lines>>

\* The sides that the diff of a resource has.
Sides(r) == CASE did[r] = "created" -> {"after"}
              [] did[r] = "deleted" -> {"before"}
              [] OTHER -> {"before", "after"}

\* Mutated form of ActionOf: what has no new side was deleted.
ActionOf_NoAfter(flag, sides) ==
  IF flag \/ "after" \notin sides THEN "deleted"
  ELSE IF "before" \notin sides THEN "created" ELSE "updated"

\* The action is guessed from the sides that were answered, unless the entry is
\* marked as a deletion.
ActionOf(flag, sides) ==
  IF flag \/ sides = {"before"} THEN "deleted"
  ELSE IF sides = {"after"} THEN "created" ELSE "updated"

Describe(r, sides) ==
  /\ pc = "resources" /\ r \in todo
  /\ lines' = lines \union {ResourceLine(r, ActionOf(r \in marked, sides))}
  /\ seen' = seen \union ({space[r]} \ {""})
  /\ todo' = todo \ {r}
  /\ UNCHANGED <<truth, pc, node, tries>>

FetchDiff(r) ==
  /\ Describe(r, Sides(r))
  /\ UNCHANGED lost

\* An answer without one side or both, or with a side that has no data.
FetchDiffPartly(r, sides) ==
  /\ sides # Sides(r)
  /\ Describe(r, sides)
  /\ Lose({Diff(r)})

\* Mutated form of FetchDiffFails: the resource is skipped.
FetchDiffFails_Skips(r) ==
  /\ pc = "resources" /\ r \in todo
  /\ Lose({Diff(r)})
  /\ todo' = todo \ {r}
  /\ UNCHANGED <<truth, pc, node, tries, seen, lines>>

FetchDiffFails(r) ==
  /\ Describe(r, {})
  /\ Lose({Diff(r)})

ResourcesDone ==
  /\ pc = "resources" /\ todo = {}
  /\ pc' = "execution"
  /\ UNCHANGED <<truth, todo, node, tries, seen, lines, lost>>

-----------------------------------------------------------------------------
\* _get_execution_nodes and _collect_nodecfg_lines

\* A node without a name is left out.
FetchExecution ==
  /\ pc = "execution"
  /\ pc' = "nodes" /\ todo' \in SUBSET touched
  /\ Lose({Name(n) : n \in touched \ todo'})
  /\ UNCHANGED <<truth, node, tries, seen, lines>>

\* A failure, or an answer without the list.
FetchExecutionFails ==
  /\ pc = "execution"
  /\ Lose({AllNodes})
  /\ pc' = "nodes" /\ todo' = {}
  /\ UNCHANGED <<truth, node, tries, seen, lines>>

\* Mutated form of Candidates: trust the namespace that comes with the node.
Candidates_OwnOnly(n) == IF namesOnly THEN {""} ELSE {home[n]}

\* The node's own namespace if it is given, those of the resources, the well
\* known ones, and none at all.
Candidates(n) ==
  seen \union WellKnown \union {""} \union (IF namesOnly THEN {} ELSE {home[n]})

NextNode(n) ==
  /\ pc = "nodes" /\ node = Nobody /\ n \in todo
  /\ node' = n
  /\ todo' = todo \ {n}
  /\ tries' = Candidates(n)
  /\ UNCHANGED <<truth, pc, seen, lines, lost>>

Try(ns) ==
  /\ pc = "nodes" /\ ns \in tries
  /\ tries' = tries \ {ns}
  /\ node' = IF tries' = {} THEN Nobody ELSE node

Found(ns) == ns = home[node] \/ (ns = "" /\ loose)

FetchNodeDiff(ns) ==
  /\ Try(ns)
  /\ lines' = IF Found(ns) THEN lines \union {NodeLine(node, ns)} ELSE lines
  /\ UNCHANGED <<truth, pc, todo, seen, lost>>

\* The node is there, and its answer says dataUnavailable or shows no change.
NodeDiffUnavailable(ns) ==
  /\ Try(ns)
  /\ Found(ns)
  /\ Lose({NodeDiff(node, ns)})
  /\ UNCHANGED <<truth, pc, todo, seen, lines>>

FetchNodeDiffFails(ns) ==
  /\ Try(ns)
  /\ Lose({NodeDiff(node, ns)})
  /\ UNCHANGED <<truth, pc, todo, seen, lines>>

\* Nothing collected is recorded as "(no config changes)".
Finish ==
  /\ pc = "nodes" /\ todo = {} /\ node = Nobody
  /\ pc' = "done"
  /\ lines' = IF lines = {} THEN {NoChanges} ELSE lines
  /\ UNCHANGED <<truth, todo, node, tries, seen, lost>>

Next ==
  \/ FetchInput \/ FetchInputFails
  \/ \E r \in Resources :
       \/ SkipIncomplete(r)
       \/ FetchDiff(r) \/ FetchDiffFails(r)
       \/ \E sides \in SUBSET Sides(r) : FetchDiffPartly(r, sides)
  \/ ResourcesDone
  \/ FetchExecution \/ FetchExecutionFails
  \/ \E n \in Nodes : NextNode(n)
  \/ \E ns \in Namespaces \union {""} :
       FetchNodeDiff(ns) \/ NodeDiffUnavailable(ns) \/ FetchNodeDiffFails(ns)
  \/ Finish

Spec == Init /\ [][Next]_vars

-----------------------------------------------------------------------------
\* Properties.

LinesOf(x) == {l \in lines : l.of = x}

\* A collection ends with a line, whatever failed on the way.  An input resource
\* missing from it is one whose list was not given or whose entry had no full
\* name: a diff that fails or is empty costs the resource its diff, never its
\* line.
Given(x, all) == {all, Name(x)} \intersect lost = {}

EveryResourceNamed ==
  pc = "done" =>
    /\ lines # {}
    /\ \A r \in Input : Given(r, AllInput) => LinesOf(r) # {}

\* A line says what happened to its resource, and always for one that is marked
\* as deleted.  Where it does not, the diff did not come whole, and even then a
\* creation never passes for a deletion nor a deletion for a creation.
LabelsAreTrue ==
  \A r \in Resources : \A l \in LinesOf(r) :
    \/ l.says = did[r]
    \/ Diff(r) \in lost /\ r \notin marked /\ {l.says, did[r]} # {"created", "deleted"}

\* Where EDA has the diff of a reconfigured node, and where the collection can
\* look for it: any namespace but the node's own when that is not given, not well
\* known, and not the namespace of a resource of the transaction either.
Places(n) == {home[n]} \union (IF loose THEN {""} ELSE {})

Guessed(n) ==
  \/ ~namesOnly \/ home[n] \in WellKnown
  \/ \E r \in Input : space[r] = home[n] /\ Given(r, AllInput)

\* The diff of a reconfigured node is in the record from every place that has
\* it, unless the list of nodes or the node's name in it was not given, that very
\* query failed or came back empty, or its namespace could not be guessed.  What
\* happens in one namespace, or to another node, costs nothing here.
EveryNodeDiffed ==
  pc = "done" =>
    \A n \in touched : \A ns \in Places(n) :
      Given(n, AllNodes) /\ NodeDiff(n, ns) \notin lost /\ (ns = "" \/ Guessed(n))
        => NodeLine(n, ns) \in lines

\* README: "Every configuration change -- who changed what, when, from which
\* IP, with a flattened diff of the config changes".
NoChangesIsTrue == NoChanges \in lines => Input = {} /\ touched = {}
=============================================================================
