------------------------- MODULE ChangeRecord_proofs -------------------------
(***************************************************************************)
(* Proofs about ChangeRecord for any resources, nodes and namespaces and   *)
(* any number of answers that fail or are not whole.                       *)
(***************************************************************************)
EXTENDS ChangeRecord, FiniteSetTheorems, TLAPS

-----------------------------------------------------------------------------
\* Type correctness.  Only what the transaction changed is described, and no
\* namespace is left to try when no node is looked at.

Idle == node = Nobody => tries = {}

Changed == pc = "resources" => todo \subseteq Input

LEMMA TruthStays == ASSUME Truth, UNCHANGED truth PROVE Truth'
  BY DEF Truth, truth

LossesTyped == lost \subseteq Losses /\ Cardinality(lost) <= MaxLosses

LEMMA LoseTyped ==
  ASSUME LossesTyped, NEW what, what \subseteq Losses, Lose(what) PROVE LossesTyped'
  BY DEF LossesTyped, Lose

LEMMA LossNames ==
  /\ AllInput \in Losses /\ AllNodes \in Losses
  /\ \A x \in Resources \union Nodes : Name(x) \in Losses
  /\ \A r \in Resources : Diff(r) \in Losses
  /\ \A n \in Nodes, ns \in Namespaces \union {""} : NodeDiff(n, ns) \in Losses
  BY DEF Losses, Loss, AllInput, AllNodes, Name, Diff, NodeDiff

Typed == TypeOK /\ Idle /\ Changed

LEMMA LinesTyped ==
  ASSUME Truth
  PROVE  /\ \A r \in Resources, a \in Actions : ResourceLine(r, a) \in Lines
         /\ \A n \in Nodes, ns \in Namespaces \union {""} : NodeLine(n, ns) \in Lines
         /\ NoChanges \in Lines
<1>1. ASSUME NEW r \in Resources, NEW a \in Actions PROVE ResourceLine(r, a) \in Lines
  <2>1. space[r] \in Namespaces \union {""}
    BY DEF Truth
  <2>2. QED
    BY <2>1 DEF ResourceLine, Lines
<1>2. \A n \in Nodes, ns \in Namespaces \union {""} : NodeLine(n, ns) \in Lines
  BY DEF NodeLine, Lines
<1>3. NoChanges \in Lines
  BY DEF NoChanges, Lines
<1>4. QED
  BY <1>1, <1>2, <1>3

LEMMA TypedInit == Init => Typed
<1> SUFFICES ASSUME Init PROVE Typed
  OBVIOUS
<1>1. Cardinality(lost) <= MaxLosses
  <2>1. lost = {}
    BY DEF Init
  <2>2. MaxLosses \in Nat
    BY ChangeRecordAssumption
  <2>3. Cardinality({}) = 0
    BY FS_EmptySet
  <2>4. QED
    BY <2>1, <2>2, <2>3
<1>2. QED
  BY <1>1, ChangeRecordAssumption DEF Init, Typed, TypeOK, Idle, Changed

LEMMA Derived ==
  ASSUME NEW flag, NEW sides PROVE ActionOf(flag, sides) \in Actions
  BY DEF ActionOf, Actions

LEMMA TypedDescribe ==
  ASSUME Typed, NEW r \in Resources, NEW sides, Describe(r, sides), LossesTyped'
  PROVE  Typed'
<1>1. r \in todo /\ todo \subseteq Resources /\ pc = "resources" /\ pc' = pc /\ UNCHANGED truth
  BY DEF Typed, TypeOK, Describe
<1>2. lines' \subseteq Lines
  BY Derived, LinesTyped DEF Typed, TypeOK, Describe
<1>3. seen' \subseteq Namespaces
  <2>1. space[r] \in Namespaces \union {""}
    BY DEF Typed, TypeOK, Truth
  <2>2. QED
    BY <2>1 DEF Typed, TypeOK, Describe
<1>4. TypeOK'
  BY <1>1, <1>2, <1>3, TruthStays DEF Typed, TypeOK, Describe, LossesTyped
<1>5. QED
  BY <1>1, <1>4 DEF Typed, Idle, Changed, Describe, truth, Input

LEMMA LosesTyped ==
  ASSUME Typed, Next
  PROVE  LossesTyped'
<1>1. LossesTyped
  BY DEF Typed, TypeOK, LossesTyped
<1>2. CASE lost' = lost
  BY <1>1, <1>2 DEF LossesTyped
<1>3. ASSUME NEW what, what \subseteq Losses, Lose(what) PROVE LossesTyped'
  BY <1>1, <1>3, LoseTyped
<1>4. CASE FetchInputFails \/ FetchExecutionFails
  BY <1>3, <1>4, LossNames DEF FetchInputFails, FetchExecutionFails
<1>5. CASE \E r \in Resources : \/ SkipIncomplete(r) \/ FetchDiffFails(r)
                                \/ \E sides \in SUBSET Sides(r) : FetchDiffPartly(r, sides)
  BY <1>3, <1>5, LossNames DEF SkipIncomplete, FetchDiffFails, FetchDiffPartly
<1>6. CASE FetchExecution
  <2>1. {Name(n) : n \in touched \ todo'} \subseteq Losses
    BY LossNames DEF Typed, TypeOK, Truth
  <2>2. QED
    BY <1>3, <1>6, <2>1 DEF FetchExecution
<1>7. ASSUME NEW ns \in Namespaces \union {""}, NodeDiffUnavailable(ns) \/ FetchNodeDiffFails(ns)
      PROVE  LossesTyped'
  <2>1. node \in Nodes
    BY <1>7 DEF NodeDiffUnavailable, FetchNodeDiffFails, Try, Typed, TypeOK, Idle
  <2>2. QED
    BY <1>3, <1>7, <2>1, LossNames DEF NodeDiffUnavailable, FetchNodeDiffFails
<1>8. QED
  BY <1>2, <1>4, <1>5, <1>6, <1>7
     DEF Next, FetchInput, FetchDiff, ResourcesDone, NextNode, FetchNodeDiff, Finish

LEMMA TypedNext == Typed /\ [Next]_vars => Typed'
<1> SUFFICES ASSUME Typed, Next PROVE Typed'
  BY DEF vars, Typed, TypeOK, Truth, Idle, Changed, truth, Input
<1>0. LossesTyped'
  BY LosesTyped
<1> USE TruthStays, <1>0 DEF LossesTyped
<1>1. CASE FetchInput
  BY <1>1 DEF FetchInput, Typed, TypeOK, Idle, Changed, Input, truth
<1>2. CASE FetchInputFails
  BY <1>2 DEF FetchInputFails, Typed, TypeOK, Idle, Changed, truth
<1>3. ASSUME NEW r \in Resources, NEW sides, Describe(r, sides) PROVE Typed'
  BY <1>0, <1>3, TypedDescribe
<1>4. ASSUME NEW r \in Resources, SkipIncomplete(r) PROVE Typed'
  BY <1>4 DEF SkipIncomplete, Typed, TypeOK, Idle, Changed, truth, Input
<1>5. CASE ResourcesDone
  BY <1>5 DEF ResourcesDone, Typed, TypeOK, Idle, Changed, truth
<1>6. CASE FetchExecution
  BY <1>6 DEF FetchExecution, Typed, TypeOK, Truth, Idle, Changed, truth
<1>7. CASE FetchExecutionFails
  BY <1>7 DEF FetchExecutionFails, Typed, TypeOK, Idle, Changed, truth
<1>8. ASSUME NEW n \in Nodes, NextNode(n) PROVE Typed'
  <2>1. Candidates(n) \subseteq Namespaces \union {""}
    <3>1. home[n] \in Namespaces /\ seen \subseteq Namespaces /\ WellKnown \subseteq Namespaces
      BY ChangeRecordAssumption DEF Typed, TypeOK, Truth
    <3>2. QED
      BY <3>1 DEF Candidates
  <2>2. n # Nobody
    BY ChangeRecordAssumption
  <2>3. QED
    BY <1>8, <2>1, <2>2 DEF NextNode, Typed, TypeOK, Idle, Changed, truth
<1>9. ASSUME NEW ns \in Namespaces \union {""}, FetchNodeDiff(ns) PROVE Typed'
  <2>1. node \in Nodes
    BY <1>9 DEF FetchNodeDiff, Try, Typed, TypeOK, Idle
  <2>2. lines' \subseteq Lines
    BY <1>9, <2>1, LinesTyped DEF FetchNodeDiff, Typed, TypeOK
  <2>3. QED
    BY <1>9, <2>1, <2>2 DEF FetchNodeDiff, Try, Typed, TypeOK, Idle, Changed, truth
<1>10. ASSUME NEW ns \in Namespaces \union {""}, NodeDiffUnavailable(ns) \/ FetchNodeDiffFails(ns)
       PROVE  Typed'
  BY <1>10 DEF NodeDiffUnavailable, FetchNodeDiffFails, Try, Typed, TypeOK, Idle, Changed, truth
<1>11. CASE Finish
  BY <1>11, LinesTyped DEF Finish, Typed, TypeOK, Idle, Changed, truth
<1>12. QED
  BY <1>1, <1>2, <1>3, <1>4, <1>5, <1>6, <1>7, <1>8, <1>9, <1>10, <1>11
     DEF Next, FetchDiff, FetchDiffFails, FetchDiffPartly

\* Every variable of the collection keeps its range, and only resources that
\* were changed are described.
THEOREM TypeCorrect == Spec => []Typed
  BY TypedInit, TypedNext, PTL DEF Spec

-----------------------------------------------------------------------------
\* What a line and a missing line tell.

Named(r) == LinesOf(r) # {} /\ (space[r] = "" \/ space[r] \in seen)

Collected ==
  pc # "input" =>
    \A r \in Input : Given(r, AllInput) => Named(r) \/ (pc = "resources" /\ r \in todo)

Finished == pc = "done" => lines # {}

Told == LabelsAreTrue /\ Collected /\ Finished

LEMMA ToldInit == Init => Told
  BY DEF Init, Told, LabelsAreTrue, Collected, Finished, LinesOf

LEMMA LostStays == ASSUME Next PROVE lost \subseteq lost'
  BY DEF Next, Lose, FetchInput, FetchInputFails, SkipIncomplete, FetchDiff, FetchDiffFails,
         FetchDiffPartly, ResourcesDone, FetchExecution, FetchExecutionFails, NextNode,
         FetchNodeDiff, NodeDiffUnavailable, FetchNodeDiffFails, Finish

\* The guess from some of the sides of a diff is right when they are all there,
\* and else never takes a creation for a deletion or a deletion for a creation.
LEMMA GuessedRight ==
  ASSUME Typed, NEW r \in Input, NEW sides \in SUBSET Sides(r)
  PROVE  LET says == ActionOf(r \in marked, sides) IN
         /\ sides = Sides(r) \/ r \in marked => says = did[r]
         /\ {says, did[r]} # {"created", "deleted"}
<1>1. did[r] \in Actions /\ (r \in marked => did[r] = "deleted")
  BY DEF Input, Typed, TypeOK, Truth
<1>2. CASE r \in marked
  BY <1>1, <1>2 DEF ActionOf
<1>3. CASE r \notin marked /\ did[r] = "created"
  <2>1. sides \in {{}, {"after"}} /\ Sides(r) = {"after"}
    BY <1>3 DEF Sides
  <2>2. QED
    BY <1>3, <2>1 DEF ActionOf
<1>4. CASE r \notin marked /\ did[r] = "deleted"
  <2>1. sides \in {{}, {"before"}} /\ Sides(r) = {"before"}
    BY <1>4 DEF Sides
  <2>2. QED
    BY <1>4, <2>1 DEF ActionOf
<1>5. CASE r \notin marked /\ did[r] = "updated"
  <2>1. Sides(r) = {"before", "after"}
    BY <1>5 DEF Sides
  <2>2. {"before", "after"} # {"before"} /\ {"before", "after"} # {"after"}
    OBVIOUS
  <2>3. QED
    BY <1>5, <2>1, <2>2 DEF ActionOf
<1>6. QED
  BY <1>1, <1>2, <1>3, <1>4, <1>5 DEF Actions

LEMMA DescribeTells ==
  ASSUME Typed, LabelsAreTrue, Collected, NEW r \in Resources, NEW sides \in SUBSET Sides(r),
         Describe(r, sides), lost \subseteq lost', sides # Sides(r) => Diff(r) \in lost'
  PROVE  LabelsAreTrue' /\ Collected'
<1>1. r \in todo /\ r \in Input /\ pc = "resources" /\ pc' = pc /\ UNCHANGED truth
  BY DEF Describe, Typed, Changed
<1>2. LabelsAreTrue'
  <2> SUFFICES ASSUME NEW q \in Resources, NEW l \in lines', l.of = q
               PROVE  \/ l.says = did[q]
                      \/ Diff(q) \in lost' /\ q \notin marked /\ {l.says, did[q]} # {"created", "deleted"}
    BY <1>1 DEF LabelsAreTrue, LinesOf, truth
  <2>1. CASE l \in lines
    BY <2>1 DEF LabelsAreTrue, LinesOf
  <2>2. CASE l = ResourceLine(r, ActionOf(r \in marked, sides))
    <3>1. l.says = ActionOf(r \in marked, sides) /\ q = r
      BY <2>2 DEF ResourceLine
    <3>2. QED
      BY <1>1, <3>1, GuessedRight
  <2>3. QED
    BY <2>1, <2>2 DEF Describe
<1>3. Collected'
  <2> SUFFICES ASSUME NEW q \in Input, Given(q, AllInput)' PROVE Named(q)' \/ q \in todo'
    BY <1>1 DEF Collected, Input, truth
  <2>1. CASE q = r
    <3>1. ResourceLine(r, ActionOf(r \in marked, sides)) \in LinesOf(q)'
      BY <2>1 DEF LinesOf, ResourceLine, Describe
    <3>2. QED
      BY <1>1, <2>1, <3>1 DEF Named, Describe, truth
  <2>2. CASE q # r
    <3>1. Given(q, AllInput)
      BY DEF Given
    <3>2. Named(q) \/ q \in todo
      BY <1>1, <3>1 DEF Collected
    <3>3. Named(q) => Named(q)'
      BY <1>1 DEF Named, LinesOf, Describe, truth
    <3>4. QED
      BY <2>2, <3>2, <3>3 DEF Describe
  <2>3. QED
    BY <2>1, <2>2
<1>4. QED
  BY <1>2, <1>3

LEMMA OtherLine ==
  ASSUME NEW x, NEW l, l.of # x, lines' = lines \/ lines' = lines \union {l}
  PROVE  LinesOf(x)' = LinesOf(x)
  BY DEF LinesOf

LEMMA SameLines ==
  ASSUME Typed, Told, \A r \in Resources : LinesOf(r)' = LinesOf(r), UNCHANGED <<truth, seen>>,
         pc \notin {"input", "resources"}, pc' # "input", lost \subseteq lost'
  PROVE  LabelsAreTrue' /\ Collected'
<1>1. LabelsAreTrue'
  BY DEF Told, LabelsAreTrue, truth
<1>2. \A r \in Input : Given(r, AllInput)' => Named(r)'
  BY DEF Told, Collected, Given, Named, Input, truth
<1>3. QED
  BY <1>1, <1>2 DEF Collected, Input, truth

LEMMA ToldNext == Typed /\ Told /\ [Next]_vars => Told'
<1> SUFFICES ASSUME Typed, Told, Next PROVE Told'
  BY DEF vars, Told, LabelsAreTrue, Collected, Finished, LinesOf, Given, Named, truth, Input
<1>0. lost \subseteq lost'
  BY LostStays
<1>1. CASE FetchInput
  BY <1>1 DEF FetchInput, Told, LabelsAreTrue, Collected, Finished, LinesOf, Input, truth
<1>2. CASE FetchInputFails
  BY <1>2 DEF FetchInputFails, Lose, Told, LabelsAreTrue, Collected, Finished, LinesOf, Given, Input, truth
<1>3. ASSUME NEW r \in Resources, NEW sides \in SUBSET Sides(r), Describe(r, sides),
             sides # Sides(r) => Diff(r) \in lost'
      PROVE  Told'
  <2>1. LabelsAreTrue' /\ Collected'
    BY <1>0, <1>3, DescribeTells DEF Told
  <2>2. QED
    BY <1>3, <2>1 DEF Describe, Told, Finished
<1>4. ASSUME NEW r \in Resources, SkipIncomplete(r) PROVE Told'
  <2>1. pc = "resources" /\ pc' = pc /\ lines' = lines /\ seen' = seen /\ todo' = todo \ {r}
        /\ UNCHANGED truth /\ Name(r) \in lost'
    BY <1>4 DEF SkipIncomplete, Lose
  <2>2. LabelsAreTrue'
    BY <1>0, <2>1 DEF Told, LabelsAreTrue, LinesOf, truth
  <2>3. Collected'
    <3> SUFFICES ASSUME NEW q \in Input, Given(q, AllInput)' PROVE Named(q)' \/ q \in todo'
      BY <2>1 DEF Collected, Input, truth
    <3>1. q # r /\ Given(q, AllInput)
      BY <1>0, <2>1 DEF Given
    <3>2. QED
      BY <2>1, <3>1 DEF Told, Collected, Named, LinesOf, truth
  <2>4. QED
    BY <2>1, <2>2, <2>3 DEF Told, Finished
<1>5. CASE ResourcesDone
  BY <1>5 DEF ResourcesDone, Told, LabelsAreTrue, Collected, Finished, LinesOf, Given, Named, Input, truth
<1>6. CASE FetchExecution \/ FetchExecutionFails \/ \E n \in Nodes : NextNode(n)
  <2>1. pc \notin {"input", "resources"} /\ pc' = "nodes" /\ UNCHANGED <<truth, seen, lines>>
    BY <1>6 DEF FetchExecution, FetchExecutionFails, NextNode
  <2>2. \A r \in Resources : LinesOf(r)' = LinesOf(r)
    BY <2>1 DEF LinesOf
  <2>3. QED
    BY <1>0, <2>1, <2>2, SameLines DEF Told, Finished
<1>7. ASSUME NEW ns \in Namespaces \union {""},
             FetchNodeDiff(ns) \/ NodeDiffUnavailable(ns) \/ FetchNodeDiffFails(ns)
      PROVE  Told'
  <2>1. node \in Nodes /\ pc = "nodes" /\ pc' = pc /\ UNCHANGED <<truth, seen>>
    BY <1>7 DEF FetchNodeDiff, NodeDiffUnavailable, FetchNodeDiffFails, Try, Typed, TypeOK, Idle
  <2>2. \A r \in Resources : LinesOf(r)' = LinesOf(r)
    <3>1. \A r \in Resources : NodeLine(node, ns).of # r
      BY <2>1, ChangeRecordAssumption DEF NodeLine
    <3>2. lines' = lines \/ lines' = lines \union {NodeLine(node, ns)}
      BY <1>7 DEF FetchNodeDiff, NodeDiffUnavailable, FetchNodeDiffFails
    <3>3. QED
      BY <3>1, <3>2, OtherLine
  <2>3. QED
    BY <1>0, <2>1, <2>2, SameLines DEF Told, Finished
<1>8. CASE Finish
  <2>1. \A r \in Resources : LinesOf(r)' = LinesOf(r)
    <3>1. \A r \in Resources : NoChanges.of # r
      BY ChangeRecordAssumption DEF NoChanges
    <3>2. lines' = lines \/ lines' = lines \union {NoChanges}
      BY <1>8 DEF Finish
    <3>3. QED
      BY <3>1, <3>2, OtherLine
  <2>2. pc \notin {"input", "resources"} /\ pc' = "done" /\ UNCHANGED <<truth, seen>> /\ lines' # {}
    BY <1>8 DEF Finish
  <2>3. QED
    BY <1>0, <2>1, <2>2, SameLines DEF Told, Finished
<1>9. QED
  <2>1. ASSUME NEW r \in Resources, FetchDiff(r) PROVE Told'
    BY <1>3, <2>1 DEF FetchDiff
  <2>2. ASSUME NEW r \in Resources, FetchDiffFails(r) PROVE Told'
    BY <1>3, <2>2 DEF FetchDiffFails, Lose
  <2>3. ASSUME NEW r \in Resources, NEW sides \in SUBSET Sides(r), FetchDiffPartly(r, sides) PROVE Told'
    BY <1>3, <2>3 DEF FetchDiffPartly, Lose
  <2>4. QED
    BY <1>1, <1>2, <1>4, <1>5, <1>6, <1>7, <1>8, <2>1, <2>2, <2>3 DEF Next

\* Whatever the answers leave out, a deletion that is marked is told as one, and
\* a label is wrong only where the diff of the resource did not come whole; not
\* even then is a creation told as a deletion or a deletion as a creation.
THEOREM LabelsAlwaysTrue == Spec => []LabelsAreTrue
  BY TypedInit, TypedNext, ToldInit, ToldNext, PTL DEF Spec, Told

\* Every collection ends with a line, and a resource goes without one only if
\* the list was not given or its entry in it had no full name.
THEOREM ResourcesNamed == Spec => []EveryResourceNamed
<1>1. Told => EveryResourceNamed
  BY DEF Told, Collected, Finished, EveryResourceNamed, Named
<1>2. QED
  BY <1>1, TypedInit, TypedNext, ToldInit, ToldNext, PTL DEF Spec

-----------------------------------------------------------------------------
\* The search for the diff of every node.

Settled(n, ns) == NodeLine(n, ns) \in lines \/ NodeDiff(n, ns) \in lost

Searched ==
  /\ pc = "done" => todo = {} /\ node = Nobody
  /\ pc \in {"nodes", "done"} =>
       \A n \in touched : \A ns \in Places(n) :
         Given(n, AllNodes) /\ ns \in Candidates(n)
           => n \in todo \/ Settled(n, ns) \/ (node = n /\ ns \in tries)

LEMMA SearchedInit == Init => Searched
  BY DEF Init, Searched

LEMMA SearchGoesOn ==
  ASSUME Searched, pc = "nodes", pc' = pc, UNCHANGED <<truth, seen>>, lost \subseteq lost',
         \A n \in touched : \A ns \in Places(n) :
           n \in todo \/ Settled(n, ns) \/ (node = n /\ ns \in tries) =>
             (n \in todo \/ Settled(n, ns) \/ (node = n /\ ns \in tries))'
  PROVE  Searched'
  BY DEF Searched, truth, Places, Candidates, Given

LEMMA TrySearched ==
  ASSUME Typed, Searched, lost \subseteq lost', NEW ns,
         FetchNodeDiff(ns) \/ NodeDiffUnavailable(ns) \/ FetchNodeDiffFails(ns)
  PROVE  Searched'
<1>1. pc = "nodes" /\ pc' = pc /\ todo' = todo /\ UNCHANGED <<truth, seen>>
      /\ lines \subseteq lines' /\ tries' = tries \ {ns} /\ ns \in tries
      /\ node' = (IF tries' = {} THEN Nobody ELSE node)
  BY DEF FetchNodeDiff, NodeDiffUnavailable, FetchNodeDiffFails, Try
<1> SUFFICES ASSUME NEW n \in touched, NEW s \in Places(n),
                    n \in todo \/ Settled(n, s) \/ (node = n /\ s \in tries)
             PROVE  (n \in todo \/ Settled(n, s) \/ (node = n /\ s \in tries))'
  BY <1>1, SearchGoesOn
<1>2. CASE n \in todo
  BY <1>1, <1>2
<1>3. CASE Settled(n, s)
  BY <1>1, <1>3 DEF Settled
<1>4. CASE node = n /\ s \in tries /\ s # ns
  BY <1>1, <1>4
<1>5. CASE node = n /\ s = ns
  <2>1. Found(s)
    BY <1>5 DEF Places, Found
  <2>2. CASE FetchNodeDiff(ns)
    BY <1>5, <2>1, <2>2 DEF FetchNodeDiff, Settled
  <2>3. CASE NodeDiffUnavailable(ns) \/ FetchNodeDiffFails(ns)
    BY <1>5, <2>3 DEF NodeDiffUnavailable, FetchNodeDiffFails, Lose, Settled
  <2>4. QED
    BY <2>2, <2>3
<1>6. QED
  BY <1>2, <1>3, <1>4, <1>5

LEMMA SearchedStays == Searched /\ UNCHANGED vars => Searched'
<1> SUFFICES ASSUME Searched, UNCHANGED vars PROVE Searched'
  OBVIOUS
<1>1. /\ pc' = pc /\ todo' = todo /\ node' = node /\ tries' = tries /\ lines' = lines
      /\ lost' = lost /\ seen' = seen /\ UNCHANGED truth
  BY DEF vars
<1>2. \A n, ns : Settled(n, ns)' = Settled(n, ns)
  BY <1>1 DEF Settled
<1>3. QED
  BY <1>1, <1>2 DEF Searched, Places, Given, Candidates, truth

LEMMA SearchedNext == Typed /\ Searched /\ [Next]_vars => Searched'
<1> SUFFICES ASSUME Typed, Searched, Next PROVE Searched'
  BY SearchedStays
<1>0. lost \subseteq lost'
  BY LostStays
<1>1. CASE \/ FetchInput \/ FetchInputFails \/ ResourcesDone
           \/ \E r \in Resources : SkipIncomplete(r) \/ \E sides : Describe(r, sides)
  BY <1>1 DEF FetchInput, FetchInputFails, ResourcesDone, SkipIncomplete, Describe, Searched
<1>2. CASE FetchExecution
  <2>1. pc' = "nodes" /\ UNCHANGED <<truth, seen>> /\ \A n \in touched \ todo' : Name(n) \in lost'
    BY <1>2 DEF FetchExecution, Lose
  <2>2. QED
    BY <2>1 DEF Searched, Given, truth
<1>3. CASE FetchExecutionFails
  <2>1. pc' = "nodes" /\ AllNodes \in lost'
    BY <1>3 DEF FetchExecutionFails, Lose
  <2>2. QED
    BY <2>1 DEF Searched, Given
<1>4. ASSUME NEW n \in Nodes, NextNode(n) PROVE Searched'
  <2>1. pc = "nodes" /\ pc' = pc /\ node = Nobody /\ node' = n /\ todo' = todo \ {n}
        /\ tries' = Candidates(n) /\ UNCHANGED <<truth, seen, lines, lost>>
    BY <1>4 DEF NextNode
  <2> SUFFICES ASSUME NEW m \in touched, NEW s \in Places(m), Given(m, AllNodes), s \in Candidates(m)
               PROVE  (m \in todo \/ Settled(m, s) \/ (node = m /\ s \in tries))'
    BY <2>1 DEF Searched, truth, Places, Candidates, Given
  <2>2. m # Nobody
    BY ChangeRecordAssumption DEF Typed, TypeOK, Truth
  <2>3. m \in todo \/ Settled(m, s)
    BY <2>1, <2>2 DEF Searched
  <2>4. QED
    BY <2>1, <2>3 DEF Settled
<1>5. ASSUME NEW ns \in Namespaces \union {""},
             FetchNodeDiff(ns) \/ NodeDiffUnavailable(ns) \/ FetchNodeDiffFails(ns)
      PROVE  Searched'
  BY <1>0, <1>5, TrySearched
<1>6. CASE Finish
  <2>1. pc = "nodes" /\ pc' = "done" /\ todo = {} /\ node = Nobody
        /\ UNCHANGED <<truth, seen, todo, node, tries, lost>> /\ lines \subseteq lines'
    BY <1>6 DEF Finish
  <2>2. \A n \in touched, ns \in Namespaces \union {""} : Settled(n, ns) => Settled(n, ns)'
    BY <2>1 DEF Settled
  <2>3. \A n \in touched : Places(n) \subseteq Namespaces \union {""}
    BY DEF Places, Typed, TypeOK, Truth
  <2>4. QED
    BY <2>1, <2>2, <2>3 DEF Searched, Places, Given, Candidates, truth
<1>7. QED
  BY <1>1, <1>2, <1>3, <1>4, <1>5, <1>6 DEF Next, FetchDiff, FetchDiffFails, FetchDiffPartly

\* The record has the diff of a reconfigured node from every place that has it,
\* unless the node was not named, that very query gave nothing, or the namespace
\* could not be guessed: the collection keeps the namespaces of all the resources
\* it described and never gives up a node or a namespace for another's sake.
THEOREM NodesDiffed == Spec => []EveryNodeDiffed
<1>1. ASSUME Typed, Told, Searched PROVE EveryNodeDiffed
  <2> SUFFICES ASSUME pc = "done", NEW n \in touched, NEW ns \in Places(n), Given(n, AllNodes),
                      NodeDiff(n, ns) \notin lost, ns = "" \/ Guessed(n)
               PROVE  NodeLine(n, ns) \in lines
    BY DEF EveryNodeDiffed
  <2>1. n \in Nodes /\ home[n] \in Namespaces
    BY <1>1 DEF Typed, TypeOK, Truth
  <2>2. ASSUME NEW r \in Input, space[r] = home[n], Given(r, AllInput) PROVE home[n] \in seen
    <3>1. Named(r)
      BY <1>1, <2>2 DEF Told, Collected
    <3>2. QED
      BY <2>1, <2>2, <3>1, ChangeRecordAssumption DEF Named
  <2>3. ns \in Candidates(n)
    <3>1. CASE ns = ""
      BY <3>1 DEF Candidates
    <3>2. CASE ns = home[n] /\ Guessed(n)
      BY <2>2, <3>2 DEF Guessed, Candidates
    <3>3. QED
      BY <3>1, <3>2 DEF Places
  <2>4. node = Nobody /\ n # Nobody /\ n \notin todo
    BY <1>1, <2>1, ChangeRecordAssumption DEF Searched
  <2>5. QED
    BY <1>1, <2>3, <2>4 DEF Searched, Settled
<1>2. QED
  BY <1>1, TypedInit, TypedNext, ToldInit, ToldNext, SearchedInit, SearchedNext, PTL DEF Spec
=============================================================================
