----------------------------- MODULE AuditTrail -----------------------------
(***************************************************************************)
(* What the audit controller promises about one feed of numbered changes:  *)
(* the ids up to the watermark are the ones it will never look at again,   *)
(* so none of them may be left without a record, unless the system that    *)
(* owns the change has itself forgotten it.                                *)
(*                                                                         *)
(* The detailed specifications (TransactionScan: the probe-by-probe scan;  *)
(* PollLoop: the persistence of a cycle's result) implement this one.      *)
(***************************************************************************)
EXTENDS Integers

CONSTANT MaxTx                    \* highest change id (bound of the model)

VARIABLES
  made,       \* ids of the changes made so far
  gone,       \* those whose owner no longer knows them
  recorded,   \* those with a durable line in an audit log
  mark        \* persisted watermark; NotStarted before the first run

vars == <<made, gone, recorded, mark>>

Tx == 1 .. MaxTx

NotStarted == -1

Settled == recorded \union gone

TypeOK ==
  /\ made \in SUBSET Tx
  /\ gone \in SUBSET made
  /\ recorded \in SUBSET made
  /\ mark \in {NotStarted} \union 0 .. MaxTx

Init ==
  /\ made \in SUBSET Tx
  /\ gone \in SUBSET made
  /\ recorded = {}
  /\ mark = NotStarted

\* Ids are allocated above everything the controller has already passed.
Make(n) ==
  /\ n \in Tx \ made
  /\ n > mark
  /\ made' = made \union {n}
  /\ UNCHANGED <<gone, recorded, mark>>

Forget(n) ==
  /\ n \in made \ gone
  /\ gone' = gone \union {n}
  /\ UNCHANGED <<made, recorded, mark>>

\* The first run starts from a change it finds, so history is not replayed.
Start(w) ==
  /\ mark = NotStarted
  /\ w = 0 \/ w \in made
  /\ mark' = w
  /\ UNCHANGED <<made, gone, recorded>>

\* At least once: an id above the mark may be recorded again.
Record(S) ==
  /\ mark # NotStarted
  /\ \A n \in S : n \in made /\ n > mark
  /\ recorded' = recorded \union S
  /\ UNCHANGED <<made, gone, mark>>

Advance(w) ==
  /\ mark # NotStarted
  /\ w > mark
  /\ \A n \in made : mark < n /\ n <= w => n \in Settled
  /\ mark' = w
  /\ UNCHANGED <<made, gone, recorded>>

Next ==
  \/ \E n \in Tx : Make(n) \/ Forget(n)
  \/ \E w \in 0 .. MaxTx : Start(w) \/ Advance(w)
  \/ \E S \in SUBSET Tx : Record(S)

Spec == Init /\ [][Next]_vars
=============================================================================
