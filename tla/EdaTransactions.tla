-------------------------- MODULE EdaTransactions ---------------------------
(***************************************************************************)
(* The EDA core transaction service as the controller's calls see it       *)
(* (src/useraudit/build/controller/transaction.py): numbered transactions  *)
(* that are queued, run, settle, and are purged oldest first, and the      *)
(* summary endpoint, which rounds a purged id up to the next survivor.     *)
(* The service itself is not part of the repository.                       *)
(***************************************************************************)
EXTENDS Integers

CONSTANTS
  MaxTx,           \* transactions ever submitted (bound of the model)
  AbsentAnswers    \* how the service may answer for an id above its maximum

ASSUME MaxTxAssumption == MaxTx \in Nat \ {0}
ASSUME AnswersAssumption ==
  AbsentAnswers \subseteq {"404", "older", "unknownTid"} /\ AbsentAnswers # {}

VARIABLES
  newest,          \* highest id submitted so far, 0 if none
  state            \* TransactionState of every id

service == <<newest, state>>

Tx == 1 .. MaxTx

InFlight == {"queued", "running"}
Surviving == InFlight \union {"complete"}
States == Surviving \union {"none", "purged"}

ServiceTypeOK ==
  /\ newest \in 0 .. MaxTx
  /\ state \in [Tx -> States]
  /\ \A n \in Tx : n <= newest <=> state[n] # "none"

\* The app may be installed on a system that already has history.
ServiceInit ==
  /\ newest \in 0 .. MaxTx
  /\ state \in [Tx -> States]
  /\ \A n \in Tx :
       /\ n <= newest <=> state[n] # "none"
       /\ state[n] = "purged" => \A m \in 1 .. n : state[m] = "purged"

Submit ==
  /\ newest < MaxTx
  /\ newest' = newest + 1
  /\ state' = [state EXCEPT ![newest + 1] = "queued"]

Run(n) ==
  /\ state[n] = "queued"
  /\ state' = [state EXCEPT ![n] = "running"]
  /\ UNCHANGED newest

Settle(n) ==
  /\ state[n] = "running"
  /\ state' = [state EXCEPT ![n] = "complete"]
  /\ UNCHANGED newest

PurgeOldest(n) ==
  /\ state[n] = "complete"
  /\ \A m \in 1 .. n - 1 : state[m] = "purged"
  /\ state' = [state EXCEPT ![n] = "purged"]
  /\ UNCHANGED newest

\* The transaction GET summary/{id} answers with: the first survivor at or
\* above id.  There is none exactly when the id is above the maximum.
Survivors(id) == {n \in Tx : n >= id /\ state[n] \in Surviving}

SummaryOf(id, n) ==
  /\ n \in Survivors(id)
  /\ \A m \in Survivors(id) : n <= m

\* GET summary?size=1: the newest survivor, 0 on an empty system.
NewestSurvivor(w) ==
  \/ w \in Survivors(1) /\ \A m \in Survivors(1) : m <= w
  \/ w = 0 /\ Survivors(1) = {}
=============================================================================
