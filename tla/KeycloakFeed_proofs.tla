------------------------- MODULE KeycloakFeed_proofs -------------------------
(***************************************************************************)
(* Proofs about KeycloakFeed for any number of events, any page size and   *)
(* page ceiling, and any number of failures.                               *)
(***************************************************************************)
EXTENDS KeycloakFeed, FiniteSetTheorems, FunctionTheorems, TLAPS

USE KeycloakFeedAssumption

-----------------------------------------------------------------------------
\* Type correctness, with the price of a second copy: an event that may be
\* logged again has at most one copy per failure.

CopiesPaid ==
  \A e \in Events :
    /\ copies[e] <= 1 + faults
    /\ time[e] > watermark \/ time[e] = 0 => copies[e] <= faults

Inv == TypeOK /\ CopiesPaid

LEMMA KeepTyped == TypeOK => \A S : Keep(S) \in [Events -> 0 .. 1]
  BY DEF TypeOK, Keep, Seen

LEMMA NothingOut == [e \in Events |-> 0] \in [Events -> 0 .. 1]
  OBVIOUS

LEMMA KindsTyped == \A f : Kinds(f) \subseteq {"audited", "gated", "noise"}
  BY DEF Kinds

\* What a step that logs some of the new events does to the copies.
LEMMA AppendCounts ==
  ASSUME Inv, NEW S \in SUBSET New, Append(S)
  PROVE  \A e \in Events :
           /\ copies'[e] \in Nat
           /\ e \notin S => copies'[e] = copies[e]
           /\ e \in S => copies[e] <= faults /\ copies'[e] <= copies[e] + 1 /\ time[e] > watermark
<1>1. /\ copies \in [Events -> Nat] /\ out \in [Events -> 0 .. 1]
      /\ \A e \in Events : copies[e] \in Nat /\ out[e] \in 0 .. 1
  BY DEF Inv, TypeOK
<1>2. \A e \in S : e \in Events /\ time[e] > watermark
  BY DEF New
<1>3. \A e \in Events : copies'[e] = IF e \in S THEN copies[e] + out[e] ELSE copies[e]
  BY DEF Append
<1>4. QED
  BY <1>1, <1>2, <1>3 DEF Inv, CopiesPaid

LEMMA LatestIs ==
  \A S \in SUBSET Events : \A t : t \in Latest(S) =>
    (\E e \in S : t = time[e]) /\ \A e \in S : time[e] <= t
  BY DEF Latest

LEMMA InvNext == Inv /\ [Next]_vars => Inv'
<1> SUFFICES ASSUME Inv, [Next]_vars PROVE Inv'
  OBVIOUS
<1>0. /\ now \in Nat /\ watermark \in Nat /\ watermark >= 1 /\ faults \in Nat
      /\ \A e \in Events : copies[e] \in Nat /\ time[e] \in Nat
  BY DEF Inv, TypeOK
<1>1. CASE BeginCycle
  BY <1>1, NothingOut DEF BeginCycle, world, history, Inv, TypeOK, CopiesPaid
<1>2. ASSUME NEW f \in Feeds, NextPage(f) PROVE Inv'
  <2>1. page' \in 0 .. MaxPages
    BY <1>2 DEF NextPage, Inv, TypeOK
  <2>2. QED
    BY <1>2, <2>1, KeepTyped DEF NextPage, world, history, Inv, TypeOK, CopiesPaid
<1>3. ASSUME NEW f \in Feeds, EndOfFeed(f) PROVE Inv'
  <2>1. warned' \in SUBSET Events
    BY <1>3 DEF EndOfFeed, Unreached, Listed, Inv, TypeOK
  <2>2. polledAt' \in 1 .. MaxTime /\ phase' \in {"idle", "login", "admin", "write"}
    BY <1>3 DEF EndOfFeed, Inv, TypeOK
  <2>3. QED
    BY <1>3, <2>1, <2>2, KeepTyped DEF EndOfFeed, world, Inv, TypeOK, CopiesPaid
<1>4. CASE FilterRejected
  <2>1. out' \in [Events -> 0 .. 1]
    BY <1>4 DEF FilterRejected, Inv, TypeOK
  <2>2. faults' \in 0 .. MaxFaults /\ faults <= faults'
    BY <1>0, <1>4 DEF FilterRejected, Fault, Inv, TypeOK
  <2>3. TypeOK'
    <3>1. filterOK' = FALSE /\ page' = 0 /\ UNCHANGED <<world, phase, watermark, copies, history>>
      BY <1>4 DEF FilterRejected
    <3>2. filterOK' \in BOOLEAN /\ page' \in 0 .. MaxPages
      <4>1. MaxPages \in Nat
        OBVIOUS
      <4>2. page' \in 0 .. MaxPages
        BY <3>1, <4>1
      <4>3. filterOK' \in BOOLEAN
        BY <3>1
      <4>4. QED
        BY <4>2, <4>3
    <3>3. /\ now' \in 1 .. MaxTime /\ watermark' \in 1 .. MaxTime /\ polledAt' \in 1 .. MaxTime
          /\ base' \in 1 .. MaxTime /\ filterWorks' \in BOOLEAN
          /\ phase' \in {"idle", "login", "admin", "write"}
      BY <3>1 DEF world, history, Inv, TypeOK
    <3>4. /\ time' \in [Events -> 0 .. MaxTime] /\ copies' \in [Events -> 0 .. MaxFaults + 1]
          /\ kind' \in [Events -> {"audited", "gated", "noise"}]
          /\ raced' \in SUBSET Events /\ warned' \in SUBSET Events
      BY <3>1 DEF world, history, Inv, TypeOK
    <3>5. QED
      BY <2>1, <2>2, <3>2, <3>3, <3>4 DEF TypeOK
  <2>4. CopiesPaid'
    BY <1>0, <1>4, <2>2 DEF FilterRejected, world, Inv, TypeOK, CopiesPaid
  <2>5. QED
    BY <2>3, <2>4 DEF Inv
<1>5. CASE FetchFails
  <2>1. TypeOK'
    BY <1>5, NothingOut DEF FetchFails, Fault, world, history, Inv, TypeOK
  <2>2. CopiesPaid'
    BY <1>0, <1>5 DEF FetchFails, Fault, world, Inv, CopiesPaid
  <2>3. QED
    BY <2>1, <2>2 DEF Inv
<1>6. CASE RecordLines
  <2>1. \A e \in Events :
           /\ copies'[e] \in Nat
           /\ e \notin New => copies'[e] = copies[e]
           /\ e \in New => copies[e] <= faults /\ copies'[e] <= copies[e] + 1 /\ time[e] > watermark
    BY <1>6, AppendCounts DEF RecordLines
  <2>2. New \in SUBSET Events
    BY DEF New
  <2>3. watermark' \in 1 .. MaxTime /\ watermark <= watermark' /\ \A e \in New : time[e] <= watermark'
    <3>1. CASE New = {}
      BY <1>0, <1>6, <3>1 DEF RecordLines, Inv, TypeOK
    <3>2. CASE New # {}
      <4>1. watermark' \in Latest(New)
        BY <1>6, <3>2 DEF RecordLines
      <4>2. PICK e \in New : watermark' = time[e]
        BY <2>2, <4>1, LatestIs
      <4>3. time[e] \in 0 .. MaxTime /\ time[e] > watermark
        BY <2>2 DEF New, Inv, TypeOK
      <4>4. QED
        BY <1>0, <2>2, <4>1, <4>2, <4>3, LatestIs
    <3>3. QED
      BY <3>1, <3>2
  <2>4. \A e \in Events : copies'[e] <= 1 + faults /\ (time[e] > watermark' \/ time[e] = 0 => copies'[e] <= faults)
    BY <1>0, <2>1, <2>2, <2>3 DEF Inv, CopiesPaid
  <2>5. copies' \in [Events -> 0 .. MaxFaults + 1]
    <3>1. copies' = [e \in Events |-> copies'[e]]
      BY <1>6 DEF RecordLines, Append
    <3>2. \A e \in Events : copies'[e] \in 0 .. MaxFaults + 1
      BY <1>0, <2>1, <2>4 DEF Inv, TypeOK
    <3>3. QED
      BY <3>1, <3>2
  <2>6. TypeOK'
    BY <1>6, <2>3, <2>5, NothingOut DEF RecordLines, world, history, Inv, TypeOK
  <2>7. CopiesPaid'
    BY <1>6, <2>4 DEF RecordLines, world, CopiesPaid
  <2>8. QED
    BY <2>6, <2>7 DEF Inv
<1>7. CASE RecordFails
  <2>0. PICK some \in SUBSET New : Append(some)
    BY <1>7 DEF RecordFails
  <2>1. \A e \in Events :
           /\ copies'[e] \in Nat
           /\ e \notin some => copies'[e] = copies[e]
           /\ e \in some => copies[e] <= faults /\ copies'[e] <= copies[e] + 1 /\ time[e] > watermark
    BY <2>0, AppendCounts
  <2>2. faults' = faults + 1 /\ faults' \in 0 .. MaxFaults
    BY <1>0, <1>7 DEF RecordFails, Fault, Inv, TypeOK
  <2>4. \A e \in Events : copies'[e] <= faults'
    BY <1>0, <2>1, <2>2 DEF Inv, CopiesPaid
  <2>5. copies' \in [Events -> 0 .. MaxFaults + 1]
    <3>1. copies' = [e \in Events |-> copies'[e]]
      BY <2>0 DEF Append
    <3>2. \A e \in Events : copies'[e] \in 0 .. MaxFaults + 1
      BY <1>0, <2>1, <2>2, <2>4
    <3>3. QED
      BY <3>1, <3>2
  <2>6. TypeOK'
    BY <1>7, <2>2, <2>5, NothingOut DEF RecordFails, world, history, Inv, TypeOK
  <2>7. CopiesPaid'
    BY <1>0, <1>7, <2>1, <2>2, <2>4 DEF RecordFails, world, CopiesPaid
  <2>8. QED
    BY <2>6, <2>7 DEF Inv
<1>8. CASE Crash
  <2>1. TypeOK'
    BY <1>8, NothingOut DEF Crash, Fault, world, history, Inv, TypeOK
  <2>2. CopiesPaid'
    BY <1>0, <1>8 DEF Crash, Fault, world, Inv, CopiesPaid
  <2>3. QED
    BY <2>1, <2>2 DEF Inv
<1>9. CASE Tick
  BY <1>9 DEF Tick, history, Inv, TypeOK, CopiesPaid
<1>10. ASSUME NEW e \in Events, Happen(e) PROVE Inv'
  <2>1. time' \in [Events -> 0 .. MaxTime]
    BY <1>10 DEF Happen, Inv, TypeOK
  <2>2. kind' \in [Events -> {"audited", "gated", "noise"}]
    BY <1>10, KindsTyped DEF Happen, Inv, TypeOK
  <2>3. raced' \in SUBSET Events
    BY <1>10 DEF Happen, Inv, TypeOK
  <2>4. TypeOK'
    BY <1>10, <2>1, <2>2, <2>3 DEF Happen, Inv, TypeOK
  <2>5. \A d \in Events : time'[d] = time[d] \/ time[d] = 0
    BY <1>10 DEF Happen, Inv, TypeOK
  <2>6. CopiesPaid'
    BY <1>0, <1>10, <2>5 DEF Happen, Inv, CopiesPaid
  <2>7. QED
    BY <2>4, <2>6 DEF Inv
<1>11. CASE UNCHANGED vars
  BY <1>11 DEF vars, world, history, Inv, TypeOK, CopiesPaid
<1>12. QED
  BY <1>1, <1>2, <1>3, <1>4, <1>5, <1>6, <1>7, <1>8, <1>9, <1>10, <1>11 DEF Next, Collector

\* The inductive invariant.
THEOREM Invariant == Spec => []Inv
<1>1. Init => Inv
  <2>1. Init => TypeOK
    BY NothingOut DEF Init, TypeOK
  <2>2. Init => CopiesPaid
    BY DEF Init, CopiesPaid
  <2>3. QED
    BY <2>1, <2>2 DEF Inv
<1>2. Inv /\ [Next]_vars => Inv'
  BY InvNext
<1>3. QED
  BY <1>1, <1>2, PTL DEF Spec

\* Whatever the window does while it is paged, and with or without the server's
\* filter, a second copy of an event means a failure.
THEOREM CopiesCostFaults == Spec => []NoCopyWithoutFault
<1>1. Inv => NoCopyWithoutFault
  BY DEF Inv, CopiesPaid, NoCopyWithoutFault
<1>2. QED
  BY <1>1, Invariant, PTL

-----------------------------------------------------------------------------
\* Places in a list, newest first.

Above(L, e) == {d \in L : d[2] > e[2]}

Numbered(L) ==
  /\ IsFiniteSet(L)
  /\ \A d \in L : d[2] \in Int
  /\ \A d, e \in L : d[2] = e[2] => d = e

LEMMA AboveFinite ==
  ASSUME NEW L, Numbered(L), NEW e
  PROVE  IsFiniteSet(Above(L, e)) /\ Cardinality(Above(L, e)) \in Nat
<1>1. Above(L, e) \in SUBSET L
  BY DEF Above
<1>2. QED
  BY <1>1, FS_Subset, FS_CardinalityType DEF Numbered

\* The place of a newer element is nearer to the front.
LEMMA NewerIsNearer ==
  ASSUME NEW L, Numbered(L), NEW d \in L, NEW e \in L, d[2] > e[2]
  PROVE  Cardinality(Above(L, d)) < Cardinality(Above(L, e))
<1>1. d \in Above(L, e)
  BY DEF Above
<1>2. Above(L, d) \in SUBSET (Above(L, e) \ {d})
  BY DEF Above, Numbered
<1>3. /\ IsFiniteSet(Above(L, e) \ {d})
      /\ Cardinality(Above(L, e) \ {d}) = Cardinality(Above(L, e)) - 1
  BY <1>1, AboveFinite, FS_RemoveElement
<1>4. Cardinality(Above(L, d)) <= Cardinality(Above(L, e) \ {d})
  BY <1>2, <1>3, FS_Subset
<1>5. QED
  BY <1>3, <1>4, AboveFinite

\* No place before a given one is empty.
LEMMA NoGaps ==
  ASSUME NEW L, Numbered(L), NEW e \in L, NEW k \in 0 .. Cardinality(Above(L, e)) - 1
  PROVE  \E d \in Above(L, e) : Cardinality(Above(L, d)) = k
<1> DEFINE S == Above(L, e)
           n == Cardinality(S)
           place == [d \in S |-> Cardinality(Above(L, d))]
<1>1. IsFiniteSet(S) /\ n \in Nat /\ S \subseteq L
  BY AboveFinite DEF Above
<1>2. \A d \in S : d[2] > e[2]
  BY DEF Above
<1>3. \A d \in S : Cardinality(Above(L, d)) \in 0 .. n - 1
  BY <1>1, <1>2, NewerIsNearer, AboveFinite
<1>4. place \in [S -> 0 .. n - 1]
  BY <1>3
<1>5. \A c, d \in S : place[c] = place[d] => c = d
  <2>1. SUFFICES ASSUME NEW c \in S, NEW d \in S, c # d PROVE place[c] # place[d]
    OBVIOUS
  <2>2. c[2] \in Int /\ d[2] \in Int /\ c[2] # d[2]
    BY <1>1, <2>1 DEF Numbered
  <2>3. CASE c[2] > d[2]
    BY <1>1, <1>3, <2>3, NewerIsNearer
  <2>4. CASE d[2] > c[2]
    BY <1>1, <1>3, <2>4, NewerIsNearer
  <2>5. QED
    BY <2>2, <2>3, <2>4
<1>6. place \in Injection(S, 0 .. n - 1)
  BY <1>4, <1>5, Fun_IsInj
<1>7. IsFiniteSet(0 .. n - 1) /\ Cardinality(0 .. n - 1) = n
  <2>1. \A m \in Nat : IsFiniteSet(0 .. m - 1) /\ Cardinality(0 .. m - 1) = m
    <3>1. SUFFICES ASSUME NEW m \in Nat
                   PROVE  IsFiniteSet(0 .. m - 1) /\ Cardinality(0 .. m - 1) = m
      OBVIOUS
    <3> DEFINE z == 0
               b == m - 1
    <3>2. z \in Int /\ b \in Int /\ (IF z > b THEN 0 ELSE b - z + 1) = m
      OBVIOUS
    <3>3. IsFiniteSet(z .. b) /\ Cardinality(z .. b) = IF z > b THEN 0 ELSE b - z + 1
      <4> HIDE DEF z, b
      <4>1. QED
        BY <3>2, FS_Interval
    <3>4. QED
      BY <3>2, <3>3
  <2>2. QED
    BY <1>1, <2>1
<1>8. place \in Surjection(S, 0 .. n - 1)
  BY <1>6, <1>7, FS_Injection
<1>9. PICK d \in S : place[d] = k
  <2>1. \A t \in 0 .. n - 1 : \E s \in S : place[s] = t
    <3> DEFINE Places == 0 .. n - 1
    <3>1. place \in Surjection(S, Places)
      BY <1>8
    <3>2. \A t \in Places : \E s \in S : place[s] = t
      <4> HIDE DEF place, S, Places
      <4>1. QED
        BY <3>1, Fun_SurjectionProperties
    <3>3. QED
      BY <3>2
  <2>2. QED
    BY <2>1
<1>10. QED
  BY <1>9

\* The places a .. b are all taken if something has a later one.
LEMMA FullRange ==
  ASSUME NEW L, Numbered(L), NEW e \in L, NEW a \in Nat, NEW b \in Nat,
         a <= b, b < Cardinality(Above(L, e))
  PROVE  Cardinality({d \in L : Cardinality(Above(L, d)) \in a .. b}) >= b - a + 1
<1> DEFINE B == {d \in L : Cardinality(Above(L, d)) \in a .. b}
           place == [d \in B |-> Cardinality(Above(L, d))]
<1>1. IsFiniteSet(B) /\ Cardinality(B) \in Nat
  <2>1. B \in SUBSET L
    OBVIOUS
  <2>2. QED
    BY <2>1, FS_Subset, FS_CardinalityType DEF Numbered
<1>2. \A k \in a .. b : \E d \in B : place[d] = k
  <2>1. SUFFICES ASSUME NEW k \in a .. b PROVE \E d \in B : place[d] = k
    OBVIOUS
  <2>2. k \in 0 .. Cardinality(Above(L, e)) - 1
    BY AboveFinite
  <2>3. PICK d \in Above(L, e) : Cardinality(Above(L, d)) = k
    BY <2>2, NoGaps
  <2>4. d \in B
    BY <2>3 DEF Above
  <2>5. QED
    BY <2>3, <2>4
<1>3. place \in [B -> a .. b]
  OBVIOUS
<1>4. place \in Surjection(B, a .. b)
  BY <1>2, <1>3, Fun_IsSurj
<1>5. Cardinality(a .. b) <= Cardinality(B)
  BY <1>1, <1>4, FS_Surjection
<1>6. Cardinality(a .. b) = b - a + 1
  BY FS_Interval
<1>7. QED
  BY <1>5, <1>6

-----------------------------------------------------------------------------
\* The paging.

LEMMA EventParts ==
  \A e \in Events : e[1] \in Feeds /\ e[2] \in Nat \ {0} /\ e = <<e[1], e[2]>>
  BY DEF Events, Feeds

LEMMA EventsFinite == IsFiniteSet(Events)
<1>1. MaxLogin \in Int /\ MaxAdmin \in Int /\ 1 \in Int
  OBVIOUS
<1>2. IsFiniteSet(1 .. MaxLogin) /\ IsFiniteSet(1 .. MaxAdmin)
  BY <1>1, FS_Interval
<1>3. IsFiniteSet({"login"} \X (1 .. MaxLogin)) /\ IsFiniteSet({"admin"} \X (1 .. MaxAdmin))
  BY <1>2, FS_Product, FS_Singleton
<1>4. QED
  BY <1>3, FS_Union DEF Events

LEMMA ListNumbered == \A f : Numbered(Listed(f))
<1>1. SUFFICES ASSUME NEW f PROVE Numbered(Listed(f))
  OBVIOUS
<1>2. Listed(f) \in SUBSET Events /\ \A e \in Listed(f) : e[1] = f
  BY DEF Listed
<1>3. IsFiniteSet(Listed(f))
  BY <1>2, EventsFinite, FS_Subset
<1>4. QED
  BY <1>2, <1>3, EventParts DEF Numbered

LEMMA NewerIsAbove == \A e \in Events : NewerThan(e) = Above(Listed(e[1]), e)
  BY DEF NewerThan, Above

LEMMA PlaceTyped == \A e \in Events : Cardinality(NewerThan(e)) \in Nat
  BY NewerIsAbove, ListNumbered, AboveFinite

LEMMA PageStart ==
  \A p, q \in Nat : p * q \in Nat /\ (p + 1) * q \in Nat /\ (p + 1) * q = p * q + q
  OBVIOUS

\* A feed's events happen in the order of their numbers.
Ordered ==
  \A d, e \in Events :
    d[1] = e[1] /\ e[2] < d[2] /\ time[d] # 0 => time[e] # 0 /\ time[e] <= time[d]

Clock ==
  /\ \A e \in Events : time[e] <= now /\ (out[e] > 0 => time[e] # 0)
  /\ polledAt <= now /\ watermark <= polledAt
  /\ phase = "write" => \A e \in Events : out[e] > 0 => time[e] <= polledAt

\* Is to be found by the cycle.
Sought(e) == kind[e] = "audited" /\ time[e] > watermark /\ e \notin raced \union warned

Ahead(e) == out[e] > 0 \/ Cardinality(NewerThan(e)) >= page * PageSize

Found ==
  /\ phase \in Feeds => \A e \in Events : e[1] = phase /\ Sought(e) => Ahead(e)
  /\ phase = "admin" => \A e \in Events : e[1] = "login" /\ Sought(e) => out[e] > 0
  /\ phase = "write" => \A e \in Events : Sought(e) => out[e] > 0 \/ time[e] > polledAt

\* A page that ends a feed leaves nothing behind it.
LEMMA LastPageReaches ==
  ASSUME Inv, Ordered, NEW f \in Feeds, LastPage(f), NEW e \in Events, e[1] = f,
         Sought(e), Ahead(e)
  PROVE  out[e] > 0 \/ e \in Batch(f)
<1> DEFINE L == Listed(f)
           a == page * PageSize
           b == (page + 1) * PageSize - 1
           place(d) == Cardinality(Above(L, d))
<1>1. page \in Nat /\ PageSize \in Nat /\ PageSize > 0 /\ watermark \in Nat /\ \A d \in Events : time[d] \in Nat
  BY DEF Inv, TypeOK
<1>2. a \in Nat /\ b \in Nat /\ b = a + PageSize - 1 /\ a <= b
  BY <1>1, PageStart
<1>3. e \in L /\ L \subseteq Events /\ \A d \in L : d[1] = f
  BY <1>1 DEF Sought, Listed, Wire
<1>4. \A d \in L : NewerThan(d) = Above(L, d) /\ place(d) \in Nat
  BY <1>3, NewerIsAbove, PlaceTyped
<1>5. Batch(f) = {d \in L : place(d) \in a .. b}
  BY <1>4 DEF Batch
<1>6. SUFFICES ASSUME place(e) >= a, place(e) > b PROVE FALSE
  BY <1>2, <1>3, <1>4, <1>5 DEF Ahead
<1>7. CASE Cardinality(Batch(f)) < PageSize
  <2>1. Cardinality({d \in L : place(d) \in a .. b}) >= b - a + 1
    BY <1>2, <1>3, <1>4, <1>6, ListNumbered, FullRange
  <2>2. b - a + 1 = PageSize
    BY <1>1, <1>2
  <2>3. IsFiniteSet(Batch(f))
    BY <1>5, ListNumbered, FS_Subset DEF Numbered
  <2>4. Cardinality(Batch(f)) \in Nat
    BY <2>3, FS_CardinalityType
  <2>5. QED
    BY <1>1, <1>5, <1>7, <2>1, <2>2, <2>4
<1>8. CASE \E d \in Batch(f) : time[d] <= watermark
  <2>1. PICK d \in Batch(f) : time[d] <= watermark
    BY <1>8
  <2>2. d \in L /\ place(d) <= b
    BY <1>2, <1>4, <1>5, <2>1
  <2>3. time[e] # 0 /\ time[d] < time[e] /\ d # e
    BY <1>1, <1>3, <2>1, <2>2 DEF Sought
  <2>4. e[2] > d[2]
    <3>1. e[2] \in Nat /\ d[2] \in Nat /\ d[1] = e[1] /\ e[2] # d[2] /\ time[d] # 0
      BY <1>3, <2>2, <2>3, EventParts DEF Listed
    <3>2. ~(e[2] < d[2])
      BY <1>1, <1>3, <2>2, <2>3, <3>1 DEF Ordered
    <3>3. QED
      BY <3>1, <3>2
  <2>5. place(e) < place(d)
    BY <1>3, <2>2, <2>4, ListNumbered, NewerIsNearer
  <2>6. QED
    BY <1>2, <1>3, <1>4, <1>6, <2>2, <2>5
<1>9. QED
  BY <1>7, <1>8 DEF LastPage

-----------------------------------------------------------------------------
\* What every step does to the events.

LEMMA EventStep ==
  ASSUME Inv, [Next]_vars
  PROVE  \/ UNCHANGED <<time, kind, raced>>
         \/ \E e \in Events : Happen(e)
  BY DEF Next, Collector, BeginCycle, NextPage, EndOfFeed, FilterRejected, FetchFails,
     RecordLines, RecordFails, Crash, Tick, vars, world, history

LEMMA HappenEffect ==
  ASSUME Inv, NEW e \in Events, Happen(e)
  PROVE  /\ time[e] = 0 /\ time'[e] = now
         /\ \A d \in Events : d # e => time'[d] = time[d] /\ kind'[d] = kind[d]
         /\ \A d \in Events : d[1] = e[1] /\ d[2] < e[2] => time[d] # 0
         /\ raced \subseteq raced'
<1>1. time \in [Events -> 0 .. MaxTime] /\ kind \in [Events -> {"audited", "gated", "noise"}]
  BY DEF Inv, TypeOK
<1>2. \A d \in Events : d[1] = e[1] /\ d[2] < e[2] => time[d] # 0
  BY EventParts DEF Happen
<1>3. QED
  BY <1>1, <1>2 DEF Happen

LEMMA OrderedNext == Inv /\ Clock /\ Ordered /\ [Next]_vars => Ordered'
<1> SUFFICES ASSUME Inv, Clock, Ordered, [Next]_vars PROVE Ordered'
  OBVIOUS
<1>1. CASE UNCHANGED <<time, kind, raced>>
  BY <1>1 DEF Ordered
<1>2. ASSUME NEW x \in Events, Happen(x) PROVE Ordered'
  <2>1. SUFFICES ASSUME NEW d \in Events, NEW e \in Events,
                        d[1] = e[1], e[2] < d[2], time'[d] # 0
                 PROVE  time'[e] # 0 /\ time'[e] <= time'[d]
    BY DEF Ordered
  <2>2. /\ now \in Nat /\ now >= 1 /\ time[d] \in Nat /\ time[e] \in Nat /\ time[e] <= now
        /\ e[2] \in Nat /\ d[2] \in Nat
    BY EventParts DEF Inv, TypeOK, Clock
  <2>3. CASE d = x
    <3>1. e # x /\ time[e] # 0
      BY <1>2, <2>1, <2>2, <2>3, HappenEffect
    <3>2. QED
      BY <1>2, <2>2, <2>3, <3>1, HappenEffect
  <2>4. CASE d # x
    <3>1. time'[d] = time[d] /\ time[e] # 0 /\ time[e] <= time[d]
      BY <1>2, <2>1, <2>4, HappenEffect DEF Ordered
    <3>2. e # x
      BY <1>2, <3>1, HappenEffect
    <3>3. QED
      BY <1>2, <3>1, <3>2, HappenEffect
  <2>5. QED
    BY <2>3, <2>4
<1>3. QED
  BY <1>1, <1>2, EventStep

LEMMA KeepKeeps ==
  \A S, e : e \in Events => Keep(S)[e] = IF e \in S /\ ~(out[e] > 0) THEN out[e] + 1 ELSE out[e]
  BY DEF Keep, Seen

LEMMA BatchListed == \A f, e : e \in Batch(f) => e \in Events /\ e[1] = f /\ time[e] # 0
  BY DEF Batch, Listed

LEMMA ClockNext == Inv /\ Clock /\ [Next]_vars => Clock'
<1> SUFFICES ASSUME Inv, Clock, [Next]_vars PROVE Clock'
  OBVIOUS
<1>0. /\ now \in Nat /\ now >= 1 /\ watermark \in Nat /\ polledAt \in Nat
      /\ \A e \in Events : time[e] \in Nat /\ out[e] \in 0 .. 1
  BY DEF Inv, TypeOK
<1>1. CASE BeginCycle
  BY <1>0, <1>1 DEF BeginCycle, world, history, Clock
<1>2. ASSUME NEW f \in Feeds, NextPage(f) PROVE Clock'
  BY <1>0, <1>2, KeepKeeps, BatchListed DEF NextPage, Served, Feeds, world, history, Clock
<1>3. ASSUME NEW f \in Feeds, EndOfFeed(f) PROVE Clock'
  BY <1>0, <1>3, KeepKeeps, BatchListed DEF EndOfFeed, Served, Feeds, world, Clock
<1>4. CASE FilterRejected
  BY <1>0, <1>4 DEF FilterRejected, world, history, Clock
<1>5. CASE FetchFails \/ Crash \/ RecordFails
  BY <1>0, <1>5 DEF FetchFails, Crash, RecordFails, world, history, Clock
<1>6. CASE RecordLines
  <2>1. watermark' <= polledAt
    <3>1. CASE New = {}
      BY <1>6, <3>1 DEF RecordLines, Clock
    <3>2. CASE New # {}
      <4>1. New \in SUBSET Events /\ watermark' \in Latest(New)
        BY <1>6, <3>2 DEF RecordLines, New
      <4>2. PICK e \in New : watermark' = time[e]
        BY <4>1, LatestIs
      <4>3. QED
        BY <1>6, <4>2 DEF RecordLines, New, Clock
    <3>3. QED
      BY <3>1, <3>2
  <2>2. QED
    BY <1>0, <1>6, <2>1 DEF RecordLines, world, history, Clock
<1>7. CASE Tick
  BY <1>0, <1>7 DEF Tick, history, Clock
<1>8. ASSUME NEW x \in Events, Happen(x) PROVE Clock'
  <2>1. \A e \in Events : time'[e] <= now /\ (out[e] > 0 => e # x)
    BY <1>0, <1>8, HappenEffect DEF Clock
  <2>2. QED
    BY <1>0, <1>8, <2>1, HappenEffect DEF Happen, Clock
<1>9. CASE UNCHANGED vars
  BY <1>9 DEF vars, world, history, Clock
<1>10. QED
  BY <1>1, <1>2, <1>3, <1>4, <1>5, <1>6, <1>7, <1>8, <1>9 DEF Next, Collector

LEMMA FoundNext == Inv /\ Ordered /\ Clock /\ Found /\ [Next]_vars => Found'
<1> SUFFICES ASSUME Inv, Ordered, Clock, Found, [Next]_vars PROVE Found'
  OBVIOUS
<1>0. /\ now \in Nat /\ watermark \in Nat /\ polledAt \in Nat /\ page \in Nat /\ PageSize \in Nat
      /\ \A e \in Events : time[e] \in Nat /\ out[e] \in 0 .. 1
      /\ 0 * PageSize = 0
  BY DEF Inv, TypeOK
<1>1. CASE BeginCycle
  <2>1. page' = 0 /\ phase' = "login" /\ UNCHANGED <<world, filterOK, watermark, raced, warned>>
    BY <1>1 DEF BeginCycle, history
  <2>2. \A e \in Events : Ahead(e)'
    BY <1>0, <2>1, PlaceTyped DEF Ahead, NewerThan, Listed, Wire, world
  <2>3. QED
    BY <2>1, <2>2 DEF Found
<1>2. ASSUME NEW f \in Feeds, NextPage(f) PROVE Found'
  <2>1. /\ phase = f /\ phase' = phase /\ page' = page + 1 /\ out' = Keep(Batch(f))
        /\ UNCHANGED <<world, filterOK, watermark, raced, warned>>
    BY <1>2 DEF NextPage, Served, history
  <2>2. \A e \in Events : Sought(e)' = Sought(e) /\ NewerThan(e)' = NewerThan(e)
    BY <2>1 DEF Sought, NewerThan, Listed, Wire, world
  <2>3. \A e \in Events : out[e] > 0 => out'[e] > 0
    BY <2>1, KeepKeeps
  <2>4. ASSUME NEW e \in Events, e[1] = f, Sought(e) PROVE Ahead(e)'
    <3>1. Ahead(e)
      BY <2>1, <2>4 DEF Found
    <3>2. CASE out[e] > 0
      BY <2>3, <3>2 DEF Ahead
    <3>3. CASE ~(out[e] > 0) /\ Cardinality(NewerThan(e)) >= page * PageSize
      <4>1. e \in Listed(f)
        BY <1>0, <2>4 DEF Sought, Listed, Wire
      <4>2. CASE e \in Batch(f)
        BY <1>0, <2>1, <3>3, <4>2, KeepKeeps DEF Ahead
      <4>3. CASE e \notin Batch(f)
        <5>1. Cardinality(NewerThan(e)) >= (page + 1) * PageSize
          BY <1>0, <3>3, <4>1, <4>3, PlaceTyped, PageStart DEF Batch
        <5>2. QED
          BY <2>1, <2>2, <5>1 DEF Ahead
      <4>4. QED
        BY <4>2, <4>3
    <3>4. QED
      BY <3>1, <3>2, <3>3 DEF Ahead
  <2>5. QED
    BY <2>1, <2>2, <2>3, <2>4 DEF Found, Feeds
<1>3. ASSUME NEW f \in Feeds, EndOfFeed(f) PROVE Found'
  <2>1. /\ phase = f /\ page' = 0 /\ out' = Keep(Batch(f))
        /\ phase' = IF f = "login" THEN "admin" ELSE "write"
        /\ warned' = IF LastPage(f) THEN warned ELSE warned \union Unreached(f)
        /\ UNCHANGED <<world, filterOK, watermark, raced>>
    BY <1>3 DEF EndOfFeed, Served
  <2>2. \A e \in Events : Sought(e)' => Sought(e) /\ (e \in Unreached(f) => LastPage(f))
    BY <2>1 DEF Sought, world
  <2>3. \A e \in Events : out[e] > 0 => out'[e] > 0
    BY <2>1, KeepKeeps
  <2>4. ASSUME NEW e \in Events, e[1] = f, Sought(e)' PROVE out'[e] > 0
    <3>1. Sought(e) /\ Ahead(e)
      BY <2>1, <2>2, <2>4 DEF Found
    <3>2. out[e] > 0 \/ e \in Batch(f)
      <4>1. CASE LastPage(f)
        BY <2>4, <3>1, <4>1, LastPageReaches
      <4>2. CASE ~LastPage(f)
        <5>1. e \notin Unreached(f) /\ e \in Listed(f)
          BY <1>0, <2>2, <2>4, <3>1, <4>2 DEF Sought, Listed, Wire
        <5>2. QED
          BY <3>1, <5>1 DEF Unreached, Sought, Seen
      <4>3. QED
        BY <4>1, <4>2
    <3>3. QED
      BY <1>0, <2>1, <2>3, <3>2, KeepKeeps
  <2>5. \A e \in Events : Cardinality(NewerThan(e)') \in Nat
    BY <2>1, PlaceTyped DEF NewerThan, Listed, Wire, world
  <2>6. \A e \in Events : Ahead(e)'
    BY <1>0, <2>1, <2>5 DEF Ahead
  <2>7. CASE f = "login"
    BY <2>1, <2>4, <2>6, <2>7 DEF Found
  <2>8. CASE f = "admin"
    <3>1. phase' = "write"
      BY <2>1, <2>8
    <3>2. \A e \in Events : Sought(e)' => out'[e] > 0
      BY <2>1, <2>2, <2>3, <2>4, <2>8, EventParts DEF Found, Feeds
    <3>3. QED
      BY <3>1, <3>2 DEF Found, Feeds
  <2>9. QED
    BY <2>7, <2>8 DEF Feeds
<1>4. CASE FilterRejected
  <2>1. /\ page' = 0 /\ phase = "admin" /\ phase' = "admin" /\ UNCHANGED <<world, watermark, raced, warned>>
        /\ \A e \in Events : e[1] = "login" => out'[e] = out[e]
    BY <1>4 DEF FilterRejected, history
  <2>2. \A e \in Events : Cardinality(NewerThan(e)') \in Nat
    <3>1. \A e \in Events : NewerThan(e)' \in SUBSET Events
      BY DEF NewerThan, Listed
    <3>2. QED
      BY <3>1, EventsFinite, FS_Subset, FS_CardinalityType
  <2>3. \A e \in Events : Ahead(e)' /\ Sought(e)' = Sought(e)
    BY <1>0, <2>1, <2>2 DEF Ahead, Sought, world
  <2>4. QED
    BY <2>1, <2>3 DEF Found
<1>5. CASE FetchFails \/ Crash \/ RecordFails \/ RecordLines
  BY <1>5 DEF FetchFails, Crash, RecordFails, RecordLines, Found, Feeds
<1>6. CASE Tick
  <2>1. UNCHANGED <<time, kind, filterOK, phase, page, out, watermark, raced, warned, polledAt>>
    BY <1>6 DEF Tick, history
  <2>2. \A e \in Events : Ahead(e)' = Ahead(e) /\ Sought(e)' = Sought(e)
    BY <2>1 DEF Ahead, Sought, NewerThan, Listed, Wire
  <2>3. QED
    BY <2>1, <2>2 DEF Found
<1>7. ASSUME NEW x \in Events, Happen(x) PROVE Found'
  <2>1. UNCHANGED <<filterOK, phase, page, out, watermark, warned, polledAt>>
    BY <1>7 DEF Happen
  <2>2. \A e \in Events : e # x => (Sought(e)' => Sought(e)) /\ time'[e] = time[e]
    BY <1>7, <2>1, HappenEffect DEF Sought
  <2>3. \A e \in Events : NewerThan(e)' \in SUBSET Events /\ NewerThan(e) \subseteq NewerThan(e)'
    BY <1>7, <2>1, HappenEffect DEF NewerThan, Listed, Wire
  <2>4. \A e \in Events : /\ Cardinality(NewerThan(e)') \in Nat
                         /\ Cardinality(NewerThan(e)) <= Cardinality(NewerThan(e)')
    <3>1. \A e \in Events : IsFiniteSet(NewerThan(e)')
      BY <2>3, EventsFinite, FS_Subset
    <3>2. QED
      BY <2>3, <3>1, FS_Subset, FS_CardinalityType
  <2>5. \A e \in Events : Ahead(e) => Ahead(e)'
    BY <1>0, <2>1, <2>4, PlaceTyped, PageStart DEF Ahead
  <2>6. Sought(x)' => ~Late(x[1])
    BY <1>7 DEF Sought, Happen
  <2>7. ASSUME phase \in Feeds, x[1] = phase, Sought(x)' PROVE Ahead(x)'
    <3>1. page = 0
      BY <1>0, <2>6, <2>7 DEF Late
    <3>2. QED
      BY <1>0, <2>1, <2>4, <3>1 DEF Ahead
  <2>8. ~(phase = "admin" /\ x[1] = "login" /\ Sought(x)')
    BY <2>6 DEF Late
  <2>9. Sought(x)' => time'[x] > polledAt
    BY <1>0, <1>7, <2>6, HappenEffect DEF Late, Clock
  <2>10. QED
    BY <2>1, <2>2, <2>5, <2>7, <2>8, <2>9 DEF Found
<1>8. CASE UNCHANGED vars
  BY <1>8 DEF vars, world, history, Found, Ahead, Sought, NewerThan, Listed, Wire
<1>9. QED
  BY <1>1, <1>2, <1>3, <1>4, <1>5, <1>6, <1>7, <1>8 DEF Next, Collector

-----------------------------------------------------------------------------
\* Only writing the lines moves the watermark, and what it moves past was
\* found; an event that happens at or before the watermark is late.

LEMMA KnownNext ==
  Inv /\ Clock /\ Found /\ LossesAreKnown /\ [Next]_vars => LossesAreKnown'
<1> SUFFICES ASSUME Inv, Clock, Found, LossesAreKnown, [Next]_vars PROVE LossesAreKnown'
  OBVIOUS
<1>0. /\ now \in Nat /\ now >= 1 /\ watermark \in Nat /\ polledAt \in Nat /\ base \in Nat
      /\ \A e \in Events : time[e] \in Nat /\ copies[e] \in Nat /\ out[e] \in 0 .. 1
  BY DEF Inv, TypeOK
<1>1. CASE /\ UNCHANGED <<world, watermark, copies, raced, base>>
           /\ warned \subseteq warned'
  BY <1>1 DEF LossesAreKnown, Lost, Owed, world
<1>2. CASE RecordLines
  <2>1. SUFFICES ASSUME NEW e \in Events, Lost(e)', e \notin raced \union warned
                 PROVE  FALSE
    BY <1>2 DEF RecordLines, history, LossesAreKnown
  <2>2. /\ kind[e] = "audited" /\ time[e] > base /\ time[e] <= watermark' /\ copies'[e] = 0
        /\ phase = "write" /\ Append(New)
    BY <1>2, <2>1 DEF RecordLines, world, history, Lost, Owed
  <2>3. copies'[e] = IF e \in New THEN copies[e] + out[e] ELSE copies[e]
    BY <2>2 DEF Append
  <2>4. e \notin New /\ copies[e] = 0
    BY <1>0, <2>2, <2>3 DEF New
  <2>5. time[e] > watermark
    BY <2>1, <2>2, <2>4, <1>0 DEF LossesAreKnown, Lost, Owed
  <2>6. time[e] > polledAt
    BY <2>1, <2>2, <2>4, <2>5 DEF Found, Sought, New
  <2>7. New # {} /\ watermark' \in Latest(New) /\ New \in SUBSET Events
    BY <1>0, <1>2, <2>2, <2>5 DEF RecordLines, New
  <2>8. PICK d \in New : watermark' = time[d]
    BY <2>7, LatestIs
  <2>9. d \in Events /\ time[d] <= polledAt
    BY <2>2, <2>8 DEF New, Clock
  <2>10. QED
    BY <1>0, <2>2, <2>6, <2>8, <2>9
<1>3. CASE RecordFails
  <2>1. PICK some \in SUBSET New : Append(some)
    BY <1>3 DEF RecordFails
  <2>2. \A e \in Events : copies'[e] = 0 => copies[e] = 0
    BY <1>0, <2>1 DEF Append
  <2>3. QED
    BY <1>3, <2>2 DEF RecordFails, world, history, LossesAreKnown, Lost, Owed
<1>4. ASSUME NEW x \in Events, Happen(x) PROVE LossesAreKnown'
  <2>1. UNCHANGED <<watermark, copies, warned, base>>
    BY <1>4 DEF Happen
  <2>2. \A e \in Events : e # x => (Lost(e)' => Lost(e))
    BY <1>4, <2>1, HappenEffect DEF Lost, Owed
  <2>3. raced \subseteq raced'
    BY <1>4, HappenEffect
  <2>4. Lost(x)' => now = polledAt
    BY <1>0, <1>4, <2>1, HappenEffect DEF Lost, Clock
  <2>5. now = polledAt => x \in raced'
    BY <1>4 DEF Happen, Late
  <2>6. QED
    BY <2>1, <2>2, <2>3, <2>4, <2>5 DEF LossesAreKnown
<1>5. CASE Tick \/ UNCHANGED vars
  BY <1>5 DEF Tick, vars, world, history, LossesAreKnown, Lost, Owed
<1>6. CASE BeginCycle \/ FilterRejected \/ FetchFails \/ Crash
  BY <1>1, <1>6 DEF BeginCycle, FilterRejected, FetchFails, Crash, history
<1>7. ASSUME NEW f \in Feeds, NextPage(f) \/ EndOfFeed(f) PROVE LossesAreKnown'
  BY <1>1, <1>7 DEF NextPage, EndOfFeed, history
<1>8. QED
  BY <1>2, <1>3, <1>4, <1>5, <1>6, <1>7 DEF Next, Collector

LEMMA InitKnown == Init => Ordered /\ Clock /\ Found /\ LossesAreKnown
<1>1. SUFFICES ASSUME Init PROVE Ordered /\ Clock /\ Found /\ LossesAreKnown
  OBVIOUS
<1>2. /\ now = 1 /\ polledAt = 1 /\ watermark = 1 /\ base = 1 /\ phase = "idle"
      /\ \A e \in Events : time[e] = 0 /\ out[e] = 0
  BY <1>1 DEF Init
<1>3. QED
  BY <1>2 DEF Ordered, Clock, Found, Feeds, LossesAreKnown, Lost, Owed

\* An event that the watermark has passed without a line arrived after the
\* cycle had asked for its feed, or was cut off by the ceiling with a warning:
\* however the window shifts between two pages, the paging drops nothing.
THEOREM LossesAlwaysKnown == Spec => []LossesAreKnown
<1> DEFINE Whole == Ordered /\ Clock /\ Found /\ LossesAreKnown
<1>1. Init => Whole
  BY InitKnown
<1>2. Inv /\ Whole /\ [Next]_vars => Whole'
  BY OrderedNext, ClockNext, FoundNext, KnownNext
<1>3. Whole => LossesAreKnown
  OBVIOUS
<1>4. QED
  <2> HIDE DEF Whole
  <2>1. QED
    BY <1>1, <1>2, <1>3, Invariant, PTL DEF Spec
=============================================================================
