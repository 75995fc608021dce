-------------------------- MODULE SdkCalls_proofs --------------------------
(***************************************************************************)
(* What the SDK's functions promise for every input their callers have.    *)
(* Naming: for any numbers of cards, ports, MDAs, XIOMs, loopbacks and     *)
(* lags, and any nodes, slots, types and times, two ports, or two          *)
(* components, of a node share a name only in the collisions the code has, *)
(* and a side lookup that finds nothing costs one fact.  API resources:    *)
(* for any keys, values and lengths of lists, reading what the API sent    *)
(* and writing it back keeps what it said, but for what is falsy.  Health: *)
(* for any scores of any number of instances, the score of a resource lies *)
(* between theirs, blames the worst of them and falls when they fall.      *)
(* Addresses: for any number of hextets and any width of an octet, every   *)
(* way to write an address is read as its number and shortened to its      *)
(* shortest text, and the addresses of a network lie in it.                *)
(* Each call stands alone, so there is nothing to carry from state to      *)
(* state: the work is in the lemmas about the functions.                   *)
(***************************************************************************)
EXTENDS SdkCalls, SequenceTheorems, FiniteSetTheorems, TLAPS

LEMMA OneKindOfCall ==
  ASSUME [Next]_vars
  PROVE  /\ call'.kind = "ports"      => NamePorts \/ UNCHANGED vars
         /\ call'.kind = "components" => NameComponents \/ UNCHANGED vars
         /\ call'.kind = "lookups"    => LookUpComponent \/ UNCHANGED vars
         /\ call'.kind = "text"       => ReadAddress \/ UNCHANGED vars
         /\ call'.kind = "subnet6"    => ListSubnet6 \/ UNCHANGED vars
         /\ call'.kind = "subnet4"    => ListSubnet4 \/ UNCHANGED vars
         /\ call'.kind = "mask"       => ConvertMask \/ UNCHANGED vars
         /\ call'.kind = "health"     => ScoreHealth \/ UNCHANGED vars
         /\ call'.kind = "resource"   => ReadAndWrite \/ UNCHANGED vars
<1>1. Return => call'.kind = "idle"
  BY DEF Return, Idle
<1>2. ReadAddress => call'.kind = "text"
  BY DEF ReadAddress
<1>3. ListSubnet6 => call'.kind = "subnet6"
  BY DEF ListSubnet6
<1>4. ListSubnet4 => call'.kind = "subnet4"
  BY DEF ListSubnet4
<1>5. ConvertMask => call'.kind = "mask"
  BY DEF ConvertMask
<1>6. NamePorts => call'.kind = "ports"
  BY DEF NamePorts
<1>7. NameComponents => call'.kind = "components"
  BY DEF NameComponents
<1>8. LookUpComponent => call'.kind = "lookups"
  BY DEF LookUpComponent
<1>9. ScoreHealth => call'.kind = "health"
  BY DEF ScoreHealth
<1>10. ReadAndWrite => call'.kind = "resource"
  BY DEF ReadAndWrite
<1>11. QED
  BY <1>1, <1>2, <1>3, <1>4, <1>5, <1>6, <1>7, <1>8, <1>9, <1>10 DEF Next, NamingNext

-----------------------------------------------------------------------------
\* The parts of names.

Parts == {Port!Word(w) : w \in {"ethernet", "loopback", "lag", "system0"}}
           \cup {Port!Number(n) : n \in Nat} \cup {Port!Letter(k) : k \in Nat}

LEMMA PartsDiffer ==
  ASSUME NEW a, NEW b
  PROVE  /\ Port!Word(a) = Port!Word(b) <=> a = b
         /\ Port!Number(a) = Port!Number(b) <=> a = b
         /\ Port!Letter(a) = Port!Letter(b) <=> a = b
         /\ Port!Word(a) # Port!Number(b)
         /\ Port!Word(a) # Port!Letter(b)
         /\ Port!Number(a) # Port!Letter(b)
         /\ Port!Number(a).number = a /\ Port!Letter(a).letter = a
<1>1. /\ Port!Word(a).word = a /\ Port!Word(b).word = b
      /\ Port!Number(a).number = a /\ Port!Number(b).number = b
      /\ Port!Letter(a).letter = a /\ Port!Letter(b).letter = b
  BY DEF Port!Word, Port!Number, Port!Letter
<1>2. /\ DOMAIN Port!Word(a) = {"word"} /\ DOMAIN Port!Number(a) = {"number"}
      /\ DOMAIN Port!Number(b) = {"number"} /\ DOMAIN Port!Letter(b) = {"letter"}
  BY DEF Port!Word, Port!Number, Port!Letter
<1>3. "word" # "number" /\ "word" # "letter" /\ "number" # "letter"
  OBVIOUS
<1>4. QED
  BY <1>1, <1>2, <1>3

LEMMA KindsOfPart ==
  ASSUME NEW a
  PROVE  /\ Port!IsNumber(Port!Number(a)) /\ ~Port!IsNumber(Port!Letter(a))
         /\ Port!IsLetter(Port!Letter(a)) /\ ~Port!IsLetter(Port!Number(a))
<1>1. /\ DOMAIN Port!Number(a) = {"number"} /\ DOMAIN Port!Letter(a) = {"letter"}
  BY DEF Port!Number, Port!Letter
<1>2. "number" # "letter"
  OBVIOUS
<1>3. QED
  BY <1>1, <1>2 DEF Port!IsNumber, Port!IsLetter

LEMMA SeparatedKeepsParts ==
  ASSUME NEW S, NEW p \in Seq(S), NEW q \in Seq(S), Len(p) > 0, Len(q) > 0,
         NEW first, NEW separator,
         Port!Separated(p, first, separator) = Port!Separated(q, first, separator)
  PROVE  p = q
<1> DEFINE s(x) == Port!Separated(x, first, separator)
<1>1. \A x \in Seq(S) : Len(x) > 0 => DOMAIN s(x) = 1..(2 * Len(x) - 1)
  BY DEF Port!Separated
<1>2. 1..(2 * Len(p) - 1) = 1..(2 * Len(q) - 1)
  BY <1>1
<1>3. Len(p) = Len(q)
  BY <1>2
<1>4. \A x \in Seq(S) : \A i \in 1..Len(x) : s(x)[2 * i - 1] = x[i]
  <2> SUFFICES ASSUME NEW x \in Seq(S), NEW i \in 1..Len(x)
               PROVE  s(x)[2 * i - 1] = x[i]
    OBVIOUS
  <2>1. 2 * i - 1 \in 1..(2 * Len(x) - 1) /\ (2 * i - 1) % 2 = 1 /\ (2 * i) \div 2 = i
    OBVIOUS
  <2>2. QED
    BY <2>1 DEF Port!Separated
<1>5. \A i \in 1..Len(p) : p[i] = q[i]
  BY <1>3, <1>4
<1>6. QED
  BY <1>3, <1>5

-----------------------------------------------------------------------------
\* The shapes of the name of an Ethernet port.

E    == Port!Word("ethernet")
N(n) == Port!Number(n)
L(k) == Port!Letter(k)

OnCard(p)       == \E c, n \in Numbers : p = <<E, N(c), N(n)>>
OnCardOut(p)    == \E c, n \in Numbers : \E b \in Extras : p = <<E, N(c), N(n), N(b)>>
OnMda(p)        == \E c, n \in Numbers : \E m \in Letters : p = <<E, N(c), L(m), N(n)>>
OnMdaOut(p)     == \E c, n \in Numbers : \E m \in Letters : \E b \in Extras :
                     p = <<E, N(c), L(m), N(n), N(b)>>
OnXiom(p)       == \E c, n \in Numbers : \E m \in Letters : \E x \in Extras :
                     p = <<E, N(c), N(x), L(m), N(n)>>
OnXiomOut(p)    == \E c, n \in Numbers : \E m \in Letters : \E x, b \in Extras :
                     p = <<E, N(c), N(x), L(m), N(n), N(b)>>

LEMMA EthernetShapes ==
  ASSUME NEW p \in EthernetNames
  PROVE  OnCard(p) \/ OnCardOut(p) \/ OnMda(p) \/ OnMdaOut(p) \/ OnXiom(p) \/ OnXiomOut(p)
  BY DEF EthernetNames, E, N, L, OnCard, OnCardOut, OnMda, OnMdaOut, OnXiom, OnXiomOut

IsEthernet(p) ==
  /\ p \in Seq(Parts) /\ Len(p) \in 3..6 /\ p[1] = E
  /\ \A i \in DOMAIN p : p[i] # Port!Word("lag")

LEMMA EthernetIs ==
  ASSUME NEW p \in EthernetNames
  PROVE  IsEthernet(p)
<1>1. E \in Parts /\ (\A n \in Nat : N(n) \in Parts /\ L(n) \in Parts)
  BY DEF Parts, E, N, L
<1>2. E # Port!Word("lag") /\ \A n : N(n) # Port!Word("lag") /\ L(n) # Port!Word("lag")
  BY PartsDiffer DEF E, N, L
<1>3. CASE OnCard(p)
  BY <1>1, <1>2, <1>3, NumberAssumption DEF IsEthernet, OnCard
<1>4. CASE OnCardOut(p)
  BY <1>1, <1>2, <1>4, NumberAssumption DEF IsEthernet, OnCardOut
<1>5. CASE OnMda(p)
  BY <1>1, <1>2, <1>5, NumberAssumption DEF IsEthernet, OnMda
<1>6. CASE OnMdaOut(p)
  BY <1>1, <1>2, <1>6, NumberAssumption DEF IsEthernet, OnMdaOut
<1>7. CASE OnXiom(p)
  BY <1>1, <1>2, <1>7, NumberAssumption DEF IsEthernet, OnXiom
<1>8. CASE OnXiomOut(p)
  BY <1>1, <1>2, <1>8, NumberAssumption DEF IsEthernet, OnXiomOut
<1>9. QED
  BY <1>3, <1>4, <1>5, <1>6, <1>7, <1>8, EthernetShapes

-----------------------------------------------------------------------------
\* The kinds of names.

Loop(n) == <<Port!Word("loopback"), N(n)>>
Lag(n)  == <<Port!Word("lag"), N(n)>>

LEMMA NameKinds ==
  ASSUME NEW p \in PortNameSet
  PROVE  \/ p \in EthernetNames
         \/ \E n \in Numbers : p = Loop(n)
         \/ \E n \in Numbers : p = Lag(n)
         \/ p = SystemName
  BY DEF PortNameSet, LoopbackNames, LagNames, Loop, Lag, N

LEMMA EthernetIsNoOther ==
  ASSUME NEW p \in EthernetNames
  PROVE  /\ ~Port!IsLag(p) /\ ~Port!IsSystem(p) /\ ~Port!IsLoopback(p)
         /\ p \notin LoopbackNames /\ p \notin LagNames /\ p # SystemName
<1>1. IsEthernet(p)
  BY EthernetIs
<1>2. Port!Word("ethernet") # Port!Word("system0") /\ Port!Word("ethernet") # Port!Word("loopback")
        /\ Port!Word("ethernet") # Port!Word("lag")
  BY PartsDiffer
<1>3. QED
  BY <1>1, <1>2 DEF IsEthernet, E, Port!IsLag, Port!IsSystem, Port!IsLoopback, LoopbackNames, LagNames,
                    SystemName

LEMMA LoopbackIs ==
  ASSUME NEW n \in Numbers
  PROVE  /\ Len(Loop(n)) = 2 /\ Loop(n)[1] = Port!Word("loopback") /\ Loop(n)[2] = N(n)
         /\ DOMAIN Loop(n) = 1..2 /\ Port!IsNumber(N(n))
         /\ Loop(n) \in LoopbackNames /\ Loop(n) \notin LagNames /\ Loop(n) \notin EthernetNames
         /\ Port!IsLoopback(Loop(n)) /\ ~Port!IsLag(Loop(n)) /\ ~Port!IsSystem(Loop(n))
<1>1. /\ Port!Word("loopback") # Port!Word("lag") /\ Port!Word("loopback") # Port!Word("system0")
      /\ N(n) # Port!Word("lag")
  BY PartsDiffer DEF N
<1>2. Len(Loop(n)) = 2 /\ Loop(n)[1] = Port!Word("loopback") /\ Loop(n)[2] = N(n) /\ DOMAIN Loop(n) = 1..2
  BY DEF Loop
<1>3. Port!IsNumber(N(n))
  BY KindsOfPart DEF N
<1>4. Loop(n) \notin EthernetNames
  <2> SUFFICES ASSUME Loop(n) \in EthernetNames PROVE FALSE
    OBVIOUS
  <2>1. IsEthernet(Loop(n))
    BY EthernetIs
  <2>2. QED
    BY <1>2, <2>1 DEF IsEthernet
<1>5. Loop(n) \in LoopbackNames /\ Loop(n) \notin LagNames
  BY <1>1 DEF LoopbackNames, LagNames, N, Loop
<1>6. Port!IsLoopback(Loop(n)) /\ ~Port!IsSystem(Loop(n))
  BY <1>1, <1>2, <1>3 DEF Port!IsLoopback, Port!IsSystem
<1>7. ~Port!IsLag(Loop(n))
  BY <1>1, <1>2 DEF Port!IsLag
<1>8. QED
  BY <1>2, <1>3, <1>4, <1>5, <1>6, <1>7

LEMMA LagIs ==
  ASSUME NEW n \in Numbers
  PROVE  /\ Len(Lag(n)) = 2 /\ Lag(n)[1] = Port!Word("lag") /\ Lag(n)[2] = N(n) /\ DOMAIN Lag(n) = 1..2
         /\ Port!IsNumber(N(n))
         /\ Lag(n) \in LagNames /\ Lag(n) \notin LoopbackNames /\ Lag(n) \notin EthernetNames
         /\ Port!IsLag(Lag(n)) /\ ~Port!IsSystem(Lag(n)) /\ ~Port!IsLoopback(Lag(n))
<1>1. Port!Word("loopback") # Port!Word("lag") /\ Port!Word("lag") # Port!Word("system0")
  BY PartsDiffer
<1>2. Len(Lag(n)) = 2 /\ Lag(n)[1] = Port!Word("lag") /\ Lag(n)[2] = N(n) /\ DOMAIN Lag(n) = 1..2
  BY DEF Lag
<1>3. Lag(n) \notin EthernetNames
  BY <1>2, EthernetIs DEF IsEthernet
<1>4. Lag(n) \in LagNames /\ Lag(n) \notin LoopbackNames
  BY <1>1 DEF LoopbackNames, LagNames, N, Lag
<1>5. Port!IsLag(Lag(n)) /\ ~Port!IsSystem(Lag(n)) /\ ~Port!IsLoopback(Lag(n))
  BY <1>1, <1>2 DEF Port!IsLag, Port!IsSystem, Port!IsLoopback
<1>6. Port!IsNumber(N(n))
  BY KindsOfPart DEF N
<1>7. QED
  BY <1>2, <1>3, <1>4, <1>5, <1>6

LEMMA SystemIs ==
  /\ Len(SystemName) = 1 /\ SystemName[1] = Port!Word("system0") /\ DOMAIN SystemName = {1}
  /\ SystemName \notin LagNames /\ SystemName \notin LoopbackNames /\ SystemName \notin EthernetNames
  /\ ~Port!IsLag(SystemName) /\ Port!IsSystem(SystemName) /\ ~Port!IsLoopback(SystemName)
<1>1. Port!Word("lag") # Port!Word("system0")
  BY PartsDiffer
<1>2. Len(SystemName) = 1 /\ SystemName[1] = Port!Word("system0") /\ DOMAIN SystemName = {1}
  BY DEF SystemName
<1>3. SystemName \notin EthernetNames
  BY <1>2, EthernetIs DEF IsEthernet
<1>4. SystemName \notin LagNames /\ SystemName \notin LoopbackNames
  BY <1>2 DEF LoopbackNames, LagNames
<1>5. ~Port!IsLag(SystemName) /\ Port!IsSystem(SystemName) /\ ~Port!IsLoopback(SystemName)
  BY <1>1, <1>2 DEF Port!IsLag, Port!IsSystem, Port!IsLoopback
<1>6. QED
  BY <1>2, <1>3, <1>4, <1>5

-----------------------------------------------------------------------------
\* Names of different kinds of ports differ by their first part, names of
\* loopbacks and of lags by their last.

Nameless(info) == info \in {Port!Raised, Port!Absent}

Exception == Port!Word("an exception")

LEMMA NamelessName ==
  ASSUME NEW info, Nameless(info)
  PROVE  info.name = << >> \/ info.name = <<Exception>>
<1>1. Port!Raised.name = <<Port!Word("an exception")>> /\ Port!Absent.name = << >>
  BY DEF Port!Raised, Port!Absent, Port!NoName
<1>2. QED
  BY <1>1 DEF Nameless, Exception

WordsDiffer(lo, lag, system) ==
  lo # lag /\ lo # system /\ lag # system /\ "an exception" \notin {lo, lag, system}

\* How the name t of a port x begins and ends, by the kind of x.
NamedAs(x, t, lo, lag, system) ==
  /\ Len(t) > 0
  /\ \/ x \in EthernetNames /\ t[1] \notin {lo, lag, system} /\ t[1] # Exception
     \/ t[1] = lo /\ \E n \in Numbers : x = Loop(n) /\ t[Len(t)] = N(n)
     \/ t[1] = lag /\ \E n \in Numbers : x = Lag(n) /\ t[Len(t)] = N(n)
     \/ t[1] = system /\ x = SystemName

LEMMA SameName ==
  ASSUME NEW t, NEW lo, NEW lag, NEW system, lo # lag, lo # system, lag # system,
         NEW p, NEW q, NamedAs(p, t, lo, lag, system), NamedAs(q, t, lo, lag, system)
  PROVE  p = q \/ (p \in EthernetNames /\ q \in EthernetNames)
<1>1. \A n, m : N(n) = N(m) => n = m
  BY PartsDiffer DEF N
<1>2. CASE t[1] \notin {lo, lag, system}
  BY <1>2 DEF NamedAs
<1>3. CASE t[1] = lo
  BY <1>1, <1>3 DEF NamedAs
<1>4. CASE t[1] = lag
  BY <1>1, <1>4 DEF NamedAs
<1>5. CASE t[1] = system
  BY <1>5 DEF NamedAs
<1>6. QED
  BY <1>2, <1>3, <1>4, <1>5

LEMMA NoOtherName ==
  ASSUME NEW x, NEW t, NEW lo, NEW lag, NEW system, NamedAs(x, t, lo, lag, system),
         Exception # lo, Exception # lag,
         Exception # system
  PROVE  t # << >> /\ t # <<Exception>>
<1>1. Len(t) > 0
  BY DEF NamedAs
<1>2. t[1] # Exception
  BY DEF NamedAs
<1>3. QED
  BY ONLY <1>1, <1>2

\* An operating system names the ports that it names at all by their kind.
NamedByKind(x, os, lo, lag, system) ==
  NamedAs(x, Info(x, os).name, Port!Word(lo), Port!Word(lag), Port!Word(system))

LEMMA NamedIsNamed ==
  ASSUME NEW os, NEW lo, NEW lag, NEW system, WordsDiffer(lo, lag, system),
         NEW x, NamedByKind(x, os, lo, lag, system)
  PROVE  /\ ~Nameless(Info(x, os))
         /\ Info(x, os).name # << >> /\ Info(x, os).name # <<Exception>>
<1> DEFINE a == Info(x, os)
           t == a.name
           y == Port!Word(lo)
           z == Port!Word(lag)
           w == Port!Word(system)
<1>1. Exception # y /\ Exception # z /\ Exception # w
  BY PartsDiffer DEF WordsDiffer, Exception
<1>2. NamedAs(x, t, y, z, w)
  BY DEF NamedByKind
<1> HIDE DEF t, y, z, w
<1>3. t # << >> /\ t # <<Exception>>
  BY ONLY <1>1, <1>2, NoOtherName
<1> HIDE DEF a
<1>4. ~Nameless(a)
  BY <1>3, NamelessName DEF t
<1>5. QED
  BY <1>3, <1>4 DEF a, t

LEMMA KindsApart ==
  ASSUME NEW os, NEW lo, NEW lag, NEW system, WordsDiffer(lo, lag, system),
         \A x \in PortNameSet : ~Nameless(Info(x, os)) => NamedByKind(x, os, lo, lag, system),
         NEW p \in PortNameSet, NEW q \in PortNameSet,
         ~Nameless(Info(p, os)), Info(p, os).name = Info(q, os).name
  PROVE  \/ p = q
         \/ p \in EthernetNames /\ q \in EthernetNames /\ ~Nameless(Info(q, os))
<1>1. /\ Port!Word(lo) # Port!Word(lag) /\ Port!Word(lo) # Port!Word(system)
      /\ Port!Word(lag) # Port!Word(system)
  BY PartsDiffer DEF WordsDiffer
<1>2. NamedByKind(p, os, lo, lag, system)
  OBVIOUS
<1>3. Info(p, os).name # << >> /\ Info(p, os).name # <<Exception>>
  BY <1>2, NamedIsNamed
<1>4. ~Nameless(Info(q, os))
  BY <1>3, NamelessName
<1>5. NamedByKind(q, os, lo, lag, system)
  BY <1>4
<1> DEFINE t == Info(p, os).name
           y == Port!Word(lo)
           z == Port!Word(lag)
           w == Port!Word(system)
<1>6. NamedAs(p, t, y, z, w) /\ NamedAs(q, t, y, z, w)
  BY <1>2, <1>5 DEF NamedByKind
<1>7. y # z /\ y # w /\ z # w
  BY <1>1
<1> HIDE DEF t, y, z, w
<1>8. p = q \/ (p \in EthernetNames /\ q \in EthernetNames)
  BY ONLY <1>6, <1>7, SameName
<1>9. QED
  BY <1>4, <1>8

LEMMA InfoOf ==
  ASSUME NEW x
  PROVE  /\ Info(x, "srl") = Port!ToSrlInterface(x, x \in LoopbackNames)
         /\ Info(x, "eos") = Port!ToEosInterface(x, x \in LoopbackNames)
         /\ Info(x, "sros") = Port!ToSrosInterface(x, x \in LoopbackNames)
         /\ Info(x, "nxos") = Port!ToNxosInterface(x, x \in LoopbackNames)
         /\ Info(x, "ios-xr") = Port!ToIosxrInterface(x, x \in LoopbackNames)
<1>1. \A os \in Systems : \A other \in Systems \ {os} : os # other
  OBVIOUS
<1>2. Info(x, "srl") = Port!ToSrlInterface(x, x \in LoopbackNames)
  BY DEF Info, Port!GetNodeInterfaceInfo
<1>3. Info(x, "eos") = Port!ToEosInterface(x, x \in LoopbackNames)
  BY DEF Info, Port!GetNodeInterfaceInfo
<1>4. Info(x, "sros") = Port!ToSrosInterface(x, x \in LoopbackNames)
  BY DEF Info, Port!GetNodeInterfaceInfo
<1>5. Info(x, "nxos") = Port!ToNxosInterface(x, x \in LoopbackNames)
  BY DEF Info, Port!GetNodeInterfaceInfo
<1>6. Info(x, "ios-xr") = Port!ToIosxrInterface(x, x \in LoopbackNames)
  BY DEF Info, Port!GetNodeInterfaceInfo
<1>7. QED
  BY <1>2, <1>3, <1>4, <1>5, <1>6

LEMMA AtName ==
  ASSUME NEW list, NEW name
  PROVE  Port!At(list, name).name = name
  BY DEF Port!At

Numbered(t, word, n) ==
  Len(t) > 0 /\ t[1] = Port!Word(word) /\ t[Len(t)] = N(n)

LEMMA PairNumbered ==
  ASSUME NEW word, NEW n
  PROVE  Numbered(<<Port!Word(word), N(n)>>, word, n)
  BY DEF Numbered

\* The three kinds of names besides those of Ethernet ports.
LEMMA KindNamed ==
  ASSUME NEW os, NEW lo, NEW lag, NEW system, NEW x \in PortNameSet,
         x \in EthernetNames => NamedByKind(x, os, lo, lag, system),
         \A n \in Numbers : x = Loop(n) => Numbered(Info(x, os).name, lo, n),
         \A n \in Numbers : x = Lag(n) => Numbered(Info(x, os).name, lag, n),
         x = SystemName => Info(x, os).name = <<Port!Word(system)>>
  PROVE  NamedByKind(x, os, lo, lag, system)
<1> DEFINE t == Info(x, os).name
           w == Port!Word(system)
<1>1. x = SystemName => Len(t) > 0 /\ t[1] = w
  <2>1. x = SystemName => t = <<w>>
    OBVIOUS
  <2> HIDE DEF t, w
  <2>2. QED
    BY <2>1
<1>2. CASE x \in EthernetNames
  BY <1>2
<1>3. CASE \E n \in Numbers : x = Loop(n)
  BY <1>3 DEF NamedByKind, NamedAs, Numbered
<1>4. CASE \E n \in Numbers : x = Lag(n)
  BY <1>4 DEF NamedByKind, NamedAs, Numbered
<1>5. CASE x = SystemName
  BY <1>1, <1>5 DEF NamedByKind, NamedAs
<1>6. QED
  BY <1>2, <1>3, <1>4, <1>5, NameKinds

-----------------------------------------------------------------------------
\* SR Linux.

LEMMA TwoParts ==
  ASSUME NEW a, NEW b
  PROVE  <<a>> \o <<b>> = <<a, b>>
<1> DEFINE S == {a, b}
<1>1. <<a>> \in Seq(S) /\ <<b>> \in Seq(S) /\ Len(<<a>>) = 1 /\ Len(<<b>>) = 1
  OBVIOUS
<1>2. <<a>> \o <<b>> \in Seq(S) /\ Len(<<a>> \o <<b>>) = 2
  BY <1>1, ConcatProperties
<1>3. (<<a>> \o <<b>>)[1] = a /\ (<<a>> \o <<b>>)[2] = b
  BY <1>1, ConcatProperties
<1>4. <<a, b>> \in Seq(S) /\ Len(<<a, b>>) = 2 /\ <<a, b>>[1] = a /\ <<a, b>>[2] = b
  OBVIOUS
<1>5. \A i \in 1..2 : (<<a>> \o <<b>>)[i] = <<a, b>>[i]
  BY <1>3, <1>4
<1> HIDE DEF S
<1>6. QED
  BY ONLY <1>2, <1>4, <1>5, SeqEqual

LEMMA LagTail ==
  ASSUME NEW n \in Numbers
  PROVE  <<Port!Word("lag")>> \o Port!Joined(Tail(Lag(n)), "-") = Lag(n)
<1> DEFINE t == Tail(Lag(n))
<1>1. Len(t) = 1 /\ t[1] = N(n)
  BY DEF Lag
<1>2. Port!Joined(t, "-") = [i \in 1..1 |-> N(n)]
  <2> HIDE DEF t
  <2>1. 2 * Len(t) - 1 = 1
    BY <1>1
  <2>2. \A i \in 1..1 : i % 2 = 1 /\ (i + 1) \div 2 = 1
    OBVIOUS
  <2>3. QED
    BY <1>1, <2>1, <2>2 DEF Port!Joined, Port!Separated
<1>3. [i \in 1..1 |-> N(n)] = <<N(n)>>
  OBVIOUS
<1>4. <<Port!Word("lag")>> \o <<N(n)>> = <<Port!Word("lag"), N(n)>>
  BY TwoParts
<1>5. Port!Joined(t, "-") = <<N(n)>>
  BY <1>2, <1>3
<1> HIDE DEF t
<1>6. <<Port!Word("lag")>> \o Port!Joined(t, "-") = <<Port!Word("lag"), N(n)>>
  BY <1>4, <1>5
<1>7. QED
  BY <1>6 DEF t, Lag

LEMMA SrlEthernet ==
  ASSUME NEW x \in EthernetNames
  PROVE  /\ Info(x, "srl").name = Port!Separated(x, "-", "/")
         /\ Len(Port!Separated(x, "-", "/")) > 0
         /\ Port!Separated(x, "-", "/")[1] = E
<1>1. IsEthernet(x)
  BY EthernetIs
<1>2. Info(x, "srl").name = Port!Separated(x, "-", "/")
  <2>0. Len(x) \notin {1, 2} /\ ~Port!IsLag(x) /\ ~Port!IsLoopback(x)
    BY <1>1, EthernetIsNoOther DEF IsEthernet
  <2>1. Port!ToSrlInterface(x, x \in LoopbackNames).name = Port!Separated(x, "-", "/")
    BY ONLY <2>0 DEF Port!ToSrlInterface, Port!At
  <2>2. QED
    BY <2>1, InfoOf
<1>3. DOMAIN Port!Separated(x, "-", "/") = 1..(2 * Len(x) - 1)
  BY DEF Port!Separated
<1>4. Len(x) > 0 /\ Len(x) \in Nat /\ x[1] = E
  BY <1>1 DEF IsEthernet
<1>5. Port!Separated(x, "-", "/")[1] = E
  BY <1>4 DEF Port!Separated
<1>6. Len(Port!Separated(x, "-", "/")) > 0
  BY <1>4 DEF Port!Separated
<1>7. QED
  BY <1>2, <1>5, <1>6

LEMMA SrlNames ==
  ASSUME NEW x \in PortNameSet
  PROVE  NamedByKind(x, "srl", "lo", "lag", "system0")
<1>1. ASSUME x \in EthernetNames
      PROVE  NamedByKind(x, "srl", "lo", "lag", "system0")
  <2>1. E \notin {Port!Word("lo"), Port!Word("lag"), Port!Word("system0")} /\ E # Exception
    BY PartsDiffer DEF E, Exception
  <2>2. QED
    BY <1>1, <2>1, SrlEthernet DEF NamedByKind, NamedAs
<1>2. ASSUME NEW n \in Numbers, x = Loop(n)
      PROVE  Info(x, "srl").name = <<Port!Word("lo"), N(n)>>
  <2>1. Port!ToSrlInterface(x, x \in LoopbackNames).name = <<Port!Word("lo"), N(n)>>
    BY <1>2, LoopbackIs DEF Port!ToSrlInterface, Port!At
  <2>2. QED
    BY <2>1, InfoOf
<1>3. ASSUME NEW n \in Numbers, x = Lag(n)
      PROVE  Info(x, "srl").name = Lag(n)
  <2>1. Port!ToSrlInterface(x, x \in LoopbackNames).name = Lag(n)
    BY <1>3, LagIs, LagTail DEF Port!ToSrlInterface, Port!At
  <2>2. QED
    BY <2>1, InfoOf
<1>4. ASSUME x = SystemName
      PROVE  Info(x, "srl").name = <<Port!Word("system0")>>
  <2>1. Port!ToSrlInterface(x, x \in LoopbackNames).name = <<Port!Word("system0")>>
    BY <1>4, SystemIs DEF Port!ToSrlInterface, Port!At
  <2>2. QED
    BY <2>1, InfoOf
<1>5. QED
  BY <1>1, <1>2, <1>3, <1>4, KindNamed, PairNumbered DEF Lag

LEMMA SrlApart ==
  ASSUME NEW p \in PortNameSet, NEW q \in PortNameSet, Info(p, "srl").name = Info(q, "srl").name
  PROVE  p = q
<1>1. WordsDiffer("lo", "lag", "system0")
  BY DEF WordsDiffer
<1>2. ~Nameless(Info(p, "srl"))
  BY <1>1, SrlNames, NamedIsNamed
<1>3. p = q \/ (p \in EthernetNames /\ q \in EthernetNames)
  BY <1>1, <1>2, SrlNames, KindsApart
<1>4. CASE p \in EthernetNames /\ q \in EthernetNames
  <2>1. Port!Separated(p, "-", "/") = Port!Separated(q, "-", "/")
    BY <1>4, SrlEthernet
  <2>2. p \in Seq(Parts) /\ q \in Seq(Parts) /\ Len(p) > 0 /\ Len(q) > 0
    BY <1>4, EthernetIs DEF IsEthernet
  <2>3. QED
    BY <2>1, <2>2, SeparatedKeepsParts
<1>5. QED
  BY <1>3, <1>4

-----------------------------------------------------------------------------
\* EOS.

LEMMA EosEthernet ==
  ASSUME NEW x \in EthernetNames
  PROVE  Info(x, "eos").name = IF Len(x) = 3
                               THEN <<Port!Word("Ethernet"), x[2], Port!Word("/"), x[3]>> ELSE <<E>>
<1>1. IsEthernet(x)
  BY EthernetIs
<1>2. Port!ToEosInterface(x, x \in LoopbackNames).name
        = IF Len(x) = 3 THEN <<Port!Word("Ethernet"), x[2], Port!Word("/"), x[3]>> ELSE <<E>>
  BY <1>1, EthernetIsNoOther DEF Port!ToEosInterface, Port!At, IsEthernet
<1>3. QED
  BY <1>2, InfoOf

LEMMA EosNames ==
  ASSUME NEW x \in PortNameSet
  PROVE  NamedByKind(x, "eos", "Loopback", "Port-Channel", "system0")
<1>1. ASSUME x \in EthernetNames
      PROVE  NamedByKind(x, "eos", "Loopback", "Port-Channel", "system0")
  <2> DEFINE t == Info(x, "eos").name
  <2>1. \A w \in {"ethernet", "Ethernet"} :
           /\ Port!Word(w) \notin {Port!Word("Loopback"), Port!Word("Port-Channel"), Port!Word("system0")}
           /\ Port!Word(w) # Exception
    BY PartsDiffer DEF Exception
  <2>2. CASE Len(x) = 3
    <3>1. t = <<Port!Word("Ethernet"), x[2], Port!Word("/"), x[3]>>
      BY <1>1, <2>2, EosEthernet
    <3>2. Len(t) > 0 /\ t[1] = Port!Word("Ethernet")
      <4> HIDE DEF t
      <4>1. QED
        BY ONLY <3>1
    <3>3. QED
      BY <1>1, <2>1, <3>2 DEF NamedByKind, NamedAs
  <2>3. CASE Len(x) # 3
    <3>1. t = <<E>>
      BY <1>1, <2>3, EosEthernet
    <3>2. Len(t) > 0 /\ t[1] = Port!Word("ethernet")
      BY <3>1 DEF E
    <3>3. QED
      BY <1>1, <2>1, <3>2 DEF NamedByKind, NamedAs
  <2>4. QED
    BY <2>2, <2>3
<1>2. ASSUME NEW n \in Numbers, x = Loop(n)
      PROVE  Info(x, "eos").name = <<Port!Word("Loopback"), N(n)>>
  <2>1. Port!ToEosInterface(x, x \in LoopbackNames).name = <<Port!Word("Loopback"), N(n)>>
    BY <1>2, LoopbackIs DEF Port!ToEosInterface, Port!At
  <2>2. QED
    BY <2>1, InfoOf
<1>3. ASSUME NEW n \in Numbers, x = Lag(n)
      PROVE  Info(x, "eos").name = <<Port!Word("Port-Channel"), N(n)>>
  <2>1. Port!ToEosInterface(x, x \in LoopbackNames).name = <<Port!Word("Port-Channel"), N(n)>>
    BY <1>3, LagIs DEF Port!ToEosInterface, Port!At
  <2>2. QED
    BY <2>1, InfoOf
<1>4. ASSUME x = SystemName
      PROVE  Info(x, "eos").name = <<Port!Word("system0")>>
  <2>1. Port!ToEosInterface(x, x \in LoopbackNames).name = <<Port!Word("system0")>>
    BY <1>4, SystemIs DEF Port!ToEosInterface, Port!At
  <2>2. QED
    BY <2>1, InfoOf
<1>5. QED
  BY <1>1, <1>2, <1>3, <1>4, KindNamed, PairNumbered

LEMMA ThreeParts ==
  ASSUME NEW p \in EthernetNames, NEW q \in EthernetNames, Len(p) = 3, Len(q) = 3,
         p[2] = q[2], p[3] = q[3]
  PROVE  p = q
<1>1. IsEthernet(p) /\ IsEthernet(q)
  BY EthernetIs
<1>2. \A i \in 1..Len(p) : p[i] = q[i]
  BY <1>1 DEF IsEthernet
<1>3. QED
  BY <1>1, <1>2, SeqEqual DEF IsEthernet

LEMMA EosApart ==
  ASSUME NEW p \in PortNameSet, NEW q \in PortNameSet, p # q,
         Info(p, "eos").name = Info(q, "eos").name
  PROVE  p \in EthernetNames /\ Len(p) # 3 /\ q \in EthernetNames /\ Len(q) # 3
<1>1. WordsDiffer("Loopback", "Port-Channel", "system0")
  BY DEF WordsDiffer
<1>2. ~Nameless(Info(p, "eos"))
  BY <1>1, EosNames, NamedIsNamed
<1>3. p \in EthernetNames /\ q \in EthernetNames
  BY <1>1, <1>2, EosNames, KindsApart
<1>4. \A a, b, c, d : <<a, b, c, d>> # <<E>>
  OBVIOUS
<1>5. Len(p) = 3 <=> Len(q) = 3
  BY <1>3, <1>4, EosEthernet
<1>6. CASE Len(p) = 3
  <2>1. <<Port!Word("Ethernet"), p[2], Port!Word("/"), p[3]>>
          = <<Port!Word("Ethernet"), q[2], Port!Word("/"), q[3]>>
    BY <1>3, <1>5, <1>6, EosEthernet
  <2>2. p[2] = q[2] /\ p[3] = q[3]
    BY <2>1
  <2>3. QED
    BY <1>3, <1>5, <1>6, <2>2, ThreeParts
<1>7. QED
  BY <1>3, <1>5, <1>6

-----------------------------------------------------------------------------
\* NX-OS and IOS XR.

LEMMA NxosEthernet ==
  ASSUME NEW x \in EthernetNames
  PROVE  /\ Len(x) = 3 => Info(x, "nxos").name = <<Port!Word("eth"), x[2], Port!Word("/"), x[3]>>
         /\ Len(x) # 3 => Info(x, "nxos") = Port!Absent
<1>1. IsEthernet(x)
  BY EthernetIs
<1>2. Len(x) = 3 => Port!ToNxosInterface(x, x \in LoopbackNames).name
                      = <<Port!Word("eth"), x[2], Port!Word("/"), x[3]>>
  BY <1>1, EthernetIsNoOther DEF Port!ToNxosInterface, Port!At, IsEthernet
<1>3. Len(x) # 3 => Port!ToNxosInterface(x, x \in LoopbackNames) = Port!Absent
  BY <1>1, EthernetIsNoOther DEF Port!ToNxosInterface, Port!At, IsEthernet
<1>4. QED
  BY <1>2, <1>3, InfoOf

LEMMA NxosNames ==
  ASSUME NEW x \in PortNameSet
  PROVE  \/ Nameless(Info(x, "nxos")) /\ Len(x) # 3
         \/ NamedByKind(x, "nxos", "lo", "po", "system0")
<1>1. ASSUME x \in EthernetNames, Len(x) = 3
      PROVE  NamedByKind(x, "nxos", "lo", "po", "system0")
  <2> DEFINE t == Info(x, "nxos").name
  <2>1. /\ Port!Word("eth") \notin {Port!Word("lo"), Port!Word("po"), Port!Word("system0")}
        /\ Port!Word("eth") # Exception
    BY PartsDiffer DEF Exception
  <2>2. Len(t) > 0 /\ t[1] = Port!Word("eth")
    BY <1>1, NxosEthernet
  <2>3. QED
    BY <1>1, <2>1, <2>2 DEF NamedByKind, NamedAs
<1>2. ASSUME x \in EthernetNames, Len(x) # 3
      PROVE  Nameless(Info(x, "nxos"))
  BY <1>2, NxosEthernet DEF Nameless
<1>3. ASSUME NEW n \in Numbers, x = Loop(n)
      PROVE  Info(x, "nxos").name = <<Port!Word("lo"), N(n)>>
  <2>1. Port!ToNxosInterface(x, x \in LoopbackNames).name = <<Port!Word("lo"), N(n)>>
    BY <1>3, LoopbackIs DEF Port!ToNxosInterface, Port!At
  <2>2. QED
    BY <2>1, InfoOf
<1>4. ASSUME NEW n \in Numbers, x = Lag(n)
      PROVE  Info(x, "nxos").name = <<Port!Word("po"), N(n)>>
  <2>1. Port!ToNxosInterface(x, x \in LoopbackNames).name = <<Port!Word("po"), N(n)>>
    BY <1>4, LagIs DEF Port!ToNxosInterface, Port!At
  <2>2. QED
    BY <2>1, InfoOf
<1>5. ASSUME x = SystemName
      PROVE  Nameless(Info(x, "nxos")) /\ Len(x) # 3
  <2>1. Port!ToNxosInterface(x, x \in LoopbackNames) = Port!Raised
    BY <1>5, SystemIs DEF Port!ToNxosInterface
  <2>2. QED
    BY <1>5, <2>1, InfoOf, SystemIs DEF Nameless
<1>6. CASE x = SystemName
  BY <1>5, <1>6
<1>7. CASE x \in EthernetNames /\ Len(x) # 3
  BY <1>2, <1>7
<1>8. CASE x # SystemName /\ ~(x \in EthernetNames /\ Len(x) # 3)
  BY <1>1, <1>3, <1>4, <1>8, KindNamed, PairNumbered
<1>9. QED
  BY <1>6, <1>7, <1>8

LEMMA NxosApart ==
  ASSUME NEW p \in PortNameSet, NEW q \in PortNameSet,
         ~Nameless(Info(p, "nxos")), Info(p, "nxos").name = Info(q, "nxos").name
  PROVE  p = q
<1>1. WordsDiffer("lo", "po", "system0")
  BY DEF WordsDiffer
<1>2. \/ p = q
      \/ p \in EthernetNames /\ q \in EthernetNames /\ ~Nameless(Info(q, "nxos"))
  BY <1>1, NxosNames, KindsApart
<1>3. CASE p \in EthernetNames /\ q \in EthernetNames /\ ~Nameless(Info(q, "nxos"))
  <2>1. Len(p) = 3 /\ Len(q) = 3
    BY <1>3, NxosEthernet DEF Nameless
  <2>2. <<Port!Word("eth"), p[2], Port!Word("/"), p[3]>>
          = <<Port!Word("eth"), q[2], Port!Word("/"), q[3]>>
    BY <1>3, <2>1, NxosEthernet
  <2>3. p[2] = q[2] /\ p[3] = q[3]
    BY <2>2
  <2>4. QED
    BY <1>3, <2>1, <2>3, ThreeParts
<1>4. QED
  BY <1>2, <1>3

LEMMA CardNames ==
  ASSUME NEW x \in EthernetNames, Len(x) = 3
  PROVE  OnCard(x)
  BY EthernetShapes DEF OnCard, OnCardOut, OnMda, OnMdaOut, OnXiom, OnXiomOut

LEMMA IosxrEthernet ==
  ASSUME NEW x \in EthernetNames
  PROVE  /\ \A c, n \in Numbers : x = <<E, N(c), N(n)>> =>
               Info(x, "ios-xr").name = <<Port!Word("GigabitEthernet0/"), Port!Number(c - 1),
                                          Port!Word("/0/"), Port!Number(n - 1)>>
         /\ Len(x) # 3 => Nameless(Info(x, "ios-xr"))
<1>1. IsEthernet(x)
  BY EthernetIs
<1>2. ASSUME NEW c \in Numbers, NEW n \in Numbers, x = <<E, N(c), N(n)>>
      PROVE  Port!ToIosxrInterface(x, x \in LoopbackNames).name
               = <<Port!Word("GigabitEthernet0/"), Port!Number(c - 1), Port!Word("/0/"), Port!Number(n - 1)>>
  <2>1. Len(x) = 3 /\ x[2] = N(c) /\ x[3] = N(n) /\ DOMAIN x = 1..3
    BY <1>2
  <2>2. Port!IsNumber(x[2]) /\ Port!IsNumber(x[3]) /\ x[2].number = c /\ x[3].number = n
    BY <2>1, KindsOfPart, PartsDiffer DEF N
  <2>3. ~Port!Unreadable(x)
    BY <2>1, <2>2 DEF Port!Unreadable
  <2>4. Port!FromZero(x[2]) = Port!Number(c - 1) /\ Port!FromZero(x[3]) = Port!Number(n - 1)
    BY <2>2 DEF Port!FromZero
  <2>5. Port!ToIosxrInterface(x, x \in LoopbackNames)
          = Port!At("interfaces.interface",
                    <<Port!Word("GigabitEthernet0/"), Port!FromZero(x[2]), Port!Word("/0/"),
                      Port!FromZero(x[3])>>)
    BY ONLY <2>1, <2>3 DEF Port!ToIosxrInterface
  <2>6. QED
    BY <2>4, <2>5, AtName
<1>3. ASSUME Len(x) # 3
      PROVE  Nameless(Port!ToIosxrInterface(x, x \in LoopbackNames))
  BY <1>1, <1>3, EthernetIsNoOther DEF Port!ToIosxrInterface, Nameless, IsEthernet
<1>4. QED
  BY <1>2, <1>3, InfoOf

LEMMA IosxrNames ==
  ASSUME NEW x \in PortNameSet
  PROVE  \/ Nameless(Info(x, "ios-xr")) /\ Len(x) # 3
         \/ NamedByKind(x, "ios-xr", "lo", "lag", "Loopback0")
<1>1. ASSUME x \in EthernetNames, Len(x) = 3
      PROVE  NamedByKind(x, "ios-xr", "lo", "lag", "Loopback0")
  <2> DEFINE t == Info(x, "ios-xr").name
             w == Port!Word("GigabitEthernet0/")
  <2>1. /\ w \notin {Port!Word("lo"), Port!Word("lag"), Port!Word("Loopback0")}
        /\ w # Exception
    BY PartsDiffer DEF Exception
  <2>2. PICK c, n \in Numbers : x = <<E, N(c), N(n)>>
    BY <1>1, CardNames DEF OnCard
  <2>3. t = <<w, Port!Number(c - 1), Port!Word("/0/"), Port!Number(n - 1)>>
    BY <1>1, <2>2, IosxrEthernet
  <2>4. Len(t) > 0 /\ t[1] = w
    <3> HIDE DEF t, w
    <3>1. QED
      BY ONLY <2>3
  <2>5. QED
    BY <1>1, <2>1, <2>4 DEF NamedByKind, NamedAs
<1>2. ASSUME x \in EthernetNames, Len(x) # 3
      PROVE  Nameless(Info(x, "ios-xr"))
  BY <1>2, IosxrEthernet
<1>3. ASSUME NEW n \in Numbers, x = Loop(n)
      PROVE  Nameless(Info(x, "ios-xr")) /\ Len(x) # 3
  <2>1. Port!ToIosxrInterface(x, x \in LoopbackNames) = Port!Absent
    BY <1>3, LoopbackIs DEF Port!ToIosxrInterface, Port!Unreadable
  <2>2. QED
    BY <1>3, <2>1, InfoOf, LoopbackIs DEF Nameless
<1>4. ASSUME NEW n \in Numbers, x = Lag(n)
      PROVE  Nameless(Info(x, "ios-xr")) /\ Len(x) # 3
  <2>1. Port!ToIosxrInterface(x, x \in LoopbackNames) = Port!Absent
    BY <1>4, LagIs DEF Port!ToIosxrInterface, Port!Unreadable
  <2>2. QED
    BY <1>4, <2>1, InfoOf, LagIs DEF Nameless
<1>5. ASSUME x = SystemName
      PROVE  Info(x, "ios-xr").name = <<Port!Word("Loopback0")>>
  <2>1. Port!ToIosxrInterface(x, x \in LoopbackNames).name = <<Port!Word("Loopback0")>>
    BY <1>5, SystemIs DEF Port!ToIosxrInterface, Port!Unreadable, Port!At
  <2>2. QED
    BY <2>1, InfoOf
<1>6. CASE (x \in EthernetNames /\ Len(x) = 3) \/ x = SystemName
  <2>1. \A n \in Numbers : x # Loop(n) /\ x # Lag(n)
    BY <1>6, LoopbackIs, LagIs, SystemIs
  <2>2. x \in EthernetNames => NamedByKind(x, "ios-xr", "lo", "lag", "Loopback0")
    BY <1>1, <1>6, SystemIs
  <2>3. QED
    BY <1>5, <2>1, <2>2, KindNamed
<1>7. QED
  BY <1>2, <1>3, <1>4, <1>6, NameKinds

LEMMA IosxrApart ==
  ASSUME NEW p \in PortNameSet, NEW q \in PortNameSet,
         ~Nameless(Info(p, "ios-xr")), Info(p, "ios-xr").name = Info(q, "ios-xr").name
  PROVE  p = q
<1>1. WordsDiffer("lo", "lag", "Loopback0")
  BY DEF WordsDiffer
<1>2. \/ p = q
      \/ p \in EthernetNames /\ q \in EthernetNames /\ ~Nameless(Info(q, "ios-xr"))
  BY <1>1, IosxrNames, KindsApart
<1>3. CASE p \in EthernetNames /\ q \in EthernetNames /\ ~Nameless(Info(q, "ios-xr"))
  <2>1. Len(p) = 3 /\ Len(q) = 3
    BY <1>3, IosxrEthernet
  <2>2. PICK c, n \in Numbers : p = <<E, N(c), N(n)>>
    BY <1>3, <2>1, CardNames DEF OnCard
  <2>3. PICK d, m \in Numbers : q = <<E, N(d), N(m)>>
    BY <1>3, <2>1, CardNames DEF OnCard
  <2>4. <<Port!Word("GigabitEthernet0/"), Port!Number(c - 1), Port!Word("/0/"), Port!Number(n - 1)>>
          = <<Port!Word("GigabitEthernet0/"), Port!Number(d - 1), Port!Word("/0/"), Port!Number(m - 1)>>
    BY <1>3, <2>2, <2>3, IosxrEthernet
  <2>5. Port!Number(c - 1) = Port!Number(d - 1) /\ Port!Number(n - 1) = Port!Number(m - 1)
    BY <2>4
  <2>6. c - 1 = d - 1 /\ n - 1 = m - 1
    BY <2>5, PartsDiffer
  <2>7. c = d /\ n = m
    BY <2>6, NumberAssumption
  <2>8. QED
    BY <2>2, <2>3, <2>7
<1>4. QED
  BY <1>2, <1>3

-----------------------------------------------------------------------------
\* SR OS: an Ethernet port's name says which port it is but for a first MDA.

ReadBack(t) ==
  LET mda == t[3]
  IN  CASE mda = Port!Word("x") /\ Len(t) = 8  -> <<E, t[1], t[4], L(t[6].number), t[8]>>
        [] mda = Port!Word("x") /\ Len(t) # 8  -> <<E, t[1], t[4], L(t[6].number), t[9], t[11]>>
        [] mda = N(1) /\ Len(t) = 5            -> <<E, t[1], t[5]>>
        [] mda = N(1) /\ Len(t) # 5            -> <<E, t[1], t[6], t[8]>>
        [] mda \notin {Port!Word("x"), N(1)} /\ Len(t) = 5 -> <<E, t[1], L(mda.number), t[5]>>
        [] mda \notin {Port!Word("x"), N(1)} /\ Len(t) # 5 -> <<E, t[1], L(mda.number), t[6], t[8]>>

Slash == Port!Word("/")

LEMMA MdaParts ==
  ASSUME NEW m
  PROVE  /\ N(m) # Port!Word("x") /\ N(m).number = m /\ L(m).letter = m
         /\ N(m) = N(1) <=> m = 1
         /\ L(m) = Port!Letter(1) <=> m = 1
         /\ \A n : N(n) # Port!Letter(1)
         /\ Port!IsLetter(L(m)) /\ ~Port!IsLetter(N(m))
  BY PartsDiffer, KindsOfPart DEF N, L

LEMMA SrosCard ==
  ASSUME NEW x, NEW c, NEW n, x = <<E, N(c), N(n)>>
  PROVE  /\ Port!SrosPort(x) = <<N(c), Slash, N(1), Slash, N(n)>>
         /\ Implicit(x) = ReadBack(Port!SrosPort(x))
<1>1. Len(x) = 3 /\ x[2] = N(c) /\ x[3] = N(n)
  OBVIOUS
<1>2. Port!SrosPort(x) = <<N(c), Slash, N(1), Slash, N(n)>>
  BY <1>1, MdaParts DEF Port!SrosPort, Slash, N
<1>3. Implicit(x) = x
  BY <1>1 DEF Implicit, FirstMda
<1>4. ReadBack(<<N(c), Slash, N(1), Slash, N(n)>>) = <<E, N(c), N(n)>>
  BY MdaParts DEF ReadBack
<1>5. QED
  BY <1>2, <1>3, <1>4

LEMMA SrosCardOut ==
  ASSUME NEW x, NEW c, NEW n, NEW b,
         x = <<E, N(c), N(n), N(b)>>
  PROVE  /\ Port!SrosPort(x) = <<N(c), Slash, N(1), Slash, Port!Word("c"), N(n), Slash, N(b)>>
         /\ Implicit(x) = ReadBack(Port!SrosPort(x))
<1>1. Len(x) = 4 /\ x[2] = N(c) /\ x[3] = N(n) /\ x[4] = N(b)
  OBVIOUS
<1>2. Port!SrosPort(x) = <<N(c), Slash, N(1), Slash, Port!Word("c"), N(n), Slash, N(b)>>
  BY <1>1, MdaParts DEF Port!SrosPort, Slash, N, L
<1>3. Implicit(x) = x
  BY <1>1, MdaParts DEF Implicit, FirstMda
<1>4. ReadBack(<<N(c), Slash, N(1), Slash, Port!Word("c"), N(n), Slash, N(b)>>) = <<E, N(c), N(n), N(b)>>
  BY MdaParts DEF ReadBack
<1>5. QED
  BY <1>2, <1>3, <1>4

LEMMA SrosXiom ==
  ASSUME NEW x, NEW c, NEW y, NEW m, NEW n,
         x = <<E, N(c), N(y), L(m), N(n)>>
  PROVE  /\ Port!SrosPort(x) = <<N(c), Slash, Port!Word("x"), N(y), Slash, N(m), Slash, N(n)>>
         /\ Implicit(x) = ReadBack(Port!SrosPort(x))
<1>1. Len(x) = 5 /\ x[2] = N(c) /\ x[3] = N(y) /\ x[4] = L(m) /\ x[5] = N(n)
  OBVIOUS
<1>2. Port!SrosPort(x) = <<N(c), Slash, Port!Word("x"), N(y), Slash, N(m), Slash, N(n)>>
  BY <1>1, MdaParts DEF Port!SrosPort, Slash, N, L
<1>3. Implicit(x) = x
  BY <1>1, MdaParts DEF Implicit, FirstMda
<1>4. ReadBack(<<N(c), Slash, Port!Word("x"), N(y), Slash, N(m), Slash, N(n)>>)
        = <<E, N(c), N(y), L(m), N(n)>>
  BY MdaParts DEF ReadBack
<1>5. QED
  BY <1>2, <1>3, <1>4

LEMMA SrosXiomOut ==
  ASSUME NEW x, NEW c, NEW y, NEW m, NEW n, NEW b,
         x = <<E, N(c), N(y), L(m), N(n), N(b)>>
  PROVE  /\ Port!SrosPort(x) = <<N(c), Slash, Port!Word("x"), N(y), Slash, N(m), Slash,
                                 Port!Word("c"), N(n), Slash, N(b)>>
         /\ Implicit(x) = ReadBack(Port!SrosPort(x))
<1>1. Len(x) = 6 /\ x[2] = N(c) /\ x[3] = N(y) /\ x[4] = L(m) /\ x[5] = N(n) /\ x[6] = N(b)
  OBVIOUS
<1>2. Port!SrosPort(x) = <<N(c), Slash, Port!Word("x"), N(y), Slash, N(m), Slash,
                           Port!Word("c"), N(n), Slash, N(b)>>
  BY <1>1, MdaParts DEF Port!SrosPort, Slash, N, L
<1>3. Implicit(x) = x
  BY <1>1, MdaParts DEF Implicit, FirstMda
<1>4. ReadBack(<<N(c), Slash, Port!Word("x"), N(y), Slash, N(m), Slash,
                Port!Word("c"), N(n), Slash, N(b)>>)
        = <<E, N(c), N(y), L(m), N(n), N(b)>>
  BY MdaParts DEF ReadBack
<1>5. QED
  BY <1>2, <1>3, <1>4

LEMMA SrosMda ==
  ASSUME NEW x, NEW c, NEW m, NEW n,
         x = <<E, N(c), L(m), N(n)>>
  PROVE  /\ Port!SrosPort(x) = <<N(c), Slash, N(m), Slash, N(n)>>
         /\ Implicit(x) = ReadBack(Port!SrosPort(x))
<1>1. Len(x) = 4 /\ x[2] = N(c) /\ x[3] = L(m) /\ x[4] = N(n)
  OBVIOUS
<1>2. Port!SrosPort(x) = <<N(c), Slash, N(m), Slash, N(n)>>
  BY <1>1, MdaParts DEF Port!SrosPort, Slash, N, L
<1>3. CASE m = 1
  <2>1. Implicit(x) = [i \in 1..3 |-> x[IF i < 3 THEN i ELSE i + 1]]
    BY <1>1, <1>3, MdaParts DEF Implicit, FirstMda
  <2>2. [i \in 1..3 |-> x[IF i < 3 THEN i ELSE i + 1]] = <<E, N(c), N(n)>>
    BY <1>1
  <2>3. ReadBack(<<N(c), Slash, N(m), Slash, N(n)>>) = <<E, N(c), N(n)>>
    BY <1>3, MdaParts DEF ReadBack
  <2>4. QED
    BY <1>2, <2>1, <2>2, <2>3
<1>4. CASE m # 1
  <2>1. Implicit(x) = x
    BY <1>1, <1>4, MdaParts DEF Implicit, FirstMda
  <2>2. ReadBack(<<N(c), Slash, N(m), Slash, N(n)>>) = <<E, N(c), L(m), N(n)>>
    BY <1>4, MdaParts DEF ReadBack
  <2>3. QED
    BY <1>2, <2>1, <2>2
<1>5. QED
  BY <1>3, <1>4

LEMMA SrosMdaOut ==
  ASSUME NEW x, NEW c, NEW m, NEW n, NEW b,
         x = <<E, N(c), L(m), N(n), N(b)>>
  PROVE  /\ Port!SrosPort(x) = <<N(c), Slash, N(m), Slash, Port!Word("c"), N(n), Slash, N(b)>>
         /\ Implicit(x) = ReadBack(Port!SrosPort(x))
<1>1. Len(x) = 5 /\ x[2] = N(c) /\ x[3] = L(m) /\ x[4] = N(n) /\ x[5] = N(b)
  OBVIOUS
<1>2. Port!SrosPort(x) = <<N(c), Slash, N(m), Slash, Port!Word("c"), N(n), Slash, N(b)>>
  BY <1>1, MdaParts DEF Port!SrosPort, Slash, N, L
<1>3. CASE m = 1
  <2>1. Implicit(x) = [i \in 1..4 |-> x[IF i < 3 THEN i ELSE i + 1]]
    BY <1>1, <1>3, MdaParts DEF Implicit, FirstMda
  <2>2. [i \in 1..4 |-> x[IF i < 3 THEN i ELSE i + 1]] = <<E, N(c), N(n), N(b)>>
    BY <1>1
  <2>3. ReadBack(<<N(c), Slash, N(m), Slash, Port!Word("c"), N(n), Slash, N(b)>>) = <<E, N(c), N(n), N(b)>>
    BY <1>3, MdaParts DEF ReadBack
  <2>4. QED
    BY <1>2, <2>1, <2>2, <2>3
<1>4. CASE m # 1
  <2>1. Implicit(x) = x
    BY <1>1, <1>4, MdaParts DEF Implicit, FirstMda
  <2>2. ReadBack(<<N(c), Slash, N(m), Slash, Port!Word("c"), N(n), Slash, N(b)>>)
          = <<E, N(c), L(m), N(n), N(b)>>
    BY <1>4, MdaParts DEF ReadBack
  <2>3. QED
    BY <1>2, <2>1, <2>2
<1>5. QED
  BY <1>3, <1>4

IsSrosPort(t) == t # << >> /\ Len(t) > 0 /\ \E c \in Numbers : t[1] = N(c)

LEMMA SrosPorts ==
  ASSUME NEW x \in EthernetNames
  PROVE  IsSrosPort(Port!SrosPort(x)) /\ Implicit(x) = ReadBack(Port!SrosPort(x))
<1> DEFINE Goal == IsSrosPort(Port!SrosPort(x)) /\ Implicit(x) = ReadBack(Port!SrosPort(x))
<1>1. CASE OnCard(x)
  <2>1. PICK c, n \in Numbers : x = <<E, N(c), N(n)>>
    BY <1>1 DEF OnCard
  <2>2. Port!SrosPort(x) = <<N(c), Slash, N(1), Slash, N(n)>> /\ Implicit(x) = ReadBack(Port!SrosPort(x))
    BY <2>1, SrosCard
  <2>3. QED
    BY <2>2 DEF IsSrosPort
<1>2. CASE OnCardOut(x)
  <2>1. PICK c, n \in Numbers, b \in Extras : x = <<E, N(c), N(n), N(b)>>
    BY <1>2 DEF OnCardOut
  <2>2. /\ Port!SrosPort(x) = <<N(c), Slash, N(1), Slash, Port!Word("c"), N(n), Slash, N(b)>>
        /\ Implicit(x) = ReadBack(Port!SrosPort(x))
    BY <2>1, SrosCardOut
  <2>3. QED
    BY <2>2 DEF IsSrosPort
<1>3. CASE OnMda(x)
  <2>1. PICK c, n \in Numbers, m \in Letters : x = <<E, N(c), L(m), N(n)>>
    BY <1>3 DEF OnMda
  <2>2. Port!SrosPort(x) = <<N(c), Slash, N(m), Slash, N(n)>> /\ Implicit(x) = ReadBack(Port!SrosPort(x))
    BY <2>1, SrosMda
  <2>3. QED
    BY <2>2 DEF IsSrosPort
<1>4. CASE OnMdaOut(x)
  <2>1. PICK c, n \in Numbers, m \in Letters, b \in Extras : x = <<E, N(c), L(m), N(n), N(b)>>
    BY <1>4 DEF OnMdaOut
  <2>2. /\ Port!SrosPort(x) = <<N(c), Slash, N(m), Slash, Port!Word("c"), N(n), Slash, N(b)>>
        /\ Implicit(x) = ReadBack(Port!SrosPort(x))
    BY <2>1, SrosMdaOut
  <2>3. QED
    BY <2>2 DEF IsSrosPort
<1>5. CASE OnXiom(x)
  <2>1. PICK c, n \in Numbers, m \in Letters, y \in Extras : x = <<E, N(c), N(y), L(m), N(n)>>
    BY <1>5 DEF OnXiom
  <2>2. /\ Port!SrosPort(x) = <<N(c), Slash, Port!Word("x"), N(y), Slash, N(m), Slash, N(n)>>
        /\ Implicit(x) = ReadBack(Port!SrosPort(x))
    BY <2>1, SrosXiom
  <2>3. QED
    BY <2>2 DEF IsSrosPort
<1>6. CASE OnXiomOut(x)
  <2>1. PICK c, n \in Numbers, m \in Letters, y, b \in Extras : x = <<E, N(c), N(y), L(m), N(n), N(b)>>
    BY <1>6 DEF OnXiomOut
  <2>2. /\ Port!SrosPort(x) = <<N(c), Slash, Port!Word("x"), N(y), Slash, N(m), Slash,
                                 Port!Word("c"), N(n), Slash, N(b)>>
        /\ Implicit(x) = ReadBack(Port!SrosPort(x))
    BY <2>1, SrosXiomOut
  <2>3. QED
    BY <2>2 DEF IsSrosPort
<1>7. QED
  BY <1>1, <1>2, <1>3, <1>4, <1>5, <1>6, EthernetShapes

LEMMA SrosEthernet ==
  ASSUME NEW x \in EthernetNames
  PROVE  Info(x, "sros").name = Port!SrosPort(x)
<1>1. ~Port!IsLag(x) /\ ~Port!IsSystem(x) /\ x \notin LoopbackNames
  BY EthernetIsNoOther
<1>2. Port!SrosPort(x) # << >>
  BY SrosPorts DEF IsSrosPort
<1>3. Port!ToSrosInterface(x, x \in LoopbackNames).name = Port!SrosPort(x)
  BY ONLY <1>1, <1>2 DEF Port!ToSrosInterface
<1>4. QED
  BY <1>3, InfoOf

LEMMA LagJoined ==
  ASSUME NEW n \in Numbers
  PROVE  Port!Joined(Lag(n), "-") = <<Port!Word("lag"), Port!Word("-"), N(n)>>
<1> DEFINE t == Lag(n)
<1>1. Len(t) = 2 /\ t[1] = Port!Word("lag") /\ t[2] = N(n)
  BY LagIs
<1> HIDE DEF t
<1>2. 2 * Len(t) - 1 = 3
  BY <1>1
<1>3. Port!Joined(t, "-") = [i \in 1..3 |-> IF i % 2 = 1 THEN t[(i + 1) \div 2] ELSE Port!Word("-")]
  BY <1>2 DEF Port!Joined, Port!Separated
<1>4. [i \in 1..3 |-> IF i % 2 = 1 THEN t[(i + 1) \div 2] ELSE Port!Word("-")]
        = <<Port!Word("lag"), Port!Word("-"), N(n)>>
  BY <1>1
<1>5. QED
  BY <1>3, <1>4 DEF t

LEMMA TripleNumbered ==
  ASSUME NEW word, NEW separator, NEW n
  PROVE  Numbered(<<Port!Word(word), separator, N(n)>>, word, n)
BY DEF Numbered

LEMMA SrosNames ==
  ASSUME NEW x \in PortNameSet
  PROVE  NamedByKind(x, "sros", "lo", "lag", "system")
<1>1. ASSUME x \in EthernetNames
      PROVE  NamedByKind(x, "sros", "lo", "lag", "system")
  <2> DEFINE t == Info(x, "sros").name
  <2>1. t = Port!SrosPort(x) /\ IsSrosPort(t)
    BY <1>1, SrosEthernet, SrosPorts
  <2>2. PICK c \in Numbers : t[1] = N(c) /\ Len(t) > 0
    BY <2>1 DEF IsSrosPort
  <2>3. N(c) \notin {Port!Word("lo"), Port!Word("lag"), Port!Word("system")} /\ N(c) # Exception
    BY PartsDiffer DEF N, Exception
  <2>4. QED
    BY <1>1, <2>2, <2>3 DEF NamedByKind, NamedAs
<1>2. ASSUME NEW n \in Numbers, x = Loop(n)
      PROVE  Info(x, "sros").name = <<Port!Word("lo"), N(n)>>
  <2>1. Port!ToSrosInterface(x, x \in LoopbackNames).name = <<Port!Word("lo"), N(n)>>
    BY <1>2, LoopbackIs DEF Port!ToSrosInterface, Port!Absent
  <2>2. QED
    BY <2>1, InfoOf
<1>3. ASSUME NEW n \in Numbers, x = Lag(n)
      PROVE  Numbered(Info(x, "sros").name, "lag", n)
  <2>1. Port!ToSrosInterface(x, x \in LoopbackNames).name = Port!Joined(x, "-")
    BY <1>3, LagIs DEF Port!ToSrosInterface
  <2>2. Info(x, "sros").name = <<Port!Word("lag"), Port!Word("-"), N(n)>>
    BY <1>3, <2>1, InfoOf, LagJoined
  <2>3. QED
    BY <2>2, TripleNumbered
<1>4. ASSUME x = SystemName
      PROVE  Info(x, "sros").name = <<Port!Word("system")>>
  <2>1. Port!ToSrosInterface(x, x \in LoopbackNames).name = <<Port!Word("system")>>
    BY <1>4, SystemIs DEF Port!ToSrosInterface
  <2>2. QED
    BY <2>1, InfoOf
<1>5. QED
  BY <1>1, <1>2, <1>3, <1>4, KindNamed, PairNumbered

LEMMA SrosApart ==
  ASSUME NEW p \in PortNameSet, NEW q \in PortNameSet,
         Info(p, "sros").name = Info(q, "sros").name
  PROVE  Implicit(p) = Implicit(q)
<1>1. WordsDiffer("lo", "lag", "system")
  BY DEF WordsDiffer
<1>2. ~Nameless(Info(p, "sros"))
  BY <1>1, SrosNames, NamedIsNamed
<1>3. p = q \/ (p \in EthernetNames /\ q \in EthernetNames)
  BY <1>1, <1>2, SrosNames, KindsApart
<1>4. QED
  BY <1>3, SrosEthernet, SrosPorts

-----------------------------------------------------------------------------
\* All systems.

LEMMA PortsApart ==
  ASSUME NEW os \in Systems, NEW p \in PortNameSet, NEW q \in PortNameSet, p # q,
         Info(p, os).name = Info(q, os).name, ~Nameless(Info(p, os))
  PROVE  \/ os = "sros" /\ Implicit(p) = Implicit(q)
         \/ os = "eos" /\ p \in EthernetNames /\ Len(p) # 3 /\ q \in EthernetNames /\ Len(q) # 3
<1>1. os # "srl"
  BY SrlApart
<1>2. os # "nxos" /\ os # "ios-xr"
  BY NxosApart, IosxrApart
<1>3. CASE os = "sros"
  BY <1>3, SrosApart
<1>4. CASE os = "eos"
  BY <1>4, EosApart
<1>5. QED
  BY <1>1, <1>2, <1>3, <1>4 DEF Systems

LEMMA WhoIsNameless ==
  ASSUME NEW os \in Systems, NEW p \in PortNameSet, Nameless(Info(p, os))
  PROVE  os \in {"nxos", "ios-xr"} /\ Len(p) # 3
<1>1. os # "srl"
  <2>1. WordsDiffer("lo", "lag", "system0")
    BY DEF WordsDiffer
  <2>2. QED
    BY <2>1, SrlNames, NamedIsNamed
<1>2. os # "sros"
  <2>1. WordsDiffer("lo", "lag", "system")
    BY DEF WordsDiffer
  <2>2. QED
    BY <2>1, SrosNames, NamedIsNamed
<1>3. os # "eos"
  <2>1. WordsDiffer("Loopback", "Port-Channel", "system0")
    BY DEF WordsDiffer
  <2>2. QED
    BY <2>1, EosNames, NamedIsNamed
<1>4. CASE os = "nxos"
  <2>1. WordsDiffer("lo", "po", "system0")
    BY DEF WordsDiffer
  <2>2. QED
    BY <1>4, <2>1, NxosNames, NamedIsNamed
<1>5. CASE os = "ios-xr"
  <2>1. WordsDiffer("lo", "lag", "Loopback0")
    BY DEF WordsDiffer
  <2>2. QED
    BY <1>5, <2>1, IosxrNames, NamedIsNamed
<1>6. QED
  BY <1>1, <1>2, <1>3, <1>4, <1>5 DEF Systems

LEMMA LagsByNumber ==
  ASSUME NEW os \in Systems, NEW p \in LagNames, ~Nameless(Info(p, os))
  PROVE  Port!GetLagName(p[2].number, os) = Info(p, os).name
<1>1. PICK n \in Numbers : p = Lag(n)
  BY DEF LagNames, Lag, N
<1>2. p[2].number = n
  BY <1>1, LagIs, PartsDiffer DEF N
<1>3. CASE os = "srl"
  <2>1. Port!ToSrlInterface(p, p \in LoopbackNames).name = Lag(n)
    BY <1>1, LagIs, LagTail DEF Port!ToSrlInterface, Port!At
  <2>2. QED
    BY <1>2, <1>3, <2>1, InfoOf DEF Port!GetLagName, Lag, N
<1>4. CASE os = "sros"
  <2>1. Port!ToSrosInterface(p, p \in LoopbackNames).name = Port!Joined(p, "-")
    BY <1>1, LagIs DEF Port!ToSrosInterface
  <2>2. QED
    BY <1>1, <1>2, <1>4, <2>1, InfoOf, LagJoined DEF Port!GetLagName, N
<1>5. CASE os = "eos"
  <2>1. Port!ToEosInterface(p, p \in LoopbackNames).name = <<Port!Word("Port-Channel"), N(n)>>
    BY <1>1, LagIs DEF Port!ToEosInterface, Port!At
  <2>2. QED
    BY <1>2, <1>5, <2>1, InfoOf DEF Port!GetLagName, N
<1>6. CASE os = "nxos"
  <2>1. Port!ToNxosInterface(p, p \in LoopbackNames).name = <<Port!Word("po"), N(n)>>
    BY <1>1, LagIs DEF Port!ToNxosInterface, Port!At
  <2>2. QED
    BY <1>2, <1>6, <2>1, InfoOf DEF Port!GetLagName, N
<1>7. CASE os = "ios-xr"
  <2>1. Port!ToIosxrInterface(p, p \in LoopbackNames) = Port!Absent
    BY <1>1, LagIs DEF Port!ToIosxrInterface, Port!Unreadable
  <2>2. QED
    BY <1>7, <2>1, InfoOf DEF Nameless
<1>8. QED
  BY <1>3, <1>4, <1>5, <1>6, <1>7 DEF Systems

(* Whatever numbers cards, ports, MDAs, XIOMs, loopbacks and lags have, two *)
(* ports of a node get one name only in the two collisions: a first MDA    *)
(* written or not on SR OS, "ethernet" on EOS.  What IOS XR calls a port   *)
(* on the MDA of a card is left open.  get_node_interface_info of          *)
(* utils/interface.py.                                                     *)
THEOREM PortNaming == Spec => []PortsStayApart
<1>0. call.kind # "ports" => PortsStayApart
  BY DEF PortsStayApart
<1>1. Init => PortsStayApart
  BY <1>0 DEF Init, Idle
<1>2. PortsStayApart /\ [Next]_vars => PortsStayApart'
  <2> SUFFICES ASSUME PortsStayApart, [Next]_vars
               PROVE  PortsStayApart'
    OBVIOUS
  <2>0. call'.kind # "ports" => PortsStayApart'
    BY DEF PortsStayApart
  <2>2. CASE NamePorts
    <3>1. PICK os \in Systems, p \in PortNameSet, q \in PortNameSet :
            /\ call' = [kind |-> "ports", os |-> os, p |-> p, q |-> q]
            /\ result' = [p |-> Info(p, os), q |-> Info(q, os),
                          lag |-> IF p \in LagNames THEN Port!GetLagName(p[2].number, os)
                                  ELSE Port!NoName]
      BY <2>2 DEF NamePorts
    <3>2. /\ call'.os = os /\ call'.p = p /\ call'.q = q
          /\ result'.p = Info(p, os) /\ result'.q = Info(q, os)
          /\ p \in LagNames => result'.lag = Port!GetLagName(p[2].number, os)
      BY <3>1
    <3>3. p # q /\ Info(p, os).name = Info(q, os).name /\ ~Nameless(Info(p, os)) =>
            \/ os = "sros" /\ Implicit(p) = Implicit(q)
            \/ os = "eos" /\ p \in EthernetNames /\ Len(p) # 3 /\ q \in EthernetNames /\ Len(q) # 3
      BY PortsApart
    <3>4. Nameless(Info(p, os)) => os \in {"nxos", "ios-xr"} /\ Len(p) # 3
      BY WhoIsNameless
    <3>5. p \in LagNames /\ ~Nameless(Info(p, os)) => Port!GetLagName(p[2].number, os) = Info(p, os).name
      BY LagsByNumber
    <3>6. QED
      BY <3>2, <3>3, <3>4, <3>5 DEF PortsStayApart, Nameless
  <2>5. CASE UNCHANGED vars
    BY <2>5 DEF vars, PortsStayApart
  <2>6. QED
    BY <2>0, <2>2, <2>5, OneKindOfCall
<1>3. QED
  BY <1>1, <1>2, PTL DEF Spec

-----------------------------------------------------------------------------
\* The path of a component's row, and the words the code finds in it.

RowElement(row, quoted, i) ==
  Comp!Element(ListText(row.list[i]),
               IF row.list[i] = "chassis" THEN Comp!NoKey ELSE KeyOf(Comp!Plain(row.slots[i]), quoted))

NodeElement(node) == Comp!Element(Comp!Plain("node"), KeyOf(node, TRUE))
PlainElement(name) == Comp!Element(Comp!Plain(name), Comp!NoKey)

PathOf(node, os, row, quoted) == PathTo(node, os, row.list, row.slots, quoted)

InPathParts(p, a, b, c) ==
  /\ DOMAIN p = 1..Len(p) /\ Len(p) = 2 + Len(b) + Len(c)
  /\ p[1] = a[1] /\ p[2] = a[2]
  /\ \A i \in 1..Len(b) : p[2 + i] = b[i]
  /\ \A i \in 1..Len(c) : p[2 + Len(b) + i] = c[i]

LEMMA PathParts ==
  ASSUME NEW S, NEW a \in Seq(S), NEW b \in Seq(S), NEW c \in Seq(S), Len(a) = 2,
         NEW p, p = (a \o b) \o c
  PROVE  InPathParts(p, a, b, c)
<1>1. /\ a \o b \in Seq(S) /\ Len(a \o b) = Len(a) + Len(b)
      /\ \A i \in 1..(Len(a) + Len(b)) : (a \o b)[i] = IF i <= Len(a) THEN a[i] ELSE b[i - Len(a)]
  BY ConcatProperties
<1>2. PICK ab : ab = a \o b
  OBVIOUS
<1>3. /\ ab \in Seq(S) /\ Len(ab) = 2 + Len(b)
      /\ \A i \in 1..2 : ab[i] = a[i]
      /\ \A i \in 1..Len(b) : ab[2 + i] = b[i]
  BY <1>1, <1>2
<1>4. /\ p \in Seq(S) /\ Len(p) = Len(ab) + Len(c)
      /\ \A i \in 1..Len(ab) : p[i] = ab[i]
      /\ \A i \in 1..Len(c) : p[Len(ab) + i] = c[i]
  <2>1. /\ ab \o c \in Seq(S) /\ Len(ab \o c) = Len(ab) + Len(c)
        /\ \A i \in 1..(Len(ab) + Len(c)) :
              (ab \o c)[i] = IF i <= Len(ab) THEN ab[i] ELSE c[i - Len(ab)]
    BY <1>3, ConcatProperties
  <2>2. p = ab \o c
    BY <1>2
  <2>3. QED
    BY <1>3, <2>1, <2>2
<1>5. Len(b) \in Nat /\ Len(c) \in Nat
  OBVIOUS
<1>6. DOMAIN p = 1..Len(p) /\ Len(p) = 2 + Len(b) + Len(c)
  BY <1>3, <1>4
<1>7. p[1] = a[1] /\ p[2] = a[2]
  BY <1>3, <1>4, <1>5
<1>8. \A i \in 1..Len(b) : p[2 + i] = b[i]
  BY <1>3, <1>4, <1>5
<1>9. \A i \in 1..Len(c) : p[2 + Len(b) + i] = c[i]
  BY <1>3, <1>4
<1>10. QED
  BY ONLY <1>6, <1>7, <1>8, <1>9 DEF InPathParts

Short == {"fan-tray", "power-supply", "linecard", "control", "fabric", "card", "cpm", "sfm", "chassis"}
Below == {"fan", "power-supply", "power-shelf"}

LEMMA ListForms ==
  ASSUME NEW os \in {"srl", "sros"}, NEW list \in Lists(os)
  PROVE  \/ \E a \in Short : list = <<a>>
         \/ \E b \in Below : list = <<"chassis", b>>
         \/ list = <<"chassis", "power-shelf", "power-module">>
<1>1. CASE os = "srl"
  BY <1>1 DEF Lists, Comp!SrlLists, Short, Below
<1>2. CASE os = "sros"
  BY <1>2 DEF Lists, Comp!SrosLists, Short, Below
<1>3. QED
  BY <1>1, <1>2

LEMMA ListsAre ==
  ASSUME NEW os \in {"srl", "sros"}, NEW list \in Lists(os)
  PROVE  Len(list) \in 1..3 /\ DOMAIN list = 1..Len(list)
<1>1. /\ \A a \in Short : Len(<<a>>) = 1 /\ DOMAIN <<a>> = 1..1
      /\ \A b \in Below : Len(<<"chassis", b>>) = 2 /\ DOMAIN <<"chassis", b>> = 1..2
      /\ Len(<<"chassis", "power-shelf", "power-module">>) = 3
      /\ DOMAIN <<"chassis", "power-shelf", "power-module">> = 1..3
  OBVIOUS
<1>2. QED
  BY <1>1, ListForms

LEMMA RowIs ==
  ASSUME NEW os \in {"srl", "sros"}, NEW row \in Rows(os)
  PROVE  /\ row = [list |-> row.list, slots |-> row.slots]
         /\ row.list \in Lists(os)
         /\ row.slots = [i \in DOMAIN row.list |-> row.slots[i]]
         /\ \A i \in DOMAIN row.list : IF row.list[i] = "chassis" THEN row.slots[i] = ""
                                       ELSE row.slots[i] \in Slot
<1> DEFINE Filled(list, s) == [i \in DOMAIN list |-> IF list[i] = "chassis" THEN "" ELSE s[i]]
<1>0. PICK S : /\ row \in S
               /\ \E list \in Lists(os) :
                    S = {[list |-> list, slots |-> Filled(list, s)] : s \in [DOMAIN list -> Slot]}
  BY Zenon DEF Rows
<1>1. PICK list \in Lists(os) : \E s \in [DOMAIN list -> Slot] :
         row = [list |-> list, slots |-> Filled(list, s)]
  BY <1>0
<1>2. PICK s \in [DOMAIN list -> Slot] : row = [list |-> list, slots |-> Filled(list, s)]
  BY <1>1
<1>3. row.list = list /\ row.slots = Filled(list, s)
  BY <1>2
<1>4. QED
  BY <1>2, <1>3

LEMMA SlotsAre ==
  ASSUME NEW os \in {"srl", "sros"}, NEW row \in Rows(os)
  PROVE  Len(row.slots) = Len(row.list)
<1>1. row.list \in Lists(os) /\ row.slots = [i \in DOMAIN row.list |-> row.slots[i]]
  BY RowIs
<1>2. DOMAIN row.list = 1..Len(row.list) /\ Len(row.list) \in 1..3
  BY <1>1, ListsAre
<1>3. PICK n \in Nat : n = Len(row.list)
  BY <1>2
<1>4. row.slots = [i \in 1..n |-> row.slots[i]]
  BY <1>1, <1>2, <1>3
<1>5. Len([i \in 1..n |-> row.slots[i]]) = n
  OBVIOUS
<1>6. QED
  BY <1>3, <1>4, <1>5

LEMMA PathIs ==
  ASSUME NEW os \in {"srl", "sros"}, NEW row \in Rows(os), NEW node, NEW quoted \in BOOLEAN
  PROVE  LET p == PathOf(node, os, row, quoted)
             n == Len(row.list)
         IN  /\ n \in 1..3
             /\ DOMAIN p = 1..Len(p)
             /\ Len(p) = IF os = "sros" THEN n + 3 ELSE n + 2
             /\ p[1] = NodeElement(node)
             /\ p[2] = PlainElement(os)
             /\ \A i \in 1..n : p[i + 2] = RowElement(row, quoted, i)
             /\ os = "sros" => p[n + 3] = PlainElement("hardware-data")
<1> DEFINE n == Len(row.list)
           a == <<NodeElement(node), PlainElement(os)>>
           b == [i \in DOMAIN row.list |-> RowElement(row, quoted, i)]
           c == IF os = "sros" THEN <<PlainElement("hardware-data")>> ELSE << >>
           T == {a[1], a[2], PlainElement("hardware-data")}
                  \cup {RowElement(row, quoted, i) : i \in DOMAIN row.list}
<1>1. n \in 1..3 /\ DOMAIN row.list = 1..n
  BY RowIs, ListsAre
<1>2. PathOf(node, os, row, quoted) = (a \o b) \o c
  BY Zenon DEF PathOf, PathTo, RowElement, NodeElement, PlainElement
<1>3. a \in Seq(T) /\ Len(a) = 2 /\ a[1] = NodeElement(node) /\ a[2] = PlainElement(os)
  OBVIOUS
<1>4. b \in Seq(T) /\ Len(b) = n /\ \A i \in 1..n : b[i] = RowElement(row, quoted, i)
  <2>1. b \in [1..n -> T]
    BY <1>1
  <2>2. QED
    BY <1>1, <2>1
<1>5. c \in Seq(T) /\ Len(c) = (IF os = "sros" THEN 1 ELSE 0)
      /\ (os = "sros" => c[1] = PlainElement("hardware-data"))
  <2>1. CASE os = "sros"
    BY <2>1
  <2>2. CASE os = "srl"
    BY <2>2
  <2>3. QED
    BY <2>1, <2>2
<1> HIDE DEF a, b, c, T, n
<1>7. PICK p : p = (a \o b) \o c
  OBVIOUS
<1>8. /\ DOMAIN p = 1..Len(p) /\ Len(p) = 2 + n + Len(c)
      /\ p[1] = a[1] /\ p[2] = a[2]
      /\ \A i \in 1..n : p[2 + i] = b[i]
      /\ \A i \in 1..Len(c) : p[2 + n + i] = c[i]
  <2>1. a \in Seq(T) /\ b \in Seq(T) /\ c \in Seq(T) /\ Len(a) = 2
    BY <1>3, <1>4, <1>5
  <2>2. InPathParts(p, a, b, c)
    BY ONLY <1>7, <2>1, PathParts
  <2>3. QED
    BY <1>4, <2>2 DEF InPathParts
<1>9. PathOf(node, os, row, quoted) = p /\ DOMAIN p = 1..Len(p)
  BY <1>2, <1>7, <1>8
<1>10. p[1] = NodeElement(node) /\ p[2] = PlainElement(os)
  BY <1>3, <1>8
<1>11. \A i \in 1..n : p[i + 2] = RowElement(row, quoted, i)
  BY <1>1, <1>4, <1>8
<1>12. os = "sros" => p[n + 3] = PlainElement("hardware-data")
  BY <1>1, <1>5, <1>8
<1>13. Len(p) = IF os = "sros" THEN n + 3 ELSE n + 2
  BY <1>1, <1>5, <1>8
<1>14. QED
  BY <1>1, <1>9, <1>10, <1>11, <1>12, <1>13 DEF n

Says(element, word) == word \in element.text.words \cup element.key.value.words

LEMMA ClassesAre ==
  /\ DOMAIN Comp!Classes = 1..8
  /\ Comp!Classes[1] = <<{"fan"}, "Fan", "FanTray">>
  /\ Comp!Classes[2] = <<{"power-module"}, "PowerModule", "PowerModule">>
  /\ Comp!Classes[3] = <<{"power-shelf"}, "PowerShelf", "PowerShelf">>
  /\ Comp!Classes[4] = <<{"power-supply"}, "PowerSupply", "PowerSupply">>
  /\ Comp!Classes[5] = <<{"linecard", "card"}, "Linecard", "LineCard">>
  /\ Comp!Classes[6] = <<{"control", "cpm"}, "Control", "Control">>
  /\ Comp!Classes[7] = <<{"fabric", "sfm"}, "Fabric", "Fabric">>
  /\ Comp!Classes[8] = <<{"chassis"}, "Chassis", "Chassis">>
BY DEF Comp!Classes

ClassWords ==
  {"fan", "power-module", "power-shelf", "power-supply", "linecard", "card", "control", "cpm",
   "fabric", "sfm", "chassis"}

LEMMA SearchedAre == Comp!Searched = {"srl", "sros"} \cup ClassWords
<1>1. \A i \in 1..8 : Comp!Classes[i][1] \subseteq ClassWords
  BY ClassesAre DEF ClassWords
<1>2. \A word \in ClassWords : \E i \in 1..8 : word \in Comp!Classes[i][1]
  BY ClassesAre DEF ClassWords
<1>3. QED
  BY <1>1, <1>2, ClassesAre DEF Comp!Searched

LEMMA RowSays ==
  ASSUME NEW os \in {"srl", "sros"}, NEW row \in Rows(os), NEW quoted \in BOOLEAN,
         NEW i \in 1..Len(row.list), NEW word \in Comp!Searched
  PROVE  Says(RowElement(row, quoted, i), word) <=> word \in ListText(row.list[i]).words
<1>1. word # ""
  BY SearchedAre DEF ClassWords
<1>2. RowElement(row, quoted, i).text = ListText(row.list[i])
  BY DEF RowElement, Comp!Element
<1>3. word \notin RowElement(row, quoted, i).key.value.words
  <2>1. CASE row.list[i] = "chassis"
    BY <1>1, <2>1 DEF RowElement, Comp!Element, Comp!NoKey, Comp!Plain
  <2>2. CASE row.list[i] # "chassis"
    <3>1. word # row.slots[i]
      BY <2>2, RowIs, ListsAre, SlotAssumption
    <3>2. QED
      BY <2>2, <3>1 DEF RowElement, Comp!Element, KeyOf, Comp!Plain
  <2>3. QED
    BY <2>1, <2>2
<1>4. QED
  BY <1>2, <1>3 DEF Says

LEMMA PlainSays ==
  ASSUME NEW name, NEW word \in Comp!Searched
  PROVE  Says(PlainElement(name), word) <=> word = name
<1>1. word # ""
  BY SearchedAre DEF ClassWords
<1>2. QED
  BY <1>1 DEF Says, PlainElement, Comp!Element, Comp!NoKey, Comp!Plain

ListSays(list, word) == \E i \in 1..Len(list) : word \in ListText(list[i]).words

LEMMA PathSays ==
  ASSUME NEW os \in {"srl", "sros"}, NEW row \in Rows(os), NEW node, node.words = {},
         NEW quoted \in BOOLEAN, NEW word \in Comp!Searched
  PROVE  Comp!Has(PathOf(node, os, row, quoted), word) <=> word = os \/ ListSays(row.list, word)
<1> DEFINE n == Len(row.list)
<1>1. PICK p : p = PathOf(node, os, row, quoted)
  OBVIOUS
<1>2. /\ n \in 1..3
      /\ DOMAIN p = 1..Len(p)
      /\ Len(p) = IF os = "sros" THEN n + 3 ELSE n + 2
      /\ p[1] = NodeElement(node)
      /\ p[2] = PlainElement(os)
      /\ \A i \in 1..n : p[i + 2] = RowElement(row, quoted, i)
      /\ os = "sros" => p[n + 3] = PlainElement("hardware-data")
  BY <1>1, PathIs
<1>3. Comp!Has(p, word) <=> \E i \in DOMAIN p : Says(p[i], word)
  BY DEF Comp!Has, Says
<1>4. ~Says(p[1], word)
  <2>1. word # "node"
    BY SearchedAre DEF ClassWords
  <2>2. QED
    BY <1>2, <2>1 DEF Says, NodeElement, Comp!Element, KeyOf, Comp!Plain
<1>5. Says(p[2], word) <=> word = os
  BY <1>2, PlainSays
<1>6. os = "sros" => ~Says(p[n + 3], word)
  <2>1. word # "hardware-data"
    BY SearchedAre DEF ClassWords
  <2>2. QED
    BY <1>2, <2>1, PlainSays
<1>7. \A i \in 1..n : Says(p[i + 2], word) <=> word \in ListText(row.list[i]).words
  BY <1>2, RowSays
<1>8. 2 \in DOMAIN p /\ \A i \in 1..n : i + 2 \in DOMAIN p
  BY <1>2
<1>9. \A i \in DOMAIN p : i = 1 \/ i = 2 \/ i - 2 \in 1..n \/ (os = "sros" /\ i = n + 3)
  BY <1>2
<1>10. \A i \in DOMAIN p : i - 2 + 2 = i
  BY <1>2
<1> HIDE DEF n
<1>11. (\E i \in DOMAIN p : Says(p[i], word))
        <=> word = os \/ \E i \in 1..n : word \in ListText(row.list[i]).words
  <2>1. ASSUME NEW i \in DOMAIN p, Says(p[i], word)
        PROVE  word = os \/ \E k \in 1..n : word \in ListText(row.list[k]).words
    <3>1. CASE i - 2 \in 1..n
      BY <2>1, <3>1, <1>7, <1>10
    <3>2. QED
      BY <2>1, <3>1, <1>4, <1>5, <1>6, <1>9
  <2>2. ASSUME word = os
        PROVE  \E i \in DOMAIN p : Says(p[i], word)
    BY <2>2, <1>5, <1>8
  <2>3. ASSUME NEW i \in 1..n, word \in ListText(row.list[i]).words
        PROVE  \E k \in DOMAIN p : Says(p[k], word)
    BY <2>3, <1>7, <1>8
  <2>4. QED
    BY <2>1, <2>2, <2>3
<1>12. QED
  BY <1>1, <1>3, <1>11 DEF n, ListSays

KindClass(kind) ==
  IF kind \in {"fan", "fan-tray"} THEN 1
  ELSE IF kind = "power-module" THEN 2
  ELSE IF kind = "power-shelf" THEN 3
  ELSE IF kind = "power-supply" THEN 4
  ELSE IF kind \in {"linecard", "card"} THEN 5
  ELSE IF kind \in {"control", "cpm"} THEN 6
  ELSE IF kind \in {"fabric", "sfm"} THEN 7
  ELSE 8

KindOf(row) == row.list[Len(row.list)]

FitsList(list, i) == \E word \in Comp!Classes[i][1] : ListSays(list, word)
FitsPath(path, i) == \E word \in Comp!Classes[i][1] : Comp!Has(path, word)

LEMMA FitsAlike ==
  ASSUME NEW os \in {"srl", "sros"}, NEW row \in Rows(os), NEW node, node.words = {},
         NEW quoted \in BOOLEAN, NEW i \in 1..8
  PROVE  FitsPath(PathOf(node, os, row, quoted), i) <=> FitsList(row.list, i)
<1>1. \A word \in Comp!Classes[i][1] : word \in Comp!Searched /\ word # os
  <2>1. \A word \in Comp!Classes[i][1] : word \in ClassWords
    BY ClassesAre DEF ClassWords
  <2>2. os \notin ClassWords
    BY DEF ClassWords
  <2>3. QED
    BY <2>1, <2>2, SearchedAre
<1>2. QED
  BY <1>1, PathSays DEF FitsPath, FitsList

LEMMA WordsOfKind ==
  ASSUME NEW kind \in Short \cup Below \cup {"power-module"}, NEW i \in 1..8
  PROVE  (\E word \in Comp!Classes[i][1] : word \in ListText(kind).words) <=> i = KindClass(kind)
<1>1. ListText(kind).words = IF kind = "fan-tray" THEN {"fan"}
                             ELSE IF kind = "linecard" THEN {"linecard", "card"} ELSE {kind}
  BY DEF ListText
<1>2. i = 1 \/ i = 2 \/ i = 3 \/ i = 4 \/ i = 5 \/ i = 6 \/ i = 7 \/ i = 8
  OBVIOUS
<1>3. QED
  BY <1>1, <1>2, ClassesAre DEF KindClass, Short, Below

LEMMA KindsInList ==
  ASSUME NEW os \in {"srl", "sros"}, NEW list \in Lists(os), NEW k \in 1..Len(list)
  PROVE  list[k] \in Short \cup Below \cup {"power-module"}
<1>1. ASSUME NEW a \in Short, list = <<a>>
      PROVE  Len(list) = 1 /\ list[1] \in Short
  BY <1>1
<1>2. ASSUME NEW b \in Below, list = <<"chassis", b>>
      PROVE  Len(list) = 2 /\ list[1] \in Short /\ list[2] \in Below
  BY <1>2 DEF Short
<1>3. ASSUME list = <<"chassis", "power-shelf", "power-module">>
      PROVE  Len(list) = 3 /\ list[1] \in Short /\ list[2] \in Below /\ list[3] = "power-module"
  BY <1>3 DEF Short, Below
<1>4. QED
  BY <1>1, <1>2, <1>3, ListForms

LEMMA ListFits ==
  ASSUME NEW os \in {"srl", "sros"}, NEW list \in Lists(os), NEW i \in 1..8
  PROVE  FitsList(list, i) <=> \E k \in 1..Len(list) : i = KindClass(list[k])
<1>1. \A k \in 1..Len(list) :
         (\E word \in Comp!Classes[i][1] : word \in ListText(list[k]).words) <=> i = KindClass(list[k])
  BY KindsInList, WordsOfKind
<1>2. QED
  BY <1>1 DEF FitsList, ListSays

LEMMA ClassOfRow ==
  ASSUME NEW os \in {"srl", "sros"}, NEW row \in Rows(os), NEW node, node.words = {},
         NEW quoted \in BOOLEAN
  PROVE  Comp!ClassOf(PathOf(node, os, row, quoted)) = KindClass(KindOf(row))
<1>1. PICK p : p = PathOf(node, os, row, quoted)
  OBVIOUS
<1>2. PICK c : c = KindClass(KindOf(row))
  OBVIOUS
<1>3. row.list \in Lists(os)
  BY RowIs
<1>4. \A i \in 1..8 : FitsPath(p, i) <=> \E k \in 1..Len(row.list) : i = KindClass(row.list[k])
  <2> SUFFICES ASSUME NEW i \in 1..8
               PROVE  FitsPath(p, i) <=> \E k \in 1..Len(row.list) : i = KindClass(row.list[k])
    OBVIOUS
  <2>1. FitsPath(p, i) <=> FitsList(row.list, i)
    BY <1>1, FitsAlike
  <2>2. FitsList(row.list, i) <=> \E k \in 1..Len(row.list) : i = KindClass(row.list[k])
    BY <1>3, ListFits
  <2>3. QED
    BY <2>1, <2>2
<1>5. /\ c \in 1..8
      /\ \E k \in 1..Len(row.list) : c = KindClass(row.list[k])
      /\ \A k \in 1..Len(row.list) : c <= KindClass(row.list[k])
  <2>1. ASSUME NEW a \in Short, row.list = <<a>>
        PROVE  /\ Len(row.list) = 1
               /\ c = KindClass(row.list[1])
    BY <2>1, <1>2 DEF KindOf
  <2>2. ASSUME NEW b \in Below, row.list = <<"chassis", b>>
        PROVE  /\ Len(row.list) = 2
               /\ KindClass(row.list[1]) = 8 /\ c = KindClass(row.list[2]) /\ c <= 8
    BY <2>2, <1>2 DEF KindOf, KindClass, Below
  <2>3. ASSUME row.list = <<"chassis", "power-shelf", "power-module">>
        PROVE  /\ Len(row.list) = 3
               /\ KindClass(row.list[1]) = 8 /\ KindClass(row.list[2]) = 3
               /\ c = KindClass(row.list[3]) /\ c <= 3
    BY <2>3, <1>2 DEF KindOf, KindClass
  <2>4. c \in 1..8
    BY <1>2 DEF KindClass
  <2>5. QED
    BY <1>3, <2>1, <2>2, <2>3, <2>4, ListForms
<1>6. /\ c \in 1..8 /\ FitsPath(p, c)
      /\ \A j \in 1..8 : FitsPath(p, j) => c <= j
  BY <1>4, <1>5
<1>7. Comp!ClassOf(p) = IF \E i \in 1..8 : FitsPath(p, i)
                        THEN CHOOSE i \in 1..8 : FitsPath(p, i) /\ \A j \in 1..(i - 1) : ~FitsPath(p, j)
                        ELSE 0
  BY ClassesAre DEF Comp!ClassOf, FitsPath
<1>8. \A i \in 1..8 : (FitsPath(p, i) /\ \A j \in 1..(i - 1) : ~FitsPath(p, j)) <=> i = c
  <2>1. \A j \in 1..(c - 1) : j \in 1..8 /\ ~(c <= j)
    BY <1>6
  <2>2. \A j \in 1..(c - 1) : ~FitsPath(p, j)
    BY <1>6, <2>1
  <2>3. ASSUME NEW i \in 1..8, FitsPath(p, i), i # c
        PROVE  c \in 1..(i - 1)
    BY <1>6, <2>3
  <2>4. QED
    BY <1>6, <2>2, <2>3
<1>9. (CHOOSE i \in 1..8 : FitsPath(p, i) /\ \A j \in 1..(i - 1) : ~FitsPath(p, j)) = c
  BY <1>6, <1>8
<1>10. QED
  BY <1>1, <1>2, <1>6, <1>7, <1>9

LEMMA PathOfSystem ==
  ASSUME NEW os \in {"srl", "sros"}, NEW row \in Rows(os), NEW node, node.words = {},
         NEW quoted \in BOOLEAN
  PROVE  LET p == PathOf(node, os, row, quoted)
         IN  /\ Comp!Has(p, "srl") <=> os = "srl"
             /\ Comp!Has(p, "sros") <=> os = "sros"
<1>1. "srl" \in Comp!Searched /\ "sros" \in Comp!Searched
  BY SearchedAre
<1>2. "srl" \notin ClassWords /\ "sros" \notin ClassWords
  BY DEF ClassWords
<1>3. ASSUME NEW word, ListSays(row.list, word)
      PROVE  word \in ClassWords
  <2>1. \A kind \in Short \cup Below \cup {"power-module"} : ListText(kind).words \subseteq ClassWords
    BY DEF ListText, Short, Below, ClassWords
  <2>2. \A i \in 1..Len(row.list) : row.list[i] \in Short \cup Below \cup {"power-module"}
    BY RowIs, KindsInList
  <2>3. QED
    BY <1>3, <2>1, <2>2 DEF ListSays
<1>4. QED
  BY <1>1, <1>2, <1>3, PathSays

LEMMA CrTypeOfRow ==
  ASSUME NEW os \in {"srl", "sros"}, NEW row \in Rows(os), NEW node, node.words = {},
         NEW quoted \in BOOLEAN
  PROVE  LET p == PathOf(node, os, row, quoted)
         IN  /\ Comp!GetCrType(p) = Comp!Classes[KindClass(KindOf(row))][3]
             /\ Comp!GetCrType(p) # Comp!NoValue
<1>1. PICK c : c = KindClass(KindOf(row)) /\ c \in 1..8
  BY DEF KindClass
<1>2. Comp!Classes[c][3] # "none"
  <2>1. c = 1 \/ c = 2 \/ c = 3 \/ c = 4 \/ c = 5 \/ c = 6 \/ c = 7 \/ c = 8
    BY <1>1
  <2>2. QED
    BY <2>1, ClassesAre
<1>3. Comp!ClassOf(PathOf(node, os, row, quoted)) = c
  BY <1>1, ClassOfRow
<1>4. QED
  BY <1>1, <1>2, <1>3 DEF Comp!GetCrType, Comp!NoValue

-----------------------------------------------------------------------------
\* What the constructor makes of a row.

OwnFacts(p, value, db, micropython) ==
  IF Comp!Has(p, "srl") THEN Comp!SrlComponent(p, value, db)
  ELSE Comp!SrosComponent(p, value, db, micropython)

Record(p, value, own) ==
  [node   |-> Comp!NodeOf(p),
   name   |-> <<Comp!NodeOf(p)>> \o Comp!NormalizeName(p, own.slot),
   crType |-> Comp!GetCrType(p),
   oper   |-> Comp!NormalizeOperState(value.oper),
   facts  |-> own]

LEMMA MadeOf ==
  ASSUME NEW p, NEW value, NEW db, NEW micropython
  PROVE  Comp!Component(p, value, db, micropython) =
           IF Comp!Fails(p, value, db) THEN Comp!Raised
           ELSE Record(p, value, OwnFacts(p, value, db, micropython))
BY DEF Comp!Component, OwnFacts, Record

LEMMA RecordIsMade ==
  ASSUME NEW p, NEW value, NEW own
  PROVE  Record(p, value, own) # Comp!Raised
<1>1. DOMAIN Record(p, value, own) = {"node", "name", "crType", "oper", "facts"}
  BY DEF Record
<1>2. DOMAIN Comp!Raised = {"raised"}
  BY DEF Comp!Raised
<1>3. QED
  BY <1>1, <1>2

\* Two outcomes of the constructor that differ in their facts alone.
LEMMA RestIsKept ==
  ASSUME NEW p, NEW value, NEW a, NEW b, a.slot = b.slot
  PROVE  /\ [Record(p, value, a) EXCEPT !.facts = << >>] = [Record(p, value, b) EXCEPT !.facts = << >>]
         /\ Record(p, value, a).facts = a
         /\ Record(p, value, a).crType = Comp!GetCrType(p)
<1>1. PICK name : name = <<Comp!NodeOf(p)>> \o Comp!NormalizeName(p, a.slot)
  OBVIOUS
<1>2. \A own : own.slot = a.slot =>
        Record(p, value, own) = [node |-> Comp!NodeOf(p), name |-> name, crType |-> Comp!GetCrType(p),
                                 oper |-> Comp!NormalizeOperState(value.oper), facts |-> own]
  BY <1>1 DEF Record
<1>3. QED
  BY <1>2

LEMMA SrosType ==
  ASSUME NEW p, NEW db, NEW other, db.equipped = other.equipped, db.platform = other.platform
  PROVE  Comp!SrosFacts(p, db).type = Comp!SrosFacts(p, other).type
<1>1. PICK t : t = Comp!GetCrType(p)
  OBVIOUS
<1>2. CASE t \in {"Control", "PowerSupply"}
  BY <1>1, <1>2 DEF Comp!SrosFacts
<1>3. CASE t = "LineCard"
  BY <1>1, <1>3 DEF Comp!SrosFacts
<1>4. CASE t = "Chassis"
  BY <1>1, <1>4 DEF Comp!SrosFacts
<1>5. CASE t \notin {"Control", "PowerSupply", "LineCard", "Chassis"}
  BY <1>1, <1>5 DEF Comp!SrosFacts
<1>6. QED
  BY <1>2, <1>3, <1>4, <1>5

LEMMA SrosState ==
  ASSUME NEW p, NEW db, ~Comp!SrosFacts(p, db).enabled
  PROVE  Comp!GetCrType(p) = "LineCard" /\ Comp!Caught(db.admin, "enable") \in {"disable", "down"}
<1>1. PICK t : t = Comp!GetCrType(p)
  OBVIOUS
<1>2. CASE t \in {"Control", "PowerSupply"}
  BY <1>1, <1>2 DEF Comp!SrosFacts
<1>3. CASE t = "LineCard"
  BY <1>1, <1>3 DEF Comp!SrosFacts, Comp!NormalizeAdminState
<1>4. CASE t = "Chassis"
  BY <1>1, <1>4 DEF Comp!SrosFacts
<1>5. CASE t \notin {"Control", "PowerSupply", "LineCard", "Chassis"}
  BY <1>1, <1>5 DEF Comp!SrosFacts
<1>6. QED
  BY <1>1, <1>2, <1>3, <1>4, <1>5

LEMMA FoundIsNoRow ==
  ASSUME NEW found \in Lookups, NEW missing \in SUBSET Facts
  PROVE  LET db == Without(found, missing)
         IN  /\ found.boot # Comp!NoRow /\ found.admin # Comp!NoRow
             /\ db.boot = IF "boot" \in missing THEN Comp!NoRow ELSE found.boot
             /\ db.admin = IF "admin" \in missing THEN Comp!NoRow ELSE found.admin
             /\ "equipped" \notin missing => db.equipped = found.equipped
             /\ "platform" \notin missing => db.platform = found.platform
<1>1. found.boot \in Times \cup {""} /\ found.admin \in Admins
  BY DEF Lookups
<1>2. Comp!NoRow \notin Times /\ Comp!NoRow \notin Admins /\ Comp!NoRow # ""
  BY FactAssumption DEF Comp!NoRow
<1>3. QED
  BY <1>1, <1>2 DEF Without, Missed

\* The conclusion of LookupsCostOneFact, of one call.
CostsOneFact(os, value, found, missing, made, best) ==
  LET Lost(fact)     == made.facts[fact] # best.facts[fact]
      Missing(field) == field \in missing
      Off(state)     == state \in {"disable", "down"}
  IN  IF made = Comp!Raised
      THEN os = "sros" /\ value.boot = "" /\ Missing("boot")
      ELSE /\ [made EXCEPT !.facts = << >>] = [best EXCEPT !.facts = << >>]
           /\ \A fact \in {"slot", "made"} : ~Lost(fact)
           /\ Lost("lastChange") => os = "srl" /\ Missing("boot") /\ value.change = ""
           /\ Lost("type") => os = "sros" /\ (Missing("equipped") \/ Missing("platform"))
           /\ ~made.facts.enabled =>
                IF os = "srl" THEN Off(value.admin)
                ELSE ~Missing("admin") /\ Off(found.admin) /\ made.crType = "LineCard"

LEMMA SrlLookups ==
  ASSUME NEW p, Comp!Has(p, "srl"), NEW value, NEW found \in Lookups, NEW missing \in SUBSET Facts
  PROVE  CostsOneFact("srl", value, found, missing,
                      Comp!Component(p, value, Without(found, missing), FALSE),
                      Comp!Component(p, value, found, FALSE))
<1>1. PICK a : a = Comp!SrlComponent(p, value, Without(found, missing))
  OBVIOUS
<1>2. PICK b : b = Comp!SrlComponent(p, value, found)
  OBVIOUS
<1>3. PICK made : made = Comp!Component(p, value, Without(found, missing), FALSE)
  OBVIOUS
<1>4. PICK best : best = Comp!Component(p, value, found, FALSE)
  OBVIOUS
<1>5. \A db : ~Comp!Fails(p, value, db)
  BY DEF Comp!Fails
<1>6. made = Record(p, value, a) /\ best = Record(p, value, b)
  BY <1>1, <1>2, <1>3, <1>4, <1>5, MadeOf DEF OwnFacts
<1>7. /\ a.slot = b.slot /\ a.type = b.type /\ a.made = b.made
      /\ ~a.enabled => value.admin \in {"disable", "down"}
  BY <1>1, <1>2 DEF Comp!SrlComponent, Comp!NormalizeAdminState
<1>8. a.lastChange # b.lastChange => "boot" \in missing /\ value.change = ""
  BY <1>1, <1>2, FoundIsNoRow DEF Comp!SrlComponent
<1>9. /\ made # Comp!Raised
      /\ [made EXCEPT !.facts = << >>] = [best EXCEPT !.facts = << >>]
      /\ made.facts = a /\ best.facts = b
  BY <1>6, <1>7, RecordIsMade, RestIsKept
<1>10. CostsOneFact("srl", value, found, missing, made, best)
  BY <1>7, <1>8, <1>9 DEF CostsOneFact
<1>11. QED
  BY <1>3, <1>4, <1>10

LEMMA SrosLookups ==
  ASSUME NEW p, ~Comp!Has(p, "srl"), Comp!Has(p, "sros"), Comp!GetCrType(p) # Comp!NoValue,
         NEW value, NEW found \in Lookups, NEW missing \in SUBSET Facts
  PROVE  CostsOneFact("sros", value, found, missing,
                      Comp!Component(p, value, Without(found, missing), FALSE),
                      Comp!Component(p, value, found, FALSE))
<1>0. PICK db : db = Without(found, missing)
  OBVIOUS
<1>1. PICK a : a = Comp!SrosComponent(p, value, db, FALSE)
  OBVIOUS
<1>2. PICK b : b = Comp!SrosComponent(p, value, found, FALSE)
  OBVIOUS
<1>3. PICK made : made = Comp!Component(p, value, db, FALSE)
  OBVIOUS
<1>4. PICK best : best = Comp!Component(p, value, found, FALSE)
  OBVIOUS
<1>5. /\ Comp!Fails(p, value, db) <=> value.boot = "" /\ "boot" \in missing
      /\ ~Comp!Fails(p, value, found)
  BY <1>0, FoundIsNoRow DEF Comp!Fails
<1>6. best = Record(p, value, b)
  BY <1>2, <1>4, <1>5, MadeOf DEF OwnFacts
<1>7. CASE Comp!Fails(p, value, db)
  <2>1. made = Comp!Raised
    BY <1>3, <1>7, MadeOf
  <2>2. value.boot = "" /\ "boot" \in missing
    BY <1>5, <1>7
  <2>3. QED
    BY <1>0, <1>3, <1>4, <2>1, <2>2 DEF CostsOneFact
<1>8. CASE ~Comp!Fails(p, value, db)
  <2>1. made = Record(p, value, a)
    BY <1>1, <1>3, <1>8, MadeOf DEF OwnFacts
  <2>2. a.slot = b.slot /\ a.made = b.made
    BY <1>1, <1>2 DEF Comp!SrosComponent
  <2>3. a.lastChange = b.lastChange
    <3>1. value.boot = "" => "boot" \notin missing
      BY <1>5, <1>8
    <3>2. value.boot = "" => db.boot = found.boot
      BY <1>0, <3>1, FoundIsNoRow
    <3>3. QED
      BY <1>1, <1>2, <3>2 DEF Comp!SrosComponent
  <2>4. a.type # b.type => "equipped" \in missing \/ "platform" \in missing
    <3>1. a.type = Comp!SrosFacts(p, db).type /\ b.type = Comp!SrosFacts(p, found).type
      BY <1>1, <1>2 DEF Comp!SrosComponent
    <3>2. "equipped" \notin missing /\ "platform" \notin missing =>
            db.equipped = found.equipped /\ db.platform = found.platform
      BY <1>0, FoundIsNoRow
    <3>3. QED
      BY <3>1, <3>2, SrosType
  <2>5. ~a.enabled => "admin" \notin missing /\ found.admin \in {"disable", "down"}
                        /\ Comp!GetCrType(p) = "LineCard"
    <3>1. a.enabled = Comp!SrosFacts(p, db).enabled
      BY <1>1 DEF Comp!SrosComponent
    <3>2. Comp!Caught(db.admin, "enable") = IF "admin" \in missing THEN "enable" ELSE found.admin
      BY <1>0, FoundIsNoRow DEF Comp!Caught
    <3>3. QED
      BY <3>1, <3>2, SrosState
  <2>6. /\ made # Comp!Raised
        /\ [made EXCEPT !.facts = << >>] = [best EXCEPT !.facts = << >>]
        /\ made.facts = a /\ best.facts = b /\ made.crType = Comp!GetCrType(p)
    BY <1>6, <2>1, <2>2, RecordIsMade, RestIsKept
  <2>7. CostsOneFact("sros", value, found, missing, made, best)
    BY <2>2, <2>3, <2>4, <2>5, <2>6 DEF CostsOneFact
  <2>8. QED
    BY <1>0, <1>3, <1>4, <2>7
<1>9. QED
  BY <1>7, <1>8

(* Whatever the nodes, slots, types and times, a side lookup that finds    *)
(* nothing costs a component at most the fact it was for, and never makes  *)
(* it look switched off.  The constructor of common/component.py.          *)
THEOREM LookupCosts == Spec => []LookupsCostOneFact
<1>0. call.kind # "lookups" => LookupsCostOneFact
  BY DEF LookupsCostOneFact
<1>1. Init => LookupsCostOneFact
  BY <1>0 DEF Init, Idle
<1>2. LookupsCostOneFact /\ [Next]_vars => LookupsCostOneFact'
  <2> SUFFICES ASSUME LookupsCostOneFact, [Next]_vars
               PROVE  LookupsCostOneFact'
    OBVIOUS
  <2>0. call'.kind # "lookups" => LookupsCostOneFact'
    BY DEF LookupsCostOneFact
  <2>4. CASE LookUpComponent
    <3> DEFINE Called(os, value, found, missing, name, r) ==
                 LET Made(db) == Comp!Component(PathOf([name |-> name, words |-> {}], os, r, TRUE),
                                                value, db, FALSE)
                 IN  /\ call' = [kind |-> "lookups", os |-> os, value |-> value, found |-> found,
                                 missing |-> missing, r |-> r]
                     /\ result' = [made |-> Made(Without(found, missing)), best |-> Made(found)]
    <3>0. PICK os \in {"srl", "sros"}, value \in RowValues, found \in Lookups, missing \in SUBSET Facts,
               name \in Node : \E r \in Rows(os) : Called(os, value, found, missing, name, r)
      BY <2>4 DEF LookUpComponent, PathOf
    <3>1. PICK r \in Rows(os) : Called(os, value, found, missing, name, r)
      BY <3>0
    <3>2. PICK p : p = PathOf([name |-> name, words |-> {}], os, r, TRUE)
      OBVIOUS
    <3>3. /\ Comp!Has(p, "srl") <=> os = "srl"
          /\ Comp!Has(p, "sros") <=> os = "sros"
          /\ Comp!GetCrType(p) # Comp!NoValue
      BY <3>2, PathOfSystem, CrTypeOfRow
    <3>4. CostsOneFact(os, value, found, missing,
                       Comp!Component(p, value, Without(found, missing), FALSE),
                       Comp!Component(p, value, found, FALSE))
      BY <3>3, SrlLookups, SrosLookups
    <3>5. /\ call'.kind = "lookups" /\ call'.os = os /\ call'.value = value /\ call'.found = found
          /\ call'.missing = missing
          /\ result'.made = Comp!Component(p, value, Without(found, missing), FALSE)
          /\ result'.best = Comp!Component(p, value, found, FALSE)
      BY <3>1, <3>2
    <3>6. CostsOneFact(call'.os, call'.value, call'.found, call'.missing, result'.made, result'.best)
      BY <3>4, <3>5
    <3>7. QED
      BY <3>6 DEF LookupsCostOneFact, CostsOneFact
  <2>5. CASE UNCHANGED vars
    BY <2>5 DEF vars, LookupsCostOneFact
  <2>6. QED
    BY <2>0, <2>4, <2>5, OneKindOfCall
<1>3. QED
  BY <1>1, <1>2, PTL DEF Spec

-----------------------------------------------------------------------------
\* Which names components get.

ListOf(os, c) ==
  IF os = "srl"
  THEN IF c = 1 THEN <<"fan-tray">> ELSE IF c = 4 THEN <<"power-supply">>
       ELSE IF c = 5 THEN <<"linecard">> ELSE IF c = 6 THEN <<"control">>
       ELSE IF c = 7 THEN <<"fabric">> ELSE <<"chassis">>
  ELSE IF c = 1 THEN <<"chassis", "fan">>
       ELSE IF c = 2 THEN <<"chassis", "power-shelf", "power-module">>
       ELSE IF c = 3 THEN <<"chassis", "power-shelf">>
       ELSE IF c = 4 THEN <<"chassis", "power-supply">>
       ELSE IF c = 5 THEN <<"card">> ELSE IF c = 6 THEN <<"cpm">>
       ELSE IF c = 7 THEN <<"sfm">> ELSE <<"chassis">>

LEMMA ListByClass ==
  ASSUME NEW os \in {"srl", "sros"}, NEW list \in Lists(os)
  PROVE  list = ListOf(os, KindClass(list[Len(list)]))
<1>1. \A a \in Short : Len(<<a>>) = 1 /\ <<a>>[1] = a
  OBVIOUS
<1>2. \A b \in Below : Len(<<"chassis", b>>) = 2 /\ <<"chassis", b>>[2] = b
  OBVIOUS
<1>3. Len(<<"chassis", "power-shelf", "power-module">>) = 3
      /\ <<"chassis", "power-shelf", "power-module">>[3] = "power-module"
  OBVIOUS
<1>4. CASE os = "srl"
  <2>1. PICK a \in {"fan-tray", "power-supply", "linecard", "control", "fabric", "chassis"} : list = <<a>>
    BY <1>4 DEF Lists, Comp!SrlLists
  <2>2. list[Len(list)] = a
    BY <2>1, <1>1 DEF Short
  <2>3. QED
    BY <1>4, <2>1, <2>2 DEF ListOf, KindClass
<1>5. CASE os = "sros"
  <2>1. CASE list = <<"chassis", "power-shelf", "power-module">>
    BY <1>3, <1>5, <2>1 DEF ListOf, KindClass
  <2>2. ASSUME NEW a \in {"card", "cpm", "sfm", "chassis"}, list = <<a>>
        PROVE  list = ListOf(os, KindClass(list[Len(list)]))
    BY <1>1, <1>5, <2>2 DEF ListOf, KindClass, Short
  <2>3. ASSUME NEW b \in Below, list = <<"chassis", b>>
        PROVE  list = ListOf(os, KindClass(list[Len(list)]))
    BY <1>2, <1>5, <2>3 DEF ListOf, KindClass, Below
  <2>4. QED
    BY <1>5, <2>1, <2>2, <2>3 DEF Lists, Comp!SrosLists, Below
<1>6. QED
  BY <1>4, <1>5

LEMMA RowByClass ==
  ASSUME NEW os \in {"srl", "sros"}, NEW r \in Rows(os), NEW s \in Rows(os),
         KindClass(KindOf(r)) = KindClass(KindOf(s))
  PROVE  /\ r.list = s.list /\ KindOf(r) = KindOf(s)
         /\ KindOf(r) # "power-module" /\ r.slots[Len(r.list)] = s.slots[Len(s.list)] => r = s
<1>1. r.list \in Lists(os) /\ s.list \in Lists(os)
  BY RowIs
<1>2. r.list = s.list /\ KindOf(r) = KindOf(s)
  BY <1>1, ListByClass DEF KindOf
<1>3. PICK l : l = r.list /\ l = s.list
  BY <1>2
<1>4. /\ r = [list |-> l, slots |-> r.slots] /\ s = [list |-> l, slots |-> s.slots]
      /\ r.slots = [i \in DOMAIN l |-> r.slots[i]] /\ s.slots = [i \in DOMAIN l |-> s.slots[i]]
      /\ \A i \in DOMAIN l : l[i] = "chassis" => r.slots[i] = "" /\ s.slots[i] = ""
  <2>1. ASSUME NEW row \in Rows(os), row.list = l
        PROVE  /\ row = [list |-> l, slots |-> row.slots]
               /\ row.slots = [i \in DOMAIN l |-> row.slots[i]]
               /\ \A i \in DOMAIN l : l[i] = "chassis" => row.slots[i] = ""
    <3>1. row = [list |-> row.list, slots |-> row.slots]
          /\ row.slots = [i \in DOMAIN row.list |-> row.slots[i]]
      BY RowIs
    <3>2. \A i \in DOMAIN row.list : row.list[i] = "chassis" => row.slots[i] = ""
      BY RowIs
    <3>3. QED
      BY <2>1, <3>1, <3>2
  <2>2. QED
    BY <1>3, <2>1
<1>5. ASSUME KindOf(r) # "power-module", r.slots[Len(l)] = s.slots[Len(l)]
      PROVE  r = s
  <2>1. \A i \in DOMAIN l : i = Len(l) \/ l[i] = "chassis"
    <3>1. ASSUME NEW a \in Short, l = <<a>>
          PROVE  Len(l) = 1 /\ DOMAIN l = 1..1
      BY <3>1
    <3>2. ASSUME NEW b \in Below, l = <<"chassis", b>>
          PROVE  Len(l) = 2 /\ DOMAIN l = 1..2 /\ l[1] = "chassis"
      BY <3>2
    <3>3. l # <<"chassis", "power-shelf", "power-module">>
      <4>1. l[Len(l)] # "power-module"
        BY <1>3, <1>5 DEF KindOf
      <4>2. LET m == <<"chassis", "power-shelf", "power-module">> IN m[Len(m)] = "power-module"
        OBVIOUS
      <4>3. QED
        BY <4>1, <4>2
    <3>4. (\E a \in Short : l = <<a>>) \/ (\E b \in Below : l = <<"chassis", b>>)
      BY <1>1, <1>3, <3>3, ListForms
    <3>5. QED
      <4>1. CASE \E a \in Short : l = <<a>>
        BY <3>1, <4>1
      <4>2. CASE \E b \in Below : l = <<"chassis", b>>
        <5>1. Len(l) = 2 /\ DOMAIN l = 1..2 /\ l[1] = "chassis"
          BY <3>2, <4>2
        <5>2. QED
          BY <5>1
      <4>3. QED
        BY <3>4, <4>1, <4>2
  <2>2. \A i \in DOMAIN l : r.slots[i] = s.slots[i]
    BY <1>4, <1>5, <2>1
  <2>3. r.slots = s.slots
    BY <1>4, <2>2
  <2>4. QED
    BY <1>4, <2>3
<1>6. QED
  BY <1>2, <1>3, <1>5

LEMMA LastElement ==
  ASSUME NEW os \in {"srl", "sros"}, NEW row \in Rows(os), NEW node, NEW quoted \in BOOLEAN,
         KindOf(row) # "chassis"
  PROVE  LET p == PathOf(node, os, row, quoted)
             n == Len(row.list)
         IN  /\ p[n + 2].key = KeyOf(Comp!Plain(row.slots[n]), quoted)
             /\ Comp!NodeValue(p, n + 2) = row.slots[n]
<1>1. PICK p : p = PathOf(node, os, row, quoted)
  OBVIOUS
<1>2. PICK n : n = Len(row.list)
  OBVIOUS
<1>3. n \in 1..n /\ n \in 1..3
  <2>1. row.list \in Lists(os)
    BY RowIs
  <2>2. n \in 1..3
    BY <1>2, <2>1, ListsAre
  <2>3. QED
    BY <2>2
<1>4. p[n + 2] = RowElement(row, quoted, n)
  BY <1>1, <1>2, <1>3, PathIs
<1>5. p[n + 2].key = KeyOf(Comp!Plain(row.slots[n]), quoted)
  BY <1>2, <1>4 DEF RowElement, KindOf, Comp!Element
<1>6. Comp!NodeValue(p, n + 2) = row.slots[n]
  BY <1>5 DEF Comp!NodeValue, KeyOf, Comp!Plain
<1>7. QED
  BY <1>1, <1>2, <1>5, <1>6

LEMMA SrlSlot ==
  ASSUME NEW row \in Rows("srl"), NEW node, NEW quoted \in BOOLEAN, KindOf(row) # "chassis",
         NEW value, NEW db
  PROVE  Comp!SrlComponent(PathOf(node, "srl", row, quoted), value, db).slot
           = row.slots[Len(row.list)]
<1>1. PICK p : p = PathOf(node, "srl", row, quoted)
  OBVIOUS
<1>2. Len(p) = Len(row.list) + 2
  BY <1>1, PathIs
<1>3. Comp!SrlComponent(p, value, db).slot = Comp!NodeValue(p, Len(row.list) + 2)
  BY <1>2 DEF Comp!SrlComponent, Comp!GetLastNode
<1>4. QED
  BY <1>1, <1>3, LastElement

LEMMA SrosSlot ==
  ASSUME NEW row \in Rows("sros"), NEW node, KindOf(row) # "chassis", NEW value, NEW db,
         NEW micropython \in BOOLEAN
  PROVE  Comp!SrosComponent(PathOf(node, "sros", row, TRUE), value, db, micropython).slot
           = row.slots[Len(row.list)]
<1>1. PICK p : p = PathOf(node, "sros", row, TRUE)
  OBVIOUS
<1>2. PICK n : n = Len(row.list)
  OBVIOUS
<1>3. /\ n \in 1..3 /\ DOMAIN p = 1..(n + 3)
      /\ p[n + 3] = PlainElement("hardware-data")
  BY <1>1, <1>2, PathIs
<1>4. p[n + 2].key = KeyOf(Comp!Plain(row.slots[n]), TRUE) /\ Comp!NodeValue(p, n + 2) = row.slots[n]
  BY <1>1, <1>2, LastElement
<1>5. p[n + 3].key = Comp!NoKey
  BY <1>3 DEF PlainElement, Comp!Element
<1>6. p[n + 2].key # Comp!NoKey /\ p[n + 2].key.quoted
  <2>1. p[n + 2].key.name = "id" /\ p[n + 2].key.quoted = TRUE
    BY <1>4 DEF KeyOf
  <2>2. Comp!NoKey.name = ""
    BY DEF Comp!NoKey
  <2>3. QED
    BY <2>1, <2>2
<1>7. PICK keys : keys = {i \in DOMAIN p : p[i].key # Comp!NoKey /\ (p[i].key.quoted \/ micropython)}
  OBVIOUS
<1>8. n + 2 \in keys /\ \A i \in keys : i \in 1..(n + 2)
  <2>1. n + 3 \notin keys
    BY <1>5, <1>7
  <2>2. n + 2 \in DOMAIN p /\ \A i \in DOMAIN p : i # n + 3 => i \in 1..(n + 2)
    BY <1>3
  <2>3. QED
    BY <1>6, <1>7, <2>1, <2>2
<1>9. \A i \in keys : (\A j \in keys : j <= i) <=> i = n + 2
  BY <1>3, <1>8
<1>10. (CHOOSE i \in keys : \A j \in keys : j <= i) = n + 2
  BY <1>8, <1>9
<1>11. Comp!NearestAncestorKeyValue(p, micropython) = Comp!NodeValue(p, n + 2)
  BY <1>6, <1>7, <1>8, <1>10 DEF Comp!NearestAncestorKeyValue
<1>12. QED
  BY <1>1, <1>2, <1>4, <1>11 DEF Comp!SrosComponent

LEMMA SameTail ==
  ASSUME NEW S, NEW a \in S, NEW b \in S, NEW t \in Seq(S), NEW u \in Seq(S),
         <<a>> \o t = <<b>> \o u
  PROVE  t = u
<1>1. <<a>> \in Seq(S) /\ Len(<<a>>) = 1 /\ <<b>> \in Seq(S) /\ Len(<<b>>) = 1
  OBVIOUS
<1>2. /\ Len(<<a>> \o t) = Len(<<a>>) + Len(t)
      /\ \A i \in 1..(Len(<<a>>) + Len(t)) :
            (<<a>> \o t)[i] = IF i <= Len(<<a>>) THEN <<a>>[i] ELSE t[i - Len(<<a>>)]
  BY <1>1, ConcatProperties
<1>3. /\ Len(<<b>> \o u) = Len(<<b>>) + Len(u)
      /\ \A i \in 1..(Len(<<b>>) + Len(u)) :
            (<<b>> \o u)[i] = IF i <= Len(<<b>>) THEN <<b>>[i] ELSE u[i - Len(<<b>>)]
  BY <1>1, ConcatProperties
<1>4. PICK w : w = <<a>> \o t /\ w = <<b>> \o u
  OBVIOUS
<1>5. /\ Len(w) = 1 + Len(t) /\ Len(w) = 1 + Len(u)
      /\ \A i \in 1..Len(t) : w[i + 1] = t[i]
      /\ \A i \in 1..Len(u) : w[i + 1] = u[i]
  <2>1. \A i \in 1..Len(t) : i + 1 \in 1..(1 + Len(t)) /\ ~(i + 1 <= 1) /\ i + 1 - 1 = i
    OBVIOUS
  <2>2. \A i \in 1..Len(u) : i + 1 \in 1..(1 + Len(u)) /\ ~(i + 1 <= 1) /\ i + 1 - 1 = i
    OBVIOUS
  <2>3. QED
    BY <1>1, <1>2, <1>3, <1>4, <2>1, <2>2
<1>6. Len(t) = Len(u)
  BY <1>5
<1>7. QED
  BY <1>5, <1>6, SeqEqual

TailOf(row) ==
  IF KindOf(row) = "chassis" THEN <<"Chassis">>
  ELSE <<Comp!Classes[KindClass(KindOf(row))][2], row.slots[Len(row.list)]>>

LEMMA KindIsClassed ==
  ASSUME NEW os \in {"srl", "sros"}, NEW row \in Rows(os)
  PROVE  /\ KindClass(KindOf(row)) \in 1..8
         /\ KindClass(KindOf(row)) = 8 <=> KindOf(row) = "chassis"
         /\ KindClass(KindOf(row)) = 2 <=> KindOf(row) = "power-module"
<1>1. KindOf(row) \in Short \cup Below \cup {"power-module"}
  <2>1. row.list \in Lists(os)
    BY RowIs
  <2>2. Len(row.list) \in 1..3
    BY <2>1, ListsAre
  <2>3. Len(row.list) \in 1..Len(row.list)
    BY <2>2
  <2>4. QED
    BY <2>1, <2>3, KindsInList DEF KindOf
<1>2. QED
  BY <1>1 DEF KindClass, Short, Below

LEMMA ClassNames ==
  ASSUME NEW c \in 1..8, NEW d \in 1..8
  PROVE  /\ Comp!Classes[c][2] = Comp!Classes[d][2] <=> c = d
         /\ Comp!Classes[c][3] = Comp!Classes[d][3] <=> c = d
<1> DEFINE Names == [i \in 1..8 |-> Comp!Classes[i][2]]
<1>1. /\ c = 1 \/ c = 2 \/ c = 3 \/ c = 4 \/ c = 5 \/ c = 6 \/ c = 7 \/ c = 8
      /\ d = 1 \/ d = 2 \/ d = 3 \/ d = 4 \/ d = 5 \/ d = 6 \/ d = 7 \/ d = 8
  OBVIOUS
<1>2. /\ Comp!Classes[1][2] = "Fan" /\ Comp!Classes[2][2] = "PowerModule"
      /\ Comp!Classes[3][2] = "PowerShelf" /\ Comp!Classes[4][2] = "PowerSupply"
      /\ Comp!Classes[5][2] = "Linecard" /\ Comp!Classes[6][2] = "Control"
      /\ Comp!Classes[7][2] = "Fabric" /\ Comp!Classes[8][2] = "Chassis"
  BY ClassesAre
<1>3. /\ Comp!Classes[1][3] = "FanTray" /\ Comp!Classes[2][3] = "PowerModule"
      /\ Comp!Classes[3][3] = "PowerShelf" /\ Comp!Classes[4][3] = "PowerSupply"
      /\ Comp!Classes[5][3] = "LineCard" /\ Comp!Classes[6][3] = "Control"
      /\ Comp!Classes[7][3] = "Fabric" /\ Comp!Classes[8][3] = "Chassis"
  BY ClassesAre
<1>4. QED
  BY <1>1, <1>2, <1>3

\* What the constructor makes of a row that says nothing, and what it is called.
Sound(node, os, quoted) == node.words = {} /\ (os = "sros" => quoted = TRUE)

IsMade(made, node, os, row, quoted, micropython) ==
  made = Comp!Component(PathOf(node, os, row, quoted), Plainly, Nothing, micropython)

WellNamed(made, row) ==
  /\ \E name : made.name = <<name>> \o TailOf(row)
  /\ made.crType = Comp!Classes[KindClass(KindOf(row))][3]

LEMMA NameOfRow ==
  ASSUME NEW os \in {"srl", "sros"}, NEW row \in Rows(os), NEW node, NEW quoted \in BOOLEAN,
         Sound(node, os, quoted), NEW micropython \in BOOLEAN,
         NEW made, IsMade(made, node, os, row, quoted, micropython)
  PROVE  WellNamed(made, row)
<1>0. node.words = {} /\ (os = "sros" => quoted = TRUE)
  BY DEF Sound
<1>1. PICK p : p = PathOf(node, os, row, quoted)
  OBVIOUS
<1>2. PICK c : c = KindClass(KindOf(row))
  OBVIOUS
<1>3. c \in 1..8 /\ (c = 8 <=> KindOf(row) = "chassis")
  BY <1>2, KindIsClassed
<1>4. Comp!ClassOf(p) = c /\ Comp!GetCrType(p) = Comp!Classes[c][3] /\ Comp!GetCrType(p) # Comp!NoValue
  BY <1>0, <1>1, <1>2, ClassOfRow, CrTypeOfRow
<1>5. Comp!GetCrType(p) = "Chassis" <=> c = 8
  BY <1>3, <1>4, ClassNames, ClassesAre
<1>6. ~Comp!Fails(p, Plainly, Nothing)
  BY <1>4 DEF Comp!Fails, Nothing, Comp!NoRow
<1>7. PICK own : own = OwnFacts(p, Plainly, Nothing, micropython)
  OBVIOUS
<1>8. Comp!Component(p, Plainly, Nothing, micropython) = Record(p, Plainly, own)
  BY <1>6, <1>7, MadeOf
<1>9. KindOf(row) # "chassis" => own.slot = row.slots[Len(row.list)]
  <2>1. CASE os = "srl"
    <3>1. own = Comp!SrlComponent(p, Plainly, Nothing)
      BY <1>0, <1>1, <1>7, <2>1, PathOfSystem DEF OwnFacts
    <3>2. QED
      BY <1>1, <2>1, <3>1, SrlSlot
  <2>2. CASE os = "sros"
    <3>1. own = Comp!SrosComponent(p, Plainly, Nothing, micropython)
      BY <1>0, <1>1, <1>7, <2>2, PathOfSystem DEF OwnFacts
    <3>2. quoted = TRUE
      BY <1>0, <2>2
    <3>3. own = Comp!SrosComponent(PathOf(node, "sros", row, TRUE), Plainly, Nothing, micropython)
      BY ONLY <1>1, <2>2, <3>1, <3>2
    <3>4. row \in Rows("sros")
      BY <2>2
    <3>5. QED
      BY <2>2, <3>3, <3>4, SrosSlot
  <2>3. os = "srl" \/ os = "sros"
    OBVIOUS
  <2>4. QED
    BY ONLY <2>1, <2>2, <2>3
<1>10. Comp!NormalizeName(p, own.slot) = TailOf(row)
  <2>1. CASE c = 8
    BY <1>3, <1>4, <1>5, <2>1 DEF Comp!NormalizeName, TailOf
  <2>2. CASE c # 8
    BY <1>2, <1>3, <1>4, <1>5, <1>9, <2>2 DEF Comp!NormalizeName, TailOf
  <2>3. QED
    BY <2>1, <2>2
<1>11. Record(p, Plainly, own).name = <<Comp!NodeOf(p)>> \o TailOf(row)
       /\ Record(p, Plainly, own).crType = Comp!Classes[c][3]
  BY <1>4, <1>10 DEF Record
<1>12. made = Record(p, Plainly, own)
  BY <1>1, <1>8 DEF IsMade
<1>13. QED
  BY <1>2, <1>11, <1>12 DEF WellNamed

LEMMA TailIsSeq ==
  ASSUME NEW row, NEW S, "Chassis" \in S, Comp!Classes[KindClass(KindOf(row))][2] \in S,
         row.slots[Len(row.list)] \in S
  PROVE  TailOf(row) \in Seq(S)
BY DEF TailOf

LEMMA TailsApart ==
  ASSUME NEW os \in {"srl", "sros"}, NEW r \in Rows(os), NEW s \in Rows(os), r # s,
         TailOf(r) = TailOf(s)
  PROVE  /\ KindOf(r) = "power-module" /\ KindOf(s) = "power-module"
         /\ r.slots[Len(r.list)] = s.slots[Len(s.list)]
<1> DEFINE c == KindClass(KindOf(r))
           d == KindClass(KindOf(s))
<1>1. /\ c \in 1..8 /\ (c = 8 <=> KindOf(r) = "chassis") /\ (c = 2 <=> KindOf(r) = "power-module")
      /\ d \in 1..8 /\ (d = 8 <=> KindOf(s) = "chassis") /\ (d = 2 <=> KindOf(s) = "power-module")
  BY KindIsClassed
<1> HIDE DEF c, d
<1>2. KindOf(r) = "chassis" <=> KindOf(s) = "chassis"
  <2>1. \A x, y : Len(<<x, y>>) = 2 /\ Len(<<x>>) = 1
    OBVIOUS
  <2>2. QED
    BY <2>1 DEF TailOf
<1>3. KindOf(r) # "chassis"
  <2>1. SUFFICES ASSUME KindOf(r) = "chassis"
                 PROVE  FALSE
    OBVIOUS
  <2>2. c = d
    BY <1>1, <1>2, <2>1
  <2>3. r.slots[Len(r.list)] = "" /\ s.slots[Len(s.list)] = ""
    <3>1. ASSUME NEW row \in Rows(os), KindOf(row) = "chassis"
          PROVE  row.slots[Len(row.list)] = ""
      <4>1. row.list \in Lists(os)
        BY RowIs
      <4>2. PICK n : n = Len(row.list)
        OBVIOUS
      <4>3. n \in 1..3 /\ DOMAIN row.list = 1..n
        BY <4>1, <4>2, ListsAre
      <4>4. n \in 1..n
        BY <4>3
      <4>5. n \in DOMAIN row.list
        BY <4>3, <4>4
      <4>6. row.list[n] = "chassis"
        BY <3>1, <4>2 DEF KindOf
      <4>7. QED
        BY <4>2, <4>5, <4>6, RowIs
    <3>2. QED
      BY <1>2, <2>1, <3>1
  <2>4. KindClass(KindOf(r)) = KindClass(KindOf(s))
    BY <2>2 DEF c, d
  <2>5. r.list = s.list
    BY <2>4, RowByClass
  <2>6. KindOf(r) # "power-module" /\ r.slots[Len(r.list)] = s.slots[Len(s.list)]
    BY <2>1, <2>3
  <2>7. r = s
    BY <2>4, <2>6, RowByClass
  <2>8. QED
    BY <2>7
<1>4. Comp!Classes[c][2] = Comp!Classes[d][2] /\ r.slots[Len(r.list)] = s.slots[Len(s.list)]
  BY <1>2, <1>3 DEF TailOf, c, d
<1>5. c = d
  BY <1>1, <1>4, ClassNames
<1>6. KindOf(r) = "power-module"
  BY <1>4, <1>5, RowByClass DEF c, d
<1>7. QED
  BY <1>1, <1>4, <1>5, <1>6

\* The conclusion of ComponentsStayApart, of two rows and what is made of them.
NamesApart(r, s, a, b) ==
  /\ r # s /\ a.name = b.name => /\ KindOf(r) = "power-module" /\ KindOf(s) = "power-module"
                                /\ r.slots[Len(r.slots)] = s.slots[Len(s.slots)]
  /\ a.crType = b.crType <=> KindOf(r) = KindOf(s)

LEMMA RowsApart ==
  ASSUME NEW os \in {"srl", "sros"}, NEW r \in Rows(os), NEW s \in Rows(os),
         NEW a, WellNamed(a, r), NEW b, WellNamed(b, s)
  PROVE  NamesApart(r, s, a, b)
<1>1. PICK m : a.name = <<m>> \o TailOf(r)
  BY DEF WellNamed
<1>2. PICK n : b.name = <<n>> \o TailOf(s)
  BY DEF WellNamed
<1>3. PICK t : t = TailOf(r)
  OBVIOUS
<1>4. PICK u : u = TailOf(s)
  OBVIOUS
<1>5. PICK S : S = {"Chassis", Comp!Classes[KindClass(KindOf(r))][2], r.slots[Len(r.list)],
                    Comp!Classes[KindClass(KindOf(s))][2], s.slots[Len(s.list)], m, n}
  OBVIOUS
<1>6. t \in Seq(S) /\ u \in Seq(S) /\ m \in S /\ n \in S
  BY <1>3, <1>4, <1>5, TailIsSeq
<1>7. a.name = b.name => t = u
  <2>1. a.name = <<m>> \o t /\ b.name = <<n>> \o u
    BY <1>1, <1>2, <1>3, <1>4
  <2>2. <<m>> \o t = <<n>> \o u => t = u
    BY <1>6, SameTail
  <2>3. QED
    BY <2>1, <2>2
<1>8. a.crType = b.crType <=> KindOf(r) = KindOf(s)
  <2>1. a.crType = Comp!Classes[KindClass(KindOf(r))][3]
        /\ b.crType = Comp!Classes[KindClass(KindOf(s))][3]
    BY DEF WellNamed
  <2>2. KindClass(KindOf(r)) = KindClass(KindOf(s)) <=> KindOf(r) = KindOf(s)
    BY RowByClass
  <2>3. QED
    BY <2>1, <2>2, KindIsClassed, ClassNames
<1>9. Len(r.slots) = Len(r.list) /\ Len(s.slots) = Len(s.list)
  BY SlotsAre
<1>10. QED
  BY <1>3, <1>4, <1>7, <1>8, <1>9, TailsApart DEF NamesApart

(* Whatever nodes and slots are called, two components of a node share a   *)
(* name only if they are power modules in the same place of two shelves,   *)
(* as long as the node's name contains no word the code looks for and, on  *)
(* SR OS, the keys are quoted.  common/component.py: normalize_name.       *)
THEOREM ComponentNaming == Spec => []ComponentsStayApart
<1>0. call.kind # "components" => ComponentsStayApart
  BY DEF ComponentsStayApart
<1>1. Init => ComponentsStayApart
  BY <1>0 DEF Init, Idle
<1>2. ComponentsStayApart /\ [Next]_vars => ComponentsStayApart'
  <2> SUFFICES ASSUME ComponentsStayApart, [Next]_vars
               PROVE  ComponentsStayApart'
    OBVIOUS
  <2>0. call'.kind # "components" => ComponentsStayApart'
    BY DEF ComponentsStayApart
  <2>3. CASE NameComponents
    <3> DEFINE Made(node, os, quoted, micropython, row) ==
                 Comp!Component(PathOf(node, os, row, quoted), Plainly, Nothing, micropython)
               Called(node, os, quoted, micropython, r, s) ==
                 /\ call' = [kind |-> "components", node |-> node, os |-> os, quoted |-> quoted,
                             micropython |-> micropython, r |-> r, s |-> s]
                 /\ result' = [r |-> Made(node, os, quoted, micropython, r),
                               s |-> Made(node, os, quoted, micropython, s)]
    <3>1. PICK node \in NodeNames, os \in {"srl", "sros"}, quoted \in BOOLEAN, micropython \in BOOLEAN :
             \E r, s \in Rows(os) : Called(node, os, quoted, micropython, r, s)
      BY <2>3 DEF NameComponents, PathOf
    <3>2. PICK r \in Rows(os), s \in Rows(os) : Called(node, os, quoted, micropython, r, s)
      BY <3>1
    <3>3. /\ call'.node = node /\ call'.os = os /\ call'.quoted = quoted /\ call'.r = r /\ call'.s = s
          /\ result'.r = Made(node, os, quoted, micropython, r)
          /\ result'.s = Made(node, os, quoted, micropython, s)
      BY <3>2
    <3>4. ASSUME Sound(node, os, quoted)
          PROVE  NamesApart(r, s, result'.r, result'.s)
      <4>1. IsMade(result'.r, node, os, r, quoted, micropython)
            /\ IsMade(result'.s, node, os, s, quoted, micropython)
        BY <3>3 DEF IsMade
      <4>2. WellNamed(result'.r, r) /\ WellNamed(result'.s, s)
        BY <3>4, <4>1, NameOfRow
      <4>3. QED
        BY <4>2, RowsApart
    <3>5. Sound(call'.node, call'.os, call'.quoted) => NamesApart(call'.r, call'.s, result'.r, result'.s)
      BY <3>3, <3>4
    <3>6. QED
      BY <3>5 DEF ComponentsStayApart, NamesApart, KindOf, Sound
  <2>5. CASE UNCHANGED vars
    BY <2>5 DEF vars, ComponentsStayApart
  <2>6. QED
    BY <2>0, <2>3, <2>5, OneKindOfCall
<1>3. QED
  BY <1>1, <1>2, PTL DEF Spec
-----------------------------------------------------------------------------
\* API resources.  A class here is a table none of whose keys is taken for an atom's or an
\* array's.

FieldKinds == {"optional", "required", "object", "list", "meta"}

IsClass(c) ==
  /\ "atom" \notin DOMAIN c /\ "array" \notin DOMAIN c
  /\ \A k \in DOMAIN c : c[k].kind \in FieldKinds

Round0(c, obj) == Api!ToInput0(c, Api!FromInput0(c, obj))
Round1(c, obj) == Api!ToInput1(c, Api!FromInput1(c, obj))
Round2(c, obj) == Api!ToInput2(c, Api!FromInput2(c, obj))
Round3(c, obj) == Api!ToInput3(c, Api!FromInput3(c, obj))

LEMMA ArrayIsNoAtom == ASSUME NEW s PROVE Api!Array(s) # Api!None
<1>1. DOMAIN Api!Array(s) = {"array"} /\ DOMAIN Api!None = {"atom"}
  BY DEF Api!Array, Api!None, Api!Atom
<1>2. "array" # "atom"
  OBVIOUS
<1>3. QED
  BY <1>1, <1>2

LEMMA ArrayParts == ASSUME NEW s PROVE Api!IsArray(Api!Array(s)) /\ Api!Array(s).array = s
BY DEF Api!Array, Api!IsArray

LEMMA EmptyTuple == DOMAIN << >> = {}
OBVIOUS

LEMMA Keys0 == ASSUME NEW c, NEW obj PROVE DOMAIN Round0(c, obj) \subseteq DOMAIN c
BY DEF Round0, Api!ToInput0, Api!ToInput

\* What a class of no nested fields reads is something.
LEMMA Made0 ==
  ASSUME NEW c, IsClass(c), NEW obj, Api!Truthy(obj)
  PROVE  Api!FromInput0(c, obj) # Api!None
<1>1. DOMAIN Api!FromInput0(c, obj) = DOMAIN c
  BY DEF Api!FromInput0, Api!FromInput
<1>2. QED
  BY <1>1 DEF Api!None, Api!Atom, IsClass

-----------------------------------------------------------------------------
\* Classes of level 1: what a field is written as.

LEMMA Made1 ==
  ASSUME NEW c, IsClass(c), NEW obj, Api!Truthy(obj)
  PROVE  /\ \A k \in DOMAIN c :
              Api!FromInput1(c, obj)[k] = Api!Read(c[k], k, obj, Api!FromInput0)
         /\ DOMAIN Api!FromInput1(c, obj) = DOMAIN c
         /\ Api!FromInput1(c, obj) # Api!None
<1>1. Api!FromInput1(c, obj) = [k \in DOMAIN c |-> Api!Read(c[k], k, obj, Api!FromInput0)]
  BY DEF Api!FromInput1, Api!FromInput
<1>2. QED
  BY <1>1 DEF Api!None, Api!Atom, IsClass

LEMMA Written1 ==
  ASSUME NEW c, NEW self, NEW k \in DOMAIN c
  PROVE  /\ k \in DOMAIN Api!ToInput1(c, self) <=> self[k] # Api!None \/ c[k].kind = "required"
         /\ k \in DOMAIN Api!ToInput1(c, self) =>
              Api!ToInput1(c, self)[k] = Api!Write(c[k], self[k], Api!ToInput0)
BY DEF Api!ToInput1, Api!ToInput

LEMMA Keys1 == ASSUME NEW c, NEW obj PROVE DOMAIN Round1(c, obj) \subseteq DOMAIN c
BY DEF Round1, Api!ToInput1, Api!ToInput

LEMMA PlainField1 ==
  ASSUME NEW c, IsClass(c), NEW obj, Api!Truthy(obj), NEW k \in DOMAIN c,
         c[k].kind \in {"optional", "required"}
  PROVE  /\ k \in DOMAIN obj /\ obj[k] # Api!None =>
              k \in DOMAIN Round1(c, obj) /\ Round1(c, obj)[k] = obj[k]
         /\ k \notin DOMAIN obj /\ c[k].kind = "optional" /\ c[k].default = Api!None =>
              k \notin DOMAIN Round1(c, obj)
<1>1. PICK self : self = Api!FromInput1(c, obj)
  OBVIOUS
<1>2. Api!Read(c[k], k, obj, Api!FromInput0) = IF k \in DOMAIN obj THEN obj[k] ELSE c[k].default
  BY DEF Api!Read, Api!Get
<1>3. self[k] = IF k \in DOMAIN obj THEN obj[k] ELSE c[k].default
  BY <1>1, <1>2, Made1
<1>4. Api!Write(c[k], self[k], Api!ToInput0) = self[k]
  BY DEF Api!Write
<1>5. Round1(c, obj) = Api!ToInput1(c, self)
  BY <1>1 DEF Round1
<1>6. QED
  BY <1>3, <1>4, <1>5, Written1

LEMMA ObjectField1 ==
  ASSUME NEW c, IsClass(c), NEW obj, Api!Truthy(obj), NEW k \in DOMAIN c,
         c[k].kind = "object", IsClass(c[k].class)
  PROVE  /\ k \in DOMAIN Round1(c, obj) <=> k \in DOMAIN obj /\ Api!Truthy(obj[k])
         /\ k \in DOMAIN Round1(c, obj) => Round1(c, obj)[k] = Round0(c[k].class, obj[k])
<1>1. PICK self : self = Api!FromInput1(c, obj)
  OBVIOUS
<1>2. Api!Read(c[k], k, obj, Api!FromInput0) = Api!FromInput0(c[k].class, Api!Get(obj, k))
  BY DEF Api!Read
<1>3. self[k] = Api!FromInput0(c[k].class, Api!Get(obj, k))
  BY <1>1, <1>2, Made1
<1>4. Round1(c, obj) = Api!ToInput1(c, self)
  BY <1>1 DEF Round1
<1>5. Api!Write(c[k], self[k], Api!ToInput0) = Api!ToInput0(c[k].class, self[k])
  BY DEF Api!Write
<1>6. CASE k \in DOMAIN obj /\ Api!Truthy(obj[k])
  <2>1. self[k] = Api!FromInput0(c[k].class, obj[k]) /\ self[k] # Api!None
    BY <1>3, <1>6, Made0 DEF Api!Get
  <2>2. QED
    BY <2>1, <1>4, <1>5, <1>6, Written1 DEF Round0
<1>7. CASE ~(k \in DOMAIN obj /\ Api!Truthy(obj[k]))
  <2>1. ~Api!Truthy(Api!Get(obj, k))
    BY <1>7 DEF Api!Get, Api!Truthy
  <2>2. self[k] = Api!None
    BY <1>3, <2>1 DEF Api!FromInput0, Api!FromInput
  <2>3. QED
    BY <2>2, <1>4, <1>7, Written1
<1>8. QED
  BY <1>6, <1>7

LEMMA ListField1 ==
  ASSUME NEW c, IsClass(c), NEW obj, Api!Truthy(obj), NEW k \in DOMAIN c,
         c[k].kind = "list", k \in DOMAIN obj => Api!IsArray(obj[k])
  PROVE  /\ k \in DOMAIN Round1(c, obj) /\ Api!IsArray(Round1(c, obj)[k])
         /\ DOMAIN Round1(c, obj)[k].array = IF k \in DOMAIN obj THEN DOMAIN obj[k].array ELSE {}
         /\ \A i \in DOMAIN Round1(c, obj)[k].array :
              Round1(c, obj)[k].array[i] = Round0(c[k].class, obj[k].array[i])
<1>1. PICK self : self = Api!FromInput1(c, obj)
  OBVIOUS
<1>2. Round1(c, obj) = Api!ToInput1(c, self)
  BY <1>1 DEF Round1
<1>3. self[k] = Api!Read(c[k], k, obj, Api!FromInput0)
  BY <1>1, Made1
<1>4. Api!Write(c[k], self[k], Api!ToInput0) =
        Api!Array([i \in DOMAIN self[k].array |-> Api!ToInput0(c[k].class, self[k].array[i])])
  BY DEF Api!Write
<1>5. CASE k \in DOMAIN obj
  <2>1. obj[k] # Api!None
    BY <1>5 DEF Api!IsArray, Api!None, Api!Atom
  <2>2. self[k] = Api!Array([i \in DOMAIN obj[k].array |->
                               Api!FromInput0(c[k].class, obj[k].array[i])])
    BY <1>3, <1>5, <2>1 DEF Api!Read, Api!Get
  <2>3. self[k] # Api!None
    BY <2>2, ArrayIsNoAtom
  <2>4. Round1(c, obj)[k] =
          Api!Array([i \in DOMAIN self[k].array |-> Api!ToInput0(c[k].class, self[k].array[i])])
    BY <1>2, <1>4, <2>3, Written1
  <2>5. self[k].array = [i \in DOMAIN obj[k].array |-> Api!FromInput0(c[k].class, obj[k].array[i])]
    BY <2>2, ArrayParts
  <2>6. /\ Api!IsArray(Round1(c, obj)[k])
        /\ Round1(c, obj)[k].array =
             [i \in DOMAIN self[k].array |-> Api!ToInput0(c[k].class, self[k].array[i])]
    BY <2>4, ArrayParts
  <2>7. k \in DOMAIN Round1(c, obj)
    BY <1>2, <2>3, Written1
  <2>8. QED
    BY <1>5, <2>5, <2>6, <2>7 DEF Round0
<1>6. CASE k \notin DOMAIN obj
  <2>1. self[k] = Api!Array(<< >>)
    BY <1>3, <1>6 DEF Api!Read, Api!Get
  <2>2. self[k] # Api!None
    BY <2>1, ArrayIsNoAtom
  <2>3. Round1(c, obj)[k] =
          Api!Array([i \in DOMAIN self[k].array |-> Api!ToInput0(c[k].class, self[k].array[i])])
    BY <1>2, <1>4, <2>2, Written1
  <2>4. DOMAIN self[k].array = {}
    BY <2>1, EmptyTuple DEF Api!Array
  <2>5. QED
    BY <1>2, <1>6, <2>2, <2>3, <2>4, Written1 DEF Api!Array, Api!IsArray
<1>7. QED
  BY <1>5, <1>6

-----------------------------------------------------------------------------
\* Classes of level 2: what a field is written as.

LEMMA Made2 ==
  ASSUME NEW c, IsClass(c), NEW obj, Api!Truthy(obj)
  PROVE  /\ \A k \in DOMAIN c :
              Api!FromInput2(c, obj)[k] = Api!Read(c[k], k, obj, Api!FromInput1)
         /\ DOMAIN Api!FromInput2(c, obj) = DOMAIN c
         /\ Api!FromInput2(c, obj) # Api!None
<1>1. Api!FromInput2(c, obj) = [k \in DOMAIN c |-> Api!Read(c[k], k, obj, Api!FromInput1)]
  BY DEF Api!FromInput2, Api!FromInput
<1>2. QED
  BY <1>1 DEF Api!None, Api!Atom, IsClass

LEMMA Written2 ==
  ASSUME NEW c, NEW self, NEW k \in DOMAIN c
  PROVE  /\ k \in DOMAIN Api!ToInput2(c, self) <=> self[k] # Api!None \/ c[k].kind = "required"
         /\ k \in DOMAIN Api!ToInput2(c, self) =>
              Api!ToInput2(c, self)[k] = Api!Write(c[k], self[k], Api!ToInput1)
BY DEF Api!ToInput2, Api!ToInput

LEMMA Keys2 == ASSUME NEW c, NEW obj PROVE DOMAIN Round2(c, obj) \subseteq DOMAIN c
BY DEF Round2, Api!ToInput2, Api!ToInput

LEMMA PlainField2 ==
  ASSUME NEW c, IsClass(c), NEW obj, Api!Truthy(obj), NEW k \in DOMAIN c,
         c[k].kind \in {"optional", "required"}
  PROVE  /\ k \in DOMAIN obj /\ obj[k] # Api!None =>
              k \in DOMAIN Round2(c, obj) /\ Round2(c, obj)[k] = obj[k]
         /\ k \notin DOMAIN obj /\ c[k].kind = "optional" /\ c[k].default = Api!None =>
              k \notin DOMAIN Round2(c, obj)
<1>1. PICK self : self = Api!FromInput2(c, obj)
  OBVIOUS
<1>2. Api!Read(c[k], k, obj, Api!FromInput1) = IF k \in DOMAIN obj THEN obj[k] ELSE c[k].default
  BY DEF Api!Read, Api!Get
<1>3. self[k] = IF k \in DOMAIN obj THEN obj[k] ELSE c[k].default
  BY <1>1, <1>2, Made2
<1>4. Api!Write(c[k], self[k], Api!ToInput1) = self[k]
  BY DEF Api!Write
<1>5. Round2(c, obj) = Api!ToInput2(c, self)
  BY <1>1 DEF Round2
<1>6. QED
  BY <1>3, <1>4, <1>5, Written2

LEMMA ObjectField2 ==
  ASSUME NEW c, IsClass(c), NEW obj, Api!Truthy(obj), NEW k \in DOMAIN c,
         c[k].kind = "object", IsClass(c[k].class)
  PROVE  /\ k \in DOMAIN Round2(c, obj) <=> k \in DOMAIN obj /\ Api!Truthy(obj[k])
         /\ k \in DOMAIN Round2(c, obj) => Round2(c, obj)[k] = Round1(c[k].class, obj[k])
<1>1. PICK self : self = Api!FromInput2(c, obj)
  OBVIOUS
<1>2. Api!Read(c[k], k, obj, Api!FromInput1) = Api!FromInput1(c[k].class, Api!Get(obj, k))
  BY DEF Api!Read
<1>3. self[k] = Api!FromInput1(c[k].class, Api!Get(obj, k))
  BY <1>1, <1>2, Made2
<1>4. Round2(c, obj) = Api!ToInput2(c, self)
  BY <1>1 DEF Round2
<1>5. Api!Write(c[k], self[k], Api!ToInput1) = Api!ToInput1(c[k].class, self[k])
  BY DEF Api!Write
<1>6. CASE k \in DOMAIN obj /\ Api!Truthy(obj[k])
  <2>1. self[k] = Api!FromInput1(c[k].class, obj[k]) /\ self[k] # Api!None
    BY <1>3, <1>6, Made1 DEF Api!Get
  <2>2. QED
    BY <2>1, <1>4, <1>5, <1>6, Written2 DEF Round1
<1>7. CASE ~(k \in DOMAIN obj /\ Api!Truthy(obj[k]))
  <2>1. ~Api!Truthy(Api!Get(obj, k))
    BY <1>7 DEF Api!Get, Api!Truthy
  <2>2. self[k] = Api!None
    BY <1>3, <2>1 DEF Api!FromInput1, Api!FromInput
  <2>3. QED
    BY <2>2, <1>4, <1>7, Written2
<1>8. QED
  BY <1>6, <1>7

LEMMA ListField2 ==
  ASSUME NEW c, IsClass(c), NEW obj, Api!Truthy(obj), NEW k \in DOMAIN c,
         c[k].kind = "list", k \in DOMAIN obj => Api!IsArray(obj[k])
  PROVE  /\ k \in DOMAIN Round2(c, obj) /\ Api!IsArray(Round2(c, obj)[k])
         /\ DOMAIN Round2(c, obj)[k].array = IF k \in DOMAIN obj THEN DOMAIN obj[k].array ELSE {}
         /\ \A i \in DOMAIN Round2(c, obj)[k].array :
              Round2(c, obj)[k].array[i] = Round1(c[k].class, obj[k].array[i])
<1>1. PICK self : self = Api!FromInput2(c, obj)
  OBVIOUS
<1>2. Round2(c, obj) = Api!ToInput2(c, self)
  BY <1>1 DEF Round2
<1>3. self[k] = Api!Read(c[k], k, obj, Api!FromInput1)
  BY <1>1, Made2
<1>4. Api!Write(c[k], self[k], Api!ToInput1) =
        Api!Array([i \in DOMAIN self[k].array |-> Api!ToInput1(c[k].class, self[k].array[i])])
  BY DEF Api!Write
<1>5. CASE k \in DOMAIN obj
  <2>1. obj[k] # Api!None
    BY <1>5 DEF Api!IsArray, Api!None, Api!Atom
  <2>2. self[k] = Api!Array([i \in DOMAIN obj[k].array |->
                               Api!FromInput1(c[k].class, obj[k].array[i])])
    BY <1>3, <1>5, <2>1 DEF Api!Read, Api!Get
  <2>3. self[k] # Api!None
    BY <2>2, ArrayIsNoAtom
  <2>4. Round2(c, obj)[k] =
          Api!Array([i \in DOMAIN self[k].array |-> Api!ToInput1(c[k].class, self[k].array[i])])
    BY <1>2, <1>4, <2>3, Written2
  <2>5. self[k].array = [i \in DOMAIN obj[k].array |-> Api!FromInput1(c[k].class, obj[k].array[i])]
    BY <2>2, ArrayParts
  <2>6. /\ Api!IsArray(Round2(c, obj)[k])
        /\ Round2(c, obj)[k].array =
             [i \in DOMAIN self[k].array |-> Api!ToInput1(c[k].class, self[k].array[i])]
    BY <2>4, ArrayParts
  <2>7. k \in DOMAIN Round2(c, obj)
    BY <1>2, <2>3, Written2
  <2>8. QED
    BY <1>5, <2>5, <2>6, <2>7 DEF Round1
<1>6. CASE k \notin DOMAIN obj
  <2>1. self[k] = Api!Array(<< >>)
    BY <1>3, <1>6 DEF Api!Read, Api!Get
  <2>2. self[k] # Api!None
    BY <2>1, ArrayIsNoAtom
  <2>3. Round2(c, obj)[k] =
          Api!Array([i \in DOMAIN self[k].array |-> Api!ToInput1(c[k].class, self[k].array[i])])
    BY <1>2, <1>4, <2>2, Written2
  <2>4. DOMAIN self[k].array = {}
    BY <2>1, EmptyTuple DEF Api!Array
  <2>5. QED
    BY <1>2, <1>6, <2>2, <2>3, <2>4, Written2 DEF Api!Array, Api!IsArray
<1>7. QED
  BY <1>5, <1>6

-----------------------------------------------------------------------------
\* Classes of level 3: what a field is written as.

LEMMA Made3 ==
  ASSUME NEW c, IsClass(c), NEW obj, Api!Truthy(obj)
  PROVE  /\ \A k \in DOMAIN c :
              Api!FromInput3(c, obj)[k] = Api!Read(c[k], k, obj, Api!FromInput2)
         /\ DOMAIN Api!FromInput3(c, obj) = DOMAIN c
         /\ Api!FromInput3(c, obj) # Api!None
<1>1. Api!FromInput3(c, obj) = [k \in DOMAIN c |-> Api!Read(c[k], k, obj, Api!FromInput2)]
  BY DEF Api!FromInput3, Api!FromInput
<1>2. QED
  BY <1>1 DEF Api!None, Api!Atom, IsClass

LEMMA Written3 ==
  ASSUME NEW c, NEW self, NEW k \in DOMAIN c
  PROVE  /\ k \in DOMAIN Api!ToInput3(c, self) <=> self[k] # Api!None \/ c[k].kind = "required"
         /\ k \in DOMAIN Api!ToInput3(c, self) =>
              Api!ToInput3(c, self)[k] = Api!Write(c[k], self[k], Api!ToInput2)
BY DEF Api!ToInput3, Api!ToInput

LEMMA Keys3 == ASSUME NEW c, NEW obj PROVE DOMAIN Round3(c, obj) \subseteq DOMAIN c
BY DEF Round3, Api!ToInput3, Api!ToInput

LEMMA PlainField3 ==
  ASSUME NEW c, IsClass(c), NEW obj, Api!Truthy(obj), NEW k \in DOMAIN c,
         c[k].kind \in {"optional", "required"}
  PROVE  /\ k \in DOMAIN obj /\ obj[k] # Api!None =>
              k \in DOMAIN Round3(c, obj) /\ Round3(c, obj)[k] = obj[k]
         /\ k \notin DOMAIN obj /\ c[k].kind = "optional" /\ c[k].default = Api!None =>
              k \notin DOMAIN Round3(c, obj)
<1>1. PICK self : self = Api!FromInput3(c, obj)
  OBVIOUS
<1>2. Api!Read(c[k], k, obj, Api!FromInput2) = IF k \in DOMAIN obj THEN obj[k] ELSE c[k].default
  BY DEF Api!Read, Api!Get
<1>3. self[k] = IF k \in DOMAIN obj THEN obj[k] ELSE c[k].default
  BY <1>1, <1>2, Made3
<1>4. Api!Write(c[k], self[k], Api!ToInput2) = self[k]
  BY DEF Api!Write
<1>5. Round3(c, obj) = Api!ToInput3(c, self)
  BY <1>1 DEF Round3
<1>6. QED
  BY <1>3, <1>4, <1>5, Written3

LEMMA ObjectField3 ==
  ASSUME NEW c, IsClass(c), NEW obj, Api!Truthy(obj), NEW k \in DOMAIN c,
         c[k].kind = "object", IsClass(c[k].class)
  PROVE  /\ k \in DOMAIN Round3(c, obj) <=> k \in DOMAIN obj /\ Api!Truthy(obj[k])
         /\ k \in DOMAIN Round3(c, obj) => Round3(c, obj)[k] = Round2(c[k].class, obj[k])
<1>1. PICK self : self = Api!FromInput3(c, obj)
  OBVIOUS
<1>2. Api!Read(c[k], k, obj, Api!FromInput2) = Api!FromInput2(c[k].class, Api!Get(obj, k))
  BY DEF Api!Read
<1>3. self[k] = Api!FromInput2(c[k].class, Api!Get(obj, k))
  BY <1>1, <1>2, Made3
<1>4. Round3(c, obj) = Api!ToInput3(c, self)
  BY <1>1 DEF Round3
<1>5. Api!Write(c[k], self[k], Api!ToInput2) = Api!ToInput2(c[k].class, self[k])
  BY DEF Api!Write
<1>6. CASE k \in DOMAIN obj /\ Api!Truthy(obj[k])
  <2>1. self[k] = Api!FromInput2(c[k].class, obj[k]) /\ self[k] # Api!None
    BY <1>3, <1>6, Made2 DEF Api!Get
  <2>2. QED
    BY <2>1, <1>4, <1>5, <1>6, Written3 DEF Round2
<1>7. CASE ~(k \in DOMAIN obj /\ Api!Truthy(obj[k]))
  <2>1. ~Api!Truthy(Api!Get(obj, k))
    BY <1>7 DEF Api!Get, Api!Truthy
  <2>2. self[k] = Api!None
    BY <1>3, <2>1 DEF Api!FromInput2, Api!FromInput
  <2>3. QED
    BY <2>2, <1>4, <1>7, Written3
<1>8. QED
  BY <1>6, <1>7

-----------------------------------------------------------------------------
\* What a round trip keeps and adds, class by class.  Suits is an object of the class with all
\* its required fields, Nested says the same of the objects in it.

Hidden == {"creationTimestamp", "deletionTimestamp", "time", "fieldsV1"}

IsObject(v) == "atom" \notin DOMAIN v /\ "array" \notin DOMAIN v

Kept0(c, v)  == Api!Within0(v, Round0(c, v), Hidden)
Kept1(c, v)  == Api!Within1(v, Round1(c, v), Hidden)
Kept2(c, v)  == Api!Within2(v, Round2(c, v), Hidden)
Added0(c, v) == Api!Within0(Round0(c, v), v, {"spec"})
Added1(c, v) == Api!Within1(Round1(c, v), v, {"spec"})
Added2(c, v) == Api!Within2(Round2(c, v), v, {"spec"})

Suits(c, obj) ==
  /\ IsClass(c) /\ Api!Truthy(obj) /\ DOMAIN obj \subseteq DOMAIN c
  /\ \A k \in DOMAIN c :
       /\ c[k].kind # "meta"
       /\ c[k].kind = "required" => k \in DOMAIN obj
       /\ c[k].kind = "optional" => c[k].default = Api!None
       /\ c[k].kind = "object" => IsClass(c[k].class)
  /\ \A k \in DOMAIN obj :
       /\ c[k].kind \in {"optional", "required"} => Api!IsAtom(obj[k]) /\ obj[k] # Api!None
       /\ c[k].kind = "list" => Api!IsArray(obj[k])

Nested1(c, obj) ==
  \A k \in DOMAIN obj :
    /\ c[k].kind = "object" =>
         IF Api!Truthy(obj[k])
         THEN /\ Added0(c[k].class, obj[k])
              /\ k \in Hidden \/ (IsObject(obj[k]) /\ Kept0(c[k].class, obj[k]))
         ELSE DOMAIN obj[k] = {}
    /\ c[k].kind = "list" => \A i \in DOMAIN obj[k].array :
                               /\ Kept0(c[k].class, obj[k].array[i])
                               /\ Added0(c[k].class, obj[k].array[i])

Nested2(c, obj) ==
  \A k \in DOMAIN obj :
    /\ c[k].kind = "object" =>
         IF Api!Truthy(obj[k])
         THEN /\ Added1(c[k].class, obj[k])
              /\ k \in Hidden \/ (IsObject(obj[k]) /\ Kept1(c[k].class, obj[k]))
         ELSE DOMAIN obj[k] = {}
    /\ c[k].kind = "list" => \A i \in DOMAIN obj[k].array :
                               /\ Kept1(c[k].class, obj[k].array[i])
                               /\ Added1(c[k].class, obj[k].array[i])

LEMMA Said1 ==
  ASSUME NEW c, NEW obj, Suits(c, obj), Nested1(c, obj)
  PROVE  Kept1(c, obj) /\ Added1(c, obj)
<1>1. PICK r : r = Round1(c, obj)
  OBVIOUS
<1>2. Api!Within1(obj, r, Hidden)
  <2> SUFFICES ASSUME NEW k \in DOMAIN obj \ Hidden
               PROVE  Api!Says(obj[k], Api!Get(r, k), Hidden, Api!Within0)
    BY DEF Api!Within1
  <2>1. CASE c[k].kind \in {"optional", "required"}
    <3>1. Api!IsAtom(obj[k]) /\ obj[k] # Api!None
      BY <2>1 DEF Suits
    <3>2. Api!Get(r, k) = obj[k]
      BY <1>1, <2>1, <3>1, PlainField1 DEF Api!Get, Suits
    <3>3. QED
      BY <3>1, <3>2 DEF Api!Says
  <2>2. CASE c[k].kind = "object"
    <3>1. CASE Api!Truthy(obj[k])
      <4>1. Api!Get(r, k) = Round0(c[k].class, obj[k])
        BY <1>1, <2>2, <3>1, ObjectField1 DEF Api!Get, Suits
      <4>2. IsObject(obj[k]) /\ Kept0(c[k].class, obj[k])
        BY <2>2, <3>1 DEF Nested1
      <4>3. QED
        BY <4>1, <4>2 DEF Api!Says, IsObject, Api!IsAtom, Api!IsArray, Kept0
    <3>2. CASE ~Api!Truthy(obj[k])
      <4>1. DOMAIN obj[k] = {}
        BY <2>2, <3>2 DEF Nested1
      <4>2. QED
        BY <4>1 DEF Api!Says, Api!IsAtom, Api!IsArray, Api!Within0
    <3>3. QED
      BY <3>1, <3>2
  <2>3. CASE c[k].kind = "list"
    <3>1. Api!IsArray(obj[k]) /\ ~Api!IsAtom(obj[k])
      BY <2>3 DEF Suits, Api!IsArray, Api!IsAtom
    <3>2. /\ Api!IsArray(Api!Get(r, k)) /\ DOMAIN obj[k].array = DOMAIN Api!Get(r, k).array
          /\ \A i \in DOMAIN obj[k].array :
               Api!Get(r, k).array[i] = Round0(c[k].class, obj[k].array[i])
      BY <1>1, <2>3, <3>1, ListField1 DEF Api!Get, Suits
    <3>3. \A i \in DOMAIN obj[k].array : Kept0(c[k].class, obj[k].array[i])
      BY <2>3 DEF Nested1
    <3>4. QED
      BY <3>1, <3>2, <3>3 DEF Api!Says, Kept0
  <2>4. QED
    BY <2>1, <2>2, <2>3 DEF Suits, IsClass, FieldKinds
<1>3. Api!Within1(r, obj, {"spec"})
  <2> SUFFICES ASSUME NEW k \in DOMAIN r \ {"spec"}
               PROVE  Api!Says(r[k], Api!Get(obj, k), {"spec"}, Api!Within0)
    BY DEF Api!Within1
  <2>0. k \in DOMAIN c
    BY <1>1, Keys1
  <2>1. CASE c[k].kind \in {"optional", "required"}
    <3>1. k \in DOMAIN obj
      BY <1>1, <2>0, <2>1, PlainField1 DEF Suits
    <3>2. Api!IsAtom(obj[k]) /\ obj[k] # Api!None
      BY <2>1, <3>1 DEF Suits
    <3>3. r[k] = obj[k]
      BY <1>1, <2>0, <2>1, <3>1, <3>2, PlainField1 DEF Suits
    <3>4. QED
      BY <3>1, <3>2, <3>3 DEF Api!Says, Api!Get
  <2>2. CASE c[k].kind = "object"
    <3>1. k \in DOMAIN obj /\ Api!Truthy(obj[k]) /\ r[k] = Round0(c[k].class, obj[k])
      BY <1>1, <2>0, <2>2, ObjectField1 DEF Suits
    <3>2. Added0(c[k].class, obj[k])
      BY <2>2, <3>1 DEF Nested1
    <3>3. "atom" \notin DOMAIN r[k] /\ "array" \notin DOMAIN r[k]
      BY <2>0, <2>2, <3>1, Keys0 DEF Suits, IsClass
    <3>4. QED
      BY <3>1, <3>2, <3>3 DEF Api!Says, Api!IsAtom, Api!IsArray, Api!Get, Added0
  <2>3. CASE c[k].kind = "list"
    <3>1. k \in DOMAIN obj => Api!IsArray(obj[k])
      BY <2>3 DEF Suits
    <3>2. /\ Api!IsArray(r[k])
          /\ DOMAIN r[k].array = IF k \in DOMAIN obj THEN DOMAIN obj[k].array ELSE {}
          /\ \A i \in DOMAIN r[k].array : r[k].array[i] = Round0(c[k].class, obj[k].array[i])
      BY <1>1, <2>0, <2>3, <3>1, ListField1 DEF Suits
    <3>3. k \in DOMAIN obj => \A i \in DOMAIN obj[k].array : Added0(c[k].class, obj[k].array[i])
      BY <2>3 DEF Nested1
    <3>4. ~Api!IsAtom(r[k])
      BY <3>2 DEF Api!IsArray, Api!IsAtom
    <3>5. QED
      BY <3>1, <3>2, <3>3, <3>4 DEF Api!Says, Api!Get, Added0
  <2>4. QED
    BY <2>0, <2>1, <2>2, <2>3 DEF Suits, IsClass, FieldKinds
<1>4. QED
  BY <1>1, <1>2, <1>3 DEF Kept1, Added1

LEMMA Said2 ==
  ASSUME NEW c, NEW obj, Suits(c, obj), Nested2(c, obj)
  PROVE  Kept2(c, obj) /\ Added2(c, obj)
<1>1. PICK r : r = Round2(c, obj)
  OBVIOUS
<1>2. Api!Within2(obj, r, Hidden)
  <2> SUFFICES ASSUME NEW k \in DOMAIN obj \ Hidden
               PROVE  Api!Says(obj[k], Api!Get(r, k), Hidden, Api!Within1)
    BY DEF Api!Within2
  <2>1. CASE c[k].kind \in {"optional", "required"}
    <3>1. Api!IsAtom(obj[k]) /\ obj[k] # Api!None
      BY <2>1 DEF Suits
    <3>2. Api!Get(r, k) = obj[k]
      BY <1>1, <2>1, <3>1, PlainField2 DEF Api!Get, Suits
    <3>3. QED
      BY <3>1, <3>2 DEF Api!Says
  <2>2. CASE c[k].kind = "object"
    <3>1. CASE Api!Truthy(obj[k])
      <4>1. Api!Get(r, k) = Round1(c[k].class, obj[k])
        BY <1>1, <2>2, <3>1, ObjectField2 DEF Api!Get, Suits
      <4>2. IsObject(obj[k]) /\ Kept1(c[k].class, obj[k])
        BY <2>2, <3>1 DEF Nested2
      <4>3. QED
        BY <4>1, <4>2 DEF Api!Says, IsObject, Api!IsAtom, Api!IsArray, Kept1
    <3>2. CASE ~Api!Truthy(obj[k])
      <4>1. DOMAIN obj[k] = {}
        BY <2>2, <3>2 DEF Nested2
      <4>2. QED
        BY <4>1 DEF Api!Says, Api!IsAtom, Api!IsArray, Api!Within1
    <3>3. QED
      BY <3>1, <3>2
  <2>3. CASE c[k].kind = "list"
    <3>1. Api!IsArray(obj[k]) /\ ~Api!IsAtom(obj[k])
      BY <2>3 DEF Suits, Api!IsArray, Api!IsAtom
    <3>2. /\ Api!IsArray(Api!Get(r, k)) /\ DOMAIN obj[k].array = DOMAIN Api!Get(r, k).array
          /\ \A i \in DOMAIN obj[k].array :
               Api!Get(r, k).array[i] = Round1(c[k].class, obj[k].array[i])
      BY <1>1, <2>3, <3>1, ListField2 DEF Api!Get, Suits
    <3>3. \A i \in DOMAIN obj[k].array : Kept1(c[k].class, obj[k].array[i])
      BY <2>3 DEF Nested2
    <3>4. QED
      BY <3>1, <3>2, <3>3 DEF Api!Says, Kept1
  <2>4. QED
    BY <2>1, <2>2, <2>3 DEF Suits, IsClass, FieldKinds
<1>3. Api!Within2(r, obj, {"spec"})
  <2> SUFFICES ASSUME NEW k \in DOMAIN r \ {"spec"}
               PROVE  Api!Says(r[k], Api!Get(obj, k), {"spec"}, Api!Within1)
    BY DEF Api!Within2
  <2>0. k \in DOMAIN c
    BY <1>1, Keys2
  <2>1. CASE c[k].kind \in {"optional", "required"}
    <3>1. k \in DOMAIN obj
      BY <1>1, <2>0, <2>1, PlainField2 DEF Suits
    <3>2. Api!IsAtom(obj[k]) /\ obj[k] # Api!None
      BY <2>1, <3>1 DEF Suits
    <3>3. r[k] = obj[k]
      BY <1>1, <2>0, <2>1, <3>1, <3>2, PlainField2 DEF Suits
    <3>4. QED
      BY <3>1, <3>2, <3>3 DEF Api!Says, Api!Get
  <2>2. CASE c[k].kind = "object"
    <3>1. k \in DOMAIN obj /\ Api!Truthy(obj[k]) /\ r[k] = Round1(c[k].class, obj[k])
      BY <1>1, <2>0, <2>2, ObjectField2 DEF Suits
    <3>2. Added1(c[k].class, obj[k])
      BY <2>2, <3>1 DEF Nested2
    <3>3. "atom" \notin DOMAIN r[k] /\ "array" \notin DOMAIN r[k]
      BY <2>0, <2>2, <3>1, Keys1 DEF Suits, IsClass
    <3>4. QED
      BY <3>1, <3>2, <3>3 DEF Api!Says, Api!IsAtom, Api!IsArray, Api!Get, Added1
  <2>3. CASE c[k].kind = "list"
    <3>1. k \in DOMAIN obj => Api!IsArray(obj[k])
      BY <2>3 DEF Suits
    <3>2. /\ Api!IsArray(r[k])
          /\ DOMAIN r[k].array = IF k \in DOMAIN obj THEN DOMAIN obj[k].array ELSE {}
          /\ \A i \in DOMAIN r[k].array : r[k].array[i] = Round1(c[k].class, obj[k].array[i])
      BY <1>1, <2>0, <2>3, <3>1, ListField2 DEF Suits
    <3>3. k \in DOMAIN obj => \A i \in DOMAIN obj[k].array : Added1(c[k].class, obj[k].array[i])
      BY <2>3 DEF Nested2
    <3>4. ~Api!IsAtom(r[k])
      BY <3>2 DEF Api!IsArray, Api!IsAtom
    <3>5. QED
      BY <3>1, <3>2, <3>3, <3>4 DEF Api!Says, Api!Get, Added1
  <2>4. QED
    BY <2>0, <2>1, <2>2, <2>3 DEF Suits, IsClass, FieldKinds
<1>4. QED
  BY <1>1, <1>2, <1>3 DEF Kept2, Added2

-----------------------------------------------------------------------------
\* The inputs and the classes they are of.

LEMMA AtomsSay ==
  ASSUME NEW a \in Atoms
  PROVE  Api!IsAtom(a) /\ a # Api!None
<1>1. PICK x \in Scalars : a = [atom |-> x]
  BY DEF Atoms, Api!Atom
<1>2. x # "None"
  BY ScalarAssumption
<1>3. a.atom # "None" /\ DOMAIN a = {"atom"}
  BY <1>1, <1>2
<1>4. QED
  BY <1>3 DEF Api!IsAtom, Api!None, Api!Atom

LEMMA ObjectsAre ==
  ASSUME NEW required, NEW optional, NEW others, NEW f \in Objects(required, optional, others)
  PROVE  /\ required \subseteq DOMAIN f
         /\ DOMAIN f \subseteq required \cup optional \cup DOMAIN others
         /\ \A k \in DOMAIN f : IF k \in DOMAIN others THEN f[k] \in others[k]
                                ELSE Api!IsAtom(f[k]) /\ f[k] # Api!None
<1> DEFINE all    == required \cup optional \cup DOMAIN others
           values == [k \in all |-> IF k \in DOMAIN others THEN others[k] ELSE Atoms]
<1>1. PICK F \in SUBSET (all \cap Keys) :
        f \in {g \in [required \cup F -> UNION {values[k] : k \in required \cup F}] :
                 \A k \in required \cup F : g[k] \in values[k]}
  BY DEF Objects
<1>2. DOMAIN f = required \cup F /\ \A k \in required \cup F : f[k] \in values[k]
  BY <1>1
<1>3. \A k \in DOMAIN f : f[k] \in (IF k \in DOMAIN others THEN others[k] ELSE Atoms)
  BY <1>2
<1>4. QED
  BY <1>2, <1>3, AtomsSay

LEMMA ArraysAre ==
  ASSUME NEW S, NEW a \in Arrays(S)
  PROVE  /\ Api!IsArray(a)
         /\ \A i \in DOMAIN a.array : a.array[i] \in S
<1>1. PICK list \in UNION {[1..n -> S] : n \in Lengths} : a = Api!Array(list)
  BY DEF Arrays
<1>2. PICK n \in Lengths : list \in [1..n -> S]
  BY <1>1
<1>3. Api!IsArray(a) /\ a.array = list
  BY <1>1 DEF Api!IsArray, Api!Array
<1>4. QED
  BY <1>2, <1>3

\* A table of fields that have no fields.
LEMMA PlainClass ==
  ASSUME NEW c, "atom" \notin DOMAIN c, "array" \notin DOMAIN c,
         \A k \in DOMAIN c : c[k] \in {Api!Optional, Api!Required}
  PROVE  /\ IsClass(c)
         /\ \A k \in DOMAIN c : c[k].kind \in {"optional", "required"}
         /\ \A k \in DOMAIN c : c[k].kind = "required" => c[k] = Api!Required
         /\ \A k \in DOMAIN c : c[k].default = Api!None
BY DEF IsClass, FieldKinds, Api!Optional, Api!Required, Api!Field

LEMMA PlainKept1 ==
  ASSUME NEW c, "atom" \notin DOMAIN c, "array" \notin DOMAIN c,
         \A k \in DOMAIN c : c[k] \in {Api!Optional, Api!Required},
         NEW required, NEW optional, NEW f \in Objects(required, optional, << >>),
         required \cup optional \subseteq DOMAIN c, DOMAIN f # {},
         \A k \in DOMAIN c : c[k] = Api!Required => k \in required
  PROVE  Kept1(c, f) /\ Added1(c, f) /\ IsObject(f)
<1>1. /\ required \subseteq DOMAIN f /\ DOMAIN f \subseteq DOMAIN c
      /\ \A k \in DOMAIN f : Api!IsAtom(f[k]) /\ f[k] # Api!None
  BY ObjectsAre, EmptyTuple
<1>2. Api!Truthy(f)
  BY <1>1 DEF Api!Truthy, Api!None, Api!Atom
<1>3. Suits(c, f) /\ Nested1(c, f)
  BY <1>1, <1>2, PlainClass DEF Suits, Nested1
<1>4. QED
  BY <1>1, <1>3, Said1 DEF IsObject

LEMMA FilesKept == \A f \in Files : Kept1(Api!LogFileInfo, f) /\ Added1(Api!LogFileInfo, f)
<1> SUFFICES ASSUME NEW f \in Files
             PROVE  Kept1(Api!LogFileInfo, f) /\ Added1(Api!LogFileInfo, f)
  OBVIOUS
<1>1. /\ DOMAIN Api!LogFileInfo = {"name", "sizeBytes"}
      /\ \A k \in {"name", "sizeBytes"} : Api!LogFileInfo[k] = Api!Required
  BY DEF Api!LogFileInfo
<1>2. f \in Objects({"name", "sizeBytes"}, {}, << >>)
  BY DEF Files
<1>3. {"name", "sizeBytes"} \subseteq DOMAIN f
  BY <1>2, ObjectsAre
<1>4. QED
  BY <1>1, <1>2, <1>3, PlainKept1

LEMMA SubsystemsKept ==
  ASSUME NEW f \in Subsystems
  PROVE  IF Api!Truthy(f) THEN /\ Kept1(Api!SubsystemHealth, f) /\ Added1(Api!SubsystemHealth, f)
                               /\ IsObject(f)
         ELSE DOMAIN f = {}
<1>1. /\ DOMAIN Api!SubsystemHealth = {"edaApi", "keycloakEvents"}
      /\ \A k \in {"edaApi", "keycloakEvents"} : Api!SubsystemHealth[k] = Api!Optional
      /\ Api!Optional # Api!Required
  BY DEF Api!SubsystemHealth, Api!Optional, Api!Required, Api!Field
<1>2. f \in Objects({}, {"edaApi", "keycloakEvents"}, << >>)
  BY DEF Subsystems
<1>4. DOMAIN f # {} => Kept1(Api!SubsystemHealth, f) /\ Added1(Api!SubsystemHealth, f) /\ IsObject(f)
  BY <1>1, <1>2, PlainKept1
<1>5. DOMAIN f \subseteq {"edaApi", "keycloakEvents"}
  BY <1>2, ObjectsAre, EmptyTuple
<1>6. f # Api!None
  BY <1>5 DEF Api!None, Api!Atom
<1>7. QED
  BY <1>4, <1>6 DEF Api!Truthy

LEMMA OwnersKept ==
  \A f \in Owners : Kept1(Api!OwnerReference, f) /\ Added1(Api!OwnerReference, f)
<1> SUFFICES ASSUME NEW f \in Owners
             PROVE  Kept1(Api!OwnerReference, f) /\ Added1(Api!OwnerReference, f)
  OBVIOUS
<1> DEFINE required == {"apiVersion", "kind", "name", "uid"}
           optional == {"controller", "blockOwnerDeletion"}
           others   == [controller |-> Api!Optional, blockOwnerDeletion |-> Api!Optional]
<1>1. DOMAIN others = optional /\ \A k \in optional : others[k] = Api!Optional
  OBVIOUS
<1>2. /\ DOMAIN Api!OwnerReference = required \cup optional
      /\ \A k \in DOMAIN Api!OwnerReference :
           Api!OwnerReference[k] = IF k \in optional THEN Api!Optional ELSE Api!Required
  <2>1. Api!OwnerReference = Api!Table(Api!Required, required, others)
    BY DEF Api!OwnerReference
  <2> HIDE DEF required, optional, others
  <2>2. QED
    BY <1>1, <2>1 DEF Api!Table
<1>3. Api!Optional # Api!Required
  BY DEF Api!Optional, Api!Required, Api!Field
<1>4. f \in Objects(required, optional, << >>)
  BY DEF Owners
<1>5. required \subseteq DOMAIN f
  BY <1>4, ObjectsAre
<1>6. \A k \in DOMAIN Api!OwnerReference :
        /\ Api!OwnerReference[k] \in {Api!Optional, Api!Required}
        /\ Api!OwnerReference[k] = Api!Required => k \in required
  BY <1>2, <1>3
<1>7. "atom" \notin DOMAIN Api!OwnerReference /\ "array" \notin DOMAIN Api!OwnerReference
  BY <1>2
<1>8. DOMAIN f # {}
  BY <1>5
<1> HIDE DEF required, optional
<1>9. QED
  BY <1>2, <1>4, <1>6, <1>7, <1>8, PlainKept1

\* A time or the fields of an entry are written as {}.
LEMMA NothingAdded ==
  ASSUME NEW v
  PROVE  IsClass(<< >>) /\ Added0(<< >>, v)
<1>1. IsClass(<< >>)
  BY EmptyTuple DEF IsClass
<1>2. DOMAIN Round0(<< >>, v) = {}
  BY Keys0, EmptyTuple
<1>3. QED
  BY <1>1, <1>2 DEF Added0, Api!Within0

LEMMA NothingAdded1 ==
  ASSUME NEW v
  PROVE  Added1(<< >>, v)
<1>1. DOMAIN Round1(<< >>, v) = {}
  BY Keys1, EmptyTuple
<1>2. QED
  BY <1>1 DEF Added1, Api!Within1

LEMMA EntriesKept ==
  \A f \in Entries : Kept1(Api!ManagedFieldsEntry, f) /\ Added1(Api!ManagedFieldsEntry, f)
<1> SUFFICES ASSUME NEW f \in Entries
             PROVE  Kept1(Api!ManagedFieldsEntry, f) /\ Added1(Api!ManagedFieldsEntry, f)
  OBVIOUS
<1> DEFINE c      == Api!ManagedFieldsEntry
           keys   == {"manager", "operation", "apiVersion", "fieldsType", "subresource"}
           others == [time |-> Api!Object(Api!Time), fieldsV1 |-> Api!Object(Api!FieldsV1)]
<1>1. /\ DOMAIN others = {"time", "fieldsV1"}
      /\ \A k \in {"time", "fieldsV1"} : others[k] = Api!Object(<< >>)
  BY DEF Api!Time, Api!FieldsV1
<1>2. /\ DOMAIN c = keys \cup {"time", "fieldsV1"}
      /\ \A k \in DOMAIN c : c[k] = IF k \in {"time", "fieldsV1"} THEN Api!Object(<< >>) ELSE Api!Optional
  <2>1. c = Api!Table(Api!Optional, keys, others)
    BY DEF Api!ManagedFieldsEntry
  <2> HIDE DEF c, keys, others
  <2>2. QED
    BY <1>1, <2>1 DEF Api!Table
<1>3. /\ Api!Optional.kind = "optional" /\ Api!Optional.default = Api!None
      /\ Api!Object(<< >>).kind = "object" /\ Api!Object(<< >>).class = << >>
  BY DEF Api!Optional, Api!Object, Api!Field
<1>4. /\ f \in Objects({}, {"manager", "operation", "apiVersion", "time", "fieldsType", "subresource"},
                        [fieldsV1 |-> {[f |-> v] : v \in Atoms}])
      /\ Api!Truthy(f)
  BY DEF Entries, Said
<1>5. /\ DOMAIN f \subseteq keys \cup {"time", "fieldsV1"}
      /\ \A k \in DOMAIN f : k # "fieldsV1" => Api!IsAtom(f[k]) /\ f[k] # Api!None
      /\ "fieldsV1" \in DOMAIN f => DOMAIN f["fieldsV1"] = {"f"}
  <2>1. DOMAIN [fieldsV1 |-> {[f |-> v] : v \in Atoms}] = {"fieldsV1"}
        /\ [fieldsV1 |-> {[f |-> v] : v \in Atoms}]["fieldsV1"] = {[f |-> v] : v \in Atoms}
    OBVIOUS
  <2>2. /\ DOMAIN f \subseteq keys \cup {"time", "fieldsV1"}
        /\ \A k \in DOMAIN f : IF k = "fieldsV1" THEN f[k] \in {[f |-> v] : v \in Atoms}
                               ELSE Api!IsAtom(f[k]) /\ f[k] # Api!None
    BY <1>4, <2>1, ObjectsAre
  <2>3. QED
    BY <2>2
<1> HIDE DEF c
<1>6. IsClass(c)
  BY <1>2, <1>3 DEF IsClass, FieldKinds
<1>7. Suits(c, f)
  BY <1>2, <1>3, <1>4, <1>5, <1>6, NothingAdded DEF Suits
<1>8. Nested1(c, f)
  <2> SUFFICES ASSUME NEW k \in DOMAIN f, c[k].kind = "object"
               PROVE  /\ k \in Hidden /\ Added0(c[k].class, f[k])
                      /\ Api!Truthy(f[k])
    BY <1>2, <1>3, <1>5 DEF Nested1
  <2>1. k \in {"time", "fieldsV1"}
    BY <1>2, <1>3, <1>5
  <2>2. DOMAIN f[k] # {} /\ f[k] # Api!None
    BY <1>5, <2>1 DEF Api!IsAtom, Api!None, Api!Atom
  <2>3. QED
    BY <1>2, <1>3, <1>5, <2>1, <2>2, NothingAdded DEF Hidden, Api!Truthy
<1>9. QED
  BY <1>7, <1>8, Said1 DEF c

MetaTexts == {"name", "generateName", "namespace", "selfLink", "uid", "resourceVersion",
              "generation", "deletionGracePeriodSeconds", "labels", "annotations", "finalizers"}
MetaTimes == {"creationTimestamp", "deletionTimestamp"}
MetaLists == {"ownerReferences", "managedFields"}

LEMMA MetaFields ==
  ASSUME NEW c, c = Api!ObjectMeta
  PROVE  /\ DOMAIN c = MetaTexts \cup MetaTimes \cup MetaLists /\ IsClass(c)
         /\ \A k \in MetaTexts : c[k].kind = "optional" /\ c[k].default = Api!None
         /\ \A k \in MetaTimes : c[k].kind = "object" /\ c[k].class = << >>
         /\ \A k \in MetaLists : c[k].kind = "list"
         /\ c["ownerReferences"].class = Api!OwnerReference
         /\ c["managedFields"].class = Api!ManagedFieldsEntry
<1> DEFINE others == [creationTimestamp |-> Api!Object(Api!Time),
                      deletionTimestamp |-> Api!Object(Api!Time),
                      ownerReferences |-> Api!List(Api!OwnerReference),
                      managedFields |-> Api!List(Api!ManagedFieldsEntry)]
<1>1. /\ DOMAIN others = MetaTimes \cup MetaLists
      /\ \A k \in MetaTimes : others[k] = Api!Object(<< >>)
      /\ others["ownerReferences"] = Api!List(Api!OwnerReference)
      /\ others["managedFields"] = Api!List(Api!ManagedFieldsEntry)
  BY DEF Api!Time, MetaTimes, MetaLists
<1>2. /\ \A k \in MetaTexts : k \notin MetaTimes /\ k \notin MetaLists
      /\ "ownerReferences" \in MetaLists /\ "managedFields" \in MetaLists
      /\ \A k \in MetaLists : k = "ownerReferences" \/ k = "managedFields"
      /\ \A k \in MetaTexts \cup MetaTimes \cup MetaLists : k # "atom" /\ k # "array"
  BY DEF MetaTexts, MetaTimes, MetaLists
<1>3. /\ DOMAIN c = MetaTexts \cup MetaTimes \cup MetaLists
      /\ \A k \in MetaTexts : c[k] = Api!Optional
      /\ \A k \in MetaTimes : c[k] = Api!Object(<< >>)
      /\ c["ownerReferences"] = Api!List(Api!OwnerReference)
      /\ c["managedFields"] = Api!List(Api!ManagedFieldsEntry)
  <2>1. c = Api!Table(Api!Optional, MetaTexts, others)
    BY DEF Api!ObjectMeta, MetaTexts
  <2> HIDE DEF others
  <2>2. QED
    BY <1>1, <1>2, <2>1 DEF Api!Table
<1>4. /\ Api!Optional.kind = "optional" /\ Api!Optional.default = Api!None
      /\ Api!Object(<< >>).kind = "object" /\ Api!Object(<< >>).class = << >>
      /\ \A x : Api!List(x).kind = "list" /\ Api!List(x).class = x
  BY DEF Api!Optional, Api!Object, Api!List, Api!Field
<1>5. IsClass(c)
  BY <1>2, <1>3, <1>4 DEF IsClass, FieldKinds
<1>6. QED
  BY <1>2, <1>3, <1>4, <1>5

LEMMA MetaKept ==
  ASSUME NEW f \in MetaInputs
  PROVE  IF Api!Truthy(f) THEN Kept2(Api!ObjectMeta, f) /\ Added2(Api!ObjectMeta, f) /\ IsObject(f)
         ELSE DOMAIN f = {}
<1> DEFINE optional == MetaTexts \cup MetaTimes
           arrays   == [ownerReferences |-> Arrays(Owners), managedFields |-> Arrays(Entries)]
<1>1. PICK c : c = Api!ObjectMeta
  OBVIOUS
<1>2. /\ DOMAIN c = MetaTexts \cup MetaTimes \cup MetaLists /\ IsClass(c)
      /\ \A k \in MetaTexts : c[k].kind = "optional" /\ c[k].default = Api!None
      /\ \A k \in MetaTimes : c[k].kind = "object" /\ c[k].class = << >>
      /\ \A k \in MetaLists : c[k].kind = "list"
      /\ c["ownerReferences"].class = Api!OwnerReference
      /\ c["managedFields"].class = Api!ManagedFieldsEntry
  BY <1>1, MetaFields
<1>4. f \in Objects({}, optional, arrays)
  BY DEF MetaInputs, MetaTexts, MetaTimes
<1>5. DOMAIN arrays = MetaLists /\ arrays["ownerReferences"] = Arrays(Owners)
      /\ arrays["managedFields"] = Arrays(Entries)
  BY DEF MetaLists
<1>6. /\ \A k \in optional : k \notin MetaLists
      /\ "ownerReferences" \in MetaLists /\ "managedFields" \in MetaLists
      /\ \A k \in MetaLists : k = "ownerReferences" \/ k = "managedFields"
  BY DEF MetaTexts, MetaTimes, MetaLists
<1>7. /\ DOMAIN f \subseteq DOMAIN c
      /\ \A k \in DOMAIN f : k \in optional => Api!IsAtom(f[k]) /\ f[k] # Api!None
      /\ "ownerReferences" \in DOMAIN f => f["ownerReferences"] \in Arrays(Owners)
      /\ "managedFields" \in DOMAIN f => f["managedFields"] \in Arrays(Entries)
  <2> HIDE DEF arrays
  <2>1. DOMAIN f \subseteq {} \cup optional \cup DOMAIN arrays
        /\ \A k \in DOMAIN f : IF k \in DOMAIN arrays THEN f[k] \in arrays[k]
                               ELSE Api!IsAtom(f[k]) /\ f[k] # Api!None
    BY <1>4, ObjectsAre
  <2>2. QED
    BY <1>2, <1>5, <1>6, <2>1
<1>8. "atom" \notin DOMAIN c /\ "array" \notin DOMAIN c
  BY <1>2 DEF IsClass
<1>9. f # Api!None
  BY <1>7, <1>8 DEF Api!None, Api!Atom
<1> HIDE DEF arrays, optional
<1>10. ASSUME Api!Truthy(f)
       PROVE  Kept2(c, f) /\ Added2(c, f) /\ IsObject(f)
  <2>1. \A k \in DOMAIN f : \/ k \in optional /\ c[k].kind \in {"optional", "object"}
                            \/ k \in MetaLists /\ c[k].kind = "list"
    BY <1>2, <1>7 DEF optional
  <2>2. Suits(c, f)
    <3>1. \A k \in DOMAIN c : /\ c[k].kind \in {"optional", "object", "list"}
                              /\ c[k].kind = "optional" => c[k].default = Api!None
                              /\ c[k].kind = "object" => c[k].class = << >>
      BY <1>2
    <3>2. \A k \in DOMAIN f : c[k].kind = "list" => Api!IsArray(f[k])
      BY <1>6, <1>7, <2>1, ArraysAre
    <3>3. \A k \in DOMAIN f : c[k].kind = "optional" => k \in optional
      BY <2>1
    <3>4. QED
      BY <1>2, <1>7, <1>10, <3>1, <3>2, <3>3, NothingAdded DEF Suits
  <2>3. Nested2(c, f)
    <3>1. ASSUME NEW k \in DOMAIN f, c[k].kind = "object"
          PROVE  k \in Hidden /\ Added1(c[k].class, f[k]) /\ Api!Truthy(f[k])
      <4>1. k \in MetaTimes
        BY <1>2, <1>7, <3>1
      <4>2. Api!IsAtom(f[k]) /\ f[k] # Api!None
        BY <1>7, <2>1, <3>1
      <4>3. DOMAIN f[k] # {}
        BY <4>2 DEF Api!IsAtom
      <4>4. QED
        BY <1>2, <4>1, <4>2, <4>3, NothingAdded1 DEF Hidden, Api!Truthy, MetaTimes
    <3>2. ASSUME NEW k \in DOMAIN f, c[k].kind = "list", NEW i \in DOMAIN f[k].array
          PROVE  Kept1(c[k].class, f[k].array[i]) /\ Added1(c[k].class, f[k].array[i])
      <4>1. k \in MetaLists
        BY <2>1, <3>2
      <4>2. CASE k = "ownerReferences"
        BY <1>2, <1>7, <3>2, <4>2, ArraysAre, OwnersKept
      <4>3. CASE k = "managedFields"
        BY <1>2, <1>7, <3>2, <4>3, ArraysAre, EntriesKept
      <4>4. QED
        BY <1>6, <4>1, <4>2, <4>3
    <3>3. QED
      BY <3>1, <3>2 DEF Nested2
  <2>4. QED
    BY <1>7, <1>8, <2>2, <2>3, Said2 DEF IsObject
<1>11. QED
  BY <1>1, <1>9, <1>10 DEF Api!Truthy

StatusKeys == {"health", "message", "lastPollTime", "lastTransactionId", "lastUserEventMs",
               "transactionsProcessed", "kcEventsProcessed", "version"}

LEMMA StatusFields ==
  ASSUME NEW c, c = Api!UserAuditConfigStatus
  PROVE  /\ DOMAIN c = StatusKeys \cup {"logFiles", "subsystems"}
         /\ \A k \in StatusKeys : c[k].kind = "optional" /\ c[k].default = Api!None
         /\ c["logFiles"].kind = "list" /\ c["logFiles"].class = Api!LogFileInfo
         /\ c["subsystems"].kind = "object" /\ c["subsystems"].class = Api!SubsystemHealth
         /\ IsClass(c) /\ IsClass(Api!SubsystemHealth)
<1> DEFINE others == [logFiles |-> Api!List(Api!LogFileInfo),
                      subsystems |-> Api!Object(Api!SubsystemHealth)]
<1>1. /\ DOMAIN others = {"logFiles", "subsystems"}
      /\ others["logFiles"] = Api!List(Api!LogFileInfo)
      /\ others["subsystems"] = Api!Object(Api!SubsystemHealth)
  OBVIOUS
<1>2. "logFiles" \notin StatusKeys /\ "subsystems" \notin StatusKeys
      /\ "atom" \notin StatusKeys /\ "array" \notin StatusKeys
  BY DEF StatusKeys
<1>3. /\ DOMAIN c = StatusKeys \cup {"logFiles", "subsystems"}
      /\ \A k \in StatusKeys : c[k] = Api!Optional
      /\ c["logFiles"] = Api!List(Api!LogFileInfo)
      /\ c["subsystems"] = Api!Object(Api!SubsystemHealth)
  <2>1. c = Api!Table(Api!Optional, StatusKeys, others)
    BY DEF Api!UserAuditConfigStatus, StatusKeys
  <2> HIDE DEF others
  <2>2. QED
    BY <1>1, <1>2, <2>1 DEF Api!Table
<1>4. /\ Api!Optional.kind = "optional" /\ Api!Optional.default = Api!None
      /\ Api!Object(Api!SubsystemHealth).kind = "object"
      /\ Api!Object(Api!SubsystemHealth).class = Api!SubsystemHealth
      /\ Api!List(Api!LogFileInfo).kind = "list"
      /\ Api!List(Api!LogFileInfo).class = Api!LogFileInfo
  BY DEF Api!Optional, Api!Object, Api!List, Api!Field
<1>5. IsClass(c)
  BY <1>2, <1>3, <1>4 DEF IsClass, FieldKinds
<1>6. IsClass(Api!SubsystemHealth)
  <2>1. /\ DOMAIN Api!SubsystemHealth = {"edaApi", "keycloakEvents"}
        /\ \A k \in {"edaApi", "keycloakEvents"} : Api!SubsystemHealth[k] = Api!Optional
    BY DEF Api!SubsystemHealth
  <2>2. QED
    BY <2>1, PlainClass
<1>7. QED
  BY <1>3, <1>4, <1>5, <1>6

LEMMA StatusKept ==
  ASSUME NEW f \in StatusInputs
  PROVE  IF Api!Truthy(f) THEN /\ Kept2(Api!UserAuditConfigStatus, f)
                               /\ Added2(Api!UserAuditConfigStatus, f) /\ IsObject(f)
         ELSE DOMAIN f = {}
<1> DEFINE inputs == [logFiles |-> Arrays(Files), subsystems |-> Subsystems]
<1>1. PICK c : c = Api!UserAuditConfigStatus
  OBVIOUS
<1>2. /\ DOMAIN inputs = {"logFiles", "subsystems"}
      /\ inputs["logFiles"] = Arrays(Files) /\ inputs["subsystems"] = Subsystems
      /\ "logFiles" \notin StatusKeys /\ "subsystems" \notin StatusKeys
  BY DEF StatusKeys
<1>3. /\ DOMAIN c = StatusKeys \cup {"logFiles", "subsystems"}
      /\ \A k \in StatusKeys : c[k].kind = "optional" /\ c[k].default = Api!None
      /\ c["logFiles"].kind = "list" /\ c["logFiles"].class = Api!LogFileInfo
      /\ c["subsystems"].kind = "object" /\ c["subsystems"].class = Api!SubsystemHealth
      /\ IsClass(c) /\ IsClass(Api!SubsystemHealth)
  BY <1>1, StatusFields
<1>4. f \in Objects({}, StatusKeys, inputs)
  BY DEF StatusInputs, StatusKeys
<1>5. "atom" \notin DOMAIN c /\ "array" \notin DOMAIN c
  BY <1>3 DEF IsClass
<1> HIDE DEF inputs
<1>6. /\ DOMAIN f \subseteq DOMAIN c
      /\ \A k \in DOMAIN f : k \in StatusKeys => Api!IsAtom(f[k]) /\ f[k] # Api!None
      /\ "logFiles" \in DOMAIN f => f["logFiles"] \in Arrays(Files)
      /\ "subsystems" \in DOMAIN f => f["subsystems"] \in Subsystems
  <2>1. DOMAIN f \subseteq {} \cup StatusKeys \cup DOMAIN inputs
        /\ \A k \in DOMAIN f : IF k \in DOMAIN inputs THEN f[k] \in inputs[k]
                               ELSE Api!IsAtom(f[k]) /\ f[k] # Api!None
    BY <1>4, ObjectsAre
  <2>2. QED
    BY <1>2, <1>3, <2>1
<1>7. f # Api!None
  BY <1>5, <1>6 DEF Api!None, Api!Atom
<1>8. ASSUME Api!Truthy(f)
       PROVE  Kept2(c, f) /\ Added2(c, f) /\ IsObject(f)
  <2>1. \A k \in DOMAIN f : \/ k \in StatusKeys /\ c[k].kind = "optional"
                            \/ k = "logFiles" /\ c[k].kind = "list"
                            \/ k = "subsystems" /\ c[k].kind = "object"
    BY <1>3, <1>6
  <2>2. Suits(c, f)
    <3>1. \A k \in DOMAIN c : /\ c[k].kind \in {"optional", "object", "list"}
                              /\ c[k].kind = "optional" => c[k].default = Api!None
                              /\ c[k].kind = "object" => c[k].class = Api!SubsystemHealth
      BY <1>3
    <3>2. \A k \in DOMAIN f : c[k].kind = "list" => Api!IsArray(f[k])
      BY <1>6, <2>1, ArraysAre
    <3>3. \A k \in DOMAIN f : c[k].kind = "optional" => k \in StatusKeys
      BY <2>1
    <3>4. QED
      BY <1>3, <1>6, <1>8, <3>1, <3>2, <3>3 DEF Suits
  <2>3. Nested2(c, f)
    <3>1. ASSUME NEW k \in DOMAIN f, c[k].kind = "object"
          PROVE  IF Api!Truthy(f[k])
                 THEN Kept1(c[k].class, f[k]) /\ Added1(c[k].class, f[k]) /\ IsObject(f[k])
                 ELSE DOMAIN f[k] = {}
      BY <1>3, <1>6, <2>1, <3>1, SubsystemsKept
    <3>2. ASSUME NEW k \in DOMAIN f, c[k].kind = "list", NEW i \in DOMAIN f[k].array
          PROVE  Kept1(c[k].class, f[k].array[i]) /\ Added1(c[k].class, f[k].array[i])
      BY <1>3, <1>6, <2>1, <3>2, ArraysAre, FilesKept
    <3>3. QED
      BY <3>1, <3>2 DEF Nested2
  <2>4. QED
    BY <1>5, <1>6, <2>2, <2>3, Said2 DEF IsObject
<1>9. QED
  BY <1>1, <1>7, <1>8 DEF Api!Truthy

LEMMA SpecFields ==
  ASSUME NEW c, c = Api!UserAuditConfigSpec
  PROVE  /\ DOMAIN c = {"pollIntervalSeconds", "retentionMonths"}
         /\ \A k \in {"pollIntervalSeconds", "retentionMonths"} : c[k].kind = "optional"
         /\ IsClass(c)
<1>1. /\ DOMAIN c = {"pollIntervalSeconds", "retentionMonths"}
      /\ \A k \in {"pollIntervalSeconds", "retentionMonths"} : c[k].kind = "optional"
  BY DEF Api!UserAuditConfigSpec, Api!Defaulted, Api!Field
<1>2. QED
  BY <1>1 DEF IsClass, FieldKinds

\* The defaults of a specification are written beside what it says.
LEMMA SpecKept ==
  ASSUME NEW f \in SpecInputs
  PROVE  IF Api!Truthy(f) THEN Kept2(Api!UserAuditConfigSpec, f) /\ IsObject(f)
         ELSE DOMAIN f = {}
<1> DEFINE c    == Api!UserAuditConfigSpec
           keys == {"pollIntervalSeconds", "retentionMonths"}
<1>1. DOMAIN c = keys /\ (\A k \in keys : c[k].kind = "optional") /\ IsClass(c)
  BY SpecFields
<1>3. DOMAIN f \subseteq keys /\ \A k \in DOMAIN f : Api!IsAtom(f[k]) /\ f[k] # Api!None
  <2>1. f \in Objects({}, keys, << >>)
    BY DEF SpecInputs
  <2>2. QED
    BY <2>1, ObjectsAre, EmptyTuple
<1>4. f # Api!None
  BY <1>3 DEF Api!None, Api!Atom
<1>5. IsObject(f)
  BY <1>3 DEF IsObject
<1> HIDE DEF c
<1>6. ASSUME Api!Truthy(f)
      PROVE  Kept2(c, f)
  <2>1. \A k \in DOMAIN f : k \in DOMAIN Round2(c, f) /\ Round2(c, f)[k] = f[k]
    BY <1>1, <1>3, <1>6, PlainField2
  <2>2. QED
    BY <1>3, <2>1 DEF Kept2, Api!Within2, Api!Says, Api!Get
<1>7. QED
  BY <1>4, <1>5, <1>6 DEF Api!Truthy, c

-----------------------------------------------------------------------------
\* A configuration, and a list of two.

ConfigKeys == {"kind", "apiVersion", "metadata", "spec", "status"}

LEMMA ConfigFields ==
  ASSUME NEW c, c = Api!UserAuditConfig
  PROVE  /\ DOMAIN c = ConfigKeys /\ IsClass(c)
         /\ \A k \in {"kind", "apiVersion"} : c[k].kind = "optional" /\ c[k].default = Api!None
         /\ c["metadata"].kind = "meta" /\ c["metadata"].class = Api!ObjectMeta
         /\ c["spec"].kind = "object" /\ c["spec"].class = Api!UserAuditConfigSpec
         /\ c["status"].kind = "object" /\ c["status"].class = Api!UserAuditConfigStatus
<1>1. /\ DOMAIN c = ConfigKeys
      /\ c["kind"] = Api!Optional /\ c["apiVersion"] = Api!Optional
      /\ c["metadata"] = Api!Meta(Api!ObjectMeta)
      /\ c["spec"] = Api!Object(Api!UserAuditConfigSpec)
      /\ c["status"] = Api!Object(Api!UserAuditConfigStatus)
  BY DEF Api!UserAuditConfig, ConfigKeys
<1>2. \A x : /\ Api!Meta(x).kind = "meta" /\ Api!Meta(x).class = x
             /\ Api!Object(x).kind = "object" /\ Api!Object(x).class = x
  BY DEF Api!Meta, Api!Object, Api!Field
<1>3. Api!Optional.kind = "optional" /\ Api!Optional.default = Api!None
  BY DEF Api!Optional, Api!Field
<1>4. IsClass(c)
  BY <1>1, <1>2, <1>3 DEF IsClass, FieldKinds, ConfigKeys
<1>5. QED
  BY <1>1, <1>2, <1>3, <1>4

ResourceParts(obj) ==
  /\ Api!Truthy(obj) /\ DOMAIN obj \subseteq ConfigKeys
  /\ \A k \in DOMAIN obj : k \in {"kind", "apiVersion"} => Api!IsAtom(obj[k]) /\ obj[k] # Api!None
  /\ "metadata" \in DOMAIN obj => obj["metadata"] \in MetaInputs
  /\ "spec" \in DOMAIN obj => obj["spec"] \in SpecInputs
  /\ "status" \in DOMAIN obj => obj["status"] \in StatusInputs

LEMMA ResourcesAre == ASSUME NEW obj \in Resources PROVE ResourceParts(obj)
<1> DEFINE inputs == [metadata |-> MetaInputs, spec |-> SpecInputs, status |-> StatusInputs]
<1>1. /\ DOMAIN inputs = {"metadata", "spec", "status"}
      /\ inputs["metadata"] = MetaInputs /\ inputs["spec"] = SpecInputs
      /\ inputs["status"] = StatusInputs
  OBVIOUS
<1>2. obj \in Objects({}, {"kind", "apiVersion"}, inputs) /\ Api!Truthy(obj)
  BY DEF Resources, Said
<1> HIDE DEF inputs
<1>3. DOMAIN obj \subseteq {} \cup {"kind", "apiVersion"} \cup DOMAIN inputs
      /\ \A k \in DOMAIN obj : IF k \in DOMAIN inputs THEN obj[k] \in inputs[k]
                               ELSE Api!IsAtom(obj[k]) /\ obj[k] # Api!None
  BY <1>2, ObjectsAre
<1>4. QED
  BY <1>1, <1>2, <1>3 DEF ResourceParts, ConfigKeys

\* A metadata without fields is written when there is none.
LEMMA MetaClass ==
  /\ IsClass(Api!ObjectMeta)
  /\ \A k \in DOMAIN Api!ObjectMeta : Api!ObjectMeta[k].kind # "required"
<1>1. PICK c : c = Api!ObjectMeta
  OBVIOUS
<1>2. QED
  BY <1>1, MetaFields

LEMMA MetaFieldWritten ==
  ASSUME NEW obj, ResourceParts(obj), NEW r, r = Round3(Api!UserAuditConfig, obj)
  PROVE  /\ "metadata" \in DOMAIN r
         /\ IF "metadata" \in DOMAIN obj /\ Api!Truthy(obj["metadata"])
            THEN r["metadata"] = Round2(Api!ObjectMeta, obj["metadata"])
            ELSE DOMAIN r["metadata"] = {}
<1>1. PICK c : c = Api!UserAuditConfig
  OBVIOUS
<1>2. /\ IsClass(c) /\ "metadata" \in DOMAIN c
      /\ c["metadata"].kind = "meta" /\ c["metadata"].class = Api!ObjectMeta
  BY <1>1, ConfigFields DEF ConfigKeys
<1>3. PICK self : self = Api!FromInput3(c, obj)
  OBVIOUS
<1>4. Api!Truthy(obj) /\ "name" \notin DOMAIN obj
  BY DEF ResourceParts, ConfigKeys
<1>5. self["metadata"] = Api!Read(c["metadata"], "metadata", obj, Api!FromInput2)
  BY <1>2, <1>3, <1>4, Made3
<1>6. Api!Write(c["metadata"], self["metadata"], Api!ToInput2) =
        Api!ToInput2(Api!ObjectMeta, self["metadata"])
  BY <1>2 DEF Api!Write
<1>7. r = Api!ToInput3(c, self)
  BY <1>1, <1>3 DEF Round3
<1>8. CASE "metadata" \in DOMAIN obj /\ Api!Truthy(obj["metadata"])
  <2>1. self["metadata"] = Api!FromInput2(Api!ObjectMeta, obj["metadata"])
    BY <1>2, <1>5, <1>8 DEF Api!Read, Api!Get
  <2>2. self["metadata"] # Api!None
    BY <1>8, <2>1, Made2, MetaClass
  <2>3. QED
    BY <1>2, <1>6, <1>7, <1>8, <2>1, <2>2, Written3 DEF Round2
<1>9. CASE ~("metadata" \in DOMAIN obj /\ Api!Truthy(obj["metadata"]))
  <2>1. ~Api!Truthy(Api!Get(obj, "metadata")) /\ Api!Get(obj, "name") = Api!None
    BY <1>4, <1>9 DEF Api!Get, Api!Truthy
  <2>2. self["metadata"] = Api!FromName(Api!ObjectMeta, Api!None)
    BY <1>2, <1>5, <2>1 DEF Api!Read
  <2>3. /\ DOMAIN self["metadata"] = DOMAIN Api!ObjectMeta
        /\ \A k \in DOMAIN Api!ObjectMeta : self["metadata"][k] = Api!None
    BY <2>2 DEF Api!FromName
  <2>4. self["metadata"] # Api!None
    BY <2>3, MetaClass DEF IsClass, Api!None, Api!Atom
  <2>5. DOMAIN Api!ToInput2(Api!ObjectMeta, self["metadata"]) = {}
    BY <2>3, MetaClass DEF Api!ToInput2, Api!ToInput
  <2>6. QED
    BY <1>2, <1>6, <1>7, <1>9, <2>4, <2>5, Written3
<1>10. QED
  BY <1>8, <1>9

LEMMA ConfigKept ==
  ASSUME NEW obj, ResourceParts(obj), NEW r, r = Round3(Api!UserAuditConfig, obj)
  PROVE  /\ Api!Within3(obj, r, Hidden)
         /\ Api!Within3(r, obj, {"spec"})
         /\ "spec" \in DOMAIN r <=> Api!Truthy(Api!Get(obj, "spec"))
<1>1. PICK c : c = Api!UserAuditConfig
  OBVIOUS
<1>2. /\ DOMAIN c = ConfigKeys /\ IsClass(c) /\ Api!Truthy(obj)
      /\ DOMAIN obj \subseteq ConfigKeys /\ DOMAIN r \subseteq ConfigKeys
  BY <1>1, ConfigFields, Keys3 DEF ResourceParts
<1>3. \A k \in {"kind", "apiVersion"} :
        IF k \in DOMAIN obj
        THEN Api!IsAtom(obj[k]) /\ k \in DOMAIN r /\ r[k] = obj[k]
        ELSE k \notin DOMAIN r
  BY <1>1, <1>2, ConfigFields, PlainField3 DEF ResourceParts, ConfigKeys
<1>4. /\ "spec" \in DOMAIN r <=> "spec" \in DOMAIN obj /\ Api!Truthy(obj["spec"])
      /\ "spec" \in DOMAIN r => r["spec"] = Round2(Api!UserAuditConfigSpec, obj["spec"])
  BY <1>1, <1>2, ConfigFields, SpecFields, ObjectField3 DEF ConfigKeys
<1>5. /\ "status" \in DOMAIN r <=> "status" \in DOMAIN obj /\ Api!Truthy(obj["status"])
      /\ "status" \in DOMAIN r => r["status"] = Round2(Api!UserAuditConfigStatus, obj["status"])
  BY <1>1, <1>2, ConfigFields, StatusFields, ObjectField3 DEF ConfigKeys
<1>6. "spec" \in DOMAIN obj => IF Api!Truthy(obj["spec"])
                               THEN Kept2(Api!UserAuditConfigSpec, obj["spec"]) /\ IsObject(obj["spec"])
                               ELSE DOMAIN obj["spec"] = {}
  BY SpecKept DEF ResourceParts
<1>7. "status" \in DOMAIN obj => IF Api!Truthy(obj["status"])
                                 THEN /\ Kept2(Api!UserAuditConfigStatus, obj["status"])
                                      /\ Added2(Api!UserAuditConfigStatus, obj["status"])
                                      /\ IsObject(obj["status"])
                                 ELSE DOMAIN obj["status"] = {}
  BY StatusKept DEF ResourceParts
<1>8. "metadata" \in DOMAIN obj => IF Api!Truthy(obj["metadata"])
                                   THEN /\ Kept2(Api!ObjectMeta, obj["metadata"])
                                        /\ Added2(Api!ObjectMeta, obj["metadata"])
                                        /\ IsObject(obj["metadata"])
                                   ELSE DOMAIN obj["metadata"] = {}
  BY MetaKept DEF ResourceParts
<1>9. Api!Within3(obj, r, Hidden)
  <2> SUFFICES ASSUME NEW k \in DOMAIN obj
               PROVE  Api!Says(obj[k], Api!Get(r, k), Hidden, Api!Within2)
    BY DEF Api!Within3
  <2>1. \A v, w : DOMAIN v = {} => Api!Says(v, w, Hidden, Api!Within2)
    BY DEF Api!Says, Api!IsAtom, Api!IsArray, Api!Within2
  <2>2. \A v, w : IsObject(v) /\ Api!Within2(v, w, Hidden) => Api!Says(v, w, Hidden, Api!Within2)
    BY DEF Api!Says, Api!IsAtom, Api!IsArray, IsObject
  <2>3. CASE k \in {"kind", "apiVersion"}
    BY <1>3, <2>3 DEF Api!Says, Api!Get
  <2>4. CASE k = "metadata"
    BY <1>8, <2>1, <2>2, <2>4, MetaFieldWritten DEF Api!Get, Kept2
  <2>5. CASE k = "spec"
    BY <1>4, <1>6, <2>1, <2>2, <2>5 DEF Api!Get, Kept2
  <2>6. CASE k = "status"
    BY <1>5, <1>7, <2>1, <2>2, <2>6 DEF Api!Get, Kept2
  <2>7. QED
    BY <1>2, <2>3, <2>4, <2>5, <2>6 DEF ConfigKeys
<1>10. Api!Within3(r, obj, {"spec"})
  <2> SUFFICES ASSUME NEW k \in DOMAIN r \ {"spec"}
               PROVE  Api!Says(r[k], Api!Get(obj, k), {"spec"}, Api!Within2)
    BY DEF Api!Within3
  <2>1. \A v, w : DOMAIN v = {} => Api!Says(v, w, {"spec"}, Api!Within2)
    BY DEF Api!Says, Api!IsAtom, Api!IsArray, Api!Within2
  <2>2. \A v, w : IsObject(v) /\ Api!Within2(v, w, {"spec"}) => Api!Says(v, w, {"spec"}, Api!Within2)
    BY DEF Api!Says, Api!IsAtom, Api!IsArray, IsObject
  <2>3. CASE k \in {"kind", "apiVersion"}
    BY <1>3, <2>3 DEF Api!Says, Api!Get
  <2>4. CASE k = "metadata"
    <3>1. IsObject(Round2(Api!ObjectMeta, obj["metadata"]))
      BY Keys2, MetaClass DEF IsObject, IsClass
    <3>2. QED
      BY <1>8, <2>1, <2>2, <2>4, <3>1, MetaFieldWritten DEF Api!Get, Added2
  <2>5. CASE k = "status"
    <3>1. IsObject(Round2(Api!UserAuditConfigStatus, obj["status"]))
      BY Keys2, StatusFields DEF IsObject, IsClass
    <3>2. QED
      BY <1>5, <1>7, <2>2, <2>5, <3>1 DEF Api!Get, Added2
  <2>6. QED
    BY <1>2, <2>3, <2>4, <2>5 DEF ConfigKeys
<1>11. ~Api!Truthy(Api!None)
  BY DEF Api!Truthy
<1>12. QED
  BY <1>4, <1>9, <1>10, <1>11 DEF Api!Get

LEMMA TwoInAList ==
  ASSUME NEW obj, NEW l, l = [items |-> Api!Array(<<obj, obj>>)]
  PROVE  Api!RoundTripList(l) = [items |-> Api!Array(<<Api!RoundTrip(obj), Api!RoundTrip(obj)>>)]
<1> DEFINE c == Api!UserAuditConfigList
<1>1. PICK self : self = Api!FromInput4(c, l)
  OBVIOUS
<1>2. DOMAIN l = {"items"} /\ Api!Truthy(l) /\ l["items"] = Api!Array(<<obj, obj>>)
  BY DEF Api!Truthy, Api!None, Api!Atom
<1>3. /\ DOMAIN c = {"kind", "apiVersion", "metadata", "items"}
      /\ \A k \in {"kind", "apiVersion"} : c[k].kind = "optional" /\ c[k].default = Api!None
      /\ c["metadata"].kind = "object"
      /\ c["items"].kind = "list" /\ c["items"].class = Api!UserAuditConfig
  BY DEF Api!UserAuditConfigList, Api!Optional, Api!Object, Api!List, Api!Field
<1> HIDE DEF c
<1>4. /\ DOMAIN self = DOMAIN c
      /\ \A k \in DOMAIN c : self[k] = Api!Read(c[k], k, l, Api!FromInput3)
  <2>1. self = [k \in DOMAIN c |-> Api!Read(c[k], k, l, Api!FromInput3)]
    BY <1>1, <1>2 DEF Api!FromInput4, Api!FromInput
  <2>2. QED
    BY <2>1
<1>5. self["kind"] = Api!None /\ self["apiVersion"] = Api!None
  BY <1>2, <1>3, <1>4 DEF Api!Read
<1>6. self["metadata"] = Api!None
  <2>1. self["metadata"] = Api!FromInput3(c["metadata"].class, Api!None)
    BY <1>2, <1>3, <1>4 DEF Api!Read, Api!Get
  <2>2. QED
    BY <2>1 DEF Api!FromInput3, Api!FromInput, Api!Truthy
<1>7. PICK read : read = Api!FromInput3(Api!UserAuditConfig, obj)
  OBVIOUS
<1>8. self["items"] = Api!Array(<<read, read>>)
  <2>1. Api!Array(<<obj, obj>>) # Api!None /\ Api!Array(<<obj, obj>>).array = <<obj, obj>>
    BY ArrayIsNoAtom, ArrayParts
  <2>2. self["items"] = Api!Read(c["items"], "items", l, Api!FromInput3)
    BY <1>3, <1>4
  <2>3. self["items"] = Api!Array([i \in DOMAIN <<obj, obj>> |->
                                     Api!FromInput3(Api!UserAuditConfig, <<obj, obj>>[i])])
    BY <1>2, <1>3, <2>1, <2>2 DEF Api!Read, Api!Get
  <2>4. [i \in DOMAIN <<obj, obj>> |-> Api!FromInput3(Api!UserAuditConfig, <<obj, obj>>[i])] =
          <<read, read>>
    BY <1>7
  <2>5. QED
    BY <2>3, <2>4
<1>9. Api!RoundTripList(l) = Api!ToInput4(c, self)
  BY <1>1 DEF Api!RoundTripList, c
<1>10. /\ DOMAIN Api!ToInput4(c, self) = {"items"}
       /\ Api!ToInput4(c, self)["items"] = Api!Write(c["items"], self["items"], Api!ToInput3)
  <2>1. self["items"] # Api!None
    BY <1>8, ArrayIsNoAtom
  <2>2. {k \in DOMAIN c : self[k] # Api!None \/ c[k].kind = "required"} = {"items"}
    BY <1>3, <1>5, <1>6, <2>1
  <2>3. Api!ToInput4(c, self) = [k \in {"items"} |-> Api!Write(c[k], self[k], Api!ToInput3)]
    BY <2>2 DEF Api!ToInput4, Api!ToInput
  <2>4. QED
    BY <2>3
<1>11. PICK written : written = Api!ToInput3(Api!UserAuditConfig, read)
  OBVIOUS
<1>12. Api!Write(c["items"], self["items"], Api!ToInput3) = Api!Array(<<written, written>>)
  <2>1. self["items"].array = <<read, read>>
    BY <1>8, ArrayParts
  <2>2. Api!Write(c["items"], self["items"], Api!ToInput3) =
          Api!Array([i \in DOMAIN <<read, read>> |->
                       Api!ToInput3(Api!UserAuditConfig, <<read, read>>[i])])
    BY <1>3, <2>1 DEF Api!Write
  <2>3. [i \in DOMAIN <<read, read>> |-> Api!ToInput3(Api!UserAuditConfig, <<read, read>>[i])] =
          <<written, written>>
    BY <1>11
  <2>4. QED
    BY <2>2, <2>3
<1>13. written = Api!RoundTrip(obj)
  BY <1>7, <1>11 DEF Api!RoundTrip
<1>14. Api!ToInput4(c, self) = [k \in {"items"} |-> Api!Array(<<written, written>>)]
  BY <1>10, <1>12 DEF Api!ToInput4, Api!ToInput
<1>15. QED
  BY <1>9, <1>13, <1>14

(* A script that reads a UserAuditConfig and writes it back loses no value *)
(* but times and the opaque managed fields, and adds none but the defaults *)
(* of a specification that says something, whatever fields of the schema   *)
(* the resource has and however many files, owners and entries: every      *)
(* class that nothing else is nested in keeps what it reads, and so do, a  *)
(* level at a time, the classes that have those for fields.                *)
THEOREM RoundTrips == Spec => []RoundTripsKeepValues
<1>0. call.kind # "resource" => RoundTripsKeepValues
  BY DEF RoundTripsKeepValues
<1>1. Init => RoundTripsKeepValues
  BY <1>0 DEF Init, Idle
<1>2. RoundTripsKeepValues /\ [Next]_vars => RoundTripsKeepValues'
  <2> SUFFICES ASSUME RoundTripsKeepValues, [Next]_vars
               PROVE  RoundTripsKeepValues'
    OBVIOUS
  <2>0. call'.kind # "resource" => RoundTripsKeepValues'
    BY DEF RoundTripsKeepValues
  <2>1. CASE ReadAndWrite
    <3>1. PICK obj \in Resources :
            /\ call' = [kind |-> "resource", obj |-> obj]
            /\ result' = [once |-> Api!RoundTrip(obj),
                          list |-> Api!RoundTripList([items |-> Api!Array(<<obj, obj>>)])]
      BY <2>1 DEF ReadAndWrite
    <3>2. PICK once : once = Api!RoundTrip(obj)
      OBVIOUS
    <3>3. once = Round3(Api!UserAuditConfig, obj)
      BY <3>2 DEF Round3, Api!RoundTrip
    <3>4. /\ Api!Within3(obj, once, Hidden) /\ Api!Within3(once, obj, {"spec"})
          /\ "spec" \in DOMAIN once <=> Api!Truthy(Api!Get(obj, "spec"))
      BY <3>3, ResourcesAre, ConfigKept
    <3>5. Api!RoundTripList([items |-> Api!Array(<<obj, obj>>)]) =
            [items |-> Api!Array(<<once, once>>)]
      BY <3>2, TwoInAList
    <3>6. call'.obj = obj /\ result'.once = once /\ result'.list = [items |-> Api!Array(<<once, once>>)]
      BY <3>1, <3>2, <3>5
    <3>7. QED
      BY <3>4, <3>6 DEF RoundTripsKeepValues, Hidden
  <2>2. CASE UNCHANGED vars
    BY <2>2 DEF vars, RoundTripsKeepValues
  <2>3. QED
    BY <2>0, <2>1, <2>2, OneKindOfCall
<1>3. QED
  BY <1>1, <1>2, PTL DEF Spec

-----------------------------------------------------------------------------
\* Health.  First what is counted and summed: induction over a set of numbers, the members of
\* a finite set in an order, and the total of a list.

LEMMA NatSet ==
  ASSUME NEW T, 0 \in T, \A k \in Nat : k \in T => k + 1 \in T
  PROVE  \A n \in Nat : n \in T
<1>1. SUFFICES ASSUME Nat \ T # {} PROVE FALSE
  OBVIOUS
<1>2. PICK x \in Nat \ T : \A y \in Nat \ T : ~(<<y, x>> \in OpToRel(<, Nat))
  BY <1>1, WFMin, NatLessThanWellFounded
<1>3. x # 0 /\ x - 1 \in Nat
  OBVIOUS
<1>4. x - 1 \notin T
  <2>1. (x - 1) + 1 = x
    BY <1>3
  <2>2. QED
    BY <1>3, <2>1
<1>5. <<x - 1, x>> \in OpToRel(<, Nat)
  BY <1>3 DEF OpToRel
<1>6. QED
  BY <1>2, <1>3, <1>4, <1>5

StrictOrder(S, R) ==
  \A x, y \in S :
    /\ <<x, y>> \in R => <<y, x>> \notin R
    /\ x = y \/ <<x, y>> \in R \/ <<y, x>> \in R
    /\ \A z \in S : <<x, y>> \in R /\ <<y, z>> \in R => <<x, z>> \in R

InOrderOf(at, S, R) ==
  /\ at \in [1..Cardinality(S) -> S]
  /\ \A m, n \in 1..Cardinality(S) : m < n => <<at[m], at[n]>> \in R
  /\ \A x \in S : \E n \in 1..Cardinality(S) : at[n] = x

LEMMA Ordered ==
  ASSUME NEW S, IsFiniteSet(S), NEW R, StrictOrder(S, R)
  PROVE  InOrderOf(InOrder(S, R), S, R)
<1> DEFINE Before(x) == {y \in S : <<y, x>> \in R}
           Nth(n) == CHOOSE x \in S : Cardinality(Before(x)) = n - 1
           size == Cardinality(S)
<1>1. size \in Nat
  BY FS_CardinalityType
<1>2. ASSUME NEW x \in S
      PROVE  /\ IsFiniteSet(Before(x)) /\ Cardinality(Before(x)) \in Nat
             /\ Cardinality(Before(x) \cup {x}) = Cardinality(Before(x)) + 1
             /\ Cardinality(Before(x)) + 1 <= size
  <2>1. IsFiniteSet(Before(x))
    BY FS_Subset
  <2>2. x \notin Before(x)
    BY DEF StrictOrder
  <2>3. IsFiniteSet(Before(x) \cup {x}) /\ Cardinality(Before(x) \cup {x}) = Cardinality(Before(x)) + 1
    BY <2>1, <2>2, FS_AddElement
  <2>4. Before(x) \cup {x} \subseteq S
    OBVIOUS
  <2>5. Cardinality(Before(x) \cup {x}) <= size
    BY <2>4, FS_Subset
  <2>6. QED
    BY <2>1, <2>3, <2>5, FS_CardinalityType
<1>3. ASSUME NEW x \in S, NEW y \in S, <<x, y>> \in R
      PROVE  Cardinality(Before(x)) < Cardinality(Before(y))
  <2>1. Before(x) \cup {x} \subseteq Before(y)
    BY <1>3 DEF StrictOrder
  <2>2. Cardinality(Before(x) \cup {x}) = Cardinality(Before(x)) + 1
    BY <1>2
  <2>3. IsFiniteSet(Before(y))
    BY <1>2
  <2>4. Cardinality(Before(x) \cup {x}) <= Cardinality(Before(y))
    BY <2>1, <2>3, FS_Subset
  <2>5. Cardinality(Before(x)) \in Nat /\ Cardinality(Before(y)) \in Nat
    BY <1>2
  <2> HIDE DEF Before
  <2>6. QED
    BY <2>2, <2>4, <2>5
<1>4. InOrder(S, R) = [n \in 1..size |-> Nth(n)]
  BY DEF InOrder
<1> HIDE DEF Before, Nth
<1>5. PICK rank : rank = [x \in S |-> Cardinality(Before(x)) + 1]
  OBVIOUS
<1>6. ASSUME NEW x \in S
      PROVE  /\ rank[x] \in 1..size /\ rank[x] = Cardinality(Before(x)) + 1
             /\ Cardinality(Before(x)) \in Nat
  <2>1. rank[x] = Cardinality(Before(x)) + 1
    BY <1>5
  <2>2. Cardinality(Before(x)) \in Nat /\ Cardinality(Before(x)) + 1 <= size
    BY <1>2
  <2>3. QED
    BY <1>1, <2>1, <2>2
<1>7. rank \in [S -> 1..size]
  BY <1>5, <1>6
<1>8. ASSUME NEW x \in S, NEW y \in S, <<x, y>> \in R
      PROVE  rank[x] < rank[y]
  <2>1. Cardinality(Before(x)) < Cardinality(Before(y))
    BY <1>3, <1>8
  <2>2. rank[x] = Cardinality(Before(x)) + 1 /\ rank[y] = Cardinality(Before(y)) + 1
    BY <1>6
  <2>3. Cardinality(Before(x)) \in Nat /\ Cardinality(Before(y)) \in Nat
    BY <1>6
  <2>4. QED
    BY <2>1, <2>2, <2>3
<1>9. ASSUME NEW x \in S, NEW y \in S, rank[x] = rank[y]
      PROVE  x = y
  <2>1. ~(<<x, y>> \in R) /\ ~(<<y, x>> \in R)
    BY <1>1, <1>6, <1>8, <1>9
  <2>2. QED
    BY <2>1 DEF StrictOrder
<1>10. \A n \in 1..size : \E x \in S : rank[x] = n
  <2>1. IsFiniteSet(1..size) /\ Cardinality(1..size) = size
    BY <1>1, FS_Interval
  <2>2. rank \in Injection(S, 1..size)
    BY <1>7, <1>9 DEF Injection, IsInjective
  <2>3. rank \in Surjection(S, 1..size)
    BY <2>1, <2>2, FS_Injection
  <2>4. QED
    BY <2>3 DEF Surjection
<1>11. PICK at : at = InOrder(S, R)
  OBVIOUS
<1>12. ASSUME NEW n \in 1..size
       PROVE  at[n] \in S /\ rank[at[n]] = n
  <2>1. at[n] = Nth(n)
    BY <1>4, <1>11
  <2>2. PICK x \in S : rank[x] = n
    BY <1>10
  <2>3. Cardinality(Before(x)) \in Nat /\ rank[x] = Cardinality(Before(x)) + 1
    BY <1>6
  <2>4. Cardinality(Before(x)) = n - 1
    BY <2>2, <2>3
  <2>5. Nth(n) \in S /\ Cardinality(Before(Nth(n))) = n - 1
    BY <2>4 DEF Nth
  <2>6. QED
    BY <2>1, <2>5, <1>6
<1>13. at = [n \in 1..size |-> at[n]]
  BY <1>4, <1>11
<1>14. at \in [1..size -> S]
  BY <1>12, <1>13
<1>15. ASSUME NEW m \in 1..size, NEW n \in 1..size, m < n
       PROVE  <<at[m], at[n]>> \in R
  <2>1. rank[at[m]] = m /\ rank[at[n]] = n /\ at[m] \in S /\ at[n] \in S
    BY <1>12
  <2>2. at[m] # at[n] /\ ~(<<at[n], at[m]>> \in R)
    BY <1>1, <1>8, <1>15, <2>1
  <2>3. QED
    BY <2>1, <2>2 DEF StrictOrder
<1>16. ASSUME NEW x \in S
       PROVE  \E n \in 1..size : at[n] = x
  BY <1>6, <1>9, <1>12
<1>17. QED
  BY <1>11, <1>14, <1>15, <1>16 DEF InOrderOf

IsSum(sum, v, n) ==
  /\ sum \in [0..n -> Int] /\ sum[0] = 0
  /\ \A k \in 1..n : sum[k] = sum[k - 1] + v[k]

LEMMA TotalIs ==
  ASSUME NEW n \in Nat, NEW v \in [1..n -> Int]
  PROVE  \E sum : IsSum(sum, v, n) /\ Total(v) = sum[n]
<1> DEFINE T == {k \in Nat : k <= n => \E f : IsSum(f, v, k)}
<1>1. 0 \in T
  <2>1. IsSum([k \in 0..0 |-> 0], v, 0)
    BY DEF IsSum
  <2>2. QED
    BY <2>1
<1>2. ASSUME NEW k \in Nat, k \in T
      PROVE  k + 1 \in T
  <2>1. SUFFICES ASSUME k + 1 <= n PROVE \E f : IsSum(f, v, k + 1)
    OBVIOUS
  <2>2. PICK f : IsSum(f, v, k)
    BY <1>2, <2>1
  <2>3. PICK g : g = [i \in 0..(k + 1) |-> IF i <= k THEN f[i] ELSE f[k] + v[k + 1]]
    OBVIOUS
  <2>4. f[k] + v[k + 1] \in Int
    BY <2>1, <2>2 DEF IsSum
  <2>5. g \in [0..(k + 1) -> Int] /\ g[0] = 0
    BY <2>2, <2>3, <2>4 DEF IsSum
  <2>6. ASSUME NEW i \in 1..(k + 1)
        PROVE  g[i] = g[i - 1] + v[i]
    <3>1. CASE i <= k
      BY <2>2, <2>3, <3>1 DEF IsSum
    <3>2. CASE i = k + 1
      BY <2>3, <3>2
    <3>3. QED
      BY <3>1, <3>2
  <2>7. IsSum(g, v, k + 1)
    BY <2>5, <2>6 DEF IsSum
  <2>8. QED
    BY <2>7
<1>3. n \in T
  <2> HIDE DEF T
  <2>1. \A k \in Nat : k \in T
    BY <1>1, <1>2, NatSet
  <2>2. QED
    BY <2>1
<1>4. PICK f : IsSum(f, v, n)
  BY <1>3
<1> DEFINE Sum == CHOOSE g : g = [k \in 0..Len(v) |-> IF k = 0 THEN 0 ELSE g[k - 1] + v[k]]
<1>5. Len(v) = n
  OBVIOUS
<1>6. f = [k \in 0..Len(v) |-> IF k = 0 THEN 0 ELSE f[k - 1] + v[k]]
  BY <1>4, <1>5 DEF IsSum
<1>7. Sum = [k \in 0..Len(v) |-> IF k = 0 THEN 0 ELSE Sum[k - 1] + v[k]]
  BY <1>6
<1>8. Total(v) = Sum[Len(v)]
  BY DEF Total
<1> HIDE DEF Sum
<1>9. PICK s : s = Sum
  OBVIOUS
<1>10. s = [k \in 0..n |-> IF k = 0 THEN 0 ELSE s[k - 1] + v[k]]
  BY <1>5, <1>7, <1>9
<1>11. s[0] = 0 /\ \A k \in 1..n : s[k] = s[k - 1] + v[k]
  BY <1>10
<1> DEFINE U == {k \in Nat : k <= n => s[k] \in Int}
<1>12. 0 \in U
  BY <1>11
<1>13. ASSUME NEW k \in Nat, k \in U
       PROVE  k + 1 \in U
  <2>1. SUFFICES ASSUME k + 1 <= n PROVE s[k + 1] \in Int
    OBVIOUS
  <2>2. s[k] \in Int /\ v[k + 1] \in Int
    BY <1>13, <2>1
  <2>3. s[k + 1] = s[(k + 1) - 1] + v[k + 1]
    BY <1>11, <2>1
  <2>4. QED
    BY <2>2, <2>3
<1>14. \A k \in 0..n : s[k] \in Int
  <2> HIDE DEF U
  <2>1. \A k \in Nat : k \in U
    BY <1>12, <1>13, NatSet
  <2>2. QED
    BY <2>1 DEF U
<1>15. s \in [0..n -> Int]
  BY <1>10, <1>14
<1>16. QED
  BY <1>5, <1>8, <1>9, <1>11, <1>15 DEF IsSum

LEMMA TotalBelow ==
  ASSUME NEW n \in Nat, NEW v \in [1..n -> Int], NEW w \in [1..n -> Int],
         \A i \in 1..n : v[i] <= w[i]
  PROVE  /\ Total(v) \in Int /\ Total(w) \in Int /\ Total(v) <= Total(w)
         /\ Total(v) = Total(w) => \A i \in 1..n : v[i] = w[i]
<1>1. PICK s : IsSum(s, v, n) /\ Total(v) = s[n]
  BY TotalIs
<1>2. PICK t : IsSum(t, w, n) /\ Total(w) = t[n]
  BY TotalIs
<1> DEFINE T == {k \in Nat : k <= n => /\ s[k] <= t[k]
                                       /\ s[k] = t[k] => \A i \in 1..k : v[i] = w[i]}
<1>3. 0 \in T
  BY <1>1, <1>2 DEF IsSum
<1>4. ASSUME NEW k \in Nat, k \in T
      PROVE  k + 1 \in T
  <2>1. SUFFICES ASSUME k + 1 <= n
                 PROVE  /\ s[k + 1] <= t[k + 1]
                        /\ s[k + 1] = t[k + 1] => \A i \in 1..(k + 1) : v[i] = w[i]
    OBVIOUS
  <2>2. /\ s[k] \in Int /\ t[k] \in Int /\ v[k + 1] \in Int /\ w[k + 1] \in Int
        /\ v[k + 1] <= w[k + 1]
    BY <1>1, <1>2, <2>1 DEF IsSum
  <2>3. s[k + 1] = s[k] + v[k + 1] /\ t[k + 1] = t[k] + w[k + 1]
    <3>1. (k + 1) - 1 = k /\ k + 1 \in 1..n
      BY <2>1
    <3>2. QED
      BY <1>1, <1>2, <3>1 DEF IsSum
  <2>4. s[k] <= t[k] /\ (s[k] = t[k] => \A i \in 1..k : v[i] = w[i])
    BY <1>4, <2>1
  <2>5. s[k + 1] <= t[k + 1]
    BY <2>2, <2>3, <2>4
  <2>6. ASSUME s[k + 1] = t[k + 1]
        PROVE  s[k] = t[k] /\ v[k + 1] = w[k + 1]
    BY <2>2, <2>3, <2>4, <2>6
  <2>7. ASSUME s[k + 1] = t[k + 1], NEW i \in 1..(k + 1)
        PROVE  v[i] = w[i]
    <3>1. i \in 1..k \/ i = k + 1
      OBVIOUS
    <3>2. QED
      BY <2>4, <2>6, <2>7, <3>1
  <2>8. QED
    BY <2>5, <2>7
<1>5. n \in T
  <2> HIDE DEF T
  <2>1. \A k \in Nat : k \in T
    BY <1>3, <1>4, NatSet
  <2>2. QED
    BY <2>1
<1>6. s[n] \in Int /\ t[n] \in Int
  BY <1>1, <1>2 DEF IsSum
<1>7. QED
  BY <1>1, <1>2, <1>5, <1>6

LEMMA TotalSame ==
  ASSUME NEW n \in Nat, NEW v \in [1..n -> Int], NEW c \in Int, \A i \in 1..n : v[i] = c
  PROVE  Total(v) = c * n
<1>1. PICK s : IsSum(s, v, n) /\ Total(v) = s[n]
  BY TotalIs
<1> DEFINE T == {k \in Nat : k <= n => s[k] = c * k}
<1>2. 0 \in T
  BY <1>1 DEF IsSum
<1>3. ASSUME NEW k \in Nat, k \in T
      PROVE  k + 1 \in T
  <2>1. SUFFICES ASSUME k + 1 <= n PROVE s[k + 1] = c * (k + 1)
    OBVIOUS
  <2>2. (k + 1) - 1 = k /\ k + 1 \in 1..n
    BY <2>1
  <2>3. s[k + 1] = s[k] + c
    BY <1>1, <2>2 DEF IsSum
  <2>4. s[k] = c * k
    BY <1>3, <2>1
  <2>5. c * (k + 1) = c * k + c
    OBVIOUS
  <2>6. QED
    BY <2>3, <2>4, <2>5
<1>4. n \in T
  <2> HIDE DEF T
  <2>1. \A k \in Nat : k \in T
    BY <1>2, <1>3, NatSet
  <2>2. QED
    BY <2>1
<1>5. QED
  BY <1>1, <1>4

\* Second, lists of instances: how they are sorted, and whom a reason names.

SortsBy(at, f, n) ==
  /\ at \in [1..n -> 1..n]
  /\ \A i, j \in 1..n : i <= j => f[at[i]] <= f[at[j]]
  /\ \A i, j \in 1..n : at[i] = at[j] => i = j
  /\ \A x \in 1..n : \E i \in 1..n : at[i] = x

ListBy(at, f, n) == [i \in 1..n |-> [cr |-> at[i], score |-> f[at[i]]]]

LEMMA SortedIs ==
  ASSUME NEW n \in Nat, NEW f \in [1..n -> Int]
  PROVE  \E at : SortsBy(at, f, n) /\ Sorted(Instances(f)) = ListBy(at, f, n)
<1>1. PICK S : S = 1..n
  OBVIOUS
<1>2. PICK R : R = {p \in S \X S : \/ f[p[1]] < f[p[2]]
                                   \/ f[p[1]] = f[p[2]] /\ p[1] < p[2]}
  OBVIOUS
<1>3. \A x, y \in S : <<x, y>> \in R <=> f[x] < f[y] \/ (f[x] = f[y] /\ x < y)
  BY <1>2
<1>4. \A x \in S : x \in Int /\ f[x] \in Int
  BY <1>1
<1>5. StrictOrder(S, R)
  <2>1. ASSUME NEW x \in S, NEW y \in S
        PROVE  /\ <<x, y>> \in R => <<y, x>> \notin R
               /\ x = y \/ <<x, y>> \in R \/ <<y, x>> \in R
    BY <1>3, <1>4
  <2>2. ASSUME NEW x \in S, NEW y \in S, NEW z \in S, <<x, y>> \in R, <<y, z>> \in R
        PROVE  <<x, z>> \in R
    BY <1>3, <1>4, <2>2
  <2>3. QED
    BY <2>1, <2>2 DEF StrictOrder
<1>6. IsFiniteSet(S) /\ Cardinality(S) = n
  BY <1>1, FS_Interval
<1>7. PICK at : at = InOrder(S, R)
  OBVIOUS
<1>8. InOrderOf(at, S, R)
  BY <1>5, <1>6, <1>7, Ordered
<1>9. at \in [1..n -> 1..n] /\ \A x \in 1..n : \E i \in 1..n : at[i] = x
  BY <1>1, <1>6, <1>8 DEF InOrderOf
<1>10. ASSUME NEW i \in 1..n, NEW j \in 1..n, i < j
       PROVE  f[at[i]] <= f[at[j]] /\ at[i] # at[j]
  <2>1. <<at[i], at[j]>> \in R
    BY <1>6, <1>8, <1>10 DEF InOrderOf
  <2>2. at[i] \in S /\ at[j] \in S
    BY <1>1, <1>9
  <2>3. f[at[i]] < f[at[j]] \/ (f[at[i]] = f[at[j]] /\ at[i] < at[j])
    BY <1>3, <2>1, <2>2
  <2>4. QED
    BY <1>4, <2>2, <2>3
<1>11. \A i, j \in 1..n : i <= j => f[at[i]] <= f[at[j]]
  <2>1. \A i \in 1..n : f[at[i]] \in Int
    BY <1>9
  <2>2. ASSUME NEW i \in 1..n, NEW j \in 1..n, i <= j
        PROVE  f[at[i]] <= f[at[j]]
    <3>1. CASE i = j
      BY <2>1, <3>1
    <3>2. CASE i < j
      BY <1>10, <3>2
    <3>3. QED
      BY <2>2, <3>1, <3>2
  <2>3. QED
    BY <2>2
<1>12. \A i, j \in 1..n : at[i] = at[j] => i = j
  <2>1. \A i, j \in 1..n : i = j \/ i < j \/ j < i
    OBVIOUS
  <2>2. QED
    BY <1>10, <2>1
<1>13. SortsBy(at, f, n)
  BY <1>9, <1>11, <1>12 DEF SortsBy
<1>14. PICK list : list = Instances(f)
  OBVIOUS
<1>15. DOMAIN list = 1..n /\ \A i \in 1..n : list[i] = [cr |-> i, score |-> f[i]]
  BY <1>14 DEF Instances
<1>16. R = {p \in S \X S : \/ list[p[1]].score < list[p[2]].score
                           \/ list[p[1]].score = list[p[2]].score /\ p[1] < p[2]}
  BY <1>1, <1>2, <1>15
<1>17. Sorted(list) = [i \in DOMAIN at |-> list[at[i]]]
  BY <1>1, <1>7, <1>15, <1>16 DEF Sorted
<1>18. Sorted(list) = ListBy(at, f, n)
  BY <1>9, <1>15, <1>17 DEF ListBy
<1>19. QED
  BY <1>13, <1>14, <1>18

LEMMA SortedBelow ==
  ASSUME NEW n \in Nat, NEW f \in [1..n -> Int], NEW g \in [1..n -> Int],
         \A i \in 1..n : g[i] <= f[i],
         NEW at, SortsBy(at, f, n), NEW bt, SortsBy(bt, g, n)
  PROVE  \A k \in 1..n : g[bt[k]] <= f[at[k]]
<1>1. SUFFICES ASSUME NEW k \in 1..n, ~(g[bt[k]] <= f[at[k]]) PROVE FALSE
  OBVIOUS
<1>2. \A i \in 1..n : at[i] \in 1..n /\ bt[i] \in 1..n /\ f[i] \in Int /\ g[i] \in Int
  BY DEF SortsBy
<1>3. f[at[k]] \in Int /\ g[bt[k]] \in Int /\ f[at[k]] < g[bt[k]]
  BY <1>1, <1>2
<1>4. ASSUME NEW i \in 1..k
      PROVE  \E p \in 1..n : bt[p] = at[i]
  <2>1. i \in 1..n
    OBVIOUS
  <2>2. at[i] \in 1..n
    BY <1>2, <2>1
  <2>3. QED
    BY <2>2 DEF SortsBy
<1>5. PICK h : h = [i \in 1..k |-> CHOOSE p \in 1..n : bt[p] = at[i]]
  OBVIOUS
<1>6. ASSUME NEW i \in 1..k
      PROVE  h[i] \in 1..n /\ bt[h[i]] = at[i]
  BY <1>4, <1>5
<1>7. ASSUME NEW i \in 1..k
      PROVE  h[i] \in 1..(k - 1)
  <2>1. i \in 1..n /\ i <= k
    OBVIOUS
  <2>2. PICK x \in 1..n : x = at[i]
    BY <1>2, <2>1
  <2>3. PICK p \in 1..n : p = h[i]
    BY <1>6
  <2>4. bt[p] = x
    BY <1>6, <2>2, <2>3
  <2>5. f[x] <= f[at[k]]
    BY <2>1, <2>2 DEF SortsBy
  <2>6. g[x] <= f[x] /\ g[x] \in Int /\ f[x] \in Int
    BY <1>2
  <2>7. g[bt[p]] < g[bt[k]] /\ g[bt[p]] \in Int
    BY <1>3, <2>4, <2>5, <2>6
  <2>8. k <= p => g[bt[k]] <= g[bt[p]]
    BY DEF SortsBy
  <2>9. ~(k <= p)
    BY <1>3, <2>7, <2>8
  <2>10. p \in 1..(k - 1)
    BY <2>9
  <2>11. QED
    BY <2>3, <2>10
<1>8. h \in [1..k -> 1..(k - 1)]
  BY <1>5, <1>7
<1>9. IsFiniteSet(1..k) /\ IsFiniteSet(1..(k - 1)) /\ Cardinality(1..(k - 1)) < Cardinality(1..k)
  <2>1. IsFiniteSet(1..k) /\ Cardinality(1..k) = k
    BY FS_Interval
  <2>2. IsFiniteSet(1..(k - 1)) /\ Cardinality(1..(k - 1)) = k - 1
    BY FS_Interval
  <2>3. QED
    BY <2>1, <2>2
<1>10. \E x, y \in 1..k : x # y /\ h[x] = h[y]
  <2>1. PICK A : A = 1..k
    OBVIOUS
  <2>2. PICK B : B = 1..(k - 1)
    OBVIOUS
  <2>3. IsFiniteSet(A) /\ IsFiniteSet(B) /\ Cardinality(B) < Cardinality(A) /\ h \in [A -> B]
    BY <1>8, <1>9, <2>1, <2>2
  <2>4. \E x, y \in A : x # y /\ h[x] = h[y]
    BY ONLY <2>3, FS_PigeonHole
  <2>5. QED
    BY <2>1, <2>4
<1>11. PICK x \in 1..k, y \in 1..k : x # y /\ h[x] = h[y]
  BY <1>10
<1>12. at[x] = at[y] /\ x \in 1..n /\ y \in 1..n
  <2>1. bt[h[x]] = at[x] /\ bt[h[y]] = at[y]
    BY <1>6
  <2>2. at[x] = at[y]
    BY ONLY <1>11, <2>1
  <2>3. x \in 1..n /\ y \in 1..n
    OBVIOUS
  <2>4. QED
    BY ONLY <2>2, <2>3
<1>13. QED
  BY <1>11, <1>12 DEF SortsBy

WorstPlaces(P, at, f, n) ==
  P \subseteq 1..n /\ \A p \in P, q \in (1..n) \ P : f[at[p]] <= f[at[q]]

NamesWorst(named, P, f, n) ==
  /\ ToSet(named) \subseteq 1..n /\ (ToSet(named) = {} <=> P = {})
  /\ Len(named) = Cardinality(ToSet(named))
  /\ \A i \in ToSet(named), j \in (1..n) \ ToSet(named) : f[i] <= f[j]

LEMMA Blamed ==
  ASSUME NEW n \in Nat, NEW f \in [1..n -> Int], NEW at, SortsBy(at, f, n),
         NEW P, WorstPlaces(P, at, f, n)
  PROVE  NamesWorst(ReasonOf(ElementsAt(ListBy(at, f, n), P)).named, P, f, n)
<1>0. PICK named : named = ReasonOf(ElementsAt(ListBy(at, f, n), P)).named
  OBVIOUS
<1> P \subseteq 1..n
  BY DEF WorstPlaces
<1>1. PICK R : R = {p \in P \X P : p[1] < p[2]}
  OBVIOUS
<1>2. \A x, y \in P : <<x, y>> \in R <=> x < y
  BY <1>1
<1>3. StrictOrder(P, R)
  <2>1. \A x \in P : x \in Int
    OBVIOUS
  <2>2. ASSUME NEW x \in P, NEW y \in P
        PROVE  /\ <<x, y>> \in R => <<y, x>> \notin R
               /\ x = y \/ <<x, y>> \in R \/ <<y, x>> \in R
               /\ \A z \in P : <<x, y>> \in R /\ <<y, z>> \in R => <<x, z>> \in R
    BY <1>2, <2>1
  <2>3. QED
    BY <2>2 DEF StrictOrder
<1>4. IsFiniteSet(P) /\ Cardinality(P) \in Nat
  <2>1. IsFiniteSet(1..n)
    BY FS_Interval
  <2>2. IsFiniteSet(P)
    BY <2>1, FS_Subset
  <2>3. QED
    BY <2>2, FS_CardinalityType
<1>5. PICK pt : pt = InOrder(P, R)
  OBVIOUS
<1>6. PICK c : c = Cardinality(P)
  OBVIOUS
<1>7. InOrderOf(pt, P, R) /\ c \in Nat
  BY <1>3, <1>4, <1>5, <1>6, Ordered
<1>8. /\ pt \in [1..c -> P] /\ \A x \in P : \E i \in 1..c : pt[i] = x
      /\ \A i, j \in 1..c : i < j => pt[i] < pt[j]
  BY <1>2, <1>6, <1>7 DEF InOrderOf
<1>9. ElementsAt(ListBy(at, f, n), P) = [i \in DOMAIN pt |-> ListBy(at, f, n)[pt[i]]]
  BY <1>1, <1>5 DEF ElementsAt
<1>10. PICK list : list = ElementsAt(ListBy(at, f, n), P)
  OBVIOUS
<1>11. list = [i \in 1..c |-> [cr |-> at[pt[i]], score |-> f[at[pt[i]]]]]
  BY <1>8, <1>9, <1>10 DEF ListBy
<1>12. Len(list) = c
  BY <1>7, <1>11
<1>13. PICK k : k = IF c < NUM_CRS_IN_REASON THEN c ELSE NUM_CRS_IN_REASON
  OBVIOUS
<1>14. k \in Nat /\ k <= c /\ (k = 0 <=> c = 0)
  BY <1>7, <1>13, ReasonAssumption
<1>15. named = [i \in 1..k |-> list[i].cr]
  BY <1>0, <1>10, <1>12, <1>13 DEF ReasonOf
<1>16. named = [i \in 1..k |-> at[pt[i]]]
  <2>1. \A i \in 1..k : i \in 1..c
    BY <1>7, <1>14
  <2>2. \A i \in 1..k : list[i].cr = at[pt[i]]
    BY <1>11, <2>1
  <2>3. QED
    BY <1>15, <2>2
<1>17. Len(named) = k /\ DOMAIN named = 1..k
  BY <1>14, <1>16
<1>18. \A x : x \in ToSet(named) <=> \E i \in 1..k : x = at[pt[i]]
  BY <1>16, <1>17 DEF ToSet
<1>19. ASSUME NEW i \in 1..k
       PROVE  i \in 1..c /\ pt[i] \in P /\ pt[i] \in 1..n /\ at[pt[i]] \in 1..n
  <2>1. i \in 1..c
    BY <1>7, <1>14
  <2>2. pt[i] \in P
    BY <1>8, <2>1
  <2>3. QED
    BY <2>1, <2>2 DEF SortsBy
<1>20. ToSet(named) \subseteq 1..n
  BY <1>18, <1>19
<1>21. ToSet(named) = {} <=> P = {}
  <2>1. c = 0 <=> P = {}
    BY <1>4, <1>6, FS_EmptySet
  <2>2. k = 0 <=> ToSet(named) = {}
    <3>1. k # 0 => at[pt[1]] \in ToSet(named)
      BY <1>14, <1>18
    <3>2. k = 0 => \A x : x \notin ToSet(named)
      BY <1>18
    <3>3. QED
      BY <3>1, <3>2
  <2>3. QED
    BY <1>14, <2>1, <2>2
<1>22. ASSUME NEW i \in 1..k, NEW j \in 1..k, at[pt[i]] = at[pt[j]]
       PROVE  i = j
  <2>1. pt[i] = pt[j]
    <3>1. pt[i] \in 1..n /\ pt[j] \in 1..n
      BY <1>19
    <3>2. PICK x, y : x = pt[i] /\ y = pt[j]
      OBVIOUS
    <3>3. x \in 1..n /\ y \in 1..n /\ at[x] = at[y]
      BY <1>22, <3>1, <3>2
    <3>4. x = y
      BY ONLY SortsBy(at, f, n), <3>3 DEF SortsBy
    <3>5. QED
      BY <3>2, <3>4
  <2>2. i \in 1..c /\ j \in 1..c /\ pt[i] \in Int
    BY <1>19
  <2>3. ~(i < j) /\ ~(j < i)
    BY <1>8, <2>1, <2>2
  <2>4. QED
    BY <2>3
<1>23. Len(named) = Cardinality(ToSet(named))
  <2>1. named \in [1..k -> ToSet(named)]
    BY <1>16, <1>18
  <2>2. named \in Surjection(1..k, ToSet(named))
    BY <2>1, <1>16, <1>18 DEF Surjection
  <2>3. named \in Injection(1..k, ToSet(named))
    BY <2>1, <1>16, <1>22 DEF Injection, IsInjective
  <2>4. IsFiniteSet(1..k) /\ Cardinality(1..k) = k
    BY <1>14, FS_Interval
  <2>5. Cardinality(ToSet(named)) = Cardinality(1..k)
    BY <2>2, <2>3, <2>4, FS_Surjection
  <2>6. QED
    BY <1>17, <2>4, <2>5
<1>24. ASSUME NEW i \in ToSet(named), NEW j \in (1..n) \ ToSet(named)
       PROVE  f[i] <= f[j]
  <2>1. PICK a \in 1..k : i = at[pt[a]]
    BY <1>18
  <2>2. PICK q \in 1..n : at[q] = j
    BY DEF SortsBy
  <2>3. CASE q \notin P
    BY <1>19, <2>1, <2>2, <2>3 DEF WorstPlaces
  <2>4. CASE q \in P
    <3>1. PICK b \in 1..c : pt[b] = q
      BY <1>8, <2>4
    <3>2. b \notin 1..k
      BY <1>18, <2>2, <3>1
    <3>3. a < b /\ a \in 1..c
      BY <1>7, <1>14, <3>2
    <3>4. pt[a] < q
      BY <1>8, <3>1, <3>3
    <3>5. pt[a] \in 1..n
      BY <1>19
    <3>6. pt[a] <= q
      BY <3>4, <3>5
    <3>7. QED
      BY <2>1, <2>2, <3>5, <3>6 DEF SortsBy
  <2>5. QED
    BY <2>3, <2>4
<1>25. QED
  BY <1>0, <1>20, <1>21, <1>23, <1>24 DEF NamesWorst

\* Third, the score of a metric and of the resource.

KnownScores(f, n) ==
  n >= 1 /\ f \in [1..n -> Int] /\ \A i \in 1..n : 0 <= f[i] /\ f[i] <= 100

AggOf(f, method) == CalculateAggHealthScoreForMetric(Instances(f), method)

SortedScores(at, f, n) == [i \in 1..n |-> f[at[i]]]

BadPlaces(at, f, n, method) ==
  {i \in 1..n : f[at[i]] # 100 /\ (method = "equal" => f[at[i]] = f[at[1]])}

LEMMA AggIs ==
  ASSUME NEW n \in Nat, NEW f, KnownScores(f, n), NEW method \in {"divide", "equal"}
  PROVE  \E at : /\ SortsBy(at, f, n)
                 /\ AggOf(f, method) =
                      Result(IF method = "divide" THEN Total(SortedScores(at, f, n)) ELSE f[at[1]],
                             IF method = "divide" THEN n ELSE 1,
                             ReasonOf(ElementsAt(ListBy(at, f, n), BadPlaces(at, f, n, method))))
<1>1. n >= 1 /\ f \in [1..n -> Int]
  BY DEF KnownScores
<1>2. PICK at : SortsBy(at, f, n) /\ Sorted(Instances(f)) = ListBy(at, f, n)
  BY <1>1, SortedIs
<1>3. PICK list : list = ListBy(at, f, n)
  OBVIOUS
<1>4. DOMAIN list = 1..n /\ \A i \in 1..n : list[i].score = f[at[i]]
  BY <1>3 DEF ListBy
<1>5. Len(list) = n /\ list # << >>
  <2>1. list = [i \in 1..n |-> [cr |-> at[i], score |-> f[at[i]]]]
    BY <1>3 DEF ListBy
  <2>2. Len(list) = n
    BY <2>1
  <2>3. QED
    BY <1>1, <2>2
<1>6. ~(\E i \in DOMAIN Instances(f) : Instances(f)[i].score = Unknown)
  <2>1. DOMAIN Instances(f) = 1..n /\ \A i \in 1..n : Instances(f)[i].score = f[i]
    BY <1>1 DEF Instances
  <2>2. \A i \in 1..n : f[i] # Unknown
    BY DEF KnownScores, Unknown
  <2>3. QED
    BY <2>1, <2>2
<1>7. CASE method = "divide"
  <2>1. AggOf(f, method) = AggHealthDivideMethod(list)
    BY <1>2, <1>3, <1>6, <1>7 DEF AggOf, CalculateAggHealthScoreForMetric
  <2>2. {i \in DOMAIN list : list[i].score # 100} = BadPlaces(at, f, n, method)
    BY <1>4, <1>7 DEF BadPlaces
  <2>3. [i \in DOMAIN list |-> list[i].score] = SortedScores(at, f, n)
    BY <1>4 DEF SortedScores
  <2>4. AggHealthDivideMethod(list) =
          Result(Total([i \in DOMAIN list |-> list[i].score]), Len(list),
                 ReasonOf(ElementsAt(list, {i \in DOMAIN list : list[i].score # 100})))
    BY <1>5 DEF AggHealthDivideMethod
  <2>5. AggOf(f, method) =
          Result(Total(SortedScores(at, f, n)), n,
                 ReasonOf(ElementsAt(list, BadPlaces(at, f, n, method))))
    BY <1>5, <2>1, <2>2, <2>3, <2>4
  <2>6. QED
    BY <1>2, <1>3, <1>7, <2>5
<1>8. CASE method = "equal"
  <2>1. AggOf(f, method) = AggHealthEqualMethod(list)
    BY <1>2, <1>3, <1>6, <1>8 DEF AggOf, CalculateAggHealthScoreForMetric
  <2>2. list[1].score = f[at[1]]
    BY <1>1, <1>4
  <2>3. {i \in DOMAIN list : list[i].score # 100 /\ list[i].score = list[1].score}
          = BadPlaces(at, f, n, method)
    BY <1>4, <1>8, <2>2 DEF BadPlaces
  <2>4. AggHealthEqualMethod(list) =
          Result(list[1].score, 1,
                 ReasonOf(ElementsAt(list, {i \in DOMAIN list : list[i].score # 100
                                                              /\ list[i].score = list[1].score})))
    BY <1>5 DEF AggHealthEqualMethod
  <2>5. AggOf(f, method) =
          Result(f[at[1]], 1, ReasonOf(ElementsAt(list, BadPlaces(at, f, n, method))))
    BY <2>1, <2>2, <2>3, <2>4
  <2>6. QED
    BY <1>2, <1>3, <1>8, <2>5
<1>9. QED
  BY <1>7, <1>8

LEMMA SortedRange ==
  ASSUME NEW n \in Nat, NEW f, KnownScores(f, n), NEW at, SortsBy(at, f, n)
  PROVE  /\ \A i \in 1..n : /\ f[at[i]] \in Int /\ 0 <= f[at[i]] /\ f[at[i]] <= 100
                            /\ f[at[1]] <= f[at[i]] /\ f[at[i]] <= f[at[n]]
         /\ Min(ToSet(f)) = f[at[1]] /\ Max(ToSet(f)) = f[at[n]]
<1>1. 1 \in 1..n /\ n \in 1..n
  BY DEF KnownScores
<1>2. \A i \in 1..n : at[i] \in 1..n
  BY DEF SortsBy
<1>3. ASSUME NEW i \in 1..n
      PROVE  /\ f[at[i]] \in Int /\ 0 <= f[at[i]] /\ f[at[i]] <= 100
             /\ f[at[1]] <= f[at[i]] /\ f[at[i]] <= f[at[n]]
  <2>1. at[i] \in 1..n /\ 1 <= i /\ i <= n
    BY <1>2
  <2>2. f[at[1]] <= f[at[i]] /\ f[at[i]] <= f[at[n]]
    BY <1>1, <2>1 DEF SortsBy
  <2>3. QED
    BY <2>1, <2>2 DEF KnownScores
<1>4. f[at[1]] \in ToSet(f) /\ f[at[n]] \in ToSet(f)
  <2>1. DOMAIN f = 1..n
    BY DEF KnownScores
  <2>2. QED
    BY <1>1, <1>2, <2>1 DEF ToSet
<1>5. ASSUME NEW x \in ToSet(f)
      PROVE  x \in Int /\ f[at[1]] <= x /\ x <= f[at[n]]
  <2>1. PICK j \in 1..n : x = f[j]
    BY DEF ToSet, KnownScores
  <2>2. PICK i \in 1..n : at[i] = j
    BY DEF SortsBy
  <2>3. QED
    BY <1>3, <2>1, <2>2
<1>6. Min(ToSet(f)) = f[at[1]]
  <2>1. Min(ToSet(f)) \in ToSet(f) /\ \A y \in ToSet(f) : Min(ToSet(f)) <= y
    BY <1>4, <1>5 DEF Min
  <2>2. QED
    BY <1>4, <1>5, <2>1
<1>7. Max(ToSet(f)) = f[at[n]]
  <2>1. Max(ToSet(f)) \in ToSet(f) /\ \A y \in ToSet(f) : Max(ToSet(f)) >= y
    BY <1>4, <1>5 DEF Max
  <2>2. QED
    BY <1>4, <1>5, <2>1
<1>8. QED
  BY <1>3, <1>6, <1>7

LEMMA AggRange ==
  ASSUME NEW n \in Nat, NEW f, KnownScores(f, n), NEW method \in {"divide", "equal"},
         NEW agg, agg = AggOf(f, method)
  PROVE  /\ agg.num \in Nat /\ agg.den = IF method = "divide" THEN n ELSE 1
         /\ agg.num <= 100 * agg.den
         /\ agg.num \in (Min(ToSet(f)) * agg.den)..(Max(ToSet(f)) * agg.den)
         /\ agg.num = 100 * agg.den <=> \A i \in 1..n : f[i] = 100
<1>1. PICK at : SortsBy(at, f, n)
                /\ agg = Result(IF method = "divide" THEN Total(SortedScores(at, f, n)) ELSE f[at[1]],
                                IF method = "divide" THEN n ELSE 1,
                                ReasonOf(ElementsAt(ListBy(at, f, n), BadPlaces(at, f, n, method))))
  BY AggIs
<1>2. PICK v : v = SortedScores(at, f, n)
  OBVIOUS
<1>3. PICK least, most : least = f[at[1]] /\ most = f[at[n]]
  OBVIOUS
<1>4. /\ \A i \in 1..n : /\ v[i] = f[at[i]] /\ v[i] \in Int /\ 0 <= v[i] /\ v[i] <= 100
                         /\ least <= v[i] /\ v[i] <= most
      /\ Min(ToSet(f)) = least /\ Max(ToSet(f)) = most
  <2>1. \A i \in 1..n : v[i] = f[at[i]]
    BY <1>2 DEF SortedScores
  <2>2. QED
    BY <1>1, <1>3, <2>1, SortedRange
<1>5. /\ least \in Int /\ most \in Int /\ 0 <= least /\ most <= 100 /\ least <= most
      /\ v[1] = least /\ 1 \in 1..n
  <2>1. 1 \in 1..n /\ n \in 1..n
    BY DEF KnownScores
  <2>2. v[1] = least /\ v[n] = most
    BY <1>3, <1>4, <2>1
  <2>3. QED
    BY <1>4, <2>1, <2>2
<1>6. v \in [1..n -> Int]
  <2>1. v = [i \in 1..n |-> v[i]]
    BY <1>2 DEF SortedScores
  <2>2. QED
    BY <1>4, <2>1
<1>7. (\A i \in 1..n : v[i] = 100) <=> (\A i \in 1..n : f[i] = 100)
  <2>1. \A i \in 1..n : at[i] \in 1..n /\ \E k \in 1..n : at[k] = i
    BY <1>1 DEF SortsBy
  <2>2. QED
    BY <1>4, <2>1
<1>8. CASE method = "divide"
  <2>1. agg.num = Total(v) /\ agg.den = n
    BY <1>1, <1>2, <1>8 DEF Result
  <2>2. ASSUME NEW c \in Int
        PROVE  /\ [i \in 1..n |-> c] \in [1..n -> Int]
               /\ \A i \in 1..n : [j \in 1..n |-> c][i] = c
               /\ Total([i \in 1..n |-> c]) = c * n
    <3>1. [i \in 1..n |-> c] \in [1..n -> Int] /\ \A i \in 1..n : [j \in 1..n |-> c][i] = c
      OBVIOUS
    <3>2. QED
      BY <3>1, TotalSame
  <2>3. ASSUME NEW c \in Int, \A i \in 1..n : v[i] <= c
        PROVE  /\ Total(v) \in Int /\ Total(v) <= c * n
               /\ Total(v) = c * n => \A i \in 1..n : v[i] = c
    <3>1. PICK w : w = [i \in 1..n |-> c]
      OBVIOUS
    <3>2. w \in [1..n -> Int] /\ Total(w) = c * n /\ \A i \in 1..n : w[i] = c
      BY <2>2, <3>1
    <3>3. \A i \in 1..n : v[i] <= w[i]
      BY <2>3, <3>2
    <3>4. /\ Total(v) \in Int /\ Total(v) <= Total(w)
          /\ Total(v) = Total(w) => \A i \in 1..n : v[i] = w[i]
      BY <1>6, <3>2, <3>3, TotalBelow
    <3>5. QED
      BY ONLY <3>2, <3>4
  <2>4. ASSUME NEW c \in Int, \A i \in 1..n : c <= v[i]
        PROVE  c * n <= Total(v)
    <3>1. PICK w : w = [i \in 1..n |-> c]
      OBVIOUS
    <3>2. w \in [1..n -> Int] /\ Total(w) = c * n /\ \A i \in 1..n : w[i] = c
      BY <2>2, <3>1
    <3>3. \A i \in 1..n : w[i] <= v[i]
      BY <2>4, <3>2
    <3>4. QED
      BY <1>6, <3>2, <3>3, TotalBelow
  <2>5. Total(v) \in Int /\ Total(v) <= 100 * n /\ Total(v) <= most * n
    BY <1>4, <1>5, <2>3
  <2>6. least * n <= Total(v) /\ 0 * n <= Total(v)
    BY <1>4, <1>5, <2>4
  <2>7. Total(v) = 100 * n <=> \A i \in 1..n : v[i] = 100
    <3>1. Total(v) = 100 * n => \A i \in 1..n : v[i] = 100
      BY <1>4, <2>3
    <3>2. (\A i \in 1..n : v[i] = 100) => Total(v) = 100 * n
      BY <1>6, TotalSame
    <3>3. QED
      BY <3>1, <3>2
  <2>8. least * n \in Int /\ most * n \in Int
    BY <1>5
  <2>9. QED
    BY <1>4, <1>7, <1>8, <2>1, <2>5, <2>6, <2>7, <2>8
<1>9. CASE method = "equal"
  <2>1. agg.num = least /\ agg.den = 1
    BY <1>1, <1>3, <1>9 DEF Result
  <2>2. least = 100 <=> \A i \in 1..n : v[i] = 100
    BY <1>4, <1>5
  <2>3. QED
    BY <1>4, <1>5, <1>7, <1>9, <2>1, <2>2
<1>10. QED
  BY <1>8, <1>9

LEMMA AggBelow ==
  ASSUME NEW n \in Nat, NEW f, KnownScores(f, n), NEW g, KnownScores(g, n),
         \A i \in 1..n : g[i] <= f[i], NEW method \in {"divide", "equal"}
  PROVE  AggOf(g, method).num <= AggOf(f, method).num
<1>1. n >= 1 /\ f \in [1..n -> Int] /\ g \in [1..n -> Int]
  BY DEF KnownScores
<1>2. PICK at : SortsBy(at, f, n)
                /\ AggOf(f, method) =
                     Result(IF method = "divide" THEN Total(SortedScores(at, f, n)) ELSE f[at[1]],
                            IF method = "divide" THEN n ELSE 1,
                            ReasonOf(ElementsAt(ListBy(at, f, n), BadPlaces(at, f, n, method))))
  BY AggIs
<1>3. PICK bt : SortsBy(bt, g, n)
                /\ AggOf(g, method) =
                     Result(IF method = "divide" THEN Total(SortedScores(bt, g, n)) ELSE g[bt[1]],
                            IF method = "divide" THEN n ELSE 1,
                            ReasonOf(ElementsAt(ListBy(bt, g, n), BadPlaces(bt, g, n, method))))
  BY AggIs
<1>4. \A k \in 1..n : g[bt[k]] <= f[at[k]]
  BY <1>1, <1>2, <1>3, SortedBelow
<1>5. CASE method = "divide"
  <2>1. PICK v, w : v = SortedScores(at, f, n) /\ w = SortedScores(bt, g, n)
    OBVIOUS
  <2>2. v = [i \in 1..n |-> f[at[i]]] /\ w = [i \in 1..n |-> g[bt[i]]]
    BY <2>1 DEF SortedScores
  <2>3. \A i \in 1..n : at[i] \in 1..n /\ bt[i] \in 1..n
    BY <1>2, <1>3 DEF SortsBy
  <2>4. v \in [1..n -> Int] /\ w \in [1..n -> Int] /\ \A i \in 1..n : w[i] <= v[i]
    BY <1>1, <1>4, <2>2, <2>3
  <2>5. Total(w) <= Total(v)
    BY <2>4, TotalBelow
  <2>6. QED
    BY <1>2, <1>3, <1>5, <2>1, <2>5 DEF Result
<1>6. CASE method = "equal"
  BY <1>1, <1>2, <1>3, <1>4, <1>6 DEF Result
<1>7. QED
  BY <1>5, <1>6

LEMMA OverallIs ==
  ASSUME NEW agg, agg.num \in Int, agg.den \in Nat,
         NEW weight \in Nat, NEW other \in Nat, NEW score \in Nat,
         NEW all, all = CalculateOverallHealthScore(Beside(agg, weight, other, score))
  PROVE  /\ agg.num < 0 => all = Failed
         /\ agg.num >= 0 /\ weight + other = 0 => all = Unknown
         /\ agg.num >= 0 /\ weight + other # 0 =>
              all = (weight * agg.num + other * score * agg.den) \div (agg.den * (weight + other))
<1>1. PICK m : m = Beside(agg, weight, other, score)
  OBVIOUS
<1>2. /\ DOMAIN m = {1, 2} /\ Len(m) = 2
      /\ m[1].weight = weight /\ m[1].result = agg
      /\ m[2].weight = other /\ m[2].result.num = score /\ m[2].result.den = 1
  BY <1>1 DEF Beside, Result
<1>3. PICK b : b = agg.num /\ b \in Int
  OBVIOUS
<1>4. PICK d : d = agg.den /\ d \in Nat
  OBVIOUS
<1>5. Total([i \in DOMAIN m |-> m[i].weight]) = weight + other
  <2>1. PICK v : v = [i \in DOMAIN m |-> m[i].weight]
    OBVIOUS
  <2>2. v \in [1..2 -> Int] /\ v[1] = weight /\ v[2] = other
    <3>1. 1..2 = {1, 2}
      OBVIOUS
    <3>2. QED
      BY <1>2, <2>1, <3>1
  <2>3. PICK s : IsSum(s, v, 2) /\ Total(v) = s[2]
    BY <2>2, TotalIs
  <2>4. s[0] = 0 /\ s[1] = s[1 - 1] + v[1] /\ s[2] = s[2 - 1] + v[2]
    BY <2>3 DEF IsSum
  <2>5. QED
    BY <2>1, <2>2, <2>3, <2>4
<1> DEFINE Step(before, n) ==
             [num |-> before.num * m[n].result.den + m[n].weight * m[n].result.num * before.den,
              den |-> before.den * m[n].result.den]
           Sum == CHOOSE s : s = [n \in 0..Len(m) |->
                                    IF n = 0 THEN [num |-> 0, den |-> 1]
                                    ELSE LET sc == m[n].result
                                         IN  [num |-> s[n - 1].num * sc.den + m[n].weight * sc.num * s[n - 1].den,
                                              den |-> s[n - 1].den * sc.den]]
<1>6. /\ Sum[Len(m)].num = weight * b + other * score * d
      /\ Sum[Len(m)].den = d
  <2>1. PICK s0 : s0 = [num |-> 0, den |-> 1]
    OBVIOUS
  <2>2. PICK s1 : s1 = Step(s0, 1)
    OBVIOUS
  <2>3. PICK s2 : s2 = Step(s1, 2)
    OBVIOUS
  <2>4. PICK t : t = [n \in 0..2 |-> IF n = 0 THEN s0 ELSE IF n = 1 THEN s1 ELSE s2]
    OBVIOUS
  <2>5. t[0] = s0 /\ t[1] = Step(t[0], 1) /\ t[2] = Step(t[1], 2)
    <3> HIDE DEF Step
    <3>1. t[0] = s0 /\ t[1] = s1 /\ t[2] = s2
      BY ONLY <2>4
    <3>2. QED
      BY <2>2, <2>3, <3>1
  <2>6. ASSUME NEW n \in 0..2
        PROVE  t[n] = IF n = 0 THEN [num |-> 0, den |-> 1] ELSE Step(t[n - 1], n)
    <3>1. n = 0 \/ n = 1 \/ n = 2
      OBVIOUS
    <3>2. QED
      BY <2>1, <2>5, <3>1
  <2>7. t = [n \in 0..Len(m) |-> IF n = 0 THEN [num |-> 0, den |-> 1] ELSE Step(t[n - 1], n)]
    BY <1>2, <2>4, <2>6
  <2>8. Sum = [n \in 0..Len(m) |-> IF n = 0 THEN [num |-> 0, den |-> 1] ELSE Step(Sum[n - 1], n)]
    BY <2>7
  <2> HIDE DEF Sum
  <2>9. PICK u : u = Sum
    OBVIOUS
  <2>10. u = [n \in 0..2 |-> IF n = 0 THEN [num |-> 0, den |-> 1] ELSE Step(u[n - 1], n)]
    BY <1>2, <2>8, <2>9
  <2> HIDE DEF Step
  <2>11. u[0] = [num |-> 0, den |-> 1] /\ u[1] = Step(u[0], 1) /\ u[2] = Step(u[1], 2)
    BY <2>10
  <2>12. u[1].num = 0 * d + weight * b * 1 /\ u[1].den = 1 * d
    BY <1>2, <1>3, <1>4, <2>11 DEF Step
  <2>13. u[1].num = weight * b /\ u[1].den = d
    BY <1>3, <1>4, <2>12
  <2>14. u[2].num = (weight * b) * 1 + other * score * d /\ u[2].den = d * 1
    BY <1>2, <2>11, <2>13 DEF Step
  <2>15. u[2].num = weight * b + other * score * d /\ u[2].den = d
    <3>1. weight * b \in Int
      BY <1>3
    <3>2. QED
      BY <1>4, <2>14, <3>1
  <2>16. QED
    BY <1>2, <2>9, <2>15
<1>7. (\E i \in DOMAIN m : m[i].result.num < 0) <=> b < 0
  <2>1. ~(score < 0)
    OBVIOUS
  <2>2. QED
    BY <1>2, <1>3, <2>1
<1>8. all = IF \E i \in DOMAIN m : m[i].result.num < 0 THEN Failed
            ELSE IF Total([i \in DOMAIN m |-> m[i].weight]) = 0 THEN Unknown
                 ELSE Sum[Len(m)].num \div (Sum[Len(m)].den * Total([i \in DOMAIN m |-> m[i].weight]))
  <2>1. all = CalculateOverallHealthScore(m)
    BY <1>1
  <2>2. QED
    BY ONLY <2>1 DEF CalculateOverallHealthScore
<1> HIDE DEF Sum
<1>9. /\ b < 0 => all = Failed
      /\ b >= 0 /\ weight + other = 0 => all = Unknown
      /\ b >= 0 /\ weight + other # 0 =>
           all = (weight * b + other * score * d) \div (d * (weight + other))
  <2>1. ASSUME b < 0
        PROVE  all = Failed
    BY <1>7, <1>8, <2>1
  <2>2. ASSUME b >= 0 /\ weight + other = 0
        PROVE  all = Unknown
    <3>1. ~(b < 0)
      BY <1>3, <2>2
    <3>2. QED
      BY <1>5, <1>7, <1>8, <2>2, <3>1
  <2>3. ASSUME b >= 0 /\ weight + other # 0
        PROVE  all = (weight * b + other * score * d) \div (d * (weight + other))
    <3>1. ~(b < 0)
      BY <1>3, <2>3
    <3>2. all = Sum[Len(m)].num \div (Sum[Len(m)].den * (weight + other))
      BY <1>5, <1>7, <1>8, <2>3, <3>1
    <3>3. QED
      BY <1>6, <2>3, <3>1, <3>2
  <2>4. QED
    BY ONLY <2>1, <2>2, <2>3
<1>10. QED
  BY <1>3, <1>4, <1>9

LEMMA QuotientsGrow ==
  ASSUME NEW a \in Nat, NEW b \in Nat, NEW d \in Nat, d > 0, a <= b
  PROVE  a \div d \in Nat /\ b \div d \in Nat /\ a \div d <= b \div d
<1>1. PICK p : p = a \div d
  OBVIOUS
<1>2. PICK q : q = b \div d
  OBVIOUS
<1>3. p \in Int /\ q \in Int /\ d * p <= a /\ a < d * p + d /\ d * q <= b /\ b < d * q + d
  BY <1>1, <1>2
<1>4. p >= 0
  <2>1. SUFFICES ASSUME p <= -1 PROVE FALSE
    BY <1>3
  <2>2. d * p <= -d
    BY <1>3, <2>1
  <2>3. QED
    BY <1>3, <2>2
<1>5. p <= q
  <2>1. SUFFICES ASSUME q + 1 <= p PROVE FALSE
    BY <1>3
  <2>2. d * (q + 1) <= d * p
    BY <1>3, <2>1
  <2>3. d * (q + 1) = d * q + d
    BY <1>3
  <2>4. d * p \in Int /\ d * q \in Int
    BY <1>3
  <2>5. QED
    BY <1>3, <2>2, <2>3, <2>4
<1>6. QED
  BY <1>1, <1>2, <1>3, <1>4, <1>5

LEMMA QuotientsEnd ==
  ASSUME NEW a \in Nat, NEW d \in Nat, d > 0, NEW c \in Nat, a <= c * d
  PROVE  a \div d <= c
<1>1. PICK p : p = a \div d
  OBVIOUS
<1>2. p \in Int /\ d * p <= a
  BY <1>1
<1>3. SUFFICES ASSUME c + 1 <= p PROVE FALSE
  BY <1>1, <1>2
<1>4. d * (c + 1) <= d * p
  BY <1>2, <1>3
<1>5. d * (c + 1) = c * d + d
  OBVIOUS
<1>6. d * p \in Int /\ c * d \in Int
  BY <1>2
<1>7. QED
  BY <1>2, <1>4, <1>5, <1>6

\* Last, the property of a call.

Blames(agg, scores, blamed) ==
  /\ agg.num = 100 * agg.den <=> blamed = {}
  /\ Len(agg.reason.named) = Cardinality(blamed)
  /\ \A i \in blamed, j \in DOMAIN scores \ blamed : scores[i] <= scores[j]

LEMMA AggBlames ==
  ASSUME NEW n \in Nat, NEW f, KnownScores(f, n), NEW method \in {"divide", "equal"},
         NEW agg, agg = AggOf(f, method)
  PROVE  Blames(agg, f, ToSet(agg.reason.named))
<1>0. PICK blamed : blamed = ToSet(agg.reason.named)
  OBVIOUS
<1>1. PICK at : SortsBy(at, f, n)
                /\ agg = Result(IF method = "divide" THEN Total(SortedScores(at, f, n)) ELSE f[at[1]],
                                IF method = "divide" THEN n ELSE 1,
                                ReasonOf(ElementsAt(ListBy(at, f, n), BadPlaces(at, f, n, method))))
  BY AggIs
<1>2. PICK P : P = BadPlaces(at, f, n, method)
  OBVIOUS
<1>3. \A i \in 1..n : i \in P <=> f[at[i]] # 100 /\ (method = "equal" => f[at[i]] = f[at[1]])
  BY <1>2 DEF BadPlaces
<1>4. P \in SUBSET (1..n)
  BY <1>2 DEF BadPlaces
<1>5. \A i \in 1..n : f[at[i]] \in Int /\ f[at[i]] <= 100 /\ f[at[1]] <= f[at[i]]
  BY <1>1, SortedRange
<1>6. WorstPlaces(P, at, f, n)
  <2>1. SUFFICES ASSUME NEW p \in P, NEW q \in (1..n) \ P PROVE f[at[p]] <= f[at[q]]
    BY <1>4 DEF WorstPlaces
  <2>2. p \in 1..n /\ q \in 1..n
    BY <1>4
  <2>3. CASE f[at[q]] = 100
    BY <1>5, <2>2, <2>3
  <2>4. CASE method = "equal" /\ f[at[q]] # f[at[1]]
    <3>1. f[at[p]] = f[at[1]]
      BY <1>3, <2>2, <2>4
    <3>2. QED
      BY <1>5, <2>2, <3>1
  <2>5. QED
    BY <1>3, <2>2, <2>3, <2>4
<1>7. agg.reason = ReasonOf(ElementsAt(ListBy(at, f, n), P))
  BY <1>1, <1>2 DEF Result
<1>8. f \in [1..n -> Int] /\ DOMAIN f = 1..n /\ 1 \in 1..n
  BY DEF KnownScores
<1>9. PICK named : named = agg.reason.named
  OBVIOUS
<1>10. NamesWorst(named, P, f, n)
  BY <1>1, <1>6, <1>7, <1>8, <1>9, Blamed
<1>11. P = {} <=> \A i \in 1..n : f[i] = 100
  <2>1. ASSUME P = {}
        PROVE  \A i \in 1..n : f[at[i]] = 100
    <3>1. f[at[1]] = 100
      BY <1>3, <1>8, <2>1
    <3>2. QED
      BY <1>5, <3>1
  <2>2. ASSUME \A i \in 1..n : f[i] = 100
        PROVE  P = {}
    <3>1. \A i \in 1..n : at[i] \in 1..n
      BY <1>1 DEF SortsBy
    <3>2. \A i \in 1..n : f[at[i]] = 100
      BY <2>2, <3>1
    <3>3. QED
      BY <1>3, <1>4, <3>2
  <2>3. ASSUME \A i \in 1..n : f[at[i]] = 100
        PROVE  \A i \in 1..n : f[i] = 100
    <3>1. \A i \in 1..n : \E k \in 1..n : at[k] = i
      BY <1>1 DEF SortsBy
    <3>2. QED
      BY <2>3, <3>1
  <2>4. QED
    BY <2>1, <2>2, <2>3
<1>12. agg.num = 100 * agg.den <=> \A i \in 1..n : f[i] = 100
  BY ONLY n \in Nat, KnownScores(f, n), method \in {"divide", "equal"}, agg = AggOf(f, method), AggRange
<1>13. QED
  BY <1>0, <1>8, <1>9, <1>10, <1>11, <1>12 DEF Blames, NamesWorst

LEMMA NoAnswer ==
  ASSUME NEW n \in Nat, NEW f \in [1..n -> Int], NEW method \in {"divide", "equal"},
         n = 0 \/ \E i \in 1..n : f[i] = Unknown
  PROVE  /\ AggOf(f, method).num \in Int /\ AggOf(f, method).num < 0
         /\ AggOf(f, method).den = 1
<1>1. DOMAIN Instances(f) = 1..n /\ \A i \in 1..n : Instances(f)[i].score = f[i]
  BY DEF Instances
<1>2. CASE \E i \in 1..n : f[i] = Unknown
  <2>1. AggOf(f, method) = Result(Unknown, 1, NoReason)
    BY <1>1, <1>2 DEF AggOf, CalculateAggHealthScoreForMetric
  <2>2. QED
    BY <2>1 DEF Result, Unknown
<1>3. CASE n = 0
  <2>1. ~(\E i \in DOMAIN Instances(f) : Instances(f)[i].score = Unknown)
    BY <1>1, <1>3
  <2>2. PICK at : Sorted(Instances(f)) = ListBy(at, f, n)
    BY SortedIs
  <2>3. ListBy(at, f, n) = << >>
    BY <1>3 DEF ListBy
  <2>4. AggHealthDivideMethod(<< >>) = Result(Failed, 1, NoReason)
    BY DEF AggHealthDivideMethod
  <2>5. AggHealthEqualMethod(<< >>) = Result(Failed, 1, NoReason)
    BY DEF AggHealthEqualMethod
  <2>6. AggOf(f, method) = Result(Failed, 1, NoReason)
    BY <2>1, <2>2, <2>3, <2>4, <2>5 DEF AggOf, CalculateAggHealthScoreForMetric
  <2>7. QED
    BY <2>6 DEF Result, Failed
<1>4. QED
  BY <1>2, <1>3

Accountable(scores, weights, agg, overall, worse) ==
  LET known  == Unknown \notin ToSet(scores)
      blamed == ToSet(agg.reason.named)
  IN  /\ overall = Failed <=> scores = << >> \/ ~known
      /\ overall = Unknown <=> scores # << >> /\ known /\ weights = 0
      /\ overall >= 0 =>
           /\ worse \in 0..overall /\ overall <= 100
           /\ agg.num \in (Min(ToSet(scores)) * agg.den)..(Max(ToSet(scores)) * agg.den)
           /\ agg.num = 100 * agg.den <=> blamed = {}
           /\ \A i \in blamed, j \in DOMAIN scores \ blamed : scores[i] <= scores[j]
           /\ Len(agg.reason.named) = Cardinality(blamed)

OverallOf(agg, weight, other, score) == CalculateOverallHealthScore(Beside(agg, weight, other, score))

WorseThan(g, f, n) ==
  /\ g \in [1..n -> Int]
  /\ \A i \in 1..n : IF f[i] = Unknown THEN g[i] = Unknown ELSE 0 <= g[i] /\ g[i] <= f[i]

Weighs(n, f, g, method, weight, other, score) ==
  /\ n \in Nat /\ KnownScores(f, n) /\ KnownScores(g, n) /\ \A i \in 1..n : g[i] <= f[i]
  /\ method \in {"divide", "equal"} /\ weight \in Nat /\ other \in Nat /\ score \in 0..100
  /\ weight + other > 0

Weighed(f, g, method, weight, other, score) ==
  LET overall == OverallOf(AggOf(f, method), weight, other, score)
  IN  overall \in 0..100 /\ OverallOf(AggOf(g, method), weight, other, score) \in 0..overall

LEMMA WeighedIs ==
  ASSUME NEW n, NEW f, NEW g, NEW method, NEW weight, NEW other, NEW score,
         Weighs(n, f, g, method, weight, other, score)
  PROVE  Weighed(f, g, method, weight, other, score)
<1>0. /\ n \in Nat /\ KnownScores(f, n) /\ KnownScores(g, n) /\ \A i \in 1..n : g[i] <= f[i]
      /\ method \in {"divide", "equal"} /\ weight \in Nat /\ other \in Nat /\ score \in 0..100
      /\ weight + other > 0
  BY DEF Weighs
<1> USE <1>0
<1>1. PICK b, c : b = AggOf(f, method).num /\ c = AggOf(g, method).num
  OBVIOUS
<1>2. PICK d : d = IF method = "divide" THEN n ELSE 1
  OBVIOUS
<1>3. b \in Nat /\ AggOf(f, method).den = d /\ b <= 100 * d
  BY <1>1, <1>2, AggRange
<1>4. c \in Nat /\ AggOf(g, method).den = d /\ c <= b
  BY <1>1, <1>2, AggRange, AggBelow
<1>5. d \in Nat /\ d > 0
  BY <1>2 DEF KnownScores
<1>6. PICK k : k = d * (weight + other)
  OBVIOUS
<1>7. k \in Nat /\ k > 0
  BY <1>5, <1>6
<1>8. PICK x : x = weight * b + other * score * d
  OBVIOUS
<1>9. PICK y : y = weight * c + other * score * d
  OBVIOUS
<1>10. OverallOf(AggOf(f, method), weight, other, score) = x \div k
  <2>1. AggOf(f, method).num \in Int /\ AggOf(f, method).den \in Nat /\ score \in Nat
    BY <1>1, <1>3, <1>5
  <2>2. AggOf(f, method).num >= 0 /\ weight + other # 0
    BY <1>1, <1>3
  <2>3. QED
    BY <1>1, <1>3, <1>6, <1>8, <2>1, <2>2, OverallIs DEF OverallOf
<1>11. OverallOf(AggOf(g, method), weight, other, score) = y \div k
  <2>1. AggOf(g, method).num \in Int /\ AggOf(g, method).den \in Nat /\ score \in Nat
    BY <1>1, <1>4, <1>5
  <2>2. AggOf(g, method).num >= 0 /\ weight + other # 0
    BY <1>1, <1>4
  <2>3. QED
    BY <1>1, <1>4, <1>6, <1>9, <2>1, <2>2, OverallIs DEF OverallOf
<1>12. PICK e : e = other * score * d
  OBVIOUS
<1>13. e \in Nat /\ e <= 100 * (other * d)
  <2>1. other * score \in Nat /\ other * score <= 100 * other
    OBVIOUS
  <2>2. (other * score) * d <= (100 * other) * d
    BY <1>5, <2>1
  <2>3. (100 * other) * d = 100 * (other * d)
    BY <1>5
  <2>4. (other * score) * d \in Nat
    BY <1>5, <2>1
  <2>5. QED
    BY <1>12, <2>2, <2>3, <2>4
<1>14. weight * b \in Nat /\ weight * c \in Nat /\ weight * c <= weight * b
  BY <1>3, <1>4
<1>15. weight * b <= 100 * (weight * d)
  <2>1. weight * b <= weight * (100 * d)
    BY <1>3, <1>5
  <2>2. weight * (100 * d) = 100 * (weight * d)
    BY <1>5
  <2>3. QED
    BY <2>1, <2>2
<1>16. x \in Nat /\ y \in Nat /\ y <= x
  BY <1>8, <1>9, <1>12, <1>13, <1>14
<1>17. x <= 100 * k
  <2>1. k = weight * d + other * d
    BY <1>5, <1>6
  <2>2. weight * d \in Nat /\ other * d \in Nat
    BY <1>5
  <2>3. QED
    BY <1>8, <1>12, <1>13, <1>14, <1>15, <2>1, <2>2
<1>18. y \div k \in Nat /\ x \div k \in Nat /\ y \div k <= x \div k
  BY <1>7, <1>16, QuotientsGrow
<1>19. x \div k <= 100
  BY <1>7, <1>16, <1>17, QuotientsEnd
<1>20. QED
  BY <1>10, <1>11, <1>18, <1>19 DEF Weighed

LEMMA HealthOf ==
  ASSUME NEW n \in Nat, NEW f \in [1..n -> Int], NEW g, WorseThan(g, f, n),
         \A i \in 1..n : f[i] = Unknown \/ (0 <= f[i] /\ f[i] <= 100),
         NEW method \in {"divide", "equal"},
         NEW weight \in Nat, NEW other \in Nat, NEW score \in 0..100
  PROVE  Accountable(f, weight + other, AggOf(f, method),
                     OverallOf(AggOf(f, method), weight, other, score),
                     OverallOf(AggOf(g, method), weight, other, score))
<1>1. PICK overall : overall = OverallOf(AggOf(f, method), weight, other, score)
  OBVIOUS
<1>2. PICK worse : worse = OverallOf(AggOf(g, method), weight, other, score)
  OBVIOUS
<1>3. PICK agg : agg = AggOf(f, method)
  OBVIOUS
<1>4. f = << >> <=> n = 0
  <2>1. Len(f) = n
    OBVIOUS
  <2>2. n = 0 => f = << >>
    OBVIOUS
  <2>3. Len(<< >>) = 0
    OBVIOUS
  <2>4. QED
    BY <2>1, <2>2, <2>3
<1>5. Unknown \notin ToSet(f) <=> \A i \in 1..n : f[i] # Unknown
  BY DEF ToSet
<1>6. score \in Nat
  OBVIOUS
<1>7. CASE n = 0 \/ \E i \in 1..n : f[i] = Unknown
  <2>1. agg.num \in Int /\ agg.num < 0 /\ agg.den = 1
    BY <1>3, <1>7, NoAnswer
  <2>2. overall = Failed
    BY <1>1, <1>3, <1>6, <2>1, OverallIs DEF OverallOf
  <2>3. overall # Unknown /\ ~(overall >= 0)
    BY <2>2 DEF Failed, Unknown
  <2>4. Accountable(f, weight + other, agg, overall, worse)
    BY <1>4, <1>5, <1>7, <2>2, <2>3 DEF Accountable
  <2>5. QED
    BY <1>1, <1>2, <1>3, <2>4
<1>8. CASE n # 0 /\ \A i \in 1..n : f[i] # Unknown
  <2>1. KnownScores(f, n)
    BY <1>8 DEF KnownScores
  <2>2. KnownScores(g, n) /\ \A i \in 1..n : g[i] <= f[i]
    BY <1>8 DEF KnownScores, WorseThan
  <2>3. CASE weight + other = 0
    <3>1. agg.num \in Nat /\ agg.den \in Nat
      BY <1>3, <2>1, AggRange
    <3>2. overall = Unknown
      BY <1>1, <1>3, <1>6, <2>3, <3>1, OverallIs DEF OverallOf
    <3>3. overall # Failed /\ ~(overall >= 0)
      BY <3>2 DEF Failed, Unknown
    <3>4. Accountable(f, weight + other, agg, overall, worse)
      BY <1>4, <1>5, <1>8, <2>3, <3>2, <3>3 DEF Accountable
    <3>5. QED
      BY <1>1, <1>2, <1>3, <3>4
  <2>4. CASE weight + other > 0
    <3>1. overall \in 0..100 /\ worse \in 0..overall
      <4>1. Weighs(n, f, g, method, weight, other, score)
        BY <2>1, <2>2, <2>4 DEF Weighs
      <4>2. Weighed(f, g, method, weight, other, score)
        BY <4>1, WeighedIs
      <4>3. QED
        BY ONLY <1>1, <1>2, <4>2 DEF Weighed
    <3>2. overall # Failed /\ overall # Unknown /\ weight + other # 0
      BY <2>4, <3>1 DEF Failed, Unknown
    <3>3. agg.num \in (Min(ToSet(f)) * agg.den)..(Max(ToSet(f)) * agg.den)
      BY <1>3, <2>1, AggRange
    <3>4. PICK blamed : blamed = ToSet(agg.reason.named)
      OBVIOUS
    <3>5. Blames(agg, f, ToSet(agg.reason.named))
      BY <1>3, <2>1, AggBlames
    <3>6. /\ agg.num = 100 * agg.den <=> blamed = {}
          /\ Len(agg.reason.named) = Cardinality(blamed)
          /\ \A i \in blamed, j \in DOMAIN f \ blamed : f[i] <= f[j]
      BY <3>4, <3>5 DEF Blames
    <3>7. /\ overall = Failed <=> f = << >> \/ ~(Unknown \notin ToSet(f))
          /\ overall = Unknown <=> f # << >> /\ Unknown \notin ToSet(f) /\ weight + other = 0
      BY <1>4, <1>5, <1>8, <3>2
    <3>8. Accountable(f, weight + other, agg, overall, worse)
      BY <3>1, <3>3, <3>4, <3>6, <3>7 DEF Accountable
    <3>9. QED
      BY <1>1, <1>2, <1>3, <3>8
  <2>5. QED
    BY <2>3, <2>4
<1>9. QED
  BY <1>7, <1>8

LEMMA HealthCall ==
  ASSUME ScoreHealth
  PROVE  HealthIsAccountable'
<1>1. PICK method \in {"divide", "equal"}, n \in Sizes, weight \in Weights, other \in Weights :
        \E scores \in [1..n -> Scores \cup {Unknown}], lower \in [1..n -> Scores], score \in Scores :
          /\ call' = [kind |-> "health", method |-> method, scores |-> scores,
                      weights |-> weight + other]
          /\ result' = [agg |-> AggOf(scores, method),
                        overall |-> OverallOf(AggOf(scores, method), weight, other, score),
                        worse |-> OverallOf(AggOf(Lowered(scores, lower), method), weight, other, score)]
  BY DEF ScoreHealth, AggOf, OverallOf
<1>2. PICK f \in [1..n -> Scores \cup {Unknown}], lower \in [1..n -> Scores], score \in Scores :
        /\ call' = [kind |-> "health", method |-> method, scores |-> f, weights |-> weight + other]
        /\ result' = [agg |-> AggOf(f, method),
                      overall |-> OverallOf(AggOf(f, method), weight, other, score),
                      worse |-> OverallOf(AggOf(Lowered(f, lower), method), weight, other, score)]
  BY <1>1
<1>3. /\ n \in Nat /\ weight \in Nat /\ other \in Nat /\ score \in 0..100
      /\ \A x \in Scores : x \in Int /\ 0 <= x /\ x <= 100
  BY InputAssumption
<1>4. f \in [1..n -> Int] /\ \A i \in 1..n : f[i] = Unknown \/ (0 <= f[i] /\ f[i] <= 100)
  <2>1. \A i \in 1..n : f[i] = -1 \/ f[i] \in Scores
    BY DEF Unknown
  <2>2. ASSUME NEW i \in 1..n
        PROVE  f[i] \in Int /\ (f[i] = -1 \/ (0 <= f[i] /\ f[i] <= 100))
    <3>1. CASE f[i] = -1
      BY <3>1
    <3>2. CASE f[i] \in Scores
      BY <1>3, <3>2
    <3>3. QED
      BY <2>1, <3>1, <3>2
  <2>3. DOMAIN f = 1..n /\ f = [i \in 1..n |-> f[i]]
    OBVIOUS
  <2>4. QED
    BY <2>2, <2>3 DEF Unknown
<1>5. PICK g : g = Lowered(f, lower)
  OBVIOUS
<1>6. WorseThan(g, f, n)
  <2>1. DOMAIN g = 1..n /\ g = [i \in 1..n |-> g[i]]
    BY <1>5 DEF Lowered
  <2>2. ASSUME NEW i \in 1..n
        PROVE  g[i] \in Int /\ IF f[i] = Unknown THEN g[i] = Unknown ELSE 0 <= g[i] /\ g[i] <= f[i]
    <3>1. g[i] = IF f[i] # Unknown /\ lower[i] < f[i] THEN lower[i] ELSE f[i]
      BY <1>5 DEF Lowered
    <3>2. lower[i] \in Int /\ 0 <= lower[i] /\ f[i] \in Int
      BY <1>3, <1>4
    <3>3. f[i] = Unknown \/ 0 <= f[i]
      BY <1>4
    <3>4. QED
      BY <3>1, <3>2, <3>3
  <2>3. QED
    BY <2>1, <2>2 DEF WorseThan
<1>7. Accountable(f, weight + other, AggOf(f, method),
                  OverallOf(AggOf(f, method), weight, other, score),
                  OverallOf(AggOf(g, method), weight, other, score))
  BY <1>3, <1>4, <1>6, HealthOf
<1>8. Accountable(call'.scores, call'.weights, result'.agg, result'.overall, result'.worse)
  BY <1>2, <1>5, <1>7
<1>9. QED
  BY <1>8 DEF HealthIsAccountable, Accountable

(* The score of a resource and its reason are accountable, for any scores  *)
(* of any number of instances, any weights, and however many names a       *)
(* reason shows.                                                           *)
THEOREM HealthAccountable == Spec => []HealthIsAccountable
<1>1. Init => HealthIsAccountable
  BY DEF Init, Idle, HealthIsAccountable
<1>2. HealthIsAccountable /\ [Next]_vars => HealthIsAccountable'
  <2>1. SUFFICES ASSUME HealthIsAccountable, [Next]_vars PROVE HealthIsAccountable'
    OBVIOUS
  <2>2. CASE call'.kind = "health"
    <3>1. CASE ScoreHealth
      BY <3>1, HealthCall
    <3>2. CASE UNCHANGED vars
      BY <2>1, <3>2 DEF vars, HealthIsAccountable
    <3>3. QED
      BY <2>1, <2>2, <3>1, <3>2, OneKindOfCall
  <2>3. CASE call'.kind # "health"
    BY <2>3 DEF HealthIsAccountable
  <2>4. QED
    BY <2>2, <2>3
<1>3. QED
  BY <1>1, <1>2, PTL DEF Spec

-----------------------------------------------------------------------------
\* What is defined by recursion over 0..n: there is such a function, and it is of its type.

Iterated(f, c, step, S, n) ==
  f \in [0..n -> S] /\ f[0] = c /\ \A k \in 1..n : f[k] = step[k][f[k - 1]]

LEMMA Iterates ==
  ASSUME NEW n \in Nat, NEW S, NEW c \in S, NEW step \in [1..n -> [S -> S]]
  PROVE  \E f : Iterated(f, c, step, S, n)
<1> DEFINE T == {k \in Nat : k <= n => \E f : Iterated(f, c, step, S, k)}
<1>1. 0 \in T
  <2>1. Iterated([k \in 0..0 |-> c], c, step, S, 0)
    BY DEF Iterated
  <2>2. QED
    BY <2>1
<1>2. ASSUME NEW k \in Nat, k \in T
      PROVE  k + 1 \in T
  <2>1. SUFFICES ASSUME k + 1 <= n PROVE \E f : Iterated(f, c, step, S, k + 1)
    OBVIOUS
  <2>2. PICK f : Iterated(f, c, step, S, k)
    BY <1>2, <2>1
  <2>3. PICK g : g = [i \in 0..(k + 1) |-> IF i <= k THEN f[i] ELSE step[k + 1][f[k]]]
    OBVIOUS
  <2>4. step[k + 1][f[k]] \in S
    <3>1. f[k] \in S /\ step[k + 1] \in [S -> S]
      BY <2>1, <2>2 DEF Iterated
    <3>2. QED
      BY <3>1
  <2>5. g \in [0..(k + 1) -> S] /\ g[0] = c
    BY <2>2, <2>3, <2>4 DEF Iterated
  <2>6. ASSUME NEW i \in 1..(k + 1)
        PROVE  g[i] = step[i][g[i - 1]]
    <3>1. CASE i <= k
      BY <2>2, <2>3, <3>1 DEF Iterated
    <3>2. CASE i = k + 1
      BY <2>3, <3>2
    <3>3. QED
      BY <3>1, <3>2
  <2>7. Iterated(g, c, step, S, k + 1)
    BY <2>5, <2>6 DEF Iterated
  <2>8. QED
    BY <2>7
<1> HIDE DEF T
<1>3. \A k \in Nat : k \in T
  BY <1>1, <1>2, NatSet
<1>4. QED
  BY <1>3 DEF T

-----------------------------------------------------------------------------
\* Powers of two.

IsPow(f, k) ==
  /\ f = [n \in 0..k |-> IF n = 0 THEN 1 ELSE 2 * f[n - 1]]

LEMMA PowIs ==
  ASSUME NEW k \in Nat
  PROVE  \E f : IsPow(f, k) /\ Pow2(k) = f[k]
<1>1. PICK step : step = [i \in 1..k |-> [x \in Int |-> 2 * x]]
  OBVIOUS
<1>2. step \in [1..k -> [Int -> Int]]
  BY <1>1
<1>3. PICK f : Iterated(f, 1, step, Int, k)
  <2>1. PICK S, c : S = Int /\ c = 1
    OBVIOUS
  <2>2. c \in S /\ step \in [1..k -> [S -> S]]
    BY <1>2, <2>1
  <2>3. \E f : Iterated(f, c, step, S, k)
    BY ONLY k \in Nat, <2>2, Iterates
  <2>4. QED
    BY <2>1, <2>3
<1>4. f = [n \in 0..k |-> IF n = 0 THEN 1 ELSE 2 * f[n - 1]]
  <2>1. \A n \in 1..k : f[n - 1] \in Int
    BY <1>3 DEF Iterated
  <2>2. \A n \in 1..k : f[n] = 2 * f[n - 1]
    BY <1>1, <1>3, <2>1 DEF Iterated
  <2>3. QED
    BY <1>3, <2>2 DEF Iterated
<1> DEFINE P == CHOOSE g : g = [n \in 0..k |-> IF n = 0 THEN 1 ELSE 2 * g[n - 1]]
<1>5. P = [n \in 0..k |-> IF n = 0 THEN 1 ELSE 2 * P[n - 1]]
  BY <1>4
<1>6. Pow2(k) = P[k]
  BY DEF Pow2
<1> HIDE DEF P
<1>7. QED
  BY <1>5, <1>6 DEF IsPow

LEMMA PowsAgree ==
  ASSUME NEW k \in Nat, NEW m \in Nat, NEW f, IsPow(f, k), NEW g, IsPow(g, m), k <= m
  PROVE  f[k] = g[k] /\ f[k] \in Nat /\ f[k] > 0
<1> DEFINE T == {i \in Nat : i <= k => f[i] = g[i] /\ f[i] \in Nat /\ f[i] > 0}
<1>1. 0 \in T
  BY DEF IsPow
<1>2. ASSUME NEW i \in Nat, i \in T
      PROVE  i + 1 \in T
  <2>1. SUFFICES ASSUME i + 1 <= k
                 PROVE  f[i + 1] = g[i + 1] /\ f[i + 1] \in Nat /\ f[i + 1] > 0
    OBVIOUS
  <2>2. f[i] = g[i] /\ f[i] \in Nat /\ f[i] > 0
    BY <1>2, <2>1
  <2>3. i + 1 \in 0..k /\ i + 1 \in 0..m /\ i + 1 # 0 /\ (i + 1) - 1 = i
    BY <2>1
  <2>4. f[i + 1] = 2 * f[i] /\ g[i + 1] = 2 * g[i]
    BY <2>3 DEF IsPow
  <2>5. QED
    BY <2>2, <2>4
<1> HIDE DEF T
<1>3. \A i \in Nat : i \in T
  BY <1>1, <1>2, NatSet
<1>4. QED
  BY <1>3 DEF T

LEMMA PowStep ==
  /\ Pow2(0) = 1
  /\ \A k \in Nat : Pow2(k) \in Nat /\ Pow2(k) > 0 /\ Pow2(k + 1) = 2 * Pow2(k)
<1>1. Pow2(0) = 1
  <2>1. PICK f : IsPow(f, 0) /\ Pow2(0) = f[0]
    BY PowIs
  <2>2. QED
    BY <2>1 DEF IsPow
<1>2. ASSUME NEW k \in Nat
      PROVE  Pow2(k) \in Nat /\ Pow2(k) > 0 /\ Pow2(k + 1) = 2 * Pow2(k)
  <2>1. PICK f : IsPow(f, k) /\ Pow2(k) = f[k]
    BY PowIs
  <2>2. k + 1 \in Nat /\ k <= k + 1 /\ k + 1 # 0 /\ (k + 1) - 1 = k /\ k + 1 \in 0..(k + 1)
    OBVIOUS
  <2>3. PICK g : IsPow(g, k + 1) /\ Pow2(k + 1) = g[k + 1]
    BY <2>2, PowIs
  <2>4. f[k] = g[k] /\ f[k] \in Nat /\ f[k] > 0
    BY <2>1, <2>2, <2>3, PowsAgree
  <2>5. g[k + 1] = 2 * g[k]
    BY <2>2, <2>3 DEF IsPow
  <2>6. QED
    BY <2>1, <2>3, <2>4, <2>5
<1>3. QED
  BY <1>1, <1>2

LEMMA PowPositive == ASSUME NEW k \in Nat PROVE Pow2(k) \in Nat /\ Pow2(k) > 0
BY PowStep

LEMMA PowAdd ==
  ASSUME NEW a \in Nat, NEW b \in Nat
  PROVE  Pow2(a + b) = Pow2(a) * Pow2(b)
<1> DEFINE T == {k \in Nat : Pow2(a + k) = Pow2(a) * Pow2(k)}
<1>1. 0 \in T
  <2>1. a + 0 = a /\ Pow2(a) \in Nat
    BY PowPositive
  <2>2. Pow2(a) * 1 = Pow2(a)
    BY <2>1
  <2>3. QED
    BY <2>1, <2>2, PowStep
<1>2. ASSUME NEW k \in Nat, k \in T
      PROVE  k + 1 \in T
  <2>1. PICK x, y, z : x = Pow2(a) /\ y = Pow2(k) /\ z = Pow2(a + k)
    OBVIOUS
  <2>2. x \in Nat /\ y \in Nat /\ z = x * y
    BY <1>2, <2>1, PowPositive
  <2>3. a + (k + 1) = (a + k) + 1 /\ a + k \in Nat
    OBVIOUS
  <2>4. Pow2(a + (k + 1)) = 2 * z /\ Pow2(k + 1) = 2 * y
    BY <2>1, <2>3, PowStep
  <2>5. 2 * (x * y) = x * (2 * y)
    BY <2>2
  <2>6. QED
    BY <2>1, <2>2, <2>4, <2>5
<1> HIDE DEF T
<1>3. \A k \in Nat : k \in T
  BY <1>1, <1>2, NatSet
<1>4. QED
  BY <1>3 DEF T

LEMMA PowSplit ==
  ASSUME NEW a \in Nat, NEW b \in Nat, a <= b
  PROVE  /\ b - a \in Nat /\ Pow2(b) = Pow2(a) * Pow2(b - a)
         /\ Pow2(a) <= Pow2(b)
<1>1. b - a \in Nat /\ a + (b - a) = b
  OBVIOUS
<1>2. Pow2(b) = Pow2(a) * Pow2(b - a)
  BY <1>1, PowAdd
<1>3. PICK x, y : x = Pow2(a) /\ y = Pow2(b - a)
  OBVIOUS
<1>4. x \in Nat /\ y \in Nat /\ y >= 1
  BY <1>1, <1>3, PowPositive
<1>5. x * 1 <= x * y
  BY <1>4
<1>6. QED
  BY <1>1, <1>2, <1>3, <1>4, <1>5

-----------------------------------------------------------------------------
\* What digits stand for.

IsNumber(f, digits, base, n) ==
  /\ f \in [0..n -> Int] /\ f[0] = 0
  /\ \A k \in 1..n : f[k] = f[k - 1] * base + digits[k]

LEMMA NumberIs ==
  ASSUME NEW n \in Nat, NEW digits \in [1..n -> Int], NEW base \in Int
  PROVE  \E f : IsNumber(f, digits, base, n) /\ Number(digits, base) = f[n]
<1>1. PICK step : step = [i \in 1..n |-> [x \in Int |-> x * base + digits[i]]]
  OBVIOUS
<1>2. step \in [1..n -> [Int -> Int]]
  BY <1>1
<1>3. PICK f : Iterated(f, 0, step, Int, n)
  <2>1. PICK S, c : S = Int /\ c = 0
    OBVIOUS
  <2>2. c \in S /\ step \in [1..n -> [S -> S]]
    BY <1>2, <2>1
  <2>3. \E f : Iterated(f, c, step, S, n)
    BY ONLY n \in Nat, <2>2, Iterates
  <2>4. QED
    BY <2>1, <2>3
<1>4. Len(digits) = n
  OBVIOUS
<1>5. f = [k \in 0..n |-> IF k = 0 THEN 0 ELSE f[k - 1] * base + digits[k]]
  <2>1. \A k \in 1..n : f[k - 1] \in Int
    BY <1>3 DEF Iterated
  <2>2. \A k \in 1..n : f[k] = f[k - 1] * base + digits[k]
    BY <1>1, <1>3, <2>1 DEF Iterated
  <2>3. QED
    BY <1>3, <2>2 DEF Iterated
<1> DEFINE F == CHOOSE g : g = [k \in 0..Len(digits) |->
                                  IF k = 0 THEN 0 ELSE g[k - 1] * base + digits[k]]
<1>6. F = [k \in 0..Len(digits) |-> IF k = 0 THEN 0 ELSE F[k - 1] * base + digits[k]]
  BY <1>4, <1>5
<1>7. Number(digits, base) = F[Len(digits)]
  BY DEF Number
<1> HIDE DEF F
<1>8. PICK g : g = F
  OBVIOUS
<1>9. g = [k \in 0..n |-> IF k = 0 THEN 0 ELSE g[k - 1] * base + digits[k]]
  BY <1>4, <1>6, <1>8
<1>10. g[0] = 0 /\ \A k \in 1..n : g[k] = g[k - 1] * base + digits[k]
  BY <1>9
<1> DEFINE T == {k \in Nat : k <= n => g[k] \in Int}
<1>11. 0 \in T
  BY <1>10
<1>12. ASSUME NEW k \in Nat, k \in T
       PROVE  k + 1 \in T
  <2>1. SUFFICES ASSUME k + 1 <= n PROVE g[k + 1] \in Int
    OBVIOUS
  <2>2. g[k] \in Int /\ digits[k + 1] \in Int
    BY <1>12, <2>1
  <2>3. (k + 1) - 1 = k /\ k + 1 \in 1..n
    BY <2>1
  <2>4. g[k + 1] = g[k] * base + digits[k + 1]
    BY <1>10, <2>3
  <2>5. QED
    BY <2>2, <2>4
<1> HIDE DEF T
<1>13. \A k \in Nat : k \in T
  BY <1>11, <1>12, NatSet
<1>14. \A k \in 0..n : g[k] \in Int
  BY <1>13 DEF T
<1>15. g \in [0..n -> Int]
  BY <1>9, <1>14
<1>16. QED
  BY <1>4, <1>7, <1>8, <1>10, <1>15 DEF IsNumber

(* A claim about the number of the first k digits holds for all of them if *)
(* it is kept from one digit to the next.                                  *)
LEMMA NumberBy ==
  ASSUME NEW n \in Nat, NEW digits \in [1..n -> Int], NEW base \in Int,
         NEW value \in [0..n -> Int], value[0] = 0,
         \A k \in 1..n : value[k] = value[k - 1] * base + digits[k]
  PROVE  Number(digits, base) = value[n]
<1>1. PICK f : IsNumber(f, digits, base, n) /\ Number(digits, base) = f[n]
  BY NumberIs
<1> DEFINE T == {k \in Nat : k <= n => f[k] = value[k]}
<1>2. 0 \in T
  BY <1>1 DEF IsNumber
<1>3. ASSUME NEW k \in Nat, k \in T
      PROVE  k + 1 \in T
  <2>1. SUFFICES ASSUME k + 1 <= n PROVE f[k + 1] = value[k + 1]
    OBVIOUS
  <2>2. (k + 1) - 1 = k /\ k + 1 \in 1..n
    BY <2>1
  <2>3. f[k + 1] = f[k] * base + digits[k + 1]
    BY <1>1, <2>2 DEF IsNumber
  <2>4. value[k + 1] = value[k] * base + digits[k + 1]
    BY <2>2
  <2>5. f[k] = value[k]
    BY <1>3, <2>1
  <2>6. QED
    BY <2>3, <2>4, <2>5
<1> HIDE DEF T
<1>4. \A k \in Nat : k \in T
  BY <1>2, <1>3, NatSet
<1>5. QED
  BY <1>1, <1>4 DEF T

-----------------------------------------------------------------------------
\* Quotients and remainders.

LEMMA DivIs ==
  ASSUME NEW n \in Int, NEW m \in Nat, m > 0, NEW q \in Int, NEW r \in Int, 0 <= r, r < m,
         n = m * q + r
  PROVE  n \div m = q /\ n % m = r
OBVIOUS

LEMMA DivMod ==
  ASSUME NEW n \in Nat, NEW m \in Nat, m > 0
  PROVE  /\ n \div m \in Nat /\ n % m \in Nat /\ n % m < m
         /\ n = (m * (n \div m)) + (n % m)
OBVIOUS

LEMMA DivLess ==
  ASSUME NEW n \in Nat, NEW m \in Nat, n < m
  PROVE  n \div m = 0 /\ n % m = n
<1>1. n = m * 0 + n
  OBVIOUS
<1>2. QED
  BY <1>1, DivIs

LEMMA DivDiv ==
  ASSUME NEW n \in Nat, NEW a \in Nat, a > 0, NEW b \in Nat, b > 0
  PROVE  /\ a * b \in Nat /\ a * b > 0
         /\ (n \div a) \div b = n \div (a * b)
         /\ n % (a * b) = a * ((n \div a) % b) + (n % a)
<1>1. PICK q, r : q = n \div a /\ r = n % a
  OBVIOUS
<1>2. q \in Nat /\ r \in Nat /\ r < a /\ n = a * q + r
  BY <1>1, DivMod
<1>3. PICK p, s : p = q \div b /\ s = q % b
  OBVIOUS
<1>4. p \in Nat /\ s \in Nat /\ s < b /\ q = b * p + s
  BY <1>2, <1>3, DivMod
<1>5. PICK c : c = a * b
  OBVIOUS
<1>6. c \in Nat /\ c > 0
  BY <1>5
<1>7. PICK t : t = a * s + r
  OBVIOUS
<1>8. a * s \in Nat /\ a * (s + 1) <= a * b /\ a * (s + 1) = a * s + a
  BY <1>4
<1>9. t \in Nat /\ t < c
  BY <1>2, <1>5, <1>7, <1>8
<1>10. a * q = c * p + a * s
  <2>1. a * (b * p + s) = (a * b) * p + a * s
    BY <1>4
  <2>2. QED
    BY <1>4, <1>5, <2>1
<1>11. n = c * p + t
  BY <1>2, <1>4, <1>6, <1>7, <1>8, <1>10
<1>12. n \div c = p /\ n % c = t
  BY <1>4, <1>6, <1>9, <1>11, DivIs
<1>13. QED
  BY <1>1, <1>3, <1>5, <1>6, <1>7, <1>12

-----------------------------------------------------------------------------
\* IPv4 masks.  All but the low k bits of an octet.

LEMMA Widths ==
  /\ OctetBits \in Nat /\ OctetBits > 0 /\ HextetBits \in Nat /\ HextetBits > 0
  /\ Groups \in Nat /\ Groups > 2 /\ Width4 \in Nat /\ Width6 \in Nat
<1>1. OctetBits \in Nat /\ OctetBits > 0 /\ Groups \in Nat /\ Groups > 2
  BY WidthAssumption
<1>2. 2 * OctetBits \in Nat /\ 2 * OctetBits > 0 /\ 4 * OctetBits \in Nat
  BY <1>1
<1>3. Groups * (2 * OctetBits) \in Nat
  BY <1>1, <1>2
<1>4. QED
  BY <1>1, <1>2, <1>3 DEF HextetBits, Width4, Width6

AllBut(k) == Pow2(OctetBits) - Pow2(k)

LEMMA AllButIs ==
  ASSUME NEW k \in Nat, k <= OctetBits
  PROVE  AllBut(k) \in Nat /\ AllBut(k) < Pow2(OctetBits)
<1>1. Pow2(k) \in Nat /\ Pow2(k) > 0 /\ Pow2(OctetBits) \in Nat /\ Pow2(k) <= Pow2(OctetBits)
  BY Widths, PowPositive, PowSplit
<1>2. QED
  BY <1>1 DEF AllBut

LEMMA BitOfMask ==
  ASSUME NEW k \in Nat, k <= OctetBits, NEW i \in Nat, i < OctetBits
  PROVE  Bit(AllBut(k), i) = IF i < k THEN 0 ELSE 1
<1>1. PICK p : p = Pow2(i)
  OBVIOUS
<1>2. PICK q : q = Pow2(OctetBits - (i + 1))
  OBVIOUS
<1>3. OctetBits - (i + 1) \in Nat /\ OctetBits \in Nat /\ OctetBits = i + (1 + (OctetBits - (i + 1)))
  BY Widths
<1>4. p \in Nat /\ p > 0 /\ q \in Nat /\ q > 0
  BY <1>1, <1>2, <1>3, PowPositive
<1>5. Pow2(OctetBits) = p * (2 * q)
  <2>1. Pow2(OctetBits) = Pow2(i) * Pow2(OctetBits - i)
    BY <1>3, PowSplit
  <2>2. OctetBits - i = (OctetBits - (i + 1)) + 1
    BY <1>3
  <2>3. Pow2(OctetBits - i) = 2 * q
    BY <1>2, <1>3, <2>2, PowStep
  <2>4. QED
    BY <1>1, <2>1, <2>3
<1>6. CASE i < k
  <2>1. PICK r : r = Pow2(k - (i + 1))
    OBVIOUS
  <2>2. k - (i + 1) \in Nat /\ i <= k /\ k - i = (k - (i + 1)) + 1
    BY <1>6
  <2>3. r \in Nat /\ r > 0
    BY <2>1, <2>2, PowPositive
  <2>4. Pow2(k) = p * (2 * r)
    <3>1. Pow2(k) = Pow2(i) * Pow2(k - i)
      BY <2>2, PowSplit
    <3>2. Pow2(k - i) = 2 * r
      BY <2>1, <2>2, PowStep
    <3>3. QED
      BY <1>1, <3>1, <3>2
  <2>5. AllBut(k) = p * (2 * (q - r)) + 0
    <3>1. p * (2 * q) - p * (2 * r) = p * (2 * (q - r))
      BY <1>4, <2>3
    <3>2. p * (2 * (q - r)) \in Int
      BY <1>4, <2>3
    <3>3. QED
      BY <1>5, <2>4, <3>1, <3>2 DEF AllBut
  <2>6. 2 * (q - r) \in Int /\ AllBut(k) \in Int
    BY <1>4, <2>3, AllButIs
  <2>7. AllBut(k) \div p = 2 * (q - r)
    BY <1>4, <2>5, <2>6, DivIs
  <2>8. (2 * (q - r)) % 2 = 0
    BY <1>4, <2>3
  <2>9. QED
    BY <1>1, <1>6, <2>7, <2>8 DEF Bit
<1>7. CASE ~(i < k)
  <2>1. PICK s : s = Pow2(k)
    OBVIOUS
  <2>2. s \in Nat /\ s > 0 /\ s <= p
    <3>1. k <= i
      BY <1>7
    <3>2. QED
      BY <1>1, <2>1, <3>1, PowPositive, PowSplit
  <2>3. AllBut(k) = p * (2 * q - 1) + (p - s)
    <3>1. p * (2 * q - 1) = p * (2 * q) - p
      BY <1>4
    <3>2. p * (2 * q) \in Int
      BY <1>4
    <3>3. QED
      BY <1>4, <1>5, <2>1, <2>2, <3>1, <3>2 DEF AllBut
  <2>4. 2 * q - 1 \in Int /\ AllBut(k) \in Int /\ p - s \in Int /\ 0 <= p - s /\ p - s < p
    BY <1>4, <2>2, AllButIs
  <2>5. AllBut(k) \div p = 2 * q - 1
    BY <1>4, <2>3, <2>4, DivIs
  <2>6. (2 * q - 1) % 2 = 1
    BY <1>4
  <2>7. QED
    BY <1>1, <1>7, <2>5, <2>6 DEF Bit
<1>8. QED
  BY <1>6, <1>7

LEMMA OnesOfMask ==
  ASSUME NEW k \in Nat, k <= OctetBits
  PROVE  OnesIn(AllBut(k), OctetBits) = OctetBits - k
<1>1. OctetBits \in Nat
  BY Widths
<1>2. {i \in 0..(OctetBits - 1) : Bit(AllBut(k), i) = 1} = k..(OctetBits - 1)
  <2>1. ASSUME NEW i \in 0..(OctetBits - 1)
        PROVE  Bit(AllBut(k), i) = 1 <=> k <= i
    <3>1. i \in Nat /\ i < OctetBits
      BY <1>1
    <3>2. Bit(AllBut(k), i) = IF i < k THEN 0 ELSE 1
      BY <3>1, BitOfMask
    <3>3. QED
      BY <3>1, <3>2
  <2>2. \A i : i \in k..(OctetBits - 1) => i \in 0..(OctetBits - 1)
    BY <1>1
  <2>3. QED
    BY <1>1, <2>1, <2>2
<1>3. Cardinality(k..(OctetBits - 1)) = OctetBits - k
  <2>1. PICK last : last = OctetBits - 1
    OBVIOUS
  <2>2. k \in Int /\ last \in Int
    BY <1>1, <2>1
  <2>3. Cardinality(k..last) = IF k > last THEN 0 ELSE last - k + 1
    BY <2>2, FS_Interval
  <2>4. QED
    BY <1>1, <2>1, <2>3
<1>4. QED
  BY <1>2, <1>3 DEF OnesIn

LEMMA AndMask ==
  ASSUME NEW x \in Nat, x < Pow2(OctetBits), NEW k \in Nat, k <= OctetBits
  PROVE  (x & AllBut(k)) = (x \div Pow2(k)) * Pow2(k)
<1>1. PICK B : B = OctetBits
  OBVIOUS
<1>2. B \in Nat /\ B > 0 /\ k <= B
  BY <1>1, Widths
<1>3. PICK digits : digits = [i \in 1..B |-> Bit(x, B - i) * Bit(AllBut(k), B - i)]
  OBVIOUS
<1>4. PICK top : top = x \div Pow2(k)
  OBVIOUS
<1>5. \A i \in Nat : x \div Pow2(i) \in Nat /\ Bit(x, i) \in Int
  <2>1. ASSUME NEW i \in Nat
        PROVE  x \div Pow2(i) \in Nat /\ Bit(x, i) \in Int
    <3>1. x \div Pow2(i) \in Nat
      BY PowPositive, DivMod
    <3>2. QED
      BY <3>1 DEF Bit
  <2>2. QED
    BY <2>1
<1>6. top \in Nat
  BY <1>4, <1>5
<1>7. PICK value : value = [i \in 0..B |-> IF i <= B - k THEN x \div Pow2(B - i)
                                           ELSE top * Pow2(i - (B - k))]
  OBVIOUS
<1>8. ASSUME NEW i \in 1..B
      PROVE  /\ Bit(AllBut(k), B - i) = (IF i <= B - k THEN 1 ELSE 0)
             /\ digits[i] = IF i <= B - k THEN Bit(x, B - i) ELSE 0
  <2>1. B - i \in Nat /\ B - i < OctetBits /\ (B - i < k <=> ~(i <= B - k))
    BY <1>1, <1>2
  <2>2. Bit(AllBut(k), B - i) = IF B - i < k THEN 0 ELSE 1
    BY <2>1, BitOfMask
  <2>3. digits[i] = Bit(x, B - i) * Bit(AllBut(k), B - i)
    BY <1>3
  <2>4. Bit(x, B - i) \in Int
    BY <1>5, <2>1
  <2>5. QED
    BY <2>1, <2>2, <2>3, <2>4
<1>9. digits \in [1..B -> Int]
  <2>1. \A i \in 1..B : digits[i] \in Int
    <3>1. ASSUME NEW i \in 1..B
          PROVE  digits[i] \in Int
      <4>1. B - i \in Nat
        BY <1>2
      <4>2. QED
        BY <1>5, <1>8, <4>1
    <3>2. QED
      BY <3>1
  <2>2. QED
    BY <1>3, <2>1
<1>10. value \in [0..B -> Int]
  <2>1. ASSUME NEW i \in 0..B
        PROVE  value[i] \in Int
    <3>1. CASE i <= B - k
      BY <1>2, <1>5, <1>7, <3>1
    <3>2. CASE ~(i <= B - k)
      <4>1. i - (B - k) \in Nat
        BY <1>2, <3>2
      <4>2. Pow2(i - (B - k)) \in Nat
        BY <4>1, PowPositive
      <4>3. top * Pow2(i - (B - k)) \in Int
        BY <1>6, <4>2
      <4>4. QED
        BY <1>7, <3>2, <4>3
    <3>3. QED
      BY <3>1, <3>2
  <2>2. QED
    BY <1>7, <2>1
<1>11. value[0] = 0
  <2>1. x \div Pow2(B) = 0
    BY <1>1, <1>2, PowPositive, DivLess
  <2>2. 0 \in 0..B /\ 0 <= B - k /\ B - 0 = B
    BY <1>2
  <2>3. QED
    BY <1>7, <2>1, <2>2
<1>12. ASSUME NEW i \in 1..B
       PROVE  value[i] = value[i - 1] * 2 + digits[i]
  <2>1. i \in 0..B /\ i - 1 \in 0..B /\ B - i \in Nat /\ B - (i - 1) = (B - i) + 1
    BY <1>2
  <2>2. CASE i <= B - k
    <3>1. value[i] = x \div Pow2(B - i) /\ value[i - 1] = x \div Pow2((B - i) + 1)
      <4>1. i - 1 <= B - k
        BY <1>2, <2>2
      <4>2. value[i] = x \div Pow2(B - i)
        BY <1>7, <2>1, <2>2
      <4>3. value[i - 1] = x \div Pow2(B - (i - 1))
        BY <1>7, <2>1, <4>1
      <4>4. QED
        BY <2>1, <4>2, <4>3
    <3>2. PICK p : p = Pow2(B - i)
      OBVIOUS
    <3>3. p \in Nat /\ p > 0 /\ Pow2((B - i) + 1) = p * 2
      BY <2>1, <3>2, PowStep
    <3>4. (x \div p) \div 2 = x \div (p * 2)
      BY <3>3, DivDiv
    <3>5. x \div p \in Nat
      BY <3>3, DivMod
    <3>6. x \div p = ((x \div p) \div 2) * 2 + ((x \div p) % 2)
      BY <3>5
    <3>7. digits[i] = (x \div p) % 2
      BY <1>8, <2>2, <3>2 DEF Bit
    <3>8. QED
      BY <3>1, <3>2, <3>3, <3>4, <3>6, <3>7
  <2>3. CASE ~(i <= B - k)
    <3>1. PICK m : m = i - (B - k)
      OBVIOUS
    <3>2. m \in Nat /\ m >= 1 /\ m - 1 \in Nat /\ (i - 1) - (B - k) = m - 1 /\ (m - 1) + 1 = m
      BY <1>2, <2>3, <3>1
    <3>3. value[i] = top * Pow2(m)
      BY <1>7, <2>1, <2>3, <3>1
    <3>4. value[i - 1] = top * Pow2(m - 1)
      <4>1. CASE i - 1 <= B - k
        <5>1. m = 1 /\ B - (i - 1) = k
          BY <1>2, <3>1, <3>2, <4>1
        <5>2. value[i - 1] = x \div Pow2(B - (i - 1))
          BY <1>7, <2>1, <4>1
        <5>3. m - 1 = 0
          BY <5>1
        <5>4. Pow2(m - 1) = 1
          BY <5>3, PowStep
        <5>5. top * 1 = top
          BY <1>6
        <5>6. QED
          BY <1>4, <5>1, <5>2, <5>4, <5>5
      <4>2. CASE ~(i - 1 <= B - k)
        <5>1. value[i - 1] = top * Pow2((i - 1) - (B - k))
          BY <1>7, <2>1, <4>2
        <5>2. QED
          BY <3>2, <5>1
      <4>3. QED
        BY <4>1, <4>2
    <3>5. PICK p : p = Pow2(m - 1)
      OBVIOUS
    <3>6. p \in Nat /\ Pow2(m) = 2 * p
      <4>1. Pow2((m - 1) + 1) = 2 * Pow2(m - 1) /\ Pow2(m - 1) \in Nat
        BY <3>2, PowStep
      <4>2. QED
        BY <3>2, <3>5, <4>1
    <3>7. top * (2 * p) = (top * p) * 2 /\ top * p \in Int
      BY <1>6, <3>6
    <3>8. digits[i] = 0
      BY <1>8, <2>3
    <3>9. QED
      BY <3>3, <3>4, <3>5, <3>6, <3>7, <3>8
  <2>4. QED
    BY <2>2, <2>3
<1>13. Number(digits, 2) = value[B]
  <2>1. PICK base : base = 2
    OBVIOUS
  <2>2. base \in Int /\ \A i \in 1..B : value[i] = value[i - 1] * base + digits[i]
    BY <1>12, <2>1
  <2>3. Number(digits, base) = value[B]
    BY ONLY <1>2, <1>9, <1>10, <1>11, <2>2, NumberBy
  <2>4. QED
    BY <2>1, <2>3
<1>14. value[B] = top * Pow2(k)
  <2>1. CASE k = 0
    <3>1. B \in 0..B /\ B <= B - k /\ B - B = k
      BY <1>2, <2>1
    <3>2. value[B] = x \div Pow2(B - B)
      BY <1>7, <3>1
    <3>3. Pow2(k) = 1 /\ top * 1 = top
      BY <1>6, <2>1, PowStep
    <3>4. QED
      BY <1>4, <3>1, <3>2, <3>3
  <2>2. CASE k # 0
    <3>1. B \in 0..B /\ ~(B <= B - k) /\ B - (B - k) = k
      BY <1>2, <2>2
    <3>2. value[B] = top * Pow2(B - (B - k))
      BY <1>7, <3>1
    <3>3. QED
      BY <3>1, <3>2
  <2>3. QED
    BY <2>1, <2>2
<1>15. (x & AllBut(k)) = Number(digits, 2)
  BY <1>1, <1>3 DEF &
<1>16. QED
  BY <1>4, <1>13, <1>14, <1>15

-----------------------------------------------------------------------------
\* How many of an address' low bits lie above the last e, and how many of these in one octet.

Over(b, e)    == IF b <= e THEN 0 ELSE b - e
LowBits(b, e) == IF Over(b, e) >= OctetBits THEN OctetBits ELSE Over(b, e)

LEMMA LowBitsAre ==
  ASSUME NEW b \in Nat, NEW e \in Nat
  PROVE  /\ Over(b, e) \in Nat /\ LowBits(b, e) \in Nat
         /\ LowBits(b, e) <= OctetBits /\ LowBits(b, e) <= Over(b, e)
BY Widths DEF Over, LowBits

LEMMA MaskPart ==
  ASSUME NEW w \in Nat, NEW e \in Nat, NEW b \in Nat, e + OctetBits <= w, b <= w
  PROVE  ((Pow2(w) - Pow2(b)) \div Pow2(e)) % Pow2(OctetBits) = AllBut(LowBits(b, e))
<1>1. PICK B : B = OctetBits
  OBVIOUS
<1>2. B \in Nat /\ B > 0 /\ w - (e + B) \in Nat /\ w = e + (B + (w - (e + B)))
  BY <1>1, Widths
<1>3. PICK x, y, z : x = Pow2(e) /\ y = Pow2(B) /\ z = Pow2(w - (e + B))
  OBVIOUS
<1>4. x \in Nat /\ x > 0 /\ y \in Nat /\ y > 0 /\ z \in Nat /\ z > 0
  BY <1>2, <1>3, PowPositive
<1>5. Pow2(w) = x * (y * z)
  <2>1. B + (w - (e + B)) \in Nat
    BY <1>2
  <2>2. Pow2(e + (B + (w - (e + B)))) = Pow2(e) * Pow2(B + (w - (e + B)))
    BY <2>1, PowAdd
  <2>3. Pow2(B + (w - (e + B))) = Pow2(B) * Pow2(w - (e + B))
    BY <1>2, PowAdd
  <2>4. QED
    BY <1>2, <1>3, <2>2, <2>3
<1>6. PICK n : n = Pow2(w) - Pow2(b)
  OBVIOUS
<1>7. n \in Nat /\ Pow2(b) \in Nat /\ Pow2(b) > 0
  <2>1. Pow2(b) <= Pow2(w) /\ Pow2(b) \in Nat /\ Pow2(b) > 0 /\ Pow2(w) \in Nat
    BY PowSplit, PowPositive
  <2>2. QED
    BY <1>6, <2>1
<1>8. CASE b <= e
  <2>1. PICK s : s = Pow2(b)
    OBVIOUS
  <2>2. s \in Nat /\ s > 0 /\ s <= x
    BY <1>3, <1>7, <1>8, <2>1, PowSplit
  <2>3. y * z \in Nat /\ x * (y * z - 1) = x * (y * z) - x /\ x * (y * z) \in Nat
    BY <1>4
  <2>4. n = x * (y * z - 1) + (x - s)
    BY <1>4, <1>5, <1>6, <2>1, <2>2, <2>3
  <2>5. n \div x = y * z - 1
    BY <1>4, <1>7, <2>2, <2>3, <2>4, DivIs
  <2>6. y * z - 1 = y * (z - 1) + (y - 1)
    <3>1. y * (z - 1) = y * z - y
      BY <1>4
    <3>2. QED
      BY <1>4, <2>3, <3>1
  <2>7. (y * z - 1) % y = y - 1
    <3>1. y * z - 1 \in Int /\ z - 1 \in Int /\ y - 1 \in Int /\ 0 <= y - 1 /\ y - 1 < y
      BY <1>4, <2>3
    <3>2. QED
      BY <1>4, <2>6, <3>1, DivIs
  <2>8. LowBits(b, e) = 0
    BY <1>1, <1>2, <1>8 DEF LowBits, Over
  <2>9. AllBut(0) = y - 1
    BY <1>1, <1>3, PowStep DEF AllBut
  <2>10. QED
    BY <1>1, <1>3, <1>6, <2>5, <2>7, <2>8, <2>9
<1>9. CASE e < b /\ b - e < B
  <2>1. PICK s : s = Pow2(b - e)
    OBVIOUS
  <2>2. b - e \in Nat /\ e <= b /\ b - e <= B
    BY <1>2, <1>9
  <2>3. Pow2(b) = x * s /\ s \in Nat /\ s > 0 /\ s <= y
    <3>1. Pow2(b) = x * s
      BY <1>3, <2>1, <2>2, PowSplit
    <3>2. s \in Nat /\ s > 0
      BY <2>1, <2>2, PowPositive
    <3>3. s <= y
      BY <1>2, <1>3, <2>1, <2>2, PowSplit
    <3>4. QED
      BY <3>1, <3>2, <3>3
  <2>4. x * (y * z - s) = x * (y * z) - x * s /\ y * z \in Nat
    BY <1>4, <2>3
  <2>5. n = x * (y * z - s) + 0
    BY <1>5, <1>6, <1>7, <2>3, <2>4
  <2>6. n \div x = y * z - s
    <3>1. y * z - s \in Int /\ 0 < x
      BY <1>4, <2>3, <2>4
    <3>2. QED
      BY <1>4, <1>7, <2>5, <3>1, DivIs
  <2>7. y * z - s = y * (z - 1) + (y - s)
    <3>1. y * (z - 1) = y * z - y
      BY <1>4
    <3>2. QED
      BY <1>4, <2>3, <2>4, <3>1
  <2>8. (y * z - s) % y = y - s
    <3>1. PICK u, q, r : u = y * z - s /\ q = z - 1 /\ r = y - s
      OBVIOUS
    <3>2. u \in Int /\ q \in Int /\ r \in Int /\ 0 <= r /\ r < y /\ u = y * q + r
      BY <1>4, <2>3, <2>4, <2>7, <3>1
    <3>3. u % y = r
      BY ONLY <1>4, <3>2, DivIs
    <3>4. QED
      BY <3>1, <3>3
  <2>9. LowBits(b, e) = b - e
    BY <1>1, <1>2, <1>9 DEF LowBits, Over
  <2>10. AllBut(b - e) = y - s
    BY <1>1, <1>3, <2>1 DEF AllBut
  <2>11. QED
    BY <1>1, <1>3, <1>6, <2>6, <2>8, <2>9, <2>10
<1>10. CASE e < b /\ b - e >= B
  <2>1. PICK s : s = Pow2(b - (e + B))
    OBVIOUS
  <2>2. b - (e + B) \in Nat /\ b = e + (B + (b - (e + B))) /\ B + (b - (e + B)) \in Nat
    BY <1>2, <1>10
  <2>3. Pow2(b) = x * (y * s) /\ s \in Nat /\ s > 0
    <3>1. Pow2(e + (B + (b - (e + B)))) = Pow2(e) * Pow2(B + (b - (e + B)))
      BY <2>2, PowAdd
    <3>2. Pow2(B + (b - (e + B))) = Pow2(B) * Pow2(b - (e + B))
      BY <1>2, <2>2, PowAdd
    <3>3. QED
      BY <1>3, <2>1, <2>2, <3>1, <3>2, PowPositive
  <2>4. x * (y * z - y * s) = x * (y * z) - x * (y * s) /\ y * z \in Nat /\ y * s \in Nat
    BY <1>4, <2>3
  <2>5. n = x * (y * z - y * s) + 0
    BY <1>5, <1>6, <1>7, <2>3, <2>4
  <2>6. n \div x = y * z - y * s
    <3>1. y * z - y * s \in Int /\ 0 < x
      BY <1>4, <2>4
    <3>2. QED
      BY <1>4, <1>7, <2>5, <3>1, DivIs
  <2>7. y * z - y * s = y * (z - s) + 0
    BY <1>4, <2>3
  <2>8. (y * z - y * s) % y = 0
    <3>1. y * z - y * s \in Int /\ z - s \in Int /\ 0 < y
      BY <1>4, <2>3, <2>4
    <3>2. QED
      BY <1>4, <2>7, <3>1, DivIs
  <2>9. LowBits(b, e) = B
    BY <1>1, <1>2, <1>10 DEF LowBits, Over
  <2>10. AllBut(B) = 0
    BY <1>1, <1>3, <1>4 DEF AllBut
  <2>11. QED
    BY <1>1, <1>3, <1>6, <2>6, <2>8, <2>9, <2>10
<1>11. QED
  BY <1>2, <1>8, <1>9, <1>10

\* The bits below octet j of an IPv4 address.
BitsUnder(j) == OctetBits * (4 - j)

LEMMA BitsUnderAre ==
  /\ BitsUnder(4) = 0 /\ BitsUnder(3) = OctetBits /\ BitsUnder(2) = 2 * OctetBits
  /\ BitsUnder(1) = 3 * OctetBits /\ BitsUnder(0) = Width4
  /\ \A j \in 0..4 : BitsUnder(j) \in Nat
  /\ \A j \in 1..4 : BitsUnder(j) + OctetBits = BitsUnder(j - 1) /\ BitsUnder(j) + OctetBits <= Width4
<1>1. OctetBits \in Nat
  BY Widths
<1>2. /\ BitsUnder(4) = 0 /\ BitsUnder(3) = OctetBits /\ BitsUnder(2) = 2 * OctetBits
      /\ BitsUnder(1) = 3 * OctetBits /\ BitsUnder(0) = Width4 /\ Width4 = 4 * OctetBits
  BY <1>1 DEF BitsUnder, Width4
<1>3. \A j \in 0..4 : j = 0 \/ j = 1 \/ j = 2 \/ j = 3 \/ j = 4
  OBVIOUS
<1>4. ASSUME NEW j \in 0..4
      PROVE  BitsUnder(j) \in Nat
  BY <1>1, <1>2, <1>3
<1>5. ASSUME NEW j \in 1..4
      PROVE  BitsUnder(j) + OctetBits = BitsUnder(j - 1) /\ BitsUnder(j) + OctetBits <= Width4
  <2>1. j = 1 \/ j = 2 \/ j = 3 \/ j = 4
    OBVIOUS
  <2>2. CASE j = 1
    BY <1>1, <1>2, <2>2
  <2>3. CASE j = 2
    BY <1>1, <1>2, <2>3
  <2>4. CASE j = 3
    BY <1>1, <1>2, <2>4
  <2>5. CASE j = 4
    BY <1>1, <1>2, <2>5
  <2>6. QED
    BY <2>1, <2>2, <2>3, <2>4, <2>5
<1>6. QED
  BY <1>2, <1>4, <1>5

LEMMA MaskIs ==
  ASSUME NEW b \in Nat, b <= Width4, NEW j \in 1..4
  PROVE  PrefixLengthToIPv4Netmask(Width4 - b)[j] = AllBut(LowBits(b, BitsUnder(j)))
<1>1. Width4 \in Nat /\ Width4 - (Width4 - b) = b
  BY Widths
<1>2. PrefixLengthToIPv4Netmask(Width4 - b)[j]
        = ((Pow2(Width4) - Pow2(b)) \div Pow2(BitsUnder(j))) % Pow2(OctetBits)
  BY <1>1 DEF PrefixLengthToIPv4Netmask, OctetsOf, BitsUnder
<1>3. BitsUnder(j) \in Nat /\ BitsUnder(j) + OctetBits <= Width4
  BY BitsUnderAre
<1>4. QED
  BY <1>1, <1>2, <1>3, MaskPart

LEMMA MaskLength ==
  ASSUME NEW b \in Nat, b <= Width4
  PROVE  NetmaskToPrefixLength(PrefixLengthToIPv4Netmask(Width4 - b)) = Width4 - b
<1>1. PICK m : m = PrefixLengthToIPv4Netmask(Width4 - b)
  OBVIOUS
<1>2. ASSUME NEW j \in 1..4
      PROVE  OnesIn(m[j], OctetBits) = OctetBits - LowBits(b, BitsUnder(j))
  <2>1. BitsUnder(j) \in Nat
    BY BitsUnderAre
  <2>2. LowBits(b, BitsUnder(j)) \in Nat /\ LowBits(b, BitsUnder(j)) <= OctetBits
    BY <2>1, LowBitsAre
  <2>3. QED
    BY <1>1, <2>2, MaskIs, OnesOfMask
<1>3. 1 \in 1..4 /\ 2 \in 1..4 /\ 3 \in 1..4 /\ 4 \in 1..4
  OBVIOUS
<1>4. NetmaskToPrefixLength(m) =
        (OctetBits - LowBits(b, 3 * OctetBits)) + (OctetBits - LowBits(b, 2 * OctetBits))
          + (OctetBits - LowBits(b, OctetBits)) + (OctetBits - LowBits(b, 0))
  BY <1>2, <1>3, BitsUnderAre DEF NetmaskToPrefixLength
<1>5. OctetBits \in Nat /\ OctetBits > 0 /\ Width4 = 4 * OctetBits
  BY Widths DEF Width4
<1>6. (OctetBits - LowBits(b, 3 * OctetBits)) + (OctetBits - LowBits(b, 2 * OctetBits))
          + (OctetBits - LowBits(b, OctetBits)) + (OctetBits - LowBits(b, 0)) = Width4 - b
  BY <1>5 DEF LowBits, Over
<1>7. QED
  BY <1>1, <1>4, <1>6

-----------------------------------------------------------------------------
\* The network of an IPv4 address.

LEMMA NumberNat ==
  ASSUME NEW n \in Nat, NEW digits \in [1..n -> Nat], NEW base \in Nat,
         NEW f, IsNumber(f, digits, base, n)
  PROVE  \A k \in 0..n : f[k] \in Nat
<1> DEFINE T == {k \in Nat : k <= n => f[k] \in Nat}
<1>1. 0 \in T
  BY DEF IsNumber
<1>2. ASSUME NEW k \in Nat, k \in T
      PROVE  k + 1 \in T
  <2>1. SUFFICES ASSUME k + 1 <= n PROVE f[k + 1] \in Nat
    OBVIOUS
  <2>2. f[k] \in Nat /\ digits[k + 1] \in Nat
    BY <1>2, <2>1
  <2>3. (k + 1) - 1 = k /\ k + 1 \in 1..n
    BY <2>1
  <2>4. f[k + 1] = f[k] * base + digits[k + 1]
    BY <2>3 DEF IsNumber
  <2>5. f[k] * base \in Nat
    BY <2>2
  <2>6. QED
    BY <2>2, <2>4, <2>5
<1> HIDE DEF T
<1>3. \A k \in Nat : k \in T
  BY <1>1, <1>2, NatSet
<1>4. QED
  BY <1>3 DEF T

\* What is left of a number whose low k bits are cleared.
Cleared(x, k) == (x \div Pow2(k)) * Pow2(k)

LEMMA ClearedIs ==
  ASSUME NEW x \in Nat, NEW k \in Nat
  PROVE  Cleared(x, k) \in Nat /\ Cleared(x, k) = x - (x % Pow2(k)) /\ Cleared(x, k) <= x
<1>1. PICK p, q, r : p = Pow2(k) /\ q = x \div Pow2(k) /\ r = x % Pow2(k)
  OBVIOUS
<1>2. p \in Nat /\ p > 0
  BY <1>1, PowPositive
<1>3. q \in Nat /\ r \in Nat /\ x = (p * q) + r
  BY <1>1, <1>2, DivMod
<1>4. q * p \in Nat /\ q * p = p * q
  BY <1>2, <1>3
<1>5. QED
  BY <1>1, <1>3, <1>4 DEF Cleared

LEMMA ClearedStep ==
  ASSUME NEW v \in Nat, NEW o \in Nat, o < Pow2(OctetBits), NEW b \in Nat, NEW e \in Nat
  PROVE  Cleared(v, Over(b, e + OctetBits)) * Pow2(OctetBits) + Cleared(o, LowBits(b, e))
           = Cleared(v * Pow2(OctetBits) + o, Over(b, e))
<1>1. PICK B, y : B = OctetBits /\ y = Pow2(OctetBits)
  OBVIOUS
<1>2. B \in Nat /\ B > 0 /\ y \in Nat /\ y > 0 /\ o < y
  BY <1>1, Widths, PowPositive
<1>3. PICK n : n = v * y + o
  OBVIOUS
<1>4. n \in Nat /\ v * y \in Nat
  BY <1>2, <1>3
<1>5. CASE b <= e + B
  <2>1. PICK k : k = Over(b, e)
    OBVIOUS
  <2>2. Over(b, e + B) = 0 /\ LowBits(b, e) = k /\ k \in Nat /\ k <= B
    BY <1>1, <1>2, <1>5, <2>1 DEF Over, LowBits
  <2>3. PICK p, z : p = Pow2(k) /\ z = Pow2(B - k)
    OBVIOUS
  <2>4. p \in Nat /\ p > 0 /\ z \in Nat /\ y = p * z
    <3>1. B - k \in Nat /\ y = p * z
      BY <1>1, <1>2, <2>2, <2>3, PowSplit
    <3>2. QED
      BY <2>2, <2>3, <3>1, PowPositive
  <2>5. PICK q, r : q = o \div p /\ r = o % p
    OBVIOUS
  <2>6. q \in Nat /\ r \in Nat /\ r < p /\ o = (p * q) + r
    BY <2>4, <2>5, DivMod
  <2>7. n = p * (v * z + q) + r
    <3>1. v * (p * z) = p * (v * z)
      BY <2>4
    <3>2. p * (v * z + q) = p * (v * z) + p * q
      BY <2>4, <2>6
    <3>3. p * (v * z) \in Nat /\ p * q \in Nat
      BY <2>4, <2>6
    <3>4. QED
      BY <1>3, <2>4, <2>6, <3>1, <3>2, <3>3
  <2>8. n \div p = v * z + q
    <3>1. v * z + q \in Int
      BY <2>4, <2>6
    <3>2. QED
      BY <1>4, <2>4, <2>6, <2>7, <3>1, DivIs
  <2>9. Cleared(n, k) = (v * z + q) * p
    BY <2>3, <2>8 DEF Cleared
  <2>10. Cleared(o, k) = q * p
    BY <2>3, <2>5 DEF Cleared
  <2>11. Cleared(v, 0) = v
    <3>1. Pow2(0) = 1 /\ v \div 1 = v /\ v * 1 = v
      BY PowStep
    <3>2. QED
      BY <3>1 DEF Cleared
  <2>12. v * (p * z) + q * p = (v * z + q) * p
    BY <2>4, <2>6
  <2>13. QED
    BY <1>1, <1>3, <2>1, <2>2, <2>4, <2>9, <2>10, <2>11, <2>12
<1>6. CASE ~(b <= e + B)
  <2>1. PICK k : k = b - (e + B)
    OBVIOUS
  <2>2. Over(b, e + B) = k /\ LowBits(b, e) = B /\ Over(b, e) = B + k /\ k \in Nat
    BY <1>1, <1>2, <1>6, <2>1 DEF Over, LowBits
  <2>3. PICK p : p = Pow2(k)
    OBVIOUS
  <2>4. p \in Nat /\ p > 0 /\ Pow2(B + k) = y * p
    BY <1>1, <1>2, <2>2, <2>3, PowPositive, PowAdd
  <2>5. Cleared(o, B) = 0
    <3>1. o \div y = 0
      BY <1>2, DivLess
    <3>2. 0 * y = 0
      BY <1>2
    <3>3. QED
      BY <1>1, <3>1, <3>2 DEF Cleared
  <2>6. n \div y = v
    <3>1. n = y * v + o
      BY <1>2, <1>3
    <3>2. QED
      BY <1>2, <1>4, <3>1, DivIs
  <2>7. n \div (y * p) = v \div p
    BY <1>2, <1>4, <2>4, <2>6, DivDiv
  <2>8. Cleared(n, B + k) = (v \div p) * (y * p)
    BY <2>4, <2>7 DEF Cleared
  <2>9. Cleared(v, k) = (v \div p) * p
    BY <2>3 DEF Cleared
  <2>10. v \div p \in Nat
    BY <2>4, DivMod
  <2>11. ((v \div p) * p) * y + 0 = (v \div p) * (y * p)
    BY <1>2, <2>4, <2>10
  <2>12. QED
    BY <1>1, <1>3, <2>2, <2>5, <2>8, <2>9, <2>11
<1>7. QED
  BY <1>5, <1>6

Octets(o) == o \in [1..4 -> Nat] /\ \A j \in 1..4 : o[j] < Pow2(OctetBits)

LEMMA NetworkParts ==
  ASSUME NEW o, Octets(o), NEW b \in Nat, b <= Width4
  PROVE  /\ NetworkOctets(o, Width4 - b) \in [1..4 -> Nat]
         /\ \A j \in 1..4 : NetworkOctets(o, Width4 - b)[j] = Cleared(o[j], LowBits(b, BitsUnder(j)))
<1>1. PICK m : m = NetworkOctets(o, Width4 - b)
  OBVIOUS
<1>2. ASSUME NEW j \in 1..4
      PROVE  m[j] = Cleared(o[j], LowBits(b, BitsUnder(j))) /\ m[j] \in Nat
  <2>1. PICK k : k = LowBits(b, BitsUnder(j))
    OBVIOUS
  <2>2. k \in Nat /\ k <= OctetBits
    <3>1. BitsUnder(j) \in Nat
      BY BitsUnderAre
    <3>2. QED
      BY <2>1, <3>1, LowBitsAre
  <2>3. o[j] \in Nat /\ o[j] < Pow2(OctetBits)
    BY DEF Octets
  <2>4. m[j] = (o[j] & AllBut(k))
    BY <1>1, <2>1, MaskIs DEF NetworkOctets
  <2>5. (o[j] & AllBut(k)) = Cleared(o[j], k)
    BY <2>2, <2>3, AndMask DEF Cleared
  <2>6. Cleared(o[j], k) \in Nat
    BY <2>2, <2>3, ClearedIs
  <2>7. QED
    BY <2>1, <2>4, <2>5, <2>6
<1>3. DOMAIN m = 1..4 /\ m = [j \in 1..4 |-> m[j]]
  BY <1>1 DEF NetworkOctets
<1>4. QED
  BY <1>1, <1>2, <1>3

LEMMA NetworkIs ==
  ASSUME NEW o, Octets(o), NEW b \in Nat, b <= Width4
  PROVE  Number4(o) \in Nat /\ Number4(NetworkOctets(o, Width4 - b)) = Cleared(Number4(o), b)
<1>1. PICK y : y = Pow2(OctetBits)
  OBVIOUS
<1>2. y \in Nat /\ y > 0
  BY <1>1, Widths, PowPositive
<1>3. o \in [1..4 -> Nat] /\ o \in [1..4 -> Int] /\ y \in Int /\ 4 \in Nat
  BY <1>2 DEF Octets
<1>4. PICK f : IsNumber(f, o, y, 4) /\ Number(o, y) = f[4]
  BY <1>3, NumberIs
<1>5. \A k \in 0..4 : f[k] \in Nat
  BY <1>2, <1>3, <1>4, NumberNat
<1>6. PICK m : m = NetworkOctets(o, Width4 - b)
  OBVIOUS
<1>7. PICK value : value = [k \in 0..4 |-> Cleared(f[k], Over(b, BitsUnder(k)))]
  OBVIOUS
<1>8. ASSUME NEW k \in 0..4
      PROVE  value[k] \in Int
  <2>1. BitsUnder(k) \in Nat
    BY BitsUnderAre
  <2>2. Over(b, BitsUnder(k)) \in Nat
    BY <2>1, LowBitsAre
  <2>3. Cleared(f[k], Over(b, BitsUnder(k))) \in Nat
    BY <1>5, <2>2, ClearedIs
  <2>4. QED
    BY <1>7, <2>3
<1>9. value \in [0..4 -> Int]
  BY <1>7, <1>8
<1>10. value[0] = 0
  <2>1. f[0] = 0
    BY <1>4 DEF IsNumber
  <2>2. PICK k : k = Over(b, BitsUnder(0))
    OBVIOUS
  <2>3. k \in Nat
    BY <2>2, BitsUnderAre, Widths, LowBitsAre
  <2>4. 0 \in Nat /\ Cleared(0, k) \in Nat /\ Cleared(0, k) <= 0
    BY <2>3, ClearedIs
  <2>5. Cleared(0, k) = 0
    BY <2>4
  <2>6. QED
    BY <1>7, <2>1, <2>2, <2>5
<1>11. ASSUME NEW k \in 1..4
       PROVE  value[k] = value[k - 1] * y + m[k]
  <2>1. k \in 0..4 /\ k - 1 \in 0..4
    OBVIOUS
  <2>2. BitsUnder(k) \in Nat /\ BitsUnder(k - 1) = BitsUnder(k) + OctetBits
    BY <2>1, BitsUnderAre
  <2>3. f[k - 1] \in Nat /\ f[k] = f[k - 1] * y + o[k]
    BY <1>4, <1>5, <2>1 DEF IsNumber
  <2>4. o[k] \in Nat /\ o[k] < Pow2(OctetBits)
    BY DEF Octets
  <2>5. Cleared(f[k - 1], Over(b, BitsUnder(k) + OctetBits)) * Pow2(OctetBits)
          + Cleared(o[k], LowBits(b, BitsUnder(k)))
        = Cleared(f[k - 1] * Pow2(OctetBits) + o[k], Over(b, BitsUnder(k)))
    BY <2>2, <2>3, <2>4, ClearedStep
  <2>6. m[k] = Cleared(o[k], LowBits(b, BitsUnder(k)))
    BY <1>6, NetworkParts
  <2>7. value[k] = Cleared(f[k], Over(b, BitsUnder(k)))
    BY <1>7, <2>1
  <2>8. value[k - 1] = Cleared(f[k - 1], Over(b, BitsUnder(k) + OctetBits))
    BY <1>7, <2>1, <2>2
  <2>9. QED
    BY <1>1, <2>3, <2>5, <2>6, <2>7, <2>8
<1>12. m \in [1..4 -> Int]
  BY <1>6, NetworkParts
<1>13. Number(m, y) = value[4]
  BY ONLY <1>3, <1>9, <1>10, <1>11, <1>12, NumberBy
<1>14. value[4] = Cleared(f[4], b)
  <2>1. Over(b, BitsUnder(4)) = b
    BY BitsUnderAre DEF Over
  <2>2. QED
    BY <1>7, <2>1
<1>15. QED
  BY <1>1, <1>4, <1>5, <1>6, <1>13, <1>14 DEF Number4

-----------------------------------------------------------------------------
\* The addresses of an IPv4 network: the octets take their parts of i without a carry.

LEMMA NoCarry ==
  ASSUME NEW o \in Nat, o < Pow2(OctetBits), NEW b \in Nat, NEW e \in Nat,
         NEW i \in Nat, i < Pow2(b)
  PROVE  (Cleared(o, LowBits(b, e)) + (i \div Pow2(e))) % Pow2(OctetBits)
           = Cleared(o, LowBits(b, e)) + ((i \div Pow2(e)) % Pow2(OctetBits))
<1>1. PICK y, c, d : y = Pow2(OctetBits) /\ c = Cleared(o, LowBits(b, e)) /\ d = i \div Pow2(e)
  OBVIOUS
<1>2. y \in Nat /\ y > 0
  BY <1>1, Widths, PowPositive
<1>3. c \in Nat /\ c <= o /\ c < y
  <2>1. LowBits(b, e) \in Nat
    BY LowBitsAre
  <2>2. Cleared(o, LowBits(b, e)) \in Nat /\ Cleared(o, LowBits(b, e)) <= o
    BY <2>1, ClearedIs
  <2>3. QED
    BY <1>1, <1>2, <2>2
<1>4. d \in Nat
  BY <1>1, PowPositive, DivMod
<1>5. CASE b <= e
  <2>1. i < Pow2(e) /\ Pow2(e) \in Nat
    <3>1. Pow2(b) <= Pow2(e) /\ Pow2(b) \in Nat /\ Pow2(e) \in Nat
      BY <1>5, PowSplit, PowPositive
    <3>2. QED
      BY <3>1
  <2>2. d = 0
    BY <1>1, <2>1, DivLess
  <2>3. c % y = c /\ 0 % y = 0
    BY <1>2, <1>3, DivLess
  <2>4. QED
    BY <1>1, <1>3, <2>2, <2>3
<1>6. CASE e < b /\ b - e >= OctetBits
  <2>1. LowBits(b, e) = OctetBits
    BY <1>6, Widths DEF LowBits, Over
  <2>2. c = 0
    <3>1. o \div y = 0
      BY <1>1, <1>2, DivLess
    <3>2. c = (o \div y) * y
      BY <1>1, <2>1 DEF Cleared
    <3>3. 0 * y = 0
      BY <1>2
    <3>4. QED
      BY <3>1, <3>2, <3>3
  <2>3. 0 + d = d /\ d % y \in Nat
    BY <1>2, <1>4, DivMod
  <2>4. QED
    BY <1>1, <2>2, <2>3
<1>7. CASE e < b /\ b - e < OctetBits
  <2>1. PICK k : k = b - e
    OBVIOUS
  <2>2. k \in Nat /\ k <= OctetBits /\ LowBits(b, e) = k /\ e <= b
    BY <1>7, <2>1, Widths DEF LowBits, Over
  <2>3. PICK p, x, z : p = Pow2(k) /\ x = Pow2(e) /\ z = Pow2(OctetBits - k)
    OBVIOUS
  <2>4. p \in Nat /\ p > 0 /\ x \in Nat /\ x > 0 /\ z \in Nat /\ y = p * z /\ Pow2(b) = x * p
    <3>1. y = p * z /\ OctetBits - k \in Nat
      BY <1>1, <2>2, <2>3, Widths, PowSplit
    <3>2. Pow2(b) = x * p
      BY <2>1, <2>2, <2>3, PowSplit
    <3>3. QED
      BY <2>2, <2>3, <3>1, <3>2, PowPositive
  <2>5. d < p
    <3>1. i = (x * d) + (i % x) /\ i % x \in Nat
      BY <1>1, <2>3, <2>4, DivMod
    <3>2. x * d < x * p
      BY <1>4, <2>4, <3>1
    <3>3. d >= p => x * d >= x * p
      BY <1>4, <2>4
    <3>4. x * d \in Nat /\ x * p \in Nat
      BY <1>4, <2>4
    <3>5. QED
      BY <1>4, <2>4, <3>2, <3>3, <3>4
  <2>6. c + p <= y
    <3>1. PICK q : q = o \div p
      OBVIOUS
    <3>2. q \in Nat /\ c = q * p
      BY <1>1, <2>2, <2>3, <2>4, <3>1, DivMod DEF Cleared
    <3>3. q < z
      <4>1. q >= z => q * p >= z * p
        BY <2>4, <3>2
      <4>2. q * p < z * p
        BY <1>3, <2>4, <3>2
      <4>3. q * p \in Nat /\ z * p \in Nat
        BY <2>4, <3>2
      <4>4. QED
        BY <2>4, <3>2, <4>1, <4>2, <4>3
    <3>4. (q + 1) * p <= z * p
      BY <2>4, <3>2, <3>3
    <3>5. (q + 1) * p = q * p + p
      BY <2>4, <3>2
    <3>6. z * p = p * z
      BY <2>4
    <3>7. QED
      BY <2>4, <3>2, <3>4, <3>5, <3>6
  <2>7. c + d \in Nat /\ c + d < y /\ d < y
    BY <1>2, <1>3, <1>4, <2>4, <2>5, <2>6
  <2>8. (c + d) % y = c + d /\ d % y = d
    BY <1>2, <1>4, <2>7, DivLess
  <2>9. QED
    BY <1>1, <2>8
<1>8. QED
  BY <1>5, <1>6, <1>7, Widths

LEMMA NthIs ==
  ASSUME NEW o, Octets(o), NEW b \in Nat, b <= Width4, NEW i \in Nat, i < Pow2(b)
  PROVE  Number4(NthOctets(NetworkOctets(o, Width4 - b), i))
           = Number4(NetworkOctets(o, Width4 - b)) + i
<1>1. PICK y, m : y = Pow2(OctetBits) /\ m = NetworkOctets(o, Width4 - b)
  OBVIOUS
<1>2. y \in Nat /\ y > 0 /\ y \in Int /\ 4 \in Nat
  BY <1>1, Widths, PowPositive
<1>3. m \in [1..4 -> Nat] /\ m \in [1..4 -> Int]
  BY <1>1, NetworkParts
<1>4. PICK f : IsNumber(f, m, y, 4) /\ Number(m, y) = f[4]
  BY <1>2, <1>3, NumberIs
<1>5. \A k \in 0..4 : f[k] \in Nat
  BY <1>2, <1>3, <1>4, NumberNat
<1>6. PICK n : n = NthOctets(m, i)
  OBVIOUS
<1>7. PICK value : value = [k \in 0..4 |-> f[k] + (i \div Pow2(BitsUnder(k)))]
  OBVIOUS
<1>8. ASSUME NEW k \in 0..4
      PROVE  i \div Pow2(BitsUnder(k)) \in Nat /\ value[k] \in Int
  <2>1. BitsUnder(k) \in Nat
    BY BitsUnderAre
  <2>2. i \div Pow2(BitsUnder(k)) \in Nat
    BY <2>1, PowPositive, DivMod
  <2>3. QED
    BY <1>5, <1>7, <2>2
<1>9. value \in [0..4 -> Int]
  BY <1>7, <1>8
<1>10. value[0] = 0
  <2>1. f[0] = 0
    BY <1>4 DEF IsNumber
  <2>2. Pow2(b) <= Pow2(Width4) /\ Pow2(Width4) \in Nat /\ Pow2(b) \in Nat
    BY Widths, PowSplit, PowPositive
  <2>3. i \div Pow2(Width4) = 0
    <3>1. i < Pow2(Width4)
      BY <2>2
    <3>2. QED
      BY <2>2, <3>1, DivLess
  <2>4. BitsUnder(0) = Width4
    BY BitsUnderAre
  <2>5. QED
    BY <1>7, <2>1, <2>3, <2>4
<1>11. ASSUME NEW k \in 1..4
       PROVE  n[k] = m[k] + ((i \div Pow2(BitsUnder(k))) % y)
  <2>1. BitsUnder(k) \in Nat
    BY BitsUnderAre
  <2>2. n[k] = (m[k] + (i \div Pow2(BitsUnder(k)))) % y
    BY <1>1, <1>6 DEF NthOctets, BitsUnder
  <2>3. m[k] = Cleared(o[k], LowBits(b, BitsUnder(k)))
    BY <1>1, NetworkParts
  <2>4. o[k] \in Nat /\ o[k] < Pow2(OctetBits)
    BY DEF Octets
  <2>5. QED
    BY <1>1, <2>1, <2>2, <2>3, <2>4, NoCarry
<1>12. ASSUME NEW k \in 1..4
       PROVE  value[k] = value[k - 1] * y + n[k] /\ n[k] \in Int
  <2>1. k \in 0..4 /\ k - 1 \in 0..4
    OBVIOUS
  <2>2. BitsUnder(k) \in Nat /\ BitsUnder(k - 1) = BitsUnder(k) + OctetBits
    BY <2>1, BitsUnderAre
  <2>3. PICK x, d : x = Pow2(BitsUnder(k)) /\ d = i \div Pow2(BitsUnder(k))
    OBVIOUS
  <2>4. x \in Nat /\ x > 0 /\ d \in Nat /\ Pow2(BitsUnder(k - 1)) = x * y
    BY <1>1, <1>8, <2>1, <2>2, <2>3, Widths, PowPositive, PowAdd
  <2>5. i \div (x * y) = d \div y
    BY <1>2, <2>3, <2>4, DivDiv
  <2>6. PICK q, r : q = d \div y /\ r = d % y
    OBVIOUS
  <2>7. q \in Nat /\ r \in Nat /\ d = (y * q) + r
    BY <1>2, <2>4, <2>6, DivMod
  <2>8. f[k - 1] \in Nat /\ f[k] = f[k - 1] * y + m[k] /\ m[k] \in Nat
    BY <1>3, <1>4, <1>5, <2>1 DEF IsNumber
  <2>9. value[k] = f[k] + d
    BY <1>7, <2>1, <2>3
  <2>10. value[k - 1] = f[k - 1] + q
    BY <1>7, <2>1, <2>4, <2>5, <2>6
  <2>11. n[k] = m[k] + r
    BY <1>11, <2>3, <2>6
  <2>12. (f[k - 1] + q) * y = f[k - 1] * y + y * q
    BY <1>2, <2>7, <2>8
  <2>13. f[k - 1] * y \in Nat /\ y * q \in Nat
    BY <1>2, <2>7, <2>8
  <2>14. QED
    BY <2>7, <2>8, <2>9, <2>10, <2>11, <2>12, <2>13
<1>13. n \in [1..4 -> Int]
  <2>1. n = [k \in 1..4 |-> n[k]]
    BY <1>6 DEF NthOctets
  <2>2. QED
    BY <1>12, <2>1
<1>14. \A k \in 1..4 : value[k] = value[k - 1] * y + n[k]
  BY <1>12
<1>15. Number(n, y) = value[4]
  BY ONLY <1>2, <1>9, <1>10, <1>13, <1>14, NumberBy
<1>16. value[4] = f[4] + i
  <2>1. BitsUnder(4) = 0 /\ Pow2(0) = 1 /\ i \div 1 = i
    BY BitsUnderAre, PowStep
  <2>2. QED
    BY <1>7, <2>1
<1>17. QED
  BY <1>1, <1>4, <1>6, <1>15, <1>16 DEF Number4

-----------------------------------------------------------------------------
\* The addresses that are listed, of either kind.

ListRight(list, network, hosts, limit) ==
  /\ hosts = 2 => list = <<network, network + 1>>
  /\ hosts # 2 => /\ \A i \in DOMAIN list : list[i] = network + i /\ i <= hosts - 1
                  /\ hosts - 1 \in DOMAIN list => limit = hosts - 1
                  /\ Len(list) <= limit
                  /\ hosts > 1 => Len(list) >= Min({limit, hosts - 2})

SubnetRight(number, bits, limit, network, list) ==
  /\ network = number - (number % Pow2(bits))
  /\ ListRight(list, network, Pow2(bits), limit)

LEMMA LimitIs ==
  ASSUME NEW hosts \in Nat, hosts > 0, NEW limit \in Nat
  PROVE  /\ Limit(hosts, limit) \in Int /\ Limit(hosts, limit) < hosts
         /\ Limit(hosts, limit) <= limit
         /\ Limit(hosts, limit) = hosts - 1 => limit = hosts - 1
         /\ hosts > 1 => Limit(hosts, limit) \in Nat /\ Limit(hosts, limit) >= Min({limit, hosts - 2})
<1>1. /\ Limit(hosts, limit) \in Int /\ Limit(hosts, limit) < hosts
      /\ Limit(hosts, limit) <= limit
      /\ Limit(hosts, limit) = hosts - 1 => limit = hosts - 1
  BY DEF Limit
<1>2. ASSUME hosts > 1
      PROVE  Limit(hosts, limit) \in Nat /\ Limit(hosts, limit) >= Min({limit, hosts - 2})
  <2>1. PICK n : n = hosts - 2
    OBVIOUS
  <2>2. n \in Nat
    BY <1>2, <2>1
  <2>3. Min({limit, n}) = IF limit <= n THEN limit ELSE n
    BY <2>2 DEF Min
  <2>4. QED
    BY <1>2, <2>1, <2>2, <2>3 DEF Limit
<1>3. QED
  BY <1>1, <1>2

LEMMA Listed ==
  ASSUME NEW network \in Nat, NEW hosts \in Nat, hosts > 0, NEW limit \in Nat, NEW list,
         hosts = 2 => list = <<network, network + 1>>,
         hosts # 2 => list = [i \in 1..Limit(hosts, limit) |-> network + i]
  PROVE  ListRight(list, network, hosts, limit)
<1>1. CASE hosts = 2
  BY <1>1 DEF ListRight
<1>2. CASE hosts # 2
  <2>1. PICK m : m = Limit(hosts, limit)
    OBVIOUS
  <2>2. /\ m \in Int /\ m < hosts /\ m <= limit
        /\ m = hosts - 1 => limit = hosts - 1
        /\ hosts > 1 => m \in Nat /\ m >= Min({limit, hosts - 2})
    BY <2>1, LimitIs
  <2>3. PICK n : n = IF m < 0 THEN 0 ELSE m
    OBVIOUS
  <2>4. n \in Nat /\ 1..m = 1..n /\ n <= limit
    BY <2>2, <2>3
  <2>5. list = [i \in 1..n |-> network + i]
    BY <1>2, <2>1, <2>4
  <2>6. Len(list) = n /\ DOMAIN list = 1..n
    BY <2>4, <2>5
  <2>7. \A i \in DOMAIN list : list[i] = network + i /\ i <= hosts - 1
    BY <2>2, <2>4, <2>5, <2>6
  <2>8. hosts - 1 \in DOMAIN list => limit = hosts - 1
    BY <2>2, <2>3, <2>4, <2>6
  <2>9. hosts > 1 => Len(list) >= Min({limit, hosts - 2})
    BY <2>2, <2>3, <2>6
  <2>10. QED
    BY <1>2, <2>4, <2>6, <2>7, <2>8, <2>9 DEF ListRight
<1>3. QED
  BY <1>1, <1>2

-----------------------------------------------------------------------------
\* The subnets of IPv4.

LEMMA Subnet4 ==
  ASSUME NEW o \in Values4, NEW bits \in HostBits, NEW limit \in Limits, NEW a, NEW p,
         p = Width4 - bits, a = GetAddressesInSubnet4(o, p, limit)
  PROVE  SubnetRight(Number4(o), bits, limit, Number4(GetNetworkForAddress4(o, p)),
                     [i \in DOMAIN a |-> Number4(a[i])])
<1>1. Octets(o)
  <2>1. Octet \subseteq 0..(Pow2(OctetBits) - 1) /\ Pow2(OctetBits) \in Nat
    BY InputAssumption, Widths, PowPositive
  <2>2. PICK y : y = Pow2(OctetBits)
    OBVIOUS
  <2>3. \A j \in 1..4 : o[j] \in 0..(y - 1)
    BY <2>1, <2>2 DEF Values4
  <2>4. \A j \in 1..4 : o[j] \in Nat /\ o[j] < y
    BY <2>1, <2>2, <2>3
  <2>5. o = [j \in 1..4 |-> o[j]]
    BY DEF Values4
  <2>6. QED
    BY <2>2, <2>4, <2>5 DEF Octets
<1>2. bits \in Nat /\ bits <= Width4 /\ limit \in Nat
  BY InputAssumption, Widths
<1>3. PICK hosts, m : hosts = Pow2(bits) /\ m = NetworkOctets(o, p)
  OBVIOUS
<1>4. hosts \in Nat /\ hosts > 0
  BY <1>2, <1>3, PowPositive
<1>5. PICK network : network = Number4(m)
  OBVIOUS
<1>6. Number4(o) \in Nat /\ network = Cleared(Number4(o), bits)
  BY <1>1, <1>2, <1>3, <1>5, NetworkIs
<1>7. network \in Nat /\ network = Number4(o) - (Number4(o) % hosts)
  BY <1>2, <1>3, <1>6, ClearedIs
<1>8. \A i \in Nat : i < hosts => Number4(NthOctets(m, i)) = network + i
  BY <1>1, <1>2, <1>3, <1>5, NthIs
<1>9. NetmaskToPrefixLength(PrefixLengthToIPv4Netmask(p)) = p /\ Width4 - p = bits
  BY <1>2, MaskLength, Widths
<1>10. a = IF hosts = 2 THEN <<m, NthOctets(m, 1)>>
           ELSE [i \in 1..Limit(hosts, limit) |-> NthOctets(m, i)]
  BY <1>3, <1>9 DEF GetAddressesInSubnet4
<1>11. PICK list : list = [i \in DOMAIN a |-> Number4(a[i])]
  OBVIOUS
<1>12. ASSUME hosts = 2 PROVE list = <<network, network + 1>>
  <2>1. a = <<m, NthOctets(m, 1)>>
    BY <1>10, <1>12
  <2>2. Number4(NthOctets(m, 1)) = network + 1
    BY <1>8, <1>12
  <2>3. list = [i \in 1..2 |-> Number4(a[i])]
    BY <1>11, <2>1
  <2>4. list = <<Number4(a[1]), Number4(a[2])>>
    BY <2>3
  <2>5. QED
    BY <1>5, <2>1, <2>2, <2>4
<1>13. ASSUME hosts # 2 PROVE list = [i \in 1..Limit(hosts, limit) |-> network + i]
  <2>1. a = [i \in 1..Limit(hosts, limit) |-> NthOctets(m, i)]
    BY <1>10, <1>13
  <2>2. Limit(hosts, limit) \in Int /\ Limit(hosts, limit) < hosts
    BY <1>2, <1>4, LimitIs
  <2>3. \A i \in 1..Limit(hosts, limit) : i \in Nat /\ i < hosts
    BY <1>4, <2>2
  <2>4. \A i \in 1..Limit(hosts, limit) : Number4(a[i]) = network + i
    BY <1>8, <2>1, <2>3
  <2>5. DOMAIN a = 1..Limit(hosts, limit)
    BY <2>1
  <2>6. QED
    BY <1>11, <2>4, <2>5
<1>14. ListRight(list, network, hosts, limit)
  BY <1>2, <1>4, <1>7, <1>12, <1>13, Listed
<1>15. QED
  BY <1>3, <1>5, <1>7, <1>11, <1>14 DEF SubnetRight, GetNetworkForAddress4

-----------------------------------------------------------------------------
\* Masks.  A number of n bits of which the upper p are ones.

Upper(n, p) == IF n <= p THEN Pow2(n) - 1 ELSE Pow2(n) - Pow2(n - p)

LEMMA UpperStep ==
  ASSUME NEW e \in Nat, NEW w \in Nat, NEW p \in Nat
  PROVE  /\ Over(p, e) \in Nat /\ Upper(w, Over(p, e)) \in Int /\ Upper(e, p) \in Int
         /\ Upper(e + w, p) = Upper(e, p) * Pow2(w) + Upper(w, Over(p, e))
<1>1. PICK x, y : x = Pow2(e) /\ y = Pow2(w)
  OBVIOUS
<1>2. x \in Nat /\ y \in Nat /\ Pow2(e + w) = x * y /\ x * y \in Nat
  <2>1. x \in Nat /\ y \in Nat
    BY <1>1, PowPositive
  <2>2. Pow2(e + w) = x * y
    BY <1>1, PowAdd
  <2>3. QED
    BY <2>1, <2>2
<1>3. Over(p, e) \in Nat
  BY DEF Over
<1>4. CASE e + w <= p
  <2>1. e <= p /\ w <= Over(p, e)
    BY <1>4 DEF Over
  <2>2. Upper(e, p) = x - 1 /\ Upper(w, Over(p, e)) = y - 1 /\ Upper(e + w, p) = x * y - 1
    BY <1>1, <1>2, <1>4, <2>1 DEF Upper
  <2>3. (x - 1) * y = x * y - y
    BY <1>2
  <2>4. QED
    BY <1>1, <1>2, <1>3, <2>2, <2>3
<1>5. CASE e <= p /\ p < e + w
  <2>1. PICK z : z = Pow2((e + w) - p)
    OBVIOUS
  <2>2. (e + w) - p \in Nat /\ w - Over(p, e) = (e + w) - p /\ Over(p, e) < w
    BY <1>5 DEF Over
  <2>3. z \in Nat
    BY <2>1, <2>2, PowPositive
  <2>4. Upper(e, p) = x - 1 /\ Upper(w, Over(p, e)) = y - z /\ Upper(e + w, p) = x * y - z
    <3>1. Upper(e, p) = x - 1
      BY <1>1, <1>5 DEF Upper
    <3>2. Upper(w, Over(p, e)) = y - z
      BY <1>1, <1>3, <2>1, <2>2 DEF Upper
    <3>3. Upper(e + w, p) = x * y - z
      BY <1>2, <1>5, <2>1 DEF Upper
    <3>4. QED
      BY <3>1, <3>2, <3>3
  <2>5. (x - 1) * y = x * y - y
    BY <1>2
  <2>6. QED
    BY <1>1, <1>2, <1>3, <2>3, <2>4, <2>5
<1>6. CASE p < e
  <2>1. PICK z : z = Pow2(e - p)
    OBVIOUS
  <2>2. e - p \in Nat /\ (e + w) - p = (e - p) + w /\ p < e + w /\ Over(p, e) = 0 /\ w - 0 = w
    BY <1>6 DEF Over
  <2>3. z \in Nat /\ Pow2((e + w) - p) = z * y
    BY <1>1, <2>1, <2>2, PowPositive, PowAdd
  <2>4. Upper(e, p) = x - z
    BY <1>1, <1>6, <2>1 DEF Upper
  <2>5. Upper(w, 0) = 0
    <3>1. CASE w = 0
      BY <3>1, PowStep DEF Upper
    <3>2. CASE w # 0
      BY <1>1, <1>2, <2>2, <3>2 DEF Upper
    <3>3. QED
      BY <3>1, <3>2
  <2>6. Upper(e + w, p) = x * y - z * y
    BY <1>2, <2>2, <2>3 DEF Upper
  <2>7. (x - z) * y = x * y - z * y /\ z * y \in Nat
    BY <1>2, <2>3
  <2>8. QED
    BY <1>1, <1>2, <1>3, <2>2, <2>3, <2>4, <2>5, <2>6, <2>7
<1>7. QED
  BY <1>4, <1>5, <1>6

LEMMA UpperNone ==
  ASSUME NEW p \in Nat
  PROVE  Upper(0, p) = 0 /\ Upper(1, p) = IF p >= 1 THEN 1 ELSE 0
<1>1. Pow2(0) = 1 /\ Pow2(1) = 2
  BY PowStep
<1>2. Upper(0, p) = 0
  BY <1>1 DEF Upper
<1>3. CASE p >= 1
  BY <1>1, <1>2, <1>3 DEF Upper
<1>4. CASE p = 0
  <2>1. 1 - 0 = 1
    OBVIOUS
  <2>2. QED
    BY <1>1, <1>2, <1>4, <2>1 DEF Upper
<1>5. QED
  BY <1>3, <1>4

LEMMA HextetOfMask ==
  ASSUME NEW low \in Nat, NEW p \in Nat, NEW w \in Nat, NEW digits,
         digits = [i \in 1..w |-> IF low + i <= p THEN 1 ELSE 0]
  PROVE  Number(digits, 2) = Upper(w, Over(p, low))
<1>1. PICK q : q = Over(p, low)
  OBVIOUS
<1>2. q \in Nat /\ \A i \in Nat : i > 0 => (low + i <= p <=> i <= q)
  BY <1>1 DEF Over
<1>3. PICK value : value = [i \in 0..w |-> Upper(i, q)]
  OBVIOUS
<1>4. \A i \in 0..w : Upper(i, q) \in Int
  <2>1. ASSUME NEW i \in 0..w PROVE Upper(i, q) \in Int
    BY <1>2, UpperStep
  <2>2. QED
    BY <2>1
<1>5. value \in [0..w -> Int] /\ value[0] = 0
  BY <1>2, <1>3, <1>4, UpperNone
<1>6. ASSUME NEW i \in 1..w
      PROVE  value[i] = value[i - 1] * 2 + digits[i]
  <2>1. i - 1 \in Nat /\ 1 \in Nat /\ (i - 1) + 1 = i /\ i \in 0..w /\ i - 1 \in 0..w /\ i > 0 /\ i \in Nat
    OBVIOUS
  <2>2. Upper((i - 1) + 1, q) = Upper(i - 1, q) * Pow2(1) + Upper(1, Over(q, i - 1))
    BY <1>2, <2>1, UpperStep
  <2>3. Over(q, i - 1) \in Nat /\ (Over(q, i - 1) >= 1 <=> i <= q)
    BY <1>2, <2>1 DEF Over
  <2>4. Upper(1, Over(q, i - 1)) = IF i <= q THEN 1 ELSE 0
    BY <2>3, UpperNone
  <2>5. digits[i] = IF i <= q THEN 1 ELSE 0
    BY <1>2, <2>1
  <2>6. Pow2(1) = 2
    BY PowStep
  <2>7. value[i] = Upper((i - 1) + 1, q) /\ value[i - 1] = Upper(i - 1, q)
    BY <1>3, <2>1
  <2>8. QED
    BY <2>2, <2>4, <2>5, <2>6, <2>7
<1>7. digits \in [1..w -> Int]
  OBVIOUS
<1>8. Number(digits, 2) = value[w]
  <2>1. PICK base : base = 2
    OBVIOUS
  <2>2. base \in Int /\ \A i \in 1..w : value[i] = value[i - 1] * base + digits[i]
    BY <1>6, <2>1
  <2>3. Number(digits, base) = value[w]
    BY ONLY w \in Nat, <1>5, <1>7, <2>2, NumberBy
  <2>4. QED
    BY <2>1, <2>3
<1>9. QED
  BY <1>1, <1>3, <1>8

\* An address that is written in full is read as it stands.
LEMMA FullIs ==
  ASSUME NEW h \in [1..Groups -> Nat]
  PROVE  /\ Full(h) \in Seq(Seq(Nat)) /\ Len(Full(h)) = Groups /\ DOMAIN Full(h) = 1..Groups
         /\ \A i \in 1..Groups : Full(h)[i] = <<h[i]>> /\ Full(h)[i] # Empty
         /\ ~HasQuad(Full(h)) /\ Hextets(Full(h)) = Full(h)
<1>1. PICK t : t = Full(h)
  OBVIOUS
<1>2. Groups \in Nat /\ Groups > 2
  BY Widths
<1>3. t = [i \in 1..Groups |-> <<h[i]>>] /\ \A i \in 1..Groups : <<h[i]>> \in Seq(Nat)
  BY <1>1 DEF Full
<1>4. t \in Seq(Seq(Nat)) /\ Len(t) = Groups /\ DOMAIN t = 1..Groups
  BY <1>2, <1>3
<1>5. \A i \in 1..Groups : t[i] = <<h[i]>> /\ t[i] # Empty
  BY <1>3 DEF Empty
<1>6. ~HasQuad(t)
  <2>1. Last(t) = <<h[Groups]>>
    BY <1>2, <1>4, <1>5 DEF Last
  <2>2. Len(<<h[Groups]>>) = 1
    OBVIOUS
  <2>3. QED
    BY <2>1, <2>2 DEF HasQuad
<1>7. Empty \notin ToSet(t)
  BY <1>4, <1>5 DEF ToSet
<1>8. Hextets(t) = t
  <2>1. ExpandIPv4Mapped(t) = t
    BY <1>6 DEF ExpandIPv4Mapped
  <2>2. t # <<Empty, Empty, Empty>>
    BY <1>2, <1>5
  <2>3. QED
    BY <1>7, <2>1, <2>2 DEF Hextets
<1>9. QED
  BY <1>1, <1>4, <1>5, <1>6, <1>8

\* The values of hextets, however they are written.
Hextets6(h) == h \in [1..Groups -> Nat] /\ \A i \in 1..Groups : h[i] < Pow2(HextetBits)
Values(h)   == [i \in 1..Groups |-> Value(h[i])]

LEMMA ValueIs ==
  ASSUME NEW s \in Nat
  PROVE  Value(s) \in Nat /\ Value(s) < Pow2(HextetBits) /\ (s < Pow2(HextetBits) => Value(s) = s)
<1>1. PICK y : y = Pow2(HextetBits)
  OBVIOUS
<1>2. y \in Nat /\ y > 0
  BY <1>1, Widths, PowPositive
<1>3. PICK q, r : q = s \div y /\ r = s % y
  OBVIOUS
<1>4. q \in Nat /\ r \in Nat /\ r < y /\ s = (y * q) + r
  BY <1>2, <1>3, DivMod
<1>5. ASSUME s < y PROVE r = s
  <2>1. q = 0
    BY <1>2, <1>3, <1>5, DivLess
  <2>2. y * 0 = 0
    BY <1>2
  <2>3. QED
    BY <1>4, <2>1, <2>2
<1>6. QED
  BY <1>1, <1>3, <1>4, <1>5 DEF Value

LEMMA ValuesAre ==
  ASSUME NEW h \in [1..Groups -> Nat]
  PROVE  /\ Hextets6(Values(h)) /\ Number6(h) = Number(Values(h), Pow2(HextetBits))
         /\ Hextets6(h) => Values(h) = h
<1>1. \A i \in 1..Groups : h[i] \in Nat
  OBVIOUS
<1>2. \A i \in 1..Groups : Values(h)[i] = Value(h[i]) /\ Values(h)[i] \in Nat
                           /\ Values(h)[i] < Pow2(HextetBits)
  BY <1>1, ValueIs DEF Values
<1>3. Values(h) = [i \in 1..Groups |-> Values(h)[i]]
  BY DEF Values
<1>4. Hextets6(Values(h))
  BY <1>2, <1>3 DEF Hextets6
<1>5. ASSUME Hextets6(h) PROVE Values(h) = h
  <2>1. \A i \in 1..Groups : Values(h)[i] = h[i]
    BY <1>1, <1>2, <1>5, ValueIs DEF Hextets6
  <2>2. h = [i \in 1..Groups |-> h[i]]
    OBVIOUS
  <2>3. QED
    BY <1>3, <2>1, <2>2
<1>6. Number6(h) = Number(Values(h), Pow2(HextetBits))
  BY DEF Number6, Values
<1>7. QED
  BY <1>4, <1>5, <1>6

\* A text is read as the number of its hextets.
LEMMA ReadAs ==
  ASSUME NEW h \in [1..Groups -> Nat], NEW text, Hextets(text) = Full(h)
  PROVE  ConvertIPv6ToInt(text) = Number6(h)
<1>1. DOMAIN Full(h) = 1..Groups /\ \A i \in 1..Groups : Full(h)[i] = <<h[i]>>
  BY FullIs
<1>2. [i \in DOMAIN Full(h) |-> Value(Full(h)[i][1])] = [i \in 1..Groups |-> Value(h[i])]
  BY <1>1
<1>3. QED
  BY <1>2 DEF ConvertIPv6ToInt, Number6

LEMMA Mask ==
  ASSUME NEW p \in 0..Width6
  PROVE  /\ ConvertIPv6ToInt(PrefixLengthToIPv6Netmask(p)) = Pow2(Width6) - Pow2(Width6 - p)
         /\ ~(p > Width4) => NetmaskToPrefixLength(PrefixLengthToIPv4Netmask(p)) = p
<1>1. PICK w : w = HextetBits
  OBVIOUS
<1>2. w \in Nat /\ Groups \in Nat /\ Width6 = Groups * w /\ Width6 \in Nat /\ p \in Nat
  BY <1>1, Widths DEF Width6
<1>3. PICK h : h = [g \in 1..Groups |-> Upper(w, Over(p, (g - 1) * w))]
  OBVIOUS
<1>4. \A g \in 1..Groups : (g - 1) * w \in Nat
  BY <1>2
<1>5. ASSUME NEW g \in 1..Groups
      PROVE  h[g] \in Nat /\ h[g] < Pow2(w)
  <2>1. PICK q : q = Over(p, (g - 1) * w)
    OBVIOUS
  <2>2. q \in Nat
    BY <1>2, <1>4, <2>1 DEF Over
  <2>3. Upper(w, q) \in Nat /\ Upper(w, q) < Pow2(w)
    <3>1. CASE w <= q
      BY <1>2, <3>1, PowPositive DEF Upper
    <3>2. CASE ~(w <= q)
      <4>1. w - q \in Nat /\ w - q <= w
        BY <1>2, <2>2, <3>2
      <4>2. Pow2(w - q) <= Pow2(w) /\ Pow2(w - q) \in Nat /\ Pow2(w - q) > 0 /\ Pow2(w) \in Nat
        BY <1>2, <4>1, PowSplit, PowPositive
      <4>3. QED
        BY <3>2, <4>2 DEF Upper
    <3>3. QED
      BY <3>1, <3>2
  <2>4. QED
    BY <1>3, <2>1, <2>3
<1>6. h \in [1..Groups -> Nat] /\ h \in [1..Groups -> Int]
  BY <1>3, <1>5
<1>7. PrefixLengthToIPv6Netmask(p) = Full(h)
  <2>1. ASSUME NEW g \in 1..Groups
        PROVE  Number([i \in 1..w |-> IF (g - 1) * w + i <= p THEN 1 ELSE 0], 2) = h[g]
    <3>1. PICK low, digits : /\ low = (g - 1) * w
                             /\ digits = [i \in 1..w |-> IF low + i <= p THEN 1 ELSE 0]
      OBVIOUS
    <3>2. low \in Nat
      BY <1>4, <3>1
    <3>3. Number(digits, 2) = Upper(w, Over(p, low))
      BY ONLY <1>2, <3>1, <3>2, HextetOfMask
    <3>4. QED
      BY <1>3, <3>1, <3>3
  <2>2. QED
    BY <1>1, <2>1 DEF PrefixLengthToIPv6Netmask, Full
<1>8. ConvertIPv6ToInt(Full(h)) = Number(h, Pow2(w))
  <2>1. Hextets6(h)
    BY <1>1, <1>5, <1>6 DEF Hextets6
  <2>2. Number6(h) = Number(h, Pow2(w))
    BY <1>1, <1>6, <2>1, ValuesAre
  <2>3. QED
    BY <1>6, <2>2, FullIs, ReadAs
<1>9. PICK value : value = [g \in 0..Groups |-> Upper(g * w, p)]
  OBVIOUS
<1>10. value \in [0..Groups -> Int]
  <2>1. ASSUME NEW g \in 0..Groups PROVE Upper(g * w, p) \in Int
    <3>1. g * w \in Nat
      BY <1>2
    <3>2. QED
      BY <1>2, <3>1, UpperStep
  <2>2. QED
    BY <1>9, <2>1
<1>11. value[0] = 0
  <2>1. 0 * w = 0 /\ 0 \in 0..Groups
    BY <1>2
  <2>2. QED
    BY <1>2, <1>9, <2>1, UpperNone
<1>12. ASSUME NEW g \in 1..Groups
       PROVE  value[g] = value[g - 1] * Pow2(w) + h[g]
  <2>1. PICK e : e = (g - 1) * w
    OBVIOUS
  <2>2. e \in Nat /\ e + w = g * w /\ g \in 0..Groups /\ g - 1 \in 0..Groups
    <3>1. g \in Nat /\ (g - 1) * w = g * w - w /\ g * w \in Nat
      BY <1>2
    <3>2. QED
      BY <1>2, <1>4, <2>1, <3>1
  <2>3. Upper(e + w, p) = Upper(e, p) * Pow2(w) + Upper(w, Over(p, e))
    BY <1>2, <2>2, UpperStep
  <2>4. value[g] = Upper(e + w, p) /\ value[g - 1] = Upper(e, p)
    BY <1>9, <2>1, <2>2
  <2>5. QED
    BY <1>3, <2>1, <2>3, <2>4
<1>13. Number(h, Pow2(w)) = value[Groups]
  <2>1. PICK base : base = Pow2(w)
    OBVIOUS
  <2>2. base \in Int /\ \A g \in 1..Groups : value[g] = value[g - 1] * base + h[g]
    BY <1>2, <1>12, <2>1, PowPositive
  <2>3. Number(h, base) = value[Groups]
    BY ONLY <1>2, <1>6, <1>10, <1>11, <2>2, NumberBy
  <2>4. QED
    BY <2>1, <2>3
<1>14. value[Groups] = Pow2(Width6) - Pow2(Width6 - p)
  <2>1. value[Groups] = Upper(Width6, p)
    BY <1>2, <1>9
  <2>2. CASE Width6 <= p
    <3>1. p = Width6 /\ Width6 - p = 0
      BY <1>2, <2>2
    <3>2. QED
      BY <2>1, <2>2, <3>1, PowStep DEF Upper
  <2>3. CASE ~(Width6 <= p)
    BY <2>1, <2>3 DEF Upper
  <2>4. QED
    BY <2>2, <2>3
<1>15. ConvertIPv6ToInt(PrefixLengthToIPv6Netmask(p)) = Pow2(Width6) - Pow2(Width6 - p)
  BY <1>7, <1>8, <1>13, <1>14
<1>16. ASSUME ~(p > Width4)
       PROVE  NetmaskToPrefixLength(PrefixLengthToIPv4Netmask(p)) = p
  <2>1. PICK b : b = Width4 - p
    OBVIOUS
  <2>2. b \in Nat /\ b <= Width4 /\ Width4 - b = p
    BY <1>2, <1>16, <2>1, Widths
  <2>3. QED
    BY <2>2, MaskLength
<1>17. QED
  BY <1>15, <1>16

-----------------------------------------------------------------------------
\* IPv6 addresses as numbers, there and back.

LEMMA HextetsOfInput ==
  ASSUME NEW h \in Values6
  PROVE  h \in [1..Groups -> Nat]
<1>1. \A i \in 1..Groups : h[i] \in Nat
  BY InputAssumption DEF Values6
<1>2. h = [i \in 1..Groups |-> h[i]]
  BY DEF Values6
<1>3. QED
  BY <1>1, <1>2

\* The bits below hextet i.
Behind(i) == HextetBits * (Groups - i)

LEMMA BehindIs ==
  /\ Behind(0) = Width6 /\ Behind(Groups) = 0
  /\ \A i \in 0..Groups : Behind(i) \in Nat
  /\ \A i \in 1..Groups : Behind(i - 1) = Behind(i) + HextetBits
<1>1. PICK w, g : w = HextetBits /\ g = Groups
  OBVIOUS
<1>2. w \in Nat /\ g \in Nat
  BY <1>1, Widths
<1>3. Behind(0) = Width6 /\ Behind(Groups) = 0
  <2>1. w * (g - 0) = g * w /\ w * (g - g) = 0
    BY <1>2
  <2>2. QED
    BY <1>1, <2>1 DEF Behind, Width6
<1>4. ASSUME NEW i \in 0..Groups PROVE Behind(i) \in Nat
  <2>1. g - i \in Nat
    BY <1>1, <1>2
  <2>2. w * (g - i) \in Nat
    BY <1>2, <2>1
  <2>3. QED
    BY <1>1, <2>2 DEF Behind
<1>5. ASSUME NEW i \in 1..Groups PROVE Behind(i - 1) = Behind(i) + HextetBits
  <2>1. g - (i - 1) = (g - i) + 1 /\ g - i \in Nat
    BY <1>1, <1>2
  <2>2. w * ((g - i) + 1) = w * (g - i) + w
    BY <1>2, <2>1
  <2>3. QED
    BY <1>1, <2>1, <2>2 DEF Behind
<1>6. QED
  BY <1>3, <1>4, <1>5

LEMMA NumberOfValues ==
  ASSUME NEW h, Hextets6(h)
  PROVE  Number(h, Pow2(HextetBits)) \in Nat /\ Number(h, Pow2(HextetBits)) < Pow2(Width6)
<1>1. PICK w, y : w = HextetBits /\ y = Pow2(HextetBits)
  OBVIOUS
<1>2. w \in Nat /\ y \in Nat /\ y > 0 /\ Groups \in Nat
  BY <1>1, Widths, PowPositive
<1>3. h \in [1..Groups -> Nat] /\ h \in [1..Groups -> Int] /\ y \in Int
  BY <1>2 DEF Hextets6
<1>4. PICK f : IsNumber(f, h, y, Groups) /\ Number(h, y) = f[Groups]
  BY <1>2, <1>3, NumberIs
<1>5. \A k \in 0..Groups : f[k] \in Nat
  BY <1>2, <1>3, <1>4, NumberNat
<1> DEFINE T == {k \in Nat : k <= Groups => f[k] < Pow2(w * k)}
<1>6. 0 \in T
  <2>1. w * 0 = 0 /\ f[0] = 0
    BY <1>2, <1>4 DEF IsNumber
  <2>2. QED
    BY <2>1, PowStep
<1>7. ASSUME NEW k \in Nat, k \in T
      PROVE  k + 1 \in T
  <2>1. SUFFICES ASSUME k + 1 <= Groups PROVE f[k + 1] < Pow2(w * (k + 1))
    OBVIOUS
  <2>2. PICK x : x = Pow2(w * k)
    OBVIOUS
  <2>3. w * k \in Nat /\ w * (k + 1) = w * k + w
    BY <1>2
  <2>4. x \in Nat /\ Pow2(w * (k + 1)) = x * y
    BY <1>1, <1>2, <2>2, <2>3, PowPositive, PowAdd
  <2>5. f[k] < x /\ f[k] \in Nat
    BY <1>2, <1>5, <1>7, <2>1, <2>2
  <2>6. k + 1 \in 1..Groups /\ (k + 1) - 1 = k
    BY <1>2, <2>1
  <2>7. f[k + 1] = f[k] * y + h[k + 1]
    BY <1>4, <2>6 DEF IsNumber
  <2>8. h[k + 1] \in Nat /\ h[k + 1] < y
    BY <1>1, <2>6 DEF Hextets6
  <2>9. (f[k] + 1) * y <= x * y /\ (f[k] + 1) * y = f[k] * y + y
    BY <1>2, <2>4, <2>5
  <2>10. f[k] * y \in Nat /\ x * y \in Nat
    BY <1>2, <2>4, <2>5
  <2>11. QED
    BY <1>2, <2>4, <2>7, <2>8, <2>9, <2>10
<1> HIDE DEF T
<1>8. \A k \in Nat : k \in T
  BY <1>6, <1>7, NatSet
<1>9. f[Groups] < Pow2(w * Groups)
  BY <1>2, <1>8 DEF T
<1>10. w * Groups = Width6
  BY <1>1, <1>2 DEF Width6
<1>11. QED
  BY <1>1, <1>2, <1>4, <1>5, <1>9, <1>10

LEMMA NumberBound ==
  ASSUME NEW h \in [1..Groups -> Nat]
  PROVE  Number6(h) \in Nat /\ Number6(h) < Pow2(Width6)
BY ValuesAre, NumberOfValues

HextetsOf(n) == [i \in 1..Groups |-> (n \div Pow2(Behind(i))) % Pow2(HextetBits)]

LEMMA HextetsOfNumber ==
  ASSUME NEW n \in Nat, n < Pow2(Width6)
  PROVE  /\ ConvertIntToIPv6(n) = Full(HextetsOf(n))
         /\ Hextets6(HextetsOf(n)) /\ Number6(HextetsOf(n)) = n
<1>1. PICK y, d : y = Pow2(HextetBits) /\ d = HextetsOf(n)
  OBVIOUS
<1>2. y \in Nat /\ y > 0 /\ Groups \in Nat /\ y \in Int
  BY <1>1, Widths, PowPositive
<1>3. PICK value : value = [k \in 0..Groups |-> n \div Pow2(Behind(k))]
  OBVIOUS
<1>4. ASSUME NEW k \in 0..Groups
      PROVE  Pow2(Behind(k)) \in Nat /\ Pow2(Behind(k)) > 0 /\ value[k] \in Nat
  <2>1. Pow2(Behind(k)) \in Nat /\ Pow2(Behind(k)) > 0
    BY BehindIs, PowPositive
  <2>2. n \div Pow2(Behind(k)) \in Nat
    BY <2>1, DivMod
  <2>3. QED
    BY <1>3, <2>1, <2>2
<1>5. value \in [0..Groups -> Int]
  BY <1>3, <1>4
<1>6. value[0] = 0
  <2>1. n \div Pow2(Behind(0)) = 0
    BY BehindIs, Widths, PowPositive, DivLess
  <2>2. QED
    BY <1>2, <1>3, <2>1
<1>7. ASSUME NEW k \in 1..Groups
      PROVE  /\ d[k] \in Nat /\ d[k] < y
             /\ value[k] = value[k - 1] * y + d[k]
  <2>1. k \in 0..Groups /\ k - 1 \in 0..Groups /\ Behind(k) \in Nat
    BY <1>2, BehindIs
  <2>2. PICK x, v : x = Pow2(Behind(k)) /\ v = value[k]
    OBVIOUS
  <2>3. x \in Nat /\ x > 0 /\ v \in Nat /\ v = n \div x
    BY <1>3, <1>4, <2>1, <2>2
  <2>4. Pow2(Behind(k - 1)) = x * y
    BY <1>1, <2>1, <2>2, BehindIs, Widths, PowAdd
  <2>5. value[k - 1] = v \div y
    <3>1. (n \div x) \div y = n \div (x * y)
      BY <1>2, <2>3, DivDiv
    <3>2. QED
      BY <1>3, <2>1, <2>3, <2>4, <3>1
  <2>6. d[k] = v % y
    BY <1>1, <2>2, <2>3 DEF HextetsOf
  <2>7. PICK q, r : q = v \div y /\ r = v % y
    OBVIOUS
  <2>8. q \in Nat /\ r \in Nat /\ r < y /\ v = (y * q) + r
    BY <1>2, <2>3, <2>7, DivMod
  <2>9. q * y = y * q
    BY <1>2, <2>8
  <2>10. QED
    BY <2>2, <2>5, <2>6, <2>7, <2>8, <2>9
<1>8. d = [k \in 1..Groups |-> d[k]]
  BY <1>1 DEF HextetsOf
<1>9. d \in [1..Groups -> Nat] /\ d \in [1..Groups -> Int] /\ Hextets6(d)
  BY <1>1, <1>7, <1>8 DEF Hextets6
<1>10. \A k \in 1..Groups : value[k] = value[k - 1] * y + d[k]
  BY <1>7
<1>11. Number(d, y) = value[Groups]
  BY ONLY <1>2, <1>5, <1>6, <1>9, <1>10, NumberBy
<1>12. value[Groups] = n
  <2>1. Pow2(Behind(Groups)) = 1 /\ n \div 1 = n
    BY BehindIs, PowStep
  <2>2. QED
    BY <1>2, <1>3, <2>1
<1>13. ConvertIntToIPv6(n) = Full(d)
  BY <1>1 DEF ConvertIntToIPv6, Full, HextetsOf, Behind
<1>14. QED
  <2>1. Number6(d) = Number(d, y)
    BY <1>1, <1>9, ValuesAre
  <2>2. QED
    BY <1>1, <1>9, <1>11, <1>12, <1>13, <2>1

LEMMA NetworkFits ==
  ASSUME NEW n \in Nat, n < Pow2(Width6), NEW b \in Nat, b <= Width6
  PROVE  /\ NetworkInt(n, Width6 - b) = Cleared(n, b)
         /\ \A i \in Nat : i < Pow2(b) => Cleared(n, b) + i < Pow2(Width6)
<1>1. Width6 - (Width6 - b) = b
  BY Widths
<1>2. NetworkInt(n, Width6 - b) = Cleared(n, b)
  BY <1>1 DEF NetworkInt, Cleared
<1>3. PICK p, z, q, r : p = Pow2(b) /\ z = Pow2(Width6 - b) /\ q = n \div p /\ r = n % p
  OBVIOUS
<1>4. p \in Nat /\ p > 0 /\ z \in Nat /\ Pow2(Width6) = p * z
  BY <1>3, Widths, PowPositive, PowSplit
<1>5. q \in Nat /\ r \in Nat /\ n = (p * q) + r
  BY <1>3, <1>4, DivMod
<1>6. p * q \in Nat /\ p * z \in Nat /\ p * q < p * z
  BY <1>4, <1>5
<1>7. q < z
  <2>1. q >= z => p * q >= p * z
    BY <1>4, <1>5
  <2>2. QED
    BY <1>4, <1>5, <1>6, <2>1
<1>8. p * (q + 1) <= p * z /\ p * (q + 1) = p * q + p
  BY <1>4, <1>5, <1>7
<1>9. Cleared(n, b) = p * q
  BY <1>3, <1>4, <1>5 DEF Cleared
<1>10. \A i \in Nat : i < p => p * q + i < p * z
  BY <1>4, <1>6, <1>8
<1>11. QED
  BY <1>2, <1>3, <1>4, <1>9, <1>10

-----------------------------------------------------------------------------
\* A text with the zeros from i to j as "::", part by part; c of its ends are a "::".

Run(h, i, j) == i \in 1..Groups /\ j \in 1..Groups /\ i <= j /\ \A k \in i..j : h[k] = 0
Ends(i, j)   == (IF i = 1 THEN 1 ELSE 0) + (IF j = Groups THEN 1 ELSE 0)
Parts6(i, j) == (Groups - (j - i)) + Ends(i, j)

Cut(h, i, j) ==
  [k \in 1..Parts6(i, j) |-> IF k < i THEN <<h[k]>>
                             ELSE IF k <= i + Ends(i, j) THEN Empty
                             ELSE <<h[(k + (j - i)) - Ends(i, j)]>>]

Listing(s, n, S)      == n \in Nat /\ s \in [1..n -> S]
JoinOf(v, l, s, m, t, n) == v = s \o t /\ l = m + n
PieceOf(v, m, s, n, a, b) ==
  /\ v = SubSeq(s, a, b) /\ m = (b - a) + 1
  /\ a \in 1..(n + 1) /\ b \in 0..n /\ a <= b + 1
Taken(v, m, s, a)    == \A k \in 1..m : v[k] = s[(k + a) - 1]
Joins(v, l, s, m, t) == \A k \in 1..l : v[k] = IF k <= m THEN s[k] ELSE t[k - m]

LEMMA Joined ==
  ASSUME NEW S, NEW s, NEW m, Listing(s, m, S), NEW t, NEW n, Listing(t, n, S),
         NEW v, NEW l, JoinOf(v, l, s, m, t, n)
  PROVE  Listing(v, l, S) /\ Joins(v, l, s, m, t)
<1>0. /\ m \in Nat /\ n \in Nat /\ s \in [1..m -> S] /\ t \in [1..n -> S]
      /\ v = s \o t /\ l = m + n
  BY DEF Listing, JoinOf
<1>1. s \in Seq(S) /\ t \in Seq(S) /\ Len(s) = m /\ Len(t) = n
  BY <1>0
<1>2. /\ s \o t \in Seq(S) /\ Len(s \o t) = m + n
      /\ \A k \in 1..(m + n) : (s \o t)[k] = IF k <= m THEN s[k] ELSE t[k - m]
  BY <1>1, ConcatProperties
<1>3. l \in Nat
  BY <1>0
<1>4. v \in Seq(S) /\ Len(v) = l
  BY <1>0, <1>2
<1>5. v \in [1..l -> S]
  BY <1>4, LenProperties
<1>6. QED
  BY <1>0, <1>2, <1>3, <1>5 DEF Joins, Listing

LEMMA Piece ==
  ASSUME NEW S, NEW s, NEW n, Listing(s, n, S), NEW a, NEW b, NEW v, NEW m, PieceOf(v, m, s, n, a, b)
  PROVE  Listing(v, m, S) /\ Taken(v, m, s, a)
<1>0. /\ n \in Nat /\ s \in [1..n -> S] /\ a \in Int /\ b \in Int
      /\ a \in 1..(n + 1) /\ b \in 0..n /\ a <= b + 1 /\ v = SubSeq(s, a, b)
  BY DEF Listing, PieceOf
<1>1. m = (b - a) + 1
  BY DEF PieceOf
<1>2. m \in Nat
  BY <1>0, <1>1
<1>3. \A k \in a..b : s[k] \in S
  BY <1>0
<1>5. /\ v \in Seq(S) /\ Len(v) = IF a <= b THEN b - a + 1 ELSE 0
      /\ \A k \in 1..(b - a + 1) : v[k] = s[a + k - 1]
  BY <1>0, <1>3, SubSeqProperties
<1>6. v \in [1..m -> S]
  <2>1. Len(v) = m
    BY <1>0, <1>1, <1>2, <1>5
  <2>2. QED
    BY <1>5, <2>1, LenProperties
<1>7. \A k \in 1..m : v[k] = s[(k + a) - 1]
  <2>1. ASSUME NEW k \in 1..m PROVE v[k] = s[(k + a) - 1]
    <3>1. a + k - 1 = (k + a) - 1 /\ k \in 1..(b - a + 1)
      BY <1>0, <1>1
    <3>2. v[k] = s[a + k - 1]
      BY <1>5, <3>1
    <3>3. QED
      BY <3>1, <3>2
  <2>2. QED
    BY <2>1
<1>8. QED
  BY <1>1, <1>2, <1>6, <1>7 DEF Listing, Taken

LEMMA OneOrNone ==
  ASSUME NEW S, NEW e \in S, NEW test \in BOOLEAN
  PROVE  /\ (IF test THEN <<e>> ELSE << >>) \in [1..(IF test THEN 1 ELSE 0) -> S]
         /\ \A k \in 1..(IF test THEN 1 ELSE 0) : (IF test THEN <<e>> ELSE << >>)[k] = e
<1>1. CASE test
  <2>1. <<e>> \in [1..1 -> S] /\ \A k \in 1..1 : <<e>>[k] = e
    OBVIOUS
  <2>2. QED
    BY <1>1, <2>1
<1>2. CASE ~test
  <2>1. << >> \in [1..0 -> S] /\ \A k \in 1..0 : << >>[k] = e
    OBVIOUS
  <2>2. QED
    BY <1>2, <2>1
<1>3. QED
  BY <1>1, <1>2

LEMMA CutIs ==
  ASSUME NEW h \in [1..Groups -> Nat], NEW i, NEW j, Run(h, i, j)
  PROVE  /\ Parts6(i, j) \in Nat /\ Ends(i, j) \in 0..2
         /\ Cut(h, i, j) \in [1..Parts6(i, j) -> Seq(Nat)]
<1>1. Groups \in Nat /\ i \in Nat /\ j \in Nat /\ i >= 1 /\ i <= j /\ j <= Groups
  BY Widths DEF Run
<1>2. Ends(i, j) \in 0..2 /\ (i = 1 => Ends(i, j) >= 1)
  BY DEF Ends
<1>3. PICK c, n : c = Ends(i, j) /\ n = Parts6(i, j)
  OBVIOUS
<1>4. c \in Nat /\ n = (Groups - (j - i)) + c /\ n \in Nat
  BY <1>1, <1>2, <1>3 DEF Parts6
<1>5. Empty \in Seq(Nat) /\ \A x \in Nat : <<x>> \in Seq(Nat)
  BY DEF Empty
<1>6. ASSUME NEW k \in 1..n
      PROVE  (IF k < i THEN <<h[k]>> ELSE IF k <= i + c THEN Empty
              ELSE <<h[(k + (j - i)) - c]>>) \in Seq(Nat)
  <2>1. CASE k < i
    BY <1>1, <1>5, <2>1
  <2>2. CASE k >= i /\ k <= i + c
    BY <1>1, <1>5, <2>2
  <2>3. CASE k > i + c
    <3>1. (k + (j - i)) - c \in 1..Groups /\ ~(k < i) /\ ~(k <= i + c)
      BY <1>1, <1>4, <2>3
    <3>2. QED
      BY <1>5, <3>1
  <2>4. QED
    BY <1>1, <1>4, <2>1, <2>2, <2>3
<1>7. QED
  BY <1>2, <1>3, <1>4, <1>6 DEF Cut

LEMMA CollapsedIs ==
  ASSUME NEW h \in [1..Groups -> Nat], NEW i, NEW j, Run(h, i, j)
  PROVE  Collapsed(h, i, j) = Cut(h, i, j)
<1>1. Groups \in Nat /\ i \in Nat /\ j \in Nat /\ i >= 1 /\ i <= j /\ j <= Groups
  BY Widths DEF Run
<1>2. PICK S, e : S = Seq(Nat) /\ e = Empty
  OBVIOUS
<1>3. e \in S
  BY <1>2 DEF Empty
<1>4. PICK f : f = Full(h)
  OBVIOUS
<1>5. f \in [1..Groups -> S] /\ \A k \in 1..Groups : f[k] = <<h[k]>>
  <2>1. \A k \in 1..Groups : <<h[k]>> \in Seq(Nat)
    OBVIOUS
  <2>2. QED
    BY <1>2, <1>4, <2>1 DEF Full
<1>6. PICK a, b : a = (IF i = 1 THEN 1 ELSE 0) /\ b = (IF j = Groups THEN 1 ELSE 0)
  OBVIOUS
<1>7. PICK p1, p2, p3, p4, p5 :
        /\ p1 = (IF i = 1 THEN <<e>> ELSE << >>)
        /\ p2 = SubSeq(f, 1, i - 1) /\ p3 = <<e>> /\ p4 = SubSeq(f, j + 1, Groups)
        /\ p5 = (IF j = Groups THEN <<e>> ELSE << >>)
  OBVIOUS
<1>8. p1 \in [1..a -> S] /\ a \in Nat /\ \A k \in 1..a : p1[k] = e
  BY <1>3, <1>6, <1>7, OneOrNone
<1>9. p5 \in [1..b -> S] /\ b \in Nat /\ \A k \in 1..b : p5[k] = e
  BY <1>3, <1>6, <1>7, OneOrNone
<1>10. p3 \in [1..1 -> S] /\ p3[1] = e
  BY <1>3, <1>7
<1>11. PICK l2 : l2 = i - 1
  OBVIOUS
<1>12. p2 \in [1..l2 -> S] /\ l2 \in Nat /\ \A k \in 1..l2 : p2[k] = f[k]
  <2>1. 1 \in 1..(Groups + 1) /\ i - 1 \in 0..Groups /\ 1 <= (i - 1) + 1 /\ l2 = ((i - 1) - 1) + 1
    BY <1>1, <1>11
  <2>2. p2 = SubSeq(f, 1, i - 1)
    BY <1>7
  <2>3. PICK x, z : x = 1 /\ z = i - 1
    OBVIOUS
  <2>4. x \in 1..(Groups + 1) /\ z \in 0..Groups /\ x <= z + 1 /\ l2 = (z - x) + 1 /\ p2 = SubSeq(f, x, z)
    BY <2>1, <2>2, <2>3
  <2>5. Listing(p2, l2, S) /\ Taken(p2, l2, f, x)
    <3>1. Listing(f, Groups, S) /\ PieceOf(p2, l2, f, Groups, x, z)
      BY <1>1, <1>5, <2>4 DEF Listing, PieceOf
    <3>2. QED
      BY <3>1, Piece
  <2>6. \A k \in 1..l2 : (k + x) - 1 = k
    BY <2>3, <2>5 DEF Listing
  <2>7. QED
    BY <2>5, <2>6 DEF Listing, Taken
<1>13. PICK l4 : l4 = Groups - j
  OBVIOUS
<1>14. p4 \in [1..l4 -> S] /\ l4 \in Nat /\ \A k \in 1..l4 : p4[k] = f[k + j]
  <2>1. PICK x : x = j + 1
    OBVIOUS
  <2>2. x \in 1..(Groups + 1) /\ Groups \in 0..Groups /\ x <= Groups + 1 /\ l4 = (Groups - x) + 1
        /\ p4 = SubSeq(f, x, Groups)
    BY <1>1, <1>7, <1>13, <2>1
  <2>3. Listing(p4, l4, S) /\ Taken(p4, l4, f, x)
    <3>1. Listing(f, Groups, S) /\ PieceOf(p4, l4, f, Groups, x, Groups)
      BY <1>1, <1>5, <2>2 DEF Listing, PieceOf
    <3>2. QED
      BY <3>1, Piece
  <2>4. \A k \in 1..l4 : (k + x) - 1 = k + j
    BY <1>1, <2>1, <2>3 DEF Listing
  <2>5. QED
    BY <2>3, <2>4 DEF Listing, Taken
<1>15. PICK q2, n2 : q2 = p1 \o p2 /\ n2 = a + l2
  OBVIOUS
<1>16. n2 \in Nat /\ q2 \in [1..n2 -> S] /\ Joins(q2, n2, p1, a, p2)
  <2>1. Listing(p1, a, S) /\ Listing(p2, l2, S) /\ JoinOf(q2, n2, p1, a, p2, l2)
    BY <1>8, <1>12, <1>15 DEF Listing, JoinOf
  <2>2. Listing(q2, n2, S) /\ Joins(q2, n2, p1, a, p2)
    BY <2>1, Joined
  <2>3. QED
    BY <2>2 DEF Listing
<1>17. PICK q3, n3 : q3 = q2 \o p3 /\ n3 = n2 + 1
  OBVIOUS
<1>18. n3 \in Nat /\ q3 \in [1..n3 -> S] /\ Joins(q3, n3, q2, n2, p3)
  <2>1. Listing(q2, n2, S) /\ Listing(p3, 1, S) /\ JoinOf(q3, n3, q2, n2, p3, 1)
    BY <1>10, <1>16, <1>17 DEF Listing, JoinOf
  <2>2. Listing(q3, n3, S) /\ Joins(q3, n3, q2, n2, p3)
    BY <2>1, Joined
  <2>3. QED
    BY <2>2 DEF Listing
<1>19. PICK q4, n4 : q4 = q3 \o p4 /\ n4 = n3 + l4
  OBVIOUS
<1>20. n4 \in Nat /\ q4 \in [1..n4 -> S] /\ Joins(q4, n4, q3, n3, p4)
  <2>1. Listing(q3, n3, S) /\ Listing(p4, l4, S) /\ JoinOf(q4, n4, q3, n3, p4, l4)
    BY <1>14, <1>18, <1>19 DEF Listing, JoinOf
  <2>2. Listing(q4, n4, S) /\ Joins(q4, n4, q3, n3, p4)
    BY <2>1, Joined
  <2>3. QED
    BY <2>2 DEF Listing
<1>21. PICK t, n : t = q4 \o p5 /\ n = n4 + b
  OBVIOUS
<1>22. n \in Nat /\ t \in [1..n -> S] /\ Joins(t, n, q4, n4, p5)
  <2>1. Listing(q4, n4, S) /\ Listing(p5, b, S) /\ JoinOf(t, n, q4, n4, p5, b)
    BY <1>9, <1>20, <1>21 DEF Listing, JoinOf
  <2>2. Listing(t, n, S) /\ Joins(t, n, q4, n4, p5)
    BY <2>1, Joined
  <2>3. QED
    BY <2>2 DEF Listing
<1>23. t = Collapsed(h, i, j)
  BY <1>2, <1>4, <1>7, <1>15, <1>17, <1>19, <1>21 DEF Collapsed
<1>24. PICK c : c = a + b
  OBVIOUS
<1>25. c = Ends(i, j) /\ n = Parts6(i, j) /\ n2 = a + (i - 1) /\ n3 = a + i /\ n4 = a + i + (Groups - j)
       /\ a \in {0, 1} /\ b \in {0, 1} /\ (a = 1 <=> i = 1) /\ (b = 1 <=> j = Groups)
  BY <1>1, <1>6, <1>11, <1>13, <1>15, <1>17, <1>19, <1>21, <1>24 DEF Ends, Parts6
<1>26. ASSUME NEW k \in 1..n
       PROVE  t[k] = IF k < i THEN <<h[k]>> ELSE IF k <= i + c THEN e
                     ELSE <<h[(k + (j - i)) - c]>>
  <2>1. CASE k < i
    <3>1. a = 0 /\ k <= n2 /\ k <= n3 /\ k <= n4 /\ k \in 1..n2 /\ k \in 1..n3 /\ k \in 1..n4
          /\ k \in 1..l2 /\ k - a = k /\ k \in 1..Groups /\ ~(k <= a)
      BY <1>1, <1>11, <1>25, <2>1
    <3>2. t[k] = p2[k]
      BY <1>16, <1>18, <1>20, <1>22, <3>1 DEF Joins
    <3>3. QED
      BY <1>5, <1>12, <2>1, <3>1, <3>2
  <2>2. CASE k >= i /\ k <= i + c
    <3>1. CASE k <= a
      <4>1. k <= n2 /\ k <= n3 /\ k <= n4 /\ k \in 1..n2 /\ k \in 1..n3 /\ k \in 1..n4 /\ k \in 1..a
        BY <1>1, <1>25, <3>1
      <4>2. t[k] = p1[k]
        BY <1>16, <1>18, <1>20, <1>22, <3>1, <4>1 DEF Joins
      <4>3. QED
        BY <1>1, <1>8, <2>2, <4>1, <4>2
    <3>2. CASE ~(k <= a) /\ k <= n3
      <4>1. ~(k <= n2) /\ k - n2 = 1 /\ k <= n4 /\ k \in 1..n3 /\ k \in 1..n4
        BY <1>1, <1>25, <2>2, <3>2
      <4>2. t[k] = p3[1]
        BY <1>18, <1>20, <1>22, <3>2, <4>1 DEF Joins
      <4>3. QED
        BY <1>1, <1>10, <2>2, <4>2
    <3>3. CASE ~(k <= n3)
      <4>1. b = 1 /\ ~(k <= n4) /\ k - n4 \in 1..b
        BY <1>1, <1>24, <1>25, <2>2, <3>3
      <4>2. t[k] = p5[k - n4]
        BY <1>22, <4>1 DEF Joins
      <4>3. QED
        BY <1>1, <1>9, <2>2, <4>1, <4>2
    <3>4. QED
      BY <3>1, <3>2, <3>3
  <2>3. CASE k > i + c
    <3>1. b = 0 /\ k <= n4 /\ ~(k <= n3) /\ k \in 1..n4 /\ k - n3 \in 1..l4
          /\ (k - n3) + j = (k + (j - i)) - c /\ (k - n3) + j \in 1..Groups
      <4>1. n = (a + i) + (Groups - j) + b /\ k <= n /\ c = a + b /\ k \in Nat
        BY <1>21, <1>22, <1>24, <1>25
      <4>2. b = 0
        <5>1. CASE b = 1
          <6>1. j = Groups
            BY <1>25, <5>1
          <6>2. n = i + c
            BY <1>1, <1>25, <4>1, <6>1
          <6>3. QED
            BY <1>1, <1>25, <2>3, <4>1, <6>2
        <5>2. QED
          BY <1>25, <5>1
      <4>3. k <= n4 /\ k > n3 /\ c = a
        BY <1>1, <1>25, <2>3, <4>1, <4>2
      <4>4. k - n3 <= l4 /\ k - n3 >= 1 /\ (k - n3) + j = (k + (j - i)) - c
        BY <1>1, <1>13, <1>25, <4>1, <4>3
      <4>5. QED
        BY <1>1, <1>13, <1>18, <1>20, <4>1, <4>2, <4>3, <4>4
    <3>2. t[k] = p4[k - n3]
      BY <1>20, <1>22, <3>1 DEF Joins
    <3>3. t[k] = <<h[(k + (j - i)) - c]>>
      BY <1>5, <1>14, <3>1, <3>2
    <3>4. ~(k < i) /\ ~(k <= i + c)
      BY <1>1, <1>24, <1>25, <2>3
    <3>5. QED
      BY <3>3, <3>4
  <2>4. QED
    BY <1>1, <1>24, <1>25, <2>1, <2>2, <2>3
<1>27. t = [k \in 1..n |-> t[k]]
  BY <1>22
<1>28. QED
  BY <1>2, <1>23, <1>25, <1>26, <1>27 DEF Cut

\* The first l hextets of h, and how they are put together.
Upto(p, l, h) == Listing(p, l, Seq(Nat)) /\ l <= Groups /\ \A k \in 1..l : p[k] = <<h[k]>>
From(q, m, h, l) == Listing(q, m, Seq(Nat)) /\ l + m <= Groups /\ \A k \in 1..m : q[k] = <<h[k + l]>>

LEMMA Extended ==
  ASSUME NEW h, NEW p, NEW l, Upto(p, l, h), NEW q, NEW m, From(q, m, h, l)
  PROVE  Upto(p \o q, l + m, h)
<1>1. PICK v, n : v = p \o q /\ n = l + m
  OBVIOUS
<1>2. Listing(p, l, Seq(Nat)) /\ Listing(q, m, Seq(Nat)) /\ JoinOf(v, n, p, l, q, m)
  BY <1>1 DEF Upto, From, JoinOf
<1>3. Listing(v, n, Seq(Nat)) /\ Joins(v, n, p, l, q)
  BY <1>2, Joined
<1>4. l \in Nat /\ m \in Nat /\ n \in Nat /\ n <= Groups
  BY <1>1, <1>2, <1>3 DEF Listing, From
<1>5. ASSUME NEW k \in 1..n PROVE v[k] = <<h[k]>>
  <2>1. CASE k <= l
    <3>1. v[k] = p[k] /\ k \in 1..l
      BY <1>3, <1>4, <2>1 DEF Joins
    <3>2. QED
      BY <3>1 DEF Upto
  <2>2. CASE ~(k <= l)
    <3>1. k - l \in 1..m /\ (k - l) + l = k
      BY <1>1, <1>4, <2>2
    <3>2. v[k] = q[k - l]
      BY <1>3, <2>2 DEF Joins
    <3>3. QED
      BY <3>1, <3>2 DEF From
  <2>3. QED
    BY <2>1, <2>2
<1>6. QED
  BY <1>1, <1>3, <1>4, <1>5 DEF Upto

LEMMA UptoAll ==
  ASSUME NEW h \in [1..Groups -> Nat], NEW p, Upto(p, Groups, h)
  PROVE  p = Full(h)
<1>1. p = [k \in 1..Groups |-> p[k]]
  BY DEF Upto, Listing
<1>2. QED
  BY <1>1 DEF Upto, Full

LEMMA ZerosAre ==
  ASSUME NEW h \in [1..Groups -> Nat], NEW l \in Nat, NEW m \in Nat, l + m <= Groups,
         \A k \in (l + 1)..(l + m) : h[k] = 0
  PROVE  From(Zeros(m), m, h, l)
<1>1. Listing(Zeros(m), m, Seq(Nat)) /\ \A k \in 1..m : Zeros(m)[k] = <<0>>
  <2>1. <<0>> \in Seq(Nat)
    OBVIOUS
  <2>2. QED
    BY <2>1 DEF Zeros, Listing
<1>2. \A k \in 1..m : k + l \in (l + 1)..(l + m)
  OBVIOUS
<1>3. \A k \in 1..m : h[k + l] = 0
  BY <1>2
<1>4. QED
  BY <1>1, <1>3 DEF From

CutParts(t, h, i, j, n, c) ==
  /\ n \in Nat /\ n >= 1 /\ c \in 0..2 /\ n = (Groups - (j - i)) + c
  /\ i \in 1..n /\ i + c <= n /\ j \in i..Groups /\ Groups > 2 /\ Groups \in Nat
  /\ (j < Groups <=> i + c < n) /\ (i = 1 /\ j = Groups <=> c = 2)
  /\ (i # 1 /\ j # Groups <=> c = 0)
  /\ Listing(t, n, Seq(Nat)) /\ Len(t) = n /\ DOMAIN t = 1..n
  /\ \A k \in 1..n : /\ k < i => t[k] = <<h[k]>>
                     /\ k \in i..(i + c) => t[k] = Empty
                     /\ k > i + c => t[k] = <<h[(k + (j - i)) - c]>>
                     /\ t[k] = Empty <=> k \in i..(i + c)

LEMMA PartsOfCut ==
  ASSUME NEW h \in [1..Groups -> Nat], NEW i, NEW j, Run(h, i, j)
  PROVE  CutParts(Cut(h, i, j), h, i, j, Parts6(i, j), Ends(i, j))
<1>1. Groups \in Nat /\ Groups > 2 /\ i \in Nat /\ j \in Nat /\ i >= 1 /\ i <= j /\ j <= Groups
  BY Widths DEF Run
<1>2. PICK t, n, c : t = Cut(h, i, j) /\ n = Parts6(i, j) /\ c = Ends(i, j)
  OBVIOUS
<1>3. n \in Nat /\ c \in 0..2 /\ t \in [1..n -> Seq(Nat)] /\ n = (Groups - (j - i)) + c
  BY <1>2, CutIs DEF Parts6
<1>4. Listing(t, n, Seq(Nat)) /\ Len(t) = n /\ DOMAIN t = 1..n
  BY <1>3 DEF Listing
<1>5. (i = 1 /\ j = Groups <=> c = 2) /\ (i # 1 /\ j # Groups <=> c = 0)
  BY <1>1, <1>2 DEF Ends
<1>6. n >= 1 /\ i \in 1..n /\ i + c <= n /\ j \in i..Groups /\ (j < Groups <=> i + c < n)
  BY <1>1, <1>3
<1>7. ASSUME NEW k \in 1..n
      PROVE  /\ k < i => t[k] = <<h[k]>>
             /\ k \in i..(i + c) => t[k] = Empty
             /\ k > i + c => t[k] = <<h[(k + (j - i)) - c]>>
             /\ t[k] = Empty <=> k \in i..(i + c)
  <2>1. t[k] = IF k < i THEN <<h[k]>> ELSE IF k <= i + c THEN Empty ELSE <<h[(k + (j - i)) - c]>>
    BY <1>2 DEF Cut
  <2>2. <<h[k]>> # Empty /\ <<h[(k + (j - i)) - c]>> # Empty
    BY DEF Empty
  <2>3. k \in Nat /\ (k < i \/ k \in i..(i + c) \/ k > i + c) /\ (k > i + c => ~(k < i) /\ ~(k <= i + c))
        /\ (k \in i..(i + c) => ~(k < i) /\ k <= i + c)
    BY <1>1, <1>3
  <2>4. QED
    BY <2>1, <2>2, <2>3
<1>8. QED
  BY <1>1, <1>2, <1>3, <1>4, <1>5, <1>6, <1>7 DEF CutParts

LEMMA ShortWords ==
  ASSUME NEW h \in [1..Groups -> Nat], NEW i, NEW j, NEW t, NEW n, NEW c, CutParts(t, h, i, j, n, c)
  PROVE  /\ \A k \in 1..n : t[k] = Empty \/ \E x \in Nat : t[k] = <<x>>
         /\ Last(t) = t[n] /\ ~HasQuad(t) /\ ExpandIPv4Mapped(t) = t
<1>1. ASSUME NEW k \in 1..n PROVE t[k] = Empty \/ \E x \in Nat : t[k] = <<x>>
  <2>1. n \in Nat /\ i \in 1..n /\ j \in i..Groups /\ c \in 0..2 /\ n = (Groups - (j - i)) + c
        /\ Groups \in Nat /\ j \in Nat /\ i + c <= n
    BY DEF CutParts
  <2>2. CASE k < i
    <3>1. k \in 1..Groups
      BY <2>1, <2>2
    <3>2. h[k] \in Nat /\ t[k] = <<h[k]>>
      BY <2>2, <3>1 DEF CutParts
    <3>3. QED
      BY <3>2
  <2>3. CASE k \in i..(i + c)
    BY <2>3 DEF CutParts
  <2>4. CASE k > i + c
    <3>1. (k + (j - i)) - c \in 1..Groups
      BY <2>1, <2>4
    <3>2. h[(k + (j - i)) - c] \in Nat /\ t[k] = <<h[(k + (j - i)) - c]>>
      BY <2>4, <3>1 DEF CutParts
    <3>3. QED
      BY <3>2
  <2>5. QED
    BY <2>1, <2>2, <2>3, <2>4
<1>2. Last(t) = t[n] /\ n \in 1..n
  BY DEF Last, CutParts
<1>3. Len(Last(t)) # 4
  <2>1. t[n] = Empty \/ \E x \in Nat : t[n] = <<x>>
    BY <1>1, <1>2
  <2>2. CASE t[n] = Empty
    BY <1>2, <2>2 DEF Empty
  <2>3. CASE \E x \in Nat : t[n] = <<x>>
    BY <1>2, <2>3
  <2>4. QED
    BY <2>1, <2>2, <2>3
<1>4. QED
  BY <1>1, <1>2, <1>3 DEF HasQuad, ExpandIPv4Mapped

LEMMA HeadOfCut ==
  ASSUME NEW h, NEW i, NEW j, NEW t, NEW n, NEW c, CutParts(t, h, i, j, n, c)
  PROVE  Upto(SubSeq(t, 1, i - 1), i - 1, h)
<1>1. PICK v, m, a, b : v = SubSeq(t, 1, i - 1) /\ m = i - 1 /\ a = 1 /\ b = i - 1
  OBVIOUS
<1>2. n \in Nat /\ i \in 1..n /\ i <= Groups /\ Groups \in Nat /\ Listing(t, n, Seq(Nat))
  <2>1. j \in i..Groups /\ i \in 1..n /\ n \in Nat /\ Groups \in Nat
    BY DEF CutParts
  <2>2. QED
    BY <2>1 DEF CutParts
<1>3. v = SubSeq(t, a, b) /\ m = (b - a) + 1 /\ a \in 1..(n + 1) /\ b \in 0..n /\ a <= b + 1
  BY <1>1, <1>2
<1>4. PieceOf(v, m, t, n, a, b)
  BY <1>3 DEF PieceOf
<1>5. Listing(v, m, Seq(Nat)) /\ Taken(v, m, t, a)
  BY <1>2, <1>4, Piece
<1>6. ASSUME NEW k \in 1..m PROVE v[k] = <<h[k]>>
  <2>1. (k + a) - 1 = k /\ k \in 1..n /\ k < i
    BY <1>1, <1>2
  <2>2. v[k] = t[k]
    BY <1>5, <2>1 DEF Taken
  <2>3. QED
    BY <2>1, <2>2 DEF CutParts
<1>7. m <= Groups
  BY <1>1, <1>2
<1>8. QED
  BY <1>1, <1>5, <1>6, <1>7 DEF Upto

LEMMA TailOfCut ==
  ASSUME NEW h, NEW i, NEW j, NEW t, NEW n, NEW c, CutParts(t, h, i, j, n, c),
         NEW a, a = (i + c) + 1
  PROVE  From(SubSeq(t, a, n), Groups - j, h, j)
<1>1. PICK v, m : v = SubSeq(t, a, n) /\ m = Groups - j
  OBVIOUS
<1>2. /\ n \in Nat /\ i \in 1..n /\ Groups \in Nat /\ c \in 0..2 /\ i + c <= n
      /\ n = (Groups - (j - i)) + c /\ j \in i..Groups
  BY DEF CutParts
<1>3. j \in Nat /\ i \in Nat /\ c \in Nat
  BY <1>2
<1>4. m = (n - a) + 1 /\ a \in 1..(n + 1) /\ n \in 0..n /\ a <= n + 1
  BY <1>1, <1>2, <1>3
<1>5. PieceOf(v, m, t, n, a, n) /\ Listing(t, n, Seq(Nat))
  BY <1>1, <1>4 DEF PieceOf, CutParts
<1>6. Listing(v, m, Seq(Nat)) /\ Taken(v, m, t, a)
  BY <1>5, Piece
<1>7. ASSUME NEW k \in 1..m PROVE v[k] = <<h[k + j]>>
  <2>1. PICK l : l = (k + a) - 1
    OBVIOUS
  <2>2. l \in 1..n /\ l > i + c /\ (l + (j - i)) - c = k + j
    BY <1>1, <1>2, <1>3, <2>1
  <2>3. v[k] = t[l]
    BY <1>6, <2>1 DEF Taken
  <2>4. t[l] = <<h[(l + (j - i)) - c]>>
    BY <2>2 DEF CutParts
  <2>5. QED
    BY <2>2, <2>3, <2>4
<1>8. m + j <= Groups
  BY <1>1, <1>2, <1>3
<1>9. j + m <= Groups
  BY <1>1, <1>2, <1>3
<1>10. QED
  BY <1>1, <1>6, <1>7, <1>9 DEF From

LEMMA HextetsOfCut ==
  ASSUME NEW h \in [1..Groups -> Nat], NEW i, NEW j, Run(h, i, j), NEW t, NEW n, NEW c,
         CutParts(t, h, i, j, n, c)
  PROVE  Hextets(t) = Full(h)
<1>1. ExpandIPv4Mapped(t) = t
  BY ShortWords
<1>2. /\ n \in Nat /\ i \in 1..n /\ Groups \in Nat /\ c \in 0..2 /\ i + c <= n /\ n >= 1
      /\ n = (Groups - (j - i)) + c /\ j \in i..Groups /\ Len(t) = n /\ DOMAIN t = 1..n
      /\ (i = 1 /\ j = Groups <=> c = 2) /\ (i # 1 /\ j # Groups <=> c = 0)
      /\ \A k \in 1..n : t[k] = Empty <=> k \in i..(i + c)
  BY DEF CutParts
<1>3. i \in Nat /\ j \in Nat /\ c \in Nat /\ i >= 1 /\ i <= j /\ j <= Groups /\ 1 \in 1..n /\ n \in 1..n
      /\ (t[1] = Empty <=> i = 1) /\ (t[n] = Empty <=> j = Groups)
  <2>1. i \in Nat /\ j \in Nat /\ c \in Nat /\ i >= 1 /\ i <= j /\ j <= Groups /\ 1 \in 1..n /\ n \in 1..n
    BY <1>2
  <2>2. t[1] = Empty <=> i = 1
    BY <1>2, <2>1
  <2>3. t[n] = Empty <=> j = Groups
    BY <1>2, <2>1
  <2>4. QED
    BY <2>1, <2>2, <2>3
<1>4. Empty \in ToSet(t)
  <2>1. i \in 1..n /\ t[i] = Empty
    BY <1>2, <1>3
  <2>2. QED
    BY <1>2, <2>1 DEF ToSet
<1>5. \A k \in i..j : h[k] = 0
  BY DEF Run
<1>6. PICK m : m = (j - i) + 1
  OBVIOUS
<1>7. m \in Nat /\ (i - 1) \in Nat /\ (i - 1) + m = j
  BY <1>3, <1>6
<1>8. From(Zeros(m), m, h, i - 1)
  <2>1. PICK l : l = i - 1
    OBVIOUS
  <2>2. l \in Nat /\ l + m <= Groups /\ \A k \in (l + 1)..(l + m) : k \in i..j
    BY <1>3, <1>7, <2>1
  <2>3. From(Zeros(m), m, h, l)
    BY <1>5, <1>7, <2>2, ZerosAre
  <2>4. QED
    BY <2>1, <2>3
<1>9. CASE i = 1 /\ j = Groups
  <2>1. t = <<Empty, Empty, Empty>>
    <3>1. n = 3
      BY <1>2, <1>3, <1>9
    <3>2. t \in [1..3 -> Seq(Nat)] /\ t[1] = Empty /\ t[2] = Empty /\ t[3] = Empty
      <4>1. c = 2
        BY <1>2, <1>9
      <4>2. 1 \in i..(i + c) /\ 2 \in i..(i + c) /\ 3 \in i..(i + c)
        BY <1>9, <4>1
      <4>3. t \in [1..n -> Seq(Nat)]
        BY DEF CutParts, Listing
      <4>4. QED
        BY <1>2, <3>1, <4>2, <4>3
    <3>3. QED
      BY <3>2
  <2>2. Hextets(t) = Zeros(Groups)
    BY <1>1, <1>3, <1>4, <1>9, <2>1 DEF Hextets
  <2>3. Upto(Zeros(Groups), Groups, h)
    <3>1. m = Groups /\ i - 1 = 0
      BY <1>3, <1>6, <1>9
    <3>2. From(Zeros(Groups), Groups, h, 0)
      BY <1>8, <3>1
    <3>3. \A k \in 1..Groups : k + 0 = k
      BY <1>2
    <3>4. QED
      BY <1>2, <3>2, <3>3 DEF From, Upto
  <2>4. QED
    BY <2>2, <2>3, UptoAll
<1>10. CASE i = 1 /\ j # Groups
  <2>1. c = 1 /\ (Groups + 2) - n = j /\ m = j /\ i - 1 = 0 /\ 3 = (i + c) + 1
    BY <1>2, <1>3, <1>6, <1>10
  <2>2. t # <<Empty, Empty, Empty>>
    BY <1>2, <1>3, <1>10
  <2>3. Hextets(t) = Zeros(j) \o SubSeq(t, 3, n)
    <3>1. Hextets(t) = Zeros(Groups + 2 - n) \o SubSeq(t, 3, n)
      BY <1>1, <1>2, <1>3, <1>4, <1>10, <2>2 DEF Hextets
    <3>2. Groups + 2 - n = j
      BY <1>2, <1>3, <2>1
    <3>3. QED
      BY <3>1, <3>2
  <2>4. Upto(Zeros(j), j, h)
    <3>1. From(Zeros(j), j, h, 0)
      BY <1>8, <2>1
    <3>2. \A k \in 1..j : k + 0 = k
      BY <1>3
    <3>3. QED
      BY <1>3, <3>1, <3>2 DEF From, Upto
  <2>5. From(SubSeq(t, 3, n), Groups - j, h, j)
    BY <2>1, TailOfCut
  <2>6. Upto(Zeros(j) \o SubSeq(t, 3, n), j + (Groups - j), h)
    BY <2>4, <2>5, Extended
  <2>7. j + (Groups - j) = Groups
    BY <1>2, <1>3
  <2>8. QED
    BY <2>3, <2>6, <2>7, UptoAll
<1>11. CASE i # 1 /\ j = Groups
  <2>1. c = 1 /\ (Groups + 2) - n = m /\ n - 2 = i - 1
    BY <1>2, <1>3, <1>6, <1>11
  <2>2. t # <<Empty, Empty, Empty>>
    BY <1>2, <1>3, <1>11
  <2>3. Hextets(t) = SubSeq(t, 1, i - 1) \o Zeros(m)
    <3>1. Hextets(t) = SubSeq(t, 1, n - 2) \o Zeros(Groups + 2 - n)
      BY <1>1, <1>2, <1>3, <1>4, <1>11, <2>2 DEF Hextets
    <3>2. Groups + 2 - n = m
      BY <1>2, <1>3, <1>7, <2>1
    <3>3. QED
      BY <2>1, <3>1, <3>2
  <2>4. Upto(SubSeq(t, 1, i - 1), i - 1, h)
    BY HeadOfCut
  <2>5. Upto(SubSeq(t, 1, i - 1) \o Zeros(m), (i - 1) + m, h)
    BY <1>8, <2>4, Extended
  <2>6. (i - 1) + m = Groups
    BY <1>7, <1>11
  <2>7. QED
    BY <2>3, <2>5, <2>6, UptoAll
<1>12. CASE i # 1 /\ j # Groups
  <2>1. c = 0 /\ (Groups + 1) - n = m /\ i + 1 = (i + c) + 1 /\ i + c = i
    BY <1>2, <1>3, <1>6, <1>12
  <2>2. t # <<Empty, Empty, Empty>>
    BY <1>2, <1>3, <1>12
  <2>3. PICK x : x = CHOOSE k \in DOMAIN t : t[k] = Empty /\ \A l \in 1..(k - 1) : t[l] # Empty
    OBVIOUS
  <2>4. x = i
    <3>1. i \in DOMAIN t /\ t[i] = Empty /\ \A l \in 1..(i - 1) : t[l] # Empty
      <4>1. \A l \in 1..(i - 1) : l \in 1..n /\ ~(l \in i..(i + c))
        BY <1>2, <1>3
      <4>2. i \in i..(i + c)
        BY <1>3
      <4>3. QED
        BY <1>2, <4>1, <4>2
    <3>2. x \in DOMAIN t /\ t[x] = Empty
      BY <2>3, <3>1
    <3>3. x \in 1..n /\ x \in i..(i + c)
      BY <1>2, <3>2
    <3>4. QED
      BY <1>3, <2>1, <3>3
  <2>5. Hextets(t) = SubSeq(t, 1, x - 1) \o Zeros(Groups + 1 - n) \o SubSeq(t, x + 1, n)
    BY <1>1, <1>2, <1>3, <1>4, <1>12, <2>2, <2>3 DEF Hextets
  <2>6. Groups + 1 - n = m
    BY <1>2, <1>3, <1>7, <2>1
  <2>7. Hextets(t) = (SubSeq(t, 1, i - 1) \o Zeros(m)) \o SubSeq(t, i + 1, n)
    BY <2>4, <2>5, <2>6
  <2>8. Upto(SubSeq(t, 1, i - 1) \o Zeros(m), j, h)
    <3>1. Upto(SubSeq(t, 1, i - 1), i - 1, h)
      BY HeadOfCut
    <3>2. Upto(SubSeq(t, 1, i - 1) \o Zeros(m), (i - 1) + m, h)
      BY <1>8, <3>1, Extended
    <3>3. QED
      BY <1>7, <3>2
  <2>9. From(SubSeq(t, i + 1, n), Groups - j, h, j)
    BY <2>1, TailOfCut
  <2>10. Upto((SubSeq(t, 1, i - 1) \o Zeros(m)) \o SubSeq(t, i + 1, n), j + (Groups - j), h)
    BY <2>8, <2>9, Extended
  <2>11. j + (Groups - j) = Groups
    BY <1>2, <1>3
  <2>12. QED
    BY <2>7, <2>10, <2>11, UptoAll
<1>13. QED
  BY <1>9, <1>10, <1>11, <1>12

-----------------------------------------------------------------------------
\* The ways to write an address.

LEMMA WrittenIs ==
  ASSUME NEW h \in [1..Groups -> Nat], NEW t
  PROVE  t \in Written(h) <=> t = Full(h) \/ \E i, j : Run(h, i, j) /\ t = Cut(h, i, j)
<1>1. ASSUME NEW i, NEW j
      PROVE  <<i, j>> \in ZeroRuns(h) <=> Run(h, i, j)
  BY DEF ZeroRuns, Run
<1>2. ASSUME t \in Written(h), t # Full(h)
      PROVE  \E i, j : Run(h, i, j) /\ t = Cut(h, i, j)
  <2>1. PICK r \in ZeroRuns(h) : t = Collapsed(h, r[1], r[2])
    BY <1>2 DEF Written
  <2>2. PICK i, j : r = <<i, j>>
    BY DEF ZeroRuns
  <2>3. Run(h, i, j) /\ t = Collapsed(h, i, j)
    BY <1>1, <2>1, <2>2
  <2>4. QED
    BY <2>3, CollapsedIs
<1>3. ASSUME NEW i, NEW j, Run(h, i, j), t = Cut(h, i, j)
      PROVE  t \in Written(h)
  <2>1. t = Collapsed(h, i, j) /\ <<i, j>> \in ZeroRuns(h)
    BY <1>1, <1>3, CollapsedIs
  <2>2. PICK r : r = <<i, j>>
    OBVIOUS
  <2>3. r \in ZeroRuns(h) /\ t = Collapsed(h, r[1], r[2])
    BY <2>1, <2>2
  <2>4. QED
    BY <2>3 DEF Written
<1>4. Full(h) \in Written(h)
  BY DEF Written
<1>5. QED
  BY <1>2, <1>3, <1>4

Quad(v, u, n) ==
  /\ Listing(v, n - 1, Seq(Nat)) /\ Len(v) = n - 1 /\ DOMAIN v = 1..(n - 1)
  /\ \A k \in 1..(n - 2) : v[k] = u[k]
  /\ v[n - 1] # Empty /\ Last(v) = v[n - 1] /\ HasQuad(v)

LEMMA QuadIs ==
  ASSUME NEW u, NEW n, Listing(u, n, Seq(Nat)), n > 2,
         NEW x \in Nat, u[n - 1] = <<x>>, NEW y \in Nat, u[n] = <<y>>
  PROVE  Quad(WithQuad(u), u, n) /\ ExpandIPv4Mapped(WithQuad(u)) = u
<1>1. n \in Nat /\ u \in [1..n -> Seq(Nat)] /\ Len(u) = n
  BY DEF Listing
<1>2. PICK P, x1, x2, y1, y2 : /\ P = Pow2(OctetBits) /\ x1 = x \div P /\ x2 = x % P
                               /\ y1 = y \div P /\ y2 = y % P
  OBVIOUS
<1>3. P \in Nat /\ P > 0
  BY <1>2, Widths, PowPositive
<1>4. x1 \in Nat /\ x2 \in Nat /\ y1 \in Nat /\ y2 \in Nat /\ x1 * P + x2 = x /\ y1 * P + y2 = y
  <2>1. x1 \in Nat /\ x2 \in Nat /\ x = (P * x1) + x2
    BY <1>2, <1>3, DivMod
  <2>2. y1 \in Nat /\ y2 \in Nat /\ y = (P * y1) + y2
    BY <1>2, <1>3, DivMod
  <2>3. P * x1 = x1 * P /\ P * y1 = y1 * P
    BY <1>3, <2>1, <2>2
  <2>4. QED
    BY <2>1, <2>2, <2>3
<1>5. PICK p, q, m : p = SubSeq(u, 1, n - 2) /\ q = <<x1, x2, y1, y2>> /\ m = n - 2
  OBVIOUS
<1>6. m \in Nat /\ m >= 1 /\ m + 1 = n - 1
  BY <1>1, <1>5
<1>7. q \in Seq(Nat) /\ Len(q) = 4 /\ q # Empty
      /\ q[1] = x1 /\ q[2] = x2 /\ q[3] = y1 /\ q[4] = y2
  BY <1>4, <1>5 DEF Empty
<1>8. PICK v : v = WithQuad(u)
  OBVIOUS
<1>9. v = p \o <<q>>
  <2>1. u[n - 1][1] = x /\ u[n][1] = y
    OBVIOUS
  <2>2. <<x1, x2>> \o <<y1, y2>> = q
    <3>1. PICK a, b, c : a = <<x1, x2>> /\ b = <<y1, y2>> /\ c = a \o b
      OBVIOUS
    <3>2. a \in [1..2 -> Nat] /\ b \in [1..2 -> Nat]
      BY <1>4, <3>1
    <3>3. Listing(a, 2, Nat) /\ Listing(b, 2, Nat) /\ JoinOf(c, 4, a, 2, b, 2)
      BY <3>1, <3>2 DEF Listing, JoinOf
    <3>4. Listing(c, 4, Nat) /\ Joins(c, 4, a, 2, b)
      BY <3>3, Joined
    <3>5. c[1] = a[1] /\ c[2] = a[2] /\ c[3] = b[1] /\ c[4] = b[2]
      BY <3>4 DEF Joins
    <3>6. c = [k \in 1..4 |-> c[k]]
      BY <3>4 DEF Listing
    <3>7. c = q
      <4>1. q \in [1..4 -> Nat]
        BY <1>4, <1>5
      <4>2. q = [k \in 1..4 |-> q[k]]
        BY <4>1
      <4>3. \A k \in 1..4 : k = 1 \/ k = 2 \/ k = 3 \/ k = 4
        OBVIOUS
      <4>4. c[1] = q[1] /\ c[2] = q[2] /\ c[3] = q[3] /\ c[4] = q[4]
        BY <1>5, <3>1, <3>5
      <4>5. \A k \in 1..4 : c[k] = q[k]
        BY <4>3, <4>4
      <4>6. QED
        BY <3>6, <4>2, <4>5
    <3>8. QED
      BY <3>1, <3>7
  <2>3. QED
    BY <1>1, <1>2, <1>5, <1>8, <2>1, <2>2 DEF WithQuad
<1>10. Listing(p, m, Seq(Nat)) /\ Taken(p, m, u, 1)
  <2>1. PICK a : a = 1
    OBVIOUS
  <2>2. m = (m - a) + 1 /\ a \in 1..(n + 1) /\ m \in 0..n /\ a <= m + 1 /\ p = SubSeq(u, a, m)
    BY <1>1, <1>5, <1>6, <2>1
  <2>3. PieceOf(p, m, u, n, a, m)
    BY <2>2 DEF PieceOf
  <2>4. QED
    BY <2>1, <2>3, Piece
<1>11. \A k \in 1..m : p[k] = u[k]
  <2>1. \A k \in 1..m : (k + 1) - 1 = k
    BY <1>6
  <2>2. QED
    BY <1>10, <2>1 DEF Taken
<1>12. Listing(v, m + 1, Seq(Nat)) /\ Joins(v, m + 1, p, m, <<q>>)
  <2>1. Listing(<<q>>, 1, Seq(Nat))
    BY <1>7 DEF Listing
  <2>2. JoinOf(v, m + 1, p, m, <<q>>, 1)
    BY <1>9 DEF JoinOf
  <2>3. QED
    BY <1>10, <2>1, <2>2, Joined
<1>13. \A k \in 1..m : v[k] = u[k]
  <2>1. \A k \in 1..m : k \in 1..(m + 1) /\ k <= m
    BY <1>6
  <2>2. \A k \in 1..m : v[k] = p[k]
    BY <1>12, <2>1 DEF Joins
  <2>3. QED
    BY <1>11, <2>2
<1>14. v[m + 1] = q
  <2>1. m + 1 \in 1..(m + 1) /\ ~(m + 1 <= m) /\ (m + 1) - m = 1
    BY <1>6
  <2>2. v[m + 1] = <<q>>[(m + 1) - m]
    BY <1>12, <2>1 DEF Joins
  <2>3. QED
    BY <2>1, <2>2
<1>15. v \in [1..(m + 1) -> Seq(Nat)] /\ Len(v) = m + 1 /\ DOMAIN v = 1..(m + 1)
  <2>1. m + 1 \in Nat /\ v \in [1..(m + 1) -> Seq(Nat)]
    BY <1>12 DEF Listing
  <2>2. QED
    BY <2>1
<1>16. Last(v) = q /\ HasQuad(v)
  BY <1>7, <1>14, <1>15 DEF Last, HasQuad
<1>17. Quad(v, u, n)
  BY <1>5, <1>6, <1>7, <1>12, <1>13, <1>14, <1>15, <1>16 DEF Quad
<1>18. Front(v) = p
  <2>1. PICK g, a : g = SubSeq(v, 1, Len(v) - 1) /\ a = 1
    OBVIOUS
  <2>2. m = (m - a) + 1 /\ a \in 1..((m + 1) + 1) /\ m \in 0..(m + 1) /\ a <= m + 1
        /\ g = SubSeq(v, a, m)
    <3>1. Len(v) - 1 = m
      BY <1>6, <1>15
    <3>2. QED
      BY <1>6, <2>1, <3>1
  <2>3. PieceOf(g, m, v, m + 1, a, m)
    BY <2>2 DEF PieceOf
  <2>4. Listing(g, m, Seq(Nat)) /\ Taken(g, m, v, a)
    BY <1>12, <2>3, Piece
  <2>5. \A k \in 1..m : (k + a) - 1 = k
    BY <1>6, <2>1
  <2>6. \A k \in 1..m : g[k] = p[k]
    BY <1>11, <1>13, <2>4, <2>5 DEF Taken
  <2>7. g \in [1..m -> Seq(Nat)] /\ p \in [1..m -> Seq(Nat)]
    BY <1>10, <2>4 DEF Listing
  <2>8. g = p
    <3>1. g = [k \in 1..m |-> g[k]] /\ p = [k \in 1..m |-> p[k]]
      BY <2>7
    <3>2. QED
      BY <2>6, <3>1
  <2>9. QED
    BY <2>1, <2>8 DEF Front
<1>19. PICK z : z = <<u[n - 1], u[n]>>
  OBVIOUS
<1>20. Listing(z, 2, Seq(Nat)) /\ z[1] = u[n - 1] /\ z[2] = u[n]
  <2>1. u[n - 1] \in Seq(Nat) /\ u[n] \in Seq(Nat)
    OBVIOUS
  <2>2. PICK a, b : a = u[n - 1] /\ b = u[n]
    OBVIOUS
  <2>3. z = <<a, b>> /\ a \in Seq(Nat) /\ b \in Seq(Nat)
    BY <1>19, <2>1, <2>2
  <2>4. z \in [1..2 -> Seq(Nat)] /\ z[1] = a /\ z[2] = b
    BY <2>3
  <2>5. QED
    BY <2>2, <2>4 DEF Listing
<1>21. ExpandIPv4Mapped(v) = p \o z
  <2>1. << <<q[1] * P + q[2]>>, <<q[3] * P + q[4]>> >> = z
    BY <1>4, <1>7, <1>19
  <2>2. QED
    BY <1>2, <1>16, <1>18, <2>1 DEF ExpandIPv4Mapped
<1>22. PICK w : w = p \o z
  OBVIOUS
<1>23. Listing(w, n, Seq(Nat)) /\ Joins(w, n, p, m, z)
  <2>1. n = m + 2
    BY <1>1, <1>5
  <2>2. JoinOf(w, n, p, m, z, 2)
    BY <1>22, <2>1 DEF JoinOf
  <2>3. QED
    BY <1>10, <1>20, <2>2, Joined
<1>24. ASSUME NEW k \in 1..n PROVE w[k] = u[k]
  <2>1. CASE k <= m
    BY <1>6, <1>11, <1>23, <2>1 DEF Joins
  <2>2. CASE k = n - 1
    <3>1. ~(k <= m) /\ k - m = 1
      BY <1>1, <1>5, <2>2
    <3>2. w[k] = z[k - m]
      BY <1>23, <3>1 DEF Joins
    <3>3. QED
      BY <1>20, <2>2, <3>1, <3>2
  <2>3. CASE k = n
    <3>1. ~(k <= m) /\ k - m = 2
      BY <1>1, <1>5, <2>3
    <3>2. w[k] = z[k - m]
      BY <1>23, <3>1 DEF Joins
    <3>3. QED
      BY <1>20, <2>3, <3>1, <3>2
  <2>4. QED
    BY <1>1, <1>5, <2>1, <2>2, <2>3
<1>25. w = u
  BY <1>1, <1>23, <1>24 DEF Listing
<1>26. QED
  BY <1>8, <1>17, <1>21, <1>22, <1>25

-----------------------------------------------------------------------------
\* The longest run of zeros.

RunRecords == [start : Int, len : Int, best : Int, bestLen : Int]
NoRun == [start |-> 0, len |-> 0, best |-> 0, bestLen |-> 0]

Visited(hextets, r, i) ==
  IF hextets[i] # <<0>> THEN [r EXCEPT !.start = 0, !.len = 0]
  ELSE LET longer == [r EXCEPT !.start = IF @ = 0 THEN i ELSE @, !.len = @ + 1]
       IN  IF longer.len > longer.bestLen
           THEN [longer EXCEPT !.bestLen = longer.len, !.best = longer.start]
           ELSE longer

Longer(r, i) == [start |-> IF r.start = 0 THEN i ELSE r.start, len |-> r.len + 1,
                 best |-> r.best, bestLen |-> r.bestLen]

LEMMA VisitedIs ==
  ASSUME NEW hextets, NEW r \in RunRecords, NEW i \in Int
  PROVE  /\ Visited(hextets, r, i) \in RunRecords
         /\ hextets[i] # <<0>> => Visited(hextets, r, i)
              = [start |-> 0, len |-> 0, best |-> r.best, bestLen |-> r.bestLen]
         /\ hextets[i] = <<0>> => Visited(hextets, r, i)
              = IF r.len + 1 > r.bestLen
                THEN [Longer(r, i) EXCEPT !.bestLen = r.len + 1, !.best = Longer(r, i).start]
                ELSE Longer(r, i)
<1>1. PICK q : q = Longer(r, i)
  OBVIOUS
<1>2. q \in RunRecords /\ q.len = r.len + 1 /\ q.bestLen = r.bestLen
  BY <1>1 DEF Longer, RunRecords
<1>3. PICK g : g = [r EXCEPT !.start = IF @ = 0 THEN i ELSE @, !.len = @ + 1]
  OBVIOUS
<1>7. PICK a, b, c, d : r = [start |-> a, len |-> b, best |-> c, bestLen |-> d]
  BY DEF RunRecords
<1>8. r.start = a /\ r.len = b /\ r.best = c /\ r.bestLen = d
  BY <1>7
<1>9. g = q
  <2>1. PICK x, y : x = (IF a = 0 THEN i ELSE a) /\ y = b + 1
    OBVIOUS
  <2>2. g = [r EXCEPT !.start = x, !.len = y]
    BY <1>3, <1>8, <2>1
  <2>3. g = [start |-> x, len |-> y, best |-> c, bestLen |-> d]
    BY <1>7, <2>2
  <2>4. q = [start |-> x, len |-> y, best |-> c, bestLen |-> d]
    BY <1>1, <1>8, <2>1 DEF Longer
  <2>5. QED
    BY <2>3, <2>4
<1>4. CASE hextets[i] # <<0>>
  <2>1. Visited(hextets, r, i) = [r EXCEPT !.start = 0, !.len = 0]
    BY <1>4 DEF Visited
  <2>2. [r EXCEPT !.start = 0, !.len = 0]
          = [start |-> 0, len |-> 0, best |-> r.best, bestLen |-> r.bestLen]
    <3>0. PICK x, v : x = 0 /\ v = [r EXCEPT !.start = x, !.len = x]
      OBVIOUS
    <3>1. v = [start |-> x, len |-> x, best |-> c, bestLen |-> d]
      BY <1>7, <3>0
    <3>2. QED
      BY <1>8, <3>0, <3>1
  <2>3. [start |-> 0, len |-> 0, best |-> r.best, bestLen |-> r.bestLen] \in RunRecords
    BY DEF RunRecords
  <2>4. QED
    BY <1>4, <2>1, <2>2, <2>3
<1>5. CASE hextets[i] = <<0>>
  <2>1. Visited(hextets, r, i) = IF q.len > q.bestLen
                                 THEN [q EXCEPT !.bestLen = q.len, !.best = q.start] ELSE q
    <3>1. Visited(hextets, r, i) = IF g.len > g.bestLen
                                   THEN [g EXCEPT !.bestLen = g.len, !.best = g.start] ELSE g
      BY <1>3, <1>5 DEF Visited
    <3>2. QED
      BY <1>9, <3>1
  <2>2. [q EXCEPT !.bestLen = q.len, !.best = q.start] \in RunRecords
    BY <1>2 DEF RunRecords
  <2>3. QED
    BY <1>1, <1>2, <1>5, <2>1, <2>2
<1>6. QED
  BY <1>4, <1>5

IsRuns(f, hextets, n) ==
  f = [k \in 0..n |-> IF k = 0 THEN NoRun ELSE Visited(hextets, f[k - 1], k)]

LEMMA RunsAre ==
  ASSUME NEW hextets, NEW n \in Nat, Len(hextets) = n
  PROVE  \E f : IsRuns(f, hextets, n) /\ BestRun(hextets) = f[n]
<1>1. PICK step : step = [k \in 1..n |-> [r \in RunRecords |-> Visited(hextets, r, k)]]
  OBVIOUS
<1>2. step \in [1..n -> [RunRecords -> RunRecords]]
  <2>1. \A k \in 1..n : \A r \in RunRecords : Visited(hextets, r, k) \in RunRecords
    <3>1. ASSUME NEW k \in 1..n, NEW r \in RunRecords PROVE Visited(hextets, r, k) \in RunRecords
      <4>1. k \in Int
        OBVIOUS
      <4>2. QED
        BY <4>1, VisitedIs
    <3>2. QED
      BY <3>1
  <2>2. QED
    BY <1>1, <2>1
<1>3. NoRun \in RunRecords
  BY DEF NoRun, RunRecords
<1>4. PICK f : Iterated(f, NoRun, step, RunRecords, n)
  <2>1. PICK S, c : S = RunRecords /\ c = NoRun
    OBVIOUS
  <2>2. c \in S /\ step \in [1..n -> [S -> S]]
    BY <1>2, <1>3, <2>1
  <2>3. \E f : Iterated(f, c, step, S, n)
    BY ONLY n \in Nat, <2>2, Iterates
  <2>4. QED
    BY <2>1, <2>3
<1>5. f = [k \in 0..n |-> IF k = 0 THEN NoRun ELSE Visited(hextets, f[k - 1], k)]
  <2>1. \A k \in 1..n : f[k - 1] \in RunRecords
    BY <1>4 DEF Iterated
  <2>2. \A k \in 1..n : f[k] = Visited(hextets, f[k - 1], k)
    BY <1>1, <1>4, <2>1 DEF Iterated
  <2>3. QED
    BY <1>4, <2>2 DEF Iterated
<1> DEFINE F == CHOOSE g : g = [k \in 0..Len(hextets) |->
                                  IF k = 0 THEN NoRun ELSE Visited(hextets, g[k - 1], k)]
<1>6. F = [k \in 0..Len(hextets) |-> IF k = 0 THEN NoRun ELSE Visited(hextets, F[k - 1], k)]
  BY <1>5
<1>7. BestRun(hextets) = F[Len(hextets)]
  BY DEF BestRun, NoRun, Visited
<1> HIDE DEF F
<1>8. QED
  BY <1>6, <1>7 DEF IsRuns

\* What is known of the runs among the first k hextets.
RunsKnown(r, k, h) ==
  /\ r \in RunRecords /\ r.len \in 0..k /\ r.bestLen \in 0..k /\ r.len <= r.bestLen
  /\ r.start = IF r.len = 0 THEN 0 ELSE (k - r.len) + 1
  /\ \A l \in ((k - r.len) + 1)..k : h[l] = 0
  /\ k - r.len >= 1 => h[k - r.len] # 0
  /\ r.bestLen > 0 => Run(h, r.best, (r.best + r.bestLen) - 1)
  /\ \A i, j : Run(h, i, j) /\ j <= k => (j - i) + 1 <= r.bestLen

LEMMA RunsStep ==
  ASSUME NEW h \in [1..Groups -> Nat], NEW k \in Nat, k + 1 <= Groups,
         NEW r, RunsKnown(r, k, h), NEW hextets, hextets[k + 1] = <<h[k + 1]>>
  PROVE  RunsKnown(Visited(hextets, r, k + 1), k + 1, h)
<1>1. PICK n, q : n = k + 1 /\ q = Visited(hextets, r, k + 1)
  OBVIOUS
<1>2. Groups \in Nat /\ n \in 1..Groups /\ n \in Int /\ h[n] \in Nat
  BY <1>1, Widths
<1>3. r \in RunRecords /\ r.len \in 0..k /\ r.bestLen \in 0..k /\ r.len <= r.bestLen
      /\ r.start = (IF r.len = 0 THEN 0 ELSE (k - r.len) + 1) /\ r.best \in Int
  BY DEF RunsKnown, RunRecords
<1>4. hextets[n] = <<0>> <=> h[n] = 0
  BY <1>1
<1>5. CASE h[n] # 0
  <2>1. q = [start |-> 0, len |-> 0, best |-> r.best, bestLen |-> r.bestLen]
    BY <1>1, <1>2, <1>3, <1>4, <1>5, VisitedIs
  <2>2. q \in RunRecords /\ q.len = 0 /\ q.start = 0 /\ q.best = r.best /\ q.bestLen = r.bestLen
    BY <1>3, <2>1 DEF RunRecords
  <2>3. q.len \in 0..n /\ q.bestLen \in 0..n /\ q.len <= q.bestLen
    BY <1>1, <1>3, <2>2
  <2>4. \A l \in ((n - q.len) + 1)..n : h[l] = 0
    BY <1>2, <2>2
  <2>5. n - q.len >= 1 => h[n - q.len] # 0
    <3>1. n - q.len = n
      BY <1>2, <2>2
    <3>2. QED
      BY <1>5, <3>1
  <2>6. q.bestLen > 0 => Run(h, q.best, (q.best + q.bestLen) - 1)
    BY <2>2 DEF RunsKnown
  <2>7. ASSUME NEW i, NEW j, Run(h, i, j), j <= n
        PROVE  (j - i) + 1 <= q.bestLen
    <3>1. i \in 1..Groups /\ j \in 1..Groups /\ i <= j /\ \A l \in i..j : h[l] = 0
      BY <2>7 DEF Run
    <3>2. j # n
      <4>1. j \in i..j
        BY <3>1
      <4>2. QED
        BY <1>5, <3>1, <4>1
    <3>3. j <= k
      BY <1>1, <2>7, <3>1, <3>2
    <3>4. QED
      BY <2>2, <2>7, <3>3 DEF RunsKnown
  <2>8. RunsKnown(q, n, h)
    BY <2>2, <2>3, <2>4, <2>5, <2>6, <2>7 DEF RunsKnown
  <2>9. QED
    BY <1>1, <2>8
<1>6. CASE h[n] = 0
  <2>1. q = IF r.len + 1 > r.bestLen
            THEN [Longer(r, n) EXCEPT !.bestLen = r.len + 1, !.best = Longer(r, n).start]
            ELSE Longer(r, n)
    <3>1. q = Visited(hextets, r, n) /\ hextets[n] = <<0>> /\ n \in Int /\ r \in RunRecords
      BY <1>1, <1>2, <1>3, <1>4, <1>6
    <3>2. QED
      BY ONLY <3>1, VisitedIs
  <2>2. PICK s, l : s = Longer(r, n) /\ l = r.len + 1
    OBVIOUS
  <2>3. l \in Nat /\ l <= n /\ l >= 1 /\ n - l = k - r.len
    BY <1>1, <1>3, <2>2
  <2>4. s \in RunRecords /\ s.len = l /\ s.start = (n - l) + 1 /\ s.best = r.best /\ s.bestLen = r.bestLen
    <3>1. s = [start |-> IF r.start = 0 THEN n ELSE r.start, len |-> l,
               best |-> r.best, bestLen |-> r.bestLen]
      BY <2>2 DEF Longer
    <3>2. (IF r.start = 0 THEN n ELSE r.start) = (n - l) + 1
      <4>1. CASE r.len = 0
        <5>1. l = 1 /\ r.start = 0 /\ (n - 1) + 1 = n
          BY <1>2, <1>3, <2>2, <4>1
        <5>2. QED
          BY <5>1
      <4>2. CASE r.len # 0
        <5>1. r.start = (k - r.len) + 1 /\ r.start # 0
          BY <1>3, <4>2
        <5>2. QED
          BY <2>3, <5>1
      <4>3. QED
        BY <4>1, <4>2
    <3>3. (n - l) + 1 \in Int /\ l \in Int /\ r.bestLen \in Int
      BY <1>2, <1>3, <2>3
    <3>4. QED
      BY <1>3, <3>1, <3>2, <3>3 DEF RunRecords
  <2>5. PICK b, d : /\ b = (IF l > r.bestLen THEN l ELSE r.bestLen)
                    /\ d = (IF l > r.bestLen THEN (n - l) + 1 ELSE r.best)
    OBVIOUS
  <2>6. q \in RunRecords /\ q.len = l /\ q.start = (n - l) + 1 /\ q.bestLen = b /\ q.best = d
    <3>1. CASE l > r.bestLen
      <4>1. q = [s EXCEPT !.bestLen = l, !.best = s.start]
        BY <2>1, <2>2, <3>1
      <4>2. q \in RunRecords /\ q.len = s.len /\ q.start = s.start /\ q.bestLen = l /\ q.best = s.start
        BY <2>3, <2>4, <4>1 DEF RunRecords
      <4>3. QED
        BY <2>4, <2>5, <3>1, <4>2
    <3>2. CASE ~(l > r.bestLen)
      BY <2>1, <2>2, <2>4, <2>5, <3>2
    <3>3. QED
      BY <3>1, <3>2
  <2>7. b \in 0..n /\ l <= b /\ r.bestLen <= b
    BY <1>1, <1>3, <2>3, <2>5
  <2>8. \A m \in ((n - l) + 1)..n : h[m] = 0
    <3>1. ASSUME NEW m \in ((n - l) + 1)..n PROVE h[m] = 0
      <4>1. CASE m = n
        BY <1>6, <4>1
      <4>2. CASE m # n
        <5>1. m \in ((k - r.len) + 1)..k
          BY <1>1, <1>2, <2>3, <4>2
        <5>2. QED
          BY <5>1 DEF RunsKnown
      <4>3. QED
        BY <4>1, <4>2
    <3>2. QED
      BY <3>1
  <2>9. n - l >= 1 => h[n - l] # 0
    BY <2>3 DEF RunsKnown
  <2>10. b > 0 => Run(h, d, (d + b) - 1)
    <3>1. CASE l > r.bestLen
      <4>1. b = l /\ d = (n - l) + 1 /\ (d + b) - 1 = n /\ d \in 1..Groups /\ d <= n
        BY <1>2, <2>3, <2>5, <3>1
      <4>2. QED
        BY <1>2, <2>8, <4>1 DEF Run
    <3>2. CASE ~(l > r.bestLen)
      BY <2>5, <3>2 DEF RunsKnown
    <3>3. QED
      BY <3>1, <3>2
  <2>11. ASSUME NEW i, NEW j, Run(h, i, j), j <= n
         PROVE  (j - i) + 1 <= b
    <3>1. i \in 1..Groups /\ j \in 1..Groups /\ i <= j /\ \A m \in i..j : h[m] = 0
      BY <2>11 DEF Run
    <3>2. CASE j <= k
      <4>1. (j - i) + 1 <= r.bestLen
        BY <2>11, <3>2 DEF RunsKnown
      <4>2. QED
        BY <1>3, <2>7, <3>1, <4>1
    <3>3. CASE ~(j <= k)
      <4>1. j = n
        BY <1>1, <2>11, <3>1, <3>3
      <4>2. i > n - l
        <5>1. SUFFICES ASSUME i <= n - l PROVE FALSE
          BY <1>2, <2>3, <3>1
        <5>2. n - l >= 1 /\ n - l \in i..j
          BY <1>2, <2>3, <3>1, <4>1, <5>1
        <5>3. QED
          BY <2>9, <3>1, <5>2
      <4>3. QED
        BY <1>2, <2>3, <2>7, <3>1, <4>1, <4>2
    <3>4. QED
      BY <3>2, <3>3
  <2>12. q.len \in 0..n /\ q.bestLen \in 0..n /\ q.len <= q.bestLen
         /\ q.start = (IF q.len = 0 THEN 0 ELSE (n - q.len) + 1)
    BY <2>3, <2>6, <2>7
  <2>13. RunsKnown(q, n, h)
    BY <2>6, <2>8, <2>9, <2>10, <2>11, <2>12 DEF RunsKnown
  <2>14. QED
    BY <1>1, <2>13
<1>7. QED
  BY <1>5, <1>6

LEMMA BestIs ==
  ASSUME NEW h \in [1..Groups -> Nat]
  PROVE  RunsKnown(BestRun(Full(h)), Groups, h)
<1>1. PICK t, n : t = Full(h) /\ n = Groups
  OBVIOUS
<1>2. n \in Nat /\ Len(t) = n /\ \A k \in 1..n : t[k] = <<h[k]>>
  BY <1>1, Widths, FullIs
<1>3. PICK f : IsRuns(f, t, n) /\ BestRun(t) = f[n]
  BY <1>2, RunsAre
<1> DEFINE T == {k \in Nat : k <= n => RunsKnown(f[k], k, h)}
<1>4. 0 \in T
  <2>1. f[0] = NoRun
    BY <1>2, <1>3 DEF IsRuns
  <2>2. RunsKnown(NoRun, 0, h)
    <3>1. /\ NoRun \in RunRecords /\ NoRun.len = 0 /\ NoRun.bestLen = 0 /\ NoRun.start = 0
      BY DEF NoRun, RunRecords
    <3>2. \A i, j : ~(Run(h, i, j) /\ j <= 0)
      BY Widths DEF Run
    <3>3. \A l \in ((0 - 0) + 1)..0 : FALSE
      OBVIOUS
    <3>4. QED
      BY <3>1, <3>2, <3>3 DEF RunsKnown
  <2>3. QED
    BY <2>1, <2>2
<1>5. ASSUME NEW k \in Nat, k \in T
      PROVE  k + 1 \in T
  <2>1. SUFFICES ASSUME k + 1 <= n PROVE RunsKnown(f[k + 1], k + 1, h)
    OBVIOUS
  <2>2. k + 1 \in 0..n /\ k + 1 # 0 /\ (k + 1) - 1 = k /\ k + 1 \in 1..n
    BY <1>2, <2>1
  <2>3. f[k + 1] = Visited(t, f[k], k + 1)
    BY <1>3, <2>2 DEF IsRuns
  <2>4. RunsKnown(f[k], k, h) /\ t[k + 1] = <<h[k + 1]>> /\ k + 1 <= Groups
    BY <1>1, <1>2, <1>5, <2>1, <2>2
  <2>5. RunsKnown(Visited(t, f[k], k + 1), k + 1, h)
    BY <2>4, RunsStep
  <2>6. QED
    BY <2>3, <2>5
<1> HIDE DEF T
<1>6. \A k \in Nat : k \in T
  BY <1>4, <1>5, NatSet
<1>7. RunsKnown(f[n], n, h)
  BY <1>2, <1>6 DEF T
<1>8. QED
  BY <1>1, <1>3, <1>7

-----------------------------------------------------------------------------
\* Texts are shortened at the longest run of zeros, and read back.

Shortest(h, s) ==
  \/ s = Full(h) /\ \A a, b : Run(h, a, b) => b <= a
  \/ \E i, j : /\ Run(h, i, j) /\ i < j /\ s = Cut(h, i, j)
               /\ \A a, b : Run(h, a, b) => b - a <= j - i

LEMMA CompressIs ==
  ASSUME NEW h \in [1..Groups -> Nat], NEW text, Hextets(text) = Full(h)
  PROVE  Shortest(h, CompressIPv6Address(text))
<1>1. PICK r, t : r = BestRun(Full(h)) /\ t = Full(h)
  OBVIOUS
<1>2. RunsKnown(r, Groups, h)
  BY <1>1, BestIs
<1>3. r.bestLen \in 0..Groups /\ r.best \in Int /\ Groups \in Nat /\ Len(t) = Groups
  BY <1>1, <1>2, Widths, FullIs DEF RunsKnown, RunRecords
<1>4. ASSUME NEW a, NEW b, Run(h, a, b)
      PROVE  (b - a) + 1 <= r.bestLen /\ a \in Nat /\ b \in Nat
  <2>1. a \in Nat /\ b \in Nat /\ b <= Groups
    BY <1>3, <1>4 DEF Run
  <2>2. QED
    BY <1>2, <1>4, <2>1 DEF RunsKnown
<1>5. CASE r.bestLen <= 1
  <2>1. CompressIPv6Address(text) = t
    BY <1>1, <1>5 DEF CompressIPv6Address
  <2>2. \A a, b : Run(h, a, b) => b <= a
    <3>1. ASSUME NEW a, NEW b, Run(h, a, b) PROVE b <= a
      <4>1. (b - a) + 1 <= r.bestLen /\ a \in Nat /\ b \in Nat
        BY <1>4, <3>1
      <4>2. QED
        BY <1>3, <1>5, <4>1
    <3>2. QED
      BY <3>1
  <2>3. QED
    BY <1>1, <2>1, <2>2 DEF Shortest
<1>6. CASE ~(r.bestLen <= 1)
  <2>1. PICK i, j : i = r.best /\ j = (r.best + r.bestLen) - 1
    OBVIOUS
  <2>2. r.bestLen > 0 /\ i \in Int /\ i < j /\ j - i = r.bestLen - 1
    BY <1>3, <1>6, <2>1
  <2>3. Run(h, i, j)
    BY <1>2, <2>1, <2>2 DEF RunsKnown
  <2>4. r.best + r.bestLen - 1 = j
    <3>1. PICK x, y : x = r.best /\ y = r.bestLen
      OBVIOUS
    <3>2. x \in Int /\ y \in Int
      BY <1>3, <3>1
    <3>3. x + y - 1 = (x + y) - 1
      BY <3>2
    <3>4. QED
      BY <2>1, <3>1, <3>3
  <2>5. CompressIPv6Address(text) = Collapsed(h, i, j)
    BY <1>1, <1>3, <1>6, <2>1, <2>4 DEF CompressIPv6Address, Collapsed
  <2>6. CompressIPv6Address(text) = Cut(h, i, j)
    BY <2>3, <2>5, CollapsedIs
  <2>7. \A a, b : Run(h, a, b) => b - a <= j - i
    <3>1. ASSUME NEW a, NEW b, Run(h, a, b) PROVE b - a <= j - i
      <4>1. (b - a) + 1 <= r.bestLen /\ a \in Nat /\ b \in Nat
        BY <1>4, <3>1
      <4>2. QED
        BY <1>3, <2>2, <4>1
    <3>2. QED
      BY <3>1
  <2>8. QED
    BY <2>2, <2>3, <2>6, <2>7 DEF Shortest
<1>7. QED
  BY <1>5, <1>6

LEMMA CutReads ==
  ASSUME NEW h \in [1..Groups -> Nat], NEW i, NEW j, Run(h, i, j)
  PROVE  Hextets(Cut(h, i, j)) = Full(h)
<1>1. CutParts(Cut(h, i, j), h, i, j, Parts6(i, j), Ends(i, j))
  BY PartsOfCut
<1>2. QED
  BY <1>1, HextetsOfCut

LEMMA WrittenReads ==
  ASSUME NEW h \in [1..Groups -> Nat], NEW t \in Written(h)
  PROVE  Hextets(t) = Full(h)
<1>1. CASE t = Full(h)
  BY <1>1, FullIs
<1>2. CASE t # Full(h)
  <2>1. PICK i, j : Run(h, i, j) /\ t = Cut(h, i, j)
    BY <1>2, WrittenIs
  <2>2. QED
    BY <2>1, CutReads
<1>3. QED
  BY <1>1, <1>2

LEMMA ShortIsWritten ==
  ASSUME NEW h \in [1..Groups -> Nat], NEW text, Hextets(text) = Full(h)
  PROVE  /\ CompressIPv6Address(text) \in Written(h)
         /\ CompressIPv6Address(text) = CompressIPv6Address(Full(h))
         /\ ConvertIPv6ToInt(CompressIPv6Address(text)) = Number6(h)
<1>1. CompressIPv6Address(text) \in Written(h)
  <2>1. PICK s : s = CompressIPv6Address(text)
    OBVIOUS
  <2>2. s = Full(h) \/ \E i, j : Run(h, i, j) /\ s = Cut(h, i, j)
    BY <2>1, CompressIs DEF Shortest
  <2>3. QED
    BY <2>1, <2>2, WrittenIs
<1>2. Hextets(Full(h)) = Hextets(text)
  BY FullIs
<1>3. CompressIPv6Address(text) = CompressIPv6Address(Full(h))
  BY <1>2 DEF CompressIPv6Address
<1>4. Hextets(CompressIPv6Address(text)) = Full(h)
  BY <1>1, WrittenReads
<1>5. QED
  BY <1>1, <1>3, <1>4, ReadAs

-----------------------------------------------------------------------------
\* The subnets of IPv6.

LEMMA ShownIs ==
  ASSUME NEW n \in Nat, n < Pow2(Width6)
  PROVE  ConvertIPv6ToInt(CompressIPv6Address(ConvertIntToIPv6(n))) = n
<1>1. PICK d : d = HextetsOf(n)
  OBVIOUS
<1>2. ConvertIntToIPv6(n) = Full(d) /\ Hextets6(d) /\ Number6(d) = n
  BY <1>1, HextetsOfNumber
<1>3. d \in [1..Groups -> Nat]
  BY <1>2 DEF Hextets6
<1>4. Hextets(Full(d)) = Full(d)
  BY <1>3, FullIs
<1>5. ConvertIPv6ToInt(CompressIPv6Address(Full(d))) = Number6(d)
  BY <1>3, <1>4, ShortIsWritten
<1>6. QED
  BY <1>2, <1>5

LEMMA Subnet6 ==
  ASSUME NEW h \in Values6, NEW bits \in HostBits, NEW limit \in Limits, NEW text, text = Full(h),
         NEW p, p = Width6 - bits, NEW a, a = GetAddressesInSubnet6(text, p, limit)
  PROVE  SubnetRight(Number6(h), bits, limit, ConvertIPv6ToInt(GetNetworkForAddress6(text, p)),
                     [i \in DOMAIN a |-> ConvertIPv6ToInt(a[i])])
<1>1. h \in [1..Groups -> Nat]
  BY HextetsOfInput
<1>2. bits \in Nat /\ bits <= Width6 /\ limit \in Nat
  <2>1. bits \in Nat /\ bits <= Width4 /\ limit \in Nat
    BY InputAssumption, Widths
  <2>2. Width4 <= Width6
    <3>1. PICK w, g : w = OctetBits /\ g = Groups
      OBVIOUS
    <3>2. w \in Nat /\ g \in Nat /\ g >= 2
      BY <3>1, Widths
    <3>3. g * (2 * w) >= 2 * (2 * w)
      BY <3>2
    <3>4. QED
      BY <3>1, <3>2, <3>3 DEF Width4, Width6, HextetBits
  <2>3. QED
    BY <2>1, <2>2, Widths
<1>3. PICK hosts, n : hosts = Pow2(bits) /\ n = Number6(h)
  OBVIOUS
<1>4. hosts \in Nat /\ hosts > 0
  BY <1>2, <1>3, PowPositive
<1>5. n \in Nat /\ n < Pow2(Width6) /\ ConvertIPv6ToInt(text) = n
  BY <1>1, <1>3, NumberBound, FullIs, ReadAs
<1>6. PICK network : network = Cleared(n, bits)
  OBVIOUS
<1>7. network \in Nat /\ network = n - (n % hosts)
  BY <1>2, <1>3, <1>5, <1>6, ClearedIs
<1>8. /\ NetworkInt(n, p) = network
      /\ \A i \in Nat : i < hosts => network + i < Pow2(Width6)
  BY <1>2, <1>3, <1>5, <1>6, NetworkFits
<1>9. PICK nth : nth = [i \in Nat |-> CompressIPv6Address(ConvertIntToIPv6(network + i))]
  OBVIOUS
<1>10. ASSUME NEW i \in Nat, i < hosts
       PROVE  ConvertIPv6ToInt(nth[i]) = network + i
  <2>1. network + i \in Nat /\ network + i < Pow2(Width6)
    BY <1>7, <1>8, <1>10
  <2>2. QED
    BY <1>9, <2>1, ShownIs
<1>11. ConvertIPv6ToInt(GetNetworkForAddress6(text, p)) = network
  <2>1. 0 \in Nat /\ 0 < hosts /\ network + 0 = network
    BY <1>4, <1>7
  <2>2. network < Pow2(Width6)
    BY <1>8, <2>1
  <2>3. GetNetworkForAddress6(text, p) = CompressIPv6Address(ConvertIntToIPv6(network))
    BY <1>5, <1>8 DEF GetNetworkForAddress6
  <2>4. QED
    BY <1>7, <2>2, <2>3, ShownIs
<1>12. a = IF hosts = 2 THEN <<nth[0], nth[1]>> ELSE [i \in 1..Limit(hosts, limit) |-> nth[i]]
  <2>1. Width6 - p = bits
    BY <1>2, Widths
  <2>2. Limit(hosts, limit) \in Int
    BY <1>2, <1>4, LimitIs
  <2>3. \A i \in 1..Limit(hosts, limit) : i \in Nat
    BY <2>2
  <2>4. a = IF hosts = 2
            THEN <<CompressIPv6Address(ConvertIntToIPv6(network + 0)),
                   CompressIPv6Address(ConvertIntToIPv6(network + 1))>>
            ELSE [i \in 1..Limit(hosts, limit) |->
                    CompressIPv6Address(ConvertIntToIPv6(network + i))]
    BY <1>3, <1>5, <1>8, <2>1 DEF GetAddressesInSubnet6
  <2>5. QED
    BY <1>9, <2>3, <2>4
<1>13. PICK list : list = [i \in DOMAIN a |-> ConvertIPv6ToInt(a[i])]
  OBVIOUS
<1>14. ASSUME hosts = 2 PROVE list = <<network, network + 1>>
  <2>1. a = <<nth[0], nth[1]>>
    BY <1>12, <1>14
  <2>2. ConvertIPv6ToInt(nth[0]) = network /\ ConvertIPv6ToInt(nth[1]) = network + 1
    <3>1. ConvertIPv6ToInt(nth[0]) = network + 0
      BY <1>10, <1>14
    <3>2. ConvertIPv6ToInt(nth[1]) = network + 1
      BY <1>10, <1>14
    <3>3. QED
      BY <1>7, <3>1, <3>2
  <2>3. list = [i \in 1..2 |-> ConvertIPv6ToInt(a[i])]
    BY <1>13, <2>1
  <2>4. list = <<ConvertIPv6ToInt(a[1]), ConvertIPv6ToInt(a[2])>>
    BY <2>3
  <2>5. QED
    BY <2>1, <2>2, <2>4
<1>15. ASSUME hosts # 2 PROVE list = [i \in 1..Limit(hosts, limit) |-> network + i]
  <2>1. a = [i \in 1..Limit(hosts, limit) |-> nth[i]]
    BY <1>12, <1>15
  <2>2. Limit(hosts, limit) \in Int /\ Limit(hosts, limit) < hosts
    BY <1>2, <1>4, LimitIs
  <2>3. \A i \in 1..Limit(hosts, limit) : i \in Nat /\ i < hosts
    BY <1>4, <2>2
  <2>4. \A i \in 1..Limit(hosts, limit) : ConvertIPv6ToInt(a[i]) = network + i
    BY <1>10, <2>1, <2>3
  <2>5. DOMAIN a = 1..Limit(hosts, limit)
    BY <2>1
  <2>6. QED
    BY <1>13, <2>4, <2>5
<1>16. ListRight(list, network, hosts, limit)
  BY <1>2, <1>4, <1>7, <1>14, <1>15, Listed
<1>17. QED
  BY <1>3, <1>7, <1>11, <1>13, <1>16 DEF SubnetRight

-----------------------------------------------------------------------------
\* Where a text has its "::", and how many words it has.

InnerAt(text, k) == k \in 2..(Len(text) - 1) /\ text[k] = Empty
SeenRecords == [n : Int, open : BOOLEAN]
NoneSeen == [n |-> 0, open |-> FALSE]
SeenNext(text, r, k) ==
  IF InnerAt(text, k) /\ ~r.open THEN [n |-> r.n + 1, open |-> TRUE]
  ELSE [n |-> r.n, open |-> FALSE]

IsSeen(f, text, n) == f = [k \in 0..n |-> IF k = 0 THEN NoneSeen ELSE SeenNext(text, f[k - 1], k)]

LEMMA SeenIs ==
  ASSUME NEW text, NEW n \in Nat, Len(text) = n
  PROVE  \E f : IsSeen(f, text, n) /\ DoubleColons(text) = f[n].n
<1>1. PICK step : step = [k \in 1..n |-> [r \in SeenRecords |-> SeenNext(text, r, k)]]
  OBVIOUS
<1>2. step \in [1..n -> [SeenRecords -> SeenRecords]]
  <2>1. ASSUME NEW k, NEW r \in SeenRecords PROVE SeenNext(text, r, k) \in SeenRecords
    BY DEF SeenRecords, SeenNext
  <2>2. QED
    BY <1>1, <2>1
<1>3. NoneSeen \in SeenRecords
  BY DEF NoneSeen, SeenRecords
<1>4. PICK f : Iterated(f, NoneSeen, step, SeenRecords, n)
  <2>1. PICK S, c : S = SeenRecords /\ c = NoneSeen
    OBVIOUS
  <2>2. c \in S /\ step \in [1..n -> [S -> S]]
    BY <1>2, <1>3, <2>1
  <2>3. \E f : Iterated(f, c, step, S, n)
    BY ONLY n \in Nat, <2>2, Iterates
  <2>4. QED
    BY <2>1, <2>3
<1>5. f = [k \in 0..n |-> IF k = 0 THEN NoneSeen ELSE SeenNext(text, f[k - 1], k)]
  <2>1. \A k \in 1..n : f[k - 1] \in SeenRecords
    BY <1>4 DEF Iterated
  <2>2. \A k \in 1..n : f[k] = SeenNext(text, f[k - 1], k)
    BY <1>1, <1>4, <2>1 DEF Iterated
  <2>3. QED
    BY <1>4, <2>2 DEF Iterated
<1> DEFINE F == CHOOSE g : g = [k \in 0..Len(text) |->
                                  IF k = 0 THEN NoneSeen ELSE SeenNext(text, g[k - 1], k)]
<1>6. F = [k \in 0..Len(text) |-> IF k = 0 THEN NoneSeen ELSE SeenNext(text, F[k - 1], k)]
  BY <1>5
<1>7. DoubleColons(text) = F[Len(text)].n
  BY DEF DoubleColons, NoneSeen, SeenNext, InnerAt
<1> HIDE DEF F
<1>8. QED
  BY <1>6, <1>7 DEF IsSeen

\* With one inner part that is empty there is one "::", without there is none.
LEMMA DoublesAre ==
  ASSUME NEW text, NEW n \in Nat, Len(text) = n, NEW m \in Nat, m >= 1,
         \A k \in 1..n : InnerAt(text, k) <=> k = m
  PROVE  DoubleColons(text) = IF n < m THEN 0 ELSE 1
<1>1. PICK f : IsSeen(f, text, n) /\ DoubleColons(text) = f[n].n
  BY SeenIs
<1>2. PICK some, none : some = [n |-> 1, open |-> TRUE] /\ none = [n |-> 1, open |-> FALSE]
  OBVIOUS
<1>3. /\ some.n = 1 /\ some.open = TRUE /\ none.n = 1 /\ none.open = FALSE
      /\ NoneSeen.n = 0 /\ NoneSeen.open = FALSE
  BY <1>2 DEF NoneSeen
<1> DEFINE T == {k \in Nat : k <= n => f[k] = IF k < m THEN NoneSeen
                                              ELSE IF k = m THEN some ELSE none}
<1>4. 0 \in T
  BY <1>1 DEF IsSeen
<1>5. ASSUME NEW k \in Nat, k \in T
      PROVE  k + 1 \in T
  <2>1. SUFFICES ASSUME k + 1 <= n
                 PROVE  f[k + 1] = IF k + 1 < m THEN NoneSeen
                                   ELSE IF k + 1 = m THEN some ELSE none
    OBVIOUS
  <2>2. k + 1 \in 0..n /\ k + 1 # 0 /\ (k + 1) - 1 = k /\ k + 1 \in 1..n
    BY <2>1
  <2>3. f[k + 1] = SeenNext(text, f[k], k + 1)
    BY <1>1, <2>2 DEF IsSeen
  <2>4. f[k] = IF k < m THEN NoneSeen ELSE IF k = m THEN some ELSE none
    BY <1>5, <2>1
  <2>5. InnerAt(text, k + 1) <=> k + 1 = m
    BY <2>2
  <2>6. CASE k + 1 < m
    <3>1. f[k] = NoneSeen /\ ~InnerAt(text, k + 1)
      BY <2>4, <2>5, <2>6
    <3>2. f[k + 1] = [n |-> NoneSeen.n, open |-> FALSE]
      BY <2>3, <3>1 DEF SeenNext
    <3>3. f[k + 1] = NoneSeen
      BY <1>3, <3>2 DEF NoneSeen
    <3>4. QED
      BY <2>6, <3>3
  <2>7. CASE k + 1 = m
    <3>1. f[k] = NoneSeen /\ InnerAt(text, k + 1) /\ ~(k + 1 < m)
      BY <2>4, <2>5, <2>7
    <3>2. f[k + 1] = [n |-> NoneSeen.n + 1, open |-> TRUE]
      BY <1>3, <2>3, <3>1 DEF SeenNext
    <3>3. f[k + 1] = some
      BY <1>2, <1>3, <3>2
    <3>4. QED
      BY <2>7, <3>1, <3>3
  <2>8. CASE k + 1 > m
    <3>1. ~InnerAt(text, k + 1) /\ ~(k + 1 < m) /\ k + 1 # m
      BY <2>5, <2>8
    <3>2. f[k] = some \/ f[k] = none
      BY <2>4, <2>8
    <3>3. f[k + 1] = [n |-> f[k].n, open |-> FALSE]
      BY <2>3, <3>1 DEF SeenNext
    <3>4. f[k].n = 1
      BY <1>3, <3>2
    <3>5. f[k + 1] = none
      BY <1>2, <3>3, <3>4
    <3>6. QED
      BY <3>1, <3>5
  <2>9. QED
    BY <2>6, <2>7, <2>8
<1> HIDE DEF T
<1>6. \A k \in Nat : k \in T
  BY <1>4, <1>5, NatSet
<1>7. f[n] = IF n < m THEN NoneSeen ELSE IF n = m THEN some ELSE none
  BY <1>6 DEF T
<1>8. QED
  BY <1>1, <1>3, <1>7

WordsIn(t) == {i \in DOMAIN t : t[i] # Empty}
Words(t)   == Cardinality(WordsIn(t))

LEMMA WordsOfFull ==
  ASSUME NEW h \in [1..Groups -> Nat]
  PROVE  Words(Full(h)) = Groups
<1>1. WordsIn(Full(h)) = 1..Groups
  BY FullIs DEF WordsIn
<1>2. Cardinality(1..Groups) = Groups
  <2>1. PICK a, b : a = 1 /\ b = Groups
    OBVIOUS
  <2>2. a \in Int /\ b \in Int
    BY <2>1, Widths
  <2>3. Cardinality(a..b) = IF a > b THEN 0 ELSE b - a + 1
    BY <2>2, FS_Interval
  <2>4. QED
    BY <2>1, <2>2, <2>3, Widths
<1>3. QED
  BY <1>1, <1>2 DEF Words

LEMMA WordsOfCut ==
  ASSUME NEW h, NEW i, NEW j, NEW t, NEW n, NEW c, CutParts(t, h, i, j, n, c)
  PROVE  IsFiniteSet(WordsIn(t)) /\ Words(t) = (Groups - (j - i)) - 1
<1>1. /\ n \in Nat /\ i \in 1..n /\ Groups \in Nat /\ c \in 0..2 /\ i + c <= n
      /\ n = (Groups - (j - i)) + c /\ j \in i..Groups /\ DOMAIN t = 1..n
      /\ \A k \in 1..n : t[k] = Empty <=> k \in i..(i + c)
  BY DEF CutParts
<1>2. i \in Nat /\ j \in Nat /\ c \in Nat
  BY <1>1
<1>3. PICK a, b, d, low : a = 1 /\ b = i - 1 /\ d = (i + c) + 1 /\ low = n
  OBVIOUS
<1>4. a \in Int /\ b \in Int /\ d \in Int /\ low \in Int
  BY <1>1, <1>2, <1>3
<1>5. IsFiniteSet(a..b) /\ Cardinality(a..b) = IF a > b THEN 0 ELSE b - a + 1
  BY <1>4, FS_Interval
<1>6. IsFiniteSet(d..low) /\ Cardinality(d..low) = IF d > low THEN 0 ELSE low - d + 1
  BY <1>4, FS_Interval
<1>7. Cardinality(a..b) = i - 1 /\ Cardinality(d..low) = n - (i + c)
  BY <1>1, <1>2, <1>3, <1>5, <1>6
<1>8. WordsIn(t) = (a..b) \cup (d..low)
  <2>1. ASSUME NEW k PROVE k \in WordsIn(t) <=> k \in (a..b) \cup (d..low)
    <3>1. k \in WordsIn(t) <=> k \in 1..n /\ ~(k \in i..(i + c))
      BY <1>1 DEF WordsIn
    <3>2. k \in 1..n /\ ~(k \in i..(i + c)) <=> k \in a..b \/ k \in d..low
      BY <1>1, <1>2, <1>3
    <3>3. QED
      BY <3>1, <3>2
  <2>2. QED
    BY <2>1
<1>9. (a..b) \cap (d..low) = {}
  BY <1>1, <1>2, <1>3
<1>10. IsFiniteSet((a..b) \cup (d..low))
       /\ Cardinality((a..b) \cup (d..low))
            = Cardinality(a..b) + Cardinality(d..low) - Cardinality((a..b) \cap (d..low))
  BY <1>5, <1>6, FS_Union
<1>11. Cardinality((a..b) \cap (d..low)) = 0
  BY <1>9, FS_EmptySet
<1>12. Words(t) = (i - 1) + (n - (i + c)) - 0
  BY <1>7, <1>8, <1>10, <1>11 DEF Words
<1>13. QED
  BY <1>1, <1>2, <1>8, <1>10, <1>12

LEMMA WordsOfQuad ==
  ASSUME NEW u, NEW n, Listing(u, n, Seq(Nat)), n > 2, NEW v, Quad(v, u, n),
         u[n - 1] # Empty, u[n] # Empty
  PROVE  IsFiniteSet(WordsIn(v)) /\ Words(v) = Words(u) - 1
<1>1. n \in Nat /\ DOMAIN u = 1..n /\ DOMAIN v = 1..(n - 1)
      /\ (\A k \in 1..(n - 2) : v[k] = u[k]) /\ v[n - 1] # Empty
  BY DEF Listing, Quad
<1>2. WordsIn(v) \subseteq 1..(n - 1)
  BY <1>1 DEF WordsIn
<1>3. IsFiniteSet(WordsIn(v)) /\ Cardinality(WordsIn(v)) \in Nat
  <2>1. PICK a, b : a = 1 /\ b = n - 1
    OBVIOUS
  <2>2. a \in Int /\ b \in Int
    BY <1>1, <2>1
  <2>3. IsFiniteSet(a..b)
    BY <2>2, FS_Interval
  <2>4. IsFiniteSet(WordsIn(v))
    BY <1>2, <2>1, <2>3, FS_Subset
  <2>5. QED
    BY <2>4, FS_CardinalityType
<1>4. n \notin WordsIn(v)
  BY <1>1, <1>2
<1>5. WordsIn(u) = WordsIn(v) \cup {n}
  <2>1. ASSUME NEW k PROVE k \in WordsIn(u) <=> k \in WordsIn(v) \/ k = n
    <3>1. CASE k \in 1..(n - 2)
      <4>1. k \in 1..n /\ k \in 1..(n - 1) /\ v[k] = u[k] /\ k # n
        BY <1>1, <3>1
      <4>2. QED
        BY <1>1, <4>1 DEF WordsIn
    <3>2. CASE k = n - 1
      <4>1. k \in 1..n /\ k \in 1..(n - 1) /\ k # n
        BY <1>1, <3>2
      <4>2. QED
        BY <1>1, <3>2, <4>1 DEF WordsIn
    <3>3. CASE k = n
      <4>1. k \in 1..n
        BY <1>1, <3>3
      <4>2. QED
        BY <1>1, <3>3, <4>1 DEF WordsIn
    <3>4. CASE k \notin 1..n
      <4>1. k \notin 1..(n - 1) /\ k # n
        BY <1>1, <3>4
      <4>2. QED
        BY <1>1, <3>4, <4>1 DEF WordsIn
    <3>5. QED
      BY <1>1, <3>1, <3>2, <3>3, <3>4
  <2>2. QED
    BY <2>1
<1>6. Cardinality(WordsIn(v) \cup {n}) = Cardinality(WordsIn(v)) + 1
  BY <1>3, <1>4, FS_AddElement
<1>7. QED
  BY <1>3, <1>5, <1>6 DEF Words

-----------------------------------------------------------------------------
\* What is_ipv6 takes for an address: only "::" at an end for a single hextet is none.

AtAnEnd(t) == Head(t) = Empty \/ Last(t) = Empty
Judged(t)  == ~IsIPv6(t) <=> /\ AtAnEnd(t)
                             /\ Words(t) = IF HasQuad(t) THEN Groups - 2 ELSE Groups - 1

LEMMA JudgedBy ==
  ASSUME NEW t, NEW n \in Nat, n >= 2, Len(t) = n,
         Last(t) = Empty => n >= 3 /\ t[n - 1] = Empty,
         NEW d \in {0, 1}, DoubleColons(t) = d, n - d <= Groups
  PROVE  IsIPv6(t) <=> /\ n <= Groups
                       /\ HasQuad(t) => n - d <= Groups - 1
                       /\ HasQuad(t) /\ d = 1 => n - d < Groups - 1
<1>1. CASE d = 0
  <2>1. IsIPv6(t) <=> /\ n > 1
                      /\ n <= Groups /\ 0 <= 1
                      /\ HasQuad(t) /\ 0 = 0 => n <= Groups - 1
                      /\ HasQuad(t) /\ 0 = 1 => n < Groups - 1
                      /\ n <= Groups
    BY <1>1 DEF IsIPv6
  <2>2. n - d = n /\ Groups \in Nat
    BY <1>1, Widths
  <2>3. QED
    BY <1>1, <2>1, <2>2
<1>2. CASE d = 1
  <2>1. IsIPv6(t) <=> /\ n > 1
                      /\ n <= Groups /\ 1 <= 1
                      /\ HasQuad(t) /\ 1 = 0 => n - 1 <= Groups - 1
                      /\ HasQuad(t) /\ 1 = 1 => n - 1 < Groups - 1
                      /\ n - 1 <= Groups
    BY <1>2 DEF IsIPv6
  <2>2. n - d = n - 1 /\ Groups \in Nat
    BY <1>2, Widths
  <2>3. QED
    BY <1>2, <2>1, <2>2
<1>3. QED
  BY <1>1, <1>2

LEMMA FullJudged ==
  ASSUME NEW h \in [1..Groups -> Nat]
  PROVE  IsIPv6(Full(h)) /\ Judged(Full(h))
<1>1. PICK t, n, m : t = Full(h) /\ n = Groups /\ m = Groups + 1
  OBVIOUS
<1>2. n \in Nat /\ n > 2 /\ m \in Nat /\ Len(t) = n /\ DOMAIN t = 1..n
      /\ (\A k \in 1..n : t[k] # Empty) /\ ~HasQuad(t) /\ t \in Seq(Seq(Nat))
  BY <1>1, Widths, FullIs
<1>3. Last(t) # Empty
  BY <1>2 DEF Last
<1>4. Head(t) # Empty
  <2>1. Head(t) = t[1] /\ 1 \in 1..n
    BY <1>2
  <2>2. QED
    BY <1>2, <2>1
<1>5. DoubleColons(t) = 0
  <2>1. \A k \in 1..n : InnerAt(t, k) <=> k = m
    <3>1. \A k \in 1..n : ~InnerAt(t, k) /\ k # m
      BY <1>1, <1>2 DEF InnerAt
    <3>2. QED
      BY <3>1
  <2>2. m >= 1 /\ n < m
    BY <1>1, <1>2
  <2>3. QED
    BY <1>2, <2>1, <2>2, DoublesAre
<1>6. IsIPv6(t)
  <2>1. PICK d : d = 0
    OBVIOUS
  <2>2. n >= 2 /\ d \in {0, 1} /\ DoubleColons(t) = d /\ n - d <= Groups /\ n <= Groups
    BY <1>1, <1>2, <1>5, <2>1
  <2>3. QED
    BY <1>2, <1>3, <2>1, <2>2, JudgedBy
<1>7. QED
  BY <1>1, <1>3, <1>4, <1>6 DEF Judged, AtAnEnd

LEMMA CutJudged ==
  ASSUME NEW h \in [1..Groups -> Nat], NEW i, NEW j, NEW t, NEW n, NEW c, CutParts(t, h, i, j, n, c)
  PROVE  Judged(t)
<1>1. /\ n \in Nat /\ n >= 1 /\ i \in 1..n /\ Groups \in Nat /\ Groups > 2 /\ c \in 0..2 /\ i + c <= n
      /\ n = (Groups - (j - i)) + c /\ j \in i..Groups /\ Len(t) = n /\ DOMAIN t = 1..n
      /\ (i = 1 /\ j = Groups <=> c = 2) /\ (i # 1 /\ j # Groups <=> c = 0)
      /\ (\A k \in 1..n : t[k] = Empty <=> k \in i..(i + c)) /\ t \in Seq(Seq(Nat))
  <2>1. Listing(t, n, Seq(Nat))
    BY DEF CutParts
  <2>2. t \in Seq(Seq(Nat))
    BY <2>1 DEF Listing
  <2>3. QED
    BY <2>2 DEF CutParts
<1>2. i \in Nat /\ j \in Nat /\ c \in Nat /\ i >= 1 /\ i <= j /\ j <= Groups
  BY <1>1
<1>3. n >= 2 /\ (i = 1 => n >= 3) /\ (j = Groups => n >= 3)
  BY <1>1, <1>2
<1>4. (t[1] = Empty <=> i = 1) /\ (t[n] = Empty <=> j = Groups)
      /\ (j = Groups => t[n - 1] = Empty)
  <2>1. 1 \in 1..n /\ (1 \in i..(i + c) <=> i = 1)
    BY <1>1, <1>2, <1>3
  <2>2. n \in 1..n /\ (n \in i..(i + c) <=> j = Groups)
    BY <1>1, <1>2, <1>3
  <2>3. n - 1 \in 1..n /\ (j = Groups => n - 1 \in i..(i + c))
    BY <1>1, <1>2, <1>3
  <2>4. QED
    BY <1>1, <2>1, <2>2, <2>3
<1>5. Last(t) = t[n] /\ Head(t) = t[1] /\ ~HasQuad(t)
  <2>1. Last(t) = t[n] /\ ~HasQuad(t)
    BY ShortWords
  <2>2. Head(t) = t[1]
    BY <1>1, <1>3
  <2>3. QED
    BY <2>1, <2>2
<1>6. AtAnEnd(t) <=> i = 1 \/ j = Groups
  BY <1>4, <1>5 DEF AtAnEnd
<1>7. DoubleColons(t) = 1
  <2>1. PICK m : m = IF i = 1 THEN 2 ELSE i
    OBVIOUS
  <2>2. m \in Nat /\ m >= 1 /\ ~(n < m)
    BY <1>1, <1>2, <1>3, <2>1
  <2>3. ASSUME NEW k \in 1..n PROVE InnerAt(t, k) <=> k = m
    <3>1. InnerAt(t, k) <=> k \in 2..(n - 1) /\ k \in i..(i + c)
      BY <1>1 DEF InnerAt
    <3>2. k \in 2..(n - 1) /\ k \in i..(i + c) <=> k = m
      <4>1. CASE i = 1
        <5>1. CASE j = Groups
          <6>1. c = 2 /\ n = 3 /\ m = 2
            BY <1>1, <1>2, <2>1, <4>1, <5>1
          <6>2. QED
            BY <1>1, <4>1, <6>1
        <5>2. CASE j # Groups
          <6>1. c = 1 /\ n >= 3 /\ m = 2
            BY <1>1, <1>2, <1>3, <2>1, <4>1, <5>2
          <6>2. QED
            BY <1>1, <4>1, <6>1
        <5>3. QED
          BY <5>1, <5>2
      <4>2. CASE i # 1
        <5>1. CASE j = Groups
          <6>1. c = 1 /\ n = i + 1 /\ m = i
            BY <1>1, <1>2, <2>1, <4>2, <5>1
          <6>2. QED
            BY <1>1, <1>2, <4>2, <6>1
        <5>2. CASE j # Groups
          <6>1. c = 0 /\ m = i /\ i < n
            BY <1>1, <1>2, <2>1, <4>2, <5>2
          <6>2. QED
            BY <1>1, <1>2, <4>2, <6>1
        <5>3. QED
          BY <5>1, <5>2
      <4>3. QED
        BY <4>1, <4>2
    <3>3. QED
      BY <3>1, <3>2
  <2>4. QED
    BY <1>1, <2>2, <2>3, DoublesAre
<1>8. IsIPv6(t) <=> n <= Groups
  <2>1. PICK d : d = 1
    OBVIOUS
  <2>2. d \in {0, 1} /\ DoubleColons(t) = d /\ n - d <= Groups
    <3>1. n - 1 <= Groups
      BY <1>1, <1>2
    <3>2. QED
      BY <1>7, <2>1, <3>1
  <2>3. Last(t) = Empty => n >= 3 /\ t[n - 1] = Empty
    BY <1>3, <1>4, <1>5
  <2>4. QED
    BY <1>1, <1>3, <1>5, <2>2, <2>3, JudgedBy
<1>9. Words(t) = (Groups - (j - i)) - 1
  BY WordsOfCut
<1>10. ~(n <= Groups) <=> (i = 1 \/ j = Groups) /\ (Groups - (j - i)) - 1 = Groups - 1
  <2>1. ~(n <= Groups) <=> c > j - i
    BY <1>1, <1>2
  <2>2. (Groups - (j - i)) - 1 = Groups - 1 <=> j = i
    BY <1>1, <1>2
  <2>3. c > j - i <=> (i = 1 \/ j = Groups) /\ j = i
    BY <1>1, <1>2
  <2>4. QED
    BY <2>1, <2>2, <2>3
<1>11. QED
  BY <1>5, <1>6, <1>8, <1>9, <1>10 DEF Judged

LEMMA FullQuadJudged ==
  ASSUME NEW h \in [1..Groups -> Nat], NEW v, Quad(v, Full(h), Groups)
  PROVE  Judged(v)
<1>1. PICK n, m : n = Groups - 1 /\ m = Groups + 1
  OBVIOUS
<1>2. /\ n \in Nat /\ n >= 2 /\ m \in Nat /\ n < m /\ m >= 1 /\ Groups \in Nat
      /\ Groups - 1 = n /\ Groups - 2 = n - 1
  BY <1>1, Widths
<1>3. /\ v \in [1..n -> Seq(Nat)] /\ Len(v) = n /\ DOMAIN v = 1..n
      /\ (\A k \in 1..(n - 1) : v[k] = Full(h)[k]) /\ v[n] # Empty
      /\ Last(v) = v[n] /\ HasQuad(v)
  BY <1>2 DEF Quad, Listing
<1>4. \A k \in 1..n : v[k] # Empty
  <2>1. ASSUME NEW k \in 1..n PROVE v[k] # Empty
    <3>1. CASE k = n
      BY <1>3, <3>1
    <3>2. CASE k # n
      <4>1. k \in 1..(n - 1) /\ k \in 1..Groups
        BY <1>1, <1>2, <3>2
      <4>2. QED
        BY <1>3, <4>1, FullIs
    <3>3. QED
      BY <3>1, <3>2
  <2>2. QED
    BY <2>1
<1>5. Last(v) # Empty /\ Head(v) # Empty
  <2>1. v \in Seq(Seq(Nat)) /\ 1 \in 1..n
    BY <1>2, <1>3
  <2>2. Head(v) = v[1]
    BY <1>2, <1>3, <2>1
  <2>3. QED
    BY <1>3, <1>4, <2>1, <2>2
<1>6. DoubleColons(v) = 0
  <2>1. \A k \in 1..n : ~InnerAt(v, k) /\ k # m
    BY <1>1, <1>2, <1>4 DEF InnerAt
  <2>2. QED
    BY <1>2, <1>3, <2>1, DoublesAre
<1>7. IsIPv6(v)
  <2>1. PICK d : d = 0
    OBVIOUS
  <2>2. d \in {0, 1} /\ DoubleColons(v) = d /\ n - d <= Groups /\ n <= Groups /\ n - d <= Groups - 1
    BY <1>1, <1>2, <1>6, <2>1
  <2>3. QED
    BY <1>2, <1>3, <1>5, <2>1, <2>2, JudgedBy
<1>8. QED
  BY <1>5, <1>7 DEF Judged, AtAnEnd

LEMMA CutQuadJudged ==
  ASSUME NEW h \in [1..Groups -> Nat], NEW i, NEW j, NEW u, NEW n, NEW c, CutParts(u, h, i, j, n, c),
         n > 2, u[n - 1] # Empty, u[n] # Empty, NEW v, Quad(v, u, n)
  PROVE  Judged(v)
<1>1. /\ n \in Nat /\ n >= 1 /\ i \in 1..n /\ Groups \in Nat /\ Groups > 2 /\ c \in 0..2 /\ i + c <= n
      /\ n = (Groups - (j - i)) + c /\ j \in i..Groups /\ Listing(u, n, Seq(Nat))
      /\ (i = 1 /\ j = Groups <=> c = 2) /\ (i # 1 /\ j # Groups <=> c = 0)
      /\ (\A k \in 1..n : u[k] = Empty <=> k \in i..(i + c))
  BY DEF CutParts
<1>2. i \in Nat /\ j \in Nat /\ c \in Nat /\ i >= 1 /\ i <= j /\ j <= Groups
  BY <1>1
<1>3. i + c < n - 1
  <2>1. n - 1 \in 1..n /\ n \in 1..n
    BY <1>1
  <2>2. ~(n - 1 \in i..(i + c)) /\ ~(n \in i..(i + c))
    BY <1>1, <2>1
  <2>3. QED
    BY <1>1, <1>2, <2>2
<1>4. j # Groups /\ c = IF i = 1 THEN 1 ELSE 0
  BY <1>1, <1>2, <1>3
<1>5. PICK l : l = n - 1
  OBVIOUS
<1>6. l \in Nat /\ l >= 2 /\ l - 1 = n - 2
  BY <1>1, <1>5
<1>7. /\ v \in [1..l -> Seq(Nat)] /\ Len(v) = l /\ DOMAIN v = 1..l
      /\ (\A k \in 1..(l - 1) : v[k] = u[k]) /\ v[l] # Empty
      /\ Last(v) = v[l] /\ HasQuad(v)
  BY <1>5, <1>6 DEF Quad, Listing
<1>8. Head(v) = Empty <=> i = 1
  <2>1. v \in Seq(Seq(Nat)) /\ v # << >>
    BY <1>6, <1>7
  <2>2. Head(v) = v[1]
    BY <2>1
  <2>3. 1 \in 1..(l - 1) /\ 1 \in 1..n
    BY <1>1, <1>6
  <2>4. 1 \in i..(i + c) <=> i = 1
    BY <1>2
  <2>5. QED
    BY <1>1, <1>7, <2>2, <2>3, <2>4
<1>9. AtAnEnd(v) <=> i = 1
  BY <1>7, <1>8 DEF AtAnEnd
<1>10. DoubleColons(v) = 1
  <2>1. PICK m : m = IF i = 1 THEN 2 ELSE i
    OBVIOUS
  <2>2. m \in Nat /\ m >= 1 /\ ~(l < m) /\ m <= l - 1 /\ m >= 2
    BY <1>1, <1>2, <1>3, <1>4, <1>5, <2>1
  <2>3. ASSUME NEW k \in 1..l PROVE InnerAt(v, k) <=> k = m
    <3>1. CASE k \in 2..(l - 1)
      <4>1. k \in 1..(l - 1) /\ k \in 1..n
        BY <1>1, <1>5, <3>1
      <4>2. InnerAt(v, k) <=> k \in i..(i + c)
        BY <1>1, <1>7, <3>1, <4>1 DEF InnerAt
      <4>3. k \in i..(i + c) <=> k = m
        BY <1>2, <1>4, <2>1, <3>1
      <4>4. QED
        BY <4>2, <4>3
    <3>2. CASE ~(k \in 2..(l - 1))
      <4>1. ~InnerAt(v, k)
        BY <1>7, <3>2 DEF InnerAt
      <4>2. k # m
        BY <1>6, <2>2, <3>2
      <4>3. QED
        BY <4>1, <4>2
    <3>3. QED
      BY <3>1, <3>2
  <2>4. QED
    BY <1>6, <1>7, <2>2, <2>3, DoublesAre
<1>11. IsIPv6(v) <=> n <= Groups
  <2>1. PICK d : d = 1
    OBVIOUS
  <2>2. d \in {0, 1} /\ DoubleColons(v) = d /\ l - d <= Groups /\ l <= Groups
        /\ (l - d < Groups - 1 <=> n <= Groups) /\ (l - d <= Groups - 1)
    <3>1. n <= Groups + 1
      BY <1>1, <1>2, <1>4
    <3>2. l - 1 <= Groups /\ l <= Groups /\ (l - 1 < Groups - 1 <=> n <= Groups) /\ l - 1 <= Groups - 1
      BY <1>1, <1>5, <3>1
    <3>3. QED
      BY <1>10, <2>1, <3>2
  <2>3. QED
    BY <1>6, <1>7, <2>1, <2>2, JudgedBy
<1>12. Words(v) = ((Groups - (j - i)) - 1) - 1
  <2>1. Words(u) = (Groups - (j - i)) - 1
    BY WordsOfCut
  <2>2. Listing(u, n, Seq(Nat))
    BY <1>1
  <2>3. Words(v) = Words(u) - 1
    BY <2>2, WordsOfQuad
  <2>4. QED
    BY <2>1, <2>3
<1>13. ~(n <= Groups) <=> i = 1 /\ ((Groups - (j - i)) - 1) - 1 = Groups - 2
  BY <1>1, <1>2, <1>4
<1>14. QED
  BY <1>7, <1>9, <1>11, <1>12, <1>13 DEF Judged

-----------------------------------------------------------------------------
\* Every way to write an address is read alike.

LEMMA QuadReads ==
  ASSUME NEW h \in [1..Groups -> Nat], NEW u \in Written(h), NEW n, n = Len(u), n > 2,
         u[n - 1] # Empty, u[n] # Empty
  PROVE  Hextets(WithQuad(u)) = Full(h) /\ Judged(WithQuad(u)) /\ HasQuad(WithQuad(u))
<1>1. PICK v : v = WithQuad(u)
  OBVIOUS
<1>2. Hextets(u) = Full(h)
  BY WrittenReads
<1>3. ASSUME ExpandIPv4Mapped(v) = u, ExpandIPv4Mapped(u) = u
      PROVE  Hextets(v) = Full(h)
  <2>1. Hextets(v) = Hextets(u)
    BY <1>3 DEF Hextets
  <2>2. QED
    BY <1>2, <2>1
<1>4. CASE u = Full(h)
  <2>1. /\ Groups \in Nat /\ Groups > 2 /\ n = Groups /\ u \in Seq(Seq(Nat)) /\ Len(u) = Groups
        /\ \A k \in 1..Groups : u[k] = <<h[k]>>
        /\ ~HasQuad(u)
    BY <1>4, Widths, FullIs
  <2>2. Listing(u, n, Seq(Nat))
    BY <2>1 DEF Listing
  <2>3. n - 1 \in 1..Groups /\ n \in 1..Groups
    BY <2>1
  <2>4. PICK x \in Nat, y \in Nat : u[n - 1] = <<x>> /\ u[n] = <<y>>
    BY <2>1, <2>3
  <2>5. Quad(v, u, n) /\ ExpandIPv4Mapped(v) = u
    BY <1>1, <2>2, <2>4, QuadIs
  <2>6. ExpandIPv4Mapped(u) = u
    BY <2>1 DEF ExpandIPv4Mapped
  <2>7. Quad(v, Full(h), Groups)
    BY <1>4, <2>1, <2>5
  <2>8. Judged(v)
    BY <2>7, FullQuadJudged
  <2>9. QED
    BY <1>1, <1>3, <2>5, <2>6, <2>8 DEF Quad
<1>5. CASE \E i, j : Run(h, i, j) /\ u = Cut(h, i, j)
  <2>1. PICK i, j : Run(h, i, j) /\ u = Cut(h, i, j)
    BY <1>5
  <2>2. PICK m, c : m = Parts6(i, j) /\ c = Ends(i, j)
    OBVIOUS
  <2>3. CutParts(u, h, i, j, m, c)
    BY <2>1, <2>2, PartsOfCut
  <2>4. Listing(u, m, Seq(Nat)) /\ Len(u) = m /\ m \in Nat
    BY <2>3 DEF CutParts
  <2>5. m = n
    BY <2>4
  <2>6. CutParts(u, h, i, j, n, c) /\ Listing(u, n, Seq(Nat)) /\ n \in Nat
    BY <2>3, <2>4, <2>5
  <2>7. /\ \A k \in 1..n : u[k] = Empty \/ \E x \in Nat : u[k] = <<x>>
        /\ ExpandIPv4Mapped(u) = u
    BY <2>6, ShortWords
  <2>8. n - 1 \in 1..n /\ n \in 1..n
    BY <2>6
  <2>9. PICK x \in Nat, y \in Nat : u[n - 1] = <<x>> /\ u[n] = <<y>>
    BY <2>7, <2>8
  <2>10. Quad(v, u, n) /\ ExpandIPv4Mapped(v) = u
    BY <1>1, <2>6, <2>9, QuadIs
  <2>11. Judged(v)
    BY <2>6, <2>10, CutQuadJudged
  <2>12. QED
    BY <1>1, <1>3, <2>7, <2>10, <2>11 DEF Quad
<1>6. QED
  BY <1>4, <1>5, WrittenIs

LEMMA WordsCut ==
  ASSUME NEW h \in [1..Groups -> Nat], NEW i, NEW j, Run(h, i, j)
  PROVE  /\ Words(Cut(h, i, j)) = (Groups - (j - i)) - 1
         /\ i \in Nat /\ j \in Nat
         /\ Judged(Cut(h, i, j)) /\ ~HasQuad(Cut(h, i, j))
<1>1. PICK t, n, c : t = Cut(h, i, j) /\ n = Parts6(i, j) /\ c = Ends(i, j)
  OBVIOUS
<1>2. CutParts(t, h, i, j, n, c)
  BY <1>1, PartsOfCut
<1>3. Words(t) = (Groups - (j - i)) - 1 /\ Judged(t) /\ ~HasQuad(t)
  BY <1>2, WordsOfCut, CutJudged, ShortWords
<1>4. i \in Nat /\ j \in Nat
  BY Widths DEF Run
<1>5. QED
  BY <1>1, <1>3, <1>4

\* The hextets of a text, in the case they are read in.
AsRead(h, text) == IF HasQuad(text) THEN LowerTail(h) ELSE h

LEMMA LowerTailIs ==
  ASSUME NEW h \in [1..Groups -> Nat]
  PROVE  LowerTail(h) \in [1..Groups -> Nat] /\ Number6(LowerTail(h)) = Number6(h)
<1>1. PICK l : l = LowerTail(h)
  OBVIOUS
<1>2. \A i \in 1..Groups : h[i] \in Nat /\ Value(h[i]) \in Nat /\ Value(Value(h[i])) = Value(h[i])
  BY ValueIs
<1>3. \A i \in 1..Groups : l[i] \in Nat /\ Value(l[i]) = Value(h[i])
  BY <1>1, <1>2 DEF LowerTail
<1>4. l = [i \in 1..Groups |-> l[i]]
  BY <1>1 DEF LowerTail
<1>5. [i \in 1..Groups |-> Value(l[i])] = [i \in 1..Groups |-> Value(h[i])]
  BY <1>3
<1>6. QED
  BY <1>1, <1>3, <1>4, <1>5 DEF Number6

LEMMA TextReads ==
  ASSUME NEW h \in [1..Groups -> Nat], NEW text \in Texts(h)
  PROVE  Hextets(text) = Full(AsRead(h, text)) /\ Judged(text)
<1>1. CASE text \in Written(h)
  <2>0. ~HasQuad(text)
    <3>1. text = Full(h) \/ \E i, j : Run(h, i, j) /\ text = Cut(h, i, j)
      BY <1>1, WrittenIs
    <3>2. QED
      BY <3>1, FullIs, WordsCut
  <2>1. Hextets(text) = Full(h) /\ AsRead(h, text) = h
    BY <1>1, <2>0, WrittenReads DEF AsRead
  <2>2. CASE text = Full(h)
    BY <2>1, <2>2, FullJudged
  <2>3. CASE \E i, j : Run(h, i, j) /\ text = Cut(h, i, j)
    <3>1. PICK i, j : Run(h, i, j) /\ text = Cut(h, i, j)
      BY <2>3
    <3>2. CutParts(text, h, i, j, Parts6(i, j), Ends(i, j))
      BY <3>1, PartsOfCut
    <3>3. QED
      BY <2>1, <3>2, CutJudged
  <2>4. QED
    BY <1>1, <2>2, <2>3, WrittenIs
<1>2. CASE \E u \in Written(LowerTail(h)) : /\ text = WithQuad(u) /\ Len(u) > 2
                                            /\ u[Len(u) - 1] # Empty /\ u[Len(u)] # Empty
  <2>1. PICK l : l = LowerTail(h)
    OBVIOUS
  <2>2. l \in [1..Groups -> Nat]
    BY <2>1, LowerTailIs
  <2>3. PICK u \in Written(l) : /\ text = WithQuad(u) /\ Len(u) > 2
                                /\ u[Len(u) - 1] # Empty /\ u[Len(u)] # Empty
    BY <1>2, <2>1
  <2>4. Hextets(text) = Full(l) /\ Judged(text) /\ HasQuad(text)
    BY <2>2, <2>3, QuadReads
  <2>5. QED
    BY <2>1, <2>4 DEF AsRead
<1>3. text \in Written(h)
        \/ \E u \in Written(LowerTail(h)) :
                                 /\ text = WithQuad(u) /\ Len(u) > 2
                                 /\ u[Len(u) - 1] # Empty /\ u[Len(u)] # Empty
  BY DEF Texts
<1>4. QED
  BY <1>1, <1>2, <1>3

\* The shortest of the texts of an address.
Minimal(h, s) ==
  /\ \A t \in Written(h) \ {Full(h)} : Words(t) < Groups - 1 => Words(s) <= Words(t)
  /\ s # Full(h) => Words(s) < Groups - 1
  /\ IsIPv6(s)

LEMMA ShortestIsMinimal ==
  ASSUME NEW h \in [1..Groups -> Nat], NEW s, Shortest(h, s)
  PROVE  Minimal(h, s)
<1>1. Groups \in Nat
  BY Widths
<1>2. ASSUME NEW t \in Written(h), t # Full(h), Words(t) < Groups - 1
      PROVE  \E a, b : /\ Run(h, a, b) /\ a \in Nat /\ b \in Nat /\ a < b
                       /\ Words(t) = (Groups - (b - a)) - 1
  <2>1. PICK a, b : Run(h, a, b) /\ t = Cut(h, a, b)
    BY <1>2, WrittenIs
  <2>2. Words(t) = (Groups - (b - a)) - 1 /\ a \in Nat /\ b \in Nat
    BY <2>1, WordsCut
  <2>3. a < b
    BY <1>1, <1>2, <2>2
  <2>4. QED
    BY <2>1, <2>2, <2>3
<1>3. CASE s = Full(h) /\ \A a, b : Run(h, a, b) => b <= a
  <2>1. ASSUME NEW t \in Written(h), t # Full(h), Words(t) < Groups - 1
        PROVE  FALSE
    <3>1. PICK a, b : Run(h, a, b) /\ a \in Nat /\ b \in Nat /\ a < b
      BY <1>2, <2>1
    <3>2. b <= a
      BY <1>3, <3>1
    <3>3. QED
      BY <3>1, <3>2
  <2>2. IsIPv6(s)
    BY <1>3, FullJudged
  <2>3. QED
    BY <1>3, <2>1, <2>2 DEF Minimal
<1>4. CASE \E i, j : /\ Run(h, i, j) /\ i < j /\ s = Cut(h, i, j)
                     /\ \A a, b : Run(h, a, b) => b - a <= j - i
  <2>1. PICK i, j : /\ Run(h, i, j) /\ i < j /\ s = Cut(h, i, j)
                    /\ \A a, b : Run(h, a, b) => b - a <= j - i
    BY <1>4
  <2>2. /\ Words(s) = (Groups - (j - i)) - 1 /\ i \in Nat /\ j \in Nat
        /\ Judged(s) /\ ~HasQuad(s)
    BY <2>1, WordsCut
  <2>3. Words(s) < Groups - 1
    BY <1>1, <2>1, <2>2
  <2>4. IsIPv6(s)
    <3>1. Words(s) # Groups - 1
      BY <1>1, <2>1, <2>2
    <3>2. QED
      BY <2>2, <3>1 DEF Judged
  <2>5. ASSUME NEW t \in Written(h), t # Full(h), Words(t) < Groups - 1
        PROVE  Words(s) <= Words(t)
    <3>1. PICK a, b : /\ Run(h, a, b) /\ a \in Nat /\ b \in Nat /\ a < b
                      /\ Words(t) = (Groups - (b - a)) - 1
      BY <1>2, <2>5
    <3>2. b - a <= j - i
      BY <2>1, <3>1
    <3>3. QED
      BY <1>1, <2>2, <3>1, <3>2
  <2>6. QED
    BY <2>3, <2>4, <2>5 DEF Minimal
<1>5. QED
  BY <1>3, <1>4 DEF Shortest

\* What the calls promise, said of their inputs and results.
TextRight(h, text, value, number, short, valid, prefix) ==
  /\ number = Number6(value) /\ h = AsRead(value, text) /\ short \in Written(h) /\ Minimal(h, short)
  /\ short = CompressIPv6Address(Full(h))
  /\ ~valid <=> AtAnEnd(text) /\ Words(text) = IF HasQuad(text) THEN Groups - 2 ELSE Groups - 1
  /\ prefix = IF valid THEN short ELSE text

LEMMA TextOf ==
  ASSUME NEW value \in Values6, NEW text \in Texts(value), NEW h, h = AsRead(value, text)
  PROVE  TextRight(h, text, value, ConvertIPv6ToInt(text), CompressIPv6Address(text),
                   IsIPv6(text), GetCompressedPrefixMask(text))
<1>0. value \in [1..Groups -> Nat]
  BY HextetsOfInput
<1>1. h \in [1..Groups -> Nat] /\ Number6(h) = Number6(value)
  BY <1>0, LowerTailIs DEF AsRead
<1>2. Hextets(text) = Full(h) /\ Judged(text)
  BY <1>0, TextReads
<1>3. ConvertIPv6ToInt(text) = Number6(value)
  BY <1>1, <1>2, ReadAs
<1>4. /\ CompressIPv6Address(text) \in Written(h)
      /\ CompressIPv6Address(text) = CompressIPv6Address(Full(h))
  BY <1>1, <1>2, ShortIsWritten
<1>5. Minimal(h, CompressIPv6Address(text))
  BY <1>1, <1>2, CompressIs, ShortestIsMinimal
<1>6. QED
  BY <1>2, <1>3, <1>4, <1>5 DEF TextRight, Judged, GetCompressedPrefixMask

LEMMA TextCall ==
  ASSUME ReadAddress
  PROVE  AddressTextIsCanonical'
<1>1. PICK h \in Values6 : \E text \in Texts(h) :
        /\ call' = [kind |-> "text", value |-> h, text |-> text]
        /\ result' = [number |-> ConvertIPv6ToInt(text), short |-> CompressIPv6Address(text),
                      valid |-> IsIPv6(text), prefix |-> GetCompressedPrefixMask(text)]
  BY DEF ReadAddress
<1>2. PICK text \in Texts(h) :
        /\ call' = [kind |-> "text", value |-> h, text |-> text]
        /\ result' = [number |-> ConvertIPv6ToInt(text), short |-> CompressIPv6Address(text),
                      valid |-> IsIPv6(text), prefix |-> GetCompressedPrefixMask(text)]
  BY <1>1
<1>3. TextRight(AsRead(h, text), text, h, ConvertIPv6ToInt(text), CompressIPv6Address(text),
                IsIPv6(text), GetCompressedPrefixMask(text))
  BY TextOf
<1>4. /\ call'.value = h /\ call'.text = text
      /\ result'.number = ConvertIPv6ToInt(text) /\ result'.short = CompressIPv6Address(text)
      /\ result'.valid = IsIPv6(text) /\ result'.prefix = GetCompressedPrefixMask(text)
  BY <1>2
<1>5. TextRight(AsRead(call'.value, call'.text), call'.text, call'.value, result'.number,
                result'.short, result'.valid, result'.prefix)
  BY <1>3, <1>4
<1>6. QED
  BY <1>5 DEF AddressTextIsCanonical, TextRight, AsRead, Minimal, AtAnEnd, Words, WordsIn

LEMMA SubnetCall ==
  ASSUME NEW number, call'.kind \in {"subnet4", "subnet6"},
         number = IF call'.kind = "subnet6" THEN Number6(call'.value) ELSE Number4(call'.value),
         SubnetRight(number, call'.bits, call'.limit, result'.network, result'.list)
  PROVE  SubnetsHoldTheirAddresses'
<1>1. call'.kind # "mask"
  OBVIOUS
<1>2. QED
  BY <1>1 DEF SubnetsHoldTheirAddresses, SubnetRight, ListRight

LEMMA Subnet6Call ==
  ASSUME ListSubnet6
  PROVE  SubnetsHoldTheirAddresses'
<1>1. PICK h \in Values6, bits \in HostBits, limit \in Limits :
        /\ call' = [kind |-> "subnet6", value |-> h, bits |-> bits, limit |-> limit]
        /\ result' = [network |-> ConvertIPv6ToInt(GetNetworkForAddress6(Full(h), Width6 - bits)),
                      list |-> [i \in DOMAIN GetAddressesInSubnet6(Full(h), Width6 - bits, limit) |->
                                  ConvertIPv6ToInt(GetAddressesInSubnet6(Full(h), Width6 - bits, limit)[i])]]
  BY DEF ListSubnet6
<1>2. PICK text, p, a : text = Full(h) /\ p = Width6 - bits /\ a = GetAddressesInSubnet6(text, p, limit)
  OBVIOUS
<1>3. SubnetRight(Number6(h), bits, limit, ConvertIPv6ToInt(GetNetworkForAddress6(text, p)),
                  [i \in DOMAIN a |-> ConvertIPv6ToInt(a[i])])
  BY <1>2, Subnet6
<1>4. /\ call'.kind = "subnet6" /\ call'.value = h /\ call'.bits = bits /\ call'.limit = limit
      /\ result'.network = ConvertIPv6ToInt(GetNetworkForAddress6(text, p))
      /\ result'.list = [i \in DOMAIN a |-> ConvertIPv6ToInt(a[i])]
  BY <1>1, <1>2
<1>5. SubnetRight(Number6(h), call'.bits, call'.limit, result'.network, result'.list)
  BY <1>3, <1>4
<1>6. Number6(h) = IF call'.kind = "subnet6" THEN Number6(call'.value) ELSE Number4(call'.value)
  BY <1>4
<1>7. QED
  BY <1>4, <1>5, <1>6, SubnetCall

LEMMA Subnet4Call ==
  ASSUME ListSubnet4
  PROVE  SubnetsHoldTheirAddresses'
<1>1. PICK o \in Values4, bits \in HostBits, limit \in Limits :
        /\ call' = [kind |-> "subnet4", value |-> o, bits |-> bits, limit |-> limit]
        /\ result' = [network |-> Number4(GetNetworkForAddress4(o, Width4 - bits)),
                      list |-> [i \in DOMAIN GetAddressesInSubnet4(o, Width4 - bits, limit) |->
                                  Number4(GetAddressesInSubnet4(o, Width4 - bits, limit)[i])]]
  BY DEF ListSubnet4
<1>2. PICK p, a : p = Width4 - bits /\ a = GetAddressesInSubnet4(o, p, limit)
  OBVIOUS
<1>3. SubnetRight(Number4(o), bits, limit, Number4(GetNetworkForAddress4(o, p)),
                  [i \in DOMAIN a |-> Number4(a[i])])
  BY <1>2, Subnet4
<1>4. /\ call'.kind = "subnet4" /\ call'.value = o /\ call'.bits = bits /\ call'.limit = limit
      /\ result'.network = Number4(GetNetworkForAddress4(o, p))
      /\ result'.list = [i \in DOMAIN a |-> Number4(a[i])]
  BY <1>1, <1>2
<1>5. SubnetRight(Number4(o), call'.bits, call'.limit, result'.network, result'.list)
  BY <1>3, <1>4
<1>6. Number4(o) = IF call'.kind = "subnet6" THEN Number6(call'.value) ELSE Number4(call'.value)
  BY <1>4
<1>7. QED
  BY <1>4, <1>5, <1>6, SubnetCall

LEMMA MaskCall ==
  ASSUME ConvertMask
  PROVE  SubnetsHoldTheirAddresses'
<1>1. PICK p \in 0..Width6 :
        /\ call' = [kind |-> "mask", p |-> p]
        /\ result' = [six  |-> ConvertIPv6ToInt(PrefixLengthToIPv6Netmask(p)),
                      four |-> IF p > Width4 THEN p
                               ELSE NetmaskToPrefixLength(PrefixLengthToIPv4Netmask(p))]
  BY DEF ConvertMask
<1>2. /\ ConvertIPv6ToInt(PrefixLengthToIPv6Netmask(p)) = Pow2(Width6) - Pow2(Width6 - p)
      /\ ~(p > Width4) => NetmaskToPrefixLength(PrefixLengthToIPv4Netmask(p)) = p
  BY Mask
<1>3. call'.kind = "mask" /\ call'.p = p
  BY <1>1
<1>4. result'.six = Pow2(Width6) - Pow2(Width6 - p) /\ result'.four = p
  BY <1>1, <1>2
<1>5. QED
  BY <1>3, <1>4 DEF SubnetsHoldTheirAddresses

(* However an address of any number of hextets is written, it is read as   *)
(* the same number; in whatever case its letters are, they keep it, and    *)
(* all writings in that case are shortened to the same text, the shortest  *)
(* there is.  compress_ipv6_address of utils/ip.py.                        *)
THEOREM AddressText == Spec => []AddressTextIsCanonical
<1>1. Init => AddressTextIsCanonical
  BY DEF Init, Idle, AddressTextIsCanonical
<1>2. AddressTextIsCanonical /\ [Next]_vars => AddressTextIsCanonical'
  <2>1. SUFFICES ASSUME AddressTextIsCanonical, [Next]_vars PROVE AddressTextIsCanonical'
    OBVIOUS
  <2>2. CASE call'.kind = "text"
    <3>1. CASE ReadAddress
      BY <3>1, TextCall
    <3>2. CASE UNCHANGED vars
      BY <2>1, <3>2 DEF vars, AddressTextIsCanonical
    <3>3. QED
      BY <2>1, <2>2, <3>1, <3>2, OneKindOfCall
  <2>3. CASE call'.kind # "text"
    BY <2>3 DEF AddressTextIsCanonical
  <2>4. QED
    BY <2>2, <2>3
<1>3. QED
  BY <1>1, <1>2, PTL DEF Spec

(* The addresses listed for a network lie in it, whatever its width, its   *)
(* number of host bits and how many addresses are asked for; the octets of *)
(* IPv4 and the masks agree with whole numbers.                            *)
THEOREM SubnetsHold == Spec => []SubnetsHoldTheirAddresses
<1>1. Init => SubnetsHoldTheirAddresses
  BY DEF Init, Idle, SubnetsHoldTheirAddresses
<1>2. SubnetsHoldTheirAddresses /\ [Next]_vars => SubnetsHoldTheirAddresses'
  <2>1. SUFFICES ASSUME SubnetsHoldTheirAddresses, [Next]_vars PROVE SubnetsHoldTheirAddresses'
    OBVIOUS
  <2>2. CASE call'.kind \in {"subnet4", "subnet6", "mask"}
    <3>1. CASE ListSubnet6
      BY <3>1, Subnet6Call
    <3>2. CASE ListSubnet4
      BY <3>2, Subnet4Call
    <3>3. CASE ConvertMask
      BY <3>3, MaskCall
    <3>4. CASE UNCHANGED vars
      BY <2>1, <3>4 DEF vars, SubnetsHoldTheirAddresses
    <3>5. QED
      BY <2>1, <2>2, <3>1, <3>2, <3>3, <3>4, OneKindOfCall
  <2>3. CASE call'.kind \notin {"subnet4", "subnet6", "mask"}
    BY <2>3 DEF SubnetsHoldTheirAddresses
  <2>4. QED
    BY <2>2, <2>3
<1>3. QED
  BY <1>1, <1>2, PTL DEF Spec
=============================================================================
