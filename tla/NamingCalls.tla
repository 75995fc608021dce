---------------------------- MODULE NamingCalls ----------------------------
(***************************************************************************)
(* The functions of the SDK that name things, called by a script with any  *)
(* of their inputs: ports by utils/interface.py, the rows of a node's      *)
(* hardware by common/component.py.  A state is one call and its result;   *)
(* what has to hold of the functions is said of every call, or of two      *)
(* calls side by side.                                                     *)
(***************************************************************************)
EXTENDS Integers, Sequences

CONSTANTS Numbers,    \* what cards, ports, loopbacks and lags are numbered
          Extras,     \* the numbers of XIOMs and of the parts of a broken out port
          Letters,    \* the MDAs: 1 is "a"
          Node,       \* the names of nodes
          NodeWords,  \* which of the searched words are in such a name
          Slot,       \* the keys of hardware rows
          Types,      \* what a lookup finds as the type of a component
          Admins,     \* and as its administrative state
          Times       \* and when it was last booted

Port == INSTANCE PortNames
Comp == INSTANCE Components

ASSUME NumberAssumption == Numbers \cup Extras \cup Letters \subseteq Nat

\* A slot's key is a number or a letter, none of the words the code looks for.
ASSUME SlotAssumption == Slot \cap Comp!Searched = {}

ASSUME FactAssumption == Comp!NoRow \notin Types \cup Admins \cup Times

VARIABLES call, result
vars == <<call, result>>

Idle == [kind |-> "idle"]

Init == call = Idle /\ result = << >>

Return == call # Idle /\ call' = Idle /\ result' = << >>

----------------------------------------------------------------------------
(* Ports.  A port is on a card, or on an MDA of a card, or on an MDA of an *)
(* XIOM, and may be broken out.                                            *)

EthernetNames ==
  LET E    == Port!Word("ethernet")
      N(n) == Port!Number(n)
      L(k) == Port!Letter(k)
  IN  UNION {{<<E, N(c), N(p)>>              : c \in Numbers, p \in Numbers},
             {<<E, N(c), N(p), N(b)>>        : c \in Numbers, p \in Numbers, b \in Extras},
             {<<E, N(c), L(m), N(p)>>        : c \in Numbers, m \in Letters, p \in Numbers},
             {<<E, N(c), L(m), N(p), N(b)>>  :
                c \in Numbers, m \in Letters, p \in Numbers, b \in Extras},
             {<<E, N(c), N(x), L(m), N(p)>>  :
                c \in Numbers, x \in Extras, m \in Letters, p \in Numbers},
             {<<E, N(c), N(x), L(m), N(p), N(b)>> :
                c \in Numbers, x \in Extras, m \in Letters, p \in Numbers, b \in Extras}}

LoopbackNames == {<<Port!Word("loopback"), Port!Number(n)>> : n \in Numbers}
LagNames      == {<<Port!Word("lag"), Port!Number(n)>> : n \in Numbers}
SystemName    == <<Port!Word("system0")>>
PortNameSet   == EthernetNames \cup LoopbackNames \cup LagNames \cup {SystemName}
Systems       == {"srl", "sros", "eos", "nxos", "ios-xr"}

Info(name, os) == Port!GetNodeInterfaceInfo(name, os, name \in LoopbackNames)

NamePorts ==
  /\ call = Idle
  /\ \E os \in Systems : \E p, q \in PortNameSet :
       /\ call' = [kind |-> "ports", os |-> os, p |-> p, q |-> q]
       /\ result' = [p |-> Info(p, os), q |-> Info(q, os),
                     lag |-> IF p \in LagNames THEN Port!GetLagName(p[2].number, os)
                             ELSE Port!NoName]

FirstMda(name) == Len(name) > 3 /\ name[3] = Port!Letter(1)

\* the name without a first MDA
Implicit(name) ==
  IF FirstMda(name) THEN [i \in 1..(Len(name) - 1) |-> name[IF i < 3 THEN i ELSE i + 1]] ELSE name

\* ethernet-2-b-1: IOS XR is to call it GigabitEthernet0/1/1/0, as the comment
\* above to_iosxr_interface has it, but the function raises on the letter before
\* it comes to the branch for MDAs.
Disputed(name, os) == os = "ios-xr" /\ Len(name) = 4 /\ Port!IsLetter(name[3])

(* Two ports of a node never get the same name on its device, but for two  *)
(* collisions: SR OS names the first MDA whether it is written or not, and *)
(* EOS calls every port "ethernet" that is not just a card and a port.     *)
(* NX-OS and IOS XR have no name for some ports, and fail on others; what  *)
(* IOS XR does with the MDA of a card, where code and comment disagree, is *)
(* left open.  A lag is called the same by its number as by its name.      *)
(* get_node_interface_info, to_*_interface, get_lag_name of                *)
(* utils/interface.py.                                                     *)
PortsStayApart ==
  call.kind = "ports" =>
    LET Nameless(info) == info \in {Port!Raised, Port!Absent}
        Other(name)    == name \in EthernetNames /\ Len(name) # 3
        Collide        == result.p.name = result.q.name /\ ~Nameless(result.p)
    IN  /\ call.p # call.q /\ Collide =>
             \/ call.os = "sros" /\ Implicit(call.p) = Implicit(call.q)
             \/ call.os = "eos" /\ Other(call.p) /\ Other(call.q)
        /\ Nameless(result.p) /\ ~Disputed(call.p, call.os) =>
             call.os \in {"nxos", "ios-xr"} /\ Len(call.p) # 3
        /\ call.p \in LagNames /\ ~Nameless(result.p) => result.lag = result.p.name

----------------------------------------------------------------------------
(* Components.  A node runs SR Linux or SR OS, whatever its name says; the *)
(* keys of its slots are quoted in a path or not.                          *)

NodeNames == [name : Node, words : NodeWords]

ListText(list) ==
  [name |-> list, words |-> CASE list = "fan-tray" -> {"fan"}
                              [] list = "linecard" -> {"linecard", "card"}
                              [] OTHER             -> {list}]

KeyOf(text, quoted) == [name |-> "id", value |-> text, quoted |-> quoted]

\* The chassis is the only list whose rows have no key of their own.
PathTo(node, os, list, slots, quoted) ==
  LET Row(i) == Comp!Element(ListText(list[i]),
                  IF list[i] = "chassis" THEN Comp!NoKey
                  ELSE KeyOf(Comp!Plain(slots[i]), quoted))
      prefix == <<Comp!Element(Comp!Plain("node"), KeyOf(node, TRUE)),
                  Comp!Element(Comp!Plain(os), Comp!NoKey)>>
      data   == IF os = "sros" THEN <<Comp!Element(Comp!Plain("hardware-data"), Comp!NoKey)>>
                ELSE << >>
  IN  prefix \o [i \in DOMAIN list |-> Row(i)] \o data

Lists(os) == IF os = "srl" THEN Comp!SrlLists ELSE Comp!SrosLists

Rows(os) ==
  UNION {{[list |-> list, slots |-> [i \in DOMAIN list |-> IF list[i] = "chassis" THEN "" ELSE s[i]]] :
            s \in [DOMAIN list -> Slot]} : list \in Lists(os)}

Missed(fact, missing, found) == IF fact \in missing THEN Comp!NoRow ELSE found

\* What the lookups find once those of the facts in missing find no row.
Without(found, missing) ==
  [equipped |-> Missed("equipped", missing, found.equipped),
   admin    |-> Missed("admin", missing, found.admin),
   platform |-> Missed("platform", missing, found.platform),
   boot     |-> Missed("boot", missing, found.boot)]

RowValues == [oper : {"up"}, type : Types, admin : Admins, made : {"        "},
              change : Times \cup {""}, boot : Times \cup {""}]

Lookups == [equipped : Types \cup {""}, admin : Admins, platform : Types \cup {""},
            boot : Times \cup {""}]

Facts == {"equipped", "admin", "platform", "boot"}

\* A row that says nothing, and lookups that say nothing.
Plainly == [oper |-> "", type |-> "", admin |-> "", made |-> "", change |-> "", boot |-> ""]
Nothing == [equipped |-> "", admin |-> "", platform |-> "", boot |-> ""]

NameComponents ==
  /\ call = Idle
  /\ \E node \in NodeNames, os \in {"srl", "sros"}, quoted, micropython \in BOOLEAN :
     \E r, s \in Rows(os) :
       LET Made(row) == Comp!Component(PathTo(node, os, row.list, row.slots, quoted), Plainly, Nothing,
                                       micropython)
       IN  /\ call' = [kind |-> "components", node |-> node, os |-> os, quoted |-> quoted,
                       micropython |-> micropython, r |-> r, s |-> s]
           /\ result' = [r |-> Made(r), s |-> Made(s)]

LookUpComponent ==
  /\ call = Idle
  /\ \E os \in {"srl", "sros"}, value \in RowValues, found \in Lookups, missing \in SUBSET Facts :
     \E name \in Node, r \in Rows(os) :
       LET node == [name |-> name, words |-> {}]
           Made(db) == Comp!Component(PathTo(node, os, r.list, r.slots, TRUE), value, db, FALSE)
       IN  /\ call' = [kind |-> "lookups", os |-> os, value |-> value, found |-> found,
                       missing |-> missing, r |-> r]
           /\ result' = [made |-> Made(Without(found, missing)), best |-> Made(found)]

(* Two components of a node share a name only if they are power modules in *)
(* the same place of two shelves; that takes a node whose name is not      *)
(* itself one of the words the code looks for, and on SR OS quoted keys.   *)
(* common/component.py: normalize_name, get_cr_name, get_cr_type.          *)
ComponentsStayApart ==
  call.kind = "components" =>
    LET Kind(row)  == row.list[Len(row.list)]
        Place(row) == row.slots[Len(row.slots)]
        sound == call.node.words = {} /\ (call.os = "sros" => call.quoted)
    IN  sound =>
          /\ call.r # call.s /\ result.r.name = result.s.name =>
               Kind(call.r) = "power-module" /\ Kind(call.s) = "power-module"
                 /\ Place(call.r) = Place(call.s)
          /\ result.r.crType = result.s.crType <=> Kind(call.r) = Kind(call.s)

(* A side lookup that finds nothing costs the component the fact it was    *)
(* for and nothing else, and never makes it look switched off; only an     *)
(* SR OS component without a boot time of its own is lost altogether when  *)
(* its chassis has none either.  The constructor of common/component.py.   *)
LookupsCostOneFact ==
  call.kind = "lookups" =>
    LET made == result.made
        best == result.best
        Lost(fact)     == made.facts[fact] # best.facts[fact]
        Missing(field) == field \in call.missing
        Off(state)     == state \in {"disable", "down"}
    IN  IF made = Comp!Raised
        THEN call.os = "sros" /\ call.value.boot = "" /\ Missing("boot")
        ELSE /\ [made EXCEPT !.facts = << >>] = [best EXCEPT !.facts = << >>]
             /\ \A fact \in {"slot", "made"} : ~Lost(fact)
             /\ Lost("lastChange") => call.os = "srl" /\ Missing("boot") /\ call.value.change = ""
             /\ Lost("type") => call.os = "sros" /\ (Missing("equipped") \/ Missing("platform"))
             /\ ~made.facts.enabled =>
                  IF call.os = "srl" THEN Off(call.value.admin)
                  ELSE ~Missing("admin") /\ Off(call.found.admin) /\ made.crType = "LineCard"

----------------------------------------------------------------------------
NamingNext == NamePorts \/ NameComponents \/ LookUpComponent
=============================================================================
