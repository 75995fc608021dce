----------------------------- MODULE Components -----------------------------
(***************************************************************************)
(* common/component.py with the path helpers it uses: what the inventory   *)
(* makes of one row of a node's state, the row of a fan, a card, ...       *)
(*                                                                         *)
(* A path is a sequence of elements, each with at most one key.  The code  *)
(* looks for words anywhere in the text of the path, the node's name       *)
(* included, so a text carries the words it contains.                      *)
(***************************************************************************)
EXTENDS Naturals, Sequences

NoValue == "none"      \* Python's None
Raised  == [raised |-> TRUE]

\* A text is a name with the words found in it; the value of a key may be
\* quoted in the path (a string) or not (a number).
Plain(name)        == [name |-> name, words |-> {name}]
NoKey              == [name |-> "", value |-> Plain(""), quoted |-> FALSE]
Element(text, key) == [text |-> text, key |-> key]

Has(path, word) ==
  \E i \in DOMAIN path : word \in path[i].text.words \cup path[i].key.value.words

----------------------------------------------------------------------------
(* utils/paths2.py: JPathParser, and utils/paths.py.                       *)

NodeValue(path, i) == path[i].key.value.name

GetLastNode(path) == Len(path)

NodeOf(path) ==
  LET nodes == {i \in DOMAIN path : path[i].text.name = "node"}
  IN  IF nodes = {} THEN NoValue ELSE NodeValue(path, CHOOSE i \in nodes : TRUE)

(* Only quoted values count.  Where the last key holds a number, CPython   *)
(* finds the value of an element further up, the node's name at last, and  *)
(* MicroPython's code finds none.                                          *)
NearestAncestorKeyValue(path, micropython) ==
  LET keys  == {i \in DOMAIN path : path[i].key # NoKey /\ (path[i].key.quoted \/ micropython)}
      last  == CHOOSE i \in keys : \A j \in keys : j <= i
  IN  IF keys = {} \/ ~path[last].key.quoted THEN NoValue ELSE NodeValue(path, last)

----------------------------------------------------------------------------
(* Classification: the first word of the list that is in the path.         *)

Classes ==
  << <<{"fan"},                "Fan",         "FanTray">>,
     <<{"power-module"},       "PowerModule", "PowerModule">>,
     <<{"power-shelf"},        "PowerShelf",  "PowerShelf">>,
     <<{"power-supply"},       "PowerSupply", "PowerSupply">>,
     <<{"linecard", "card"},   "Linecard",    "LineCard">>,
     <<{"control", "cpm"},     "Control",     "Control">>,
     <<{"fabric", "sfm"},      "Fabric",      "Fabric">>,
     <<{"chassis"},            "Chassis",     "Chassis">> >>

\* every word the code looks for in a path
Searched == {"srl", "sros"} \cup UNION {Classes[i][1] : i \in DOMAIN Classes}

ClassOf(path) ==
  LET Fits(i) == \E word \in Classes[i][1] : Has(path, word)
  IN  IF \E i \in DOMAIN Classes : Fits(i)
      THEN CHOOSE i \in DOMAIN Classes : Fits(i) /\ \A j \in 1..(i - 1) : ~Fits(j)
      ELSE 0

GetCrType(path) == IF ClassOf(path) = 0 THEN NoValue ELSE Classes[ClassOf(path)][3]

\* Mutated form of NormalizeName: the class alone.
NormalizeName_NoSlot(path, slot) ==
  IF ClassOf(path) = 0 THEN <<NoValue>> ELSE <<Classes[ClassOf(path)][2]>>

\* A chassis is named without a slot.
NormalizeName(path, slot) ==
  CASE ClassOf(path) = 0             -> <<NoValue>>
    [] GetCrType(path) = "Chassis"   -> <<"Chassis">>
    [] OTHER                         -> <<Classes[ClassOf(path)][2], slot>>

NormalizeOperState(state) ==
  CASE state \in {"up", "synchronizing", "in-service"} -> "Up"
    [] state \in {"failed", "down", "out-of-service", "waiting", "low-power"} -> "Down"
    [] state = "empty"                                 -> "Empty"
    [] state \in {"warm-reboot", "upgrading"}          -> "Rebooting"
    [] state \in {"downloading", "starting"}           -> "Starting"
    [] OTHER                                           -> "Unknown"

NormalizeAdminState(state) == state \notin {"disable", "down"}

----------------------------------------------------------------------------
(* The constructor.  db says what the side lookups find: for each of       *)
(* "equipped-type", "admin-state", "platform" and "boot" a value, "" for a *)
(* row without one, or NoRow, on which next() raises.                      *)

NoRow == "no row"

\* Mutated form of Caught: what was not found counts as switched off.
Caught_Down(value, otherwise) ==
  IF value = NoRow THEN (IF otherwise = "enable" THEN "disable" ELSE otherwise) ELSE value

Caught(value, otherwise) == IF value = NoRow THEN otherwise ELSE value

SrlComponent(path, value, db) ==
  [slot        |-> NodeValue(path, GetLastNode(path)),
   type        |-> value.type,
   enabled     |-> NormalizeAdminState(value.admin),
   made        |-> value.made,
   lastChange  |-> IF value.change # "" THEN value.change ELSE Caught(db.boot, "")]

\* type and enabled by class, where the path ends in hardware-data
SrosFacts(path, db) ==
  LET equipped == CASE db.equipped = NoRow -> "" [] db.equipped = "" -> NoValue [] OTHER -> db.equipped
      Facts(type, enabled) == [type |-> type, enabled |-> enabled]
  IN  CASE GetCrType(path) \in {"Control", "PowerSupply"} -> Facts(equipped, TRUE)
        [] GetCrType(path) = "LineCard" ->
             Facts(equipped, NormalizeAdminState(Caught(db.admin, "enable")))
        [] GetCrType(path) = "Chassis"  ->
             Facts(IF Caught(db.platform, "") = "" THEN NoValue ELSE db.platform, TRUE)
        [] OTHER -> Facts("", TRUE)

\* A date of eight blanks stands for none.
SrosDate(made) == IF made = "        " THEN "" ELSE made

SrosComponent(path, value, db, micropython) ==
  [slot        |-> NearestAncestorKeyValue(path, micropython),
   type        |-> SrosFacts(path, db).type,
   enabled     |-> SrosFacts(path, db).enabled,
   made        |-> SrosDate(value.made),
   lastChange  |-> IF value.boot # "" THEN value.boot ELSE db.boot]

(* The lookup of the chassis' boot time is the one SR OS lookup that is    *)
(* not caught; an SR OS path of no class fails on `in None`.               *)
Fails(path, value, db) ==
  ~Has(path, "srl") /\ Has(path, "sros") /\ \/ GetCrType(path) = NoValue
                                            \/ value.boot = "" /\ db.boot = NoRow

Component(path, value, db, micropython) ==
  LET own   == IF Has(path, "srl") THEN SrlComponent(path, value, db)
               ELSE SrosComponent(path, value, db, micropython)
  IN  IF Fails(path, value, db) THEN Raised
      ELSE [node   |-> NodeOf(path),
            name   |-> <<NodeOf(path)>> \o NormalizeName(path, own.slot),
            crType |-> GetCrType(path),
            oper   |-> NormalizeOperState(value.oper),
            facts  |-> own]

(* The rows get_list_request asks for: lists and the one below them.       *)
SrlLists  == {<<"fan-tray">>, <<"power-supply">>, <<"linecard">>, <<"control">>, <<"fabric">>,
              <<"chassis">>}
SrosLists == {<<"chassis", "fan">>, <<"chassis", "power-shelf", "power-module">>,
              <<"chassis", "power-supply">>, <<"chassis", "power-shelf">>, <<"card">>, <<"cpm">>,
              <<"sfm">>, <<"chassis">>}
=============================================================================
