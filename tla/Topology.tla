------------------------------ MODULE Topology ------------------------------
(***************************************************************************)
(* common/db_topology: how a script describes a topology and its overlays  *)
(* to the user interface.  The objects build up Python dictionaries and    *)
(* hand out handles into them; write_to_db sends a dictionary to EDA's     *)
(* database.  Dictionaries are shared by reference: two handles, or two    *)
(* objects in one script, may stand on the same one, and a handle may      *)
(* stand on one that is no longer part of anything.                        *)
(***************************************************************************)
EXTENDS Naturals, SequencesExt

CONSTANTS Naming,       \* which of uiName and uiNameKey a resource may give, as sets of them
          Sections,     \* the kinds of elements that are described: nodes, links, endpoints
          Attrs,        \* attribute names
          OverlayName,  \* the overlay a topology's resource may switch on
          Cell,         \* bound: the identities of dictionaries
          MaxHandles,   \* bound: handles taken
          MaxObjects    \* bound: topologies, overlays and elements made

ASSUME NamingAssumption == Naming \subseteq SUBSET {"uiName", "uiNameKey"}
ASSUME BoundsAssumption == {MaxHandles, MaxObjects} \subseteq Nat

VARIABLES
  heap,      \* the dictionaries that were made, by their identity
  objects,   \* DbTopology, DbTopoOverlay and DbTopoElemBase objects, in order
  handles,   \* what the builder methods have returned, in order
  outcome,   \* the error of the last call, "" for none
  said       \* what the dictionary of an object is meant to say (history)

vars == <<heap, objects, handles, outcome, said>>

Objects == DOMAIN objects
OfKind(kind) == {o \in Objects : objects[o].kind = kind}

----------------------------------------------------------------------------
(* Dictionaries.  A dictionary has texts, each under a key, and other      *)
(* dictionaries, each under a step: <<section>>, <<list, place>>, or       *)
(* <<"attributes", attribute>>.  A list, and the dictionary of attributes, *)
(* is never held by anything but the dictionary it is in.                  *)

Dict(texts, parts) == [texts |-> texts, parts |-> parts]

Nothing    == << >>
Made(keys) == [key \in keys |-> "made"]

\* f[x] = v: the entry is made or replaced
With(f, x, v) == [y \in DOMAIN f \cup {x} |-> IF y = x THEN v ELSE f[y]]

Fresh == CHOOSE c \in Cell : c \notin DOMAIN heap
Room  == \E c \in Cell : c \notin DOMAIN heap

Added(texts)        == With(heap, Fresh, Dict(texts, Nothing))
TextChanged(c, key) == [heap EXCEPT ![c] = Dict(With(@.texts, key, "set"), @.parts)]
Put(c, step, texts) == [Added(texts) EXCEPT ![c] = Dict(@.texts, With(@.parts, step, Fresh))]

(* The dictionaries of an object, with the path to each of them; those of  *)
(* attributes have no dictionaries in them.                                *)
Places(h, c) ==
  LET Parts(d) == DOMAIN h[d].parts
      Part(s)  == h[c].parts[s]
  IN  {<<<< >>, c>>}
        \cup {<<<<s>>, Part(s)>> : s \in Parts(c)}
        \cup UNION {{<<<<s, a>>, h[Part(s)].parts[a]>> : a \in Parts(Part(s))} : s \in Parts(c)}

(* What a dictionary says: that it is there, and its texts.                *)
Exists == "exists"
Fact(path, key, text)  == [at |-> path, key |-> key, text |-> text]
FactsAt(path, texts)   ==
  {Fact(path, Exists, Exists)} \cup {Fact(path, key, texts[key]) : key \in DOMAIN texts}
Content(h, c)          == UNION {FactsAt(p[1], h[p[2]].texts) : p \in Places(h, c)}

----------------------------------------------------------------------------
(* What is meant.  A handle speaks for its path as long as no later handle *)
(* was taken for the path or for one above it; one taken from a handle     *)
(* that no longer speaks never does.                                       *)

Current(i) ==
  /\ handles[i].live
  /\ \A j \in (i + 1)..Len(handles) :
       handles[j].live /\ handles[j].root = handles[i].root =>
         ~IsPrefix(handles[j].path, handles[i].path)

\* One text, or all that a new dictionary says in place of what was there.
Say(root, path, key) ==
  said' = [said EXCEPT ![root] = {f \in @ : f.at # path \/ f.key # key}
                                   \cup {Fact(path, key, "set")}]
Begin(root, path, texts) ==
  said' = [said EXCEPT ![root] = {f \in @ : ~IsPrefix(path, f.at)} \cup FactsAt(path, texts)]

Handle(kind, root, path, live) ==
  [kind |-> kind, cell |-> Fresh, root |-> root, path |-> path, live |-> live]

Take(handle) ==
  /\ Room /\ Len(handles) < MaxHandles
  /\ handles' = Append(handles, handle)

Init ==
  /\ heap = << >> /\ objects = << >> /\ handles = << >>
  /\ said = << >> /\ outcome = ""

----------------------------------------------------------------------------
(* Creation.  A resource names its topology by uiName, by uiNameKey, or by *)
(* its own name; what it does not say of enabled is False.                 *)

Resource(ui) ==  \* the switches vary along with the names
  [ui |-> ui, enabled |-> ui # {},
   overlays |-> [key \in IF "uiNameKey" \in ui THEN {OverlayName} ELSE {} |-> "uiName" \in ui]]

Resources == {Resource(ui) : ui \in Naming}

NameKeys(cr) ==
  (IF "uiNameKey" \in cr.ui THEN {"ui_name_key"} ELSE {})
    \cup (IF "uiName" \in cr.ui \/ cr.ui = {} THEN {"ui_name"} ELSE {})

Identity == {"group", "version"}

Object(kind, path, enabled, overlays) ==
  [kind |-> kind, path |-> path, value |-> Fresh, enabled |-> enabled, overlays |-> overlays,
   named |-> TRUE, origin |-> Len(objects) + 1]

Create(object, texts) ==
  /\ Len(objects) < MaxObjects /\ Room
  /\ heap' = Added(texts)
  /\ objects' = Append(objects, object)
  /\ said' = With(said, Fresh, FactsAt(<< >>, texts))
  /\ outcome' = ""
  /\ UNCHANGED <<handles>>

NewTopology(cr) ==
  Create(Object("topology", <<"topology">>, cr.enabled, cr.overlays), Made(NameKeys(cr) \cup Identity))

(* DbTopology.overlay: switched on by the topology's resource.             *)
OverlayOf(o) ==
  LET t == objects[o]
      on == OverlayName \in DOMAIN t.overlays /\ t.overlays[OverlayName]
  IN  Create(Object("overlay", t.path \o <<OverlayName>>, on, << >>), Made(Identity))

(* DbTopoOverlay.from_cr: switched on and named by its own resource.       *)
OverlayFromCr(cr) ==
  Create(Object("overlay", <<"topology", OverlayName>>, cr.enabled, << >>),
         Made(NameKeys(cr) \cup Identity))

NewElement(o, type) ==
  Create(Object(type, objects[o].path \o <<type>>, TRUE, << >>), Made({"ui_name"}))

----------------------------------------------------------------------------
(* Changes to an object's own dictionary.                                  *)

OwnKeys(kind) ==
  CASE kind = "topology" -> {"grouping"}
    [] kind = "overlay"  -> {"ui_name"}
    [] kind = "link"     -> {"endpoint_a_name"}
    [] OTHER             -> {"node"}

SetOwn(o, key) ==
  /\ key \in OwnKeys(objects[o].kind)
  /\ heap' = TextChanged(objects[o].value, key)
  /\ Say(objects[o].value, << >>, key)
  /\ outcome' = ""
  /\ UNCHANGED <<objects, handles>>

(* endpoint.set_node(...).write_to_db(): set_node returns None.            *)
SetNodeThenWrite(o) ==
  /\ objects[o].kind = "endpoint"
  /\ heap' = TextChanged(objects[o].value, "node")
  /\ Say(objects[o].value, << >>, "node")
  /\ outcome' = "AttributeError"
  /\ UNCHANGED <<objects, handles>>

\* Mutated form of ElemMetadata: a section that is there already is handed out as it is.
ElemMetadata_Keeps(o, section) ==
  LET root == objects[o].value
      step == <<section>>
      has  == step \in DOMAIN heap[root].parts
      new  == Handle("section", root, <<step>>, TRUE)
  IN  /\ objects[o].kind = "topology"
      /\ Take(IF has THEN [new EXCEPT !.cell = heap[root].parts[step]] ELSE new)
      /\ heap' = IF has THEN heap ELSE Put(root, step, Nothing)
      /\ Begin(root, <<step>>, Nothing)
      /\ outcome' = ""
      /\ UNCHANGED <<objects>>

(* node_metadata and its like replace the section.                         *)
ElemMetadata(o, section) ==
  LET root == objects[o].value
      step == <<section>>
  IN  /\ objects[o].kind = "topology"
      /\ Take(Handle("section", root, <<step>>, TRUE))
      /\ heap' = Put(root, step, Nothing)
      /\ Begin(root, <<step>>, Nothing)
      /\ outcome' = ""
      /\ UNCHANGED <<objects>>

(* add_state, add_badge and add_attributes_query append to their list,     *)
(* which holds n - 1 dictionaries.                                         *)
AppendTo(o, list, kind) ==
  LET root      == objects[o].value
      Step(i)   == <<list, i>>
      Listed(i) == Step(i) \in DOMAIN heap[root].parts
  IN  /\ objects[o].kind = "overlay"
      /\ \E n \in 1..MaxHandles :
           /\ \A i \in 1..MaxHandles : Listed(i) <=> i < n
           /\ Take(Handle(kind, root, <<Step(n)>>, TRUE))
           /\ heap' = Put(root, Step(n), Made({"value"}))
           /\ Begin(root, <<Step(n)>>, Made({"value"}))
      /\ outcome' = ""
      /\ UNCHANGED <<objects>>

\* Mutated form of AddBadge: the badge is in the list before its arguments are looked at.
AddBadge_AppendsFirst(o, name, path) ==
  \/ name # path /\ AppendTo(o, "node_badge", "state")
  \/ /\ name = path /\ objects[o].kind = "overlay" /\ Room
     /\ heap' = Put(objects[o].value, <<"node_badge", 1>>, Made({"value"}))
     /\ outcome' = "ValueError"
     /\ UNCHANGED <<objects, handles, said>>

(* A badge is shown by a name or by a path, not by both.                   *)
AddBadge(o, name, path) ==
  \/ name # path /\ AppendTo(o, "node_badge", "state")
  \/ /\ name = path /\ objects[o].kind = "overlay"
     /\ outcome' = "ValueError"
     /\ UNCHANGED <<heap, objects, handles, said>>

----------------------------------------------------------------------------
(* Changes through a handle.                                               *)

SetThrough(i) ==
  LET t   == handles[i]
      key == IF t.kind = "section" THEN "subtitle" ELSE "ui_name"
  IN  /\ t.kind # "query"
      /\ heap' = TextChanged(t.cell, key)
      /\ IF Current(i) THEN Say(t.root, t.path, key) ELSE UNCHANGED said
      /\ outcome' = ""
      /\ UNCHANGED <<objects, handles>>

\* An attribute that is there already is replaced.
AddAttribute(i, attr) ==
  LET t     == handles[i]
      step  == <<"attributes", attr>>
      texts == Made(IF t.kind = "section" THEN {"type"} ELSE {})
      path  == <<t.path[1], step>>
  IN  /\ t.kind \in {"section", "query"}
      /\ Take(Handle("attribute", t.root, path, Current(i)))
      /\ heap' = Put(t.cell, step, texts)
      /\ IF Current(i) THEN Begin(t.root, path, texts) ELSE UNCHANGED said
      /\ outcome' = ""
      /\ UNCHANGED <<objects>>

----------------------------------------------------------------------------
(* The database, and what is handed over to another object of this script  *)
(* (which shares the dictionaries) or to another script (which gets        *)
(* copies).  deserialize does not give an overlay the name that serialize  *)
(* reads.                                                                  *)

\* The rows that write_to_db and, of an overlay, write_node_state and its like write.
Rows(o) ==
  {objects[o].path}
    \cup (IF objects[o].kind = "overlay"
          THEN {objects[o].path \o <<element>> : element \in {"node", "link", "endpoint"}} ELSE {})

Sent(o) == Content(heap, objects[o].value)

\* Mutated form of Deserialized: the switch is not carried over.
Deserialized_Off(o, value) ==
  [objects[o] EXCEPT !.value = value, !.named = objects[o].kind # "overlay", !.enabled = FALSE]

Deserialized(o, value) ==
  [objects[o] EXCEPT !.value = value, !.named = objects[o].kind # "overlay"]

Serializes(o)   == objects[o].kind \in {"topology", "overlay"}
Serializable(o) == Serializes(o) /\ objects[o].named

HandOver(o) ==
  /\ Serializable(o) /\ Len(objects) < MaxObjects
  /\ objects' = Append(objects, Deserialized(o, objects[o].value))
  /\ outcome' = ""
  /\ UNCHANGED <<heap, handles, said>>

\* Another script has copies of the dictionaries, in which nothing else is different.
CopiedTo(copy) ==
  LET Copy(d) == Dict(d.texts, [step \in DOMAIN d.parts |-> copy[d.parts[step]]])
  IN  [c \in DOMAIN heap \cup Range(copy) |->
         IF c \in DOMAIN heap THEN heap[c] ELSE Copy(heap[AntiFunction(copy)[c]])]

HandOverToScript(o) ==
  LET root   == objects[o].value
      copies == Injection({p[2] : p \in Places(heap, root)}, Cell \ DOMAIN heap)
      copy   == CHOOSE f \in copies : TRUE
  IN  /\ Serializable(o) /\ Len(objects) < MaxObjects /\ copies # {}
      /\ heap' = CopiedTo(copy)
      /\ objects' = Append(objects, Deserialized(o, copy[root]))
      /\ said' = With(said, copy[root], said[root])
      /\ outcome' = ""
      /\ UNCHANGED <<handles>>

(* serialize asks for the name before anything is made.                    *)
HandOverFails(o) ==
  /\ Serializes(o) /\ ~objects[o].named
  /\ outcome' = "AttributeError"
  /\ UNCHANGED <<heap, objects, handles, said>>

----------------------------------------------------------------------------
Building ==
  \/ \E cr \in Resources : NewTopology(cr) \/ OverlayFromCr(cr)
  \/ \E o \in OfKind("topology") :
       \/ OverlayOf(o)
       \/ \E type \in {"link", "endpoint"} : NewElement(o, type)
       \/ \E section \in Sections : ElemMetadata(o, section)

Filling ==
  \/ \E o \in Objects : (\E key \in OwnKeys(objects[o].kind) : SetOwn(o, key)) \/ SetNodeThenWrite(o)
  \/ \E o \in OfKind("overlay") :
       \/ AppendTo(o, "node_state", "state")
       \/ AppendTo(o, "node_attr_queries", "query")
       \/ \E name, path \in BOOLEAN : AddBadge(o, name, path)
  \/ \E i \in DOMAIN handles : SetThrough(i) \/ \E attr \in Attrs : AddAttribute(i, attr)

Sending ==
  \E o \in Objects : HandOver(o) \/ HandOverToScript(o) \/ HandOverFails(o)

Next == Building \/ Filling \/ Sending

Spec == Init /\ [][Next]_vars

----------------------------------------------------------------------------
(* What an object would write is what was said through the newest handles, *)
(* whatever has been said through older ones, through other objects on the *)
(* same dictionaries, and in scripts that work on copies.                  *)
WhatWasSaidIsWritten ==
  \A o \in Objects : Sent(o) = said[objects[o].value]

(* An object that was handed over stands for the same rows with the same   *)
(* switches and the same group and version as the one it comes from, no    *)
(* topology is without a name to show, and none but an overlay that was    *)
(* handed over once cannot be handed over again.                           *)
HandOverKeepsIdentity ==
  \A o \in Objects :
    LET object == objects[o]
        origin == objects[object.origin]
    IN  /\ Rows(o) = Rows(object.origin)
        /\ object.enabled = origin.enabled /\ object.overlays = origin.overlays
        /\ \A key \in Identity \cap DOMAIN heap[origin.value].texts :
             /\ key \in DOMAIN heap[object.value].texts
             /\ heap[object.value].texts[key] = heap[origin.value].texts[key]
        /\ ~object.named => object.kind = "overlay" /\ object.origin # o
        /\ object.kind = "topology" => {"ui_name", "ui_name_key"} \cap DOMAIN heap[object.value].texts # {}

(* A call that fails leaves the objects, the handles and what the objects  *)
(* would write as they were: a badge that is refused is in no list, an     *)
(* overlay that cannot be handed over again is not half handed over.  The  *)
(* one exception is the endpoint of the chain that set_node breaks, which  *)
(* has its node and nothing else, and shares it with no other object.      *)
FailuresLeaveNothing ==
  [][LET Before(o) == Content(heap, objects[o].value)
         After(o)  == Content(heap', objects[o].value)
         Spared(S) == \A o \in S : After(o) = Before(o)
         Other(facts) == {f \in facts : f.key # "node"}
     IN  outcome' # "" =>
           /\ UNCHANGED <<objects, handles>>
           /\ \/ Spared(Objects)
              \/ \E e \in OfKind("endpoint") :
                   Spared(Objects \ {e}) /\ Other(After(e)) = Other(Before(e))]_vars
=============================================================================
