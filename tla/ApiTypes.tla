------------------------------ MODULE ApiTypes ------------------------------
(***************************************************************************)
(* The typed view of the app's API resources (pysrc/userauditconfig.py and *)
(* the Kubernetes metadata types it uses): every class reads a JSON object *)
(* with from_input and gives one back with to_input.  A class is a table   *)
(* of its fields; the two methods follow the table.                        *)
(*                                                                         *)
(* A JSON object is a function on its keys, an array a record of its       *)
(* elements, and any other value an atom.  A field that is a dict or a     *)
(* list of strings in the class is handed through unread: an atom here.    *)
(*                                                                         *)
(* An element of an array is an object that says something: the API server *)
(* sends no others.  from_input makes None of an empty one, and to_input   *)
(* of the list would then raise an AttributeError, which is not modelled.  *)
(***************************************************************************)
EXTENDS Naturals, Sequences

Atom(x) == [atom |-> x]
None    == Atom("None")

Array(elements) == [array |-> elements]

IsAtom(v)  == DOMAIN v = {"atom"}
IsArray(v) == DOMAIN v = {"array"}
Truthy(v)  == v # None /\ DOMAIN v # {}

Get(obj, key) == IF key \in DOMAIN obj THEN obj[key] ELSE None

----------------------------------------------------------------------------
(* The kinds of fields.                                                    *)

Field(kind, class, default) == [kind |-> kind, class |-> class, default |-> default]

Optional      == Field("optional", << >>, None)  \* written unless None
Required      == Field("required", << >>, None)  \* written even if None
Defaulted(d)  == Field("optional", << >>, d)     \* d when the key is missing
Object(class) == Field("object", class, None)
List(class)   == Field("list", class, None)      \* a missing array reads as []
Meta(class)   == Field("meta", class, None)      \* falls back to from_name

Table(kind, keys, others) ==
  [k \in keys \cup DOMAIN others |-> IF k \in DOMAIN others THEN others[k] ELSE kind]

(* The classes, those that are fields of others first. *)

LogFileInfo == [name |-> Required, sizeBytes |-> Required]

SubsystemHealth == [edaApi |-> Optional, keycloakEvents |-> Optional]

\* Mutated form of UserAuditConfigSpec: the key is not the one of the schema.
UserAuditConfigSpec_Renamed ==
  [pollInterval |-> Defaulted(Atom("300")), retentionMonths |-> Defaulted(Atom("0"))]

UserAuditConfigSpec ==
  [pollIntervalSeconds |-> Defaulted(Atom("300")), retentionMonths |-> Defaulted(Atom("0"))]

UserAuditConfigStatus ==
  Table(Optional, {"health", "message", "lastPollTime", "lastTransactionId", "lastUserEventMs",
                     "transactionsProcessed", "kcEventsProcessed", "version"},
          [logFiles |-> List(LogFileInfo), subsystems |-> Object(SubsystemHealth)])

\* Time and FieldsV1 have no fields: whatever is read is written as {}.
FieldsV1 == << >>
Time     == << >>

ManagedFieldsEntry ==
  Table(Optional, {"manager", "operation", "apiVersion", "fieldsType", "subresource"},
          [time |-> Object(Time), fieldsV1 |-> Object(FieldsV1)])

OwnerReference ==
  Table(Required, {"apiVersion", "kind", "name", "uid"},
          [controller |-> Optional, blockOwnerDeletion |-> Optional])

ObjectMeta ==
  Table(Optional, {"name", "generateName", "namespace", "selfLink", "uid", "resourceVersion",
                     "generation", "deletionGracePeriodSeconds", "labels", "annotations",
                     "finalizers"},
          [creationTimestamp |-> Object(Time), deletionTimestamp |-> Object(Time),
           ownerReferences |-> List(OwnerReference), managedFields |-> List(ManagedFieldsEntry)])

UserAuditConfig ==
  [kind |-> Optional, apiVersion |-> Optional, metadata |-> Meta(ObjectMeta),
   spec |-> Object(UserAuditConfigSpec), status |-> Object(UserAuditConfigStatus)]

ShardInfo == [selector |-> Required]

ListMeta ==
  Table(Optional, {"selfLink", "resourceVersion", "continue", "remainingItemCount"},
          [shardInfo |-> Object(ShardInfo)])

UserAuditConfigList ==
  [kind |-> Optional, apiVersion |-> Optional, metadata |-> Object(ListMeta),
   items |-> List(UserAuditConfig)]

----------------------------------------------------------------------------
(* from_input and to_input of a class, by those of the classes its fields  *)
(* have (Below).  Nothing is nested deeper than a Time in an entry of the  *)
(* managed fields of the metadata of a configuration in a list: four       *)
(* levels.                                                                 *)

FromName(class, name) == [k \in DOMAIN class |-> IF k = "name" THEN name ELSE None]

Read(field, key, obj, Below(_, _)) ==
  LET v == Get(obj, key)
  IN  CASE field.kind = "object" -> Below(field.class, v)
        [] field.kind = "meta"   -> IF Truthy(v) THEN Below(field.class, v)
                                    ELSE FromName(field.class, Get(obj, "name"))
        [] field.kind = "list"   -> IF v = None THEN Array(<< >>)
                                    ELSE Array([i \in DOMAIN v.array |->
                                                  Below(field.class, v.array[i])])
        [] OTHER                 -> IF key \in DOMAIN obj THEN v ELSE field.default

(* from_input: None for an object that is missing or empty. *)
FromInput(class, obj, Below(_, _)) ==
  IF ~Truthy(obj) THEN None ELSE [k \in DOMAIN class |-> Read(class[k], k, obj, Below)]

FromInput0(class, obj) == FromInput(class, obj, LAMBDA c, v : None)
FromInput1(class, obj) == FromInput(class, obj, FromInput0)
FromInput2(class, obj) == FromInput(class, obj, FromInput1)
FromInput3(class, obj) == FromInput(class, obj, FromInput2)
FromInput4(class, obj) == FromInput(class, obj, FromInput3)

Write(field, v, Below(_, _)) ==
  CASE field.kind \in {"object", "meta"} -> Below(field.class, v)
    [] field.kind = "list" ->
         Array([i \in DOMAIN v.array |-> Below(field.class, v.array[i])])
    [] OTHER -> v

(* to_input of an object that from_input has made, with no None in its     *)
(* lists.                                                                  *)
ToInput(class, self, Below(_, _)) ==
  [k \in {x \in DOMAIN class : self[x] # None \/ class[x].kind = "required"} |->
     Write(class[k], self[k], Below)]

ToInput0(class, self) == ToInput(class, self, LAMBDA c, v : None)
ToInput1(class, self) == ToInput(class, self, ToInput0)
ToInput2(class, self) == ToInput(class, self, ToInput1)
ToInput3(class, self) == ToInput(class, self, ToInput2)
ToInput4(class, self) == ToInput(class, self, ToInput3)

(* What a script writes back that has read the resource, or a list of      *)
(* them, and changed nothing.                                              *)
RoundTrip(obj)     == ToInput3(UserAuditConfig, FromInput3(UserAuditConfig, obj))
RoundTripList(obj) == ToInput4(UserAuditConfigList, FromInput4(UserAuditConfigList, obj))

----------------------------------------------------------------------------
(* Whether all that a says, b says at the same place, what is below the    *)
(* keys in hidden aside.                                                   *)

Says(a, b, hidden, Below(_, _, _)) ==
  IF IsAtom(a) THEN a = b
  ELSE IF IsArray(a)
       THEN DOMAIN a.array # {} => /\ IsArray(b) /\ DOMAIN a.array = DOMAIN b.array
                                   /\ \A i \in DOMAIN a.array :
                                        Below(a.array[i], b.array[i], hidden)
       ELSE Below(a, b, hidden)

Within0(a, b, hidden) == DOMAIN a = {}
Within1(a, b, hidden) == \A k \in DOMAIN a \ hidden : Says(a[k], Get(b, k), hidden, Within0)
Within2(a, b, hidden) == \A k \in DOMAIN a \ hidden : Says(a[k], Get(b, k), hidden, Within1)
Within3(a, b, hidden) == \A k \in DOMAIN a \ hidden : Says(a[k], Get(b, k), hidden, Within2)
=============================================================================
