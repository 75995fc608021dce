----------------------------- MODULE SdkCalls -----------------------------
(***************************************************************************)
(* The pure functions of the SDK that the app is built on (src/common,     *)
(* src/utils) and of its API types, called by a script with any of their   *)
(* inputs, those of NamingCalls among them.  A state is one call and its   *)
(* result; what has to hold of the functions is said of every call, or of  *)
(* two calls side by side.                                                 *)
(***************************************************************************)
EXTENDS Addresses, HealthScores, FiniteSetsExt, NamingCalls

CONSTANTS Hextet,     \* how a hextet of an IPv6 input is written
          Octet,      \* the values an octet of an IPv4 input takes
          HostBits,   \* how many host bits the networks have
          Limits,     \* how many addresses are asked for
          Scores,     \* the health scores of an instance
          Sizes,      \* how many instances a resource has
          Weights,    \* the weights of metrics
          Keys,       \* the keys, of those of its class, that an object may have
          Scalars,    \* the values that are neither objects nor arrays
          Lengths     \* how long an array may be

ASSUME InputAssumption ==
  /\ Hextet \subseteq Nat /\ 0 \in Hextet /\ \A s \in Hextet : Value(s) = 0 => s = 0
  /\ Octet \subseteq 0..(Pow2(OctetBits) - 1)
  /\ HostBits \subseteq 0..Width4
  /\ Limits \subseteq Nat
  /\ Scores \subseteq 0..100 /\ Sizes \subseteq Nat /\ Weights \subseteq Nat

\* A missing value is none of the values.
ASSUME ScalarAssumption == "None" \notin Scalars /\ Lengths \subseteq Nat

Api == INSTANCE ApiTypes

----------------------------------------------------------------------------
(* Addresses.  Texts is every way to write an address: in full, or with    *)
(* any of its runs of zeros as "::", and with the last two hextets as an   *)
(* IPv4 address where they are written out.  An IPv4 address is read as    *)
(* two hextets in lower case.                                              *)

Values6 == [1..Groups -> Hextet]
Values4 == [1..4 -> Octet]

Full(h) == [i \in 1..Groups |-> <<h[i]>>]

Collapsed(h, i, j) ==
  (IF i = 1 THEN <<Empty>> ELSE << >>) \o SubSeq(Full(h), 1, i - 1) \o <<Empty>>
    \o SubSeq(Full(h), j + 1, Groups) \o (IF j = Groups THEN <<Empty>> ELSE << >>)

ZeroRuns(h) ==
  {r \in (1..Groups) \X (1..Groups) : r[1] <= r[2] /\ \A k \in r[1]..r[2] : h[k] = 0}

WithQuad(text) ==
  LET n == Len(text)
      Halves(x) == <<x \div Pow2(OctetBits), x % Pow2(OctetBits)>>
  IN  SubSeq(text, 1, n - 2) \o <<Halves(text[n - 1][1]) \o Halves(text[n][1])>>

Written(h) == {Full(h)} \cup {Collapsed(h, r[1], r[2]) : r \in ZeroRuns(h)}

LowerTail(h) == [i \in 1..Groups |-> IF i < Groups - 1 THEN h[i] ELSE Value(h[i])]

Texts(h) ==
  Written(h)
    \cup {WithQuad(t) : t \in {u \in Written(LowerTail(h)) : /\ Len(u) > 2 /\ u[Len(u)] # Empty
                                                            /\ u[Len(u) - 1] # Empty}}

Number6(h) == Number([i \in 1..Groups |-> Value(h[i])], Pow2(HextetBits))
Number4(o) == Number(o, Pow2(OctetBits))

ReadAddress ==
  /\ call = Idle
  /\ \E h \in Values6 : \E text \in Texts(h) :
       /\ call' = [kind |-> "text", value |-> h, text |-> text]
       /\ result' = [number |-> ConvertIPv6ToInt(text), short |-> CompressIPv6Address(text),
                     valid |-> IsIPv6(text), prefix |-> GetCompressedPrefixMask(text)]

ListSubnet6 ==
  /\ call = Idle
  /\ \E h \in Values6, bits \in HostBits, limit \in Limits :
       LET text == Full(h)
           p    == Width6 - bits
       IN  /\ call' = [kind |-> "subnet6", value |-> h, bits |-> bits, limit |-> limit]
           /\ result' = [network |-> ConvertIPv6ToInt(GetNetworkForAddress6(text, p)),
                         list |-> [i \in DOMAIN GetAddressesInSubnet6(text, p, limit) |->
                                     ConvertIPv6ToInt(GetAddressesInSubnet6(text, p, limit)[i])]]

ListSubnet4 ==
  /\ call = Idle
  /\ \E o \in Values4, bits \in HostBits, limit \in Limits :
       LET p == Width4 - bits
           a == GetAddressesInSubnet4(o, p, limit)
       IN  /\ call' = [kind |-> "subnet4", value |-> o, bits |-> bits, limit |-> limit]
           /\ result' = [network |-> Number4(GetNetworkForAddress4(o, p)),
                         list |-> [i \in DOMAIN a |-> Number4(a[i])]]

ConvertMask ==
  /\ call = Idle
  /\ \E p \in 0..Width6 :
       /\ call' = [kind |-> "mask", p |-> p]
       /\ result' = [six  |-> ConvertIPv6ToInt(PrefixLengthToIPv6Netmask(p)),
                     four |-> IF p > Width4 THEN p
                              ELSE NetmaskToPrefixLength(PrefixLengthToIPv4Netmask(p))]

(* Whatever way an IPv6 address is written, it is read as the same number. *)
(* It is shortened to one text, which no other writing beats, whichever of *)
(* its zeros are left out and with however many digits, but its letters    *)
(* keep their case: only addresses in the same case are shortened to the   *)
(* same text (FE80::1 and fe80::1 are not), and the end of an address that *)
(* is written as an IPv4 address comes out in lower case.  Only "::" at an *)
(* end for a single group is taken for no address at all (and then a       *)
(* prefix is left as it was written).  compress_ipv6_address,              *)
(* convert_ipv6_to_int and is_ipv6 of utils/ip.py.                         *)
AddressTextIsCanonical ==
  call.kind = "text" =>
    LET text  == call.text
        h     == IF HasQuad(text) THEN LowerTail(call.value) ELSE call.value
        short == result.short
        AtAnEnd == Head(text) = Empty \/ Last(text) = Empty
        Short(t) == Cardinality({i \in DOMAIN t : t[i] # Empty})
    IN  /\ result.number = Number6(call.value)
        /\ short \in Written(h)
        /\ \A other \in Written(h) \ {Full(h)} :
             Short(other) < Groups - 1 => Short(short) <= Short(other)
        /\ short # Full(h) => Short(short) < Groups - 1
        /\ short = CompressIPv6Address(Full(h))
        /\ IsIPv6(short)
        /\ ~result.valid <=> /\ AtAnEnd
                             /\ Short(text) = IF HasQuad(text) THEN Groups - 2 ELSE Groups - 1
        /\ result.prefix = IF result.valid THEN short ELSE text

(* The addresses listed for a network lie in it, in order and without the  *)
(* network's own address; both addresses of a network of two are listed,   *)
(* and the last one (the broadcast address) otherwise only if one less     *)
(* than the network's size was asked for.  The octet arithmetic of IPv4    *)
(* and the masks agree with the arithmetic of whole numbers.               *)
SubnetsHoldTheirAddresses ==
  /\ call.kind \in {"subnet4", "subnet6"} =>
       LET number  == IF call.kind = "subnet6" THEN Number6(call.value) ELSE Number4(call.value)
           hosts   == Pow2(call.bits)
           network == number - (number % hosts)
           list    == result.list
           last    == hosts - 1
       IN  /\ result.network = network
           /\ hosts = 2 => list = <<network, network + 1>>
           /\ hosts # 2 => /\ \A i \in DOMAIN list : list[i] = network + i /\ i <= last
                           /\ last \in DOMAIN list => call.limit = last
                           /\ Len(list) <= call.limit
                           /\ hosts > 1 => Len(list) >= Min({call.limit, hosts - 2})
  /\ call.kind = "mask" => /\ result.six = Pow2(Width6) - Pow2(Width6 - call.p)
                           /\ result.four = call.p

----------------------------------------------------------------------------
(* Health.  Two lists of instances, the second not better than the first   *)
(* in any, as one metric beside a second one with a score of its own.      *)

Instances(scores) == [i \in DOMAIN scores |-> [cr |-> i, score |-> scores[i]]]

Beside(agg, weight, other, score) ==
  <<[weight |-> weight, result |-> agg], [weight |-> other, result |-> Result(score, 1, NoReason)]>>

Lowered(scores, lower) ==
  [i \in DOMAIN scores |->
     IF scores[i] # Unknown /\ lower[i] < scores[i] THEN lower[i] ELSE scores[i]]

ScoreHealth ==
  /\ call = Idle
  /\ \E method \in {"divide", "equal"}, n \in Sizes, weight, other \in Weights :
     \E scores \in [1..n -> Scores \cup {Unknown}], lower \in [1..n -> Scores], score \in Scores :
       LET Agg(list) == CalculateAggHealthScoreForMetric(Instances(list), method)
           Overall(agg) == CalculateOverallHealthScore(Beside(agg, weight, other, score))
       IN  /\ call' = [kind |-> "health", method |-> method, scores |-> scores,
                       weights |-> weight + other]
           /\ result' = [agg |-> Agg(scores), overall |-> Overall(Agg(scores)),
                         worse |-> Overall(Agg(Lowered(scores, lower)))]

(* A resource gets a score, or none, or the calculation fails, as its      *)
(* instances and weights say; the score never rises when instances get     *)
(* worse, lies between the instances' scores, and is 100 exactly when the  *)
(* reason blames nobody; those blamed by name are the worst.               *)
(* common/health.py.                                                       *)
HealthIsAccountable ==
  call.kind = "health" =>
    LET scores  == call.scores
        known   == Unknown \notin ToSet(scores)
        agg     == result.agg
        blamed  == ToSet(agg.reason.named)
    IN  /\ result.overall = Failed <=> scores = << >> \/ ~known
        /\ result.overall = Unknown <=> scores # << >> /\ known /\ call.weights = 0
        /\ result.overall >= 0 =>
             /\ result.worse \in 0..result.overall /\ result.overall <= 100
             /\ agg.num \in (Min(ToSet(scores)) * agg.den)..(Max(ToSet(scores)) * agg.den)
             /\ agg.num = 100 * agg.den <=> blamed = {}
             /\ \A i \in blamed, j \in DOMAIN scores \ blamed : scores[i] <= scores[j]
             /\ Len(agg.reason.named) = Cardinality(blamed)

----------------------------------------------------------------------------
(* API resources, read by a script and written back unchanged.             *)

Atoms     == {Api!Atom(x) : x \in Scalars}
Arrays(S) == {Api!Array(list) : list \in UNION {[1..n -> S] : n \in Lengths}}

(* The objects with the required keys and any of the optional ones, which  *)
(* have atoms, and any of those of others, a table of the values they may  *)
(* have.                                                                   *)
Objects(required, optional, others) ==
  LET all    == required \cup optional \cup DOMAIN others
      values == [k \in all |-> IF k \in DOMAIN others THEN others[k] ELSE Atoms]
  IN  UNION {{f \in [D -> UNION {values[k] : k \in D}] : \A k \in D : f[k] \in values[k]}
               : D \in {required \cup E : E \in SUBSET (all \cap Keys)}}

Said(objects) == {obj \in objects : Api!Truthy(obj)}

Owners ==
  Objects({"apiVersion", "kind", "name", "uid"}, {"controller", "blockOwnerDeletion"}, << >>)

Entries ==
  Said(Objects({}, {"manager", "operation", "apiVersion", "time", "fieldsType", "subresource"},
               [fieldsV1 |-> {[f |-> v] : v \in Atoms}]))

MetaInputs ==
  Objects({}, {"name", "generateName", "namespace", "selfLink", "uid", "resourceVersion",
               "generation", "creationTimestamp", "deletionTimestamp",
               "deletionGracePeriodSeconds", "labels", "annotations", "finalizers"},
          [ownerReferences |-> Arrays(Owners), managedFields |-> Arrays(Entries)])

SpecInputs == Objects({}, {"pollIntervalSeconds", "retentionMonths"}, << >>)
Subsystems == Objects({}, {"edaApi", "keycloakEvents"}, << >>)
Files      == Objects({"name", "sizeBytes"}, {}, << >>)

StatusInputs ==
  Objects({}, {"health", "message", "lastPollTime", "lastTransactionId", "lastUserEventMs",
               "transactionsProcessed", "kcEventsProcessed", "version"},
          [logFiles |-> Arrays(Files), subsystems |-> Subsystems])

Resources ==
  Said(Objects({}, {"kind", "apiVersion"},
               [metadata |-> MetaInputs, spec |-> SpecInputs, status |-> StatusInputs]))

ReadAndWrite ==
  /\ call = Idle
  /\ \E obj \in Resources :
       /\ call' = [kind |-> "resource", obj |-> obj]
       /\ result' = [once |-> Api!RoundTrip(obj),
                     list |-> Api!RoundTripList([items |-> Api!Array(<<obj, obj>>)])]

(* A script that reads a UserAuditConfig and writes it back loses no value *)
(* but times and the opaque managed fields, and adds none but the defaults *)
(* of a specification that says something; a list of resources is its      *)
(* resources.  from_input and to_input of the API types.                   *)
RoundTripsKeepValues ==
  call.kind = "resource" =>
    LET once  == result.once
        given == Api!Get(call.obj, "spec")
    IN  /\ Api!Within3(call.obj, once,
                       {"creationTimestamp", "deletionTimestamp", "time", "fieldsV1"})
        /\ Api!Within3(once, call.obj, {"spec"})
        /\ "spec" \in DOMAIN once <=> Api!Truthy(given)
        /\ result.list = [items |-> Api!Array(<<once, once>>)]

----------------------------------------------------------------------------
Next ==
  Return \/ ReadAddress \/ ListSubnet6 \/ ListSubnet4 \/ ConvertMask
    \/ ScoreHealth \/ ReadAndWrite \/ NamingNext

Spec == Init /\ [][Next]_vars
=============================================================================
