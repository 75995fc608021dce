----------------------------- MODULE Addresses -----------------------------
(***************************************************************************)
(* The IP arithmetic of utils/ip.py.  The widths are parameters: an IPv6   *)
(* address has Groups hextets of two octets, an IPv4 address four octets   *)
(* (8 and 8 bits in the code).                                             *)
(*                                                                         *)
(* The text of an IPv6 address is the sequence that split(":") returns:    *)
(* a hextet is << h >>, the empty part beside a "::" is << >>, and a       *)
(* trailing IPv4 address is << a, b, c, d >>.  How many digits a hextet is *)
(* written with does not show, but the case of its letters does: the ways  *)
(* to write a value are numbered, the one in lower case by the value and   *)
(* the others by what leaves the value modulo 2^HextetBits.  So ffff is    *)
(* << 65535 >>, FFFF is << 65535 + 65536 >>, and 0 is << 0 >> only.        *)
(***************************************************************************)
EXTENDS Integers, SequencesExt

CONSTANTS Groups,     \* hextets of an IPv6 address
          OctetBits   \* bits of an octet; a hextet has twice as many

ASSUME WidthAssumption == Groups \in Nat \ {0, 1, 2} /\ OctetBits \in Nat \ {0}

HextetBits == 2 * OctetBits
Width6     == Groups * HextetBits
Width4     == 4 * OctetBits

\* 2^k and the number that digits stand for, as functions that can be reasoned about.
Pow2(k) ==
  LET pow[n \in 0..k] == IF n = 0 THEN 1 ELSE 2 * pow[n - 1]
  IN  pow[k]

Number(digits, base) ==
  LET number[n \in 0..Len(digits)] == IF n = 0 THEN 0 ELSE number[n - 1] * base + digits[n]
  IN  number[Len(digits)]

\* The value of a hextet as it is written.
Value(hextet) == hextet % Pow2(HextetBits)

Empty == << >>
Zeros(n) == [i \in 1..n |-> <<0>>]
HasQuad(text) == Len(Last(text)) = 4

----------------------------------------------------------------------------
(* Reading and writing IPv6 addresses.                                     *)

ExpandIPv4Mapped(text) ==
  LET q == Last(text)
  IN  IF ~HasQuad(text) THEN text
      ELSE Front(text) \o << <<q[1] * Pow2(OctetBits) + q[2]>>, <<q[3] * Pow2(OctetBits) + q[4]>> >>

Hextets(text) ==
  LET s == ExpandIPv4Mapped(text)
      n == Len(s)
      i == CHOOSE k \in DOMAIN s : s[k] = Empty /\ \A j \in 1..(k - 1) : s[j] # Empty
  IN  CASE Empty \notin ToSet(s)  -> s
        [] s = <<Empty, Empty, Empty>> -> Zeros(Groups)
        [] Empty \in ToSet(s) /\ s[1] = Empty /\ s[n] # Empty ->
             Zeros(Groups + 2 - n) \o SubSeq(s, 3, n)
        [] Empty \in ToSet(s) /\ s[1] # Empty /\ s[n] = Empty ->
             SubSeq(s, 1, n - 2) \o Zeros(Groups + 2 - n)
        [] OTHER -> SubSeq(s, 1, i - 1) \o Zeros(Groups + 1 - n) \o SubSeq(s, i + 1, n)

ConvertIPv6ToInt(text) ==
  LET h == Hextets(text)
  IN  Number([i \in DOMAIN h |-> Value(h[i][1])], Pow2(HextetBits))

ConvertIntToIPv6(n) ==
  [i \in 1..Groups |-> << (n \div Pow2(HextetBits * (Groups - i))) % Pow2(HextetBits) >>]

\* Mutated form of BestRun: a run does not end at another hextet.
BestRun_Joined(hextets) ==
  LET zeros == SelectInSeq(hextets, LAMBDA h : h = <<0>>)
      total == Len(SelectSeq(hextets, LAMBDA h : h = <<0>>))
  IN  [start |-> zeros, len |-> total, best |-> zeros, bestLen |-> total]

(* The first of the longest runs of zero hextets: where and how long. *)
BestRun(hextets) ==
  LET Visit(r, i) ==
        IF hextets[i] # <<0>> THEN [r EXCEPT !.start = 0, !.len = 0]
        ELSE LET longer == [r EXCEPT !.start = IF @ = 0 THEN i ELSE @, !.len = @ + 1]
             IN  IF longer.len > longer.bestLen
                 THEN [longer EXCEPT !.bestLen = longer.len, !.best = longer.start]
                 ELSE longer
      run[n \in 0..Len(hextets)] ==
        IF n = 0 THEN [start |-> 0, len |-> 0, best |-> 0, bestLen |-> 0] ELSE Visit(run[n - 1], n)
  IN  run[Len(hextets)]

CompressIPv6Address(text) ==
  LET h    == Hextets(text)
      run  == BestRun(h)
      last == run.best + run.bestLen - 1
  IN  IF run.bestLen <= 1 THEN h
      ELSE (IF run.best = 1 THEN <<Empty>> ELSE << >>)
             \o SubSeq(h, 1, run.best - 1) \o <<Empty>> \o SubSeq(h, last + 1, Len(h))
             \o (IF last = Len(h) THEN <<Empty>> ELSE << >>)

----------------------------------------------------------------------------
(* is_ipv6 looks at the parts between the colons only: how many there are  *)
(* and which are empty.  k empty parts in a row, not at an end, are k + 1  *)
(* colons.                                                                 *)

DoubleColons(text) ==
  LET Inner(i) == i \in 2..(Len(text) - 1) /\ text[i] = Empty
      seen[n \in 0..Len(text)] ==
        IF n = 0 THEN [n |-> 0, open |-> FALSE]
        ELSE IF Inner(n) /\ ~seen[n - 1].open THEN [n |-> seen[n - 1].n + 1, open |-> TRUE]
             ELSE [n |-> seen[n - 1].n, open |-> FALSE]
  IN  seen[Len(text)].n

IsIPv6(text) ==
  LET n      == Len(text)
      double == DoubleColons(text)
      parts  == IF double = 0 THEN n ELSE n - 1
  IN  /\ Last(text) = Empty => n >= 3 /\ text[n - 1] = Empty
      /\ n > 1
      /\ n <= Groups /\ double <= 1
      /\ HasQuad(text) /\ double = 0 => parts <= Groups - 1
      /\ HasQuad(text) /\ double = 1 => parts < Groups - 1
      /\ parts <= Groups

GetCompressedPrefixMask(text) == IF IsIPv6(text) THEN CompressIPv6Address(text) ELSE text

----------------------------------------------------------------------------
(* Netmasks.                                                               *)

Bit(n, i) == (n \div Pow2(i)) % 2
OnesIn(n, bits) == Cardinality({i \in 0..(bits - 1) : Bit(n, i) = 1})
OctetsOf(n) == [j \in 1..4 |-> (n \div Pow2(OctetBits * (4 - j))) % Pow2(OctetBits)]

NetmaskToPrefixLength(octets) ==
  OnesIn(octets[1], OctetBits) + OnesIn(octets[2], OctetBits)
    + OnesIn(octets[3], OctetBits) + OnesIn(octets[4], OctetBits)

PrefixLengthToIPv4Netmask(p) == OctetsOf(Pow2(Width4) - Pow2(Width4 - p))

PrefixLengthToIPv6Netmask(p) ==
  LET digit(k) == IF k <= p THEN 1 ELSE 0
  IN  [g \in 1..Groups |->
         << Number([i \in 1..HextetBits |-> digit((g - 1) * HextetBits + i)], 2) >>]

----------------------------------------------------------------------------
(* Networks and their addresses.  IPv6 is done in one integer, IPv4 octet  *)
(* by octet.                                                               *)

NetworkInt(n, p) == (n \div Pow2(Width6 - p)) * Pow2(Width6 - p)

(* The bitwise and of two octets. *)
x & y ==
  Number([i \in 1..OctetBits |-> Bit(x, OctetBits - i) * Bit(y, OctetBits - i)], 2)

NetworkOctets(octets, p) ==
  [j \in 1..4 |-> octets[j] & PrefixLengthToIPv4Netmask(p)[j]]

GetNetworkForAddress6(text, p) ==
  CompressIPv6Address(ConvertIntToIPv6(NetworkInt(ConvertIPv6ToInt(text), p)))

GetNetworkForAddress4(octets, p) == NetworkOctets(octets, p)

\* Mutated form of Limit: only more than the network has is cut down.
Limit_OneMore(hosts, limit) == IF hosts < limit THEN hosts - 2 ELSE limit

Limit(hosts, limit) == IF hosts <= limit THEN hosts - 2 ELSE limit

GetAddressesInSubnet6(text, p, limit) ==
  LET network == NetworkInt(ConvertIPv6ToInt(text), p)
      hosts   == Pow2(Width6 - p)
      Nth(i)  == CompressIPv6Address(ConvertIntToIPv6(network + i))
  IN  IF hosts = 2 THEN <<Nth(0), Nth(1)>> ELSE [i \in 1..Limit(hosts, limit) |-> Nth(i)]

(* The i-th address of a network: every octet takes its part of i, without *)
(* a carry.                                                                *)
NthOctets(network, i) ==
  [j \in 1..4 |-> (network[j] + (i \div Pow2(OctetBits * (4 - j)))) % Pow2(OctetBits)]

GetAddressesInSubnet4(octets, p, limit) ==
  LET network == NetworkOctets(octets, p)
      hosts   == Pow2(Width4 - NetmaskToPrefixLength(PrefixLengthToIPv4Netmask(p)))
  IN  IF hosts = 2 THEN <<network, NthOctets(network, 1)>>
      ELSE [i \in 1..Limit(hosts, limit) |-> NthOctets(network, i)]
=============================================================================
