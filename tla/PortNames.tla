----------------------------- MODULE PortNames -----------------------------
(***************************************************************************)
(* utils/interface.py: what a port that EDA knows by a normalized name is  *)
(* called on a device, and the paths that lead to it.                      *)
(*                                                                         *)
(* A normalized name is the sequence of its parts between the dashes: a    *)
(* word, a number or a letter (Letter(1) is "a").  A device name is the    *)
(* sequence of what it is put together from.  A path is the name of the    *)
(* list and the key in it.                                                 *)
(***************************************************************************)
EXTENDS Naturals, Sequences

Word(w)   == [word |-> w]
Number(n) == [number |-> n]
Letter(k) == [letter |-> k]

IsNumber(part) == DOMAIN part = {"number"}
IsLetter(part) == DOMAIN part = {"letter"}

\* part of the result where the code returns None, an empty path or raises
NoName == << >>
NoPath == << >>
Raised == [name |-> <<Word("an exception")>>, config |-> NoPath, state |-> NoPath]
Absent == [name |-> NoName, config |-> NoPath, state |-> NoPath]

At(list, name) == [name |-> name, config |-> <<list, name>>, state |-> <<list, name>>]

IsLag(parts)       == \E i \in DOMAIN parts : parts[i] = Word("lag")
IsSystem(parts)    == parts[1] = Word("system0")
IsLoopback(parts)  == Len(parts) > 1 /\ parts[1] = Word("loopback") /\ IsNumber(parts[2])

\* The parts with a separator after the first and one after each of the rest.
Separated(parts, first, separator) ==
  [i \in 1..(2 * Len(parts) - 1) |->
     IF i % 2 = 1 THEN parts[(i + 1) \div 2] ELSE Word(IF i = 2 THEN first ELSE separator)]

Joined(parts, separator) == Separated(parts, separator, separator)

----------------------------------------------------------------------------
ToSrlInterface(parts, isLoopback) ==
  LET name == CASE isLoopback /\ IsLoopback(parts) /\ Len(parts) = 2 -> <<Word("lo"), parts[2]>>
                [] Len(parts) = 1                  -> <<parts[1]>>
                [] Len(parts) > 1 /\ IsLag(parts)  -> <<Word("lag")>> \o Joined(Tail(parts), "-")
                [] OTHER                           -> Separated(parts, "-", "/")
  IN  At("interface", name)

ToEosInterface(parts, isLoopback) ==
  LET loopback == isLoopback /\ IsLoopback(parts)
      name == CASE loopback -> <<Word("Loopback"), parts[2]>>
                [] ~loopback /\ Len(parts) = 3 ->
                     <<Word("Ethernet"), parts[2], Word("/"), parts[3]>>
                [] ~loopback /\ Len(parts) \notin {1, 3} /\ IsLag(parts) ->
                     <<Word("Port-Channel"), parts[2]>>
                [] OTHER -> <<parts[1]>>
  IN  At("interfaces.interface", name)

\* Mutated form of SrosPort: every port is on the first MDA.
SrosPort_FirstMda(parts) ==
  LET n == Len(parts)
  IN  IF n < 3 THEN << >> ELSE <<parts[2], Word("/"), Number(1), Word("/"), parts[n]>>

(* The parts of an SR OS port id; an empty one where no case applies. *)
SrosPort(parts) ==
  LET n      == Len(parts)
      slash  == Word("/")
      Mda(p) == Number(p.letter)
  IN  CASE n = 5 /\ IsLetter(parts[4]) ->
             <<parts[2], slash, Word("x"), parts[3], slash, Mda(parts[4]), slash, parts[5]>>
        [] n > 5 /\ IsLetter(parts[4]) ->
             <<parts[2], slash, Word("x"), parts[3], slash, Mda(parts[4]), slash,
               Word("c"), parts[5], slash, parts[6]>>
        [] n = 4 /\ IsLetter(parts[3]) -> <<parts[2], slash, Mda(parts[3]), slash, parts[4]>>
        [] n = 5 /\ IsLetter(parts[3]) /\ ~IsLetter(parts[4]) ->
             <<parts[2], slash, Mda(parts[3]), slash, Word("c"), parts[4], slash, parts[5]>>
        [] n = 3 /\ ~IsLetter(parts[3]) -> <<parts[2], slash, Number(1), slash, parts[3]>>
        [] n = 4 /\ ~IsLetter(parts[3]) ->
             <<parts[2], slash, Number(1), slash, Word("c"), parts[3], slash, parts[4]>>
        [] OTHER -> << >>

ToSrosInterface(parts, isLoopback) ==
  LET whole == Joined(parts, "-")
      port  == IF SrosPort(parts) = << >> THEN whole ELSE SrosPort(parts)
      Row(configured, held, name) ==
        [name |-> name, config |-> <<configured, name>>, state |-> <<held, name>>]
      loopback == IF IsLoopback(parts) THEN <<Word("lo"), parts[2]>> ELSE whole
      special  == IsLag(parts) \/ IsSystem(parts)
  IN  CASE IsLag(parts) -> Row("configure.lag", "state.lag", whole)
        [] IsSystem(parts) /\ ~IsLag(parts) ->
             Row("configure.router.interface", "state.router.interface", <<Word("system")>>)
        [] isLoopback /\ ~special -> [Absent EXCEPT !.name = loopback]
        [] ~isLoopback /\ ~special -> Row("configure.port", "state.port", port)

\* The parts are read as numbers before their number is looked at, so a name
\* with an MDA (ethernet-2-b-1) raises and the code's branch for it, which
\* GigabitEthernet0/1/1/0 would come from, is never taken.
Unreadable(parts) ==
  ~IsSystem(parts) /\ \/ Len(parts) = 1
                      \/ \E i \in {2, 3} \cap DOMAIN parts : ~IsNumber(parts[i])

\* Slots and ports count from zero.
FromZero(part) == Number(part.number - 1)

ToIosxrInterface(parts, isLoopback) ==
  LET ethernet == <<Word("GigabitEthernet0/"), FromZero(parts[2]), Word("/0/"), FromZero(parts[3])>>
  IN  CASE Unreadable(parts) -> Raised
        [] ~Unreadable(parts) /\ Len(parts) = 3 -> At("interfaces.interface", ethernet)
        [] IsSystem(parts) /\ Len(parts) # 3 -> At("interfaces.interface", <<Word("Loopback0")>>)
        [] OTHER -> Absent

ToNxosInterface(parts, isLoopback) ==
  LET loopback == At("lb-items.LbRtdIf-list", IF IsNumber(parts[2]) THEN <<Word("lo"), parts[2]>>
                                              ELSE <<parts[1]>>)
  IN  CASE Len(parts) = 3 ->
             At("phys-items.PhysIf-list", <<Word("eth"), parts[2], Word("/"), parts[3]>>)
        [] Len(parts) # 3 /\ Len(parts) > 1 /\ IsLag(parts) ->
             At("aggr-items.AggrIf-list", <<Word("po"), parts[2]>>)
        [] Len(parts) = 1 /\ (IsSystem(parts) \/ isLoopback) -> Raised  \* parts[1] of one part
        [] Len(parts) \notin {1, 3} /\ ~IsLag(parts) /\ isLoopback -> loopback
        [] OTHER -> Absent

GetNodeInterfaceInfo(parts, os, isLoopback) ==
  CASE os = "sros"   -> ToSrosInterface(parts, isLoopback)
    [] os = "ios-xr" -> ToIosxrInterface(parts, isLoopback)
    [] os = "nxos"   -> ToNxosInterface(parts, isLoopback)
    [] os = "eos"    -> ToEosInterface(parts, isLoopback)
    [] OTHER         -> ToSrlInterface(parts, isLoopback)

GetLagName(lagid, os) ==
  CASE os = "sros" -> <<Word("lag"), Word("-"), Number(lagid)>>
    [] os = "eos"  -> <<Word("Port-Channel"), Number(lagid)>>
    [] os = "nxos" -> <<Word("po"), Number(lagid)>>
    [] OTHER       -> <<Word("lag"), Number(lagid)>>
=============================================================================
