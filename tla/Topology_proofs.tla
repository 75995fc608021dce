--------------------------- MODULE Topology_proofs ---------------------------
(***************************************************************************)
(* Proofs about Topology for any number of objects, handles, dictionaries, *)
(* sections and attributes.                                                *)
(***************************************************************************)
EXTENDS Topology, TLAPS

-----------------------------------------------------------------------------
\* Paths: none is longer than two steps.

LEMMA PrefixOf ==
  ASSUME NEW s, NEW a, NEW t, NEW b
  PROVE  /\ ~IsPrefix(<<s>>, << >>)
         /\ ~IsPrefix(<<s, a>>, << >>)
         /\ ~IsPrefix(<<s, a>>, <<t>>)
         /\ IsPrefix(<<s>>, <<t>>) <=> s = t
         /\ IsPrefix(<<s>>, <<t, b>>) <=> s = t
         /\ IsPrefix(<<s, a>>, <<t, b>>) <=> s = t /\ a = b
  BY DEF IsPrefix

LEMMA PrefixOfTwo ==
  ASSUME NEW s, NEW a, NEW t, NEW b, s # t \/ a # b
  PROVE  ~IsPrefix(<<s, a>>, <<t, b>>)
<1>1. IsPrefix(<<s, a>>, <<t, b>>) => s = t /\ a = b
  BY DEF IsPrefix
<1>2. QED
  BY <1>1

LEMMA PathsDiffer ==
  ASSUME NEW s, NEW a, NEW t, NEW b
  PROVE  /\ <<s>> # << >> /\ <<s, a>> # << >> /\ <<s, a>> # <<t>>
         /\ <<s>> = <<t>> => s = t
         /\ <<s, a>> = <<t, b>> => s = t /\ a = b
  OBVIOUS

LEMMA WithEntry ==
  ASSUME NEW f, NEW x, NEW v
  PROVE  /\ DOMAIN With(f, x, v) = DOMAIN f \cup {x}
         /\ With(f, x, v)[x] = v
         /\ \A y \in DOMAIN f \ {x} : With(f, x, v)[y] = f[y]
  BY DEF With

LEMMA DictParts ==
  ASSUME NEW texts, NEW parts
  PROVE  Dict(texts, parts).texts = texts /\ Dict(texts, parts).parts = parts
  BY DEF Dict

LEMMA FactsEqual ==
  ASSUME NEW p, NEW k, NEW t, NEW q, NEW l, NEW u
  PROVE  /\ Fact(p, k, t).at = p /\ Fact(p, k, t).key = k /\ Fact(p, k, t).text = t
         /\ Fact(p, k, t) = Fact(q, l, u) <=> p = q /\ k = l /\ t = u
  BY DEF Fact

-----------------------------------------------------------------------------
\* The dictionaries of an object, one by one.

IsPlace(h, c, p) ==
  \/ p = <<<< >>, c>>
  \/ \E s \in DOMAIN h[c].parts : p = <<<<s>>, h[c].parts[s]>>
  \/ \E s \in DOMAIN h[c].parts : \E a \in DOMAIN h[h[c].parts[s]].parts :
       p = <<<<s, a>>, h[h[c].parts[s]].parts[a]>>

LEMMA InPlaces ==
  ASSUME NEW h, NEW c
  PROVE  /\ <<<< >>, c>> \in Places(h, c)
         /\ \A s \in DOMAIN h[c].parts : <<<<s>>, h[c].parts[s]>> \in Places(h, c)
         /\ \A s \in DOMAIN h[c].parts : \A a \in DOMAIN h[h[c].parts[s]].parts :
              <<<<s, a>>, h[h[c].parts[s]].parts[a]>> \in Places(h, c)
         /\ \A p \in Places(h, c) : IsPlace(h, c, p)
<1>1. /\ <<<< >>, c>> \in Places(h, c)
      /\ \A s \in DOMAIN h[c].parts : <<<<s>>, h[c].parts[s]>> \in Places(h, c)
  BY DEF Places
<1>2. \A s \in DOMAIN h[c].parts : \A a \in DOMAIN h[h[c].parts[s]].parts :
        <<<<s, a>>, h[h[c].parts[s]].parts[a]>> \in Places(h, c)
  BY DEF Places
<1>3. \A p \in Places(h, c) : IsPlace(h, c, p)
  BY DEF Places, IsPlace
<1>4. QED
  BY <1>1, <1>2, <1>3

LEMMA Pairs ==
  ASSUME NEW p, NEW x, NEW y, p = <<x, y>>
  PROVE  p[1] = x /\ p[2] = y /\ p = <<p[1], p[2]>>
  OBVIOUS

LEMMA IsAPlace ==
  ASSUME NEW h, NEW c, NEW p, IsPlace(h, c, p)
  PROVE  p \in Places(h, c)
<1>1. CASE p = <<<< >>, c>>
  BY <1>1, InPlaces
<1>2. ASSUME NEW s \in DOMAIN h[c].parts, p = <<<<s>>, h[c].parts[s]>>
      PROVE  p \in Places(h, c)
  BY <1>2, InPlaces
<1>3. ASSUME NEW s \in DOMAIN h[c].parts, NEW a \in DOMAIN h[h[c].parts[s]].parts,
             p = <<<<s, a>>, h[h[c].parts[s]].parts[a]>>
      PROVE  p \in Places(h, c)
  BY <1>3, InPlaces
<1>4. QED
  BY <1>1, <1>2, <1>3 DEF IsPlace

\* The three kinds of places: the object's own, a part of it, an attribute of a part.
AtPlace(h, c, p) ==
  \/ p[1] = << >> /\ p[2] = c
  \/ \E s \in DOMAIN h[c].parts : p[1] = <<s>> /\ p[2] = h[c].parts[s]
  \/ \E s \in DOMAIN h[c].parts : \E a \in DOMAIN h[h[c].parts[s]].parts :
       p[1] = <<s, a>> /\ p[2] = h[h[c].parts[s]].parts[a]

LEMMA PlaceCases ==
  ASSUME NEW h, NEW c, NEW p \in Places(h, c)
  PROVE  p = <<p[1], p[2]>> /\ AtPlace(h, c, p)
<1> DEFINE Part(s)    == h[c].parts[s]
           Attr(s, a) == h[Part(s)].parts[a]
<1>1. CASE p = <<<< >>, c>>
  <2>1. p[1] = << >> /\ p[2] = c /\ p = <<p[1], p[2]>>
    BY <1>1, Pairs
  <2>3. AtPlace(h, c, p)
    BY <2>1 DEF AtPlace
  <2>4. QED
    BY <2>1, <2>3
<1>2. CASE \E s \in DOMAIN h[c].parts : p = <<<<s>>, Part(s)>>
  <2>1. PICK s \in DOMAIN h[c].parts : p = <<<<s>>, Part(s)>>
    BY <1>2
  <2>2. p[1] = <<s>> /\ p[2] = Part(s) /\ p = <<p[1], p[2]>>
    BY <2>1, Pairs
  <2>3. AtPlace(h, c, p)
    BY <2>2 DEF AtPlace
  <2>4. QED
    BY <2>2, <2>3
<1>3. CASE \E s \in DOMAIN h[c].parts : \E a \in DOMAIN h[Part(s)].parts :
             p = <<<<s, a>>, Attr(s, a)>>
  <2>0. PICK s \in DOMAIN h[c].parts : \E a \in DOMAIN h[Part(s)].parts : p = <<<<s, a>>, Attr(s, a)>>
    BY <1>3
  <2>1. PICK a \in DOMAIN h[Part(s)].parts : p = <<<<s, a>>, Attr(s, a)>>
    BY <2>0
  <2>2. p[1] = <<s, a>> /\ p[2] = Attr(s, a) /\ p = <<p[1], p[2]>>
    BY <2>1, Pairs
  <2>3. AtPlace(h, c, p)
    BY <2>2 DEF AtPlace
  <2>4. QED
    BY <2>2, <2>3
<1>4. IsPlace(h, c, p)
  BY InPlaces
<1>5. QED
  BY <1>1, <1>2, <1>3, <1>4 DEF IsPlace

\* A path leads to one dictionary.
LEMMA OnePlacePerPath ==
  ASSUME NEW h, NEW c, NEW p \in Places(h, c), NEW q \in Places(h, c), p[1] = q[1]
  PROVE  p = q
<1>1. p = <<p[1], p[2]>> /\ q = <<q[1], q[2]>> /\ AtPlace(h, c, p) /\ AtPlace(h, c, q)
  BY PlaceCases
<1>2. p[2] = q[2]
  <2>1. CASE p[1] = << >> /\ p[2] = c
    BY <1>1, <2>1, PathsDiffer DEF AtPlace
  <2>2. ASSUME NEW s \in DOMAIN h[c].parts, p[1] = <<s>> /\ p[2] = h[c].parts[s]
        PROVE  p[2] = q[2]
    BY <1>1, <2>2, PathsDiffer DEF AtPlace
  <2>3. ASSUME NEW s \in DOMAIN h[c].parts, NEW a \in DOMAIN h[h[c].parts[s]].parts,
               p[1] = <<s, a>> /\ p[2] = h[h[c].parts[s]].parts[a]
        PROVE  p[2] = q[2]
    <3>1. /\ <<s, a>> # << >> /\ \A t : <<s, a>> # <<t>>
          /\ \A t, b : <<s, a>> = <<t, b>> => s = t /\ a = b
      BY PathsDiffer
    <3>2. q[1] = <<s, a>>
      BY <2>3
    <3>3. PICK t \in DOMAIN h[c].parts : \E b \in DOMAIN h[h[c].parts[t]].parts :
             q[1] = <<t, b>> /\ q[2] = h[h[c].parts[t]].parts[b]
      BY <1>1, <3>1, <3>2 DEF AtPlace
    <3>4. QED
      BY <2>3, <3>1, <3>2, <3>3
  <2>4. QED
    BY <1>1, <2>1, <2>2, <2>3 DEF AtPlace
<1>3. QED
  BY <1>1, <1>2

LEMMA InContent ==
  ASSUME NEW h, NEW c
  PROVE  /\ \A p \in Places(h, c) : FactsAt(p[1], h[p[2]].texts) \subseteq Content(h, c)
         /\ \A f \in Content(h, c) : \E p \in Places(h, c) : f \in FactsAt(p[1], h[p[2]].texts)
  BY DEF Content

LEMMA InFacts ==
  ASSUME NEW path, NEW texts
  PROVE  \A f : f \in FactsAt(path, texts) <=>
                  \/ f = Fact(path, Exists, Exists)
                  \/ \E key \in DOMAIN texts : f = Fact(path, key, texts[key])
  BY DEF FactsAt

LEMMA FactsAreThere ==
  ASSUME NEW path, NEW texts, NEW f \in FactsAt(path, texts)
  PROVE  f.at = path
  BY InFacts, FactsEqual

-----------------------------------------------------------------------------
\* What a change of one dictionary changes of what an object says: h is the
\* heap before, g the heap after it, c an object's own dictionary.

LEMMA SamePlaces ==
  ASSUME NEW h, NEW g, NEW c, \A p \in Places(h, c) : g[p[2]].parts = h[p[2]].parts
  PROVE  Places(g, c) = Places(h, c)
<1>1. g[c].parts = h[c].parts
  <2>1. <<<< >>, c>> \in Places(h, c)
    BY InPlaces
  <2>2. QED
    BY <2>1
<1>2. ASSUME NEW s \in DOMAIN h[c].parts
      PROVE  g[h[c].parts[s]].parts = h[h[c].parts[s]].parts
  <2>1. <<<<s>>, h[c].parts[s]>> \in Places(h, c)
    BY InPlaces
  <2>2. QED
    BY <2>1
<1>3. ASSUME NEW p
      PROVE  IsPlace(g, c, p) <=> IsPlace(h, c, p)
  BY <1>1, <1>2 DEF IsPlace
<1>4. \A p : p \in Places(g, c) <=> IsPlace(g, c, p)
  BY InPlaces, IsAPlace
<1>5. \A p : p \in Places(h, c) <=> IsPlace(h, c, p)
  BY InPlaces, IsAPlace
<1>6. QED
  BY <1>3, <1>4, <1>5

LEMMA SameContent ==
  ASSUME NEW h, NEW g, NEW c,
         \A p \in Places(h, c) : g[p[2]].parts = h[p[2]].parts /\ g[p[2]].texts = h[p[2]].texts
  PROVE  Content(g, c) = Content(h, c)
<1>1. Places(g, c) = Places(h, c)
  BY SamePlaces
<1>2. QED
  BY <1>1 DEF Content

\* A text of one of an object's dictionaries is set.
LEMMA TextSaid ==
  ASSUME NEW h, NEW g, NEW c, NEW place \in Places(h, c), NEW key, key # Exists,
         Places(g, c) = Places(h, c),
         \A p \in Places(h, c) : p[2] = place[2] => p[1] = place[1],
         \A p \in Places(h, c) : p[2] # place[2] => g[p[2]].texts = h[p[2]].texts,
         g[place[2]].texts = With(h[place[2]].texts, key, "set")
  PROVE  Content(g, c) = {f \in Content(h, c) : f.at # place[1] \/ f.key # key}
                           \cup {Fact(place[1], key, "set")}
<1> DEFINE path == place[1]
           old  == h[place[2]].texts
           new  == g[place[2]].texts
<1>1. \A f : f \in FactsAt(path, new) <=>
               (f \in FactsAt(path, old) /\ f.key # key) \/ f = Fact(path, key, "set")
  <2>1. DOMAIN new = DOMAIN old \cup {key} /\ new[key] = "set"
          /\ \A k \in DOMAIN old \ {key} : new[k] = old[k]
    <3>1. new = With(old, key, "set")
      OBVIOUS
    <3>2. QED
      BY <3>1 DEF With
  <2>2. QED
    BY <2>1, InFacts, FactsEqual
<1>2. \A p \in Places(h, c) : p[2] # place[2] => p[1] # path
  BY OnePlacePerPath
<1>3. ASSUME NEW f, f \in Content(g, c)
      PROVE  (f \in Content(h, c) /\ (f.at # path \/ f.key # key)) \/ f = Fact(path, key, "set")
  <2>1. PICK p \in Places(h, c) : f \in FactsAt(p[1], g[p[2]].texts)
    BY <1>3, InContent
  <2>2. CASE p[2] = place[2]
    BY <2>1, <2>2, <1>1, InContent
  <2>3. CASE p[2] # place[2]
    BY <2>1, <2>3, <1>2, InContent, FactsAreThere
  <2>4. QED
    BY <2>2, <2>3
<1>4. ASSUME NEW f, f \in Content(h, c), f.at # path \/ f.key # key
      PROVE  f \in Content(g, c)
  <2>1. PICK p \in Places(h, c) : f \in FactsAt(p[1], h[p[2]].texts)
    BY <1>4, InContent
  <2>2. CASE p[2] = place[2]
    <3>1. f \in FactsAt(path, old) /\ f.key # key
      BY <2>1, <2>2, <1>4, FactsAreThere
    <3>2. f \in FactsAt(path, new)
      BY <3>1, <1>1
    <3>3. QED
      BY <3>2, InContent
  <2>3. CASE p[2] # place[2]
    BY <2>1, <2>3, InContent
  <2>4. QED
    BY <2>2, <2>3
<1>5. Fact(path, key, "set") \in Content(g, c)
  BY <1>1, InContent
<1>6. QED
  BY <1>3, <1>4, <1>5

\* With a new dictionary at a path, all that was under the path is no longer there.
PlacesPut(h, c, path, new) ==
  {p \in Places(h, c) : ~IsPrefix(path, p[1])} \cup {<<path, new>>}
ContentPut(h, c, path, texts) ==
  {f \in Content(h, c) : ~IsPrefix(path, f.at)} \cup FactsAt(path, texts)

\* A new dictionary under a step of an object's own dictionary.
LEMMA PutAtObject ==
  ASSUME NEW h, NEW g, NEW c, NEW step, NEW new,
         g[c].parts = With(h[c].parts, step, new),
         \A s \in DOMAIN h[c].parts : g[h[c].parts[s]].parts = h[h[c].parts[s]].parts,
         DOMAIN g[new].parts = {}
  PROVE  Places(g, c) = PlacesPut(h, c, <<step>>, new)
<1> DEFINE Old == Places(h, c)
           New == Places(g, c)
<1>1. /\ DOMAIN g[c].parts = DOMAIN h[c].parts \cup {step} /\ g[c].parts[step] = new
      /\ \A s \in DOMAIN h[c].parts \ {step} : g[c].parts[s] = h[c].parts[s]
  BY DEF With
<1>2. <<<<step>>, new>> \in New
  BY <1>1, InPlaces
<1>3. ASSUME NEW p \in Old, ~IsPrefix(<<step>>, p[1])
      PROVE  p \in New
  <2>1. CASE p = <<<< >>, c>>
    BY <2>1, InPlaces
  <2>2. ASSUME NEW s \in DOMAIN h[c].parts, p = <<<<s>>, h[c].parts[s]>>
        PROVE  p \in New
    <3>1. s # step
      BY <1>3, <2>2, PrefixOf
    <3>2. s \in DOMAIN g[c].parts /\ p = <<<<s>>, g[c].parts[s]>>
      BY <1>1, <2>2, <3>1
    <3>3. QED
      BY <3>2, InPlaces
  <2>3. ASSUME NEW s \in DOMAIN h[c].parts, NEW a \in DOMAIN h[h[c].parts[s]].parts,
               p = <<<<s, a>>, h[h[c].parts[s]].parts[a]>>
        PROVE  p \in New
    <3>1. s # step
      BY <1>3, <2>3, PrefixOf
    <3>2. /\ s \in DOMAIN g[c].parts /\ a \in DOMAIN g[g[c].parts[s]].parts
          /\ p = <<<<s, a>>, g[g[c].parts[s]].parts[a]>>
      BY <1>1, <2>3, <3>1
    <3>3. QED
      BY <3>2, InPlaces
  <2>4. IsPlace(h, c, p)
    BY InPlaces
  <2>5. QED
    BY <2>1, <2>2, <2>3, <2>4 DEF IsPlace
<1>4. ASSUME NEW p \in New
      PROVE  (p \in Old /\ ~IsPrefix(<<step>>, p[1])) \/ p = <<<<step>>, new>>
  <2>1. CASE p = <<<< >>, c>>
    BY <2>1, InPlaces, PrefixOf
  <2>2. ASSUME NEW s \in DOMAIN g[c].parts, p = <<<<s>>, g[c].parts[s]>>, s # step
        PROVE  p \in Old /\ ~IsPrefix(<<step>>, p[1])
    <3>1. s \in DOMAIN h[c].parts /\ p = <<<<s>>, h[c].parts[s]>>
      BY <1>1, <2>2
    <3>2. p \in Old
      BY <3>1, InPlaces
    <3>3. QED
      BY <3>2, <2>2, PrefixOf
  <2>3. ASSUME NEW s \in DOMAIN g[c].parts, NEW a \in DOMAIN g[g[c].parts[s]].parts,
               p = <<<<s, a>>, g[g[c].parts[s]].parts[a]>>
        PROVE  p \in Old /\ ~IsPrefix(<<step>>, p[1])
    <3>1. s # step
      BY <1>1
    <3>2. s \in DOMAIN h[c].parts /\ a \in DOMAIN h[h[c].parts[s]].parts
      BY <1>1, <3>1
    <3>3. p = <<<<s, a>>, h[h[c].parts[s]].parts[a]>>
      BY <1>1, <2>3, <3>1, <3>2
    <3>4. p \in Old
      BY <3>2, <3>3, InPlaces
    <3>5. QED
      BY <3>4, <3>1, <2>3, PrefixOf
  <2>4. ASSUME NEW s \in DOMAIN g[c].parts, p = <<<<s>>, g[c].parts[s]>>, s = step
        PROVE  p = <<<<step>>, new>>
    BY <2>4, <1>1
  <2>5. IsPlace(g, c, p)
    BY InPlaces
  <2>6. QED
    BY <2>1, <2>2, <2>3, <2>4, <2>5 DEF IsPlace
<1>5. QED
  BY <1>2, <1>3, <1>4 DEF PlacesPut

\* A new dictionary under a step of a part.
PutUnder(h, g, c, t, step, new) ==
  /\ t \in DOMAIN h[c].parts /\ g[c].parts = h[c].parts
  /\ g[h[c].parts[t]].parts = With(h[h[c].parts[t]].parts, step, new)
  /\ \A s \in DOMAIN h[c].parts \ {t} : g[h[c].parts[s]].parts = h[h[c].parts[s]].parts

LEMMA PutAtPart ==
  ASSUME NEW h, NEW g, NEW c, NEW t, NEW step, NEW new,
         PutUnder(h, g, c, t, step, new)
  PROVE  Places(g, c) = PlacesPut(h, c, <<t, step>>, new)
<1> DEFINE Old == Places(h, c)
           New == Places(g, c)
           Part(s) == h[c].parts[s]
<1>0. /\ t \in DOMAIN h[c].parts /\ g[c].parts = h[c].parts
      /\ g[Part(t)].parts = With(h[Part(t)].parts, step, new)
      /\ \A s \in DOMAIN h[c].parts \ {t} : g[Part(s)].parts = h[Part(s)].parts
  BY DEF PutUnder
<1>1. /\ DOMAIN g[Part(t)].parts = DOMAIN h[Part(t)].parts \cup {step}
      /\ g[Part(t)].parts[step] = new
      /\ \A s \in DOMAIN h[Part(t)].parts \ {step} : g[Part(t)].parts[s] = h[Part(t)].parts[s]
  BY <1>0 DEF With
<1>2. <<<<t, step>>, new>> \in New
  BY <1>0, <1>1, InPlaces
<1>3. ASSUME NEW p \in Old, ~IsPrefix(<<t, step>>, p[1])
      PROVE  p \in New
  <2>1. CASE p = <<<< >>, c>>
    BY <2>1, InPlaces
  <2>2. ASSUME NEW s \in DOMAIN h[c].parts, p = <<<<s>>, Part(s)>>
        PROVE  p \in New
    BY <1>0, <2>2, InPlaces
  <2>3. ASSUME NEW s \in DOMAIN h[c].parts, NEW a \in DOMAIN h[Part(s)].parts,
               p = <<<<s, a>>, h[Part(s)].parts[a]>>
        PROVE  p \in New
    <3>1. s # t \/ a # step
      <4>1. p[1] = <<s, a>>
        BY <2>3, Pairs
      <4>2. IsPrefix(<<t, step>>, <<t, step>>)
        BY PrefixOf
      <4>3. QED
        BY <1>3, <4>1, <4>2
    <3>2. a \in DOMAIN g[Part(s)].parts /\ g[Part(s)].parts[a] = h[Part(s)].parts[a]
      BY <1>0, <1>1, <3>1
    <3>3. p = <<<<s, a>>, g[g[c].parts[s]].parts[a]>>
      BY <1>0, <2>3, <3>2
    <3>4. QED
      BY <1>0, <3>2, <3>3, InPlaces
  <2>4. IsPlace(h, c, p)
    BY InPlaces
  <2>5. QED
    BY <2>1, <2>2, <2>3, <2>4 DEF IsPlace
<1>4. ASSUME NEW p \in New
      PROVE  (p \in Old /\ ~IsPrefix(<<t, step>>, p[1])) \/ p = <<<<t, step>>, new>>
  <2>1. CASE p = <<<< >>, c>>
    BY <2>1, InPlaces, PrefixOf
  <2>2. ASSUME NEW s \in DOMAIN g[c].parts, p = <<<<s>>, g[c].parts[s]>>
        PROVE  p \in Old /\ ~IsPrefix(<<t, step>>, p[1])
    BY <1>0, <2>2, InPlaces, PrefixOf
  <2>3. ASSUME NEW s \in DOMAIN g[c].parts, NEW a \in DOMAIN g[g[c].parts[s]].parts,
               p = <<<<s, a>>, g[g[c].parts[s]].parts[a]>>, s # t \/ a # step
        PROVE  p \in Old /\ ~IsPrefix(<<t, step>>, p[1])
    <3>1. s \in DOMAIN h[c].parts /\ a \in DOMAIN h[Part(s)].parts
      BY <1>0, <1>1, <2>3
    <3>2. g[g[c].parts[s]].parts[a] = h[Part(s)].parts[a]
      BY <1>0, <1>1, <2>3, <3>1
    <3>3. p \in Old
      BY <2>3, <3>1, <3>2, InPlaces
    <3>4. p[1] = <<s, a>>
      BY <2>3, Pairs
    <3>5. ~IsPrefix(<<t, step>>, <<s, a>>)
      BY <2>3, PrefixOfTwo
    <3>6. QED
      BY <3>3, <3>4, <3>5
  <2>4. ASSUME NEW s \in DOMAIN g[c].parts, NEW a \in DOMAIN g[g[c].parts[s]].parts,
               p = <<<<s, a>>, g[g[c].parts[s]].parts[a]>>, s = t, a = step
        PROVE  p = <<<<t, step>>, new>>
    BY <1>0, <1>1, <2>4
  <2>5. IsPlace(g, c, p)
    BY InPlaces
  <2>6. QED
    BY <2>1, <2>2, <2>3, <2>4, <2>5 DEF IsPlace
<1>5. QED
  BY <1>2, <1>3, <1>4 DEF PlacesPut

\* What the new dictionary says takes the place of what was said there.
LEMMA BegunSaid ==
  ASSUME NEW h, NEW g, NEW c, NEW path, NEW new, NEW texts,
         Places(g, c) = PlacesPut(h, c, path, new),
         \A p \in Places(h, c) : g[p[2]].texts = h[p[2]].texts,
         g[new].texts = texts
  PROVE  Content(g, c) = ContentPut(h, c, path, texts)
<1>0. Places(g, c) = {p \in Places(h, c) : ~IsPrefix(path, p[1])} \cup {<<path, new>>}
  BY DEF PlacesPut
<1>1. <<path, new>> \in Places(g, c)
  BY <1>0
<1>2. ASSUME NEW f \in Content(g, c)
      PROVE  (f \in Content(h, c) /\ ~IsPrefix(path, f.at)) \/ f \in FactsAt(path, texts)
  <2>1. PICK p \in Places(g, c) : f \in FactsAt(p[1], g[p[2]].texts)
    BY InContent
  <2>2. CASE p = <<path, new>>
    <3>1. p[1] = path /\ p[2] = new
      BY <2>2
    <3>2. QED
      BY <2>1, <3>1
  <2>3. CASE p \in Places(h, c) /\ ~IsPrefix(path, p[1])
    <3>1. f \in FactsAt(p[1], h[p[2]].texts)
      BY <2>1, <2>3
    <3>2. f \in Content(h, c)
      BY <2>3, <3>1, InContent
    <3>3. f.at = p[1]
      BY <3>1, FactsAreThere
    <3>4. QED
      BY <2>3, <3>2, <3>3
  <2>4. QED
    BY <1>0, <2>2, <2>3
<1>3. ASSUME NEW f \in Content(h, c), ~IsPrefix(path, f.at)
      PROVE  f \in Content(g, c)
  <2>1. PICK p \in Places(h, c) : f \in FactsAt(p[1], h[p[2]].texts)
    BY InContent
  <2>2. f.at = p[1]
    BY <2>1, FactsAreThere
  <2>3. p \in Places(g, c)
    BY <1>0, <1>3, <2>2
  <2>4. f \in FactsAt(p[1], g[p[2]].texts)
    BY <2>1
  <2>5. QED
    BY <2>3, <2>4, InContent
<1>4. ASSUME NEW f \in FactsAt(path, texts)
      PROVE  f \in Content(g, c)
  <2>1. f \in FactsAt(<<path, new>>[1], g[<<path, new>>[2]].texts)
    OBVIOUS
  <2>2. QED
    BY <1>1, <2>1, InContent
<1>5. QED
  BY <1>2, <1>3, <1>4 DEF ContentPut

\* A copy of all of an object's dictionaries says the same, at the same paths.
PlacesCopied(h, c, copy) == {<<p[1], copy[p[2]]>> : p \in Places(h, c)}

PartsCopied(h, g, c, copy) ==
  \A p \in Places(h, c) :
    /\ DOMAIN g[copy[p[2]]].parts = DOMAIN h[p[2]].parts
    /\ \A s \in DOMAIN h[p[2]].parts : g[copy[p[2]]].parts[s] = copy[h[p[2]].parts[s]]

LEMMA CopiedPlaces ==
  ASSUME NEW h, NEW g, NEW c, NEW copy, PartsCopied(h, g, c, copy)
  PROVE  Places(g, copy[c]) = PlacesCopied(h, c, copy)
<1> DEFINE Part(s) == h[c].parts[s]
           PartOf(s) == g[copy[c]].parts[s]
<1>1. /\ DOMAIN g[copy[c]].parts = DOMAIN h[c].parts
      /\ \A s \in DOMAIN h[c].parts : PartOf(s) = copy[Part(s)]
  <2>1. <<<< >>, c>> \in Places(h, c)
    BY InPlaces
  <2>2. QED
    BY <2>1 DEF PartsCopied
<1>2. ASSUME NEW s \in DOMAIN h[c].parts
      PROVE  /\ DOMAIN g[PartOf(s)].parts = DOMAIN h[Part(s)].parts
             /\ \A a \in DOMAIN h[Part(s)].parts : g[PartOf(s)].parts[a] = copy[h[Part(s)].parts[a]]
  <2>1. <<<<s>>, Part(s)>> \in Places(h, c)
    BY InPlaces
  <2>2. /\ DOMAIN g[copy[Part(s)]].parts = DOMAIN h[Part(s)].parts
        /\ \A a \in DOMAIN h[Part(s)].parts : g[copy[Part(s)]].parts[a] = copy[h[Part(s)].parts[a]]
    BY <2>1 DEF PartsCopied
  <2>3. PartOf(s) = copy[Part(s)]
    BY <1>1
  <2>4. QED
    BY <2>2, <2>3
<1>3. ASSUME NEW p \in Places(h, c)
      PROVE  <<p[1], copy[p[2]]>> \in Places(g, copy[c])
  <2>1. CASE p = <<<< >>, c>>
    BY <2>1, InPlaces
  <2>2. ASSUME NEW s \in DOMAIN h[c].parts, p = <<<<s>>, Part(s)>>
        PROVE  <<p[1], copy[p[2]]>> \in Places(g, copy[c])
    <3>1. p[1] = <<s>> /\ p[2] = Part(s)
      BY <2>2
    <3>2. <<<<s>>, PartOf(s)>> \in Places(g, copy[c])
      BY <1>1, InPlaces
    <3>3. QED
      BY <3>1, <3>2, <1>1
  <2>3. ASSUME NEW s \in DOMAIN h[c].parts, NEW a \in DOMAIN h[Part(s)].parts,
               p = <<<<s, a>>, h[Part(s)].parts[a]>>
        PROVE  <<p[1], copy[p[2]]>> \in Places(g, copy[c])
    <3>1. p[1] = <<s, a>> /\ p[2] = h[Part(s)].parts[a]
      BY <2>3
    <3>2. s \in DOMAIN g[copy[c]].parts /\ a \in DOMAIN g[PartOf(s)].parts
      BY <1>1, <1>2
    <3>3. <<<<s, a>>, g[PartOf(s)].parts[a]>> \in Places(g, copy[c])
      BY <3>2, InPlaces
    <3>4. g[PartOf(s)].parts[a] = copy[h[Part(s)].parts[a]]
      BY <1>2
    <3>5. QED
      BY <3>1, <3>3, <3>4
  <2>4. IsPlace(h, c, p)
    BY InPlaces
  <2>5. QED
    BY <2>1, <2>2, <2>3, <2>4 DEF IsPlace
<1>4. ASSUME NEW q \in Places(g, copy[c])
      PROVE  \E p \in Places(h, c) : q = <<p[1], copy[p[2]]>>
  <2>1. CASE q = <<<< >>, copy[c]>>
    <3>1. <<<< >>, c>> \in Places(h, c)
      BY InPlaces
    <3>2. QED
      BY <2>1, <3>1
  <2>2. ASSUME NEW s \in DOMAIN g[copy[c]].parts, q = <<<<s>>, PartOf(s)>>
        PROVE  \E p \in Places(h, c) : q = <<p[1], copy[p[2]]>>
    <3>1. <<<<s>>, Part(s)>> \in Places(h, c) /\ PartOf(s) = copy[Part(s)]
      BY <1>1, InPlaces
    <3>2. QED
      BY <2>2, <3>1
  <2>3. ASSUME NEW s \in DOMAIN g[copy[c]].parts, NEW a \in DOMAIN g[PartOf(s)].parts,
               q = <<<<s, a>>, g[PartOf(s)].parts[a]>>
        PROVE  \E p \in Places(h, c) : q = <<p[1], copy[p[2]]>>
    <3>1. s \in DOMAIN h[c].parts /\ a \in DOMAIN h[Part(s)].parts
      BY <1>1, <1>2
    <3>2. <<<<s, a>>, h[Part(s)].parts[a]>> \in Places(h, c)
      BY <3>1, InPlaces
    <3>3. g[PartOf(s)].parts[a] = copy[h[Part(s)].parts[a]]
      BY <1>2, <3>1
    <3>4. QED
      BY <2>3, <3>2, <3>3
  <2>4. IsPlace(g, copy[c], q)
    BY InPlaces
  <2>5. QED
    BY <2>1, <2>2, <2>3, <2>4 DEF IsPlace
<1>5. QED
  BY <1>3, <1>4 DEF PlacesCopied

LEMMA CopiedSaid ==
  ASSUME NEW h, NEW g, NEW c, NEW copy,
         Places(g, copy[c]) = PlacesCopied(h, c, copy),
         \A p \in Places(h, c) : g[copy[p[2]]].texts = h[p[2]].texts
  PROVE  Content(g, copy[c]) = Content(h, c)
<1>0. Places(g, copy[c]) = {<<p[1], copy[p[2]]>> : p \in Places(h, c)}
  BY DEF PlacesCopied
<1>1. ASSUME NEW f \in Content(h, c)
      PROVE  f \in Content(g, copy[c])
  <2>1. PICK p \in Places(h, c) : f \in FactsAt(p[1], h[p[2]].texts)
    BY InContent
  <2>2. <<p[1], copy[p[2]]>> \in Places(g, copy[c])
    BY <1>0
  <2>3. f \in FactsAt(<<p[1], copy[p[2]]>>[1], g[<<p[1], copy[p[2]]>>[2]].texts)
    BY <2>1
  <2>4. QED
    BY <2>2, <2>3, InContent
<1>2. ASSUME NEW f \in Content(g, copy[c])
      PROVE  f \in Content(h, c)
  <2>1. PICK q \in Places(g, copy[c]) : f \in FactsAt(q[1], g[q[2]].texts)
    BY InContent
  <2>2. PICK p \in Places(h, c) : q = <<p[1], copy[p[2]]>>
    BY <1>0
  <2>3. q[1] = p[1] /\ q[2] = copy[p[2]]
    BY <2>2
  <2>4. f \in FactsAt(p[1], h[p[2]].texts)
    BY <2>1, <2>3
  <2>5. QED
    BY <2>4, InContent
<1>3. QED
  BY <1>1, <1>2

-----------------------------------------------------------------------------
(***************************************************************************)
(* The inductive invariant.  The dictionaries are a forest: each is in at  *)
(* most one other, those of the objects in none, and under an attribute's  *)
(* there is nothing.  So a dictionary has one place at most, and to change *)
(* it changes what is said at that place.  A handle that still speaks for  *)
(* its path stands on the dictionary that is there; any other stands on    *)
(* one that belongs to no object any more.                                 *)
(***************************************************************************)

Cells == DOMAIN heap
Roots == DOMAIN said
Part(c, s) == heap[c].parts[s]

Forest ==
  /\ \A c \in Cells : \A s \in DOMAIN heap[c].parts : Part(c, s) \in Cells \ Roots
  /\ \A c, d \in Cells : \A s \in DOMAIN heap[c].parts : \A t \in DOMAIN heap[d].parts :
       Part(c, s) = Part(d, t) => c = d /\ s = t
  /\ Roots \subseteq Cells
  /\ \A r \in Roots : \A s \in DOMAIN heap[r].parts : \A a \in DOMAIN heap[Part(r, s)].parts :
       DOMAIN heap[Part(Part(r, s), a)].parts = {}

IsSequence(s) == s \in Seq(Range(s))

HandleStands(i) ==
  LET t == handles[i]
  IN  /\ t.cell \in Cells /\ t.root \in Roots
      /\ t.kind \in {"section", "query"} => t.path = <<t.path[1]>>
      /\ Current(i) => <<t.path, t.cell>> \in Places(heap, t.root)
      /\ ~Current(i) => \A r \in Roots : \A p \in Places(heap, r) : p[2] # t.cell

HandlesStand == IsSequence(handles) /\ \A i \in DOMAIN handles : HandleStands(i)

ObjectFields == {"kind", "path", "value", "enabled", "overlays", "named", "origin"}

ObjectStands(o) ==
  LET object == objects[o]
      origin == objects[object.origin]
      texts  == heap[object.value].texts
  IN  /\ DOMAIN object = ObjectFields
      /\ object.value \in Roots /\ object.origin \in Objects
      /\ object.kind = origin.kind /\ object.path = origin.path
      /\ object.enabled = origin.enabled /\ object.overlays = origin.overlays
      /\ object.kind \in {"topology", "overlay"} =>
           \A key \in Identity : key \in DOMAIN texts /\ texts[key] = "made"
      /\ object.kind \notin {"topology", "overlay"} => object.origin = o
      /\ ~object.named => object.kind = "overlay" /\ object.origin # o
      /\ object.kind = "topology" => {"ui_name", "ui_name_key"} \cap DOMAIN texts # {}

ObjectsStand == IsSequence(objects) /\ \A o \in Objects : ObjectStands(o)

SaidIsHeld == \A r \in Roots : said[r] = Content(heap, r)

IInv == Forest /\ HandlesStand /\ ObjectsStand /\ SaidIsHeld

-----------------------------------------------------------------------------
\* What the forest gives: a place is on a dictionary that was made, and a
\* dictionary has one place at most.

LEMMA PlacesAreMade ==
  ASSUME Forest, NEW r \in Roots, NEW p \in Places(heap, r)
  PROVE  /\ p[2] \in Cells
         /\ \A s \in DOMAIN heap[p[2]].parts : Part(p[2], s) \in Cells
         /\ p[1] # << >> => p[2] \notin Roots
<1>1. r \in Cells /\ \A c \in Cells : \A s \in DOMAIN heap[c].parts : Part(c, s) \in Cells \ Roots
  BY DEF Forest
<1>2. p[2] \in Cells /\ (p[1] # << >> => p[2] \notin Roots)
  BY <1>1, PlaceCases DEF Part, AtPlace
<1>3. QED
  BY <1>1, <1>2

LEMMA OnePlacePerCell ==
  ASSUME Forest, NEW r \in Roots, NEW p \in Places(heap, r),
         NEW t \in Roots, NEW q \in Places(heap, t), p[2] = q[2]
  PROVE  p = q /\ r = t
<1> DEFINE Parent(c, s, d) == c \in Cells /\ s \in DOMAIN heap[c].parts /\ Part(c, s) = d
<1>1. /\ \A c, d, s, u, e : Parent(c, s, e) /\ Parent(d, u, e) => c = d /\ s = u
      /\ \A c, s, e : Parent(c, s, e) => e \in Cells /\ e \notin Roots
      /\ Roots \subseteq Cells
  BY DEF Forest
<1>2. ASSUME NEW x \in Roots, NEW y \in Places(heap, x)
      PROVE  \/ y[1] = << >> /\ y[2] = x
             \/ \E s : y[1] = <<s>> /\ Parent(x, s, y[2])
             \/ \E s, a : \E d : y[1] = <<s, a>> /\ Parent(x, s, d) /\ Parent(d, a, y[2])
  <2>1. CASE y[1] = << >> /\ y[2] = x
    BY <2>1
  <2>2. ASSUME NEW s \in DOMAIN heap[x].parts, y[1] = <<s>> /\ y[2] = heap[x].parts[s]
        PROVE  y[1] = <<s>> /\ Parent(x, s, y[2])
    BY <1>1, <2>2 DEF Part
  <2>3. ASSUME NEW s \in DOMAIN heap[x].parts, NEW a \in DOMAIN heap[heap[x].parts[s]].parts,
               y[1] = <<s, a>> /\ y[2] = heap[heap[x].parts[s]].parts[a]
        PROVE  y[1] = <<s, a>> /\ Parent(x, s, Part(x, s)) /\ Parent(Part(x, s), a, y[2])
    <3>1. Parent(x, s, Part(x, s))
      BY <1>1
    <3>2. Part(x, s) \in Cells
      BY <1>1, <3>1
    <3>3. QED
      BY <3>1, <3>2, <2>3 DEF Part
  <2>4. QED
    BY <2>1, <2>2, <2>3, PlaceCases DEF AtPlace
<1> HIDE DEF Parent
<1>3. \/ p[1] = << >> /\ p[2] = r
      \/ \E s : p[1] = <<s>> /\ Parent(r, s, p[2])
      \/ \E s, a : \E d : p[1] = <<s, a>> /\ Parent(r, s, d) /\ Parent(d, a, p[2])
  BY <1>2
<1>4. \/ q[1] = << >> /\ q[2] = t
      \/ \E s : q[1] = <<s>> /\ Parent(t, s, q[2])
      \/ \E s, a : \E d : q[1] = <<s, a>> /\ Parent(t, s, d) /\ Parent(d, a, q[2])
  BY <1>2
<1>5. p[1] = q[1] /\ r = t
  BY <1>1, <1>3, <1>4
<1>6. p = <<p[1], p[2]>> /\ q = <<q[1], q[2]>>
  BY PlaceCases
<1>7. QED
  BY <1>5, <1>6

-----------------------------------------------------------------------------
\* The heap after each kind of change.

LEMMA FreshCell ==
  ASSUME Room
  PROVE  Fresh \in Cell /\ Fresh \notin Cells
  BY DEF Room, Fresh, Cells

LEMMA HeapAdded ==
  ASSUME NEW texts, Fresh \notin Cells
  PROVE  /\ DOMAIN Added(texts) = Cells \cup {Fresh}
         /\ Added(texts)[Fresh].texts = texts /\ DOMAIN Added(texts)[Fresh].parts = {}
         /\ \A c \in Cells : Added(texts)[c] = heap[c]
<1> DEFINE g == Added(texts)
<1>1. g = With(heap, Fresh, Dict(texts, Nothing))
  BY DEF Added
<1>2. /\ DOMAIN g = Cells \cup {Fresh} /\ g[Fresh] = Dict(texts, Nothing)
      /\ \A c \in Cells : g[c] = heap[c]
  BY <1>1 DEF With, Cells
<1>3. QED
  BY <1>2 DEF Dict, Nothing

LEMMA HeapTextChanged ==
  ASSUME NEW c \in Cells, NEW key, NEW g, g = TextChanged(c, key)
  PROVE  /\ DOMAIN g = Cells
         /\ \A d \in Cells : g[d].parts = heap[d].parts
         /\ \A d \in Cells \ {c} : g[d].texts = heap[d].texts
         /\ g[c].texts = With(heap[c].texts, key, "set")
<1>1. /\ DOMAIN g = Cells /\ g[c] = Dict(With(heap[c].texts, key, "set"), heap[c].parts)
      /\ \A d \in Cells \ {c} : g[d] = heap[d]
  BY DEF TextChanged, Cells
<1>2. QED
  BY <1>1 DEF Dict

IsPut(g, c, step, texts, new) ==
  /\ DOMAIN g = Cells \cup {new}
  /\ g[new].texts = texts /\ DOMAIN g[new].parts = {}
  /\ \A d \in Cells : g[d].texts = heap[d].texts
  /\ \A d \in Cells \ {c} : g[d].parts = heap[d].parts
  /\ g[c].parts = With(heap[c].parts, step, new)

LEMMA HeapPut ==
  ASSUME NEW c \in Cells, NEW step, NEW texts, Fresh \notin Cells
  PROVE  IsPut(Put(c, step, texts), c, step, texts, Fresh)
<1> DEFINE g == Put(c, step, texts)
           h == Added(texts)
<1>1. /\ DOMAIN h = Cells \cup {Fresh}
      /\ h[Fresh].texts = texts /\ DOMAIN h[Fresh].parts = {}
      /\ \A d \in Cells : h[d] = heap[d]
  BY HeapAdded
<1>2. g = [h EXCEPT ![c] = Dict(h[c].texts, With(h[c].parts, step, Fresh))]
  BY DEF Put
<1> HIDE DEF g, h
<1>3. /\ DOMAIN g = DOMAIN h /\ g[c] = Dict(heap[c].texts, With(heap[c].parts, step, Fresh))
      /\ \A d \in DOMAIN h \ {c} : g[d] = h[d]
  BY <1>1, <1>2
<1>4. QED
  BY <1>1, <1>3 DEF Dict, g, IsPut

-----------------------------------------------------------------------------
\* The dictionaries stay a forest.

LEMMA ForestKept ==
  ASSUME Forest, Cells' = Cells, Roots' = Roots, \A d \in Cells : heap'[d].parts = heap[d].parts
  PROVE  Forest'
<1>1. \A d \in Cells : DOMAIN heap'[d].parts = DOMAIN heap[d].parts
                     /\ \A s \in DOMAIN heap[d].parts : Part(d, s)' = Part(d, s)
  BY DEF Part
<1>2. \A r \in Roots : \A s \in DOMAIN heap[r].parts :
        /\ r \in Cells /\ Part(r, s) \in Cells
        /\ \A a \in DOMAIN heap[Part(r, s)].parts : Part(Part(r, s), a) \in Cells
  BY DEF Forest
<1>3. ASSUME NEW r \in Roots', NEW s \in DOMAIN heap'[r].parts,
             NEW a \in DOMAIN heap'[Part(r, s)'].parts
      PROVE  DOMAIN heap'[Part(Part(r, s), a)'].parts = {}
  <2>0. r \in Roots /\ r \in Cells
    BY DEF Forest
  <2>1. s \in DOMAIN heap[r].parts /\ Part(r, s)' = Part(r, s)
    BY <1>1, <2>0
  <2>2. a \in DOMAIN heap[Part(r, s)].parts /\ Part(Part(r, s), a)' = Part(Part(r, s), a)
    BY <1>1, <1>2, <2>1 DEF Part
  <2>3. QED
    BY <1>1, <1>2, <2>1, <2>2 DEF Forest
<1>4. QED
  BY <1>1, <1>3 DEF Forest

LEMMA ForestWithRoot ==
  ASSUME Forest, NEW new, new \notin Cells, Cells' = Cells \cup {new}, Roots' = Roots \cup {new},
         \A d \in Cells : heap'[d] = heap[d], DOMAIN heap'[new].parts = {}
  PROVE  Forest'
<1>1. \A c \in Cells' : \A s \in DOMAIN heap'[c].parts :
        c \in Cells /\ s \in DOMAIN heap[c].parts /\ Part(c, s)' = Part(c, s)
  BY DEF Part
<1>2. /\ \A c \in Cells : \A s \in DOMAIN heap[c].parts : Part(c, s) \in Cells \ Roots
      /\ \A c, d \in Cells : \A s \in DOMAIN heap[c].parts : \A t \in DOMAIN heap[d].parts :
           Part(c, s) = Part(d, t) => c = d /\ s = t
      /\ Roots \subseteq Cells
      /\ \A r \in Roots : \A s \in DOMAIN heap[r].parts : \A a \in DOMAIN heap[Part(r, s)].parts :
           DOMAIN heap[Part(Part(r, s), a)].parts = {}
  BY DEF Forest
<1>3. \A c \in Cells' : \A s \in DOMAIN heap'[c].parts : Part(c, s)' \in Cells' \ Roots'
  BY <1>1, <1>2
<1>4. \A c, d \in Cells' : \A s \in DOMAIN heap'[c].parts : \A t \in DOMAIN heap'[d].parts :
        Part(c, s)' = Part(d, t)' => c = d /\ s = t
  BY <1>1, <1>2
<1>5. ASSUME NEW r \in Roots', NEW s \in DOMAIN heap'[r].parts,
             NEW a \in DOMAIN heap'[Part(r, s)'].parts
      PROVE  DOMAIN heap'[Part(Part(r, s), a)'].parts = {}
  <2>1. r \in Roots /\ s \in DOMAIN heap[r].parts /\ Part(r, s)' = Part(r, s) /\ Part(r, s) \in Cells
    BY <1>1, <1>2
  <2>2. a \in DOMAIN heap[Part(r, s)].parts /\ Part(Part(r, s), a)' = Part(Part(r, s), a)
    BY <2>1 DEF Part
  <2>3. Part(Part(r, s), a) \in Cells
    BY <1>2, <2>1, <2>2
  <2>4. QED
    BY <1>2, <2>1, <2>2, <2>3
<1>6. QED
  BY <1>2, <1>3, <1>4, <1>5 DEF Forest

LEMMA ForestWithPart ==
  ASSUME Forest, NEW c \in Cells, NEW step, NEW new, new \notin Cells,
         Cells' = Cells \cup {new}, Roots' = Roots, DOMAIN heap'[new].parts = {},
         \A d \in Cells \ {c} : heap'[d].parts = heap[d].parts,
         heap'[c].parts = With(heap[c].parts, step, new),
         \A r \in Roots : \A p \in Places(heap, r) :
           p[2] = c => p[1] = << >> \/ \E s : p[1] = <<s>>
  PROVE  Forest'
<1>0. /\ \A d \in Cells : \A s \in DOMAIN heap[d].parts : Part(d, s) \in Cells \ Roots
      /\ \A d, e \in Cells : \A s \in DOMAIN heap[d].parts : \A t \in DOMAIN heap[e].parts :
           Part(d, s) = Part(e, t) => d = e /\ s = t
      /\ Roots \subseteq Cells
      /\ \A r \in Roots : \A s \in DOMAIN heap[r].parts : \A a \in DOMAIN heap[Part(r, s)].parts :
           DOMAIN heap[Part(Part(r, s), a)].parts = {}
  BY DEF Forest
<1>1. \A d \in Cells' : \A s \in DOMAIN heap'[d].parts :
        \/ d = c /\ s = step /\ Part(d, s)' = new
        \/ d \in Cells /\ s \in DOMAIN heap[d].parts /\ Part(d, s)' = Part(d, s)
  BY DEF Part, With
<1>2. \A d \in Cells' : \A s \in DOMAIN heap'[d].parts : Part(d, s)' \in Cells' \ Roots'
  BY <1>0, <1>1
<1>3. \A d, e \in Cells' : \A s \in DOMAIN heap'[d].parts : \A t \in DOMAIN heap'[e].parts :
        Part(d, s)' = Part(e, t)' => d = e /\ s = t
  BY <1>0, <1>1
<1>4. ASSUME NEW r \in Roots, NEW s \in DOMAIN heap'[r].parts,
             NEW a \in DOMAIN heap'[Part(r, s)'].parts
      PROVE  DOMAIN heap'[Part(Part(r, s), a)'].parts = {}
  <2> DEFINE d == Part(r, s)
             e == Part(d, a)
  <2>1. r \in Cells'
    BY <1>0
  <2>2. d' # new
    <3>1. DOMAIN heap'[new].parts = {}
      OBVIOUS
    <3>2. QED
      BY <3>1
  <2>3. s \in DOMAIN heap[r].parts /\ d' = d /\ d \in Cells
    BY <1>0, <1>1, <2>1, <2>2
  <2>4. CASE e' = new
    BY <2>4
  <2>5. CASE e' # new
    <3>1. Part(d, a)' = heap'[d].parts[a]
      BY <2>3 DEF Part
    <3>2. d \in Cells' /\ a \in DOMAIN heap'[d].parts
      BY <2>3
    <3>3. a \in DOMAIN heap[d].parts /\ e' = e /\ e \in Cells
      BY <1>0, <1>1, <2>3, <2>5, <3>2
    <3>4. DOMAIN heap[e].parts = {}
      BY <1>0, <2>3, <3>3
    <3>5. e # c
      <4>1. <<<<s, a>>, e>> \in Places(heap, r)
        BY <2>3, <3>3, InPlaces DEF Part
      <4>2. <<<<s, a>>, e>>[1] = <<s, a>> /\ <<<<s, a>>, e>>[2] = e
        OBVIOUS
      <4>3. e = c => <<s, a>> = << >> \/ \E t : <<s, a>> = <<t>>
        BY <4>1, <4>2
      <4>4. QED
        BY <4>3, PathsDiffer
    <3>6. QED
      BY <3>3, <3>4, <3>5
  <2>6. QED
    BY <2>4, <2>5
<1>5. QED
  BY <1>0, <1>2, <1>3, <1>4 DEF Forest

-----------------------------------------------------------------------------
\* Sequences that grow, and which handles still speak.

LEMMA Appended ==
  ASSUME NEW s, IsSequence(s), NEW x
  PROVE  /\ Len(s) \in Nat /\ DOMAIN s = 1..Len(s)
         /\ DOMAIN Append(s, x) = 1..Len(s) + 1
         /\ Len(Append(s, x)) = Len(s) + 1
         /\ \A i \in DOMAIN s : Append(s, x)[i] = s[i]
         /\ Append(s, x)[Len(s) + 1] = x
         /\ IsSequence(Append(s, x))
<1> DEFINE S == Range(s) \cup {x}
           t == Append(s, x)
<1>1. s \in Seq(S)
  BY DEF IsSequence
<1>2. t \in Seq(S)
  BY <1>1
<1>3. /\ Len(s) \in Nat /\ DOMAIN s = 1..Len(s) /\ DOMAIN t = 1..Len(s) + 1
      /\ Len(t) = Len(s) + 1
      /\ \A i \in DOMAIN s : t[i] = s[i]
      /\ t[Len(s) + 1] = x
  BY <1>1
<1>4. t \in Seq(Range(t))
  <2>1. \A i \in 1..Len(t) : t[i] \in Range(t)
    BY <1>3 DEF Range
  <2>2. QED
    BY <1>2, <2>1
<1>5. QED
  BY <1>3, <1>4 DEF IsSequence

LEMMA Newest ==
  ASSUME IsSequence(handles), NEW new, handles' = Append(handles, new),
         NEW n, n = Len(handles) + 1
  PROVE  /\ DOMAIN handles' = DOMAIN handles \cup {n} /\ n \notin DOMAIN handles
         /\ \A i \in DOMAIN handles : handles'[i] = handles[i]
         /\ handles'[n] = new /\ IsSequence(handles')
         /\ Current(n)' <=> new.live
         /\ \A i \in DOMAIN handles :
              Current(i)' <=> /\ Current(i)
                              /\ ~(/\ new.live /\ new.root = handles[i].root
                                   /\ IsPrefix(new.path, handles[i].path))
<1>0. /\ Len(handles) \in Nat /\ DOMAIN handles = 1..Len(handles)
      /\ DOMAIN handles' = 1..n /\ Len(handles') = n
  BY Appended
<1>1. /\ \A i \in DOMAIN handles : handles'[i] = handles[i]
      /\ handles'[n] = new
  BY Appended
<1>i. IsSequence(handles')
  BY Appended
<1>2. DOMAIN handles' = DOMAIN handles \cup {n} /\ n \notin DOMAIN handles
  BY <1>0
<1>3. Current(n)' <=> new.live
  <2>1. (n + 1)..Len(handles') = {}
    BY <1>0
  <2>2. QED
    BY <1>1, <2>1 DEF Current
<1>4. ASSUME NEW i \in DOMAIN handles
      PROVE  Current(i)' <=> /\ Current(i)
                             /\ ~(/\ new.live /\ new.root = handles[i].root
                                  /\ IsPrefix(new.path, handles[i].path))
  <2> DEFINE Over(j) == /\ handles[j].live /\ handles[j].root = handles[i].root
                        /\ IsPrefix(handles[j].path, handles[i].path)
             OverNew == /\ new.live /\ new.root = handles[i].root
                        /\ IsPrefix(new.path, handles[i].path)
  <2>1. Current(i) <=> handles[i].live /\ \A j \in (i + 1)..Len(handles) : ~Over(j)
    BY DEF Current
  <2>2. Current(i)' <=> handles'[i].live /\ \A j \in (i + 1)..Len(handles') : ~Over(j)'
    BY DEF Current
  <2>3. handles'[i] = handles[i]
    BY <1>1
  <2>4. ASSUME NEW j \in (i + 1)..Len(handles)
        PROVE  Over(j)' <=> Over(j)
    <3>1. j \in DOMAIN handles
      BY <1>0
    <3>2. handles'[j] = handles[j]
      BY <1>1, <3>1
    <3>3. QED
      BY <2>3, <3>2
  <2>5. Over(n)' <=> OverNew
    BY <1>1, <2>3
  <2>6. (i + 1)..Len(handles') = ((i + 1)..Len(handles)) \cup {n}
    BY <1>0
  <2> HIDE DEF Over, OverNew
  <2>7. Current(i)' <=> Current(i) /\ ~OverNew
    BY <2>1, <2>2, <2>3, <2>4, <2>5, <2>6
  <2>8. QED
    BY <2>7 DEF OverNew
<1>5. QED
  BY <1>1, <1>i, <1>2, <1>3, <1>4

-----------------------------------------------------------------------------
\* What the objects and the handles keep.

TextsKept ==
  \A r \in Roots : /\ DOMAIN heap[r].texts \subseteq DOMAIN heap'[r].texts
                   /\ \A key \in Identity \cap DOMAIN heap[r].texts :
                        heap'[r].texts[key] = heap[r].texts[key]

LEMMA OldObjectsStand ==
  ASSUME ObjectsStand, \A o \in Objects : o \in Objects' /\ objects'[o] = objects[o],
         Roots \subseteq Roots', TextsKept
  PROVE  \A o \in Objects : ObjectStands(o)'
<1> TAKE o \in Objects
<1> DEFINE object == objects[o]
           origin == objects[object.origin]
           texts  == heap[object.value].texts
<1>1. /\ DOMAIN object = ObjectFields
      /\ object.value \in Roots /\ object.origin \in Objects
      /\ object.kind = origin.kind /\ object.path = origin.path
      /\ object.enabled = origin.enabled /\ object.overlays = origin.overlays
  BY DEF ObjectsStand, ObjectStands
<1>2. /\ object.kind \in {"topology", "overlay"} =>
           \A key \in Identity : key \in DOMAIN texts /\ texts[key] = "made"
      /\ object.kind \notin {"topology", "overlay"} => object.origin = o
      /\ ~object.named => object.kind = "overlay" /\ object.origin # o
      /\ object.kind = "topology" => {"ui_name", "ui_name_key"} \cap DOMAIN texts # {}
  BY DEF ObjectsStand, ObjectStands
<1>3. object' = object /\ origin' = origin
  BY <1>1
<1>4. /\ DOMAIN texts \subseteq DOMAIN texts'
      /\ \A key \in Identity \cap DOMAIN texts : texts'[key] = texts[key]
  BY <1>1, <1>3 DEF TextsKept
<1>5. object'.value \in Roots' /\ object'.origin \in Objects'
  BY <1>1, <1>3
<1>6. object.kind \in {"topology", "overlay"} =>
        \A key \in Identity : key \in DOMAIN texts' /\ texts'[key] = "made"
  BY <1>2, <1>4
<1>7. object.kind = "topology" => {"ui_name", "ui_name_key"} \cap DOMAIN texts' # {}
  BY <1>2, <1>4
<1> HIDE DEF object, origin, texts
<1>8. QED
  BY <1>1, <1>2, <1>3, <1>5, <1>6, <1>7 DEF ObjectStands, object, origin, texts

LEMMA ObjectAdded ==
  ASSUME ObjectsStand, NEW object, objects' = Append(objects, object),
         Roots \subseteq Roots', TextsKept, NEW n, n = Len(objects) + 1,
         /\ \A o \in Objects : o \in Objects' /\ objects'[o] = objects[o]
         /\ n \in Objects' /\ n \notin Objects /\ objects'[n] = object
         => ObjectStands(n)'
  PROVE  ObjectsStand'
<1>0. IsSequence(objects)
  BY DEF ObjectsStand
<1>1. Len(objects) \in Nat /\ Objects = 1..Len(objects) /\ Objects' = 1..Len(objects) + 1
  BY <1>0, Appended DEF Objects
<1>2. Objects' = Objects \cup {n} /\ n \notin Objects
  BY <1>1
<1>3. /\ \A o \in Objects : objects'[o] = objects[o]
      /\ objects'[n] = object
  BY <1>0, Appended DEF Objects
<1>4. IsSequence(objects')
  BY <1>0, Appended
<1>5. \A o \in Objects : ObjectStands(o)'
  BY <1>2, <1>3, OldObjectsStand
<1>6. ObjectStands(n)'
  BY <1>2, <1>3
<1>7. QED
  BY <1>2, <1>4, <1>5, <1>6 DEF ObjectsStand

LEMMA ObjectsKept ==
  ASSUME ObjectsStand, UNCHANGED objects, Roots \subseteq Roots', TextsKept
  PROVE  ObjectsStand'
<1>1. \A o \in Objects : ObjectStands(o)'
  BY OldObjectsStand DEF Objects
<1>2. QED
  BY <1>1 DEF ObjectsStand, Objects

LEMMA HandlesKept ==
  ASSUME HandlesStand, UNCHANGED handles, Cells \subseteq Cells', Roots \subseteq Roots',
         \A r \in Roots : Places(heap', r) = Places(heap, r),
         \A r \in Roots' \ Roots : \A p \in Places(heap', r) : p[2] \notin Cells
  PROVE  HandlesStand'
<1>1. ASSUME NEW i \in DOMAIN handles
      PROVE  HandleStands(i)'
  <2> DEFINE t == handles[i]
  <2>1. t' = t /\ (Current(i)' <=> Current(i))
    BY DEF Current
  <2>2. /\ t.cell \in Cells /\ t.root \in Roots
        /\ t.kind \in {"section", "query"} => t.path = <<t.path[1]>>
        /\ Current(i) => <<t.path, t.cell>> \in Places(heap, t.root)
        /\ ~Current(i) => \A r \in Roots : \A p \in Places(heap, r) : p[2] # t.cell
    BY DEF HandlesStand, HandleStands
  <2>3. Current(i) => <<t.path, t.cell>> \in Places(heap', t.root)
    BY <2>2
  <2>4. ~Current(i) => \A r \in Roots' : \A p \in Places(heap', r) : p[2] # t.cell
    BY <2>2
  <2> HIDE DEF t
  <2>5. QED
    BY <2>1, <2>2, <2>3, <2>4 DEF HandleStands, t
<1>2. QED
  BY <1>1 DEF HandlesStand

-----------------------------------------------------------------------------
\* A text is set: in a dictionary of an object, or in one that is no object's
\* any more.

LEMMA TextStep ==
  ASSUME IInv, NEW c \in Cells, NEW key, key # Exists, key \notin Identity,
         heap' = TextChanged(c, key), UNCHANGED <<objects, handles>>,
         \/ \E r \in Roots : \E p \in Places(heap, r) : p[2] = c /\ Say(r, p[1], key)
         \/ (\A r \in Roots : \A p \in Places(heap, r) : p[2] # c) /\ UNCHANGED said
  PROVE  IInv'
<1> USE DEF IInv
<1>1. /\ Cells' = Cells
      /\ \A d \in Cells : heap'[d].parts = heap[d].parts
      /\ \A d \in Cells \ {c} : heap'[d].texts = heap[d].texts
      /\ heap'[c].texts = With(heap[c].texts, key, "set")
  BY HeapTextChanged DEF Cells
<1>2. Roots' = Roots
  BY DEF Say, Roots
<1>3. \A r \in Roots : Places(heap', r) = Places(heap, r)
  BY <1>1, SamePlaces, PlacesAreMade
<1>4. Forest'
  BY <1>1, <1>2, ForestKept
<1>5. HandlesStand'
  BY <1>1, <1>2, <1>3, HandlesKept
<1>6. ObjectsStand'
  <2>1. TextsKept
    BY <1>1 DEF TextsKept, With, Forest
  <2>2. QED
    BY <1>2, <2>1, ObjectsKept
<1>7. ASSUME NEW r \in Roots, \A p \in Places(heap, r) : p[2] # c
      PROVE  Content(heap', r) = Content(heap, r)
  <2>1. \A p \in Places(heap, r) : p[2] \in Cells \ {c}
    BY <1>7, PlacesAreMade
  <2>2. QED
    BY <1>1, <2>1, SameContent
<1>8. CASE (\A r \in Roots : \A p \in Places(heap, r) : p[2] # c) /\ UNCHANGED said
  <2>1. SaidIsHeld'
    BY <1>2, <1>7, <1>8 DEF SaidIsHeld
  <2>2. QED
    BY <1>4, <1>5, <1>6, <2>1
<1>9. ASSUME NEW r \in Roots, NEW p \in Places(heap, r), p[2] = c, Say(r, p[1], key)
      PROVE  IInv'
  <2>1. said'[r] = {f \in Content(heap, r) : f.at # p[1] \/ f.key # key}
                     \cup {Fact(p[1], key, "set")}
    BY <1>9 DEF Say, SaidIsHeld, Roots
  <2>2. \A q \in Places(heap, r) : q[2] = p[2] => q[1] = p[1]
    BY OnePlacePerCell
  <2>3. \A q \in Places(heap, r) : q[2] # p[2] => heap'[q[2]].texts = heap[q[2]].texts
    BY <1>1, <1>9, PlacesAreMade
  <2>4. Content(heap', r) = said'[r]
    <3>1. heap'[p[2]].texts = With(heap[p[2]].texts, key, "set")
      BY <1>1, <1>9
    <3>2. QED
      BY <1>3, <2>1, <2>2, <2>3, <3>1, TextSaid
  <2>5. ASSUME NEW t \in Roots, t # r
        PROVE  said'[t] = Content(heap', t)
    <3>1. said'[t] = said[t]
      BY <1>9, <2>5 DEF Say, Roots
    <3>2. \A q \in Places(heap, t) : q[2] # c
      BY <1>9, <2>5, OnePlacePerCell
    <3>3. QED
      BY <1>7, <3>1, <3>2 DEF SaidIsHeld
  <2>6. SaidIsHeld'
    BY <1>2, <2>4, <2>5 DEF SaidIsHeld
  <2>7. QED
    BY <1>4, <1>5, <1>6, <2>6
<1>10. QED
  BY <1>8, <1>9

-----------------------------------------------------------------------------
\* An object is made, with a dictionary of its own.

LEMMA CreateStep ==
  ASSUME IInv, NEW object, NEW texts, Create(object, texts), DOMAIN object = ObjectFields,
         object.value = Fresh, object.origin = Len(objects) + 1, object.named = TRUE,
         object.kind \in {"topology", "overlay"} =>
           \A key \in Identity : key \in DOMAIN texts /\ texts[key] = "made",
         object.kind = "topology" => {"ui_name", "ui_name_key"} \cap DOMAIN texts # {}
  PROVE  IInv'
<1> USE DEF IInv
<1>0. PICK new : new = Fresh
  OBVIOUS
<1>1. /\ new \notin Cells /\ Cells' = Cells \cup {new}
      /\ heap'[new].texts = texts /\ DOMAIN heap'[new].parts = {}
      /\ \A c \in Cells : heap'[c] = heap[c]
  <2>1. Fresh \notin Cells /\ heap' = Added(texts)
    BY FreshCell DEF Create
  <2>2. /\ DOMAIN heap' = Cells \cup {Fresh}
        /\ heap'[Fresh].texts = texts /\ DOMAIN heap'[Fresh].parts = {}
        /\ \A c \in Cells : heap'[c] = heap[c]
    BY <2>1, HeapAdded
  <2>3. QED
    BY <1>0, <2>1, <2>2 DEF Cells
<1>2. /\ Roots' = Roots \cup {new} /\ said'[new] = FactsAt(<< >>, texts)
      /\ \A r \in Roots : said'[r] = said[r]
  <2>1. Roots \subseteq Cells /\ said' = With(said, new, FactsAt(<< >>, texts))
    BY <1>0 DEF Create, Forest
  <2>2. DOMAIN said' = DOMAIN said \cup {new} /\ said'[new] = FactsAt(<< >>, texts)
          /\ \A r \in DOMAIN said \ {new} : said'[r] = said[r]
    BY <2>1 DEF With
  <2>3. QED
    BY <1>1, <2>1, <2>2 DEF Roots
<1>3. \A r \in Roots : \A p \in Places(heap, r) : heap'[p[2]] = heap[p[2]]
  BY <1>1, PlacesAreMade
<1>4. \A r \in Roots : Places(heap', r) = Places(heap, r) /\ Content(heap', r) = Content(heap, r)
  BY <1>3, SamePlaces, SameContent
<1>5. Places(heap', new) = {<<<< >>, new>>}
  BY <1>1 DEF Places
<1>6. Forest'
  BY <1>1, <1>2, ForestWithRoot
<1>7. HandlesStand'
  <2>1. \A p \in Places(heap', new) : p[2] \notin Cells
    BY <1>1, <1>5
  <2>2. UNCHANGED handles
    BY DEF Create
  <2>3. QED
    BY <1>1, <1>2, <1>4, <2>1, <2>2, HandlesKept
<1>8. ObjectsStand'
  <2>0. PICK n : n = Len(objects) + 1
    OBVIOUS
  <2>1. objects' = Append(objects, object)
    BY DEF Create
  <2>2. TextsKept
    BY <1>1 DEF TextsKept, Forest
  <2>3. ASSUME n \in Objects', objects'[n] = object
        PROVE  ObjectStands(n)'
    <3>1. object.value = new /\ object.origin = n
      BY <1>0, <2>0
    <3>2. heap'[objects'[n].value].texts = texts /\ objects'[n].value \in Roots'
      BY <1>1, <1>2, <2>3, <3>1
    <3>3. QED
      BY <2>3, <3>1, <3>2 DEF ObjectStands
  <2>4. QED
    BY <1>2, <2>0, <2>1, <2>2, <2>3, ObjectAdded
<1>9. SaidIsHeld'
  <2>1. Content(heap', new) = FactsAt(<< >>, texts)
    <3>1. \A p \in Places(heap', new) : p[1] = << >> /\ p[2] = new
      BY <1>5
    <3>2. <<<< >>, new>> \in Places(heap', new)
      BY <1>5
    <3>3. FactsAt(<< >>, texts) \subseteq Content(heap', new)
      BY <1>1, <1>5 DEF Content
    <3>4. Content(heap', new) \subseteq FactsAt(<< >>, texts)
      BY <1>1, <1>5 DEF Content
    <3>5. QED
      BY <3>3, <3>4
  <2>2. QED
    BY <1>2, <1>4, <2>1 DEF SaidIsHeld
<1>10. QED
  BY <1>6, <1>7, <1>8, <1>9

-----------------------------------------------------------------------------
\* A new dictionary is put into one of an object, and its handle taken.

LEMMA PutStep ==
  ASSUME IInv, NEW r \in Roots, NEW place \in Places(heap, r), NEW path, NEW step,
         \/ place[1] = << >> /\ path = <<step>>
         \/ \E s : place[1] = <<s>> /\ path = <<s, step>>,
         NEW kind, kind \in {"section", "query"} => path = <<path[1]>>,
         NEW texts, Room, heap' = Put(place[2], step, texts),
         handles' = Append(handles, Handle(kind, r, path, TRUE)),
         Begin(r, path, texts), UNCHANGED objects
  PROVE  IInv'
<1> USE DEF IInv
<1>0. PICK new, c : new = Fresh /\ c = place[2]
  OBVIOUS
<1>c. c \in Cells /\ new \notin Cells
  BY <1>0, PlacesAreMade, FreshCell
<1>1. /\ Cells' = Cells \cup {new}
      /\ heap'[new].texts = texts /\ DOMAIN heap'[new].parts = {}
      /\ \A d \in Cells : heap'[d].texts = heap[d].texts
      /\ \A d \in Cells \ {c} : heap'[d].parts = heap[d].parts
      /\ heap'[c].parts = With(heap[c].parts, step, new)
  <2>1. IsPut(Put(c, step, texts), c, step, texts, Fresh)
    BY <1>0, <1>c, HeapPut
  <2>2. IsPut(heap', c, step, texts, new)
    BY <1>0, <2>1
  <2>3. QED
    BY <2>2 DEF Cells, IsPut
<1>2. /\ Roots' = Roots /\ \A t \in Roots \ {r} : said'[t] = said[t]
      /\ said'[r] = ContentPut(heap, r, path, texts)
  BY DEF Begin, Roots, SaidIsHeld, ContentPut
<1>3. Places(heap', r) = PlacesPut(heap, r, path, new)
  <2>0. AtPlace(heap, r, place)
    BY PlaceCases
  <2>1. r \in Cells /\ \A s \in DOMAIN heap[r].parts : heap[r].parts[s] \in Cells \ Roots
    BY DEF Forest, Part
  <2>2. CASE place[1] = << >> /\ path = <<step>>
    <3>1. c = r
      BY <1>0, <2>0, <2>2, PathsDiffer DEF AtPlace
    <3>2. \A s \in DOMAIN heap[r].parts : heap'[heap[r].parts[s]].parts = heap[heap[r].parts[s]].parts
      BY <1>1, <2>1, <3>1
    <3>3. heap'[r].parts = With(heap[r].parts, step, new)
      BY <1>1, <3>1
    <3>4. QED
      BY <1>1, <2>2, <3>2, <3>3, PutAtObject
  <2>3. ASSUME NEW s, place[1] = <<s>> /\ path = <<s, step>>
        PROVE  Places(heap', r) = PlacesPut(heap, r, path, new)
    <3>1. s \in DOMAIN heap[r].parts /\ c = heap[r].parts[s]
      BY <1>0, <2>0, <2>3, PathsDiffer DEF AtPlace
    <3>2. heap'[r].parts = heap[r].parts
      BY <1>1, <2>1, <3>1
    <3>3. \A t \in DOMAIN heap[r].parts \ {s} : heap[r].parts[t] # c
      BY <2>1, <3>1 DEF Forest, Part
    <3>4. \A t \in DOMAIN heap[r].parts \ {s} :
            heap'[heap[r].parts[t]].parts = heap[heap[r].parts[t]].parts
      BY <1>1, <2>1, <3>3
    <3>5. heap'[heap[r].parts[s]].parts = With(heap[heap[r].parts[s]].parts, step, new)
      BY <1>1, <3>1
    <3>6. Places(heap', r) = PlacesPut(heap, r, <<s, step>>, new)
      <4>1. PutUnder(heap, heap', r, s, step, new)
        BY <3>1, <3>2, <3>4, <3>5 DEF PutUnder
      <4> HIDE DEF IInv
      <4>2. QED
        BY ONLY <4>1, PutAtPart
    <3>7. QED
      BY <2>3, <3>6
  <2>4. QED
    BY <2>2, <2>3
<1>p. Places(heap', r) = {p \in Places(heap, r) : ~IsPrefix(path, p[1])} \cup {<<path, new>>}
  BY <1>3 DEF PlacesPut
<1>4. ASSUME NEW t \in Roots, t # r
      PROVE  Places(heap', t) = Places(heap, t) /\ Content(heap', t) = Content(heap, t)
  <2>1. \A p \in Places(heap, t) : p[2] \in Cells \ {c}
    BY <1>0, <1>4, PlacesAreMade, OnePlacePerCell
  <2>2. QED
    BY <1>1, <2>1, SamePlaces, SameContent
<1>5. Forest'
  <2>1. \A t \in Roots : \A p \in Places(heap, t) :
          p[2] = c => p[1] = << >> \/ \E s : p[1] = <<s>>
    BY <1>0, OnePlacePerCell
  <2>2. QED
    BY <1>c, <1>1, <1>2, <2>1, ForestWithPart
<1>6. ObjectsStand'
  <2>1. TextsKept
    BY <1>1 DEF TextsKept, Forest
  <2>2. QED
    BY <1>2, <2>1, ObjectsKept
<1>7. HandlesStand'
  <2> DEFINE handle == Handle(kind, r, path, TRUE)
  <2>0. PICK n : n = Len(handles) + 1
    OBVIOUS
  <2>1. /\ handle.kind = kind /\ handle.cell = new /\ handle.root = r
        /\ handle.path = path /\ handle.live = TRUE
    BY <1>0 DEF Handle
  <2>2. IsSequence(handles) /\ handles' = Append(handles, handle)
    BY DEF HandlesStand
  <2> HIDE DEF handle
  <2>3. /\ DOMAIN handles' = DOMAIN handles \cup {n} /\ n \notin DOMAIN handles
        /\ \A i \in DOMAIN handles : handles'[i] = handles[i]
        /\ handles'[n] = handle /\ IsSequence(handles')
    BY <2>0, <2>2, Newest
  <2>4. /\ Current(n)'
        /\ \A i \in DOMAIN handles :
             Current(i)' <=> /\ Current(i)
                             /\ ~(r = handles[i].root /\ IsPrefix(path, handles[i].path))
    BY <2>0, <2>1, <2>2, Newest
  <2>5. HandleStands(n)'
    <3>1. <<path, new>> \in Places(heap', r)
      BY <1>p
    <3>2. QED
      BY <1>1, <1>2, <2>1, <2>3, <2>4, <3>1 DEF HandleStands
  <2>6. ASSUME NEW i \in DOMAIN handles
        PROVE  HandleStands(i)'
    <3> DEFINE t == handles[i]
    <3>1. /\ t.cell \in Cells /\ t.root \in Roots
          /\ t.kind \in {"section", "query"} => t.path = <<t.path[1]>>
          /\ Current(i) => <<t.path, t.cell>> \in Places(heap, t.root)
          /\ ~Current(i) => \A x \in Roots : \A p \in Places(heap, x) : p[2] # t.cell
      BY DEF HandlesStand, HandleStands
    <3>2. t' = t
      BY <2>3
    <3> HIDE DEF t
    <3>3. ASSUME Current(i)'
          PROVE  <<t.path, t.cell>> \in Places(heap', t.root)
      <4>1. Current(i) /\ ~(r = t.root /\ IsPrefix(path, t.path))
        BY <2>4, <3>3 DEF t
      <4>2. <<t.path, t.cell>> \in Places(heap, t.root) /\ <<t.path, t.cell>>[1] = t.path
        BY <3>1, <4>1
      <4>3. QED
        BY <1>p, <1>4, <3>1, <4>1, <4>2
    <3>4. ASSUME ~Current(i)', NEW x \in Roots, NEW p \in Places(heap', x)
          PROVE  p[2] # t.cell
      <4>1. CASE ~Current(i)
        <5>1. CASE p = <<path, new>>
          BY <1>c, <3>1, <5>1
        <5>2. CASE p \in Places(heap, x)
          BY <3>1, <4>1, <5>2
        <5>3. QED
          BY <1>p, <1>4, <5>1, <5>2
      <4>2. CASE Current(i) /\ r = t.root /\ IsPrefix(path, t.path)
        <5>1. <<t.path, t.cell>> \in Places(heap, r)
          BY <3>1, <4>2
        <5>2. CASE p = <<path, new>>
          BY <1>c, <3>1, <5>2
        <5>3. CASE p \in Places(heap, x) /\ (x = r => ~IsPrefix(path, p[1]))
          <6>1. p[2] = t.cell => p = <<t.path, t.cell>> /\ x = r
            BY <5>1, <5>3, OnePlacePerCell
          <6>2. QED
            BY <4>2, <5>3, <6>1
        <5>4. QED
          BY <1>p, <1>4, <5>2, <5>3
      <4>3. QED
        BY <2>4, <3>4, <4>1, <4>2 DEF t
    <3>5. QED
      BY <1>1, <1>2, <3>1, <3>2, <3>3, <3>4 DEF HandleStands, t
  <2>7. QED
    BY <2>3, <2>5, <2>6 DEF HandlesStand
<1>8. SaidIsHeld'
  <2>1. \A p \in Places(heap, r) : heap'[p[2]].texts = heap[p[2]].texts
    BY <1>1, PlacesAreMade
  <2>2. Content(heap', r) = said'[r]
    <3>1. heap'[new].texts = texts
      BY <1>1
    <3>2. Content(heap', r) = ContentPut(heap, r, path, texts)
      BY <1>3, <2>1, <3>1, BegunSaid
    <3>3. QED
      BY <1>2, <3>2
  <2>3. QED
    BY <1>2, <1>4, <2>2 DEF SaidIsHeld
<1>9. QED
  BY <1>5, <1>6, <1>7, <1>8

-----------------------------------------------------------------------------
\* The same through a handle that no longer speaks for its path.

LEMMA PutDetachedStep ==
  ASSUME IInv, NEW c \in Cells, \A r \in Roots : \A p \in Places(heap, r) : p[2] # c,
         NEW root \in Roots, NEW path, NEW step, NEW texts, Room,
         heap' = Put(c, step, texts),
         handles' = Append(handles, Handle("attribute", root, path, FALSE)),
         UNCHANGED <<said, objects>>
  PROVE  IInv'
<1> USE DEF IInv
<1>0. PICK new : new = Fresh
  OBVIOUS
<1>1. /\ new \notin Cells /\ Cells' = Cells \cup {new} /\ DOMAIN heap'[new].parts = {}
      /\ \A d \in Cells : heap'[d].texts = heap[d].texts
      /\ \A d \in Cells \ {c} : heap'[d].parts = heap[d].parts
      /\ heap'[c].parts = With(heap[c].parts, step, new)
  <2>1. Fresh \notin Cells
    BY FreshCell
  <2>2. IsPut(Put(c, step, texts), c, step, texts, Fresh)
    BY <2>1, HeapPut
  <2>3. IsPut(heap', c, step, texts, new)
    BY <1>0, <2>2
  <2>4. QED
    BY <1>0, <2>1, <2>3 DEF Cells, IsPut
<1>2. Roots' = Roots
  BY DEF Roots
<1>3. ASSUME NEW r \in Roots
      PROVE  Places(heap', r) = Places(heap, r) /\ Content(heap', r) = Content(heap, r)
  <2>1. \A p \in Places(heap, r) : p[2] \in Cells \ {c}
    BY PlacesAreMade
  <2>2. QED
    BY <1>1, <2>1, SamePlaces, SameContent
<1>4. Forest'
  <2>1. \A r \in Roots : \A p \in Places(heap, r) : p[2] = c => p[1] = << >> \/ \E s : p[1] = <<s>>
    OBVIOUS
  <2>2. QED
    BY <1>1, <1>2, <2>1, ForestWithPart
<1>5. ObjectsStand'
  <2>1. TextsKept
    BY <1>1 DEF TextsKept, Forest
  <2>2. QED
    BY <1>2, <2>1, ObjectsKept
<1>6. HandlesStand'
  <2> DEFINE handle == Handle("attribute", root, path, FALSE)
  <2>0. PICK n : n = Len(handles) + 1
    OBVIOUS
  <2>1. /\ handle.kind = "attribute" /\ handle.cell = new /\ handle.root = root
        /\ handle.live = FALSE
    BY <1>0 DEF Handle
  <2>2. IsSequence(handles) /\ handles' = Append(handles, handle)
    BY DEF HandlesStand
  <2> HIDE DEF handle
  <2>3. /\ DOMAIN handles' = DOMAIN handles \cup {n} /\ n \notin DOMAIN handles
        /\ \A i \in DOMAIN handles : handles'[i] = handles[i]
        /\ handles'[n] = handle /\ IsSequence(handles')
    BY <2>0, <2>2, Newest
  <2>4. ~Current(n)' /\ \A i \in DOMAIN handles : Current(i)' <=> Current(i)
    <3>1. Current(n)' <=> handle.live
      BY <2>0, <2>2, Newest
    <3>2. \A i \in DOMAIN handles :
            Current(i)' <=> /\ Current(i)
                            /\ ~(/\ handle.live /\ handle.root = handles[i].root
                                 /\ IsPrefix(handle.path, handles[i].path))
      BY <2>0, <2>2, Newest
    <3>3. QED
      BY <2>1, <3>1, <3>2
  <2>5. HandleStands(n)'
    <3>1. \A r \in Roots : \A p \in Places(heap', r) : p[2] # new
      BY <1>1, <1>3, PlacesAreMade
    <3>2. QED
      BY <1>1, <1>2, <2>1, <2>3, <2>4, <3>1 DEF HandleStands
  <2>6. ASSUME NEW i \in DOMAIN handles
        PROVE  HandleStands(i)'
    <3> DEFINE t == handles[i]
    <3>1. /\ t.cell \in Cells /\ t.root \in Roots
          /\ t.kind \in {"section", "query"} => t.path = <<t.path[1]>>
          /\ Current(i) => <<t.path, t.cell>> \in Places(heap, t.root)
          /\ ~Current(i) => \A x \in Roots : \A p \in Places(heap, x) : p[2] # t.cell
      BY DEF HandlesStand, HandleStands
    <3>2. t' = t
      BY <2>3
    <3> HIDE DEF t
    <3>3. Current(i) => <<t.path, t.cell>> \in Places(heap', t.root)
      BY <1>3, <3>1
    <3>4. ~Current(i) => \A x \in Roots : \A p \in Places(heap', x) : p[2] # t.cell
      BY <1>3, <3>1
    <3>5. QED
      BY <1>1, <1>2, <2>4, <3>1, <3>2, <3>3, <3>4 DEF HandleStands, t
  <2>7. QED
    BY <2>3, <2>5, <2>6 DEF HandlesStand
<1>7. SaidIsHeld'
  BY <1>2, <1>3 DEF SaidIsHeld
<1>8. QED
  BY <1>4, <1>5, <1>6, <1>7

-----------------------------------------------------------------------------
\* An object is handed over, on the same dictionaries or on copies of them.

LEMMA HandedOver ==
  ASSUME ObjectsStand, NEW o \in Objects, objects[o].kind \in {"topology", "overlay"},
         NEW value \in Roots', heap'[value].texts = heap[objects[o].value].texts,
         objects' = Append(objects, Deserialized(o, value)),
         Roots \subseteq Roots', TextsKept
  PROVE  ObjectsStand'
<1>0. PICK n, object : n = Len(objects) + 1 /\ object = Deserialized(o, value)
  OBVIOUS
<1>1. /\ DOMAIN objects[o] = ObjectFields
      /\ objects[o].origin \in Objects
      /\ objects[o].kind = objects[objects[o].origin].kind
      /\ objects[o].path = objects[objects[o].origin].path
      /\ objects[o].enabled = objects[objects[o].origin].enabled
      /\ objects[o].overlays = objects[objects[o].origin].overlays
  BY DEF ObjectsStand, ObjectStands
<1>2. /\ \A key \in Identity : /\ key \in DOMAIN heap[objects[o].value].texts
                               /\ heap[objects[o].value].texts[key] = "made"
      /\ objects[o].kind = "topology" =>
           {"ui_name", "ui_name_key"} \cap DOMAIN heap[objects[o].value].texts # {}
  BY DEF ObjectsStand, ObjectStands
<1>3. /\ DOMAIN object = ObjectFields
      /\ object.value = value /\ object.named = (objects[o].kind # "overlay")
      /\ object.kind = objects[o].kind /\ object.path = objects[o].path
      /\ object.enabled = objects[o].enabled /\ object.overlays = objects[o].overlays
      /\ object.origin = objects[o].origin
  BY <1>0, <1>1 DEF Deserialized, ObjectFields
<1>4. ASSUME \A p \in Objects : p \in Objects' /\ objects'[p] = objects[p],
             n \in Objects', n \notin Objects, objects'[n] = object
      PROVE  ObjectStands(n)'
  <2> DEFINE origin == objects[objects[o].origin]
             texts  == heap[objects[o].value].texts
  <2>1. objects'[objects'[n].origin] = origin /\ objects'[n].origin \in Objects
    BY <1>1, <1>3, <1>4
  <2>2. heap'[objects'[n].value].texts = texts
    BY <1>3, <1>4
  <2>3. objects'[n].origin # n /\ objects'[n].origin \in Objects'
    BY <1>4, <2>1
  <2> HIDE DEF origin, texts
  <2>4. /\ objects[o].kind = origin.kind /\ objects[o].path = origin.path
        /\ objects[o].enabled = origin.enabled /\ objects[o].overlays = origin.overlays
        /\ \A key \in Identity : key \in DOMAIN texts /\ texts[key] = "made"
        /\ objects[o].kind = "topology" => {"ui_name", "ui_name_key"} \cap DOMAIN texts # {}
    BY <1>1, <1>2 DEF origin, texts
  <2>5. QED
    BY <1>3, <1>4, <2>1, <2>2, <2>3, <2>4 DEF ObjectStands
<1>5. objects' = Append(objects, object)
  BY <1>0
<1>6. QED
  BY <1>0, <1>4, <1>5, ObjectAdded

LEMMA HandOverStep ==
  ASSUME IInv, NEW o \in Objects, HandOver(o)
  PROVE  IInv'
<1> USE DEF IInv
<1>1. Cells' = Cells /\ Roots' = Roots
  BY DEF HandOver, Cells, Roots
<1>2. Forest' /\ SaidIsHeld'
  <2>1. Forest'
    BY <1>1, ForestKept DEF HandOver
  <2>2. SaidIsHeld'
    BY <1>1 DEF HandOver, SaidIsHeld
  <2>3. QED
    BY <2>1, <2>2
<1>3. HandlesStand'
  BY <1>1, HandlesKept DEF HandOver
<1>4. ObjectsStand'
  <2>1. objects[o].value \in Roots
    BY DEF ObjectsStand, ObjectStands
  <2>2. /\ objects[o].kind \in {"topology", "overlay"} /\ UNCHANGED heap
        /\ objects' = Append(objects, Deserialized(o, objects[o].value))
    BY DEF HandOver, Serializable, Serializes
  <2>3. TextsKept
    BY <2>2 DEF TextsKept
  <2>4. PICK value : value = objects[o].value
    OBVIOUS
  <2>5. QED
    BY <1>1, <2>1, <2>2, <2>3, <2>4, HandedOver
<1>5. QED
  BY <1>2, <1>3, <1>4

-----------------------------------------------------------------------------
\* Copies are of the dictionaries of an object, all different and all new.

CellsOf(r) == {p[2] : p \in Places(heap, r)}

LEMMA Copies ==
  ASSUME NEW S, NEW T, NEW copy \in Injection(S, T)
  PROVE  /\ DOMAIN copy = S /\ \A x \in S : copy[x] \in T /\ copy[x] \in Range(copy)
         /\ \A x, y \in S : copy[x] = copy[y] => x = y
         /\ \A y \in Range(copy) : \E x \in S : y = copy[x]
         /\ \A x \in S : AntiFunction(copy)[copy[x]] = x
<1>1. /\ copy \in [S -> T]
      /\ \A x, y \in S : copy[x] = copy[y] => x = y
  BY DEF Injection, IsInjective
<1>2. /\ DOMAIN copy = S /\ \A x \in S : copy[x] \in T /\ copy[x] \in Range(copy)
      /\ \A y \in Range(copy) : \E x \in S : y = copy[x]
  BY <1>1 DEF Range
<1>3. ASSUME NEW x \in S
      PROVE  AntiFunction(copy)[copy[x]] = x
  <2>1. AntiFunction(copy)[copy[x]]
          = CHOOSE z \in S : copy[x] \in Range(copy) => copy[z] = copy[x]
    BY <1>2 DEF AntiFunction, Inverse
  <2>2. \E z \in S : copy[x] \in Range(copy) => copy[z] = copy[x]
    OBVIOUS
  <2>3. PICK z : z = CHOOSE y \in S : copy[x] \in Range(copy) => copy[y] = copy[x]
    OBVIOUS
  <2>4. z \in S /\ copy[z] = copy[x]
    BY <1>2, <2>2, <2>3
  <2>5. QED
    BY <1>1, <2>1, <2>3, <2>4
<1>4. QED
  BY <1>1, <1>2, <1>3

\* A dictionary that is in one of an object's is one of the object's itself.
LEMMA PartsAreTheirs ==
  ASSUME Forest, NEW r \in Roots, NEW c \in CellsOf(r), NEW s \in DOMAIN heap[c].parts
  PROVE  heap[c].parts[s] \in CellsOf(r) /\ heap[c].parts[s] \in Cells \ Roots /\ c \in Cells
<1>1. PICK p \in Places(heap, r) : c = p[2]
  BY DEF CellsOf
<1>2. c \in Cells
  BY <1>1, PlacesAreMade
<1>3. heap[c].parts[s] \in Cells \ Roots
  BY <1>2 DEF Forest, Part
<1>4. heap[c].parts[s] \in CellsOf(r)
  <2>1. CASE p[1] = << >> /\ p[2] = r
    <3>1. <<<<s>>, heap[r].parts[s]>> \in Places(heap, r)
      BY <1>1, <2>1, InPlaces
    <3>2. QED
      BY <1>1, <2>1, <3>1 DEF CellsOf
  <2>2. ASSUME NEW t \in DOMAIN heap[r].parts, p[1] = <<t>> /\ p[2] = heap[r].parts[t]
        PROVE  heap[c].parts[s] \in CellsOf(r)
    <3>1. <<<<t, s>>, heap[heap[r].parts[t]].parts[s]>> \in Places(heap, r)
      BY <1>1, <2>2, InPlaces
    <3>2. QED
      BY <1>1, <2>2, <3>1 DEF CellsOf
  <2>3. ASSUME NEW t \in DOMAIN heap[r].parts, NEW a \in DOMAIN heap[heap[r].parts[t]].parts,
               p[1] = <<t, a>> /\ p[2] = heap[heap[r].parts[t]].parts[a]
        PROVE  heap[c].parts[s] \in CellsOf(r)
    <3>0. DOMAIN heap[heap[heap[r].parts[t]].parts[a]].parts = {}
      BY DEF Forest, Part
    <3>1. DOMAIN heap[p[2]].parts = {}
      BY <2>3, <3>0
    <3>2. QED
      BY <1>1, <3>1
  <2>4. AtPlace(heap, r, p)
    BY PlaceCases
  <2>5. QED
    BY <2>1, <2>2, <2>3, <2>4 DEF AtPlace
<1>5. QED
  BY <1>2, <1>3, <1>4

\* The heap with the copies in it.
IsCopied(g, S, copy) ==
  /\ DOMAIN g = Cells \cup Range(copy)
  /\ \A c \in Cells : g[c] = heap[c]
  /\ \A x \in S : /\ g[copy[x]].texts = heap[x].texts
                  /\ DOMAIN g[copy[x]].parts = DOMAIN heap[x].parts
                  /\ \A s \in DOMAIN heap[x].parts : g[copy[x]].parts[s] = copy[heap[x].parts[s]]

LEMMA HeapCopied ==
  ASSUME NEW S, NEW copy \in Injection(S, Cell \ Cells)
  PROVE  IsCopied(CopiedTo(copy), S, copy)
<1> DEFINE Copy(d) == Dict(d.texts, [step \in DOMAIN d.parts |-> copy[d.parts[step]]])
           g == CopiedTo(copy)
<1>1. g = [c \in Cells \cup Range(copy) |->
             IF c \in Cells THEN heap[c] ELSE Copy(heap[AntiFunction(copy)[c]])]
  BY DEF CopiedTo, Cells
<1>2. \A x \in S : /\ copy[x] \in Range(copy) /\ copy[x] \notin Cells
                   /\ AntiFunction(copy)[copy[x]] = x
  BY Copies
<1>3. \A d : /\ Copy(d).texts = d.texts /\ DOMAIN Copy(d).parts = DOMAIN d.parts
             /\ \A s \in DOMAIN d.parts : Copy(d).parts[s] = copy[d.parts[s]]
  BY DEF Dict
<1> HIDE DEF Copy, g
<1>4. /\ DOMAIN g = Cells \cup Range(copy)
      /\ \A c \in Cells : g[c] = heap[c]
      /\ \A x \in S : g[copy[x]] = Copy(heap[x])
  BY <1>1, <1>2
<1>5. QED
  BY <1>3, <1>4 DEF IsCopied, g

LEMMA ForestWithCopies ==
  ASSUME Forest, NEW r \in Roots, NEW copy \in Injection(CellsOf(r), Cell \ Cells),
         IsCopied(heap', CellsOf(r), copy), Roots' = Roots \cup {copy[r]}
  PROVE  Forest'
<1> DEFINE S == CellsOf(r)
<1>0. /\ \A x \in S : copy[x] \notin Cells /\ copy[x] \in Range(copy)
      /\ \A x, y \in S : copy[x] = copy[y] => x = y
      /\ \A y \in Range(copy) : \E x \in S : y = copy[x]
  BY Copies
<1>1. r \in S /\ S \subseteq Cells
  <2>1. <<<< >>, r>> \in Places(heap, r)
    BY InPlaces
  <2>2. r \in S
    BY <2>1 DEF CellsOf
  <2>3. QED
    BY <2>2, PlacesAreMade DEF CellsOf
<1>2. /\ Cells' = Cells \cup Range(copy)
      /\ \A c \in Cells : heap'[c] = heap[c]
      /\ \A x \in S : /\ DOMAIN heap'[copy[x]].parts = DOMAIN heap[x].parts
                      /\ \A s \in DOMAIN heap[x].parts : Part(copy[x], s)' = copy[Part(x, s)]
  BY DEF IsCopied, Cells, Part
<1>3. \A x \in S : \A s \in DOMAIN heap[x].parts : Part(x, s) \in S /\ Part(x, s) \in Cells \ Roots
  BY PartsAreTheirs DEF Part
<1>4. /\ \A c \in Cells : \A s \in DOMAIN heap[c].parts : Part(c, s) \in Cells \ Roots
      /\ \A c, d \in Cells : \A s \in DOMAIN heap[c].parts : \A t \in DOMAIN heap[d].parts :
           Part(c, s) = Part(d, t) => c = d /\ s = t
      /\ Roots \subseteq Cells
      /\ \A t \in Roots : \A s \in DOMAIN heap[t].parts : \A a \in DOMAIN heap[Part(t, s)].parts :
           DOMAIN heap[Part(Part(t, s), a)].parts = {}
  BY DEF Forest
<1>5. \A c \in Cells' : \A s \in DOMAIN heap'[c].parts :
        \/ c \in Cells /\ s \in DOMAIN heap[c].parts /\ Part(c, s)' = Part(c, s)
        \/ \E x \in S : c = copy[x] /\ s \in DOMAIN heap[x].parts /\ Part(c, s)' = copy[Part(x, s)]
  <2>1. \A c \in Cells : \A s \in DOMAIN heap[c].parts : Part(c, s)' = Part(c, s)
    BY <1>2 DEF Part
  <2>2. QED
    BY <1>0, <1>2, <2>1
<1> HIDE DEF S
<1>6. \A c \in Cells' : \A s \in DOMAIN heap'[c].parts : Part(c, s)' \in Cells' \ Roots'
  <2> SUFFICES ASSUME NEW c \in Cells', NEW s \in DOMAIN heap'[c].parts
               PROVE  Part(c, s)' \in Cells' \ Roots'
    OBVIOUS
  <2>1. CASE c \in Cells /\ s \in DOMAIN heap[c].parts /\ Part(c, s)' = Part(c, s)
    BY <1>0, <1>1, <1>2, <1>4, <2>1
  <2>2. ASSUME NEW x \in S, s \in DOMAIN heap[x].parts, Part(c, s)' = copy[Part(x, s)]
        PROVE  Part(c, s)' \in Cells' \ Roots'
    <3>1. Part(x, s) \in S /\ Part(x, s) # r
      BY <1>3, <2>2
    <3>2. copy[Part(x, s)] # copy[r] /\ copy[Part(x, s)] \notin Cells
            /\ copy[Part(x, s)] \in Range(copy)
      BY <1>0, <1>1, <3>1
    <3>3. QED
      BY <1>2, <1>4, <2>2, <3>2
  <2>3. QED
    BY <1>5, <2>1, <2>2
<1>7. \A c, d \in Cells' : \A s \in DOMAIN heap'[c].parts : \A t \in DOMAIN heap'[d].parts :
        Part(c, s)' = Part(d, t)' => c = d /\ s = t
  <2> SUFFICES ASSUME NEW c \in Cells', NEW d \in Cells', NEW s \in DOMAIN heap'[c].parts,
                      NEW t \in DOMAIN heap'[d].parts, Part(c, s)' = Part(d, t)'
               PROVE  c = d /\ s = t
    OBVIOUS
  <2>1. CASE c \in Cells /\ s \in DOMAIN heap[c].parts /\ Part(c, s)' = Part(c, s)
    <3>1. Part(c, s) \in Cells
      BY <1>4, <2>1
    <3>2. ASSUME NEW x \in S, t \in DOMAIN heap[x].parts, Part(d, t)' = copy[Part(x, t)]
          PROVE  FALSE
      <4>1. copy[Part(x, t)] \notin Cells
        BY <1>0, <1>3, <3>2
      <4>2. Part(d, t)' \in Cells
        BY <2>1, <3>1
      <4>3. QED
        BY <3>2, <4>1, <4>2
    <3>3. d \in Cells /\ t \in DOMAIN heap[d].parts /\ Part(d, t)' = Part(d, t)
      BY <1>5, <3>2
    <3>4. Part(c, s) = Part(d, t)
      BY <2>1, <3>3
    <3>5. QED
      BY <1>4, <2>1, <3>3, <3>4
  <2>2. ASSUME NEW x \in S, c = copy[x], s \in DOMAIN heap[x].parts, Part(c, s)' = copy[Part(x, s)]
        PROVE  c = d /\ s = t
    <3>1. Part(x, s) \in S /\ copy[Part(x, s)] \notin Cells
      BY <1>0, <1>3, <2>2
    <3>2. d \in Cells /\ t \in DOMAIN heap[d].parts => Part(d, t) \in Cells
      BY <1>4
    <3>3. PICK y \in S : d = copy[y] /\ t \in DOMAIN heap[y].parts /\ Part(d, t)' = copy[Part(y, t)]
      BY <1>5, <2>2, <3>1, <3>2
    <3>4. Part(x, s) = Part(y, t)
      BY <1>0, <1>3, <2>2, <3>1, <3>3
    <3>5. x = y /\ s = t
      BY <1>1, <1>4, <2>2, <3>3, <3>4
    <3>6. QED
      BY <2>2, <3>3, <3>5
  <2>3. QED
    BY <1>5, <2>1, <2>2
<1>8. ASSUME NEW q \in Roots', NEW s \in DOMAIN heap'[q].parts,
             NEW a \in DOMAIN heap'[Part(q, s)'].parts
      PROVE  DOMAIN heap'[Part(Part(q, s), a)'].parts = {}
  <2> DEFINE d == Part(q, s)
  <2>1. CASE q \in Roots
    <3>1. q \in Cells /\ s \in DOMAIN heap[q].parts /\ d' = d /\ d \in Cells
      BY <1>2, <1>4, <2>1 DEF Part
    <3>2. a \in DOMAIN heap[d].parts /\ Part(d, a)' = Part(d, a) /\ Part(d, a) \in Cells
      <4>1. a \in DOMAIN heap'[d].parts /\ heap'[d] = heap[d]
        BY <1>2, <3>1
      <4>2. Part(d, a)' = Part(d, a)
        BY <3>1, <4>1 DEF Part
      <4>3. QED
        BY <1>4, <3>1, <4>1, <4>2
    <3>3. DOMAIN heap[Part(d, a)].parts = {}
      BY <1>4, <2>1, <3>1, <3>2
    <3>4. QED
      BY <1>2, <3>2, <3>3
  <2>2. CASE q = copy[r]
    <3>1. s \in DOMAIN heap[r].parts /\ Part(q, s)' = copy[Part(r, s)] /\ Part(r, s) \in S
      BY <1>1, <1>2, <1>3, <2>2
    <3>2. PICK x : x = Part(r, s)
      OBVIOUS
    <3>3. a \in DOMAIN heap[x].parts /\ Part(copy[x], a)' = copy[Part(x, a)] /\ Part(x, a) \in S
      BY <1>2, <1>3, <3>1, <3>2
    <3>4. Part(Part(q, s), a)' = copy[Part(x, a)]
      BY <3>1, <3>2, <3>3 DEF Part
    <3>5. DOMAIN heap[Part(x, a)].parts = {}
      BY <1>4, <3>1, <3>2, <3>3
    <3>6. QED
      BY <1>2, <3>3, <3>4, <3>5
  <2>3. QED
    BY <2>1, <2>2
<1>9. Roots' \subseteq Cells'
  BY <1>0, <1>1, <1>2, <1>4
<1>10. QED
  BY <1>6, <1>7, <1>8, <1>9 DEF Forest

LEMMA CopyStep ==
  ASSUME IInv, NEW o \in Objects, HandOverToScript(o)
  PROVE  IInv'
<1> USE DEF IInv
<1>0. PICK r : r = objects[o].value
  OBVIOUS
<1>r. r \in Roots
  BY <1>0 DEF ObjectsStand, ObjectStands
<1>1. /\ Injection(CellsOf(r), Cell \ Cells) # {}
      /\ HandOverToScript(o)
  BY <1>0 DEF HandOverToScript, CellsOf, Cells
<1>2. PICK copy : copy = CHOOSE f \in Injection(CellsOf(r), Cell \ Cells) : TRUE
  OBVIOUS
<1>3. copy \in Injection(CellsOf(r), Cell \ Cells)
  BY <1>1, <1>2
<1>4. /\ objects[o].kind \in {"topology", "overlay"}
      /\ heap' = CopiedTo(copy)
      /\ objects' = Append(objects, Deserialized(o, copy[r]))
      /\ said' = With(said, copy[r], said[r])
      /\ UNCHANGED handles
  BY <1>0, <1>2 DEF HandOverToScript, Serializable, Serializes, CellsOf, Cells
<1>5. IsCopied(heap', CellsOf(r), copy)
  <2>1. IsCopied(CopiedTo(copy), CellsOf(r), copy)
    BY <1>3, HeapCopied
  <2>2. QED
    BY <1>4, <2>1
<1>6. /\ \A x \in CellsOf(r) : copy[x] \notin Cells
      /\ r \in CellsOf(r)
  <2>1. <<<< >>, r>> \in Places(heap, r)
    BY InPlaces
  <2>2. r \in CellsOf(r)
    BY <2>1 DEF CellsOf
  <2>3. \A x \in CellsOf(r) : copy[x] \in Cell \ Cells
    BY <1>3, Copies
  <2>4. QED
    BY <2>2, <2>3
<1>7. /\ Roots' = Roots \cup {copy[r]} /\ said'[copy[r]] = said[r] /\ copy[r] \notin Roots
      /\ \A t \in Roots : said'[t] = said[t]
  <2>1. copy[r] \notin Roots
    BY <1>6 DEF Forest
  <2>2. /\ DOMAIN With(said, copy[r], said[r]) = Roots \cup {copy[r]}
        /\ With(said, copy[r], said[r])[copy[r]] = said[r]
        /\ \A t \in Roots \ {copy[r]} : With(said, copy[r], said[r])[t] = said[t]
    BY DEF With, Roots
  <2>3. QED
    BY <1>4, <2>1, <2>2 DEF Roots
<1>8. /\ Cells \subseteq Cells' /\ \A c \in Cells : heap'[c] = heap[c]
  BY <1>5 DEF IsCopied, Cells
<1>9. Forest'
  BY <1>3, <1>5, <1>7, <1>r, ForestWithCopies
<1>10. ASSUME NEW t \in Roots
       PROVE  Places(heap', t) = Places(heap, t) /\ Content(heap', t) = Content(heap, t)
  <2>1. \A p \in Places(heap, t) : heap'[p[2]] = heap[p[2]]
    BY <1>8, PlacesAreMade
  <2>2. QED
    BY <2>1, SamePlaces, SameContent
<1>11. Places(heap', copy[r]) = PlacesCopied(heap, r, copy)
  <2>1. PartsCopied(heap, heap', r, copy)
    BY <1>5 DEF IsCopied, CellsOf, PartsCopied
  <2>2. QED
    BY <2>1, CopiedPlaces
<1>12. Content(heap', copy[r]) = Content(heap, r)
  <2>1. \A p \in Places(heap, r) : heap'[copy[p[2]]].texts = heap[p[2]].texts
    BY <1>5 DEF IsCopied, CellsOf
  <2> HIDE DEF IInv
  <2>2. QED
    BY ONLY <1>11, <2>1, CopiedSaid
<1>13. SaidIsHeld'
  BY <1>7, <1>10, <1>12, <1>r DEF SaidIsHeld
<1>14. HandlesStand'
  <2>1. \A q \in Places(heap', copy[r]) : q[2] \notin Cells
    <3>1. \A p \in Places(heap, r) : copy[p[2]] \notin Cells
      BY <1>6 DEF CellsOf
    <3>2. QED
      BY <1>11, <3>1 DEF PlacesCopied
  <2>2. QED
    BY <1>4, <1>7, <1>8, <1>10, <2>1, HandlesKept
<1>15. ObjectsStand'
  <2>1. heap'[copy[r]].texts = heap[objects[o].value].texts
    BY <1>0, <1>5, <1>6 DEF IsCopied
  <2>2. TextsKept
    BY <1>8 DEF TextsKept, Forest
  <2>3. copy[r] \in Roots' /\ Roots \subseteq Roots'
    BY <1>7
  <2>4. QED
    BY <1>4, <2>1, <2>2, <2>3, HandedOver
<1>16. QED
  BY <1>9, <1>13, <1>14, <1>15

-----------------------------------------------------------------------------
\* The actions.

LEMMA BuildingStep ==
  ASSUME IInv, Building
  PROVE  IInv'
<1> DEFINE Named(texts) == \A key \in Identity : key \in DOMAIN texts /\ texts[key] = "made"
<1>0. \A keys : DOMAIN Made(keys) = keys /\ \A key \in keys : Made(keys)[key] = "made"
  BY DEF Made
<1>1. \A kind, path, enabled, overlays :
        LET object == Object(kind, path, enabled, overlays)
        IN  /\ DOMAIN object = ObjectFields /\ object.kind = kind /\ object.value = Fresh
            /\ object.origin = Len(objects) + 1 /\ object.named = TRUE
  BY DEF Object, ObjectFields
<1>2. ASSUME NEW kind, NEW path, NEW enabled, NEW overlays, NEW keys,
             Create(Object(kind, path, enabled, overlays), Made(keys)),
             kind \in {"topology", "overlay"} => Identity \subseteq keys,
             kind = "topology" => {"ui_name", "ui_name_key"} \cap keys # {}
      PROVE  IInv'
  <2> DEFINE object == Object(kind, path, enabled, overlays)
             texts  == Made(keys)
  <2>1. /\ DOMAIN object = ObjectFields /\ object.kind = kind /\ object.value = Fresh
        /\ object.origin = Len(objects) + 1 /\ object.named = TRUE
    BY <1>1
  <2>2. /\ object.kind \in {"topology", "overlay"} =>
             \A key \in Identity : key \in DOMAIN texts /\ texts[key] = "made"
        /\ object.kind = "topology" => {"ui_name", "ui_name_key"} \cap DOMAIN texts # {}
    BY <1>0, <1>2, <2>1
  <2>3. Create(object, texts)
    BY <1>2
  <2> HIDE DEF object, texts
  <2>4. QED
    BY <2>1, <2>2, <2>3, CreateStep
<1>3. ASSUME NEW cr \in Resources, NewTopology(cr)
      PROVE  IInv'
  <2>1. {"ui_name", "ui_name_key"} \cap NameKeys(cr) # {}
    <3>1. PICK ui \in Naming : cr = Resource(ui)
      BY DEF Resources
    <3>2. cr.ui = ui
      BY <3>1 DEF Resource
    <3>3. cr.ui \subseteq {"uiName", "uiNameKey"}
      BY <3>2, NamingAssumption
    <3>4. QED
      BY <3>3 DEF NameKeys
  <2>2. QED
    BY <1>2, <1>3, <2>1 DEF NewTopology
<1>4. ASSUME NEW cr, OverlayFromCr(cr)
      PROVE  IInv'
  BY <1>2, <1>4 DEF OverlayFromCr
<1>5. ASSUME NEW o, OverlayOf(o)
      PROVE  IInv'
  BY <1>2, <1>5 DEF OverlayOf
<1>6. ASSUME NEW o, NEW type \in {"link", "endpoint"}, NewElement(o, type)
      PROVE  IInv'
  BY <1>2, <1>6 DEF NewElement
<1>7. ASSUME NEW o \in Objects, NEW section, ElemMetadata(o, section)
      PROVE  IInv'
  <2>0. PICK r, place, path, step :
          r = objects[o].value /\ place = <<<< >>, r>> /\ path = <<step>> /\ step = <<section>>
    OBVIOUS
  <2>1. r \in Roots
    BY <2>0 DEF IInv, ObjectsStand, ObjectStands
  <2>2. place \in Places(heap, r) /\ place[1] = << >> /\ place[2] = r /\ path[1] = step
    BY <2>0, InPlaces
  <2>3. /\ Room /\ heap' = Put(r, step, Nothing)
        /\ handles' = Append(handles, Handle("section", r, path, TRUE))
        /\ Begin(r, path, Nothing) /\ UNCHANGED objects
    BY <1>7, <2>0 DEF ElemMetadata, Take
  <2>4. QED
    BY <2>0, <2>1, <2>2, <2>3, PutStep
<1>8. QED
  BY <1>3, <1>4, <1>5, <1>6, <1>7 DEF Building, OfKind

\* A handle speaks for a place, and nothing else is said there; or it stands on
\* a dictionary that no object has.
LEMMA Standing ==
  ASSUME IInv, NEW i \in DOMAIN handles
  PROVE  /\ handles[i].cell \in Cells /\ handles[i].root \in Roots
         /\ handles[i].kind \in {"section", "query"} => handles[i].path = <<handles[i].path[1]>>
         /\ Current(i) => <<handles[i].path, handles[i].cell>> \in Places(heap, handles[i].root)
         /\ ~Current(i) => \A r \in Roots : \A p \in Places(heap, r) : p[2] # handles[i].cell
  BY DEF IInv, HandlesStand, HandleStands

LEMMA OwnPlace ==
  ASSUME IInv, NEW o \in Objects
  PROVE  objects[o].value \in Roots /\ <<<< >>, objects[o].value>> \in Places(heap, objects[o].value)
  BY InPlaces DEF IInv, ObjectsStand, ObjectStands

LEMMA OwnTextStep ==
  ASSUME IInv, NEW o \in Objects, NEW key, key # Exists, key \notin Identity,
         heap' = TextChanged(objects[o].value, key), Say(objects[o].value, << >>, key),
         UNCHANGED <<objects, handles>>
  PROVE  IInv'
<1>0. PICK r, place : r = objects[o].value /\ place = <<<< >>, r>>
  OBVIOUS
<1>1. r \in Roots /\ place \in Places(heap, r) /\ place[1] = << >> /\ place[2] = r
  BY <1>0, OwnPlace
<1>2. r \in Cells
  BY <1>1, PlacesAreMade DEF IInv
<1>3. Say(r, place[1], key) /\ heap' = TextChanged(r, key)
  BY <1>0, <1>1
<1>4. QED
  BY <1>1, <1>2, <1>3, TextStep

LEMMA ThroughStep ==
  ASSUME IInv, NEW i \in DOMAIN handles, SetThrough(i)
  PROVE  IInv'
<1>0. PICK t, key : t = handles[i] /\ key = IF t.kind = "section" THEN "subtitle" ELSE "ui_name"
  OBVIOUS
<1>1. /\ heap' = TextChanged(t.cell, key)
      /\ IF Current(i) THEN Say(t.root, t.path, key) ELSE UNCHANGED said
      /\ UNCHANGED <<objects, handles>>
  BY <1>0 DEF SetThrough
<1>2. key # Exists /\ key \notin Identity
  BY <1>0 DEF Exists, Identity
<1>3. /\ t.cell \in Cells /\ t.root \in Roots
      /\ Current(i) => <<t.path, t.cell>> \in Places(heap, t.root)
      /\ ~Current(i) => \A r \in Roots : \A p \in Places(heap, r) : p[2] # t.cell
  BY <1>0, Standing
<1>4. \/ \E r \in Roots : \E p \in Places(heap, r) : p[2] = t.cell /\ Say(r, p[1], key)
      \/ (\A r \in Roots : \A p \in Places(heap, r) : p[2] # t.cell) /\ UNCHANGED said
  <2>1. CASE Current(i)
    <3>1. PICK p : p = <<t.path, t.cell>>
      OBVIOUS
    <3>2. p \in Places(heap, t.root) /\ p[1] = t.path /\ p[2] = t.cell
      BY <1>3, <2>1, <3>1
    <3>3. Say(t.root, p[1], key)
      BY <1>1, <2>1, <3>2
    <3>4. QED
      BY <1>3, <3>2, <3>3
  <2>2. CASE ~Current(i)
    BY <1>1, <1>3, <2>2
  <2>3. QED
    BY <2>1, <2>2
<1>5. QED
  BY <1>1, <1>2, <1>3, <1>4, TextStep

LEMMA AttributeStep ==
  ASSUME IInv, NEW i \in DOMAIN handles, NEW attr, AddAttribute(i, attr)
  PROVE  IInv'
<1>0. PICK t, step, texts : /\ t = handles[i] /\ step = <<"attributes", attr>>
                            /\ texts = Made(IF t.kind = "section" THEN {"type"} ELSE {})
  OBVIOUS
<1>p. PICK path : path = <<t.path[1], step>>
  OBVIOUS
<1>1. /\ t.kind \in {"section", "query"} /\ Room
      /\ handles' = Append(handles, Handle("attribute", t.root, path, Current(i)))
      /\ heap' = Put(t.cell, step, texts)
      /\ IF Current(i) THEN Begin(t.root, path, texts) ELSE UNCHANGED said
      /\ UNCHANGED objects
  BY <1>0, <1>p DEF AddAttribute, Take
<1>2. /\ t.cell \in Cells /\ t.root \in Roots /\ t.path = <<t.path[1]>>
      /\ Current(i) => <<t.path, t.cell>> \in Places(heap, t.root)
      /\ ~Current(i) => \A r \in Roots : \A p \in Places(heap, r) : p[2] # t.cell
  BY <1>0, <1>1, Standing
<1>3. CASE Current(i)
  <2>1. PICK place, s : place = <<t.path, t.cell>> /\ s = t.path[1]
    OBVIOUS
  <2>2. /\ place \in Places(heap, t.root) /\ place[2] = t.cell
        /\ place[1] = <<s>> /\ path = <<s, step>>
    BY <1>2, <1>3, <1>p, <2>1
  <2>3. /\ heap' = Put(place[2], step, texts) /\ Begin(t.root, path, texts)
        /\ handles' = Append(handles, Handle("attribute", t.root, path, TRUE))
    BY <1>1, <1>3, <2>2 DEF Handle, Current
  <2>4. "attribute" \notin {"section", "query"}
    OBVIOUS
  <2>5. QED
    BY <1>1, <1>2, <2>2, <2>3, <2>4, PutStep
<1>4. CASE ~Current(i)
  <2>1. handles' = Append(handles, Handle("attribute", t.root, path, FALSE))
    BY <1>1, <1>4 DEF Handle, Current
  <2>2. UNCHANGED <<said, objects>>
    BY <1>1, <1>4
  <2>3. QED
    BY <1>1, <1>2, <1>4, <2>1, <2>2, PutDetachedStep
<1>5. QED
  BY <1>3, <1>4

LEMMA AppendStep ==
  ASSUME IInv, NEW o \in Objects, NEW list, NEW kind, AppendTo(o, list, kind)
  PROVE  IInv'
<1>0. PICK r, texts : r = objects[o].value /\ texts = Made({"value"})
  OBVIOUS
<1>1. PICK n : /\ Room /\ handles' = Append(handles, Handle(kind, r, <<<<list, n>>>>, TRUE))
               /\ heap' = Put(r, <<list, n>>, texts)
               /\ Begin(r, <<<<list, n>>>>, texts) /\ UNCHANGED objects
  BY <1>0 DEF AppendTo, Take
<1>2. PICK place, step, path : place = <<<< >>, r>> /\ step = <<list, n>> /\ path = <<step>>
  OBVIOUS
<1>3. /\ r \in Roots /\ place \in Places(heap, r) /\ place[1] = << >> /\ place[2] = r
      /\ path[1] = step
  BY <1>0, <1>2, OwnPlace
<1>4. /\ heap' = Put(place[2], step, texts) /\ Begin(r, path, texts)
      /\ handles' = Append(handles, Handle(kind, r, path, TRUE))
  BY <1>1, <1>2, <1>3
<1>5. QED
  BY <1>1, <1>2, <1>3, <1>4, PutStep

LEMMA NothingStep ==
  ASSUME IInv, UNCHANGED <<heap, objects, handles, said>>
  PROVE  IInv'
<1>1. Forest'
  BY ForestKept DEF IInv, Cells, Roots
<1>2. HandlesStand'
  BY DEF IInv, HandlesStand, HandleStands, Cells, Roots, Current
<1>3. ObjectsStand'
  BY DEF IInv, ObjectsStand, ObjectStands, Roots, Objects
<1>4. SaidIsHeld'
  BY DEF IInv, SaidIsHeld, Roots
<1>5. QED
  BY <1>1, <1>2, <1>3, <1>4 DEF IInv

LEMMA FillingStep ==
  ASSUME IInv, Filling
  PROVE  IInv'
<1>1. ASSUME NEW o \in Objects, NEW key \in OwnKeys(objects[o].kind), SetOwn(o, key)
      PROVE  IInv'
  <2>1. key # Exists /\ key \notin Identity
    BY DEF OwnKeys, Exists, Identity
  <2>2. QED
    BY <1>1, <2>1, OwnTextStep DEF SetOwn
<1>2. ASSUME NEW o \in Objects, SetNodeThenWrite(o)
      PROVE  IInv'
  <2>1. "node" # Exists /\ "node" \notin Identity
    BY DEF Exists, Identity
  <2>2. QED
    BY <1>2, <2>1, OwnTextStep DEF SetNodeThenWrite
<1>3. ASSUME NEW o \in Objects, NEW name, NEW path, AddBadge(o, name, path)
      PROVE  IInv'
  BY <1>3, AppendStep, NothingStep DEF AddBadge
<1>4. QED
  BY <1>1, <1>2, <1>3, AppendStep, ThroughStep, AttributeStep DEF Filling, OfKind

LEMMA SendingStep ==
  ASSUME IInv, Sending
  PROVE  IInv'
<1>1. ASSUME NEW o \in Objects, HandOverFails(o)
      PROVE  IInv'
  BY <1>1, NothingStep DEF HandOverFails
<1>2. QED
  BY <1>1, HandOverStep, CopyStep DEF Sending

LEMMA Initially ==
  ASSUME Init
  PROVE  IInv
<1>0. DOMAIN << >> = {} /\ IsSequence(<< >>)
  BY DEF IsSequence
<1>1. Cells = {} /\ Roots = {} /\ Objects = {} /\ DOMAIN handles = {}
  BY <1>0 DEF Init, Cells, Roots, Objects
<1>2. IsSequence(handles) /\ IsSequence(objects)
  BY <1>0 DEF Init
<1>3. QED
  BY <1>1, <1>2 DEF IInv, Forest, HandlesStand, ObjectsStand, SaidIsHeld

-----------------------------------------------------------------------------
\* The dictionaries of all objects are a forest, every handle stands where it
\* speaks for or on what no object has any more, an object that was handed
\* over is as its origin, and each says what was said of it.
THEOREM Invariant == Spec => []IInv
<1>1. Init => IInv
  BY Initially
<1>2. IInv /\ [Next]_vars => IInv'
  <2>1. ASSUME IInv, Next
        PROVE  IInv'
    BY <2>1, BuildingStep, FillingStep, SendingStep DEF Next
  <2>2. ASSUME IInv, UNCHANGED vars
        PROVE  IInv'
    BY <2>2, NothingStep DEF vars
  <2>3. QED
    BY <2>1, <2>2
<1>3. QED
  BY <1>1, <1>2, PTL DEF Spec

\* What an object would write is what was said through the newest handles.
THEOREM WrittenIsSaid == Spec => []WhatWasSaidIsWritten
<1>1. IInv => WhatWasSaidIsWritten
  <2>1. ASSUME IInv, NEW o \in Objects
        PROVE  Sent(o) = said[objects[o].value]
    BY <2>1, OwnPlace DEF IInv, SaidIsHeld, Sent
  <2>2. QED
    BY <2>1 DEF WhatWasSaidIsWritten
<1>2. QED
  BY <1>1, Invariant, PTL

\* What is handed over, within a script or to another one, stands for the same
\* rows, switches, group and version, and can be handed over again unless it is
\* an overlay that was handed over before.
THEOREM IdentityIsKept == Spec => []HandOverKeepsIdentity
<1>1. IInv => HandOverKeepsIdentity
  <2> SUFFICES ASSUME IInv, NEW o \in Objects
               PROVE  LET object == objects[o]
                          origin == objects[object.origin]
                      IN  /\ Rows(o) = Rows(object.origin)
                          /\ object.enabled = origin.enabled /\ object.overlays = origin.overlays
                          /\ \A key \in Identity \cap DOMAIN heap[origin.value].texts :
                               /\ key \in DOMAIN heap[object.value].texts
                               /\ heap[object.value].texts[key] = heap[origin.value].texts[key]
                          /\ ~object.named => object.kind = "overlay" /\ object.origin # o
                          /\ object.kind = "topology" =>
                               {"ui_name", "ui_name_key"} \cap DOMAIN heap[object.value].texts # {}
    BY DEF HandOverKeepsIdentity
  <2> DEFINE object == objects[o]
             origin == objects[object.origin]
  <2>1. /\ object.origin \in Objects
        /\ object.kind = origin.kind /\ object.path = origin.path
        /\ object.enabled = origin.enabled /\ object.overlays = origin.overlays
        /\ ~object.named => object.kind = "overlay" /\ object.origin # o
        /\ object.kind = "topology" =>
             {"ui_name", "ui_name_key"} \cap DOMAIN heap[object.value].texts # {}
    BY DEF IInv, ObjectsStand, ObjectStands
  <2>2. Rows(o) = Rows(object.origin)
    BY <2>1 DEF Rows
  <2>3. \A key \in Identity \cap DOMAIN heap[origin.value].texts :
          /\ key \in DOMAIN heap[object.value].texts
          /\ heap[object.value].texts[key] = heap[origin.value].texts[key]
    <3>1. CASE object.kind \in {"topology", "overlay"}
      <4>1. \A key \in Identity : /\ key \in DOMAIN heap[object.value].texts
                                  /\ heap[object.value].texts[key] = "made"
        BY <3>1 DEF IInv, ObjectsStand, ObjectStands
      <4>2. \A key \in Identity : heap[origin.value].texts[key] = "made"
        <5>1. PICK x \in Objects : x = object.origin
          BY <2>1
        <5>2. objects[x].kind \in {"topology", "overlay"}
          BY <2>1, <3>1, <5>1
        <5>3. \A key \in Identity : heap[objects[x].value].texts[key] = "made"
          BY <5>2 DEF IInv, ObjectsStand, ObjectStands
        <5>4. QED
          BY <5>1, <5>3
      <4>3. QED
        BY <4>1, <4>2
    <3>2. CASE object.kind \notin {"topology", "overlay"}
      <4>1. object.origin = o
        BY <3>2 DEF IInv, ObjectsStand, ObjectStands
      <4>2. QED
        BY <4>1
    <3>3. QED
      BY <3>1, <3>2
  <2>4. QED
    BY <2>1, <2>2, <2>3
<1>2. QED
  BY <1>1, Invariant, PTL

-----------------------------------------------------------------------------
\* Calls that fail.

Others(h, c, key) == {f \in Content(h, c) : f.key # key}

LEMMA OtherKeysSayTheSame ==
  ASSUME NEW h, NEW g, NEW c, NEW key, Places(g, c) = Places(h, c),
         \A p \in Places(h, c) : \/ g[p[2]].texts = h[p[2]].texts
                                 \/ g[p[2]].texts = With(h[p[2]].texts, key, "set")
  PROVE  Others(g, c, key) = Others(h, c, key)
<1>1. ASSUME NEW path, NEW texts, NEW f, f.key # key
      PROVE  f \in FactsAt(path, With(texts, key, "set")) <=> f \in FactsAt(path, texts)
  <2>1. /\ DOMAIN With(texts, key, "set") = DOMAIN texts \cup {key}
        /\ \A k \in DOMAIN texts \ {key} : With(texts, key, "set")[k] = texts[k]
    BY DEF With
  <2>2. QED
    BY <1>1, <2>1, InFacts, FactsEqual
<1>2. ASSUME NEW p \in Places(h, c), NEW f, f.key # key
      PROVE  f \in FactsAt(p[1], g[p[2]].texts) <=> f \in FactsAt(p[1], h[p[2]].texts)
  BY <1>1, <1>2
<1>3. ASSUME NEW f, f.key # key
      PROVE  f \in Content(g, c) <=> f \in Content(h, c)
  BY <1>2, <1>3, InContent
<1>4. QED
  BY <1>3 DEF Others

LEMMA Failing ==
  ASSUME Next, outcome' # ""
  PROVE  \/ UNCHANGED <<heap, objects, handles>>
         \/ \E o \in Objects : SetNodeThenWrite(o)
<1>1. ~Building
  BY DEF Building, NewTopology, OverlayFromCr, OverlayOf, NewElement, Create, ElemMetadata
<1>2. CASE Filling
  BY <1>2 DEF Filling, SetOwn, AppendTo, AddBadge, SetThrough, AddAttribute
<1>3. CASE Sending
  BY <1>3 DEF Sending, HandOver, HandOverToScript, HandOverFails
<1>4. QED
  BY <1>1, <1>2, <1>3 DEF Next

\* An element is in no other object: only topologies and overlays are handed
\* over, and what is made or copied stands on new dictionaries.
Alone ==
  \A o, x \in Objects :
    objects[o].kind \notin {"topology", "overlay"} /\ objects[x].value = objects[o].value => x = o

LEMMA AloneAdded ==
  ASSUME IInv, Alone, NEW object, objects' = Append(objects, object),
         \/ \A x \in Objects : objects[x].value # object.value
         \/ /\ object.kind \in {"topology", "overlay"}
            /\ \E o \in Objects : /\ objects[o].kind \in {"topology", "overlay"}
                                  /\ objects[o].value = object.value
  PROVE  Alone'
<1>0. PICK n : n = Len(objects) + 1
  OBVIOUS
<1>1. /\ Len(objects) \in Nat /\ Objects = 1..Len(objects) /\ Objects' = 1..Len(objects) + 1
      /\ \A o \in Objects : objects'[o] = objects[o]
      /\ objects'[n] = object
  BY <1>0, Appended DEF Objects, IInv, ObjectsStand
<1>2. Objects' = Objects \cup {n}
  BY <1>0, <1>1
<1> SUFFICES ASSUME NEW o \in Objects \cup {n}, NEW x \in Objects \cup {n},
                    objects'[o].kind \notin {"topology", "overlay"},
                    objects'[x].value = objects'[o].value
             PROVE  x = o
  BY <1>2 DEF Alone
<1>3. CASE o \in Objects /\ x \in Objects
  BY <1>1, <1>3 DEF Alone
<1>4. CASE o = n /\ x = n
  BY <1>4
<1>5. CASE o = n /\ x \in Objects
  BY <1>1, <1>5
<1>6. CASE o \in Objects /\ x = n
  <2>1. PICK y \in Objects : /\ objects[y].kind \in {"topology", "overlay"}
                             /\ objects[y].value = object.value
    BY <1>1, <1>6
  <2>2. y = o
    BY <1>1, <1>6, <2>1 DEF Alone
  <2>3. QED
    BY <1>1, <1>6, <2>1, <2>2
<1>7. QED
  BY <1>3, <1>4, <1>5, <1>6

LEMMA AloneNext == IInv /\ Alone /\ [Next]_vars => Alone'
<1> SUFFICES ASSUME IInv, Alone, [Next]_vars PROVE Alone'
  OBVIOUS
<1>0. \A x \in Objects : objects[x].value \in Cells
  BY OwnPlace, PlacesAreMade DEF IInv
<1>1. CASE UNCHANGED objects
  BY <1>1 DEF Alone, Objects
<1>2. ASSUME NEW object, NEW texts, Create(object, texts), object.value = Fresh
      PROVE  Alone'
  <2>1. Fresh \notin Cells /\ objects' = Append(objects, object)
    BY <1>2, FreshCell DEF Create
  <2>2. QED
    BY <1>0, <1>2, <2>1, AloneAdded
<1>3. CASE Building
  <2>1. \A kind, path, enabled, overlays : Object(kind, path, enabled, overlays).value = Fresh
    BY DEF Object
  <2>2. QED
    BY <1>1, <1>2, <1>3, <2>1
       DEF Building, NewTopology, OverlayFromCr, OverlayOf, NewElement, ElemMetadata
<1>4. CASE Filling
  BY <1>1, <1>4 DEF Filling, SetOwn, SetNodeThenWrite, AppendTo, AddBadge, SetThrough, AddAttribute
<1>5. ASSUME NEW o \in Objects, NEW v, objects' = Append(objects, Deserialized(o, v)),
             Serializes(o), v = objects[o].value \/ v \notin Cells
      PROVE  Alone'
  <2>1. Deserialized(o, v).value = v /\ Deserialized(o, v).kind = objects[o].kind
    BY DEF Deserialized, IInv, ObjectsStand, ObjectStands, ObjectFields
  <2>2. QED
    BY <1>0, <1>5, <2>1, AloneAdded DEF Serializes
<1>6. ASSUME NEW o \in Objects, HandOver(o) PROVE Alone'
  BY <1>5, <1>6 DEF HandOver, Serializable
<1>7. ASSUME NEW o \in Objects, HandOverToScript(o) PROVE Alone'
  <2>0. PICK r : r = objects[o].value
    OBVIOUS
  <2>1. PICK copy : /\ copy \in Injection(CellsOf(r), Cell \ Cells)
                    /\ objects' = Append(objects, Deserialized(o, copy[r]))
                    /\ Serializes(o)
    BY <1>7, <2>0 DEF HandOverToScript, Serializable, CellsOf, Cells
  <2>2. r \in CellsOf(r)
    <3>1. PICK q : q = <<<< >>, r>>
      OBVIOUS
    <3>2. q \in Places(heap, r) /\ q[2] = r
      BY <3>1, InPlaces
    <3>3. QED
      BY <3>2 DEF CellsOf
  <2>3. copy[r] \notin Cells
    BY <2>1, <2>2 DEF Injection, IsInjective
  <2>4. QED
    BY <1>5, <2>1, <2>3
<1>8. QED
  BY <1>1, <1>3, <1>4, <1>6, <1>7 DEF Next, Sending, HandOverFails, vars

\* A call that fails changes nothing of what the objects would write, except
\* for the node of the one endpoint whose set_node is chained.
THEOREM FailuresAreHarmless == Spec => FailuresLeaveNothing
<1> DEFINE Failed ==
             LET Before(o) == Content(heap, objects[o].value)
                 After(o)  == Content(heap', objects[o].value)
                 Spared(S) == \A o \in S : After(o) = Before(o)
                 Other(facts) == {f \in facts : f.key # "node"}
             IN  outcome' # "" =>
                   /\ UNCHANGED <<objects, handles>>
                   /\ \/ Spared(Objects)
                      \/ \E e \in OfKind("endpoint") :
                           Spared(Objects \ {e}) /\ Other(After(e)) = Other(Before(e))
<1>1. ASSUME IInv, Alone, Next, outcome' # ""
      PROVE  Failed
  <2>1. CASE UNCHANGED <<heap, objects, handles>>
    BY <2>1
  <2>2. ASSUME NEW e \in Objects, SetNodeThenWrite(e)
        PROVE  Failed
    <3>0. PICK c : c = objects[e].value
      OBVIOUS
    <3>1. /\ heap' = TextChanged(c, "node") /\ UNCHANGED <<objects, handles>>
          /\ objects[e].kind = "endpoint"
      BY <2>2, <3>0 DEF SetNodeThenWrite
    <3>2. c \in Cells /\ c \in Roots
      BY <1>1, <3>0, OwnPlace, PlacesAreMade DEF IInv
    <3>3. /\ \A d \in Cells : heap'[d].parts = heap[d].parts
          /\ \A d \in Cells \ {c} : heap'[d].texts = heap[d].texts
          /\ heap'[c].texts = With(heap[c].texts, "node", "set")
      BY <3>1, <3>2, HeapTextChanged
    <3>4. ASSUME NEW r \in Roots
          PROVE  Others(heap', r, "node") = Others(heap, r, "node")
      <4>1. \A p \in Places(heap, r) : p[2] \in Cells
        BY <1>1, PlacesAreMade DEF IInv
      <4>2. Places(heap', r) = Places(heap, r)
        BY <3>3, <4>1, SamePlaces
      <4>3. \A p \in Places(heap, r) : \/ heap'[p[2]].texts = heap[p[2]].texts
                                       \/ heap'[p[2]].texts = With(heap[p[2]].texts, "node", "set")
        BY <3>3, <4>1
      <4>4. QED
        BY <4>2, <4>3, OtherKeysSayTheSame
    <3>5. ASSUME NEW r \in Roots, r # c
          PROVE  Content(heap', r) = Content(heap, r)
      <4>1. \A p \in Places(heap, r) : p[2] \in Cells
        BY <1>1, PlacesAreMade DEF IInv
      <4>2. ASSUME NEW p \in Places(heap, r), p[2] = c PROVE FALSE
        <5>1. PICK q : q = <<<< >>, c>>
          OBVIOUS
        <5>2. q \in Places(heap, c) /\ q[2] = c
          BY <5>1, InPlaces
        <5>3. r = c
          BY <1>1, <3>2, <4>2, <5>2, OnePlacePerCell DEF IInv
        <5>4. QED
          BY <3>5, <5>3
      <4>3. \A p \in Places(heap, r) : heap'[p[2]].parts = heap[p[2]].parts
                                       /\ heap'[p[2]].texts = heap[p[2]].texts
        BY <3>3, <4>1, <4>2
      <4>4. QED
        BY <4>3, SameContent
    <3>6. \A x \in Objects : objects[x].value \in Roots
      BY <1>1, OwnPlace
    <3>7. \A x \in Objects \ {e} : objects[x].value # c
      BY <1>1, <3>0, <3>1 DEF Alone
    <3>8. \A x \in Objects \ {e} : Content(heap', objects[x].value) = Content(heap, objects[x].value)
      BY <3>5, <3>6, <3>7
    <3>9. {f \in Content(heap', objects[e].value) : f.key # "node"}
            = {f \in Content(heap, objects[e].value) : f.key # "node"}
      BY <3>0, <3>2, <3>4 DEF Others
    <3>10. e \in OfKind("endpoint")
      BY <3>1 DEF OfKind
    <3>11. QED
      BY <3>1, <3>8, <3>9, <3>10
  <2>3. QED
    BY <1>1, <2>1, <2>2, Failing
<1>2. IInv /\ Alone /\ [Next]_vars => [Failed]_vars
  BY <1>1
<1>3. ASSUME Init PROVE Alone
  <2>1. DOMAIN << >> = {}
    OBVIOUS
  <2>2. Objects = {}
    BY <1>3, <2>1 DEF Init, Objects
  <2>3. QED
    BY <2>2 DEF Alone
<1>4. FailuresLeaveNothing <=> [][Failed]_vars
  BY DEF FailuresLeaveNothing
<1> HIDE DEF Failed
<1>5. QED
  BY <1>2, <1>3, <1>4, AloneNext, Invariant, PTL DEF Spec
=============================================================================
