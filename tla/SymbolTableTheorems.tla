------------------------ MODULE SymbolTableTheorems ------------------------
(***************************************************************************)
(* What the operations of symbol_table.c on one table preserve and change: *)
(* a table whose chains hold every name once, in the bucket of its hash,   *)
(* stays one, and a call changes what lookups of its own name answer and   *)
(* nothing else.                                                           *)
(***************************************************************************)
EXTENDS SymbolTable, StackTheorems

SymbolOf(N, T, V) == [name : N, type : T, value : V]
TableOf(N, T, V)  == [buckets : [Buckets -> Seq(SymbolOf(N, T, V))], size : Nat]

(* Every symbol is in the chain of its hash, and a chain holds a name once.*)
Hashed(b, chain) == \A k \in DOMAIN chain : hash[chain[k].name] = b
NamesOnce(chain) == \A k, l \in DOMAIN chain : chain[k].name = chain[l].name => k = l
Chained(table)   == \A b \in Buckets : Hashed(b, table.buckets[b]) /\ NamesOnce(table.buckets[b])

(* The positions of the symbols, which size counts.                        *)
Places(table)  == UNION {{<<b, i>> : i \in DOMAIN table.buckets[b]} : b \in Buckets}
Counted(table) == IsFiniteSet(Places(table)) /\ table.size = Cardinality(Places(table))

Typed(table, N, T, V) == N \subseteq Names /\ table \in TableOf(N, T, V)
Maps(table, N, T, V)  == Typed(table, N, T, V) /\ Chained(table)

(* Lookups of a name do not tell the tables apart.                         *)
SameAt(t, u, n) ==
    /\ Holds(t, n) <=> Holds(u, n)
    /\ Holds(t, n) => Lookup(t, n) = Lookup(u, n)

-----------------------------------------------------------------------------
(* The chain of a name.                                                    *)
LEMMA ChainOf ==
    ASSUME NEW N, NEW T, NEW V, NEW t, Typed(t, N, T, V), NEW n \in N
    PROVE  /\ n \in Names /\ hash[n] \in Buckets
           /\ Chain(t, n) = t.buckets[hash[n]]
           /\ Chain(t, n) \in Seq(SymbolOf(N, T, V))
           /\ DOMAIN Chain(t, n) = 1 .. Len(Chain(t, n))
           /\ Len(Chain(t, n)) \in Nat
<1>1. n \in Names /\ hash[n] \in Buckets BY HashAssumption DEF Typed
<1>2. t.buckets[hash[n]] \in Seq(SymbolOf(N, T, V)) BY <1>1 DEF Typed, TableOf
<1>. QED BY <1>1, <1>2 DEF Chain

(* The walk along a chain finds the one symbol that has the name.          *)
LEMMA HitAt ==
    ASSUME NEW N, NEW T, NEW V, NEW t, Maps(t, N, T, V),
           NEW n \in N, NEW k \in DOMAIN Chain(t, n), Chain(t, n)[k].name = n
    PROVE  Holds(t, n) /\ FirstHit(t, n) = k /\ Lookup(t, n) = Chain(t, n)[k]
<1>0. Typed(t, N, T, V) BY DEF Maps
<1>1. /\ hash[n] \in Buckets /\ Chain(t, n) = t.buckets[hash[n]]
      /\ DOMAIN Chain(t, n) = 1 .. Len(Chain(t, n)) /\ Len(Chain(t, n)) \in Nat
  BY <1>0, ChainOf
<1>2. NamesOnce(Chain(t, n)) BY <1>1 DEF Maps, Chained
<1>3. Hits(t, n) = {k} BY <1>1, <1>2 DEF Hits, NamesOnce
<1>4. k \in Int BY <1>1
<1>5. FirstHit(t, n) = k BY <1>3, <1>4 DEF FirstHit
<1>. QED BY <1>3, <1>5 DEF Holds, Lookup

(* A name that is held is at its first hit.                                *)
LEMMA HeldAt ==
    ASSUME NEW N, NEW T, NEW V, NEW t, Maps(t, N, T, V), NEW n \in N, Holds(t, n)
    PROVE  /\ FirstHit(t, n) \in DOMAIN Chain(t, n)
           /\ Lookup(t, n) = Chain(t, n)[FirstHit(t, n)]
           /\ Lookup(t, n).name = n
           /\ Lookup(t, n) \in SymbolOf(N, T, V)
<1>1. PICK k \in DOMAIN Chain(t, n) : Chain(t, n)[k].name = n BY DEF Holds, Hits
<1>2. FirstHit(t, n) = k /\ Lookup(t, n) = Chain(t, n)[k] BY <1>1, HitAt
<1>3. /\ Chain(t, n) \in Seq(SymbolOf(N, T, V)) /\ DOMAIN Chain(t, n) = 1 .. Len(Chain(t, n))
      /\ Len(Chain(t, n)) \in Nat
  BY ChainOf DEF Maps
<1>4. Chain(t, n)[k] \in SymbolOf(N, T, V) BY <1>3, ElementOfSeq
<1>. QED BY <1>1, <1>2, <1>4

(* Every place of a table is that of the name at it.                       *)
LEMMA PlaceOf ==
    ASSUME NEW N, NEW T, NEW V, NEW t, Maps(t, N, T, V), NEW s \in Places(t)
    PROVE  LET sym == t.buckets[s[1]][s[2]]
           IN  /\ sym \in SymbolOf(N, T, V) /\ s = <<hash[sym.name], s[2]>>
               /\ Holds(t, sym.name) /\ Lookup(t, sym.name) = sym
               /\ FirstHit(t, sym.name) = s[2]
<1>0. PICK b \in Buckets : \E i \in DOMAIN t.buckets[b] : s = <<b, i>> BY DEF Places
<1>1. PICK i \in DOMAIN t.buckets[b] : s = <<b, i>> BY <1>0
<1>2. t.buckets[b] \in Seq(SymbolOf(N, T, V)) BY DEF Maps, Typed, TableOf
<1>. DEFINE sym == t.buckets[b][i]
<1>3. sym \in SymbolOf(N, T, V) BY <1>2, ElementOfSeq
<1>4. sym.name \in N BY <1>3 DEF SymbolOf
<1>5. hash[sym.name] = b BY <1>1 DEF Maps, Chained, Hashed
<1>6. Chain(t, sym.name) = t.buckets[b] BY <1>5 DEF Chain
<1>7. Holds(t, sym.name) /\ FirstHit(t, sym.name) = i /\ Lookup(t, sym.name) = sym
  BY <1>4, <1>6, HitAt
<1>. QED BY <1>1, <1>3, <1>5, <1>7

(* A name that is held has a place.                                        *)
LEMMA PlaceHeld ==
    ASSUME NEW N, NEW T, NEW V, NEW t, Maps(t, N, T, V), NEW n \in N, Holds(t, n)
    PROVE  /\ <<hash[n], FirstHit(t, n)>> \in Places(t)
           /\ t.buckets[hash[n]][FirstHit(t, n)] = Lookup(t, n)
<1>1. FirstHit(t, n) \in DOMAIN Chain(t, n) /\ Lookup(t, n) = Chain(t, n)[FirstHit(t, n)]
  BY HeldAt
<1>2. hash[n] \in Buckets /\ Chain(t, n) = t.buckets[hash[n]] BY ChainOf DEF Maps
<1>. QED BY <1>1, <1>2 DEF Places

(* Tables that differ in the chain of one name, and there in the symbol of *)
(* that name only, answer alike for every other name.                      *)
Differ(t, u, b) == \A c \in Buckets : c # b => u.buckets[c] = t.buckets[c]
Kept(c, d, name) ==
    \A k \in DOMAIN c : c[k].name # name => \E l \in DOMAIN d : d[l] = c[k]

(* Such tables are the same at every other name.                           *)
LEMMA SameElsewhere ==
    ASSUME NEW N, NEW T, NEW V, NEW t, NEW u, Maps(t, N, T, V), Maps(u, N, T, V), NEW name \in N,
           Differ(t, u, hash[name]),
           Kept(Chain(t, name), Chain(u, name), name),
           Kept(Chain(u, name), Chain(t, name), name)
    PROVE  \A n \in N \ {name} : SameAt(t, u, n)
<1>. SUFFICES ASSUME NEW n \in N, n # name PROVE SameAt(t, u, n)
  OBVIOUS
<1>1. hash[n] \in Buckets BY ChainOf DEF Maps
<1>2. CASE hash[n] # hash[name]
  <2>1. Chain(u, n) = Chain(t, n) BY <1>1, <1>2 DEF Chain, Differ
  <2>2. Hits(u, n) = Hits(t, n) BY <2>1 DEF Hits
  <2>3. FirstHit(u, n) = FirstHit(t, n) BY <2>2 DEF FirstHit
  <2>. QED BY <2>1, <2>2, <2>3 DEF SameAt, Holds, Lookup
<1>3. CASE hash[n] = hash[name]
  <2>1. Chain(t, n) = Chain(t, name) /\ Chain(u, n) = Chain(u, name) BY <1>3 DEF Chain
  <2>2. ASSUME Holds(t, n) PROVE Holds(u, n) /\ Lookup(u, n) = Lookup(t, n)
    <3>1. PICK k \in DOMAIN Chain(t, n) : Chain(t, n)[k] = Lookup(t, n) /\ Chain(t, n)[k].name = n
      BY <2>2, HeldAt
    <3>2. PICK l \in DOMAIN Chain(u, n) : Chain(u, n)[l] = Chain(t, n)[k] BY <2>1, <3>1 DEF Kept
    <3>. QED BY <3>1, <3>2, HitAt
  <2>3. ASSUME Holds(u, n) PROVE Holds(t, n)
    <3>1. PICK k \in DOMAIN Chain(u, n) : Chain(u, n)[k].name = n BY <2>3, HeldAt
    <3>2. PICK l \in DOMAIN Chain(t, n) : Chain(t, n)[l] = Chain(u, n)[k] BY <2>1, <3>1 DEF Kept
    <3>. QED BY <3>1, <3>2, HitAt
  <2>. QED BY <2>2, <2>3 DEF SameAt
<1>. QED BY <1>2, <1>3

-----------------------------------------------------------------------------
(* Replacing one chain of a table.                                         *)
Rechained(t, b, chain, size) == [buckets |-> [t.buckets EXCEPT ![b] = chain], size |-> size]

(* A table with another chain at one bucket.                               *)
LEMMA RechainedMaps ==
    ASSUME NEW N, NEW T, NEW V, NEW t, Maps(t, N, T, V), NEW b \in Buckets,
           NEW chain \in Seq(SymbolOf(N, T, V)), Hashed(b, chain), NamesOnce(chain), NEW size \in Nat
    PROVE  LET u == Rechained(t, b, chain, size)
           IN  /\ Maps(u, N, T, V)
               /\ u.buckets[b] = chain /\ u.size = size
               /\ Differ(t, u, b)
<1>. DEFINE u == Rechained(t, b, chain, size)
<1>1. t.buckets \in [Buckets -> Seq(SymbolOf(N, T, V))] BY DEF Maps, Typed, TableOf
<1>2. /\ u.buckets = [t.buckets EXCEPT ![b] = chain] /\ u.size = size
      /\ u = [buckets |-> u.buckets, size |-> u.size]
  BY DEF Rechained
<1>. HIDE DEF u
<1>3. /\ u.buckets[b] = chain
      /\ \A c \in Buckets : c # b => u.buckets[c] = t.buckets[c]
      /\ u.buckets \in [Buckets -> Seq(SymbolOf(N, T, V))]
  BY <1>1, <1>2
<1>4. Typed(u, N, T, V) BY <1>2, <1>3 DEF Maps, Typed, TableOf
<1>5. ASSUME NEW c \in Buckets PROVE Hashed(c, u.buckets[c]) /\ NamesOnce(u.buckets[c])
  <2>1. CASE c = b BY <2>1, <1>3
  <2>2. CASE c # b BY <2>2, <1>3 DEF Maps, Chained
  <2>. QED BY <2>1, <2>2
<1>. QED BY <1>2, <1>3, <1>4, <1>5 DEF u, Maps, Chained, Differ

(* The places of a table are those of one chain and of the others; a chain *)
(* that grows or shrinks by one has one place more or less.                *)
PlacesBut(t, b) == UNION {{<<c, i>> : i \in DOMAIN t.buckets[c]} : c \in Buckets \ {b}}

(* The places are those of one bucket and those of the others.             *)
LEMMA PlacesOfChain ==
    ASSUME NEW N, NEW T, NEW V, NEW t, Typed(t, N, T, V), NEW b \in Buckets
    PROVE  /\ Places(t) = PlacesBut(t, b) \cup {<<b, i>> : i \in 1 .. Len(t.buckets[b])}
           /\ Len(t.buckets[b]) \in Nat
           /\ \A i : <<b, i>> \notin PlacesBut(t, b)
<1>1. t.buckets[b] \in Seq(SymbolOf(N, T, V)) BY DEF Typed, TableOf
<1>2. Places(t) = PlacesBut(t, b) \cup {<<b, i>> : i \in DOMAIN t.buckets[b]}
  BY DEF Places, PlacesBut
<1>. QED BY <1>1, <1>2 DEF PlacesBut

(* The places of the others do not change with the chain of the one.       *)
LEMMA ButSame ==
    ASSUME NEW t, NEW u, NEW b, Differ(t, u, b)
    PROVE  PlacesBut(u, b) = PlacesBut(t, b)
<1>1. \A c \in Buckets \ {b} : DOMAIN u.buckets[c] = DOMAIN t.buckets[c] BY DEF Differ
<1>. QED BY <1>1 DEF PlacesBut

(* A chain of the same length has the same places.                         *)
LEMMA SamePlaces ==
    ASSUME NEW N, NEW T, NEW V, NEW t, Typed(t, N, T, V), NEW u, Typed(u, N, T, V),
           NEW b \in Buckets, Differ(t, u, b),
           Len(u.buckets[b]) = Len(t.buckets[b])
    PROVE  Places(u) = Places(t)
<1>. DEFINE n == Len(t.buckets[b])
            m == Len(u.buckets[b])
            Others == PlacesBut(t, b)
<1>1. Places(t) = Others \cup {<<b, i>> : i \in 1 .. n} /\ n \in Nat /\ \A i : <<b, i>> \notin Others
  BY PlacesOfChain
<1>2. Places(u) = PlacesBut(u, b) \cup {<<b, i>> : i \in 1 .. m} /\ m \in Nat
  BY PlacesOfChain
<1>3. PlacesBut(u, b) = Others BY ButSame
<1>. HIDE DEF Others
<1>. QED BY <1>1, <1>2, <1>3

(* A chain that is longer by one has one place more.                       *)
LEMMA PlaceMore ==
    ASSUME NEW N, NEW T, NEW V, NEW t, Typed(t, N, T, V), NEW u, Typed(u, N, T, V),
           NEW b \in Buckets, Differ(t, u, b),
           Len(u.buckets[b]) = Len(t.buckets[b]) + 1
    PROVE  \E p : p \notin Places(t) /\ Places(u) = Places(t) \cup {p}
<1>. DEFINE n == Len(t.buckets[b])
            m == Len(u.buckets[b])
            Others == PlacesBut(t, b)
<1>1. Places(t) = Others \cup {<<b, i>> : i \in 1 .. n} /\ n \in Nat /\ \A i : <<b, i>> \notin Others
  BY PlacesOfChain
<1>2. Places(u) = PlacesBut(u, b) \cup {<<b, i>> : i \in 1 .. m} /\ m \in Nat
  BY PlacesOfChain
<1>3. PlacesBut(u, b) = Others BY ButSame
<1>. HIDE DEF Others
<1>4. 1 .. m = (1 .. n) \cup {n + 1} /\ n + 1 \notin 1 .. n BY <1>1
<1>. HIDE DEF m, n
<1>5. <<b, n + 1>> \notin Places(t) /\ Places(u) = Places(t) \cup {<<b, n + 1>>}
  BY <1>1, <1>2, <1>3, <1>4
<1>. QED BY <1>5

(* A chain that is shorter by one has one place less.                      *)
LEMMA PlaceLess ==
    ASSUME NEW N, NEW T, NEW V, NEW t, Typed(t, N, T, V), NEW u, Typed(u, N, T, V),
           NEW b \in Buckets, Differ(t, u, b),
           Len(u.buckets[b]) = Len(t.buckets[b]) - 1
    PROVE  \E p : p \in Places(t) /\ Places(u) = Places(t) \ {p}
<1>. DEFINE n == Len(t.buckets[b])
            m == Len(u.buckets[b])
            Others == PlacesBut(t, b)
<1>1. Places(t) = Others \cup {<<b, i>> : i \in 1 .. n} /\ n \in Nat /\ \A i : <<b, i>> \notin Others
  BY PlacesOfChain
<1>2. Places(u) = PlacesBut(u, b) \cup {<<b, i>> : i \in 1 .. m} /\ m \in Nat
  BY PlacesOfChain
<1>3. PlacesBut(u, b) = Others BY ButSame
<1>. HIDE DEF Others
<1>4. 1 .. m = (1 .. n) \ {n} /\ n \in 1 .. n BY <1>1, <1>2
<1>. HIDE DEF m, n
<1>5. <<b, n>> \in Places(t) /\ Places(u) = Places(t) \ {<<b, n>>}
  BY <1>1, <1>2, <1>3, <1>4
<1>. QED BY <1>5

-----------------------------------------------------------------------------
(* The operations, as the chain they replace.                              *)
Sound(table, N, T, V) == Maps(table, N, T, V) /\ Counted(table)

Cut(chain, i) == SubSeq(chain, 1, i - 1) \o SubSeq(chain, i + 1, Len(chain))

(* Replace changes one chain.                                              *)
LEMMA ReplaceForm ==
    ASSUME NEW N, NEW T, NEW V, NEW t, Typed(t, N, T, V), NEW name \in N, NEW sym
    PROVE  Replace(t, name, sym) =
              Rechained(t, hash[name], [Chain(t, name) EXCEPT ![FirstHit(t, name)] = sym], t.size)
<1>. DEFINE h == hash[name]
            c == Chain(t, name)
            i == FirstHit(t, name)
<1>1. h \in Buckets /\ c = t.buckets[h] BY ChainOf
<1>2. t = [buckets |-> t.buckets, size |-> t.size] /\ DOMAIN t.buckets = Buckets
  BY DEF Typed, TableOf
<1>3. Replace(t, name, sym) = [t EXCEPT !.buckets[h][i] = sym] BY DEF Replace
<1>. HIDE DEF h, c, i
<1>4. Replace(t, name, sym) = Rechained(t, h, [c EXCEPT ![i] = sym], t.size)
  BY <1>1, <1>2, <1>3 DEF Rechained
<1>. QED BY <1>4 DEF h, c, i

(* st_insert of a new name changes one chain.                              *)
LEMMA InsertForm ==
    ASSUME NEW N, NEW T, NEW V, NEW t, Typed(t, N, T, V), NEW name \in N, ~Holds(t, name),
           NEW type, NEW value
    PROVE  st_insert(t, name, type, value) =
              Rechained(t, hash[name], <<Symbol(name, type, value)>> \o Chain(t, name), t.size + 1)
<1>. DEFINE h == hash[name]
            c == Chain(t, name)
<1>1. h \in Buckets /\ c = t.buckets[h] BY ChainOf
<1>2. t = [buckets |-> t.buckets, size |-> t.size] /\ DOMAIN t.buckets = Buckets
  BY DEF Typed, TableOf
<1>3. st_insert(t, name, type, value) =
         [t EXCEPT !.buckets[h] = <<Symbol(name, type, value)>> \o @, !.size = @ + 1]
  BY DEF st_insert
<1>. HIDE DEF h, c
<1>4. st_insert(t, name, type, value) = Rechained(t, h, <<Symbol(name, type, value)>> \o c, t.size + 1)
  BY <1>1, <1>2, <1>3 DEF Rechained
<1>. QED BY <1>4 DEF h, c

(* st_remove changes one chain.                                            *)
LEMMA RemoveForm ==
    ASSUME NEW N, NEW T, NEW V, NEW t, Typed(t, N, T, V), NEW name \in N, Holds(t, name)
    PROVE  st_remove(t, name) =
              Rechained(t, hash[name], Cut(Chain(t, name), FirstHit(t, name)), t.size - 1)
<1>. DEFINE h == hash[name]
            c == Chain(t, name)
            i == FirstHit(t, name)
<1>1. h \in Buckets /\ c = t.buckets[h] BY ChainOf
<1>2. t = [buckets |-> t.buckets, size |-> t.size] /\ DOMAIN t.buckets = Buckets
  BY DEF Typed, TableOf
<1>3. st_remove(t, name) =
         [t EXCEPT !.buckets[h] = SubSeq(@, 1, i - 1) \o SubSeq(@, i + 1, Len(@)), !.size = @ - 1]
  BY DEF st_remove
<1>. HIDE DEF h, c, i
<1>4. st_remove(t, name) = Rechained(t, h, Cut(c, i), t.size - 1)
  BY <1>1, <1>2, <1>3 DEF Rechained, Cut
<1>. QED BY <1>4 DEF h, c, i

(* A symbol takes the place of the one that has its name.                  *)
LEMMA ReplaceMeans ==
    ASSUME NEW N, NEW T, NEW V, NEW t, Sound(t, N, T, V), NEW name \in N, Holds(t, name),
           NEW sym \in SymbolOf(N, T, V), sym.name = name
    PROVE  LET u == Replace(t, name, sym)
           IN  /\ Sound(u, N, T, V)
               /\ Holds(u, name) /\ Lookup(u, name) = sym
               /\ \A n \in N \ {name} : SameAt(t, u, n)
<1>. DEFINE h == hash[name]
            c == Chain(t, name)
            i == FirstHit(t, name)
            d == [c EXCEPT ![i] = sym]
            u == Replace(t, name, sym)
<1>0. Maps(t, N, T, V) /\ Typed(t, N, T, V) BY DEF Sound, Maps
<1>1. /\ h \in Buckets /\ c = t.buckets[h] /\ c \in Seq(SymbolOf(N, T, V))
      /\ DOMAIN c = 1 .. Len(c) /\ Len(c) \in Nat
  BY <1>0, ChainOf
<1>2. i \in DOMAIN c /\ c[i].name = name BY <1>0, HeldAt
<1>3. u = Rechained(t, h, d, t.size) BY <1>0, ReplaceForm
<1>4. /\ d \in Seq(SymbolOf(N, T, V)) /\ Len(d) = Len(c) /\ DOMAIN d = DOMAIN c
      /\ d[i] = sym /\ \A k \in DOMAIN c : k # i => d[k] = c[k]
  BY <1>1, <1>2, ExceptSeq
<1>5. Hashed(h, c) /\ NamesOnce(c) BY <1>0, <1>1 DEF Maps, Chained
<1>6. t.size \in Nat BY <1>0 DEF Typed, TableOf
<1>. HIDE DEF h, c, i, d, u
<1>7. Hashed(h, d) /\ NamesOnce(d)
  <2>1. \A k \in DOMAIN d : d[k].name = c[k].name BY <1>2, <1>4
  <2>. QED BY <2>1, <1>4, <1>5 DEF Hashed, NamesOnce
<1>8. /\ Maps(u, N, T, V) /\ u.buckets[h] = d /\ u.size = t.size
      /\ Differ(t, u, h) /\ Typed(u, N, T, V)
  BY <1>0, <1>1, <1>3, <1>4, <1>6, <1>7, RechainedMaps DEF Maps
<1>9. Places(u) = Places(t)
  <2>1. Len(u.buckets[h]) = Len(t.buckets[h]) BY <1>1, <1>4, <1>8
  <2>. QED BY <2>1, <1>0, <1>1, <1>8, SamePlaces
<1>10. Sound(u, N, T, V) BY <1>8, <1>9 DEF Sound, Counted
<1>11. Chain(u, name) = d BY <1>8 DEF Chain, h
<1>12. Holds(u, name) /\ Lookup(u, name) = sym
  BY <1>2, <1>4, <1>8, <1>11, HitAt
<1>13. Kept(c, d, name) /\ Kept(d, c, name) BY <1>2, <1>4 DEF Kept
<1>14. \A n \in N \ {name} : SameAt(t, u, n)
  BY <1>0, <1>8, <1>11, <1>13, SameElsewhere DEF h, c
<1>. QED BY <1>10, <1>12, <1>14 DEF u

(* A symbol under a new name goes to the head of its chain.                *)
LEMMA LinkMeans ==
    ASSUME NEW N, NEW T, NEW V, NEW t, Sound(t, N, T, V), NEW name \in N, ~Holds(t, name),
           NEW type \in T, NEW value \in V
    PROVE  LET u == st_insert(t, name, type, value)
           IN  /\ Sound(u, N, T, V)
               /\ Holds(u, name) /\ Lookup(u, name) = Symbol(name, type, value)
               /\ \A n \in N \ {name} : SameAt(t, u, n)
<1>. DEFINE h == hash[name]
            c == Chain(t, name)
            sym == Symbol(name, type, value)
            d == <<sym>> \o c
            u == st_insert(t, name, type, value)
<1>0. Maps(t, N, T, V) /\ Typed(t, N, T, V) BY DEF Sound, Maps
<1>1. /\ h \in Buckets /\ c = t.buckets[h] /\ c \in Seq(SymbolOf(N, T, V))
      /\ DOMAIN c = 1 .. Len(c) /\ Len(c) \in Nat
  BY <1>0, ChainOf
<1>2. sym \in SymbolOf(N, T, V) /\ sym.name = name BY DEF SymbolOf, Symbol
<1>3. u = Rechained(t, h, d, t.size + 1) BY <1>0, InsertForm
<1>4. \A k \in DOMAIN c : c[k].name # name BY DEF Holds, Hits
<1>5. Hashed(h, c) /\ NamesOnce(c) BY <1>0, <1>1 DEF Maps, Chained
<1>6. t.size \in Nat BY <1>0 DEF Typed, TableOf
<1>. HIDE DEF c, sym
<1>7. /\ d \in Seq(SymbolOf(N, T, V)) /\ Len(d) = Len(c) + 1 /\ DOMAIN d = 1 .. Len(c) + 1
      /\ d[1] = sym /\ \A k \in 2 .. Len(c) + 1 : d[k] = c[k - 1]
  BY <1>1, <1>2
<1>. HIDE DEF d, u
<1>8. \A k \in DOMAIN d : k = 1 \/ (k - 1 \in DOMAIN c /\ d[k] = c[k - 1]) BY <1>1, <1>7
<1>9. Hashed(h, d)
  <2>1. hash[sym.name] = h BY <1>2
  <2>. QED BY <2>1, <1>5, <1>7, <1>8 DEF Hashed
<1>10. NamesOnce(d)
  <2>. SUFFICES ASSUME NEW k \in DOMAIN d, NEW l \in DOMAIN d, d[k].name = d[l].name PROVE k = l
    BY DEF NamesOnce
  <2>1. CASE k = 1 /\ l = 1 BY <2>1
  <2>2. CASE k = 1 /\ l - 1 \in DOMAIN c BY <2>2, <1>2, <1>4, <1>7, <1>8
  <2>3. CASE l = 1 /\ k - 1 \in DOMAIN c BY <2>3, <1>2, <1>4, <1>7, <1>8
  <2>4. CASE k # 1 /\ l # 1
    <3>1. k - 1 \in DOMAIN c /\ l - 1 \in DOMAIN c /\ c[k - 1].name = c[l - 1].name BY <2>4, <1>8
    <3>2. k - 1 = l - 1 BY <3>1, <1>5 DEF NamesOnce
    <3>. QED BY <3>2, <1>7, <1>1
  <2>. QED BY <2>1, <2>2, <2>3, <2>4, <1>8
<1>. HIDE DEF h
<1>11. /\ Maps(u, N, T, V) /\ u.buckets[h] = d /\ u.size = t.size + 1
       /\ Differ(t, u, h) /\ Typed(u, N, T, V)
  BY <1>0, <1>1, <1>3, <1>6, <1>7, <1>9, <1>10, RechainedMaps DEF Maps
<1>12. \E p : p \notin Places(t) /\ Places(u) = Places(t) \cup {p}
  <2>1. Len(u.buckets[h]) = Len(t.buckets[h]) + 1 BY <1>1, <1>7, <1>11
  <2>. QED BY <2>1, <1>0, <1>1, <1>11, PlaceMore
<1>13. Sound(u, N, T, V) BY <1>11, <1>12, FS_AddElement DEF Sound, Counted
<1>14. Chain(u, name) = d BY <1>11 DEF Chain, h
<1>15. Holds(u, name) /\ Lookup(u, name) = sym
  BY <1>1, <1>2, <1>7, <1>11, <1>14, HitAt
<1>16. Kept(c, d, name)
  <2>1. \A k \in DOMAIN c : k + 1 \in DOMAIN d /\ d[k + 1] = c[k] BY <1>1, <1>7
  <2>. QED BY <2>1 DEF Kept
<1>17. Kept(d, c, name) BY <1>2, <1>7, <1>8 DEF Kept
<1>18. \A n \in N \ {name} : SameAt(t, u, n)
  BY <1>0, <1>11, <1>14, <1>16, <1>17, SameElsewhere DEF h, c
<1>. QED BY <1>13, <1>15, <1>18 DEF u, sym

(* A chain without one of its symbols.                                     *)
LEMMA CutChain ==
    ASSUME NEW S, NEW c \in Seq(S), NEW i \in 1 .. Len(c)
    PROVE  /\ Cut(c, i) \in Seq(S) /\ Len(Cut(c, i)) = Len(c) - 1
           /\ \A k \in 1 .. Len(c) - 1 : Cut(c, i)[k] = c[IF k < i THEN k ELSE k + 1]
<1>. DEFINE a == SubSeq(c, 1, i - 1)
            b == SubSeq(c, i + 1, Len(c))
<1>1. Len(c) \in Nat /\ i \in Int OBVIOUS
<1>2. \A k \in 1 .. i - 1 : c[k] \in S BY <1>1, ElementOfSeq
<1>3. \A k \in i + 1 .. Len(c) : c[k] \in S BY <1>1, ElementOfSeq
<1>4. /\ a \in Seq(S) /\ Len(a) = i - 1 /\ \A k \in 1 .. i - 1 : a[k] = c[k]
  <2>1. 1 \in Int /\ i - 1 \in Int BY <1>1
  <2>. QED BY <2>1, <1>1, <1>2, SubSeqProperties
<1>5. /\ b \in Seq(S) /\ Len(b) = Len(c) - i
      /\ \A k \in 1 .. Len(c) - i : b[k] = c[k + i]
  <2>1. i + 1 \in Int /\ Len(c) \in Int BY <1>1
  <2>. QED BY <2>1, <1>1, <1>3, SubSeqProperties
<1>. HIDE DEF a, b
<1>6. /\ a \o b \in Seq(S) /\ Len(a \o b) = Len(a) + Len(b)
      /\ \A k \in 1 .. Len(a) + Len(b) : (a \o b)[k] = IF k <= Len(a) THEN a[k] ELSE b[k - Len(a)]
  BY <1>4, <1>5, ConcatProperties
<1>7. ASSUME NEW k \in 1 .. Len(c) - 1
      PROVE  (a \o b)[k] = c[IF k < i THEN k ELSE k + 1]
  <2>1. CASE k < i BY <2>1, <1>1, <1>4, <1>5, <1>6
  <2>2. CASE ~(k < i)
    <3>1. k - (i - 1) \in 1 .. Len(c) - i BY <2>2, <1>1
    <3>2. (a \o b)[k] = b[k - (i - 1)] BY <2>2, <1>1, <1>4, <1>5, <1>6
    <3>. QED BY <3>1, <3>2, <2>2, <1>1, <1>5
  <2>. QED BY <2>1, <2>2
<1>8. Cut(c, i) = a \o b BY DEF Cut, a, b
<1>9. Len(a) + Len(b) = Len(c) - 1 BY <1>1, <1>4, <1>5
<1>. QED BY <1>6, <1>7, <1>8, <1>9

(* st_insert: the table holds the name with what was handed over.          *)
LEMMA InsertMeans ==
    ASSUME NEW N, NEW T, NEW V, NEW t, Sound(t, N, T, V), NEW name \in N,
           NEW type \in T, NEW value \in V
    PROVE  LET u == st_insert(t, name, type, value)
           IN  /\ Sound(u, N, T, V)
               /\ Holds(u, name) /\ Lookup(u, name) = Symbol(name, type, value)
               /\ \A n \in N \ {name} : SameAt(t, u, n)
<1>1. CASE Holds(t, name)
  <2>1. Symbol(name, type, value) \in SymbolOf(N, T, V) /\ Symbol(name, type, value).name = name
    BY DEF Symbol, SymbolOf
  <2>2. st_insert(t, name, type, value) = Replace(t, name, Symbol(name, type, value))
    BY <1>1 DEF st_insert
  <2>. QED BY <1>1, <2>1, <2>2, ReplaceMeans
<1>2. CASE ~Holds(t, name) BY <1>2, LinkMeans
<1>. QED BY <1>1, <1>2

(* st_update: a name that is held gets the value and keeps its type.       *)
LEMMA UpdateMeans ==
    ASSUME NEW N, NEW T, NEW V, NEW t, Sound(t, N, T, V), NEW name \in N, NEW value \in V,
           Holds(t, name)
    PROVE  LET u == st_update(t, name, value)
           IN  /\ Sound(u, N, T, V)
               /\ Holds(u, name) /\ Lookup(u, name) = Symbol(name, Lookup(t, name).type, value)
               /\ \A n \in N \ {name} : SameAt(t, u, n)
<1>. DEFINE sym == [Lookup(t, name) EXCEPT !.value = value]
<1>1. Lookup(t, name) \in SymbolOf(N, T, V) /\ Lookup(t, name).name = name
  BY HeldAt DEF Sound
<1>2. /\ sym \in SymbolOf(N, T, V) /\ sym.name = name
      /\ sym = Symbol(name, Lookup(t, name).type, value)
  BY <1>1 DEF SymbolOf, Symbol
<1>3. st_update(t, name, value) = Replace(t, name, sym) BY DEF st_update
<1>. HIDE DEF sym
<1>. QED BY <1>2, <1>3, ReplaceMeans

(* st_remove: a name that is held is gone.                                 *)
LEMMA RemoveMeans ==
    ASSUME NEW N, NEW T, NEW V, NEW t, Sound(t, N, T, V), NEW name \in N, Holds(t, name)
    PROVE  LET u == st_remove(t, name)
           IN  /\ Sound(u, N, T, V)
               /\ ~Holds(u, name)
               /\ \A n \in N \ {name} : SameAt(t, u, n)
<1>. DEFINE h == hash[name]
            c == Chain(t, name)
            i == FirstHit(t, name)
            d == Cut(c, i)
            u == st_remove(t, name)
<1>0. Maps(t, N, T, V) /\ Typed(t, N, T, V) BY DEF Sound, Maps
<1>1. /\ h \in Buckets /\ c = t.buckets[h] /\ c \in Seq(SymbolOf(N, T, V))
      /\ DOMAIN c = 1 .. Len(c) /\ Len(c) \in Nat
  BY <1>0, ChainOf
<1>2. i \in DOMAIN c /\ c[i].name = name BY <1>0, HeldAt
<1>3. u = Rechained(t, h, d, t.size - 1) BY <1>0, RemoveForm
<1>5. Hashed(h, c) /\ NamesOnce(c) BY <1>0, <1>1 DEF Maps, Chained
<1>. HIDE DEF c, i
<1>7. /\ d \in Seq(SymbolOf(N, T, V)) /\ Len(d) = Len(c) - 1
      /\ \A k \in 1 .. Len(c) - 1 : d[k] = c[IF k < i THEN k ELSE k + 1]
  BY <1>1, <1>2, CutChain
<1>. HIDE DEF d, u, h
<1>8. DOMAIN d = 1 .. Len(c) - 1 BY <1>7
<1>. DEFINE Was(k) == IF k < i THEN k ELSE k + 1
<1>9. \A k \in DOMAIN d : Was(k) \in DOMAIN c /\ Was(k) # i /\ d[k] = c[Was(k)]
  BY <1>1, <1>2, <1>7, <1>8
<1>10. \A k, l \in DOMAIN d : Was(k) = Was(l) => k = l BY <1>1, <1>2, <1>8
<1>11. \A k \in DOMAIN c : k # i => \E l \in DOMAIN d : Was(l) = k
  <2>. SUFFICES ASSUME NEW k \in DOMAIN c, k # i PROVE \E l \in DOMAIN d : Was(l) = k
    OBVIOUS
  <2>1. CASE k < i
    <3>1. k \in DOMAIN d /\ Was(k) = k BY <2>1, <1>1, <1>2, <1>8
    <3>. QED BY <3>1
  <2>2. CASE ~(k < i)
    <3>1. k - 1 \in DOMAIN d /\ Was(k - 1) = k BY <2>2, <1>1, <1>2, <1>8
    <3>. QED BY <3>1
  <2>. QED BY <2>1, <2>2
<1>. HIDE DEF Was
<1>12. Hashed(h, d) BY <1>5, <1>9 DEF Hashed
<1>13. NamesOnce(d)
  <2>. SUFFICES ASSUME NEW k \in DOMAIN d, NEW l \in DOMAIN d, d[k].name = d[l].name PROVE k = l
    BY DEF NamesOnce
  <2>1. Was(k) = Was(l) BY <1>5, <1>9 DEF NamesOnce
  <2>. QED BY <2>1, <1>10
<1>14. t.size - 1 \in Nat /\ t.size \in Nat
  <2>1. t.size \in Nat BY <1>0 DEF Typed, TableOf
  <2>2. Places(t) # {} BY <1>0, PlaceHeld
  <2>3. t.size # 0 BY <2>2, FS_EmptySet DEF Sound, Counted
  <2>. QED BY <2>1, <2>3
<1>15. /\ Maps(u, N, T, V) /\ u.buckets[h] = d /\ u.size = t.size - 1
       /\ Differ(t, u, h) /\ Typed(u, N, T, V)
  BY <1>0, <1>1, <1>3, <1>7, <1>12, <1>13, <1>14, RechainedMaps DEF Maps
<1>16. \E p : p \in Places(t) /\ Places(u) = Places(t) \ {p}
  <2>1. Len(u.buckets[h]) = Len(t.buckets[h]) - 1 BY <1>1, <1>7, <1>15
  <2>. QED BY <2>1, <1>0, <1>1, <1>15, PlaceLess
<1>17. Sound(u, N, T, V) BY <1>15, <1>16, FS_RemoveElement DEF Sound, Counted
<1>18. Chain(u, name) = d /\ Chain(t, name) = c BY <1>15 DEF Chain, h, c
<1>19. \A k \in DOMAIN d : d[k].name # name BY <1>2, <1>5, <1>9 DEF NamesOnce
<1>20. ~Holds(u, name) BY <1>18, <1>19 DEF Holds, Hits
<1>21. Kept(c, d, name)
  <2>1. ASSUME NEW k \in DOMAIN c, c[k].name # name PROVE \E l \in DOMAIN d : d[l] = c[k]
    <3>1. PICK l \in DOMAIN d : Was(l) = k BY <2>1, <1>2, <1>11
    <3>. QED BY <3>1, <1>9
  <2>. QED BY <2>1 DEF Kept
<1>22. Kept(d, c, name) BY <1>9 DEF Kept
<1>23. Differ(t, u, hash[name]) BY <1>15 DEF h
<1>24. \A n \in N \ {name} : SameAt(t, u, n)
  BY <1>0, <1>15, <1>18, <1>21, <1>22, <1>23, SameElsewhere
<1>. QED BY <1>17, <1>20, <1>24 DEF u

(* st_create: a table that holds nothing.                                  *)
LEMMA CreateMeans ==
    ASSUME NEW N \in SUBSET Names, NEW T, NEW V
    PROVE  Sound(st_create, N, T, V) /\ \A n \in N : ~Holds(st_create, n)
<1>1. st_create.size = 0 /\ st_create.buckets = [b \in Buckets |-> <<>>] BY DEF st_create
<1>2. \A b \in Buckets : st_create.buckets[b] = <<>> /\ DOMAIN st_create.buckets[b] = {}
  BY <1>1
<1>3. <<>> \in Seq(SymbolOf(N, T, V)) BY EmptySeq
<1>4. st_create \in TableOf(N, T, V) BY <1>3 DEF st_create, TableOf
<1>5. Chained(st_create) BY <1>2 DEF Chained, Hashed, NamesOnce
<1>6. Places(st_create) = {} BY <1>2 DEF Places
<1>7. Counted(st_create) BY <1>1, <1>6, FS_EmptySet DEF Counted
<1>8. ASSUME NEW n \in N PROVE ~Holds(st_create, n)
  <2>1. hash[n] \in Buckets BY HashAssumption
  <2>. QED BY <2>1, <1>2 DEF Holds, Hits, Chain
<1>. QED BY <1>4, <1>5, <1>7, <1>8 DEF Sound, Maps, Typed

-----------------------------------------------------------------------------
(* The innermost of some tables is one of them.                            *)
LEMMA InnermostOf ==
    ASSUME NEW i \in Nat, NEW S, S \subseteq 1 .. i, S # {}
    PROVE  Innermost(S) \in S /\ \A k \in S : k <= Innermost(S)
<1>. DEFINE D == {i - k : k \in S}
<1>1. D \subseteq Nat /\ D # {}
  <2>1. \A k \in S : i - k \in Nat OBVIOUS
  <2>. QED BY <2>1
<1>2. PICK d \in D : \A e \in D : d <= e BY <1>1, LeastNumber
<1>3. PICK j \in S : d = i - j OBVIOUS
<1>4. \A k \in S : k <= j
  <2>1. \A k \in S : i - j <= i - k BY <1>2, <1>3
  <2>. QED BY <2>1
<1>. QED BY <1>4 DEF Innermost
=============================================================================
