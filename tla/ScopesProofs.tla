---------------------------- MODULE ScopesProofs ----------------------------
(***************************************************************************)
(* The symbol table keeps what symbol_table.h promises, whatever its       *)
(* client does: its types, its chains, the ownership of the values, and    *)
(* the refinement of the map of ScopeMap.                                  *)
(***************************************************************************)
EXTENDS Scopes, SymbolTableTheorems

-----------------------------------------------------------------------------
(* The inductive invariant: well-formed tables, and the nodes they hold.   *)
Own         == Values \cup {NullNode}
Good(table) == Sound(table, Symbols, Types, Own)

(* No table holds a freed node, none is held for two names, none is lost.  *)
Owning(seq, nodes) ==
    /\ \A v \in nodes : \E i \in DOMAIN seq, n \in Symbols : st_lookup(seq[i], n) = v
    /\ \A i \in DOMAIN seq, n \in Symbols :
          st_lookup(seq[i], n) # NullNode => st_lookup(seq[i], n) \in nodes
    /\ \A i, j \in DOMAIN seq, n, m \in Symbols :
          st_lookup(seq[i], n) # NullNode /\ st_lookup(seq[i], n) = st_lookup(seq[j], m)
          => i = j /\ n = m

IInv ==
    /\ tables \in Seq(Table) /\ Len(tables) <= MaxScopes
    /\ \A i \in DOMAIN tables : Good(tables[i])
    /\ live \subseteq Values
    /\ ret \in BOOLEAN
    /\ Owning(tables, live)

(* A good table is of the type of tables.                                  *)
LEMMA GoodIsTable ==
    ASSUME NEW t, Good(t)
    PROVE  t \in Table
BY DEF Good, Own, Sound, Maps, Typed, TableOf, SymbolOf, Table, SymbolType

(* What a lookup of a good table answers.                                  *)
LEMMA LookupType ==
    ASSUME NEW t, Good(t), NEW n \in Symbols
    PROVE  /\ st_lookup(t, n) \in Own
           /\ Holds(t, n) => Lookup(t, n) = Symbol(n, Lookup(t, n).type, st_lookup(t, n))
           /\ Holds(t, n) => Lookup(t, n).type \in Types
           /\ Holds(t, n) => st_lookup_type(t, n) = Found(Lookup(t, n).type)
           /\ ~Holds(t, n) => st_lookup_type(t, n) = NotFound /\ st_lookup(t, n) = NullNode
<1>1. ASSUME Holds(t, n)
      PROVE  Lookup(t, n).name = n /\ Lookup(t, n) \in SymbolOf(Symbols, Types, Own)
  BY <1>1, HeldAt DEF Good, Sound
<1>. QED BY <1>1 DEF st_lookup, st_lookup_type, SymbolOf, Symbol, Own

(* A table after a call that leaves a name with a value, or without a      *)
(* symbol: nothing else is changed.                                        *)
Becomes(t, u, name, value) ==
    /\ Good(u)
    /\ st_lookup(u, name) = value
    /\ \A n \in Symbols \ {name} : SameAt(t, u, n)

(* Tables that agree on a name answer alike for it.                        *)
LEMMA SameLookup ==
    ASSUME NEW t, NEW u, NEW n, SameAt(t, u, n)
    PROVE  st_lookup(u, n) = st_lookup(t, n) /\ st_lookup_type(u, n) = st_lookup_type(t, n)
BY DEF SameAt, st_lookup, st_lookup_type

(* st_insert binds the name to the value.                                  *)
LEMMA InsertBecomes ==
    ASSUME NEW t, Good(t), NEW name \in Symbols, NEW type \in Types, NEW value \in Own
    PROVE  Becomes(t, st_insert(t, name, type, value), name, value)
<1>. DEFINE u == st_insert(t, name, type, value)
<1>1. /\ Good(u) /\ Holds(u, name) /\ Lookup(u, name) = Symbol(name, type, value)
      /\ \A n \in Symbols \ {name} : SameAt(t, u, n)
  BY InsertMeans DEF Good
<1>. QED BY <1>1 DEF Becomes, st_lookup, Symbol

(* st_update binds it, too, if the name is there.                          *)
LEMMA UpdateBecomes ==
    ASSUME NEW t, Good(t), NEW name \in Symbols, NEW value \in Own, Holds(t, name)
    PROVE  Becomes(t, st_update(t, name, value), name, value)
<1>. DEFINE u == st_update(t, name, value)
<1>1. /\ Good(u) /\ Holds(u, name) /\ Lookup(u, name) = Symbol(name, Lookup(t, name).type, value)
      /\ \A n \in Symbols \ {name} : SameAt(t, u, n)
  BY UpdateMeans DEF Good
<1>. QED BY <1>1 DEF Becomes, st_lookup, Symbol

(* st_remove unbinds the name.                                             *)
LEMMA RemoveBecomes ==
    ASSUME NEW t, Good(t), NEW name \in Symbols
    PROVE  Becomes(t, st_remove(t, name), name, NullNode)
<1>. DEFINE u == st_remove(t, name)
<1>1. CASE Holds(t, name)
  <2>1. /\ Good(u) /\ ~Holds(u, name) /\ \A n \in Symbols \ {name} : SameAt(t, u, n)
    BY <1>1, RemoveMeans DEF Good
  <2>. QED BY <2>1 DEF Becomes, st_lookup
<1>2. CASE ~Holds(t, name)
  BY <1>2 DEF st_remove, Becomes, st_lookup, SameAt
<1>. QED BY <1>1, <1>2

(* A table is replaced by what it becomes, the old value is freed, and the *)
(* new one, which nobody owned, is taken over.                             *)
LEMMA OwnStep ==
    ASSUME IInv, NEW i \in DOMAIN tables, NEW name \in Symbols, NEW value \in Fresh, NEW u,
           Becomes(tables[i], u, name, value),
           NEW seq, seq = [tables EXCEPT ![i] = u],
           NEW nodes, nodes = Take(Freed(live, tables[i], name), value)
    PROVE  /\ seq \in Seq(Table) /\ Len(seq) = Len(tables)
           /\ \A j \in DOMAIN seq : Good(seq[j])
           /\ nodes \subseteq Values
           /\ Owning(seq, nodes)
<1>. DEFINE old == st_lookup(tables[i], name)
<1>1. /\ tables \in Seq(Table) /\ DOMAIN tables = 1 .. Len(tables)
      /\ \A j \in DOMAIN tables : Good(tables[j])
      /\ live \subseteq Values /\ Owning(tables, live)
  BY DEF IInv
<1>2. Good(u) /\ u \in Table BY GoodIsTable DEF Becomes
<1>3. /\ seq \in Seq(Table) /\ Len(seq) = Len(tables) /\ DOMAIN seq = DOMAIN tables
      /\ \A j \in DOMAIN tables : seq[j] = IF j = i THEN u ELSE tables[j]
  BY <1>1, <1>2, ExceptSeq
<1>4. \A j \in DOMAIN tables, n \in Symbols :
         st_lookup(seq[j], n) = IF j = i /\ n = name THEN value ELSE st_lookup(tables[j], n)
  <2>1. st_lookup(u, name) = value BY DEF Becomes
  <2>2. \A n \in Symbols \ {name} : st_lookup(u, n) = st_lookup(tables[i], n)
    BY SameLookup DEF Becomes
  <2>. QED BY <1>3, <2>1, <2>2
<1>5. nodes = (live \ {old}) \cup ({value} \ {NullNode}) BY DEF Take, Freed, ast_free
<1>6. NullNode \notin Values /\ value \in Own /\ value \notin live
  BY <1>1, ScopesAssumption DEF Fresh, Own
<1>7. nodes \subseteq Values BY <1>1, <1>5, <1>6 DEF Own
<1>. HIDE DEF old
<1>8. Owning(seq, nodes)
  <2>1. \A v \in nodes : \E j \in DOMAIN seq, n \in Symbols : st_lookup(seq[j], n) = v
    <3>. SUFFICES ASSUME NEW v \in nodes
                  PROVE  \E j \in DOMAIN seq, n \in Symbols : st_lookup(seq[j], n) = v
      OBVIOUS
    <3>1. CASE v = value
      <4>1. st_lookup(seq[i], name) = v BY <3>1, <1>4
      <4>. QED BY <4>1, <1>3
    <3>2. CASE v # value
      <4>1. v \in live /\ v # old BY <3>2, <1>5
      <4>2. PICK j \in DOMAIN tables, n \in Symbols : st_lookup(tables[j], n) = v
        BY <4>1, <1>1 DEF Owning
      <4>3. ~(j = i /\ n = name) BY <4>1, <4>2 DEF old
      <4>. QED BY <4>2, <4>3, <1>3, <1>4
    <3>. QED BY <3>1, <3>2
  <2>2. ASSUME NEW j \in DOMAIN seq, NEW n \in Symbols, st_lookup(seq[j], n) # NullNode
        PROVE  st_lookup(seq[j], n) \in nodes
    <3>1. CASE j = i /\ n = name BY <3>1, <2>2, <1>3, <1>4, <1>5
    <3>2. CASE ~(j = i /\ n = name)
      <4>1. st_lookup(seq[j], n) = st_lookup(tables[j], n) BY <3>2, <1>3, <1>4
      <4>2. st_lookup(tables[j], n) \in live BY <4>1, <2>2, <1>1, <1>3 DEF Owning
      <4>3. st_lookup(tables[j], n) # old
        BY <4>1, <3>2, <2>2, <1>1, <1>3 DEF Owning, old
      <4>. QED BY <4>1, <4>2, <4>3, <1>5
    <3>. QED BY <3>1, <3>2
  <2>3. ASSUME NEW j \in DOMAIN seq, NEW k \in DOMAIN seq, NEW n \in Symbols, NEW m \in Symbols,
               st_lookup(seq[j], n) # NullNode, st_lookup(seq[j], n) = st_lookup(seq[k], m)
        PROVE  j = k /\ n = m
    <3>1. CASE (j = i /\ n = name) /\ (k = i /\ m = name) BY <3>1
    <3>2. CASE (j = i /\ n = name) /\ ~(k = i /\ m = name)
      <4>1. st_lookup(tables[k], m) = value /\ value # NullNode BY <3>2, <2>3, <1>3, <1>4
      <4>2. value \in live BY <4>1, <1>1, <1>3 DEF Owning
      <4>. QED BY <4>2, <1>6
    <3>3. CASE ~(j = i /\ n = name) /\ (k = i /\ m = name)
      <4>1. st_lookup(tables[j], n) = value /\ value # NullNode BY <3>3, <2>3, <1>3, <1>4
      <4>2. value \in live BY <4>1, <1>1, <1>3 DEF Owning
      <4>. QED BY <4>2, <1>6
    <3>4. CASE ~(j = i /\ n = name) /\ ~(k = i /\ m = name)
      <4>1. /\ st_lookup(tables[j], n) # NullNode
            /\ st_lookup(tables[j], n) = st_lookup(tables[k], m)
        BY <3>4, <2>3, <1>3, <1>4
      <4>. QED BY <4>1, <1>1, <1>3 DEF Owning
    <3>. QED BY <3>1, <3>2, <3>3, <3>4
  <2>. QED BY <2>1, <2>2, <2>3 DEF Owning
<1>9. \A j \in DOMAIN seq : Good(seq[j]) BY <1>1, <1>2, <1>3
<1>. QED BY <1>3, <1>7, <1>8, <1>9

(* Nothing is taken over: a value that no table gets is that of nobody.    *)
LEMMA TakeNone ==
    ASSUME NEW nodes
    PROVE  Take(nodes, NullNode) = nodes
BY DEF Take

(* No value is a value that may be handed over.                            *)
LEMMA NullIsFresh == NullNode \in Fresh /\ NullNode \in Own /\ Fresh \subseteq Own
BY DEF Fresh, Own

-----------------------------------------------------------------------------
(* One step of the client at a time.                                       *)
LEMMA CreateKeeps ==
    ASSUME IInv, Create
    PROVE  IInv'
<1>. DEFINE n == Len(tables)
<1>1. /\ tables \in Seq(Table) /\ DOMAIN tables = 1 .. n /\ n \in Nat
      /\ \A i \in DOMAIN tables : Good(tables[i])
      /\ live \subseteq Values /\ Owning(tables, live)
  BY DEF IInv
<1>2. Good(st_create) /\ \A m \in Symbols : st_lookup(st_create, m) = NullNode
  BY CreateMeans, ScopesAssumption DEF Good, st_lookup
<1>3. st_create \in Table BY <1>2, GoodIsTable
<1>4. /\ tables' \in Seq(Table) /\ Len(tables') = n + 1 /\ DOMAIN tables' = 1 .. n + 1
      /\ \A i \in 1 .. n : tables'[i] = tables[i]
      /\ tables'[n + 1] = st_create
  BY <1>1, <1>3, AppendProperties DEF Create
<1>5. n < MaxScopes /\ MaxScopes \in Nat /\ live' = live /\ ret' = TRUE
  BY ScopesAssumption DEF Create
<1>. HIDE DEF n
<1>6. Len(tables') <= MaxScopes BY <1>1, <1>4, <1>5
<1>7. \A i \in DOMAIN tables' : i \in DOMAIN tables \/ i = n + 1 BY <1>1, <1>4
<1>8. \A i \in DOMAIN tables' : Good(tables'[i]) BY <1>1, <1>2, <1>4, <1>7
<1>9. Owning(tables', live')
  <2>1. \A i \in DOMAIN tables', m \in Symbols :
           st_lookup(tables'[i], m) # NullNode =>
              i \in DOMAIN tables /\ st_lookup(tables'[i], m) = st_lookup(tables[i], m)
    BY <1>1, <1>2, <1>4, <1>7
  <2>2. \A i \in DOMAIN tables : i \in DOMAIN tables' /\ tables'[i] = tables[i] BY <1>1, <1>4
  <2>3. \A v \in live' : \E i \in DOMAIN tables', m \in Symbols : st_lookup(tables'[i], m) = v
    BY <1>1, <1>5, <2>2 DEF Owning
  <2>4. \A i \in DOMAIN tables', m \in Symbols :
           st_lookup(tables'[i], m) # NullNode => st_lookup(tables'[i], m) \in live'
    BY <1>1, <1>5, <2>1 DEF Owning
  <2>5. ASSUME NEW i \in DOMAIN tables', NEW j \in DOMAIN tables', NEW k \in Symbols, NEW m \in Symbols,
               st_lookup(tables'[i], k) # NullNode,
               st_lookup(tables'[i], k) = st_lookup(tables'[j], m)
        PROVE  i = j /\ k = m
    BY <1>1, <2>1, <2>5 DEF Owning
  <2>. QED BY <2>3, <2>4, <2>5 DEF Owning
<1>. QED BY <1>1, <1>4, <1>5, <1>6, <1>8, <1>9 DEF IInv

(* What st_destroy frees is what the names of the table have.              *)
LEMMA ValuesOfTable ==
    ASSUME NEW t, Good(t), NEW v, v # NullNode
    PROVE  v \in ValuesOf(t) <=> \E n \in Symbols : st_lookup(t, n) = v
<1>0. Maps(t, Symbols, Types, Own) BY DEF Good, Sound
<1>1. Slots(t) = Places(t) BY DEF Slots, Places
<1>2. ASSUME NEW s \in Places(t)
      PROVE  \E n \in Symbols : ValueAt(t, s) = st_lookup(t, n)
  <2>. DEFINE sym == t.buckets[s[1]][s[2]]
  <2>1. sym \in SymbolOf(Symbols, Types, Own) /\ Holds(t, sym.name) /\ Lookup(t, sym.name) = sym
    BY <1>0, PlaceOf
  <2>2. sym.name \in Symbols /\ ValueAt(t, s) = sym.value BY <2>1 DEF SymbolOf, ValueAt
  <2>3. st_lookup(t, sym.name) = sym.value BY <2>1 DEF st_lookup
  <2>. QED BY <2>2, <2>3
<1>3. ASSUME NEW n \in Symbols, st_lookup(t, n) = v
      PROVE  \E s \in Places(t) : ValueAt(t, s) = v
  <2>1. Holds(t, n) /\ v = Lookup(t, n).value BY <1>3 DEF st_lookup
  <2>2. /\ <<hash[n], FirstHit(t, n)>> \in Places(t)
        /\ t.buckets[hash[n]][FirstHit(t, n)] = Lookup(t, n)
    BY <1>0, <2>1, PlaceHeld
  <2>. QED BY <2>1, <2>2 DEF ValueAt
<1>. QED BY <1>1, <1>2, <1>3 DEF ValuesOf

(* st_free of the innermost table.                                         *)
LEMMA DestroyKeeps ==
    ASSUME IInv, st_destroy
    PROVE  IInv'
<1>. DEFINE n == Len(tables)
<1>1. /\ tables \in Seq(Table) /\ DOMAIN tables = 1 .. n /\ n \in Nat
      /\ \A i \in DOMAIN tables : Good(tables[i])
      /\ live \subseteq Values /\ Owning(tables, live) /\ n <= MaxScopes
  BY DEF IInv
<1>2. tables # <<>> /\ tables' = SubSeq(tables, 1, n - 1) /\ ret' = TRUE
      /\ live' = live \ ValuesOf(tables[n])
  BY DEF st_destroy
<1>3. n > 0 BY <1>1, <1>2, EmptySeq
<1>4. /\ tables' \in Seq(Table) /\ Len(tables') = n - 1 /\ DOMAIN tables' = 1 .. n - 1
      /\ \A i \in 1 .. n - 1 : tables'[i] = tables[i]
  <2>1. \A i \in 1 .. n - 1 : tables[i] \in Table BY <1>1, ElementOfSeq
  <2>2. 1 \in Int /\ n - 1 \in Int BY <1>1
  <2>3. /\ tables' \in Seq(Table) /\ Len(tables') = IF 1 <= n - 1 THEN n - 1 - 1 + 1 ELSE 0
        /\ \A i \in 1 .. n - 1 - 1 + 1 : tables'[i] = tables[1 + i - 1]
    BY <2>1, <2>2, <1>2, SubSeqProperties
  <2>. HIDE DEF n
  <2>4. Len(tables') = n - 1 /\ n - 1 - 1 + 1 = n - 1
    <3>1. n \in Nat /\ n > 0 /\ Len(tables') = IF 1 <= n - 1 THEN n - 1 - 1 + 1 ELSE 0
      BY <2>3, <1>1, <1>3
    <3>. QED BY <3>1
  <2>5. DOMAIN tables' = 1 .. n - 1 BY <2>3, <2>4, LenProperties
  <2>. QED BY <2>3, <2>4, <2>5
<1>. HIDE DEF n
<1>5. n \in DOMAIN tables /\ n \notin DOMAIN tables' BY <1>1, <1>3, <1>4
<1>6. \A i \in DOMAIN tables' : i \in DOMAIN tables /\ tables'[i] = tables[i] BY <1>1, <1>3, <1>4
<1>7. \A i \in DOMAIN tables : i \in DOMAIN tables' \/ i = n BY <1>1, <1>3, <1>4
<1>8. NullNode \notin live BY <1>1, ScopesAssumption
<1>9. \A v \in live : v \in ValuesOf(tables[n]) <=> \E m \in Symbols : st_lookup(tables[n], m) = v
  BY <1>1, <1>5, <1>8, ValuesOfTable
<1>10. Owning(tables', live')
  <2>1. ASSUME NEW v \in live'
        PROVE  \E i \in DOMAIN tables', m \in Symbols : st_lookup(tables'[i], m) = v
    <3>1. v \in live /\ v \notin ValuesOf(tables[n]) BY <1>2, <2>1
    <3>2. PICK i \in DOMAIN tables, m \in Symbols : st_lookup(tables[i], m) = v
      BY <3>1, <1>1 DEF Owning
    <3>3. i # n BY <3>1, <3>2, <1>9
    <3>. QED BY <3>2, <3>3, <1>6, <1>7
  <2>2. ASSUME NEW i \in DOMAIN tables', NEW m \in Symbols, st_lookup(tables'[i], m) # NullNode
        PROVE  st_lookup(tables'[i], m) \in live'
    <3>. DEFINE v == st_lookup(tables[i], m)
    <3>1. i \in DOMAIN tables /\ i # n /\ st_lookup(tables'[i], m) = v BY <1>5, <1>6
    <3>2. v \in live BY <3>1, <2>2, <1>1 DEF Owning
    <3>3. \A k \in Symbols : st_lookup(tables[n], k) # v
      BY <3>1, <2>2, <1>1, <1>5 DEF Owning
    <3>. QED BY <3>1, <3>2, <3>3, <1>2, <1>9
  <2>3. ASSUME NEW i \in DOMAIN tables', NEW j \in DOMAIN tables', NEW k \in Symbols, NEW m \in Symbols,
               st_lookup(tables'[i], k) # NullNode,
               st_lookup(tables'[i], k) = st_lookup(tables'[j], m)
        PROVE  i = j /\ k = m
    BY <1>1, <1>6, <2>3 DEF Owning
  <2>. QED BY <2>1, <2>2, <2>3 DEF Owning
<1>11. \A i \in DOMAIN tables' : Good(tables'[i]) BY <1>1, <1>6
<1>12. Len(tables') <= MaxScopes BY <1>1, <1>4, ScopesAssumption
<1>. QED BY <1>1, <1>2, <1>4, <1>10, <1>11, <1>12 DEF IInv

(* st_insert.                                                              *)
LEMMA InsertKeeps ==
    ASSUME IInv, NEW i \in DOMAIN tables, NEW name \in Symbols, NEW type \in Types,
           NEW value \in Fresh, Insert(i, name, type, value)
    PROVE  IInv'
<1>. DEFINE u == st_insert(tables[i], name, type, value)
<1>1. Becomes(tables[i], u, name, value) BY NullIsFresh, InsertBecomes DEF IInv
<1>2. /\ tables' = [tables EXCEPT ![i] = u]
      /\ live' = Take(Freed(live, tables[i], name), value) /\ ret' = TRUE
  BY DEF Insert
<1>. HIDE DEF u
<1>. QED BY <1>1, <1>2, OwnStep DEF IInv

(* st_remove.                                                              *)
LEMMA RemoveKeeps ==
    ASSUME IInv, NEW i \in DOMAIN tables, NEW name \in Symbols, Remove(i, name)
    PROVE  IInv'
<1>. DEFINE u == st_remove(tables[i], name)
<1>1. Becomes(tables[i], u, name, NullNode) BY RemoveBecomes DEF IInv
<1>2. /\ tables' = [tables EXCEPT ![i] = u]
      /\ live' = Take(Freed(live, tables[i], name), NullNode)
      /\ ret' \in BOOLEAN
  BY TakeNone DEF Remove, Holds
<1>. HIDE DEF u
<1>. QED BY <1>1, <1>2, NullIsFresh, OwnStep DEF IInv

(* st_update.                                                              *)
LEMMA UpdateKeeps ==
    ASSUME IInv, NEW i \in DOMAIN tables, NEW name \in Symbols, NEW value \in Fresh,
           Update(i, name, value)
    PROVE  IInv'
<1>. DEFINE u == st_update(tables[i], name, value)
<1>1. CASE Holds(tables[i], name)
  <2>1. Becomes(tables[i], u, name, value) BY <1>1, NullIsFresh, UpdateBecomes DEF IInv
  <2>2. /\ tables' = [tables EXCEPT ![i] = u]
        /\ live' = Take(Freed(live, tables[i], name), value)
        /\ ret' \in BOOLEAN
    BY <1>1 DEF Update, Holds
  <2>. HIDE DEF u
  <2>. QED BY <2>1, <2>2, OwnStep DEF IInv
<1>2. CASE ~Holds(tables[i], name)
  <2>1. tables' = tables /\ live' = live /\ ret' \in BOOLEAN
    BY <1>2 DEF Update, st_update, IInv, Holds
  <2>. QED BY <2>1 DEF IInv, Owning
<1>. QED BY <1>1, <1>2

(* The table a recursive update stops at, if there is one.                 *)
LEMMA HolderOf ==
    ASSUME IInv, NEW i \in DOMAIN tables, NEW name \in Symbols, Holders(tables, i, name) # {}
    PROVE  LET j == Innermost(Holders(tables, i, name))
           IN  /\ j \in 1 .. i /\ j \in DOMAIN tables /\ Holds(tables[j], name)
               /\ \A k \in Holders(tables, i, name) : k <= j
<1>1. DOMAIN tables = 1 .. Len(tables) /\ Len(tables) \in Nat BY DEF IInv
<1>2. Holders(tables, i, name) \subseteq 1 .. i /\ i \in Nat BY <1>1 DEF Holders
<1>3. /\ Innermost(Holders(tables, i, name)) \in Holders(tables, i, name)
      /\ \A k \in Holders(tables, i, name) : k <= Innermost(Holders(tables, i, name))
  BY <1>2, InnermostOf
<1>. QED BY <1>1, <1>3 DEF Holders

(* st_update_recursive.                                                    *)
LEMMA UpdateRecursiveKeeps ==
    ASSUME IInv, NEW i \in DOMAIN tables, NEW name \in Symbols, NEW value \in Fresh,
           UpdateRecursive(i, name, value)
    PROVE  IInv'
<1>. DEFINE hits == Holders(tables, i, name)
            j == Innermost(hits)
            u == st_update(tables[j], name, value)
<1>1. CASE hits # {}
  <2>1. j \in DOMAIN tables /\ Holds(tables[j], name) BY <1>1, HolderOf
  <2>2. Becomes(tables[j], u, name, value) BY <2>1, NullIsFresh, UpdateBecomes DEF IInv
  <2>3. /\ tables' = [tables EXCEPT ![j] = u]
        /\ live' = Take(Freed(live, tables[j], name), value)
        /\ ret' \in BOOLEAN
    BY <1>1, <2>1 DEF UpdateRecursive, st_update_recursive
  <2>. HIDE DEF u, j, hits
  <2>. QED BY <2>1, <2>2, <2>3, OwnStep DEF IInv
<1>2. CASE hits = {}
  <2>1. tables' = tables /\ live' = live /\ ret' \in BOOLEAN
    BY <1>2 DEF UpdateRecursive, st_update_recursive
  <2>. QED BY <2>1 DEF IInv, Owning
<1>. QED BY <1>1, <1>2

(* The first table is good and owns nothing.                               *)
LEMMA InitIInv == Init => IInv
<1>. SUFFICES ASSUME Init PROVE IInv
  OBVIOUS
<1>1. tables = <<>> /\ live = {} /\ ret = TRUE BY DEF Init
<1>2. tables \in Seq(Table) /\ Len(tables) = 0 /\ DOMAIN tables = {} BY <1>1, EmptySeq
<1>3. Len(tables) <= MaxScopes BY <1>2, ScopesAssumption
<1>. QED BY <1>1, <1>2, <1>3 DEF IInv, Owning

(* Every call keeps the tables good and the values owned.                  *)
LEMMA NextIInv == IInv /\ [Next]_vars => IInv'
<1>. SUFFICES ASSUME IInv, [Next]_vars PROVE IInv'
  OBVIOUS
<1>1. CASE Create BY <1>1, CreateKeeps
<1>2. CASE st_destroy BY <1>2, DestroyKeeps
<1>3. ASSUME NEW i \in DOMAIN tables, NEW name \in Symbols, Remove(i, name) PROVE IInv'
  BY <1>3, RemoveKeeps
<1>4. ASSUME NEW i \in DOMAIN tables, NEW name \in Symbols, NEW value \in Fresh,
             Update(i, name, value)
      PROVE  IInv'
  BY <1>4, UpdateKeeps
<1>5. ASSUME NEW i \in DOMAIN tables, NEW name \in Symbols, NEW value \in Fresh,
             UpdateRecursive(i, name, value)
      PROVE  IInv'
  BY <1>5, UpdateRecursiveKeeps
<1>6. ASSUME NEW i \in DOMAIN tables, NEW name \in Symbols, NEW type \in Types,
             NEW value \in Fresh, Insert(i, name, type, value)
      PROVE  IInv'
  BY <1>6, InsertKeeps
<1>7. CASE UNCHANGED vars BY <1>7 DEF vars, IInv, Owning
<1>. QED BY <1>1, <1>2, <1>3, <1>4, <1>5, <1>6, <1>7 DEF Next

(* The inductive invariant.                                                *)
LEMMA Invariant == Spec => []IInv
BY InitIInv, NextIInv, PTL DEF Spec

-----------------------------------------------------------------------------
(* The tables, the chains and the nodes are of their types, whatever the   *)
(* client calls.                                                           *)
THEOREM TypeCorrect == Spec => []TypeOK
<1>1. IInv => TypeOK BY DEF IInv, TypeOK
<1>. QED BY Invariant, <1>1, PTL

(* st_insert, st_remove and st_update keep the chains of every table maps: *)
(* a name is in the chain of its hash and in it once, and size counts.     *)
THEOREM ChainsCorrect == Spec => []ChainsAreMaps
<1>1. ASSUME IInv, NEW i \in DOMAIN tables
      PROVE  LET table == tables[i]
                 NameAt(slot) == table.buckets[slot[1]][slot[2]].name
             IN  /\ \A slot \in Slots(table) : hash[NameAt(slot)] = slot[1]
                 /\ \A s, t \in Slots(table) : NameAt(s) = NameAt(t) => s = t
                 /\ table.size = Cardinality(Slots(table))
  <2>. DEFINE table == tables[i]
              NameAt(slot) == table.buckets[slot[1]][slot[2]].name
  <2>1. Maps(table, Symbols, Types, Own) /\ Counted(table) BY <1>1 DEF IInv, Good, Sound
  <2>2. Slots(table) = Places(table) BY DEF Slots, Places
  <2>3. \A s \in Places(table) : s = <<hash[NameAt(s)], s[2]>> /\ FirstHit(table, NameAt(s)) = s[2]
    BY <2>1, PlaceOf
  <2>. HIDE DEF table, NameAt
  <2>4. \A s \in Slots(table) : hash[NameAt(s)] = s[1] BY <2>2, <2>3
  <2>5. ASSUME NEW s \in Slots(table), NEW t \in Slots(table), NameAt(s) = NameAt(t)
        PROVE  s = t
    BY <2>2, <2>3, <2>5
  <2>6. table.size = Cardinality(Slots(table)) BY <2>1, <2>2 DEF Counted
  <2>. QED BY <2>4, <2>5, <2>6 DEF table, NameAt
<1>2. IInv => ChainsAreMaps BY <1>1 DEF ChainsAreMaps
<1>. QED BY Invariant, <1>2, PTL

(* A node is held by one symbol of one table or by none, and it is freed   *)
(* exactly when nobody holds it: no double free, no leak, no dangling one. *)
THEOREM OwnershipCorrect == Spec => []OwnedOnce
<1>1. ASSUME IInv PROVE OwnedOnce
  <2>. DEFINE Held(a)  == ValueAt(tables[a[1]], a[2])
              Holding  == {a \in AllSlots : Held(a) # NullNode}
  <2>1. /\ \A i \in DOMAIN tables : Maps(tables[i], Symbols, Types, Own)
        /\ Owning(tables, live) /\ live \subseteq Values
    BY <1>1 DEF IInv, Good, Sound
  <2>2. \A a \in AllSlots : \E i \in DOMAIN tables : \E s \in Places(tables[i]) : a = <<i, s>>
    BY DEF AllSlots, Slots, Places
  <2>3. ASSUME NEW i \in DOMAIN tables, NEW s \in Places(tables[i])
        PROVE  \E n \in Symbols :
                  /\ s = <<hash[n], FirstHit(tables[i], n)>>
                  /\ ValueAt(tables[i], s) = st_lookup(tables[i], n)
    <3>. DEFINE sym == tables[i].buckets[s[1]][s[2]]
    <3>1. /\ sym \in SymbolOf(Symbols, Types, Own) /\ s = <<hash[sym.name], s[2]>>
          /\ Holds(tables[i], sym.name) /\ Lookup(tables[i], sym.name) = sym
          /\ FirstHit(tables[i], sym.name) = s[2]
      BY <2>1, PlaceOf
    <3>2. sym.name \in Symbols BY <3>1 DEF SymbolOf
    <3>3. ValueAt(tables[i], s) = st_lookup(tables[i], sym.name)
      BY <3>1 DEF ValueAt, st_lookup
    <3>. HIDE DEF sym
    <3>. QED BY <3>1, <3>2, <3>3
  <2>4. ASSUME NEW v \in live PROVE \E a \in Holding : Held(a) = v
    <3>1. PICK i \in DOMAIN tables, n \in Symbols : st_lookup(tables[i], n) = v
      BY <2>1 DEF Owning
    <3>2. v # NullNode BY <2>1, ScopesAssumption
    <3>3. Holds(tables[i], n) /\ v = Lookup(tables[i], n).value BY <3>1, <3>2 DEF st_lookup
    <3>. DEFINE s == <<hash[n], FirstHit(tables[i], n)>>
    <3>4. s \in Places(tables[i]) /\ tables[i].buckets[hash[n]][FirstHit(tables[i], n)] = Lookup(tables[i], n)
      BY <2>1, <3>3, PlaceHeld
    <3>5. <<i, s>> \in AllSlots
      <4>1. s \in Slots(tables[i]) BY <3>4 DEF Slots, Places
      <4>2. <<i, s>> \in {<<i, slot>> : slot \in Slots(tables[i])} BY <4>1
      <4>. HIDE DEF s
      <4>. QED BY <4>2 DEF AllSlots
    <3>6. Held(<<i, s>>) = v BY <3>3, <3>4 DEF ValueAt
    <3>. QED BY <3>2, <3>5, <3>6
  <2>5. ASSUME NEW a \in Holding PROVE Held(a) \in live
    <3>1. PICK i \in DOMAIN tables : \E s \in Places(tables[i]) : a = <<i, s>> BY <2>2
    <3>2. PICK s \in Places(tables[i]) : a = <<i, s>> BY <3>1
    <3>3. PICK n \in Symbols : Held(a) = st_lookup(tables[i], n) BY <2>3, <3>2
    <3>. QED BY <3>3, <2>1 DEF Owning
  <2>6. ASSUME NEW a \in Holding, NEW b \in Holding, Held(a) = Held(b) PROVE a = b
    <3>1. PICK i \in DOMAIN tables : \E s \in Places(tables[i]) : a = <<i, s>> BY <2>2
    <3>2. PICK s \in Places(tables[i]) : a = <<i, s>> BY <3>1
    <3>3. PICK j \in DOMAIN tables : \E t \in Places(tables[j]) : b = <<j, t>> BY <2>2
    <3>4. PICK t \in Places(tables[j]) : b = <<j, t>> BY <3>3
    <3>5. PICK n \in Symbols : /\ s = <<hash[n], FirstHit(tables[i], n)>>
                               /\ Held(a) = st_lookup(tables[i], n)
      BY <2>3, <3>2
    <3>6. PICK m \in Symbols : /\ t = <<hash[m], FirstHit(tables[j], m)>>
                               /\ Held(b) = st_lookup(tables[j], m)
      BY <2>3, <3>4
    <3>7. i = j /\ n = m
      <4>1. st_lookup(tables[i], n) # NullNode BY <3>5
      <4>2. st_lookup(tables[i], n) = st_lookup(tables[j], m) BY <3>5, <3>6, <2>6
      <4>. QED BY <4>1, <4>2, <2>1 DEF Owning
    <3>. QED BY <3>2, <3>4, <3>5, <3>6, <3>7
  <2>7. live = {Held(a) : a \in Holding} BY <2>4, <2>5
  <2>. QED BY <2>6, <2>7 DEF OwnedOnce
<1>. QED BY Invariant, <1>1, PTL

-----------------------------------------------------------------------------
(* The map a table stands for.                                             *)
LEMMA ScopeOf ==
    ASSUME NEW t, Good(t)
    PROVE  /\ DOMAIN Scope(t) = {n \in Symbols : Holds(t, n)}
           /\ \A n \in Symbols : n \in DOMAIN Scope(t) <=> Holds(t, n)
           /\ \A n \in DOMAIN Scope(t) :
                 Scope(t)[n] = [type |-> Lookup(t, n).type, value |-> st_lookup(t, n)]
           /\ Scope(t) = [n \in DOMAIN Scope(t) |-> Scope(t)[n]]
<1>1. \A n \in Symbols : st_lookup_type(t, n).found <=> Holds(t, n)
  BY DEF st_lookup_type, Found, NotFound
<1>2. \A n \in Symbols : Holds(t, n) => st_lookup_type(t, n).type = Lookup(t, n).type
  BY DEF st_lookup_type, Found
<1>. QED BY <1>1, <1>2 DEF Scope

(* The scopes are those of the tables, one by one.                         *)
LEMMA ScopesAre ==
    /\ DOMAIN ScopesOf(tables) = DOMAIN tables
    /\ \A i \in DOMAIN tables : ScopesOf(tables)[i] = Scope(tables[i])
BY DEF ScopesOf

(* The scope a name resolves to is the table the recursive search stops at.*)
LEMMA ResolveIs ==
    ASSUME IInv, NEW i \in DOMAIN tables, NEW name \in Symbols
    PROVE  /\ Holders(tables, i, name) = {} => Map!Resolve(i, name) = 0
           /\ Holders(tables, i, name) # {} =>
                 Map!Resolve(i, name) = Innermost(Holders(tables, i, name))
<1>. DEFINE S == {j \in 1 .. i : name \in DOMAIN ScopesOf(tables)[j]}
<1>1. DOMAIN tables = 1 .. Len(tables) /\ Len(tables) \in Nat BY DEF IInv
<1>2. \A j \in 1 .. i : j \in DOMAIN tables /\ Good(tables[j]) BY <1>1 DEF IInv
<1>3. \A j \in 1 .. i : name \in DOMAIN ScopesOf(tables)[j] <=> Holds(tables[j], name)
  BY <1>2, ScopesAre, ScopeOf
<1>4. S = Holders(tables, i, name) BY <1>3 DEF Holders
<1>5. Map!Resolve(i, name) = IF S = {} THEN 0 ELSE CHOOSE j \in S : \A k \in S : k <= j
  BY DEF Map!Resolve
<1>. HIDE DEF S
<1>. QED BY <1>4, <1>5 DEF Innermost

(* The two recursive searches stop at one symbol, that of the innermost    *)
(* scope that binds the name, unless it has no value.                      *)
THEOREM SearchesCorrect == Spec => []SearchesAgree
<1>1. ASSUME IInv, NEW i \in DOMAIN tables, NEW name \in Symbols
      PROVE  LET j == Map!Resolve(i, name)
                 type  == st_lookup_type_recursive(tables, i, name)
                 value == st_lookup_recursive(tables, i, name)
             IN  IF j = 0 THEN type = NotFound /\ value = NullNode
                 ELSE /\ type = st_lookup_type(tables[j], name)
                      /\ \/ value = st_lookup(tables[j], name)
                         \/ /\ st_lookup(tables[j], name) = NullNode
                            /\ j > 1 /\ value = st_lookup_recursive(tables, j - 1, name)
  <2>. DEFINE hits   == Holders(tables, i, name)
              Vals(m) == {k \in 1 .. m : st_lookup(tables[k], name) # NullNode}
              j      == Innermost(hits)
  <2>1. DOMAIN tables = 1 .. Len(tables) /\ Len(tables) \in Nat /\ i \in Nat BY <1>1 DEF IInv
  <2>2. \A k \in 1 .. i : st_lookup(tables[k], name) # NullNode => Holds(tables[k], name)
    BY DEF st_lookup
  <2>3. Vals(i) \subseteq hits BY <2>2 DEF Holders
  <2>4. \A m : st_lookup_recursive(tables, m, name) =
                  IF Vals(m) = {} THEN NullNode ELSE st_lookup(tables[Innermost(Vals(m))], name)
    BY DEF st_lookup_recursive
  <2>5. st_lookup_type_recursive(tables, i, name) =
           IF hits = {} THEN NotFound ELSE st_lookup_type(tables[j], name)
    BY DEF st_lookup_type_recursive
  <2>6. CASE hits = {}
    <3>1. Map!Resolve(i, name) = 0 BY <1>1, <2>6, ResolveIs
    <3>2. Vals(i) = {} BY <2>3, <2>6
    <3>. HIDE DEF hits, Vals, j
    <3>. QED BY <3>1, <3>2, <2>4, <2>5, <2>6
  <2>7. CASE hits # {}
    <3>1. Map!Resolve(i, name) = j BY <1>1, <2>7, ResolveIs
    <3>2. j \in 1 .. i /\ \A k \in hits : k <= j BY <1>1, <2>7, HolderOf
    <3>3. CASE st_lookup(tables[j], name) # NullNode
      <4>1. j \in Vals(i) BY <3>2, <3>3
      <4>. HIDE DEF hits, j
      <4>2. \A k \in Vals(i) : k <= j BY <2>3, <3>2
      <4>3. \A k \in Vals(i) : k \in Int BY <2>1
      <4>. HIDE DEF Vals
      <4>4. Innermost(Vals(i)) \in Vals(i) /\ \A k \in Vals(i) : k <= Innermost(Vals(i))
        BY <4>1, <4>2 DEF Innermost
      <4>5. Innermost(Vals(i)) = j BY <4>1, <4>2, <4>3, <4>4
      <4>6. st_lookup_recursive(tables, i, name) = st_lookup(tables[j], name)
        BY <4>1, <4>5, <2>4
      <4>. QED BY <3>1, <3>2, <4>6, <2>5, <2>7
    <3>4. CASE st_lookup(tables[j], name) = NullNode
      <4>. HIDE DEF hits, j
      <4>1. Vals(i) = Vals(j - 1)
        <5>1. \A k \in Vals(i) : k <= j /\ k # j /\ k \in 1 .. i BY <2>3, <3>2, <3>4
        <5>2. \A k \in Vals(i) : k \in 1 .. j - 1 BY <5>1, <2>1, <3>2
        <5>3. \A k \in 1 .. j - 1 : k \in 1 .. i BY <2>1, <3>2
        <5>. QED BY <5>2, <5>3
      <4>2. j = 1 => Vals(i) = {} BY <4>1
      <4>. HIDE DEF Vals
      <4>3. st_lookup_recursive(tables, i, name) = st_lookup_recursive(tables, j - 1, name)
        BY <4>1, <2>4
      <4>4. j = 1 => st_lookup_recursive(tables, i, name) = NullNode BY <4>2, <2>4
      <4>5. j > 1 \/ j = 1 BY <2>1, <3>2
      <4>6. Map!Resolve(i, name) = j /\ j # 0 BY <3>1, <3>2
      <4>. QED BY <4>3, <4>4, <4>5, <4>6, <3>4, <2>5, <2>7
    <3>. QED BY <3>3, <3>4
  <2>. QED BY <2>6, <2>7
<1>2. IInv => SearchesAgree BY <1>1 DEF SearchesAgree
<1>. QED BY Invariant, <1>2, PTL

-----------------------------------------------------------------------------
(* The refinement: what a call does to a table is what its map does.       *)
LEMMA BindScope ==
    ASSUME NEW t, Good(t), NEW u, Good(u), NEW name \in Symbols, NEW type, NEW value,
           Holds(u, name), Lookup(u, name) = Symbol(name, type, value),
           \A n \in Symbols \ {name} : SameAt(t, u, n)
    PROVE  Scope(u) = Map!With(Scope(t), name, type, value)
<1>. DEFINE w == Map!With(Scope(t), name, type, value)
<1>1. w = [n \in DOMAIN Scope(t) \cup {name} |->
             IF n = name THEN [type |-> type, value |-> value] ELSE Scope(t)[n]]
  BY DEF Map!With
<1>2. DOMAIN Scope(u) = DOMAIN Scope(t) \cup {name}
  BY ScopeOf DEF SameAt
<1>3. ASSUME NEW n \in DOMAIN Scope(u)
      PROVE  Scope(u)[n] = IF n = name THEN [type |-> type, value |-> value] ELSE Scope(t)[n]
  <2>1. Scope(u)[n] = [type |-> Lookup(u, n).type, value |-> st_lookup(u, n)]
        /\ n \in Symbols /\ Holds(u, n)
    BY ScopeOf
  <2>2. CASE n = name
    BY <2>1, <2>2 DEF st_lookup, Symbol
  <2>3. CASE n # name
    <3>1. SameAt(t, u, n) BY <2>1, <2>3
    <3>2. Lookup(u, n) = Lookup(t, n) /\ st_lookup(u, n) = st_lookup(t, n)
      BY <3>1, <2>1, SameLookup DEF SameAt
    <3>3. n \in DOMAIN Scope(t) BY <3>1, <2>1, ScopeOf DEF SameAt
    <3>4. Scope(t)[n] = [type |-> Lookup(t, n).type, value |-> st_lookup(t, n)]
      BY <3>3, ScopeOf
    <3>. QED BY <2>1, <2>3, <3>2, <3>4
  <2>. QED BY <2>2, <2>3
<1>4. Scope(u) = [n \in DOMAIN Scope(u) |-> Scope(u)[n]] BY ScopeOf
<1>. HIDE DEF w
<1>. QED BY <1>1, <1>2, <1>3, <1>4 DEF w

(* A scope without a name.                                                 *)
LEMMA UnbindScope ==
    ASSUME NEW t, Good(t), NEW u, Good(u), NEW name \in Symbols, ~Holds(u, name),
           \A n \in Symbols \ {name} : SameAt(t, u, n)
    PROVE  Scope(u) = Map!Without(Scope(t), name)
<1>1. Map!Without(Scope(t), name) = [n \in DOMAIN Scope(t) \ {name} |-> Scope(t)[n]]
  BY DEF Map!Without
<1>2. DOMAIN Scope(u) = DOMAIN Scope(t) \ {name}
  BY ScopeOf DEF SameAt
<1>3. ASSUME NEW n \in DOMAIN Scope(u)
      PROVE  Scope(u)[n] = Scope(t)[n]
  <2>1. /\ Scope(u)[n] = [type |-> Lookup(u, n).type, value |-> st_lookup(u, n)]
        /\ n \in Symbols /\ Holds(u, n) /\ n # name /\ n \in DOMAIN Scope(t)
    BY <1>2, ScopeOf
  <2>2. SameAt(t, u, n) BY <2>1
  <2>3. Lookup(u, n) = Lookup(t, n) /\ st_lookup(u, n) = st_lookup(t, n)
    BY <2>1, <2>2, SameLookup DEF SameAt
  <2>4. Scope(t)[n] = [type |-> Lookup(t, n).type, value |-> st_lookup(t, n)]
    BY <2>1, ScopeOf
  <2>. QED BY <2>1, <2>3, <2>4
<1>4. Scope(u) = [n \in DOMAIN Scope(u) |-> Scope(u)[n]] BY ScopeOf
<1>. QED BY <1>1, <1>2, <1>3, <1>4

(* A changed table is a changed scope, and what is freed with a name is    *)
(* what its scope owned for it.                                            *)
LEMMA ScopeChanged ==
    ASSUME NEW i \in DOMAIN tables, NEW u, tables' = [tables EXCEPT ![i] = u]
    PROVE  ScopesOf(tables)' = [ScopesOf(tables) EXCEPT ![i] = Scope(u)]
<1>1. DOMAIN tables' = DOMAIN tables /\ \A j \in DOMAIN tables : tables'[j] = IF j = i THEN u ELSE tables[j]
  OBVIOUS
<1>. QED BY <1>1 DEF ScopesOf

(* What a call frees is what the scope owned.                              *)
LEMMA FreedIsOwned ==
    ASSUME IInv, NEW i \in DOMAIN tables, NEW name \in Symbols
    PROVE  Freed(live, tables[i], name) = live \ Map!Owned(Scope(tables[i]), name)
<1>1. Good(tables[i]) /\ NullNode \notin live BY ScopesAssumption DEF IInv
<1>2. CASE Holds(tables[i], name)
  <2>1. name \in DOMAIN Scope(tables[i]) BY <1>1, <1>2, ScopeOf
  <2>2. Scope(tables[i])[name] =
           [type |-> Lookup(tables[i], name).type, value |-> st_lookup(tables[i], name)]
    BY <1>1, <2>1, ScopeOf
  <2>3. Scope(tables[i])[name].value = st_lookup(tables[i], name) BY <2>2
  <2>. QED BY <1>1, <2>1, <2>3 DEF Freed, ast_free, Map!Owned
<1>3. CASE ~Holds(tables[i], name)
  <2>1. name \notin DOMAIN Scope(tables[i]) /\ st_lookup(tables[i], name) = NullNode
    BY <1>1, <1>3, ScopeOf DEF st_lookup
  <2>. QED BY <1>1, <2>1 DEF Freed, ast_free, Map!Owned
<1>. QED BY <1>2, <1>3

(* Binding a name in one table is binding it in its scope.                 *)
LEMMA BindStep ==
    ASSUME IInv, NEW i \in DOMAIN tables, NEW name \in Symbols, NEW type, NEW value, NEW u, Good(u),
           Holds(u, name), Lookup(u, name) = Symbol(name, type, value),
           \A n \in Symbols \ {name} : SameAt(tables[i], u, n),
           tables' = [tables EXCEPT ![i] = u],
           live' = Take(Freed(live, tables[i], name), value), ret' = TRUE
    PROVE  Map!Bind(i, name, type, value)
<1>1. Scope(u) = Map!With(Scope(tables[i]), name, type, value)
  BY BindScope DEF IInv
<1>2. ScopesOf(tables)' = [ScopesOf(tables) EXCEPT ![i] = Map!With(@, name, type, value)]
  BY <1>1, ScopeChanged, ScopesAre
<1>3. live' = (live \ Map!Owned(ScopesOf(tables)[i], name)) \cup ({value} \ {NullNode})
  BY FreedIsOwned, ScopesAre DEF Take
<1>. QED BY <1>2, <1>3 DEF Map!Bind

(* An update binds the name to its old type.                               *)
LEMMA RebindStep ==
    ASSUME IInv, NEW i \in DOMAIN tables, NEW name \in Symbols, NEW value \in Own,
           Holds(tables[i], name),
           tables' = [tables EXCEPT ![i] = st_update(tables[i], name, value)],
           live' = Take(Freed(live, tables[i], name), value), ret' = TRUE
    PROVE  Map!Rebind(i, name, value)
<1>. DEFINE u    == st_update(tables[i], name, value)
            type == Lookup(tables[i], name).type
<1>1. Good(tables[i]) BY DEF IInv
<1>2. /\ Good(u) /\ Holds(u, name) /\ Lookup(u, name) = Symbol(name, type, value)
      /\ \A n \in Symbols \ {name} : SameAt(tables[i], u, n)
  BY <1>1, UpdateMeans DEF Good
<1>3. Map!Bind(i, name, type, value) BY <1>2, BindStep
<1>4. name \in DOMAIN ScopesOf(tables)[i] /\ ScopesOf(tables)[i][name].type = type
  <2>1. name \in DOMAIN Scope(tables[i]) BY <1>1, ScopeOf
  <2>2. Scope(tables[i])[name] = [type |-> type, value |-> st_lookup(tables[i], name)]
    BY <1>1, <2>1, ScopeOf
  <2>3. Scope(tables[i])[name].type = type BY <2>2
  <2>. QED BY <2>1, <2>3, ScopesAre
<1>. QED BY <1>3, <1>4 DEF Map!Rebind

(* An operation that does not find its name.                               *)
LEMMA RefuseStep ==
    ASSUME IInv, NEW i \in DOMAIN tables, NEW name \in Symbols, ~Holds(tables[i], name),
           UNCHANGED <<tables, live>>, ret' = FALSE
    PROVE  Map!Refuse
<1>1. i \in DOMAIN ScopesOf(tables) /\ name \notin DOMAIN ScopesOf(tables)[i]
  BY ScopesAre, ScopeOf DEF IInv
<1>2. ScopesOf(tables)' = ScopesOf(tables) BY DEF ScopesOf
<1>. QED BY <1>1, <1>2 DEF Map!Refuse

(* Both name the same fresh values.                                        *)
LEMMA FreshIs == Map!Fresh = Fresh
BY DEF Map!Fresh, Fresh

(* The scopes of a sequence of tables.                                     *)
LEMMA ScopesSeq ==
    ASSUME NEW S, NEW seq \in Seq(S)
    PROVE  LET T == {Scope(t) : t \in S}
           IN  ScopesOf(seq) \in Seq(T) /\ Len(ScopesOf(seq)) = Len(seq)
<1>1. DOMAIN seq = 1 .. Len(seq) /\ Len(seq) \in Nat /\ \A i \in 1 .. Len(seq) : seq[i] \in S
  BY ElementOfSeq
<1>. DEFINE T == {Scope(t) : t \in S}
<1>2. ScopesOf(seq) = [i \in 1 .. Len(seq) |-> Scope(seq[i])] BY <1>1 DEF ScopesOf
<1>3. \A i \in 1 .. Len(seq) : Scope(seq[i]) \in T BY <1>1
<1>. HIDE DEF T
<1>4. ScopesOf(seq) \in [1 .. Len(seq) -> T] BY <1>2, <1>3
<1>5. ScopesOf(seq) \in Seq(T) BY <1>1, <1>4, SeqDef
<1>6. Len(ScopesOf(seq)) = Len(seq)
  <2>1. DOMAIN ScopesOf(seq) = 1 .. Len(ScopesOf(seq)) /\ Len(ScopesOf(seq)) \in Nat
    BY <1>5, LenProperties
  <2>2. DOMAIN ScopesOf(seq) = 1 .. Len(seq) BY <1>2
  <2>. DEFINE m == Len(ScopesOf(seq))
              n == Len(seq)
  <2>3. m \in Nat /\ n \in Nat /\ 1 .. m = 1 .. n BY <2>1, <2>2, <1>1
  <2>. HIDE DEF m, n
  <2>4. (m > 0 => m \in 1 .. n) /\ (n > 0 => n \in 1 .. m)
    <3>1. m > 0 => m \in 1 .. m BY <2>3
    <3>2. n > 0 => n \in 1 .. n BY <2>3
    <3>. QED BY <3>1, <3>2, <2>3
  <2>5. m = n BY <2>3, <2>4
  <2>. QED BY <2>5 DEF m, n
<1>. QED BY <1>5, <1>6 DEF T

-----------------------------------------------------------------------------
(* Every step of the tables is a step of the maps, or none.                *)
LEMMA InitRefines == Init => Map!Init
<1>. SUFFICES ASSUME Init PROVE Map!Init
  OBVIOUS
<1>1. tables = <<>> /\ live = {} /\ ret = TRUE BY DEF Init
<1>2. ScopesOf(tables) = <<>>
  <2>1. tables \in Seq({}) /\ Len(tables) = 0 BY <1>1
  <2>2. ScopesOf(tables) \in Seq({Scope(t) : t \in {}}) /\ Len(ScopesOf(tables)) = 0
    BY <2>1, ScopesSeq
  <2>. QED BY <2>2
<1>. QED BY <1>1, <1>2 DEF Map!Init

(* st_create is a step of ScopeMap.                                        *)
LEMMA CreateRefines ==
    ASSUME IInv, Create
    PROVE  Map!Open
<1>. DEFINE T == {Scope(t) : t \in Table}
<1>1. tables \in Seq(Table) /\ tables' = Append(tables, st_create) BY DEF IInv, Create
<1>2. Good(st_create) /\ st_create \in Table /\ \A n \in Symbols : ~Holds(st_create, n)
  BY CreateMeans, ScopesAssumption, GoodIsTable DEF Good
<1>3. Scope(st_create) = Map!Empty
  <2>1. DOMAIN Scope(st_create) = {} BY <1>2, ScopeOf
  <2>2. Scope(st_create) = [n \in DOMAIN Scope(st_create) |-> Scope(st_create)[n]]
    BY <1>2, ScopeOf
  <2>. QED BY <2>1, <2>2 DEF Map!Empty
<1>4. tables' \in Seq(Table) BY <1>1, <1>2, AppendProperties
<1>5. /\ ScopesOf(tables) \in Seq(T) /\ Len(ScopesOf(tables)) = Len(tables)
      /\ ScopesOf(tables') \in Seq(T) /\ Len(ScopesOf(tables')) = Len(tables')
  BY <1>1, <1>4, ScopesSeq
<1>6. Scope(st_create) \in T BY <1>2
<1>7. /\ Len(tables') = Len(tables) + 1 /\ tables'[Len(tables) + 1] = st_create
      /\ \A i \in 1 .. Len(tables) : tables'[i] = tables[i]
      /\ DOMAIN tables = 1 .. Len(tables) /\ DOMAIN tables' = 1 .. Len(tables) + 1
      /\ Len(tables) \in Nat
  BY <1>1, <1>2, AppendProperties
<1>8. /\ \A i \in 1 .. Len(tables) : ScopesOf(tables)[i] = Scope(tables[i])
      /\ \A i \in 1 .. Len(tables) + 1 : ScopesOf(tables')[i] = Scope(tables'[i])
  BY <1>7 DEF ScopesOf
<1>. HIDE DEF T
<1>. DEFINE a == Append(ScopesOf(tables), Scope(st_create))
<1>9. /\ a \in Seq(T) /\ Len(a) = Len(tables) + 1
      /\ a[Len(tables) + 1] = Scope(st_create)
      /\ \A i \in 1 .. Len(tables) : a[i] = ScopesOf(tables)[i]
  BY <1>5, <1>6, AppendProperties
<1>. HIDE DEF a
<1>10. \A i \in 1 .. Len(tables) + 1 : ScopesOf(tables')[i] = a[i]
  <2>1. \A i \in 1 .. Len(tables) : ScopesOf(tables')[i] = a[i] BY <1>7, <1>8, <1>9
  <2>2. ScopesOf(tables')[Len(tables) + 1] = a[Len(tables) + 1] BY <1>7, <1>8, <1>9
  <2>. QED BY <2>1, <2>2, <1>7
<1>11. ScopesOf(tables') = a BY <1>5, <1>7, <1>9, <1>10, SeqEqual
<1>12. ScopesOf(tables)' = ScopesOf(tables') BY DEF ScopesOf
<1>. QED BY <1>3, <1>11, <1>12 DEF a, Create, Map!Open

(* st_free is one.                                                         *)
LEMMA DestroyRefines ==
    ASSUME IInv, st_destroy
    PROVE  Map!Close
<1>. DEFINE T == {Scope(t) : t \in Table}
            n == Len(tables)
<1>1. /\ tables \in Seq(Table) /\ DOMAIN tables = 1 .. n /\ n \in Nat
      /\ \A i \in DOMAIN tables : Good(tables[i])
      /\ NullNode \notin live
  BY ScopesAssumption DEF IInv
<1>2. /\ tables # <<>> /\ tables' = SubSeq(tables, 1, n - 1) /\ ret' = TRUE
      /\ live' = live \ ValuesOf(tables[n])
  BY DEF st_destroy
<1>3. n > 0 BY <1>1, <1>2, EmptySeq
<1>4. IInv' BY DestroyKeeps
<1>5. tables' \in Seq(Table) BY <1>4 DEF IInv
<1>6. /\ ScopesOf(tables) \in Seq(T) /\ Len(ScopesOf(tables)) = n
      /\ ScopesOf(tables') \in Seq(T) /\ Len(ScopesOf(tables')) = Len(tables')
  BY <1>1, <1>5, ScopesSeq
<1>. HIDE DEF n, T
<1>7. Len(tables') = n - 1 /\ \A i \in 1 .. n - 1 : tables'[i] = tables[i]
  <2>1. \A i \in 1 .. n - 1 : tables[i] \in Table BY <1>1, ElementOfSeq
  <2>2. 1 \in Int /\ n - 1 \in Int BY <1>1
  <2>3. /\ Len(tables') = IF 1 <= n - 1 THEN n - 1 - 1 + 1 ELSE 0
        /\ \A i \in 1 .. n - 1 - 1 + 1 : tables'[i] = tables[1 + i - 1]
    BY <2>1, <2>2, <1>2, SubSeqProperties
  <2>4. n - 1 - 1 + 1 = n - 1 BY <1>1
  <2>. QED BY <2>3, <2>4, <1>1, <1>3
<1>. DEFINE a == SubSeq(ScopesOf(tables), 1, n - 1)
<1>8. /\ a \in Seq(T) /\ Len(a) = n - 1
      /\ \A i \in 1 .. n - 1 : a[i] = ScopesOf(tables)[i]
  <2>1. \A i \in 1 .. n - 1 : ScopesOf(tables)[i] \in T
    BY <1>1, <1>6, ElementOfSeq
  <2>2. 1 \in Int /\ n - 1 \in Int BY <1>1
  <2>3. /\ a \in Seq(T) /\ Len(a) = IF 1 <= n - 1 THEN n - 1 - 1 + 1 ELSE 0
        /\ \A i \in 1 .. n - 1 - 1 + 1 : a[i] = ScopesOf(tables)[1 + i - 1]
    BY <2>1, <2>2, SubSeqProperties
  <2>4. n - 1 - 1 + 1 = n - 1 BY <1>1
  <2>. HIDE DEF a
  <2>. QED BY <2>3, <2>4, <1>1, <1>3
<1>. HIDE DEF a
<1>9. DOMAIN tables' = 1 .. n - 1 BY <1>5, <1>7
<1>10. ASSUME NEW i \in 1 .. n - 1 PROVE ScopesOf(tables')[i] = a[i]
  <2>1. ScopesOf(tables')[i] = Scope(tables'[i]) BY <1>9 DEF ScopesOf
  <2>2. ScopesOf(tables)[i] = Scope(tables[i]) BY <1>1 DEF ScopesOf
  <2>. QED BY <2>1, <2>2, <1>7, <1>8
<1>11. ScopesOf(tables') = a BY <1>6, <1>7, <1>8, <1>10, SeqEqual
<1>12. ScopesOf(tables)' = ScopesOf(tables') BY DEF ScopesOf
<1>13. ScopesOf(tables) # <<>> BY <1>3, <1>6
<1>14. n \in DOMAIN tables /\ ScopesOf(tables)[n] = Scope(tables[n]) BY <1>1, <1>3 DEF ScopesOf
<1>15. \A v \in live : v \in ValuesOf(tables[n]) <=> v \in Map!AllOwned(Scope(tables[n]))
  <2>. SUFFICES ASSUME NEW v \in live
                PROVE  v \in ValuesOf(tables[n]) <=> v \in Map!AllOwned(Scope(tables[n]))
    OBVIOUS
  <2>. DEFINE t == tables[n]
  <2>1. Good(t) /\ v # NullNode BY <1>1, <1>14
  <2>2. v \in ValuesOf(t) <=> \E m \in Symbols : st_lookup(t, m) = v
    BY <2>1, ValuesOfTable
  <2>3. \A m \in Symbols : st_lookup(t, m) = v => Holds(t, m) BY <2>1 DEF st_lookup
  <2>. HIDE DEF t
  <2>4. \A m \in DOMAIN Scope(t) : Scope(t)[m].value = st_lookup(t, m)
    <3>1. \A m \in DOMAIN Scope(t) :
             Scope(t)[m] = [type |-> Lookup(t, m).type, value |-> st_lookup(t, m)]
      BY <2>1, ScopeOf
    <3>. QED BY <3>1
  <2>5. \A m \in Symbols : m \in DOMAIN Scope(t) <=> Holds(t, m) BY <2>1, ScopeOf
  <2>6. DOMAIN Scope(t) \subseteq Symbols BY <2>1, ScopeOf
  <2>7. v \in Map!AllOwned(Scope(t)) <=> \E m \in DOMAIN Scope(t) : Scope(t)[m].value = v
    BY <2>1 DEF Map!AllOwned
  <2>8. (\E m \in DOMAIN Scope(t) : Scope(t)[m].value = v) <=> \E m \in Symbols : st_lookup(t, m) = v
    BY <2>3, <2>4, <2>5, <2>6
  <2>. QED BY <2>2, <2>7, <2>8 DEF t
<1>16. live' = live \ Map!AllOwned(ScopesOf(tables)[n]) BY <1>2, <1>14, <1>15
<1>. QED BY <1>2, <1>6, <1>11, <1>12, <1>13, <1>16 DEF a, Map!Close

(* st_insert is one.                                                       *)
LEMMA InsertRefines ==
    ASSUME IInv, NEW i \in DOMAIN tables, NEW name \in Symbols, NEW type \in Types,
           NEW value \in Fresh, Insert(i, name, type, value)
    PROVE  Map!Bind(i, name, type, value)
<1>. DEFINE u == st_insert(tables[i], name, type, value)
<1>1. Good(tables[i]) /\ value \in Own BY NullIsFresh DEF IInv
<1>2. /\ Good(u) /\ Holds(u, name) /\ Lookup(u, name) = Symbol(name, type, value)
      /\ \A n \in Symbols \ {name} : SameAt(tables[i], u, n)
  BY <1>1, InsertMeans DEF Good
<1>3. /\ tables' = [tables EXCEPT ![i] = u]
      /\ live' = Take(Freed(live, tables[i], name), value) /\ ret' = TRUE
  BY DEF Insert
<1>. HIDE DEF u
<1>. QED BY <1>2, <1>3, BindStep

(* st_remove is one.                                                       *)
LEMMA RemoveRefines ==
    ASSUME IInv, NEW i \in DOMAIN tables, NEW name \in Symbols, Remove(i, name)
    PROVE  Map!Unbind(i, name) \/ Map!Refuse
<1>. DEFINE u == st_remove(tables[i], name)
<1>1. Good(tables[i]) BY DEF IInv
<1>2. /\ tables' = [tables EXCEPT ![i] = u]
      /\ live' = Freed(live, tables[i], name) /\ ret' = Holds(tables[i], name)
  BY DEF Remove
<1>3. CASE Holds(tables[i], name)
  <2>1. Good(u) /\ ~Holds(u, name) /\ \A n \in Symbols \ {name} : SameAt(tables[i], u, n)
    BY <1>1, <1>3, RemoveMeans DEF Good
  <2>2. name \in DOMAIN ScopesOf(tables)[i] BY <1>1, <1>3, ScopesAre, ScopeOf
  <2>. HIDE DEF u
  <2>3. Scope(u) = Map!Without(Scope(tables[i]), name) BY <1>1, <2>1, UnbindScope
  <2>4. ScopesOf(tables)' = [ScopesOf(tables) EXCEPT ![i] = Map!Without(@, name)]
    BY <1>2, <2>3, ScopeChanged, ScopesAre
  <2>5. live' = live \ Map!Owned(ScopesOf(tables)[i], name) BY <1>2, FreedIsOwned, ScopesAre
  <2>6. ret' = TRUE BY <1>2, <1>3 DEF Holds
  <2>. QED BY <2>2, <2>4, <2>5, <2>6 DEF Map!Unbind
<1>4. CASE ~Holds(tables[i], name)
  <2>1. tables' = tables BY <1>2, <1>4 DEF st_remove, IInv
  <2>2. live' = live /\ ret' = FALSE
    <3>1. st_lookup(tables[i], name) = NullNode BY <1>4 DEF st_lookup
    <3>2. NullNode \notin live BY ScopesAssumption DEF IInv
    <3>. QED BY <3>1, <3>2, <1>2, <1>4 DEF Freed, ast_free, Holds
  <2>. QED BY <1>4, <2>1, <2>2, RefuseStep
<1>. QED BY <1>3, <1>4

(* st_update is one.                                                       *)
LEMMA UpdateRefines ==
    ASSUME IInv, NEW i \in DOMAIN tables, NEW name \in Symbols, NEW value \in Fresh,
           Update(i, name, value)
    PROVE  Map!Rebind(i, name, value) \/ Map!Refuse
<1>1. CASE Holds(tables[i], name)
  <2>1. /\ tables' = [tables EXCEPT ![i] = st_update(tables[i], name, value)]
        /\ live' = Take(Freed(live, tables[i], name), value)
        /\ ret' = TRUE
    BY <1>1 DEF Update, Holds
  <2>. QED BY <1>1, <2>1, NullIsFresh, RebindStep
<1>2. CASE ~Holds(tables[i], name)
  <2>1. tables' = tables /\ live' = live
    BY <1>2 DEF Update, st_update, IInv, Holds
  <2>2. ret' = Holds(tables[i], name) BY DEF Update
  <2>3. ret' = FALSE BY <1>2, <2>2 DEF Holds
  <2>. QED BY <1>2, <2>1, <2>3, RefuseStep
<1>. QED BY <1>1, <1>2

(* st_update_recursive is one.                                             *)
LEMMA UpdateRecursiveRefines ==
    ASSUME IInv, NEW i \in DOMAIN tables, NEW name \in Symbols, NEW value \in Fresh,
           UpdateRecursive(i, name, value)
    PROVE  Map!RebindVisible(i, name, value) \/ Map!Refuse
<1>. DEFINE hits == Holders(tables, i, name)
            j == Innermost(hits)
<1>1. DOMAIN tables = 1 .. Len(tables) /\ Len(tables) \in Nat BY DEF IInv
<1>2. CASE hits # {}
  <2>1. j \in DOMAIN tables /\ Holds(tables[j], name) BY <1>2, HolderOf
  <2>2. /\ tables' = [tables EXCEPT ![j] = st_update(tables[j], name, value)]
        /\ live' = Take(Freed(live, tables[j], name), value)
        /\ ret' = TRUE
    BY <1>2, <2>1 DEF UpdateRecursive, st_update_recursive
  <2>3. Map!Resolve(i, name) = j BY <1>2, ResolveIs
  <2>. HIDE DEF j, hits
  <2>4. Map!Rebind(j, name, value) BY <2>1, <2>2, NullIsFresh, RebindStep
  <2>5. j # 0 BY <1>1, <2>1
  <2>. QED BY <2>3, <2>4, <2>5 DEF Map!RebindVisible
<1>3. CASE hits = {}
  <2>1. tables' = tables /\ live' = live /\ ret' = FALSE
    BY <1>3 DEF UpdateRecursive, st_update_recursive
  <2>2. ~Holds(tables[i], name) BY <1>1, <1>3 DEF Holders
  <2>. QED BY <2>1, <2>2, RefuseStep
<1>. QED BY <1>2, <1>3

(* Every step is one of ScopeMap, or changes nothing it sees.              *)
LEMMA NextRefines == IInv /\ [Next]_vars => [Map!Next]_(Map!vars)
<1>. SUFFICES ASSUME IInv, [Next]_vars PROVE [Map!Next]_(Map!vars)
  OBVIOUS
<1>0. DOMAIN ScopesOf(tables) = DOMAIN tables BY DEF ScopesOf
<1>1. CASE Create BY <1>1, CreateRefines DEF Map!Next
<1>2. CASE st_destroy BY <1>2, DestroyRefines DEF Map!Next
<1>3. ASSUME NEW i \in DOMAIN tables, NEW name \in Symbols, Remove(i, name) PROVE Map!Next
  BY <1>0, <1>3, RemoveRefines DEF Map!Next
<1>4. ASSUME NEW i \in DOMAIN tables, NEW name \in Symbols, NEW value \in Fresh,
             Update(i, name, value)
      PROVE  Map!Next
  BY <1>0, <1>4, UpdateRefines, FreshIs DEF Map!Next
<1>5. ASSUME NEW i \in DOMAIN tables, NEW name \in Symbols, NEW value \in Fresh,
             UpdateRecursive(i, name, value)
      PROVE  Map!Next
  BY <1>0, <1>5, UpdateRecursiveRefines, FreshIs DEF Map!Next
<1>6. ASSUME NEW i \in DOMAIN tables, NEW name \in Symbols, NEW type \in Types,
             NEW value \in Fresh, Insert(i, name, type, value)
      PROVE  Map!Next
  BY <1>0, <1>6, InsertRefines, FreshIs DEF Map!Next
<1>7. CASE UNCHANGED vars
  <2>1. UNCHANGED Map!vars BY <1>7 DEF vars, Map!vars, ScopesOf
  <2>. QED BY <2>1
<1>. QED BY <1>1, <1>2, <1>3, <1>4, <1>5, <1>6, <1>7 DEF Next

(* symbol_table.c keeps the promise of symbol_table.h: whatever is created *)
(* and destroyed, inserted, removed and updated, with whatever hashes, the *)
(* chains of symbols behave as a stack of maps that own their values.      *)
THEOREM Refinement == Spec => ImplementsMap
BY Invariant, InitRefines, NextRefines, PTL DEF Spec, ImplementsMap, Map!Spec
=============================================================================
