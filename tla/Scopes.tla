------------------------------- MODULE Scopes -------------------------------
(***************************************************************************)
(* A client of symbol_table.c: tables are created as children of the       *)
(* innermost one and destroyed in reverse, and in between any operation    *)
(* may be called on any of them.                                           *)
(*                                                                         *)
(* Values are nodes of the heap.  st_insert and st_update take the value   *)
(* over and ast_free the one it replaces; live holds the nodes that were   *)
(* taken over and not freed, so that a freed node may be allocated again.  *)
(***************************************************************************)
EXTENDS SymbolTable, FiniteSets

CONSTANTS Symbols,       \* the names the client uses
          Values,        \* the nodes it hands over
          Types,         \* the types of its symbols
          MaxScopes,     \* bound on the tables alive at a time
          MaxSymbols     \* bound on the symbols in all of them

ASSUME ScopesAssumption ==
    /\ Symbols \subseteq Names
    /\ Types \subseteq TypeTags
    /\ NullNode \notin Values
    /\ MaxScopes \in Nat /\ MaxSymbols \in Nat

VARIABLES tables, live, ret

vars == <<tables, live, ret>>

-----------------------------------------------------------------------------
(* ast_free of the value of a symbol, if there is one.                     *)
ast_free(nodes, value) == nodes \ {value}
Take(nodes, value)     == nodes \cup ({value} \ {NullNode})

(* Slip: the value that is overwritten is not freed.                       *)
Slip_Freed(nodes, table, name) == nodes
Freed(nodes, table, name) == ast_free(nodes, st_lookup(table, name))

(* The values of a table that is destroyed.                                *)
Slots(table)    == UNION {{<<b, i>> : i \in DOMAIN table.buckets[b]} : b \in Buckets}
ValueAt(table, slot) == table.buckets[slot[1]][slot[2]].value
ValuesOf(table) == {ValueAt(table, slot) : slot \in Slots(table)}

AllSlots == UNION {{<<i, slot>> : slot \in Slots(tables[i])} : i \in DOMAIN tables}

(* A value the caller may hand over: one it owns, or NULL.                 *)
Fresh == (Values \ live) \cup {NullNode}

Init == tables = <<>> /\ live = {} /\ ret = TRUE

Create ==
    /\ Len(tables) < MaxScopes
    /\ tables' = Append(tables, st_create)
    /\ ret' = TRUE
    /\ UNCHANGED live

st_destroy ==
    /\ tables # <<>>
    /\ tables' = SubSeq(tables, 1, Len(tables) - 1)
    /\ live' = live \ ValuesOf(tables[Len(tables)])
    /\ ret' = TRUE

Room(i, name) ==
    \/ Holds(tables[i], name)
    \/ Cardinality(AllSlots) < MaxSymbols

Insert(i, name, type, value) ==
    /\ Room(i, name)
    /\ tables' = [tables EXCEPT ![i] = st_insert(@, name, type, value)]
    /\ live' = Take(Freed(live, tables[i], name), value)
    /\ ret' = TRUE

Remove(i, name) ==
    /\ tables' = [tables EXCEPT ![i] = st_remove(@, name)]
    /\ live' = Freed(live, tables[i], name)
    /\ ret' = Holds(tables[i], name)

(* The value stays with the caller when the name is not found.             *)
Update(i, name, value) ==
    /\ tables' = [tables EXCEPT ![i] = st_update(@, name, value)]
    /\ live' = IF Holds(tables[i], name) THEN Take(Freed(live, tables[i], name), value) ELSE live
    /\ ret' = Holds(tables[i], name)

UpdateRecursive(i, name, value) ==
    LET hits == Holders(tables, i, name)
    IN  /\ tables' = st_update_recursive(tables, i, name, value)
        /\ live' = IF hits = {} THEN live
                   ELSE Take(Freed(live, tables[Innermost(hits)], name), value)
        /\ ret' = (hits # {})

Next ==
    \/ Create
    \/ st_destroy
    \/ \E i \in DOMAIN tables, name \in Symbols :
          \/ Remove(i, name)
          \/ \E value \in Fresh : Update(i, name, value) \/ UpdateRecursive(i, name, value)
          \/ \E type \in Types, value \in Fresh : Insert(i, name, type, value)

Spec == Init /\ [][Next]_vars

-----------------------------------------------------------------------------
SymbolType == [name : Symbols, type : Types, value : Values \cup {NullNode}]
Table      == [buckets : [Buckets -> Seq(SymbolType)], size : Nat]

TypeOK ==
    /\ tables \in Seq(Table) /\ Len(tables) <= MaxScopes
    /\ live \subseteq Values
    /\ ret \in BOOLEAN

(* Whatever was inserted, overwritten and removed, in any order: a name is *)
(* in the chain of its hash, once in the table, and size counts symbols.   *)
ChainsAreMaps ==
    \A i \in DOMAIN tables :
        LET table == tables[i]
            NameAt(slot) == table.buckets[slot[1]][slot[2]].name
        IN  /\ \A slot \in Slots(table) : hash[NameAt(slot)] = slot[1]
            /\ \A s, t \in Slots(table) : NameAt(s) = NameAt(t) => s = t
            /\ table.size = Cardinality(Slots(table))

(* No symbol of any table holds a freed node, no node is held twice (it    *)
(* would be freed twice), and a node nobody holds has been freed.          *)
OwnedOnce ==
    LET Held(a)  == ValueAt(tables[a[1]], a[2])
        Holding  == {a \in AllSlots : Held(a) # NullNode}
    IN  /\ live = {Held(a) : a \in Holding}
        /\ \A a, b \in Holding : Held(a) = Held(b) => a = b

-----------------------------------------------------------------------------
(* The tables are maps: what their lookups answer, after any sequence of   *)
(* calls, is what a map of each scope would answer.                        *)
Scope(table) ==
    [n \in {m \in Symbols : st_lookup_type(table, m).found} |->
        [type |-> st_lookup_type(table, n).type, value |-> st_lookup(table, n)]]
ScopesOf(seq) == [i \in DOMAIN seq |-> Scope(seq[i])]

Map == INSTANCE ScopeMap WITH
    Names <- Symbols, NoValue <- NullNode, scopes <- ScopesOf(tables)

ImplementsMap == Map!Spec

(* The search for a type and the search for a value stop at one symbol,    *)
(* that of the innermost scope binding the name, unless it has no value:   *)
(* then the value comes from further out and the type does not.            *)
SearchesAgree ==
    \A i \in DOMAIN tables, name \in Symbols :
        LET j == Map!Resolve(i, name)
            type  == st_lookup_type_recursive(tables, i, name)
            value == st_lookup_recursive(tables, i, name)
        IN  IF j = 0 THEN type = NotFound /\ value = NullNode
            ELSE /\ type = st_lookup_type(tables[j], name)
                 /\ \/ value = st_lookup(tables[j], name)
                    \/ /\ st_lookup(tables[j], name) = NullNode
                       /\ j > 1 /\ value = st_lookup_recursive(tables, j - 1, name)
=============================================================================
