---------------------------- MODULE SymbolTable ----------------------------
(***************************************************************************)
(* The operations of symbol_table.c on one table, and those that climb a   *)
(* chain of tables.                                                        *)
(*                                                                         *)
(* A table maps each bucket to the list of its symbols, newest first.  Its *)
(* parent link is its position: tables are in a sequence, each the parent  *)
(* of the next one, as push_scope_new of semantic_analyzer.c links them.   *)
(***************************************************************************)
EXTENDS Ast

CONSTANTS INITIAL_CAPACITY,     \* the number of buckets
          hash                  \* the bucket of a name

Buckets == 0 .. INITIAL_CAPACITY - 1

ASSUME HashAssumption ==
    /\ INITIAL_CAPACITY \in Nat \ {0}
    /\ hash \in [Names -> Buckets]

(* The result of a type lookup: the flag *found and the type.              *)
NotFound    == [found |-> FALSE, type |-> "invalid"]
Found(type) == [found |-> TRUE, type |-> type]

Symbol(name, type, value) == [name |-> name, type |-> type, value |-> value]

st_create == [buckets |-> [b \in Buckets |-> <<>>], size |-> 0]

-----------------------------------------------------------------------------
(* The walk along a bucket stops at the first symbol with the name.        *)
Chain(table, name) == table.buckets[hash[name]]
Hits(table, name)  ==
    LET chain == Chain(table, name) IN {i \in DOMAIN chain : chain[i].name = name}
FirstHit(table, name) ==
    CHOOSE i \in Hits(table, name) : \A j \in Hits(table, name) : i <= j
Holds(table, name)  == Hits(table, name) # {}
Lookup(table, name) == Chain(table, name)[FirstHit(table, name)]

st_lookup(table, name) ==
    IF Holds(table, name) THEN Lookup(table, name).value ELSE NullNode

st_lookup_type(table, name) ==
    IF Holds(table, name) THEN Found(Lookup(table, name).type) ELSE NotFound

(* What the caller hands over replaces the symbol of the name, if any.     *)
Replace(table, name, symbol) ==
    [table EXCEPT !.buckets[hash[name]][FirstHit(table, name)] = symbol]

(* Slip: the new symbol is linked without a look at the chain.             *)
Slip_st_insert(table, name, type, value) ==
    [table EXCEPT !.buckets[hash[name]] = <<Symbol(name, type, value)>> \o @, !.size = @ + 1]

st_insert(table, name, type, value) ==
    IF Holds(table, name)
    THEN Replace(table, name, Symbol(name, type, value))
    ELSE [table EXCEPT !.buckets[hash[name]] = <<Symbol(name, type, value)>> \o @,
                       !.size = @ + 1]

(* Slip: size is lowered although no symbol has the name.                  *)
Slip_st_remove_size(table, name) ==
    LET i == FirstHit(table, name)
    IN  IF Holds(table, name)
        THEN [table EXCEPT !.buckets[hash[name]] = SubSeq(@, 1, i - 1) \o SubSeq(@, i + 1, Len(@)),
                           !.size = @ - 1]
        ELSE [table EXCEPT !.size = @ - 1]

st_remove(table, name) ==
    LET i == FirstHit(table, name)
    IN  IF Holds(table, name)
        THEN [table EXCEPT !.buckets[hash[name]] = SubSeq(@, 1, i - 1) \o SubSeq(@, i + 1, Len(@)),
                           !.size = @ - 1]
        ELSE table

st_update(table, name, value) ==
    IF Holds(table, name) THEN Replace(table, name, [Lookup(table, name) EXCEPT !.value = value])
    ELSE table

-----------------------------------------------------------------------------
(* The operations that climb from the i-th table to its parents.           *)
Innermost(S) == CHOOSE j \in S : \A k \in S : k <= j

(* A symbol without a value is passed over like a missing one.             *)
st_lookup_recursive(tables, i, name) ==
    LET hits == {j \in 1 .. i : st_lookup(tables[j], name) # NullNode}
    IN  IF hits = {} THEN NullNode ELSE st_lookup(tables[Innermost(hits)], name)

(* The table whose symbol a recursive update or type lookup stops at.      *)
Holders(tables, i, name) == {j \in 1 .. i : Holds(tables[j], name)}

(* Slip: the chain of tables is walked from the wrong end.                 *)
Slip_st_lookup_type_recursive(tables, i, name) ==
    LET hits == Holders(tables, i, name)
    IN  IF hits = {} THEN NotFound
        ELSE st_lookup_type(tables[CHOOSE j \in hits : \A k \in hits : j <= k], name)

st_lookup_type_recursive(tables, i, name) ==
    LET hits == Holders(tables, i, name)
    IN  IF hits = {} THEN NotFound ELSE st_lookup_type(tables[Innermost(hits)], name)

(* Slip: only the table of the call is updated.                            *)
Slip_st_update_recursive(tables, i, name, value) ==
    [tables EXCEPT ![i] = st_update(@, name, value)]

st_update_recursive(tables, i, name, value) ==
    LET hits == Holders(tables, i, name)
    IN  IF hits = {} THEN tables
        ELSE [tables EXCEPT ![Innermost(hits)] = st_update(@, name, value)]
=============================================================================
