------------------------------ MODULE ScopeMap ------------------------------
(***************************************************************************)
(* What symbol_table.h promises: a stack of scopes, each a map from names  *)
(* to a type and a value.  The map owns the values it holds: it takes one  *)
(* with a binding and frees it when the binding goes or is overwritten.    *)
(***************************************************************************)
EXTENDS Integers, Sequences

CONSTANTS Names, Types, Values, NoValue

VARIABLES scopes,    \* a sequence of maps, the innermost last
          live,      \* the values the maps own
          ret        \* the result of the last operation

vars == <<scopes, live, ret>>

Empty == [n \in {} |-> 0]

(* One scope with the name bound; without it; and what it owned for it.    *)
With(scope, name, type, value) ==
    [n \in DOMAIN scope \cup {name} |->
        IF n = name THEN [type |-> type, value |-> value] ELSE scope[n]]
Without(scope, name) == [n \in DOMAIN scope \ {name} |-> scope[n]]
Owned(scope, name)   == IF name \in DOMAIN scope THEN {scope[name].value} \ {NoValue} ELSE {}
AllOwned(scope)      == {scope[n].value : n \in DOMAIN scope} \ {NoValue}

(* The innermost scope at or around the i-th one that binds the name.      *)
Resolve(i, name) ==
    LET S == {j \in 1 .. i : name \in DOMAIN scopes[j]}
    IN  IF S = {} THEN 0 ELSE CHOOSE j \in S : \A k \in S : k <= j

Init == scopes = <<>> /\ live = {} /\ ret = TRUE

Open  == scopes' = Append(scopes, Empty) /\ ret' = TRUE /\ UNCHANGED live
Close ==
    /\ scopes # <<>>
    /\ scopes' = SubSeq(scopes, 1, Len(scopes) - 1)
    /\ live' = live \ AllOwned(scopes[Len(scopes)])
    /\ ret' = TRUE

(* The value handed over is one no scope owns, or none.                    *)
Bind(i, name, type, value) ==
    /\ scopes' = [scopes EXCEPT ![i] = With(@, name, type, value)]
    /\ live' = (live \ Owned(scopes[i], name)) \cup ({value} \ {NoValue})
    /\ ret' = TRUE

Rebind(i, name, value) ==
    /\ name \in DOMAIN scopes[i]
    /\ Bind(i, name, scopes[i][name].type, value)

RebindVisible(i, name, value) ==
    /\ Resolve(i, name) # 0
    /\ Rebind(Resolve(i, name), name, value)

Unbind(i, name) ==
    /\ name \in DOMAIN scopes[i]
    /\ scopes' = [scopes EXCEPT ![i] = Without(@, name)]
    /\ live' = live \ Owned(scopes[i], name)
    /\ ret' = TRUE

(* The name is not bound where the caller looks for it.                    *)
Refuse ==
    /\ \E i \in DOMAIN scopes, name \in Names : name \notin DOMAIN scopes[i]
    /\ ret' = FALSE
    /\ UNCHANGED <<scopes, live>>

Fresh == (Values \ live) \cup {NoValue}

Next ==
    \/ Open \/ Close \/ Refuse
    \/ \E i \in DOMAIN scopes, name \in Names :
          \/ Unbind(i, name)
          \/ \E value \in Fresh : Rebind(i, name, value) \/ RebindVisible(i, name, value)
          \/ \E type \in Types, value \in Fresh : Bind(i, name, type, value)

Spec == Init /\ [][Next]_vars
=============================================================================
