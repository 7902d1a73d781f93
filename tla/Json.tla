-------------------------------- MODULE Json --------------------------------
(***************************************************************************)
(* The plain data the libraries walk: null, strings, numbers, booleans,    *)
(* arrays and objects, as the code tells them apart with typeof, in and    *)
(* Array.isArray.                                                          *)
(***************************************************************************)
EXTENDS Naturals, Sequences, FiniteSets

Null == [type |-> "null"]
Undef == [type |-> "undefined"]
Str(s) == [type |-> "string", string |-> s]
Num(n) == [type |-> "number", number |-> n]
Arr(items) == [type |-> "array", items |-> items]
Obj(fields) == [type |-> "object", fields |-> fields]

IsArr(j) == j.type = "array"
IsObj(j) == j.type = "object"
Has(j, key) == IsObj(j) /\ key \in DOMAIN j.fields

\* Object.values of an array or an object.
Kids(j) ==
    IF IsArr(j) THEN {j.items[i] : i \in DOMAIN j.items}
    ELSE IF IsObj(j) THEN {j.fields[k] : k \in DOMAIN j.fields}
    ELSE {}

\* Object with one field.
Single(key, value) == Obj([k \in {key} |-> value])
=============================================================================
