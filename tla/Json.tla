-------------------------------- MODULE Json --------------------------------
(***************************************************************************)
(* What the program uses of nlohmann::json.  A node is a pair of its sort  *)
(* and its value; an object's value is a function from names to nodes.     *)
(***************************************************************************)
EXTENDS Integers, Sequences

Str(s) == <<"string", s>>

Whole(i) == <<"integer", i>>

(* A number with a fraction, in tenths. *)
Tenths(n) == <<"float", n>>

Bool(b) == <<"boolean", b>>

Arr(nodes) == <<"array", nodes>>

Obj(members) == <<"object", members>>

Null == <<"null", 0>>

(* The predicate is_<sort> of a node. *)
Is(j, sort) ==
    IF sort = "number" THEN j[1] \in {"integer", "float"} ELSE j[1] = sort

(* find(name) finds a node, and its predicate holds. *)
Has(j, name, sort) ==
    Is(j, "object") /\ name \in DOMAIN j[2] /\ Is(j[2][name], sort)

Get(j, name) == j[2][name]

Val(j, name) == j[2][name][2]

(* Division that truncates toward zero. *)
Quotient(n, d) == IF n >= 0 THEN n \div d ELSE -((-n) \div d)

(* get<int>() of a number. *)
AsInt(j) == IF j[1] = "float" THEN Quotient(j[2], 10) ELSE j[2]

=============================================================================
