----------------------------- MODULE MCDispatch -----------------------------
(* Two methods of one signature, one that differs in its result only, and  *)
(* one for every way a parameter is taken and every reason to be refused.  *)
EXTENDS Dispatch

Method(name, type, by, result, future) ==
    [name |-> name, type |-> type, by |-> by, result |-> result, future |-> future]

Functions_ ==
    {Method("insert", "pair", "value", "count", TRUE),
     Method("update", "pair", "value", "count", TRUE),
     Method("remove", "pair", "value", "void", TRUE),
     Method("find", "pair", "rvalue_ref", "count", TRUE),
     Method("peek", "pair", "const_ref", "count", TRUE),
     Method("touch", "pair", "lvalue_ref", "count", TRUE),
     Method("give", "unique", "move_only_ref", "count", TRUE),
     Method("raw", "pair", "value", "count", FALSE)}

=============================================================================
