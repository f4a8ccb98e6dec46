-------------------------- MODULE MCGenericsHeader --------------------------
(* The generated header the generics defects are shown on, over two      *)
(* struct types.                                                          *)
EXTENDS GenericsHeader

CONSTANTS t1, t2

P(cv, t) == [cv |-> cv, type |-> t]

(* one header declaring a loan function that returns a non-const struct  *)
(* pointer (scenario 4), a drop function taking a non-const pointer and   *)
(* a closure call function: each defect of the generator shows in the     *)
(* one zenoh_macros.h generated from it                                   *)
DefectHeaders ==
    {<< [conv |-> "loan", ret |-> "struct_ptr", params |-> <<P("const", t1)>>],
        [conv |-> "drop", ret |-> "void", params |-> <<P("", t1)>>],
        [conv |-> "call", ret |-> "void", params |-> <<P("const", t2), P("", t1)>>] >>}
====
