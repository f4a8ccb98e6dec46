--------------------------- MODULE GenericsHeader ---------------------------
(***************************************************************************)
(* create_generics_header of build.rs: the signature miner (the six        *)
(* find_*_functions, one regex per naming convention, run over the         *)
(* generated header) and the dispatch generator (generate_generic_*_c: a  *)
(* _Generic table per convention, generate_generic_*_cpp: an overload set *)
(* per convention, and the z_closure helpers for the _call convention).   *)
(*                                                                         *)
(* A prototype of the header is abstracted to its convention suffix, the  *)
(* shape of its return type and its parameters [cv, type]; function and  *)
(* parameter names are the prototype's index in the header.  A regex match *)
(* is the test of those shapes the regex makes.  The generated text is    *)
(* abstracted to what the compiler checks of it: per table arm the        *)
(* selected type, whether it is selected as a pointer, the function, and  *)
(* whether the macro passes &x or x; per overload its parameter qualifier *)
(* and type, whether it returns a const pointer; per closure helper the   *)
(* identifiers its body uses.                                             *)
(***************************************************************************)
EXTENDS Naturals, Sequences, SequencesExt, FiniteSets

CONSTANTS
    Types,      \* the owned/closure/payload struct types of the header
    Headers     \* the generated headers (Seq of prototypes) to check

(* in the order create_generics_header writes them *)
Convs == <<"loan", "loan_mut", "drop", "null", "check", "call">>
ConvSet == ToSet(Convs)
RetKinds == {"const_struct_ptr", "struct_ptr", "void", "bool"}
Proto == [conv : ConvSet, ret : RetKinds, params : Seq([cv : {"const", ""}, type : Types])]

ASSUME \A h \in Headers : h \in Seq(Proto)

VARIABLES
    header,     \* GENERATION_PATH, as read by every find_*_functions
    macros,     \* zenoh_macros.h: the tables it holds
    written     \* create_generics_header has run

vars == <<header, macros, written>>

-----------------------------------------------------------------------------
OneParam(p, cv) == Len(p.params) = 1 /\ p.params[1].cv = cv

(* the regex of each find_*_functions, by the shape it accepts:           *)
(*  loan      const struct R *F_loan(const struct T *a);                  *)
(*  loan_mut  struct R *F_loan_mut(struct T *a);   (unanchored: a const   *)
(*            return also contains "struct R *F_loan_mut(")                *)
(*  drop      F_drop(struct T *a);        null   F_null(struct T *a);     *)
(*  check     bool F_check(const struct T *a);                            *)
(*  call      W F_call(const struct C *c, [cv] struct A *a);  W one word  *)
Matches(conv, p) ==
    /\ p.conv = conv
    /\ CASE conv = "loan"     -> p.ret = "const_struct_ptr" /\ OneParam(p, "const")
         [] conv = "loan_mut" -> p.ret \in {"struct_ptr", "const_struct_ptr"} /\ OneParam(p, "")
         [] conv = "drop"     -> OneParam(p, "")
         [] conv = "null"     -> OneParam(p, "")
         [] conv = "check"    -> p.ret = "bool" /\ OneParam(p, "const")
         [] conv = "call"     -> /\ p.ret \in {"void", "bool"}
                                 /\ Len(p.params) = 2 /\ p.params[1].cv = "const"

(* the qualifier FuncArg::new is given for the first argument *)
MinerCv == [loan |-> "const", loan_mut |-> "", drop |-> "const",
            null |-> "", check |-> "const", call |-> "const"]

(* find_<conv>_functions: one FunctionSignature per match, in header order *)
FindFunctions(h, conv) ==
    LET ix == SelectSeq([i \in 1..Len(h) |-> i], LAMBDA i : Matches(conv, h[i]))
    IN  [j \in 1..Len(ix) |->
           [fn  |-> ix[j],
            ret |-> h[ix[j]].ret,
            args |-> <<[type |-> h[ix[j]].params[1].type, cv |-> MinerCv[conv]]>>
                     \o (IF conv = "call"
                         THEN <<[type |-> h[ix[j]].params[2].type,
                                 cv   |-> h[ix[j]].params[2].cv]>>
                         ELSE <<>>)]]

(* generate_generic_<conv>_c: "T : f" ... )(&x), or "T * : f" ... )(x) *)
GenericC(conv, sigs) ==
    [j \in DOMAIN sigs |->
        [sel |-> sigs[j].args[1].type, selPtr |-> conv \in {"drop", "null"},
         fn |-> sigs[j].fn, addr |-> conv \notin {"drop", "null"}]]

(* generate_generic_closure_c: an arm "C * : { x->context = ctx ... }"    *)
(* in a macro whose parameters are x, callback, dropper, ctx              *)
ClosureMacroParams == {"x", "callback", "dropper", "ctx"}
GenericClosureC(sigs) ==
    [j \in DOMAIN sigs |->
        [sel |-> sigs[j].args[1].type, idents |-> {"x", "ctx", "callback", "droper"}]]

(* generate_generic_<conv>_cpp: inline R z_<conv>(cv T* a) / (cv T& a)   *)
(* forwarding a or &a to the function; only z_loan returns const R*      *)
GenericCpp(conv, sigs) ==
    [j \in DOMAIN sigs |->
        [cv |-> sigs[j].args[1].cv, type |-> sigs[j].args[1].type,
         fn |-> sigs[j].fn, retConst |-> conv = "loan"]]

(* generate_generic_closure_cpp: inline void z_closure(C* c, ...) *)
GenericClosureCpp(sigs) == [j \in DOMAIN sigs |-> [type |-> sigs[j].args[1].type]]

(* create_generics_header: every table of the #ifndef __cplusplus branch, *)
(* then every overload set of the #else branch                           *)
Generate(h) ==
    [c      |-> [cv \in ConvSet |-> GenericC(cv, FindFunctions(h, cv))],
     closure_c   |-> GenericClosureC(FindFunctions(h, "call")),
     cpp    |-> [cv \in ConvSet |-> GenericCpp(cv, FindFunctions(h, cv))],
     closure_cpp |-> GenericClosureCpp(FindFunctions(h, "call"))]

-----------------------------------------------------------------------------
Init ==
    /\ header \in Headers
    /\ macros = Generate(<<>>)       \* no table entry before the run
    /\ written = FALSE

CreateGenericsHeader ==
    /\ ~written
    /\ macros' = Generate(header)
    /\ written' = TRUE
    /\ UNCHANGED header

(* the build goes on with the header written *)
Written ==
    /\ written
    /\ UNCHANGED vars

Next == CreateGenericsHeader \/ Written

Spec == Init /\ [][Next]_vars

-----------------------------------------------------------------------------
Done == written

(* Every C++ overload is const-correct: it never hands a pointer to const *)
(* to a function whose parameter is not const, and never returns a const  *)
(* pointer as a non-const one; otherwise zenoh_macros.h does not compile  *)
(* as C++ as soon as the header declares such a function.                 *)
CppConstCorrect ==
    Done =>
      \A cv \in ConvSet : \A j \in DOMAIN macros.cpp[cv] :
        LET w == macros.cpp[cv][j] IN
          /\ w.cv = "const" => header[w.fn].params[1].cv = "const"
          /\ header[w.fn].ret = "const_struct_ptr" => w.retConst

(* Spec 8, concrete scenario 4: a prototype returning a pointer to struct, *)
(* named F_loan, whose one parameter is a pointer to const struct T, is   *)
(* mined for the loan convention: the z_loan table selects F_loan for T.  *)
LoanTableAsSpecified ==
    Done =>
      \A i \in DOMAIN header :
        LET p == header[i] IN
          (p.conv = "loan" /\ p.ret \in {"struct_ptr", "const_struct_ptr"}
             /\ OneParam(p, "const"))
            => \E j \in DOMAIN macros.c["loan"] :
                 macros.c["loan"][j].fn = i /\ macros.c["loan"][j].sel = p.params[1].type

(* The z_closure macro is hygienic: the statements of each of its arms use *)
(* only the macro's parameters, so an expansion refers to the arguments    *)
(* of the call and to nothing else in scope.                              *)
ClosureMacroHygiene ==
    Done => \A j \in DOMAIN macros.closure_c : macros.closure_c[j].idents \subseteq ClosureMacroParams

(* zenoh_macros.h compiles in both of its languages: its C++ overloads are *)
(* const-correct and its C z_closure macro names only its own parameters   *)
(* (spec: the generated header is included by C and by C++ programs).     *)
MacrosCompile == CppConstCorrect /\ ClosureMacroHygiene
(* The generated header is what spec 4.6 and 8 ask of it: it compiles in *)
(* C and C++ and its z_loan table lists every loan function of scenario 4.*)
GeneratedHeaderAsSpecified == MacrosCompile /\ LoanTableAsSpecified
====
