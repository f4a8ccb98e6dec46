-------------------------- MODULE MCHeaderPipeline --------------------------
(* Headers put together from the declaration shapes cbindgen writes into *)
(* zenoh-gen.h, each ending where the next may start.                    *)
EXTENDS HeaderPipeline

CONSTANT MaxFragments   \* how many declarations a header holds

Line(s)       == s \o <<"nl">>
IfdefA        == Line(<<"#ifdef ", "a">>)
ElseLine      == Line(<<"#else">>)
EndifLine     == Line(<<"#endif">>)
BlockComment  == <<"/*", "a", "*/">>
LineComment   == Line(<<"//", "a">>)
DefineA       == Line(<<"#define ", "a", "sp", "b">>)
DefinePrivate == Line(<<"#define ", "_", "a">>)
IncludeA      == <<"#include<", "a", ">">>
IncludeQuoted == <<"#include\"", "a", "\"">>
(* scenario 1 of the specification: a ';' inside the braces *)
TypedefStruct == <<"typedef", "sp", "struct", "{", "a", ";", "}", "b", ";">>
(* a function-pointer typedef, e.g. z_attachment_iter_body_t *)
TypedefFnPtr  == <<"typedef", "sp", "void", "(", "*", "a", ")", "(", "b", ")", ";">>
(* scenario 2 of the specification *)
ConstDecl     == <<"const", "sp", "b", "*", "a", ";">>
Prototype     == <<"void", "sp", "a", "(", "b", ")", ";">>
(* a prototype taking a const pointer, as most z_*_loan do *)
ConstParam    == <<"void", "sp", "a", "(", "const", "sp", "b", "*", ")", ";">>
(* a prototype taking a callback by function pointer *)
FnPtrParam    == <<"void", "sp", "a", "(", "void", "(", "*", "b", ")", "(", ")", ")", ";">>
(* a line no recognizer takes, e.g. the closing brace of extern "C" *)
Stray         == Line(<<"}">>)

(* every concatenation of at most MaxFragments fragments of F *)
HeadersOf(F) ==
    {FlattenSeq(fs) : fs \in BoundedSeq(F, MaxFragments)}

PassFragments ==
    {IfdefA, ElseLine, EndifLine, BlockComment, LineComment, DefineA, DefinePrivate,
     IncludeA, TypedefStruct, TypedefFnPtr, ConstDecl, Prototype, ConstParam, Stray}
MCHeaders == HeadersOf(PassFragments)
FnPtrHeaders == HeadersOf(PassFragments \cup {FnPtrParam})
QuotedIncludeHeaders == HeadersOf(PassFragments \cup {IncludeQuoted})
====
