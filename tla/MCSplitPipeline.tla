--------------------------- MODULE MCSplitPipeline ---------------------------
(* split_bindings over headers of up to two declarations, each the         *)
(* prototype of a or of b or a balanced #ifdef block of up to two of them, *)
(* as cbindgen writes them, with guides routing by Shared ids and by the   *)
(* Function brand.                                                         *)
EXTENDS SplitPipeline

CONSTANTS f1, f2

Line(s)    == s \o <<"nl">>
IfdefA     == Line(<<"#ifdef ", "a">>)
EndifLine  == Line(<<"#endif">>)
PrototypeA == Line(<<"void", "sp", "a", "(", "b", ")", ";">>)
PrototypeB == Line(<<"void", "sp", "b", "(", "a", ")", ";">>)

Prototypes == {PrototypeA, PrototypeB}
Blocks == {IfdefA \o FlattenSeq(b) \o EndifLine : b \in BoundedSeq(Prototypes, 2)}
MCHeaders == {FlattenSeq(ds) : ds \in BoundedSeq(Prototypes \cup Blocks, 2)}

SharedA   == [kind |-> "Shared", arg |-> <<"a">>]
SharedB   == [kind |-> "Shared", arg |-> <<"b">>]
BrandFunctions == [kind |-> "Brand", arg |-> "Function"]
MCRules == {SharedA, SharedB, BrandFunctions}

(* f1 shares a and b; f2 takes every function, or shares b *)
MCGuides == {[f \in Files |-> IF f = f1 THEN <<SharedA, SharedB>> ELSE g2] :
               g2 \in {<<BrandFunctions>>, <<SharedB>>}}
====
