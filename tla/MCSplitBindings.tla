--------------------------- MODULE MCSplitBindings ---------------------------
(* Model of split_bindings: two output files, two identifiers, every guide *)
(* of at most two rules per file over a mix of Brand, Shared and Exclusive *)
(* rules, and every short record sequence group_tokens can return.        *)
EXTENDS SplitBindings

CONSTANTS f1, f2, a, b

MCRules ==
    { [kind |-> "Brand", arg |-> "Function"], [kind |-> "Brand", arg |-> "Multiple"],
      [kind |-> "Shared", arg |-> a], [kind |-> "Exclusive", arg |-> a],
      [kind |-> "Shared", arg |-> b] }

(* a file lists each rule at most once *)
MCGuides == [Files -> {s \in BoundedSeq(MCRules, 2) : IsInjective(s)}]

(* sealed records are never Empty; the trailing accumulator may be *)
RecordShape ==
    [rt : {"Function", "Typedef", "Multiple", "PrivateToken"}, ids : SUBSET Ids]
EmptyTail == [rt |-> "Empty", ids |-> {}]

MCRecordSeqs ==
    {s \o t : s \in BoundedSeq(RecordShape, 2), t \in {<<>>, <<EmptyTail>>}}

FileSymmetry == Permutations(Files)
=============================================================================
