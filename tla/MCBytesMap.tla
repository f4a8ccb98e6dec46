----------------------------- MODULE MCBytesMap -----------------------------
(* Two map variables, one attachment variable, two keys and two values.   *)
(* No property names a particular slot, key or value, so behaviours that  *)
(* differ by a renaming of them are checked once.                         *)
EXTENDS BytesMap

CONSTANTS m1, m2, h1, k1, k2, v1, v2

Symmetry == Permutations(Slots) \cup Permutations(Keys) \cup Permutations(Vals)
====
